---------------------------- MODULE HandoffBase ----------------------------
(***************************************************************************)
(* What the parts of a browser handoff share: the background script of the *)
(* extension, the native host, the application with its engine and IPC     *)
(* server, and the windows of its UI thread.                               *)
(*                                                                         *)
(* The browser's downloads of one page are one capture family: the same    *)
(* file asked for again and again, by the page, by the user or by the      *)
(* extension that restores it.  A request is one native message, from a    *)
(* captured item or from the context menu.  A job is named by the request  *)
(* that added it.                                                          *)
(***************************************************************************)
EXTENDS IpcBridge, UpdateFlow, FiniteSets

CONSTANTS
  Urls, Scenarios,
  MaxItems, MaxReqs,  \* items of the browser, native messages
  RetryMax,           \* CONNECT_ATTEMPTS (10)
  MaxFaults, MaxHides, MaxPopups \* bounds

Items == 1..MaxItems
Reqs  == 1..MaxReqs

ASSUME HandoffAssumption ==
  /\ RetryMax \in Nat \ {0}
  /\ \A s \in Scenarios :
       /\ s.url \in [Reqs -> Urls]
       /\ s.firefox \in BOOLEAN            \* webRequest may block, or only downloads.onCreated
       /\ s.items \in 0..MaxItems          \* downloads that the page and the user start
       /\ s.clicks \in 0..MaxReqs          \* links sent from the context menu
       /\ s.ask \in BOOLEAN                \* hand off to a dialog, or straight to the queue
       /\ s.progress \in BOOLEAN           \* show_progress_after_handoff
       /\ s.up \in BOOLEAN                 \* the application runs at first
       /\ s.pipes \in Nat \ {0}            \* PIPE_MAX_INSTANCES (4); no limit on Unix
       /\ s.faults \subseteq {"kill", "death", "slow", "refuse", "open", "late",
                          "launch", "download", "stuck", "install", "spawn"}
       /\ s.linux \in BOOLEAN              \* how the updater closes, installs and fails
       /\ s.asks \in Nat                   \* what the user does about updates
       /\ s.version \in Versions           \* installed at first
       \* What happens to jobs, and what the user does with the windows.
       /\ s.may \subseteq {"end", "fail", "remove", "burst", "hide", "popup", "update"}

VARIABLES
  sc,      \* the scenario
  ext,     \* the background script: the family's session and what waits for it
  items,   \* the browser's downloads
  reqs,    \* the native messages, with the host process and the handler of each
  app,     \* the application: is it up, the engine's jobs and commands, state.json
  br,      \* IpcBridge
  ui,      \* the UI thread
  upd,     \* UpdateFlow, and the helper program
  orphans, \* history: URLs whose waiting window was closed by hiding the main window
  nfault, nhide, npopup

vars == <<sc, ext, items, reqs, app, br, ui, upd, orphans, nfault, nhide, npopup>>

Fault(kind) == kind \in sc.faults /\ nfault < MaxFaults /\ nfault' = nfault + 1
NoFault == UNCHANGED nfault

FreeReq == {r \in Reqs : reqs[r].host = "none" /\ \A q \in Reqs : q < r => reqs[q].host # "none"}
FreeItem(its) == {k \in Items : its[k].st = "none" /\ \A l \in Items : l < k => its[l].st # "none"}
=============================================================================
