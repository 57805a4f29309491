----------------------------- MODULE MCHandoff -----------------------------
(***************************************************************************)
(* Instances of Handoff.                                                   *)
(***************************************************************************)
EXTENDS Handoff, TLC

CONSTANTS u1, u2

Same == [r \in Reqs |-> u1]
Two  == [r \in Reqs |-> IF r = 1 THEN u1 ELSE u2]

MCPublished == [c \in Channels |-> [nightly |-> c = "nightly", n |-> 2]]
Installed == [nightly |-> FALSE, n |-> 1]

Browser(firefox, ask, up, faults, may) ==
  [url |-> Same, firefox |-> firefox, items |-> 2, clicks |-> 0, ask |-> ask, progress |-> FALSE,
   up |-> up, pipes |-> 2, linux |-> FALSE, asks |-> 0, version |-> Installed,
   faults |-> faults, may |-> may]
Menu(n, url, pipes, ask, faults, may) ==
  [url |-> url, firefox |-> FALSE, items |-> 0, clicks |-> n, ask |-> ask, progress |-> TRUE,
   up |-> TRUE, pipes |-> pipes, linux |-> FALSE, asks |-> 0, version |-> Installed,
   faults |-> faults, may |-> may]
Update(linux, n, clicks, asks) ==
  [Browser(FALSE, FALSE, TRUE, {"launch", "download", "stuck", "install", "spawn"}, {"update"})
     EXCEPT !.items = n, !.clicks = clicks, !.asks = asks, !.linux = linux]

MCScenarios ==
  { \* A page that asks again and again, in both browsers, with the application up or down.
    Browser(FALSE, FALSE, FALSE, {"death", "late"}, {"fail", "burst"}),
    Browser(FALSE, TRUE, TRUE, {"kill"}, {"fail"}),
    Browser(TRUE, TRUE, TRUE, {"kill"}, {}),
    Browser(TRUE, FALSE, TRUE, {"slow", "refuse"}, {"end", "fail", "remove"}),
    \* Links from the context menu, with windows.
    Menu(1, Same, 2, TRUE, {"open"}, {"end", "remove", "hide", "popup", "burst"}),
    Menu(2, Two, 2, TRUE, {"open"}, {}),
    Menu(2, Same, 2, TRUE, {}, {"hide"}),
    Menu(2, Same, 1, FALSE, {"death"}, {}),
    Menu(2, Two, 1, FALSE, {}, {"end", "hide"}),
    Menu(2, Same, 2, FALSE, {}, {"end", "popup"}),
    \* An update with a handoff in the middle of it, and a user who updates twice.
    Update(FALSE, 1, 0, 2), Update(TRUE, 0, 1, 2), Update(FALSE, 0, 0, 5), Update(TRUE, 0, 0, 4) }
=============================================================================
