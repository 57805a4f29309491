----------------------------- MODULE UpdateFlow -----------------------------
(***************************************************************************)
(* What the application keeps about updates, as a record, and its changes  *)
(* (app/update_flow, updater/version.rs) as functions of that record, each *)
(* one turn of the UI thread.  The check itself runs on a thread of its    *)
(* own and is named by the channel it asks and by whether its generation   *)
(* (update_check_gen) is still the current one.                            *)
(*                                                                         *)
(* A version is nightly or not, and has a number among those of its kind.  *)
(***************************************************************************)
EXTENDS Integers

CONSTANT Published  \* the release that each channel has

Channels  == {"stable", "nightly"}
NoVersion == [nightly |-> FALSE, n |-> 0]
Versions  == [nightly : BOOLEAN, n : Nat \ {0}]

ASSUME PublishedAssumption ==
  /\ Published \in [Channels -> Versions]
  /\ \A c \in Channels : Published[c].nightly = (c = "nightly")

\* should_offer_on_channel: a change of channel offers also a lower version.
ShouldOffer(latest, current, channel) ==
  /\ latest # current /\ latest.nightly = (channel = "nightly")
  /\ current.nightly = latest.nightly => latest.n > current.n

\* check_for_update with compare_release.
Offered(channel, current) ==
  IF ShouldOffer(Published[channel], current, channel) THEN Published[channel] ELSE NoVersion

\* helper, to, mine, disk, overtaken belong to Updater.
NewUpdate(version) ==
  [channel |-> "stable", busy |-> FALSE, offer |-> NoVersion, checks |-> {}, quit |-> "no",
   ver |-> version, notes |-> NoVersion, unread |-> NoVersion, asked |-> 0,
   helper |-> "none", to |-> NoVersion, mine |-> FALSE, disk |-> version, overtaken |-> FALSE]

\* update_check_gen + 1.
Outdated(u) == [u EXCEPT !.checks = {[c EXCEPT !.fresh = FALSE] : c \in @}]

\* begin_update_check.
BeginCheck(u) ==
  IF u.busy THEN u
  ELSE [Outdated(u) EXCEPT !.busy = TRUE, !.checks = @ \cup {[channel |-> u.channel, fresh |-> TRUE]}]

\* Mutation: the generation is not compared.
CheckFinishedLate(u, c, ok) ==
  [u EXCEPT !.checks = @ \ {c}, !.busy = FALSE, !.offer = IF ok THEN Offered(c.channel, u.ver) ELSE @]

\* on_update_check_finished.  A check that failed leaves an earlier offer.
CheckFinished(u, c, ok) ==
  LET done == [u EXCEPT !.checks = @ \ {c}]
  IN IF ~c.fresh THEN done
     ELSE [done EXCEPT !.busy = FALSE, !.offer = IF ok THEN Offered(c.channel, u.ver) ELSE @]

\* set_update_channel.
Switched(u, channel) ==
  [Outdated(u) EXCEPT !.channel = channel, !.offer = NoVersion, !.busy = FALSE]

\* begin_apply_update up to the launch, and what a failed launch takes back.
Applying(u) == [Outdated(u) EXCEPT !.busy = TRUE, !.notes = u.offer]
NotLaunched(u) == [Applying(u) EXCEPT !.busy = FALSE, !.notes = NoVersion]

\* open_whats_new_dialog.
Acknowledged(u) == [u EXCEPT !.unread = NoVersion, !.notes = NoVersion]

\* The memory of a process ends with it.
Ended(u) ==
  [u EXCEPT !.busy = FALSE, !.offer = NoVersion, !.checks = {}, !.quit = "no",
            !.unread = NoVersion, !.mine = FALSE]

\* A new process runs what is installed, takes the notes if they are of its version and
\* removes them if not, and checks for updates.
NewProcess(u) ==
  LET kept == IF u.notes = u.disk THEN u.notes ELSE NoVersion
  IN BeginCheck([Ended(u) EXCEPT !.ver = u.disk, !.notes = kept, !.unread = kept])
=============================================================================
