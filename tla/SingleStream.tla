---------------------------- MODULE SingleStream ----------------------------
(***************************************************************************)
(* One connection: run_http_download_with_ctx.  The loop asks for what is  *)
(* missing of the .part, sorts out the answer (206, 416, a full body where *)
(* a range was asked for), commits what it learned, opens the file, writes *)
(* the body, and reconnects on the errors that are worth it.               *)
(*                                                                         *)
(* The wait for a permit is ConnectionBudget's.  The guard that refuses a  *)
(* row with a map has no state here: Transfer sends such a row elsewhere.  *)
(* Answers that no honest server gives (a range that starts elsewhere, an  *)
(* encoded body, a 206 without Content-Range) are Refused.                 *)
(***************************************************************************)
EXTENDS TransferBase

VARIABLES
  off,  \* existing_bytes, then the offset of the sink
  lp,   \* the loop's counters, the candidate and known_size_retired
  resp  \* the response in hand

single == <<off, lp, resp>>

NoLoop == [short |-> 0, fresh |-> 0, rejects |-> 0, mism |-> 0, cand |-> 0, retired |-> FALSE,
           keep |-> TRUE, replayed |-> FALSE]
NoResp == [kind |-> "none", ent |-> NoEntity, sized |-> FALSE, from |-> 0, expected |-> 0,
           adopts |-> FALSE, limit |-> 0]

\* pending_lengthless_confirm.
Candidate(r, len) == IF len > 0 /\ r.down = len /\ r.total = 0 /\ r.exp = 0 /\ r.tag # NoEntity
                     THEN len ELSE 0

\* resume_identity_mismatch: a validator that one side lacks proves nothing.
\* Mutation: never a mismatch.
MismatchNever(r, e) == FALSE
Mismatch(r, e) == r.tag # NoEntity /\ r.tag # e

\* The job as it is when the attempt ends: emit_control_exit_progress, checkpoint_partial.
Ticked(n) == row' = [row EXCEPT !.down = n] /\ UNCHANGED saved
Checkpointed(r, n) == IF n = 0 THEN r ELSE [r EXCEPT !.down = n]

SIdle == off' = 0 /\ lp' = NoLoop /\ resp' = NoResp
EndSingle(o) == /\ End(o) /\ SIdle
                /\ UNCHANGED <<world, ctl, nattempt, nrestart>>
Fail == EndSingle("failed")
GiveUp(n) == Fail /\ Commit(Checkpointed(row, n)) /\ UNCHANGED files /\ NoFault

Go(s) == stage' = s /\ UNCHANGED <<world, ctl, outcome, nattempt, nrestart>>

SingleSetup ==
  /\ stage = "single"
  /\ LET len == IF row.rejected THEN 0 ELSE Length(part)
         cand == Candidate(row, len)
     IN /\ off' = len
        /\ lp' = [NoLoop EXCEPT !.cand = cand, !.retired = cand > 0]
  /\ Go("fetch") /\ UNCHANGED <<files, rows, resp, nfault, nshort>>

\* The control is looked at while the answer is awaited, when it is there, and in a backoff.
InterruptAt(s) ==
  /\ stage = s /\ ~Running
  /\ EndSingle(Stopped) /\ UNCHANGED <<files, rows, nshort>> /\ NoFault
InterruptSend   == InterruptAt("fetch")
InterruptAnswer == InterruptAt("respond")
InterruptSleep  == InterruptAt("sleep")

\* can_mid_transfer_reconnect and ranges_usable_for_reconnect; l is the loop's state by then.
\* Mutation: the attempts are not counted.
CanReconnectAlways(l, n, r, lengthless) == n = 0 \/ r.resume \/ ~lengthless
CanReconnect(l, n, r, lengthless) ==
  l.short < ReconnectMax /\ (n = 0 \/ r.resume \/ ~lengthless)

\* prepare_reconnect up to its sleep, or giving up.
Reconnect(l, n, r, lengthless) ==
  \/ /\ CanReconnect(l, n, r, lengthless)
     /\ lp' = l /\ off' = n /\ resp' = NoResp
     /\ row' = [r EXCEPT !.down = n] /\ UNCHANGED saved
     /\ Go("sleep")
  \/ ~CanReconnect(l, n, r, lengthless) /\ Fail /\ Commit(Checkpointed(r, n))

\* The backoff is over.  A rejected .part, or one a map described, does not tell the offset.
\* A partial that was rejected often enough is removed here.
Wake ==
  /\ stage = "sleep" /\ Running
  /\ lp' = [lp EXCEPT !.short = @ + 1, !.keep = TRUE]
  /\ IF lp.keep
     THEN off' = (IF row.rejected \/ row.fmt >= 1 \/ part = Empty THEN off ELSE Length(part))
          /\ UNCHANGED <<part, disk>> /\ NoFault
     ELSE /\ off' = 0
          /\ \/ Store(Empty) /\ NoFault
             \/ Fault("replace") /\ UNCHANGED <<part, disk>>
  /\ Go("fetch") /\ UNCHANGED <<final, rows, resp, nshort>>

-----------------------------------------------------------------------------
\* fetch_range and classify_range_status

AnswerKind ==
  IF off = 0 THEN "zero"
  ELSE IF ~Honours(off + 1) THEN "full"
  ELSE IF off < Size(cur) THEN "part" ELSE "416"

Fetch ==
  /\ stage = "fetch" /\ Running
  /\ resp' = [NoResp EXCEPT !.kind = AnswerKind, !.ent = cur, !.from = off,
                !.sized = AnswerKind = "part" \/ sc.framing = "length",
                !.expected = ExpectedSize(row)]
  /\ Go("respond") /\ UNCHANGED <<files, rows, off, lp, nfault, nshort>>

\* No answer, a stall, or a status worth a retry.
FetchFails ==
  /\ stage = "fetch" /\ Running
  /\ Reconnect(lp, off, row, FALSE) /\ UNCHANGED <<files, nshort>> /\ NoFault

\* session_url_after_auth_denied: a stale hop gets its URL anew, once.
Replay ==
  /\ stage = "fetch" /\ Running /\ sc.hop /\ ~lp.replayed
  /\ lp' = [lp EXCEPT !.replayed = TRUE]
  /\ Go("fetch") /\ UNCHANGED <<files, rows, off, resp, nfault, nshort>>

\* A status or an answer that is not.
Refused ==
  /\ stage = "fetch" /\ Running
  /\ Fail /\ (Commit(Checkpointed(row, off)) \/ UNCHANGED rows)
  /\ UNCHANGED <<files, nshort>> /\ NoFault

\* discard_rejected_partial: the bytes belong to a body that was refused.
Discard ==
  /\ Fail /\ UNCHANGED final
  /\ \/ Store(Empty) /\ Commit([row EXCEPT !.down = 0, !.rejected = FALSE]) /\ NoFault
     \/ /\ Fault("discard") /\ UNCHANGED <<part, disk>>
        /\ Commit([row EXCEPT !.down = 0, !.rejected = TRUE])

\* finish_downloaded_entity: Transfer moves the file to its final name.
Finish(n) == off' = n /\ Go("finish") /\ UNCHANGED <<lp, resp, files, rows>>
FinishedSingle ==
  [row EXCEPT !.down = off, !.total = IF @ = 0 THEN off ELSE @, !.rejected = FALSE, !.fmt = 0, !.map = NoMap]

Confirms(n) == lp.cand = n /\ n > 0 /\ row.tag = resp.ent

\* unsatisfied_content_range_total.
UnsatisfiedTotal == Size(resp.ent)

Respond416 ==
  /\ stage = "respond" /\ Running /\ resp.kind = "416"
  /\ IF Confirms(off) /\ off = UnsatisfiedTotal
     THEN Finish(off)
     ELSE LET keep == lp.rejects < RejectMax
              l == IF keep THEN [lp EXCEPT !.rejects = @ + 1]
                   ELSE [lp EXCEPT !.fresh = @ + 1, !.keep = FALSE]
          IN IF l.fresh > FreshMax THEN GiveUp(off)
             ELSE Reconnect(l, off, row, FALSE) /\ UNCHANGED files
  /\ NoFault /\ UNCHANGED nshort

\* content_length_size_mismatch of a body that has to be the file we know.
WrongLength == resp.sized /\ resp.expected > 0 /\ Size(resp.ent) # resp.expected

\* A 200 where a range was asked for.  A server that never advertised ranges must not cost the
\* partial; nor must a body of another size, or one without a size while the size is open.
KeepsPartial ==
  \/ ~row.resume
  \/ ~Mismatch(row, resp.ent) /\ (WrongLength \/ (~resp.sized /\ (lp.retired \/ lp.cand > 0)))

\* That body without a size can tell whether the candidate is complete.
Confirmable == /\ row.resume /\ ~Mismatch(row, resp.ent) /\ ~resp.sized
               /\ (lp.retired \/ lp.cand > 0) /\ Confirms(off)

Replaced == /\ off' = 0
            /\ \/ Store(Empty) /\ NoFault
               \/ Fault("replace") /\ UNCHANGED <<part, disk>>

RespondFull ==
  /\ stage = "respond" /\ Running /\ resp.kind = "full" /\ UNCHANGED <<nshort, final, rows, resp>>
  /\ ~KeepsPartial /\ lp.fresh < FreshMax
  /\ lp' = [lp EXCEPT !.fresh = @ + 1]
  /\ Replaced /\ Go("accept")

RespondKept ==
  /\ stage = "respond" /\ Running /\ resp.kind = "full" /\ UNCHANGED nshort
  /\ IF Confirmable
     THEN Go("confirm") /\ NoFault /\ UNCHANGED <<files, rows, off, lp, resp>>
     ELSE (KeepsPartial \/ lp.fresh >= FreshMax) /\ GiveUp(off)

RespondPartial ==
  /\ stage = "respond" /\ Running /\ resp.kind = "part" /\ NoFault /\ UNCHANGED <<files, rows, nshort>>
  /\ IF Mismatch(row, resp.ent)
     THEN Fail
     ELSE /\ lp' = [lp EXCEPT !.fresh = 0, !.rejects = 0]
          /\ Go("accept") /\ UNCHANGED <<off, resp>>

RespondZero ==
  /\ stage = "respond" /\ Running /\ resp.kind = "zero" /\ NoFault /\ UNCHANGED <<files, rows, nshort>>
  /\ lp' = [lp EXCEPT !.rejects = 0]
  /\ Go("accept") /\ UNCHANGED <<off, resp>>

\* A body that ends with its connection may end early, and a connection may break; that this
\* happens at exactly the length the client expects is left out, for nothing could tell.
Coincides(n, e) == n = resp.limit /\ n < Size(e)
CanEnd(n, e) == \/ n = Size(e)
                \/ sc.framing = "close" /\ n < Size(e) /\ ~Coincides(n, e) /\ nshort < MaxShort
EndsAt(n, e) == nshort' = nshort + (IF n < Size(e) THEN 1 ELSE 0)

\* The body that repeats a candidate is counted, not written: complete, cut, or too long.
ConfirmMatches ==
  /\ stage = "confirm" /\ Running
  /\ CanEnd(off, resp.ent) /\ EndsAt(off, resp.ent)
  /\ Finish(off) /\ NoFault

ConfirmDiffers ==
  /\ stage = "confirm" /\ Running
  /\ \E n \in Pos : n # off /\ CanEnd(n, resp.ent) /\ EndsAt(n, resp.ent)
  /\ UNCHANGED files /\ NoFault
  /\ IF lp.mism >= MismatchMax THEN Fail /\ Commit(Checkpointed(row, off))
     ELSE Reconnect([lp EXCEPT !.mism = @ + 1], off, row, FALSE)

ConfirmFails ==
  /\ stage = "confirm" /\ UNCHANGED <<files, nshort>> /\ NoFault
  /\ IF Running THEN Reconnect(lp, off, row, FALSE) ELSE EndSingle(Stopped) /\ UNCHANGED rows

-----------------------------------------------------------------------------
\* The accepted answer: its identity is committed, the file opened, the body written

Adopts == resp.kind = "full" /\ Mismatch(row, resp.ent)
\* The total that the answer gives; without one, what is known already unless it is retired.
KnownWithoutLength == IF lp.retired THEN 0 ELSE IF row.total > 0 THEN row.total ELSE row.exp
TotalOf == IF resp.sized THEN Size(resp.ent) ELSE IF Adopts THEN 0 ELSE KnownWithoutLength
Retired == ~resp.sized /\ (Adopts \/ lp.retired)

AcceptedRow ==
  LET fresh == resp.kind = "full"
  IN [row EXCEPT !.down = off, !.total = TotalOf, !.tag = resp.ent,
        !.exp = IF TotalOf > 0 \/ fresh THEN TotalOf ELSE @,
        !.resume = @ \/ resp.kind = "part" \/ sc.advert,
        !.fmt = IF fresh THEN 0 ELSE @, !.map = IF fresh THEN NoMap ELSE @]

RangeTotalDiffers == row.exp > 0 /\ Size(resp.ent) # row.exp
SizeRefused == ~Adopts /\ IF resp.kind = "part" THEN RangeTotalDiffers ELSE WrongLength

Accept ==
  /\ stage = "accept" /\ UNCHANGED <<files, nshort>>
  /\ IF SizeRefused THEN Fail /\ UNCHANGED rows /\ NoFault
     ELSE \/ /\ Commit(AcceptedRow) /\ NoFault
             /\ lp' = [lp EXCEPT !.retired = Retired]
             /\ resp' = [resp EXCEPT !.adopts = Adopts, !.limit = TotalOf]
             /\ Go("open") /\ UNCHANGED off
          \/ CommitFails(AcceptedRow) /\ Fail

\* AppendSink::open.
OpenSink(n) == IF n = 0 THEN Store(Empty) ELSE UNCHANGED <<part, disk>>

\* Offset 0 truncates, and so does a rejected file whatever its length.
Open ==
  /\ stage = "open" /\ UNCHANGED <<final, nshort>>
  /\ LET n == IF row.rejected THEN 0 ELSE off
     IN \/ /\ off' = n /\ resp' = [resp EXCEPT !.from = n] /\ NoFault
           /\ OpenSink(n)
           /\ IF row.rejected
              THEN Commit([row EXCEPT !.rejected = FALSE, !.map = NoMap, !.fmt = 0, !.down = 0])
              ELSE UNCHANGED rows
           /\ Go("body") /\ UNCHANGED lp
        \/ /\ n = 0 /\ part # Empty
           /\ Fault(IF row.rejected THEN "discard" ELSE "replace")
           /\ Fail /\ UNCHANGED <<part, disk, rows>>

Room == resp.limit = 0 \/ off < resp.limit

Chunk ==
  /\ stage = "body" /\ off < Size(resp.ent) /\ Room
  /\ part' = Written(part, off + 1, resp.ent) /\ off' = off + 1
  /\ Go("body") /\ UNCHANGED <<disk, final, rows, lp, resp, nfault, nshort>>

\* A known size is a hard end.
Overlong ==
  /\ stage = "body" /\ off < Size(resp.ent) /\ ~Room
  /\ Discard /\ UNCHANGED nshort

SyncsOnExit == ctl = "pause"

\* The control is looked at between chunks and at the end; a pause syncs.
StopBody ==
  /\ stage = "body" /\ ~Running /\ UNCHANGED <<final, nshort>>
  /\ \/ /\ IF SyncsOnExit THEN Sync ELSE UNCHANGED <<part, disk>>
        /\ EndSingle(Stopped) /\ Ticked(off) /\ NoFault
     \/ SyncsOnExit /\ Fault("sync") /\ Fail /\ Ticked(off) /\ UNCHANGED <<part, disk>>

KnownSizeDiffers(n) == resp.expected > 0 /\ n # resp.expected

\* lengthless_size_mismatch of a body that ended here.
EndsWrong(n) == ~resp.adopts /\ ~resp.sized /\ KnownSizeDiffers(n)

\* stream_body's clean end: the sink's target, or a framed end, tells whether it is complete.
Complete == IF resp.limit > 0 THEN off >= resp.limit ELSE sc.framing # "close"

Exhausted ==
  IF EndsWrong(off) THEN Discard
  ELSE \/ Finish(off) /\ NoFault
       \/ Fault("sync") /\ Fail /\ Ticked(off) /\ UNCHANGED files

\* A clean close before the end of the file, or without a length.
Short ==
  LET lengthless == resp.limit = 0
  IN IF lengthless /\ resp.adopts /\ off > 0
     THEN \* The validators have changed: what came is a candidate, to be confirmed.
          /\ Sync /\ UNCHANGED final /\ NoFault
          /\ LET l == [lp EXCEPT !.cand = off, !.mism = 0, !.retired = TRUE, !.short = 0]
                 r == Checkpointed([row EXCEPT !.total = 0, !.exp = 0], off)
             IN /\ row' = r /\ saved' = r
                /\ lp' = l /\ resp' = NoResp /\ UNCHANGED off /\ Go("sleep")
     ELSE IF EndsWrong(off) THEN Discard
     ELSE /\ Reconnect(IF off > resp.from THEN [lp EXCEPT !.short = 0] ELSE lp, off, row, lengthless)
          /\ UNCHANGED files /\ NoFault

BodyEnds ==
  /\ stage = "body" /\ Running /\ CanEnd(off, resp.ent) /\ EndsAt(off, resp.ent)
  /\ IF Complete THEN Exhausted ELSE Short

\* The connection breaks, or nothing comes for STALL_TIMEOUT.  After the last byte it is the end.
BodyBreaks ==
  /\ stage = "body" /\ ~Coincides(off, resp.ent) /\ UNCHANGED nshort
  /\ IF resp.limit > 0 /\ off >= resp.limit THEN Exhausted
     ELSE /\ Running
          /\ Reconnect(IF off > resp.from THEN [lp EXCEPT !.short = 0] ELSE lp, off, row, FALSE)
          /\ UNCHANGED files /\ NoFault

SingleNext ==
  \/ SingleSetup \/ InterruptSend \/ InterruptAnswer \/ InterruptSleep \/ Wake
  \/ Fetch \/ Replay \/ FetchFails \/ Refused
  \/ Respond416 \/ RespondFull \/ RespondKept \/ RespondPartial \/ RespondZero
  \/ ConfirmMatches \/ ConfirmDiffers \/ ConfirmFails
  \/ Accept \/ Open \/ Chunk \/ Overlong \/ StopBody \/ BodyEnds \/ BodyBreaks
=============================================================================
