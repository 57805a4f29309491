--------------------------- MODULE MultiTransfer ----------------------------
(***************************************************************************)
(* Several connections, one for each segment of the file:                  *)
(* run_multi_segment_download.  The start commits the map before it makes  *)
(* the file long, the segment workers write their own ranges and count     *)
(* what they wrote, a stop or an end syncs the file and commits the counts *)
(* that the sync is known to have covered.  Without one byte written the   *)
(* transfer turns back to a single stream.                                 *)
(***************************************************************************)
EXTENDS TransferBase

VARIABLES
  live,  \* SharedMulti.map: the counts as they grow, NoMap outside
  floor, \* SharedMulti.synced_written: what the last sync is known to cover
  seg,   \* each segment's worker
  err,   \* first_error is set
  fresh  \* this attempt made the map

multi == <<live, floor, seg, err, fresh>>

\* A worker: its program point, its short reconnects, its count before the answer, the entity
\* and the end of the answer, where the sink is, and the counts it read before its sync.
NoWorker == [at |-> "end", short |-> 0, base |-> 0, ent |-> NoEntity, upto |-> 0, next |-> 0,
             sample |-> <<>>]
NoSegs == <<>>

MIdle == live' = NoMap /\ floor' = NoSegs /\ seg' = NoSegs /\ err' = FALSE /\ fresh' = FALSE
MEnd(o) == End(o) /\ MIdle /\ UNCHANGED <<world, ctl, nattempt, nshort, nrestart>>
MFail == MEnd("failed")
MGo(s) == stage' = s /\ UNCHANGED <<world, ctl, outcome, nattempt, nshort, nrestart>>
Segs == DOMAIN seg

\* multi_identity_commit.
MapRow(r, m) == [r EXCEPT !.fmt = 1, !.map = m, !.total = m.total, !.down = WrittenSum(m), !.resume = TRUE]
\* rollback_multi_identity.
RolledBack(r) == [r EXCEPT !.fmt = 0, !.map = NoMap]

-----------------------------------------------------------------------------
\* The start

KnownTotal == IF row.map # NoMap THEN row.map.total ELSE IF row.total > 0 THEN row.total ELSE row.exp

\* Rejected bytes, and bytes that no map describes, are for a single stream.
MultiDeclined ==
  /\ stage = "multi" /\ MGo("single") /\ UNCHANGED <<files, multi>> /\ NoFault
  /\ \/ row.rejected /\ UNCHANGED rows
     \/ /\ ~row.rejected /\ row.map = NoMap
        /\ Length(part) > 0 /\ ~UntrackedHole(row, Length(part))
        /\ Commit(RolledBack(row))

\* fail_start: a map of this attempt is taken back, and the file made long for it removed.
FailStart(long, r) ==
  /\ MFail /\ UNCHANGED final
  /\ IF row.map = NoMap \/ fresh
     THEN Commit(RolledBack(r)) /\ (IF long THEN Store(Empty) ELSE UNCHANGED <<part, disk>>)
     ELSE row' = r /\ UNCHANGED <<saved, part, disk>>

\* prepare_segment_map.
PreparedMap(n) == IF row.map = NoMap THEN FreshMap(n) ELSE row.map
ConsistentWith(n) == row.map = NoMap \/ row.exp \in {0, n}

\* The start up to the first commit.
MultiStart ==
  /\ stage = "multi" /\ ~row.rejected
  /\ row.map = NoMap => Length(part) = 0 \/ UntrackedHole(row, Length(part))
  /\ LET n == KnownTotal
         m == PreparedMap(n)
     IN IF ~ConsistentWith(n)
        THEN MFail /\ UNCHANGED <<files, rows>> /\ NoFault
        ELSE \/ /\ Commit(MapRow(row, m)) /\ NoFault
                /\ fresh' = (row.map = NoMap)
                /\ IF row.map = NoMap THEN Store(Empty) ELSE UNCHANGED <<part, disk>>
                /\ MGo("long") /\ UNCHANGED <<final, live, floor, seg, err>>
             \/ Fault("commit") /\ FailStart(FALSE, MapRow(row, m))

\* The counts that are known to be synced when the workers start: those of the row.
\* Mutation: none is.
FloorOfNone(m) == [s \in DOMAIN m.written |-> 0]
FloorOf(m) == m.written

\* run_segment_workers: a worker for every segment that is not written yet.
StartWorkers ==
  /\ live' = row.map /\ floor' = FloorOf(row.map) /\ err' = FALSE
  /\ seg' = [s \in DOMAIN row.map.written |->
               [NoWorker EXCEPT !.at = IF row.map.written[s] < SegLen(row.map.total, s)
                                       THEN "fetch" ELSE "end"]]
  /\ MGo(IF AllWritten(row.map) THEN "finalize" ELSE "workers")
  /\ UNCHANGED fresh

\* try_preallocate, the second commit and SegmentFileWriter::open.
MakeLong ==
  /\ stage = "long"
  /\ \/ /\ StartWorkers /\ UNCHANGED <<final, rows>> /\ NoFault
        /\ \/ UNCHANGED <<part, disk>>
           \/ /\ ~AllWritten(row.map)
              /\ part' = SetLen(part, row.map.total) /\ disk' = SetLen(disk, row.map.total)
     \/ \E long \in BOOLEAN : Fault("space") /\ FailStart(long, row)

-----------------------------------------------------------------------------
\* A segment's worker

First(s) == SegFirst(live.total, s)
Last(s)  == First(s) + SegLen(live.total, s) - 1
Next_(s) == First(s) + live.written[s]
More(s)  == seg[s].next <= seg[s].upto
Put(s, r) == seg' = [seg EXCEPT ![s] = r]
Ended(s)  == Put(s, NoWorker)
MSame == UNCHANGED <<world, ctl, outcome, stage, nattempt, nshort, nrestart, final, rows, fresh>>
InWorkers(s, p) == stage = "workers" /\ s \in Segs /\ seg[s].at = p

\* Every place outside a body that finds the control stopped.
SegInterrupt(s) ==
  /\ InWorkers(s, "fetch") /\ ~Running /\ Ended(s)
  /\ MSame /\ UNCHANGED <<part, disk, live, floor, err>> /\ NoFault

SegError(s) == Ended(s) /\ err' = TRUE /\ UNCHANGED <<part, disk, live, floor>> /\ NoFault

\* try_segment_reconnect.  The backoff, and the wait for a permit, are the state before the fetch.
\* Mutation: the attempts are not counted.
SegRetryAlways(s, short) ==
  Put(s, [NoWorker EXCEPT !.at = "fetch", !.short = short]) /\ NoFault
    /\ UNCHANGED <<part, disk, live, floor, err>>
SegRetry(s, short) ==
  IF short < ReconnectMax
  THEN Put(s, [NoWorker EXCEPT !.at = "fetch", !.short = short + 1]) /\ NoFault
       /\ UNCHANGED <<part, disk, live, floor, err>>
  ELSE SegError(s)

\* classify_segment_status: a 206 of the file we know, or of a prefix of what is missing.
SliceOf(s) == /\ Honours(Next_(s)) /\ Next_(s) <= Size(cur)
              /\ row.exp \in {0, Size(cur)}

SegFetch(s) ==
  /\ InWorkers(s, "fetch") /\ Running /\ SliceOf(s)
  /\ \E e \in Next_(s)..Least(Last(s), Size(cur)) :
       Put(s, [seg[s] EXCEPT !.at = "body", !.ent = cur, !.upto = e,
                       !.base = live.written[s], !.next = Next_(s)])
  /\ MSame /\ UNCHANGED <<part, disk, live, floor, err>> /\ NoFault

\* No 206, one of another size, a status that is not worth a retry.
SegRefused(s) == InWorkers(s, "fetch") /\ Running /\ SegError(s) /\ MSame

\* No answer, a stall, a status that is.
SegFetchFails(s) == InWorkers(s, "fetch") /\ Running /\ SegRetry(s, seg[s].short) /\ MSame

\* PositionedSink::write_chunk and the callback, which counts from the sink: a count that
\* another worker's failed sync took back comes again with the next chunk.
SegChunk(s) ==
  /\ InWorkers(s, "body") /\ More(s)
  /\ part' = Written(part, seg[s].next, seg[s].ent)
  /\ live' = [live EXCEPT !.written[s] = seg[s].next - First(s) + 1]
  /\ Put(s, [seg[s] EXCEPT !.next = @ + 1])
  /\ MSame /\ UNCHANGED <<disk, floor, err>> /\ NoFault

\* The whole segment is there, or a shorter answer's part of it.
SegEnds(s) ==
  /\ InWorkers(s, "body") /\ ~More(s)
  /\ Put(s, [NoWorker EXCEPT !.at = IF Next_(s) > Last(s) THEN "end" ELSE "fetch"])
  /\ MSame /\ UNCHANGED <<part, disk, live, floor, err>> /\ NoFault

SegBreaks(s) ==
  /\ InWorkers(s, "body") /\ Running /\ More(s)
  /\ SegRetry(s, IF live.written[s] > seg[s].base THEN 0 ELSE seg[s].short) /\ MSame

\* A stop in the body: a pause reads the counts, syncs, and raises the floor to what it read.
SegStop(s) ==
  /\ InWorkers(s, "body") /\ ~Running
  /\ IF ctl = "pause" THEN Put(s, [NoWorker EXCEPT !.at = "sync", !.sample = live.written]) ELSE Ended(s)
  /\ MSame /\ UNCHANGED <<part, disk, live, floor, err>> /\ NoFault

Clamped(m, f) == [m EXCEPT !.written = [s \in DOMAIN f |-> Least(m.written[s], f[s])]]

SegSync(s) ==
  /\ InWorkers(s, "sync") /\ MSame
  /\ \/ Sync /\ floor' = seg[s].sample /\ Ended(s) /\ UNCHANGED <<live, err>> /\ NoFault
     \/ /\ Fault("sync") /\ UNCHANGED <<part, disk, floor>>
        /\ live' = Clamped(live, floor) /\ Ended(s) /\ err' = TRUE

\* abort_all after the first error: a write that is under way ends, but is not counted.
SegAborted(s) ==
  /\ stage = "workers" /\ err /\ s \in Segs /\ seg[s].at # "end" /\ Ended(s)
  /\ \/ UNCHANGED part
     \/ /\ seg[s].at = "body" /\ More(s)
        /\ part' = Written(part, seg[s].next, seg[s].ent)
  /\ MSame /\ UNCHANGED <<disk, live, floor, err>> /\ NoFault

-----------------------------------------------------------------------------
\* The end

\* All workers have ended: the last sync_writer_or_clamp, then what it comes to.
\* Mutation: counts stay as they are when the sync fails.
JoinedUnclamped(ok) == live
JoinedMap(ok) == IF ok THEN live ELSE Clamped(live, floor)
Join ==
  /\ stage = "workers" /\ \A s \in Segs : seg[s].at = "end"
  /\ \E ok \in BOOLEAN :
       LET m == JoinedMap(ok)
       IN /\ live' = m
          /\ IF ok THEN Sync /\ NoFault ELSE Fault("sync") /\ UNCHANGED <<part, disk>>
          /\ MGo(IF ~Running THEN "stopping" ELSE IF AllWritten(m) THEN "finalize" ELSE "failing")
  /\ seg' = NoSegs /\ floor' = NoSegs /\ UNCHANGED <<final, rows, err, fresh>>

\* persist_map_exit after a stop; a second sync decides between the outcome and an error.
MultiStopped ==
  /\ stage = "stopping" /\ UNCHANGED final
  /\ \/ Sync /\ Commit(MapRow(row, live)) /\ MEnd(Stopped) /\ NoFault
     \/ Fault("sync") /\ UNCHANGED <<part, disk>> /\ Commit(MapRow(row, live)) /\ MFail
     \/ CommitFails(MapRow(row, live)) /\ Sync /\ MFail

\* An error with something written keeps the map; without, the job goes on with one connection.
MultiFailed ==
  /\ stage = "failing" /\ UNCHANGED final
  /\ \/ /\ ~AllZero(live) /\ MFail
        /\ \/ Commit(MapRow(row, live)) /\ NoFault
           \/ CommitFails(MapRow(row, live))
        /\ (Sync \/ UNCHANGED <<part, disk>>)
     \/ /\ AllZero(live) /\ NoFault
        /\ Store(Empty) /\ Commit(RolledBack(MapRow(row, live)))
        /\ MGo("single") /\ MIdle
     \/ /\ AllZero(live) /\ Fault("discard") /\ Commit(MapRow(row, live)) /\ MFail
        /\ UNCHANGED <<part, disk>>

\* finalize_completed up to the move to the final name, which is Transfer's.
Finalize ==
  /\ stage = "finalize" /\ UNCHANGED <<final, rows>>
  /\ \/ Sync /\ MGo("finish") /\ UNCHANGED multi /\ NoFault
     \/ Fault("sync") /\ UNCHANGED <<part, disk>> /\ MFail
FinishedMulti == RolledBack([row EXCEPT !.down = live.total, !.resume = TRUE, !.rejected = FALSE])

MultiNext ==
  \/ MultiDeclined \/ MultiStart \/ MakeLong
  \/ \E s \in Segs : \/ SegInterrupt(s) \/ SegFetch(s) \/ SegRefused(s) \/ SegFetchFails(s)
                     \/ SegChunk(s) \/ SegEnds(s) \/ SegBreaks(s)
                     \/ SegStop(s) \/ SegSync(s) \/ SegAborted(s)
  \/ Join \/ MultiStopped \/ MultiFailed \/ Finalize
=============================================================================
