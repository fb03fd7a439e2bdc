---------------------------- MODULE CustodyManager --------------------------
(***************************************************************************)
(* The custody manager as the code stores it: an array of records, found   *)
(* by a scan from the front and removed by moving the last record into the *)
(* gap, and the loop of node_tick that walks this array while it removes   *)
(* from it.  Clients call the operations between two runs of the loop.     *)
(***************************************************************************)
EXTENDS Custody, Sequences, SequencesExt

CONSTANTS
  Bundles,    \* the bundles the clients hand over, each with its curr
  MaxTime     \* bound on the clock

ASSUME TimeBound == MaxTime \in Nat

VARIABLES
  records,    \* records[0 .. count-1], as a sequence
  now,        \* the clock of the calls
  i           \* the loop index of the timeout sweep, 0 when it is not running

vars == <<records, now, i>>

Idle     == i = 0
Sweeping == i > 0

\* the record the scans of custody.c stop at
FirstRecordsOf(id) ==
  {k \in DOMAIN records : records[k].id = id /\ \A j \in 1 .. k - 1 : records[j].id # id}

Init == records = <<>> /\ now = 0 /\ i = 0

-----------------------------------------------------------------------------
(* custody_transfer *)

Update(b) ==
  \E k \in FirstRecordsOf(b.id) : records' = [records EXCEPT ![k] = NewRecord(b, now)]

\* fault: no look at the end of the array
AddUnbounded(b) ==
  FirstRecordsOf(b.id) = {} /\ records' = Append(records, NewRecord(b, now))

\* fault: does not look for a record to renew
AddBlindly(b) ==
  Len(records) < MaxRecords /\ records' = Append(records, NewRecord(b, now))

Add(b) ==
  /\ FirstRecordsOf(b.id) = {}
  /\ Len(records) < MaxRecords
  /\ records' = Append(records, NewRecord(b, now))

Transfer(b) == Idle /\ (Update(b) \/ Add(b)) /\ UNCHANGED <<now, i>>

-----------------------------------------------------------------------------
(* custody_release, alone and from the sweep *)

\* fault: shrinks without filling the gap
ReleaseLast(id) ==
  FirstRecordsOf(id) # {} /\ records' = [j \in 1 .. Len(records) - 1 |-> records[j]]

ReleaseFirst(id) ==
  \E k \in FirstRecordsOf(id) :
     records' = [j \in 1 .. Len(records) - 1 |->
                   IF j = k THEN records[Len(records)] ELSE records[j]]

Release(id) == Idle /\ ReleaseFirst(id) /\ UNCHANGED <<now, i>>

-----------------------------------------------------------------------------
(* the custody timeouts of node_tick *)

\* custody_is_timed_out looks the identifier up again
IsTimedOut(id) == \E k \in FirstRecordsOf(id) : now >= records[k].timeout

StartSweep == Idle /\ i' = 1 /\ UNCHANGED <<records, now>>

\* fault: the index moves on although another record was pulled under it
SweepReleaseAndAdvance ==
  /\ Sweeping /\ i <= Len(records)
  /\ IsTimedOut(records[i].id)
  /\ ReleaseFirst(records[i].id)
  /\ i' = i + 1
  /\ UNCHANGED now

SweepRelease ==
  /\ Sweeping /\ i <= Len(records)
  /\ IsTimedOut(records[i].id)
  /\ ReleaseFirst(records[i].id)
  /\ UNCHANGED <<now, i>>

\* fault: the index does not move past a record that is not overdue
SweepStays ==
  Sweeping /\ i <= Len(records) /\ ~IsTimedOut(records[i].id) /\ UNCHANGED vars

SweepSkip ==
  /\ Sweeping /\ i <= Len(records)
  /\ ~IsTimedOut(records[i].id)
  /\ i' = i + 1
  /\ UNCHANGED <<records, now>>

EndSweep == Sweeping /\ i > Len(records) /\ i' = 0 /\ UNCHANGED <<records, now>>

Sweep == SweepRelease \/ SweepSkip \/ EndSweep

Elapse == Idle /\ now < MaxTime /\ now' = now + 1 /\ UNCHANGED <<records, i>>

Next == \/ \E b \in Bundles : Transfer(b) \/ Release(b.id)
        \/ StartSweep
        \/ Sweep
        \/ Elapse

Spec == Init /\ [][Next]_vars

\* the sweep is a loop of the running task: once entered it goes on
FairSpec == Spec /\ WF_vars(Sweep)

-----------------------------------------------------------------------------
(* Properties *)

Record == [id : {b.id : b \in Bundles}, custodian : {b.curr : b \in Bundles}, timeout : Nat]

\* Type invariant: an array within its bound and a loop index in it.
TypeOK ==
  /\ records \in Seq(Record) /\ Len(records) <= MaxRecords
  /\ now \in 0 .. MaxTime
  /\ i \in 0 .. MaxRecords + 1

\* No bundle has two records, whatever the order of transfers, swap-removes
\* and sweeps: custody_get and the sweep rely on the first match being all.
UniqueIds == \A j, k \in DOMAIN records : records[j].id = records[k].id => j = k

\* While the sweep runs, no record it has walked past is overdue: the
\* removal pulls the last record under the index, which must not advance.
SweptBehind == \A j \in DOMAIN records : j < i => now < records[j].timeout

\* The array implements the table: a transfer renews in place, and a sweep,
\* for all its swap-removes, takes every overdue record and no other.
Table == INSTANCE CustodyTable WITH held <- ToSet(records), sweeping <- Sweeping
TableImplemented == Table!Spec

\* The sweep, which does not advance its index on a removal, comes to its end.
SweepEnds == Sweeping ~> Idle
=============================================================================
