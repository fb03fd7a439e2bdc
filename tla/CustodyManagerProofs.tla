------------------------ MODULE CustodyManagerProofs ------------------------
(***************************************************************************)
(* The array of the custody manager, for every size of the table, every    *)
(* timeout and every set of bundles.  UniqueIds is what makes the look-up  *)
(* by identifier inside the sweep mean the record under its index, so      *)
(* SweptBehind is inductive only together with it.                         *)
(***************************************************************************)
EXTENDS CustodyManager, FiniteSetTheorems, TLAPS

IInv == TypeOK /\ UniqueIds /\ SweptBehind

\* The record a look-up finds carries the identifier looked for.
LEMMA FirstRecord ==
  ASSUME NEW id, NEW k \in FirstRecordsOf(id)
  PROVE  k \in DOMAIN records /\ records[k].id = id
BY DEF FirstRecordsOf

\* With unique identifiers the look-up finds the only record there is.
LEMMA OnlyRecord ==
  ASSUME TypeOK, UniqueIds, NEW k \in DOMAIN records
  PROVE  FirstRecordsOf(records[k].id) = {k}
<1>1. DOMAIN records = 1 .. Len(records) /\ Len(records) \in Nat
  BY DEF TypeOK
<1>2. k \in FirstRecordsOf(records[k].id)
  BY <1>1 DEF FirstRecordsOf, UniqueIds
<1>3. \A j \in FirstRecordsOf(records[k].id) : j = k
  BY DEF FirstRecordsOf, UniqueIds
<1> QED
  BY <1>2, <1>3

\* What a swap-remove at k leaves: one record less, each one a record that
\* stood at another index, and those before k where they were.
LEMMA ReleaseShape ==
  ASSUME TypeOK, NEW k \in DOMAIN records,
         records' = [j \in 1 .. Len(records) - 1 |->
                       IF j = k THEN records[Len(records)] ELSE records[j]]
  PROVE  /\ records' \in Seq(Record)
         /\ Len(records') = Len(records) - 1
         /\ \A j \in DOMAIN records' :
              /\ j \in DOMAIN records /\ Len(records) \in DOMAIN records
              /\ records'[j] = IF j = k THEN records[Len(records)] ELSE records[j]
              /\ j < Len(records)
<1>1. records \in Seq(Record) /\ Len(records) \in Nat /\ DOMAIN records = 1 .. Len(records)
  BY DEF TypeOK
<1>2. Len(records) - 1 \in Nat /\ Len(records) \in DOMAIN records
  BY <1>1
<1>3. \A j \in 1 .. Len(records) : records[j] \in Record
  BY <1>1
<1>4. records' \in [1 .. Len(records) - 1 -> Record]
  BY <1>1, <1>2, <1>3
<1>5. records' \in Seq(Record) /\ Len(records') = Len(records) - 1
  BY <1>2, <1>4
<1> QED
  BY <1>1, <1>2, <1>5

\* TypeOK and UniqueIds survive a swap-remove wherever it happens.
LEMMA ReleaseKeeps ==
  ASSUME TypeOK, UniqueIds, NEW id, ReleaseFirst(id), UNCHANGED <<now, i>>
  PROVE  TypeOK' /\ UniqueIds'
<1>1. PICK k \in FirstRecordsOf(id) :
        records' = [j \in 1 .. Len(records) - 1 |->
                      IF j = k THEN records[Len(records)] ELSE records[j]]
  BY DEF ReleaseFirst
<1>2. k \in DOMAIN records
  BY FirstRecord
<1>3. TypeOK'
  <2>1. records' \in Seq(Record) /\ Len(records') = Len(records) - 1
    BY <1>1, <1>2, ReleaseShape
  <2>2. Len(records) \in Nat /\ Len(records) <= MaxRecords /\ MaxRecords \in Nat
    BY MaxRecordsAssumption DEF TypeOK
  <2> QED
    BY <2>1, <2>2 DEF TypeOK
<1>4. UniqueIds'
  BY <1>1, <1>2, ReleaseShape DEF UniqueIds
<1> QED
  BY <1>3, <1>4

\* A new record is a record.
LEMMA NewRecordType ==
  ASSUME TypeOK, NEW b \in Bundles
  PROVE  NewRecord(b, now) \in Record
BY CustodyTimeoutAssumption DEF TypeOK, NewRecord, Record

\* TypeOK and UniqueIds survive custody_transfer, in place or at the end.
LEMMA TransferKeeps ==
  ASSUME TypeOK, UniqueIds, NEW b \in Bundles, Transfer(b)
  PROVE  TypeOK' /\ UniqueIds'
<1>1. records \in Seq(Record) /\ Len(records) \in Nat /\ DOMAIN records = 1 .. Len(records)
  BY DEF TypeOK
<1>2. NewRecord(b, now) \in Record /\ NewRecord(b, now).id = b.id
  BY NewRecordType DEF NewRecord
<1>3. CASE Update(b)
  <2>1. PICK k \in FirstRecordsOf(b.id) :
          records' = [records EXCEPT ![k] = NewRecord(b, now)]
    BY <1>3 DEF Update
  <2>2. k \in DOMAIN records /\ records[k].id = b.id
    BY FirstRecord
  <2>3. records' \in Seq(Record) /\ Len(records') = Len(records)
    BY <1>1, <1>2, <2>1, <2>2
  <2>4. \A j \in DOMAIN records' : j \in DOMAIN records /\ records'[j].id = records[j].id
    BY <1>1, <1>2, <2>1, <2>2
  <2> QED
    BY <2>3, <2>4 DEF Transfer, TypeOK, UniqueIds
<1>4. CASE Add(b)
  <2>1. records' = Append(records, NewRecord(b, now)) /\ Len(records) < MaxRecords
    BY <1>4 DEF Add
  <2>2. records' \in Seq(Record) /\ Len(records') = Len(records) + 1
    BY <1>1, <1>2, <2>1
  <2>3. \A j \in DOMAIN records : records[j].id # b.id
    <3>1. SUFFICES ASSUME NEW m \in DOMAIN records, records[m].id = b.id PROVE FALSE
      OBVIOUS
    <3>2. m \in FirstRecordsOf(b.id)
      BY <3>1, OnlyRecord
    <3> QED
      BY <3>2, <1>4 DEF Add
  <2>4. \A j \in DOMAIN records' :
          \/ j \in DOMAIN records /\ records'[j] = records[j]
          \/ j = Len(records) + 1 /\ records'[j] = NewRecord(b, now)
    BY <1>1, <2>1
  <2>5. UniqueIds'
    BY <1>2, <2>3, <2>4 DEF UniqueIds
  <2>6. TypeOK'
    BY <2>1, <2>2, MaxRecordsAssumption DEF Transfer, TypeOK
  <2> QED
    BY <2>5, <2>6
<1> QED
  BY <1>3, <1>4 DEF Transfer

\* The sweep never leaves an overdue record behind its index.
LEMMA SweepKeepsSwept ==
  ASSUME IInv, Sweep
  PROVE  SweptBehind'
<1> USE DEF IInv
<1>1. records \in Seq(Record) /\ Len(records) \in Nat /\ DOMAIN records = 1 .. Len(records)
      /\ i \in Nat /\ now \in Nat
  BY DEF TypeOK
<1>2. CASE SweepRelease
  <2>1. i \in DOMAIN records
    BY <1>1, <1>2 DEF SweepRelease, Sweeping
  <2>2. records' = [j \in 1 .. Len(records) - 1 |->
                      IF j = i THEN records[Len(records)] ELSE records[j]]
    BY <1>2, <2>1, OnlyRecord DEF SweepRelease, ReleaseFirst
  <2>3. \A j \in DOMAIN records' : j < i => j \in DOMAIN records /\ records'[j] = records[j]
    BY <1>1, <2>1, <2>2, ReleaseShape
  <2> QED
    BY <1>2, <2>3 DEF SweepRelease, SweptBehind
<1>3. CASE SweepSkip
  <2>1. i \in DOMAIN records
    BY <1>1, <1>3 DEF SweepSkip, Sweeping
  <2>2. FirstRecordsOf(records[i].id) = {i}
    BY <2>1, OnlyRecord
  <2>3. ~(now >= records[i].timeout)
    BY <1>3, <2>2 DEF SweepSkip, IsTimedOut
  <2>4. records[i] \in Record
    BY <1>1, <2>1
  <2>5. now < records[i].timeout
    BY <1>1, <2>3, <2>4 DEF Record
  <2> QED
    BY <1>1, <1>3, <2>1, <2>5 DEF SweepSkip, SweptBehind
<1>4. CASE EndSweep
  BY <1>1, <1>4 DEF EndSweep, SweptBehind
<1> QED
  BY <1>2, <1>3, <1>4 DEF Sweep

\* The inductive invariant: every action keeps its three parts.
LEMMA Inductive ==
  /\ Init => IInv
  /\ IInv /\ [Next]_vars => IInv'
<1>1. Init => IInv
  <2> SUFFICES ASSUME Init PROVE IInv
    OBVIOUS
  <2>1. TypeOK
    BY MaxRecordsAssumption, TimeBound DEF Init, TypeOK
  <2>2. UniqueIds /\ SweptBehind
    BY DEF Init, UniqueIds, SweptBehind
  <2> QED
    BY <2>1, <2>2 DEF IInv
<1>2. IInv /\ [Next]_vars => IInv'
  <2> SUFFICES ASSUME IInv, [Next]_vars PROVE IInv'
    OBVIOUS
  <2>0. TypeOK /\ UniqueIds /\ SweptBehind /\ i \in Nat /\ now \in Nat /\ MaxRecords \in Nat
        /\ DOMAIN records = 1 .. Len(records) /\ Len(records) \in Nat
        /\ DOMAIN records' = 1 .. Len(records')
    BY MaxRecordsAssumption DEF IInv, TypeOK
  <2>1. ASSUME NEW b \in Bundles, Transfer(b) PROVE IInv'
    <3>1. TypeOK' /\ UniqueIds'
      BY <2>0, <2>1, TransferKeeps
    <3>2. i' = 0
      BY <2>1 DEF Transfer, Idle
    <3>3. SweptBehind'
      BY <3>1, <3>2 DEF SweptBehind, TypeOK
    <3> QED
      BY <3>1, <3>3 DEF IInv
  <2>2. ASSUME NEW b \in Bundles, Release(b.id) PROVE IInv'
    <3>1. ReleaseFirst(b.id) /\ UNCHANGED <<now, i>> /\ i' = 0
      BY <2>2 DEF Release, Idle
    <3>2. TypeOK' /\ UniqueIds'
      BY <2>0, <3>1, ReleaseKeeps
    <3>3. SweptBehind'
      BY <3>1, <3>2 DEF SweptBehind, TypeOK
    <3> QED
      BY <3>2, <3>3 DEF IInv
  <2>3. CASE StartSweep
    <3>1. SweptBehind'
      BY <2>0, <2>3 DEF StartSweep, SweptBehind
    <3> QED
      BY <2>0, <2>3, <3>1 DEF StartSweep, IInv, TypeOK, UniqueIds
  <2>4. CASE Sweep
    <3>1. SweptBehind'
      BY <2>4, SweepKeepsSwept
    <3>2. CASE SweepRelease
      BY <2>0, <3>1, <3>2, ReleaseKeeps DEF SweepRelease, IInv
    <3>3. CASE SweepSkip
      BY <2>0, <3>1, <3>3 DEF SweepSkip, IInv, TypeOK, UniqueIds
    <3>4. CASE EndSweep
      BY <2>0, <3>1, <3>4 DEF EndSweep, IInv, TypeOK, UniqueIds
    <3> QED
      BY <2>4, <3>2, <3>3, <3>4 DEF Sweep
  <2>5. CASE Elapse
    <3>1. now' \in 0 .. MaxTime /\ i' = 0 /\ records' = records
      BY <2>0, <2>5, TimeBound DEF Elapse, Idle
    <3>2. SweptBehind'
      BY <2>0, <3>1 DEF SweptBehind
    <3> QED
      BY <2>0, <3>1, <3>2 DEF IInv, TypeOK, UniqueIds
  <2>6. CASE UNCHANGED vars
    BY <2>0, <2>6 DEF vars, IInv, TypeOK, UniqueIds, SweptBehind
  <2> QED
    BY <2>1, <2>2, <2>3, <2>4, <2>5, <2>6 DEF Next
<1> QED
  BY <1>1, <1>2

\* The array stays within its bound and holds records only.
THEOREM TypeCorrect == Spec => []TypeOK
BY Inductive, PTL DEF Spec, IInv

\* No bundle ever has two records, through every order of transfers,
\* swap-removes and sweeps (custody.c).
THEOREM RecordsUnique == Spec => []UniqueIds
BY Inductive, PTL DEF Spec, IInv

\* No overdue record is ever behind the index of the sweep: when it ends none
\* is left (the custody timeouts of node_tick).
THEOREM SweepMissesNone == Spec => []SweptBehind
BY Inductive, PTL DEF Spec, IInv

-----------------------------------------------------------------------------
(* The array implements the table *)

\* The table's bound is met by the array: a record stands at one index only.
LEMMA HeldCardinality ==
  ASSUME TypeOK, UniqueIds
  PROVE  Table!Cardinality(ToSet(records)) = Len(records)
<1> DEFINE f == [k \in 1 .. Len(records) |-> records[k]]
<1>1. Len(records) \in Nat /\ DOMAIN records = 1 .. Len(records)
  BY DEF TypeOK
<1>2. f \in Bijection(1 .. Len(records), ToSet(records))
  <2>1. f \in Surjection(1 .. Len(records), ToSet(records))
    BY <1>1 DEF ToSet, Surjection
  <2>2. f \in Injection(1 .. Len(records), ToSet(records))
    BY <1>1 DEF ToSet, Injection, IsInjective, UniqueIds
  <2> QED
    BY <2>1, <2>2 DEF Bijection
<1>3. ExistsBijection(1 .. Len(records), ToSet(records))
  BY <1>2 DEF ExistsBijection
<1>4. Cardinality(ToSet(records)) = Len(records)
  BY <1>1, <1>3, FS_Interval, FS_Bijection
<1>5. Table!Cardinality(ToSet(records)) = Cardinality(ToSet(records))
  BY DEF Table!Cardinality, Cardinality
<1> QED
  BY <1>4, <1>5

\* A swap-remove takes from the set the record at its index and no other.
LEMMA HeldAfterRelease ==
  ASSUME TypeOK, UniqueIds, NEW k \in DOMAIN records,
         records' = [j \in 1 .. Len(records) - 1 |->
                       IF j = k THEN records[Len(records)] ELSE records[j]]
  PROVE  /\ ToSet(records') = {r \in ToSet(records) : r.id # records[k].id}
         /\ ToSet(records') = ToSet(records) \ {records[k]}
<1>1. /\ Len(records) \in Nat /\ DOMAIN records = 1 .. Len(records)
      /\ DOMAIN records' = 1 .. Len(records) - 1
  BY ReleaseShape DEF TypeOK
<1>2. ASSUME NEW j \in DOMAIN records'
      PROVE  \E m \in DOMAIN records : m # k /\ records'[j] = records[m]
  BY <1>1, <1>2, ReleaseShape
<1>3. ASSUME NEW m \in DOMAIN records, m # k
      PROVE  \E j \in DOMAIN records' : records'[j] = records[m]
  <2>1. CASE m = Len(records)
    BY <1>1, <1>3, <2>1
  <2>2. CASE m # Len(records)
    BY <1>1, <1>3, <2>2
  <2> QED
    BY <2>1, <2>2
<1>4. \A m \in DOMAIN records : (records[m].id = records[k].id) <=> (m = k)
  BY DEF UniqueIds
<1>5. ToSet(records') = {records[m] : m \in DOMAIN records \ {k}}
  <2>1. ASSUME NEW r \in ToSet(records') PROVE r \in {records[m] : m \in DOMAIN records \ {k}}
    <3>1. PICK j \in DOMAIN records' : r = records'[j]
      BY <2>1 DEF ToSet
    <3> QED
      BY <1>2, <3>1
  <2>2. ASSUME NEW m \in DOMAIN records \ {k} PROVE records[m] \in ToSet(records')
    <3>1. PICK j \in DOMAIN records' : records'[j] = records[m]
      BY <1>3, <2>2
    <3> QED
      BY <3>1 DEF ToSet
  <2> QED
    BY <2>1, <2>2
<1>6. ToSet(records') = {r \in ToSet(records) : r.id # records[k].id}
  BY <1>4, <1>5 DEF ToSet
<1>7. ToSet(records') = ToSet(records) \ {records[k]}
  BY <1>4, <1>5 DEF ToSet
<1> QED
  BY <1>6, <1>7

\* A renewal in place and an appended record are the table's transfer.
LEMMA HeldAfterTransfer ==
  ASSUME TypeOK, UniqueIds, NEW b \in Bundles, Update(b) \/ Add(b)
  PROVE  ToSet(records') = Table!AfterTransfer(ToSet(records), b, now)
<1> DEFINE new  == NewRecord(b, now)
           rest == {r \in ToSet(records) : r.id # b.id}
<1>1. records \in Seq(Record) /\ Len(records) \in Nat /\ DOMAIN records = 1 .. Len(records)
  BY DEF TypeOK
<1>2. Table!NewRecord(b, now) = new /\ new.id = b.id /\ new \in Record
  BY NewRecordType DEF Table!NewRecord, NewRecord
<1>3. Table!AfterTransfer(ToSet(records), b, now) =
        IF (\E m \in DOMAIN records : records[m].id = b.id) \/ Len(records) < MaxRecords
        THEN rest \cup {new} ELSE ToSet(records)
  <2>1. Table!HasRoom(ToSet(records), b) <=>
          \/ \E m \in DOMAIN records : records[m].id = b.id
          \/ Len(records) < MaxRecords
    BY HeldCardinality DEF Table!HasRoom, Table!Ids, ToSet
  <2> QED
    BY <1>2, <2>1 DEF Table!AfterTransfer, Table!AfterRelease
<1> HIDE DEF new
<1>4. CASE Update(b)
  <2>1. PICK k \in FirstRecordsOf(b.id) : records' = [records EXCEPT ![k] = new]
    BY <1>4 DEF Update, new
  <2>2. k \in DOMAIN records /\ records[k].id = b.id
    BY FirstRecord
  <2>3. /\ DOMAIN records' = DOMAIN records /\ records'[k] = new
        /\ \A m \in DOMAIN records : m # k => records'[m] = records[m]
    BY <1>1, <2>1, <2>2
  <2>4. \A m \in DOMAIN records : (records[m].id # b.id) <=> (m # k)
    BY <2>2 DEF UniqueIds
  <2>5. ToSet(records') = rest \cup {new}
    <3>1. ASSUME NEW r \in ToSet(records') PROVE r \in rest \cup {new}
      BY <2>3, <2>4 DEF ToSet
    <3>2. ASSUME NEW r \in rest \cup {new} PROVE r \in ToSet(records')
      BY <2>2, <2>3, <2>4 DEF ToSet
    <3> QED
      BY <3>1, <3>2
  <2> QED
    BY <1>3, <2>2, <2>5
<1>5. CASE Add(b)
  <2>1. records' = Append(records, new) /\ Len(records) < MaxRecords
    BY <1>5 DEF Add, new
  <2>2. \A m \in DOMAIN records : records[m].id # b.id
    <3>1. SUFFICES ASSUME NEW m \in DOMAIN records, records[m].id = b.id PROVE FALSE
      OBVIOUS
    <3> QED
      BY <1>5, <3>1, OnlyRecord DEF Add
  <2>3. /\ DOMAIN records' = DOMAIN records \cup {Len(records) + 1}
        /\ records'[Len(records) + 1] = new
        /\ \A m \in DOMAIN records : records'[m] = records[m]
    BY <1>1, <1>2, <2>1
  <2>4. ToSet(records') = ToSet(records) \cup {new}
    BY <2>3 DEF ToSet
  <2>5. rest = ToSet(records)
    BY <2>2 DEF ToSet
  <2> QED
    BY <1>3, <2>1, <2>4, <2>5
<1> QED
  BY <1>4, <1>5

\* At the end of a sweep SweptBehind says that nothing is overdue any more.
LEMMA NoneLeft ==
  ASSUME IInv, EndSweep
  PROVE  Table!Overdue(ToSet(records), now) = {}
<1>1. /\ DOMAIN records = 1 .. Len(records) /\ Len(records) \in Nat /\ now \in Nat /\ i \in Nat
      /\ \A j \in DOMAIN records : records[j].timeout \in Nat
  <2>1. records \in Seq(Record) /\ now \in Nat /\ i \in Nat
    BY MaxRecordsAssumption DEF IInv, TypeOK
  <2>2. DOMAIN records = 1 .. Len(records) /\ \A j \in DOMAIN records : records[j] \in Record
    BY <2>1
  <2> QED
    BY <2>1, <2>2 DEF Record
<1>2. \A j \in DOMAIN records : now < records[j].timeout
  BY <1>1 DEF EndSweep, IInv, SweptBehind
<1> QED
  BY <1>1, <1>2 DEF Table!Overdue, ToSet

\* Every step of the array is a step of the table or a stutter.
LEMMA StepImplements ==
  ASSUME IInv, [Next]_vars
  PROVE  [Table!Next]_<<ToSet(records), now, Sweeping>>
<1>1. TypeOK /\ UniqueIds /\ i \in Nat
  BY DEF IInv, TypeOK
<1>2. ASSUME NEW b \in Bundles, Transfer(b)
      PROVE  Table!Next
  <2>1. ~Sweeping /\ Sweeping' = Sweeping /\ now' = now /\ (Update(b) \/ Add(b))
    BY <1>2 DEF Transfer, Idle, Sweeping
  <2>2. Table!Transfer(b)
    BY <1>1, <2>1, HeldAfterTransfer DEF Table!Transfer
  <2> QED
    BY <2>2 DEF Table!Next
<1>3. ASSUME NEW b \in Bundles, Release(b.id)
      PROVE  Table!Next
  <2>1. ~Sweeping /\ Sweeping' = Sweeping /\ now' = now /\ ReleaseFirst(b.id)
    BY <1>3 DEF Release, Idle, Sweeping
  <2>2. PICK k \in FirstRecordsOf(b.id) :
          records' = [j \in 1 .. Len(records) - 1 |->
                        IF j = k THEN records[Len(records)] ELSE records[j]]
    BY <2>1 DEF ReleaseFirst
  <2>3. ToSet(records') = {r \in ToSet(records) : r.id # b.id}
    BY <1>1, <2>2, FirstRecord, HeldAfterRelease
  <2>4. Table!Release(b.id)
    BY <2>1, <2>3 DEF Table!Release, Table!AfterRelease
  <2> QED
    BY <2>4 DEF Table!Next
<1>4. CASE StartSweep
  <2>1. Table!StartSweep
    BY <1>4 DEF StartSweep, Idle, Sweeping, Table!StartSweep
  <2> QED
    BY <2>1 DEF Table!Next
<1>5. CASE SweepRelease
  <2>1. i \in DOMAIN records /\ Sweeping /\ Sweeping' = Sweeping /\ now' = now
    BY <1>1, <1>5 DEF SweepRelease, Sweeping, TypeOK
  <2>2. FirstRecordsOf(records[i].id) = {i}
    BY <1>1, <2>1, OnlyRecord
  <2>3. now >= records[i].timeout
    BY <1>5, <2>2 DEF SweepRelease, IsTimedOut
  <2>4. records' = [j \in 1 .. Len(records) - 1 |->
                      IF j = i THEN records[Len(records)] ELSE records[j]]
    BY <1>5, <2>2 DEF SweepRelease, ReleaseFirst
  <2>5. ToSet(records') = ToSet(records) \ {records[i]}
    BY <1>1, <2>1, <2>4, HeldAfterRelease
  <2>6. records[i] \in ToSet(records)
    BY <2>1 DEF ToSet
  <2>7. Table!Expire(records[i])
    BY <2>1, <2>3, <2>5, <2>6 DEF Table!Expire, Table!Overdue
  <2> QED
    BY <2>6, <2>7 DEF Table!Next
<1>6. CASE SweepSkip
  BY <1>1, <1>6 DEF SweepSkip, Sweeping
<1>7. CASE EndSweep
  <2>1. Table!EndSweep
    BY <1>7, NoneLeft DEF EndSweep, Sweeping, Table!EndSweep
  <2> QED
    BY <2>1 DEF Table!Next
<1>8. CASE Elapse
  <2>1. Table!Elapse
    BY <1>8 DEF Elapse, Idle, Sweeping, Table!Elapse
  <2> QED
    BY <2>1 DEF Table!Next
<1>9. CASE UNCHANGED vars
  BY <1>9 DEF vars, Sweeping
<1> QED
  BY <1>2, <1>3, <1>4, <1>5, <1>6, <1>7, <1>8, <1>9 DEF Next, Sweep

\* TableImplemented: the array with its swap-removes behaves as a table of one
\* record per bundle, of which a sweep takes every overdue record and no other.
THEOREM ArrayIsTable == Spec => TableImplemented
<1>1. Init => Table!Init
  BY DEF Init, Table!Init, Sweeping, ToSet
<1>2. IInv /\ [Next]_vars => [Table!Next]_<<ToSet(records), now, Sweeping>>
  BY StepImplements
<1> QED
  BY <1>1, <1>2, Inductive, PTL DEF Spec, TableImplemented, Table!Spec
=============================================================================
