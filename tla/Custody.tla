------------------------------- MODULE Custody ------------------------------
(***************************************************************************)
(* The operations of the custody manager on the SET of its records:        *)
(* dtn_core/custody.h, custody.c.  A record is [id, custodian, timeout];   *)
(* t_accept is written and never read.  CustodyManager shows that the      *)
(* array of the code, with its swap-removes, has this set as its meaning.  *)
(***************************************************************************)
EXTENDS Bundle, FiniteSets

CONSTANTS
  MaxRecords,      \* CUSTODY_MAX_RECORDS
  CustodyTimeout   \* default_timeout

ASSUME MaxRecordsAssumption     == MaxRecords \in Nat \ {0}
ASSUME CustodyTimeoutAssumption == CustodyTimeout \in Nat \ {0}

NewRecord(b, t) == [id |-> b.id, custodian |-> b.curr, timeout |-> t + CustodyTimeout]

Ids(records) == {r.id : r \in records}

\* custody_can_accept; bufFree is the free space of the queue
CanAccept(records, b, node, t, bufFree, policy) ==
  /\ IsAlive(b, t)
  /\ bufFree >= b.size
  /\ policy # "reject"
  /\ ~ \E r \in records : r.id = b.id /\ r.custodian = node

\* fault: a table without an end
HasRoomAlways(records, b) == TRUE

\* whether custody_transfer finds a record to update or room for a new one
HasRoom(records, b) == b.id \in Ids(records) \/ Cardinality(records) < MaxRecords

AfterRelease(records, id) == {r \in records : r.id # id}

AfterTransfer(records, b, t) ==
  IF HasRoom(records, b) THEN AfterRelease(records, b.id) \cup {NewRecord(b, t)} ELSE records

\* the bundle custody_transfer leaves: its cust moves only with a record
Transferred(records, b) ==
  IF HasRoom(records, b) THEN [b EXCEPT !.cust = b.curr] ELSE b

Overdue(records, t) == {r \in records : t >= r.timeout}
=============================================================================
