----------------------------- MODULE CustodyTable ---------------------------
(***************************************************************************)
(* What the custody manager promises: a table with at most one record per  *)
(* bundle and at most MaxRecords records.  A record appears or is renewed  *)
(* by a transfer and goes by a release, between sweeps; a sweep takes only *)
(* records whose timeout has passed, and ends when none of them is left.   *)
(***************************************************************************)
EXTENDS Custody

CONSTANTS Bundles, MaxTime

VARIABLES held, now, sweeping

Init == held = {} /\ now = 0 /\ ~sweeping

Transfer(b) == ~sweeping /\ held' = AfterTransfer(held, b, now) /\ UNCHANGED <<now, sweeping>>

Release(id) == ~sweeping /\ held' = AfterRelease(held, id) /\ UNCHANGED <<now, sweeping>>

StartSweep == ~sweeping /\ sweeping' /\ UNCHANGED <<held, now>>

Expire(r) ==
  sweeping /\ r \in Overdue(held, now) /\ held' = held \ {r} /\ UNCHANGED <<now, sweeping>>

EndSweep == sweeping /\ Overdue(held, now) = {} /\ ~sweeping' /\ UNCHANGED <<held, now>>

Elapse == ~sweeping /\ now < MaxTime /\ now' = now + 1 /\ UNCHANGED <<held, sweeping>>

Next == \/ \E b \in Bundles : Transfer(b) \/ Release(b.id)
        \/ StartSweep
        \/ \E r \in held : Expire(r)
        \/ EndSweep
        \/ Elapse

Spec == Init /\ [][Next]_<<held, now, sweeping>>
=============================================================================
