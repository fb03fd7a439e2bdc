------------------------------ MODULE MCPiNode ------------------------------
(***************************************************************************)
(* A ground station; plans of no, two and 65 contacts, files that go on    *)
(* with contacts that lack keys or have a value of the wrong kind, and     *)
(* files longer than the buffer, cut in contacts 64, 61 and 49.            *)
(***************************************************************************)
EXTENDS PiNode

C(frm, to, from) ==
  [frm |-> frm, to |-> to, t_start |-> from, t_end |-> from + 1, rate |-> 600, owlt |-> 4,
   loss |-> 1, max_size |-> 100, status |-> "up", bytes_used |-> 0, reserved |-> 0]

Two == <<C(1, 2, 0), C(2, 1, 0)>>

Long == [i \in 1 .. PlanMax + 1 |-> C(1, 2, i)]

\* one contact without t_end, conf and ber before a whole one
Lacking == <<Entry("frm", "string", 3), Entry("to", "string", 4), Entry("t_start", "number", 5),
             Entry("rate", "number", 9)>> \o Written(<<C(5, 6, 7)>>)

Tails ==
  {<<>>, Lacking,
   <<Entry("frm", "number", 3)>> \o Lacking,
   <<Entry("frm", "string", 3), Entry("to", "other", 4)>>,
   <<Entry("frm", "string", 3), Entry("to", "string", 4), Entry("rate", "other", 0)>>,
   <<Entry("frm", "string", 3), Entry("to", "cut", 0)>>,
   <<Entry("frm", "cut", 0)>>}

\* the file laid out with the same number of bytes for every entry
Text(plan, tail, width) ==
  [plan |-> plan, tail |-> tail, ends |-> [i \in 1 .. 8 * Len(plan) + Len(tail) |-> width * i]]

\* 16 bytes cut contact 64 in its ber, 17 contact 61 in its to, 21 contact 49 in its conf
MCTexts == {Text(plan, tail, 12) : plan \in {<<>>, Two, Long}, tail \in Tails}
           \cup {Text(Long, <<>>, width) : width \in {16, 17, 21}}
=============================================================================
