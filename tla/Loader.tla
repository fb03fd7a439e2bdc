------------------------------- MODULE Loader -------------------------------
(***************************************************************************)
(* contact_plan_load_json of dtn_core/contact.c.  A file is the sequence   *)
(* of its keys with their values, records [key, type, val]; type is        *)
(* "string", "number" (for conf and ber in the units of Contact), "other"  *)
(* (a value of neither kind) or "cut" (the text ends behind the key).  The *)
(* braces play no part in the code: it only ever searches for the next key *)
(* of a name.  The layout matters in one place: of a file only the first   *)
(* 8191 bytes are read, so the bytes at which the values end go with it.   *)
(***************************************************************************)
EXTENDS Contact, SequencesExt

CONSTANTS
  AnySize,   \* the max_size of ber = 0
  Misread    \* what a value whose last characters are missing may be read as

ASSUME MisreadAssumption == Misread \subseteq Int

\* fault: t_end is looked for first
NumberKeysSwapped == <<"t_end", "t_start", "rate", "owlt", "conf", "ber">>

NumberKeys == <<"t_start", "t_end", "rate", "owlt", "conf", "ber">>

\* the field of a contact that a key sets
Field(key) == CASE key = "conf" -> "loss" [] key = "ber" -> "max_size" [] OTHER -> key

\* where a search from NULL would start: the program does not survive it
Crash == -1

NotFound == 0

\* find_key: the first place from p on, counted from 1, where the key stands
FindKey(file, p, key) ==
  LET hits == {i \in p .. Len(file) : file[i].key = key}
  IN  IF hits = {} THEN NotFound ELSE Min(hits)

NewContact(frm, to) ==
  [frm |-> frm, to |-> to, t_start |-> 0, t_end |-> 0, rate |-> 0, owlt |-> 0, loss |-> 0,
   max_size |-> AnySize, status |-> "up", bytes_used |-> 0, reserved |-> 0]

\* s is [q, contact], q where the search stands
ReadNumber(file, s, key) ==
  LET k == FindKey(file, s.q, key)
  IN  IF s.q = Crash THEN s
      ELSE IF k = NotFound \/ file[k].type = "cut" THEN s
      ELSE IF file[k].type = "number"
           THEN [q |-> k + 1, contact |-> [s.contact EXCEPT ![Field(key)] = file[k].val]]
           ELSE [s EXCEPT !.q = Crash]

\* the numbers of the contact whose names have been read
ReadContact(file, q, frm, to) ==
  LET Step(s, key) == ReadNumber(file, s, key)
  IN  FoldLeft(Step, [q |-> q, contact |-> NewContact(frm, to)], NumberKeys)

Ended(crash) == [crash |-> crash, contacts |-> <<>>]

\* what is read from place p on, the contacts and whether the program crashes; from
\* is what is read from the places behind
ReadAt(file, from, p) ==
  LET f == FindKey(file, p, "frm")
      k == FindKey(file, f + 1, "to")
      s == ReadContact(file, k + 1, file[f].val, file[k].val)
  IN  IF f = NotFound \/ file[f].type = "cut" THEN Ended(FALSE)
      ELSE IF file[f].type # "string" THEN from[f + 1]
      ELSE IF k = NotFound THEN Ended(FALSE)
      ELSE IF file[k].type = "cut" THEN Ended(TRUE)
      ELSE IF file[k].type # "string" THEN from[k + 1]
      ELSE IF s.q = Crash THEN Ended(TRUE)
      ELSE [from[s.q] EXCEPT !.contacts = <<s.contact>> \o @]

ReadFrom(file) == LET from[p \in Nat] == ReadAt(file, from, p) IN from[1]

Load(text) ==
  [ReadFrom(text) EXCEPT !.contacts = FoldLeft(PlanAdd, <<>>, @)]

-----------------------------------------------------------------------------
(* What is read of a file: it is cut wherever the buffer is full *)

\* sizeof(buf) - 1
BufferBytes == 8191

\* how many of the entries, whose values end at the bytes ends, fit whole
Whole(ends) == Max({n \in 0 .. Len(ends) : \A i \in 1 .. n : ends[i] <= BufferBytes})

\* what is left of an entry cut anywhere: nothing, the key, or some of the value
Torn(e) ==
  {<<>>} \cup IF e.type = "cut" THEN {}
             ELSE {<<[e EXCEPT !.type = kind]>> : kind \in {"cut", "other"}}
                  \cup {<<[e EXCEPT !.val = v]>> : v \in Misread \cup {e.val}}

Buffers(file, ends) ==
  LET n == Whole(ends)
  IN  IF n = Len(file) THEN {file} ELSE {SubSeq(file, 1, n) \o rest : rest \in Torn(file[n + 1])}

LoadOutcomes(file, ends) == {Load(text) : text \in Buffers(file, ends)}

-----------------------------------------------------------------------------
(* The shape the code expects (contact.c:104-105) *)

Entry(key, type, val) == [key |-> key, type |-> type, val |-> val]

Object(c) ==
  <<Entry("frm", "string", c.frm), Entry("to", "string", c.to),
    Entry("t_start", "number", c.t_start), Entry("t_end", "number", c.t_end),
    Entry("rate", "number", c.rate), Entry("owlt", "number", c.owlt),
    Entry("conf", "number", c.loss), Entry("ber", "number", c.max_size)>>

\* a plan written to a file
Written(contacts) == FlattenSeq([i \in DOMAIN contacts |-> Object(contacts[i])])
=============================================================================
