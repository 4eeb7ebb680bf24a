---- MODULE MCPostgres ----
(***************************************************************************)
(* Two accounts; two envelopes of the first are one WhatsApp message that   *)
(* came twice, the others have no WhatsApp id. The table is empty, or has   *)
(* a row whose number the counter is about to hand out again.               *)
(***************************************************************************)
EXTENDS PostgresMessageLog

CONSTANTS a1, a2, e1, e2, e3, e4, f1, c1, c2, c3, wa, none

MCAccountOf == [e \in Envelope |-> IF e = f1 THEN a2 ELSE a1]

MCWaIdOf == [e \in Envelope |-> IF e \in {e3, e4} THEN none ELSE wa]

NoRows == {}

StoredRow == {[id |-> e3, accountSeq |-> 1, createdAt |-> 0]}

NoCounters == [a \in Account |-> 0]
====
