---- MODULE MCConnection ----
(***************************************************************************)
(* The bounds on what may go wrong.                                        *)
(***************************************************************************)
EXTENDS BaileysConnection, TLC

CONSTANTS s1, s2, r1, r2

Faults == [network |-> 1, host |-> 1, call |-> 2]
====
