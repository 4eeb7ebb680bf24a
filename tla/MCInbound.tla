---- MODULE MCInbound ----
(***************************************************************************)
(* Two or three messages of one account for the inbound pipeline.          *)
(***************************************************************************)
EXTENDS InboundPipeline, TLC

CONSTANTS a1, r1, r2

OneAccount == [m \in Message |-> a1]

AllDifferent == [m \in Message |-> m]

\* Message 3 is message 1 again.
Redelivered == [m \in Message |-> IF m = 3 THEN 1 ELSE m]

\* Nothing tells one recover() from another.
RecoveriesAlike == Permutations(Recovery)

\* How often each thing goes wrong. The second outage is for the recovery of the first.
AnyThree == [outage |-> 2, answer |-> 1, file |-> 1, stop |-> 1, any |-> 3]

AllButFile == [outage |-> 1, answer |-> 1, file |-> 0, stop |-> 1, any |-> 3]

OutageAndStop == [outage |-> 1, answer |-> 0, file |-> 0, stop |-> 1, any |-> 2]
====
