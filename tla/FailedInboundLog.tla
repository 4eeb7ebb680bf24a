---- MODULE FailedInboundLog ----
(***************************************************************************)
(* What FailedInboundLog promises: "Durable place for inbound messages     *)
(* that could not be stored, so they are not lost." An entry is in it, in  *)
(* its place, from when its append resolves until it is stored or rejected. *)
(***************************************************************************)

CONSTANT Entry

VARIABLES
    entries,   \* what it holds
    order,     \* the pairs of them, the one ahead first
    appended,  \* the entries whose append resolved
    saved,     \* entries that save accepted: the message log has them
    rejects    \* entries in the log of rejects

vars == <<entries, order, appended, saved, rejects>>

Settled == saved \union rejects

Init == entries = {} /\ order = {} /\ appended = {} /\ saved = {} /\ rejects = {}

\* Behind all the others.
AppendEntry(e) ==
    /\ e \notin appended \union Settled
    /\ entries' = entries \union {e}
    /\ order' = order \union (entries \X {e})
    /\ appended' = appended \union {e}
    /\ UNCHANGED <<saved, rejects>>

\* Entries leave it only by being stored or rejected, and the others keep their order. One
\* whose append never resolved may turn out to be stored or rejected too.
Settle ==
    /\ saved \subseteq saved' /\ saved' \subseteq Entry
    /\ rejects \subseteq rejects' /\ rejects' \subseteq Entry
    /\ entries' = entries \ Settled'
    /\ order' = order \intersect (entries' \X entries')
    /\ UNCHANGED appended

Next == Settle \/ \E e \in Entry : AppendEntry(e)

Spec == Init /\ [][Next]_vars
====
