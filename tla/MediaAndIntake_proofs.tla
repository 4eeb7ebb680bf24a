---- MODULE MediaAndIntake_proofs ----
(***************************************************************************)
(* Proofs about what comes with a message or instead of one: its media,    *)
(* and what other providers post.                                          *)
(***************************************************************************)
EXTENDS InboundMedia, WebhookIntake, FiniteSetTheorems, SequenceTheorems, WellFoundedInduction, TLAPS

---------------------------------------------------------------------------
(***************************************************************************)
(* Proofs about InboundMedia, for any media, calls of run(), slots,        *)
(* retries and page size.                                                  *)
(***************************************************************************)

\* The jobs that hold a slot.
Holds(x) ==
    \/ x.step \in {"downloading", "writing", "recording"}
    \/ x.step \in {"looking", "skipping"} /\ ~(x.resumed /\ x.media \in Unrestorable)

Holders == {j \in Job : Holds(job[j])}

JobStepName ==
    {"acquire", "waiting", "downloading", "writing", "recording", "looking", "skipping", "delayed"}

\* A call of run(); what cannot be restored never gets to a download.
IsCall(x) ==
    /\ x \in [media : Media, step : JobStepName, attempt : Nat, resumed : BOOLEAN, rethrows : BOOLEAN]
    /\ x.resumed /\ x.media \in Unrestorable => x.step \in {"looking", "skipping"} /\ ~x.rethrows

MediaType ==
    /\ row \in [Media -> {"none", "pending", "ready", "skipped", "expired", "gone"}]
    /\ file \in [Media -> {"none", "fresh", "old"}]
    /\ job = [j \in Job |-> job[j]] /\ \A j \in Job : job[j] = NoJob \/ IsCall(job[j])
    /\ waiting \in Seq(Job) /\ active \in Nat
    /\ resume \in [on : BOOLEAN, after : Nat]
    /\ retention \in [step : {"idle", "purging", "marking", "deleting"}, purged : SUBSET Media]
    /\ running \in BOOLEAN
    /\ served \in SUBSET Media /\ unrecorded \in SUBSET Media

\* Slots are counted, and whoever waits for one is in the queue once.
SlotInv ==
    /\ IsFiniteSet(Holders) /\ active = Cardinality(Holders)
    /\ active <= Concurrency /\ (waiting # <<>> => active = Concurrency)
    /\ \A i, k \in DOMAIN waiting : waiting[i] = waiting[k] => i = k
    /\ \A j \in Job : job[j].step = "waiting" <=> \E i \in DOMAIN waiting : waiting[i] = j

\* No media is worked on twice. Its row is there; its file is there before that is recorded, and
\* it is not ready when it is going to be skipped.
CallsInv ==
    /\ \A j, k \in Job \ Free : job[j].media = job[k].media => j = k
    /\ \A j \in Job \ Free :
           /\ row[job[j].media] # "none"
           /\ job[j].step = "recording" => file[job[j].media] = "fresh"
           /\ job[j].step = "skipping" => row[job[j].media] # "ready"

\* Nobody works on an old file, nor on one that the retention has removed, and what it has
\* removed is not served.
FilesInv ==
    /\ \A m \in Media : row[m] = "none" => file[m] = "none"
    /\ \A m \in Media : file[m] = "old" \/ m \in retention.purged =>
           row[m] \notin {"none", "pending"} /\ m \notin InFlight
    /\ retention.purged \intersect served = {}

MediaInv == MediaType /\ SlotInv /\ CallsInv /\ FilesInv /\ ReadyIsServed /\ PendingIsRemembered
---------------------------------------------------------------------------
\* The queue for slots

LEMMA QueueTaken ==
    ASSUME NEW q \in Seq(Job), q # <<>>
    PROVE  /\ Len(q) \in Nat \ {0} /\ DOMAIN q = 1 .. Len(q) /\ Head(q) = q[1] /\ Head(q) \in Job
           /\ Tail(q) \in Seq(Job) /\ DOMAIN Tail(q) = 1 .. Len(q) - 1
           /\ \A i \in DOMAIN Tail(q) : i + 1 \in DOMAIN q /\ Tail(q)[i] = q[i + 1]
OBVIOUS

LEMMA QueueJoined ==
    ASSUME NEW q \in Seq(Job), NEW j \in Job
    PROVE  /\ Len(q) \in Nat /\ DOMAIN q = 1 .. Len(q)
           /\ Append(q, j) \in Seq(Job) /\ DOMAIN Append(q, j) = 1 .. Len(q) + 1 /\ Append(q, j) # <<>>
           /\ Append(q, j)[Len(q) + 1] = j /\ \A i \in DOMAIN q : Append(q, j)[i] = q[i]
OBVIOUS

\* A call goes on without asking for a slot or giving one back.
LEMMA SlotsStay ==
    ASSUME MediaBounds, MediaType, SlotInv, NEW j \in Job, NEW x, job' = [job EXCEPT ![j] = x],
           job[j].step # "waiting", x.step # "waiting", Holds(x) <=> Holds(job[j]),
           UNCHANGED <<waiting, active>>
    PROVE  SlotInv'
<1>1. \A k \in Job : job'[k] = IF k = j THEN x ELSE job[k]
  BY DEF MediaType
<1>2. Holders' = Holders
  BY <1>1 DEF Holders
<1>3. \A k \in Job : job'[k].step = "waiting" <=> job[k].step = "waiting"
  BY <1>1
<1> QED
  BY <1>2, <1>3 DEF SlotInv

\* release()
LEMMA SlotsPass ==
    ASSUME MediaBounds, MediaType, SlotInv, NEW j \in Job, NEW x, Released(j, x),
           Holds(job[j]), ~Holds(x), x.step # "waiting"
    PROVE  /\ SlotInv' /\ waiting' \in Seq(Job) /\ active' \in Nat
           /\ job' = [k \in Job |-> job'[k]] /\ job'[j] = x
           /\ \A k \in Job \ {j} : \/ job'[k] = job[k]
                                   \/ job[k].step = "waiting" /\ job'[k] = [job[k] EXCEPT !.step = "downloading"]
<1>1. j \in Holders /\ job[j].step # "waiting" /\ DOMAIN job = Job
  BY DEF Holders, Holds, MediaType
<1>2. /\ IsFiniteSet(Holders \ {j}) /\ Cardinality(Holders \ {j}) = active - 1
      /\ active \in Nat \ {0}
  <2>1. IsFiniteSet(Holders) /\ active = Cardinality(Holders)
    BY DEF SlotInv
  <2>2. active # 0
    BY <1>1, <2>1, FS_EmptySet
  <2> QED
    BY <1>1, <2>1, <2>2, FS_RemoveElement DEF MediaType
<1>3. CASE waiting = <<>>
  <2>1. job' = [job EXCEPT ![j] = x] /\ active' = active - 1 /\ waiting' = waiting
    BY <1>3 DEF Released
  <2>2. \A k \in Job : job'[k] = IF k = j THEN x ELSE job[k]
    BY <1>1, <2>1
  <2>3. Holders' = Holders \ {j}
    BY <2>2 DEF Holders
  <2>4. \A k \in Job : job'[k].step = "waiting" <=> job[k].step = "waiting"
    BY <1>1, <2>2
  <2>5. SlotInv'
    BY <1>2, <1>3, <2>1, <2>3, <2>4 DEF SlotInv, MediaBounds
  <2>6. job' = [k \in Job |-> job'[k]]
    BY <1>1, <2>1
  <2> QED
    BY <1>2, <2>1, <2>2, <2>5, <2>6 DEF MediaType
<1>4. CASE waiting # <<>>
  <2> DEFINE h == Head(waiting)
             y == [job[h] EXCEPT !.step = "downloading"]
  <2>1. /\ job' = [job EXCEPT ![j] = x, ![h].step = "downloading"]
        /\ waiting' = Tail(waiting) /\ active' = active
    BY <1>4 DEF Released
  <2>2. /\ Len(waiting) \in Nat \ {0} /\ DOMAIN waiting = 1 .. Len(waiting) /\ h = waiting[1] /\ h \in Job
        /\ waiting' \in Seq(Job) /\ DOMAIN waiting' = 1 .. Len(waiting) - 1
        /\ \A i \in DOMAIN waiting' : i + 1 \in DOMAIN waiting /\ waiting'[i] = waiting[i + 1]
    BY <1>4, <2>1, QueueTaken DEF MediaType
  <2>3. job[h].step = "waiting" /\ h # j
    BY <1>1, <2>2 DEF SlotInv
  <2>4. IsCall(job[h])
    BY <2>2, <2>3 DEF MediaType, NoJob
  <2>5. y.step = "downloading"
    BY <2>4 DEF IsCall
  <2>6. \A k \in Job : job'[k] = IF k = j THEN x ELSE IF k = h THEN y ELSE job[k]
    BY <1>1, <2>1, <2>2, <2>3
  <2> HIDE DEF h, y
  <2>7. Holders' = (Holders \ {j}) \union {h} /\ h \notin Holders \ {j}
    <3>1. Holds(y) /\ ~Holds(job[h])
      BY <2>3, <2>5 DEF Holds
    <3> QED
      BY <2>2, <2>3, <2>6, <3>1 DEF Holders
  <2>8. IsFiniteSet(Holders') /\ Cardinality(Holders') = active
    BY <1>2, <2>7, FS_AddElement
  <2>9. \A i, k \in DOMAIN waiting' : waiting'[i] = waiting'[k] => i = k
    <3> SUFFICES ASSUME NEW i \in DOMAIN waiting', NEW k \in DOMAIN waiting', waiting'[i] = waiting'[k]
                 PROVE  i = k
      OBVIOUS
    <3>1. i + 1 = k + 1
      BY <2>2 DEF SlotInv
    <3> QED
      BY <2>2, <3>1
  <2>10. ASSUME NEW k \in Job PROVE job'[k].step = "waiting" <=> \E i \in DOMAIN waiting' : waiting'[i] = k
    <3>1. CASE k = j
      <4>1. ~(\E i \in DOMAIN waiting : waiting[i] = j)
        BY <1>1 DEF SlotInv
      <4> QED
        BY <2>2, <2>6, <3>1, <4>1
    <3>2. CASE k = h
      <4>1. \A i \in DOMAIN waiting : waiting[i] = h => i = 1
        BY <2>2 DEF SlotInv
      <4>2. ~(\E i \in DOMAIN waiting' : waiting'[i] = h)
        BY <2>2, <4>1
      <4> QED
        BY <2>3, <2>5, <2>6, <3>2, <4>2
    <3>3. CASE k # j /\ k # h
      <4>1. job[k].step = "waiting" <=> \E i \in DOMAIN waiting : waiting[i] = k
        BY DEF SlotInv
      <4>2. ASSUME NEW i \in DOMAIN waiting, waiting[i] = k PROVE \E n \in DOMAIN waiting' : waiting'[n] = k
        <5>1. i # 1
          BY <2>2, <3>3, <4>2
        <5>2. i - 1 \in DOMAIN waiting' /\ (i - 1) + 1 = i
          BY <2>2, <5>1
        <5> QED
          BY <2>2, <4>2, <5>2
      <4>3. (\E i \in DOMAIN waiting' : waiting'[i] = k) => \E i \in DOMAIN waiting : waiting[i] = k
        BY <2>2
      <4> QED
        BY <2>6, <3>3, <4>1, <4>2, <4>3
    <3> QED
      BY <3>1, <3>2, <3>3
  <2>11. SlotInv'
    <3>1. active <= Concurrency /\ active = Concurrency
      BY <1>4 DEF SlotInv
    <3> QED
      BY <2>1, <2>8, <2>9, <2>10, <3>1 DEF SlotInv
  <2>12. job' = [k \in Job |-> job'[k]]
    BY <1>1, <2>1
  <2> QED
    BY <2>1, <2>2, <2>3, <2>6, <2>11, <2>12 DEF MediaType, y
<1> QED
  BY <1>3, <1>4

\* acquire()
LEMMA SlotsTaken ==
    ASSUME MediaBounds, MediaType, SlotInv, NEW j \in Job, Acquires(j)
    PROVE  /\ SlotInv' /\ waiting' \in Seq(Job) /\ active' \in Nat
           /\ \E step \in {"downloading", "waiting"} : job' = [job EXCEPT ![j].step = step]
<1>1. job[j].step = "acquire" /\ IsCall(job[j]) /\ DOMAIN job = Job
  BY DEF Acquires, MediaType, NoJob
<1>2. j \notin Holders
  BY <1>1 DEF Holders, Holds
<1>3. IsFiniteSet(Holders) /\ active = Cardinality(Holders) /\ active \in Nat /\ active <= Concurrency
  BY DEF SlotInv, MediaType
<1>4. CASE active < Concurrency
  <2>1. job' = [job EXCEPT ![j].step = "downloading"] /\ active' = active + 1 /\ waiting' = waiting
    BY <1>4 DEF Acquires
  <2> DEFINE x == [job[j] EXCEPT !.step = "downloading"]
  <2>2. x.step = "downloading"
    BY <1>1 DEF IsCall
  <2>3. \A k \in Job : job'[k] = IF k = j THEN x ELSE job[k]
    BY <1>1, <2>1
  <2> HIDE DEF x
  <2>4. Holders' = Holders \union {j}
    BY <2>2, <2>3 DEF Holders, Holds
  <2>5. IsFiniteSet(Holders') /\ Cardinality(Holders') = active + 1
    BY <1>2, <1>3, <2>4, FS_AddElement
  <2>6. \A k \in Job : job'[k].step = "waiting" <=> job[k].step = "waiting"
    BY <1>1, <2>2, <2>3
  <2>7. waiting = <<>>
    BY <1>3, <1>4 DEF SlotInv, MediaBounds
  <2>8. SlotInv'
    BY <1>3, <1>4, <2>1, <2>5, <2>6, <2>7 DEF SlotInv, MediaBounds
  <2> QED
    BY <1>3, <2>1, <2>8 DEF MediaType
<1>5. CASE ~(active < Concurrency)
  <2>1. job' = [job EXCEPT ![j].step = "waiting"] /\ active' = active /\ waiting' = Append(waiting, j)
    BY <1>5 DEF Acquires
  <2> DEFINE x == [job[j] EXCEPT !.step = "waiting"]
             n == Len(waiting)
  <2>2. x.step = "waiting"
    BY <1>1 DEF IsCall
  <2>3. \A k \in Job : job'[k] = IF k = j THEN x ELSE job[k]
    BY <1>1, <2>1
  <2> HIDE DEF x
  <2>4. Holders' = Holders
    BY <1>1, <2>2, <2>3 DEF Holders, Holds
  <2>5. /\ n \in Nat /\ DOMAIN waiting = 1 .. n
        /\ waiting' \in Seq(Job) /\ DOMAIN waiting' = 1 .. n + 1
        /\ waiting'[n + 1] = j /\ \A i \in DOMAIN waiting : waiting'[i] = waiting[i]
    BY <2>1, QueueJoined DEF MediaType
  <2>6. ~(\E i \in DOMAIN waiting : waiting[i] = j)
    BY <1>1 DEF SlotInv
  <2>7. \A i, k \in DOMAIN waiting' : waiting'[i] = waiting'[k] => i = k
    BY <2>5, <2>6 DEF SlotInv
  <2>8. ASSUME NEW k \in Job PROVE job'[k].step = "waiting" <=> \E i \in DOMAIN waiting' : waiting'[i] = k
    <3>1. CASE k = j
      BY <2>2, <2>3, <2>5, <3>1
    <3>2. CASE k # j
      <4>1. job[k].step = "waiting" <=> \E i \in DOMAIN waiting : waiting[i] = k
        BY DEF SlotInv
      <4>2. (\E i \in DOMAIN waiting' : waiting'[i] = k) <=> \E i \in DOMAIN waiting : waiting[i] = k
        BY <2>5, <3>2
      <4> QED
        BY <2>3, <3>2, <4>1, <4>2
    <3> QED
      BY <3>1, <3>2
  <2>9. active = Concurrency
    BY <1>3, <1>5 DEF MediaBounds
  <2>10. SlotInv'
    BY <1>3, <2>1, <2>4, <2>7, <2>8, <2>9 DEF SlotInv, MediaBounds
  <2> QED
    BY <1>3, <2>1, <2>5, <2>10
<1> QED
  BY <1>4, <1>5

---------------------------------------------------------------------------
\* What becomes of a call, and of the one that takes its slot

SlotsOk == SlotInv /\ waiting \in Seq(Job) /\ active \in Nat

Moved(j, x) ==
    /\ job' = [k \in Job |-> job'[k]] /\ job'[j] = x
    /\ \A k \in Job \ {j} : \/ job'[k] = job[k]
                            \/ job[k].step = "waiting" /\ job'[k] = [job[k] EXCEPT !.step = "downloading"]

CannotBeRestored(x) == x.resumed /\ x.media \in Unrestorable

LEMMA CallIs ==
    ASSUME NEW x, IsCall(x)
    PROVE  /\ x # NoJob /\ x.media \in Media /\ x.step \in JobStepName /\ x.attempt \in Nat
           /\ x.resumed \in BOOLEAN /\ x.rethrows \in BOOLEAN
BY DEF IsCall, NoJob, JobStepName

LEMMA NoCall == NoJob.step = "none" /\ NoJob.media = 0 /\ NoJob.resumed = FALSE /\ ~Holds(NoJob)
BY DEF NoJob, Holds

\* Goes to another step of those with the slot, or from a wait to the queue for it.
LEMMA GoesMoves ==
    ASSUME MediaBounds, MediaType, SlotInv, NEW j \in Job, IsCall(job[j]), NEW step, Goes(j, step),
           \/ Holds(job[j]) /\ step \in {"writing", "recording", "looking", "skipping"}
           \/ CannotBeRestored(job[j]) /\ step = "skipping" /\ job[j].step = "looking"
           \/ job[j].step = "delayed" /\ step = "acquire",
           CannotBeRestored(job[j]) => step \in {"looking", "skipping"}
    PROVE  \E x : /\ Moved(j, x) /\ IsCall(x) /\ x.media = job[j].media /\ x.step = step /\ SlotsOk'
<1> DEFINE x == [job[j] EXCEPT !.step = step]
<1>1. IsCall(x) /\ x.media = job[j].media /\ x.step = step /\ x.resumed = job[j].resumed
  BY DEF IsCall, JobStepName, CannotBeRestored
<1>2. job' = [job EXCEPT ![j] = x] /\ UNCHANGED <<waiting, active>>
  BY DEF Goes
<1> HIDE DEF x
<1>3. Holds(x) <=> Holds(job[j])
  BY <1>1 DEF Holds, CannotBeRestored, IsCall
<1>4. job[j].step # "waiting" /\ x.step # "waiting"
  BY <1>1 DEF Holds
<1>5. SlotInv'
  BY <1>2, <1>3, <1>4, SlotsStay
<1>6. Moved(j, x)
  BY <1>2 DEF MediaType, Moved
<1> QED
  BY <1>1, <1>2, <1>5, <1>6 DEF SlotsOk, MediaType

LEMMA FailsMoves ==
    ASSUME MediaBounds, MediaType, SlotInv, NEW j \in Job, IsCall(job[j]), Holds(job[j]),
           ~CannotBeRestored(job[j]), Fails(j)
    PROVE  \E x : /\ Moved(j, x) /\ IsCall(x) /\ x.media = job[j].media
                  /\ x.step \in {"delayed", "looking"} /\ SlotsOk'
<1>1. CASE job[j].attempt < Retries
  <2> DEFINE n == job[j].attempt + 1
             x == [job[j] EXCEPT !.step = "delayed", !.attempt = n, !.rethrows = FALSE]
  <2>1. IsCall(x) /\ x.media = job[j].media /\ x.step = "delayed"
    <3>1. job[j] \in [media : Media, step : JobStepName, attempt : Nat, resumed : BOOLEAN, rethrows : BOOLEAN]
      BY DEF IsCall
    <3>2. n \in Nat
      BY <3>1
    <3> HIDE DEF n
    <3>3. /\ x \in [media : Media, step : JobStepName, attempt : Nat, resumed : BOOLEAN, rethrows : BOOLEAN]
          /\ x.media = job[j].media /\ x.step = "delayed" /\ x.resumed = job[j].resumed
      BY <3>1, <3>2 DEF JobStepName
    <3> QED
      BY <3>3 DEF IsCall, CannotBeRestored
  <2>2. Released(j, x)
    BY <1>1 DEF Fails
  <2> HIDE DEF x
  <2>3. ~Holds(x)
    BY <2>1 DEF Holds
  <2> QED
    BY <2>1, <2>2, <2>3, SlotsPass DEF SlotsOk, Moved
<1>2. CASE ~(job[j].attempt < Retries)
  <2> DEFINE x == [job[j] EXCEPT !.step = "looking", !.rethrows = FALSE]
  <2>1. IsCall(x) /\ x.media = job[j].media /\ x.step = "looking" /\ x.resumed = job[j].resumed
    BY DEF IsCall, JobStepName, CannotBeRestored
  <2>2. job' = [job EXCEPT ![j].step = "looking", ![j].rethrows = FALSE] /\ UNCHANGED <<waiting, active>>
    BY <1>2 DEF Fails
  <2>3. job' = [job EXCEPT ![j] = x]
    BY <2>2 DEF MediaType
  <2> HIDE DEF x
  <2>4. Holds(x) /\ job[j].step # "waiting"
    BY <2>1 DEF Holds, CannotBeRestored
  <2>5. SlotInv'
    BY <2>1, <2>2, <2>3, <2>4, SlotsStay
  <2>6. Moved(j, x)
    BY <2>3 DEF MediaType, Moved
  <2> QED
    BY <2>1, <2>2, <2>5, <2>6 DEF SlotsOk, MediaType
<1> QED
  BY <1>1, <1>2

LEMMA EndsMoves ==
    ASSUME MediaBounds, MediaType, SlotInv, NEW j \in Job, IsCall(job[j]),
           Holds(job[j]) \/ CannotBeRestored(job[j]), Ends(j)
    PROVE  Moved(j, NoJob) /\ SlotsOk'
<1>1. CASE CannotBeRestored(job[j])
  <2>1. job' = [job EXCEPT ![j] = NoJob] /\ UNCHANGED <<waiting, active>>
    BY <1>1 DEF Ends, CannotBeRestored
  <2>2. ~Holds(job[j]) /\ job[j].step # "waiting"
    BY <1>1 DEF Holds, IsCall, CannotBeRestored
  <2>3. SlotInv'
    BY <2>1, <2>2, NoCall, SlotsStay
  <2>4. Moved(j, NoJob)
    BY <2>1 DEF MediaType, Moved
  <2> QED
    BY <2>1, <2>3, <2>4 DEF SlotsOk, MediaType
<1>2. CASE ~CannotBeRestored(job[j])
  <2>1. Released(j, NoJob) /\ Holds(job[j])
    BY <1>2 DEF Ends, CannotBeRestored
  <2> QED
    BY <2>1, NoCall, SlotsPass DEF SlotsOk, Moved
<1> QED
  BY <1>1, <1>2

---------------------------------------------------------------------------
\* A call that is in progress touches its own media only.

LEMMA InFlightIs ==
    ASSUME MediaType
    PROVE  /\ \A j \in Job : j \in Free <=> ~IsCall(job[j])
           /\ \A j \in Job \ Free : IsCall(job[j]) /\ job[j].media \in Media /\ job[j].media \in InFlight
           /\ InFlight \subseteq Media
BY CallIs DEF MediaType, Free, InFlight

LEMMA MovedFlight ==
    ASSUME MediaBounds, MediaType, CallsInv, NEW j \in Job, IsCall(job[j]), NEW x, Moved(j, x),
           x = NoJob \/ (IsCall(x) /\ x.media = job[j].media)
    PROVE  /\ \A k \in Job : job'[k] = NoJob \/ IsCall(job'[k])
           /\ \A k \in Job \ {j} : /\ job'[k] = NoJob <=> job[k] = NoJob
                                   /\ job'[k].media = job[k].media
                                   /\ job'[k].step \in {"recording", "skipping"} => job'[k].step = job[k].step
           /\ InFlight' \subseteq InFlight
           /\ InFlight \ {job[j].media} \subseteq InFlight'
           /\ x # NoJob => job[j].media \in InFlight'
<1>1. ASSUME NEW k \in Job \ {j}
      PROVE  /\ job'[k] = NoJob \/ IsCall(job'[k])
             /\ job'[k] = NoJob <=> job[k] = NoJob
             /\ job'[k].media = job[k].media
             /\ job'[k].step \in {"recording", "skipping"} => job'[k].step = job[k].step
  <2>1. CASE job'[k] = job[k]
    BY <2>1 DEF MediaType
  <2>2. CASE job[k].step = "waiting" /\ job'[k] = [job[k] EXCEPT !.step = "downloading"]
    <3>1. IsCall(job[k]) /\ ~(job[k].resumed /\ job[k].media \in Unrestorable)
      BY <2>2, NoCall DEF MediaType, IsCall
    <3>2. /\ job'[k].step = "downloading" /\ job'[k].media = job[k].media
          /\ IsCall(job'[k])
      BY <2>2, <3>1 DEF IsCall, JobStepName
    <3> QED
      BY <3>1, <3>2, CallIs
  <2> QED
    BY <2>1, <2>2 DEF Moved
<1>2. job'[j] = x /\ job[j] # NoJob
  BY CallIs DEF Moved
<1>3. \A k \in Job : job'[k] = NoJob \/ IsCall(job'[k])
  BY <1>1, <1>2
<1>4. Free' = (Free \ {j}) \union (IF x = NoJob THEN {j} ELSE {})
  BY <1>1, <1>2 DEF Free
<1>5. \A k \in Job \ Free' : k \in Job \ Free /\ job'[k].media = job[k].media
  <2> TAKE k \in Job \ Free'
  <2>1. CASE k = j
    <3>1. x # NoJob
      BY <1>4, <2>1
    <3> QED
      BY <1>2, <2>1, <3>1, CallIs DEF Free
  <2>2. CASE k # j
    BY <1>1, <1>4, <2>2
  <2> QED
    BY <2>1, <2>2
<1>6. InFlight' \subseteq InFlight
  BY <1>5 DEF InFlight
<1>7. ASSUME NEW m \in InFlight, m # job[j].media PROVE m \in InFlight'
  <2>1. PICK k \in Job \ Free : job[k].media = m
    BY DEF InFlight
  <2>2. k # j /\ k \in Job \ Free' /\ job'[k].media = m
    BY <1>1, <1>4, <1>7, <2>1
  <2> QED
    BY <2>2 DEF InFlight
<1>8. ASSUME x # NoJob PROVE job[j].media \in InFlight'
  <2>1. j \in Job \ Free' /\ job'[j].media = job[j].media
    BY <1>2, <1>4, <1>8
  <2> QED
    BY <2>1 DEF InFlight
<1> QED
  BY <1>1, <1>3, <1>6, <1>7, <1>8

\* All that a step of a call has to leave in order.
LEMMA CallKeeps ==
    ASSUME MediaBounds, MediaInv, NEW j \in Job, IsCall(job[j]), NEW x, Moved(j, x), SlotsOk',
           x = NoJob \/ (IsCall(x) /\ x.media = job[j].media),
           UNCHANGED tasks,
           row' \in [Media -> {"none", "pending", "ready", "skipped", "expired", "gone"}],
           file' \in [Media -> {"none", "fresh", "old"}],
           served' \subseteq Media, unrecorded' \subseteq Media, unrecorded \subseteq unrecorded',
           \A n \in Media \ {job[j].media} : row'[n] = row[n] /\ file'[n] = file[n] /\ (n \in served' => n \in served),
           row'[job[j].media] # "none", file'[job[j].media] \in {file[job[j].media], "fresh"},
           x.step = "recording" => file'[job[j].media] = "fresh",
           x.step = "skipping" => row'[job[j].media] # "ready",
           job[j].media \in served' => row'[job[j].media] = "ready" /\ file'[job[j].media] # "none",
           row'[job[j].media] = "pending" => x # NoJob \/ job[j].media \in unrecorded'
    PROVE  MediaInv'
<1> DEFINE m == job[j].media
<1>1. j \in Job \ Free /\ m \in Media /\ m \in InFlight
  BY CallIs, InFlightIs DEF MediaInv, Free
<1>2. /\ \A k \in Job : job'[k] = NoJob \/ IsCall(job'[k])
      /\ \A k \in Job \ {j} : /\ job'[k] = NoJob <=> job[k] = NoJob
                              /\ job'[k].media = job[k].media
                              /\ job'[k].step \in {"recording", "skipping"} => job'[k].step = job[k].step
      /\ InFlight' \subseteq InFlight
      /\ InFlight \ {m} \subseteq InFlight'
      /\ x # NoJob => m \in InFlight'
  BY MovedFlight DEF MediaInv
<1>3. job' = [k \in Job |-> job'[k]] /\ job'[j] = x
  BY DEF Moved
<1>4. UNCHANGED <<resume, retention, running>>
  BY DEF tasks
<1>5. MediaType'
  BY <1>2, <1>3, <1>4 DEF MediaInv, MediaType, SlotsOk
<1>6. SlotInv'
  BY DEF SlotsOk
<1>7. \A k \in Job \ {j} : k \in Free' <=> k \in Free
  BY <1>2 DEF Free
<1>8. \A k \in Job \ Free : k # j => job[k].media # m
  BY <1>1 DEF MediaInv, CallsInv
<1>9. CallsInv'
  <2>1. \A k \in Job \ Free' : job'[k].media = job[k].media /\ k \in Job \ Free
    BY <1>1, <1>2, <1>3, <1>7, CallIs DEF Free
  <2>2. \A k, l \in Job \ Free' : job'[k].media = job'[l].media => k = l
    BY <2>1 DEF MediaInv, CallsInv
  <2>3. ASSUME NEW k \in Job \ Free'
        PROVE  /\ row'[job'[k].media] # "none"
               /\ job'[k].step = "recording" => file'[job'[k].media] = "fresh"
               /\ job'[k].step = "skipping" => row'[job'[k].media] # "ready"
    <3>1. CASE k = j
      BY <1>3, <2>1, <3>1
    <3>2. CASE k # j
      <4>1. job[k].media \in Media \ {m} /\ job'[k].media = job[k].media
        BY <1>8, <2>1, <3>2, InFlightIs DEF MediaInv
      <4>2. job'[k].step \in {"recording", "skipping"} => job'[k].step = job[k].step
        BY <1>2, <3>2
      <4> QED
        BY <2>1, <4>1, <4>2 DEF MediaInv, CallsInv
    <3> QED
      BY <3>1, <3>2
  <2> QED
    BY <2>2, <2>3 DEF CallsInv
<1>10. file[m] # "old" /\ m \notin retention.purged
  BY <1>1 DEF MediaInv, FilesInv
<1>11. FilesInv'
  <2>1. \A n \in Media : row'[n] = "none" => file'[n] = "none"
    BY DEF MediaInv, FilesInv
  <2>2. \A n \in Media : file'[n] = "old" \/ n \in retention'.purged =>
             row'[n] \notin {"none", "pending"} /\ n \notin InFlight'
    <3> TAKE n \in Media
    <3>1. CASE n = m
      BY <1>4, <1>10, <3>1
    <3>2. CASE n # m
      BY <1>2, <1>4, <3>2 DEF MediaInv, FilesInv
    <3> QED
      BY <3>1, <3>2
  <2>3. retention'.purged \intersect served' = {}
    <3>1. \A n \in served' : n \in Media /\ (n # m => n \in served)
      OBVIOUS
    <3> QED
      BY <1>4, <1>10, <3>1 DEF MediaInv, FilesInv
  <2> QED
    BY <2>1, <2>2, <2>3 DEF FilesInv
<1>12. ReadyIsServed'
  <2> SUFFICES ASSUME NEW n \in served' PROVE row'[n] = "ready" /\ file'[n] # "none"
    BY DEF ReadyIsServed
  <2>1. CASE n = m
    BY <2>1
  <2>2. CASE n # m
    BY <2>2 DEF MediaInv, ReadyIsServed
  <2> QED
    BY <2>1, <2>2
<1>13. PendingIsRemembered'
  <2>1. SlotsAreKept'
    BY <1>6 DEF SlotInv, Holders, Holds, SlotsAreKept
  <2>2. ASSUME running', NEW n \in Media, row'[n] = "pending"
        PROVE  n \in InFlight' \union unrecorded' \/ (resume'.on /\ n > resume'.after)
    <3>1. CASE n = m
      BY <1>2, <2>2, <3>1
    <3>2. CASE n # m
      <4>1. n \in InFlight \union unrecorded \/ (resume.on /\ n > resume.after)
        BY <1>4, <2>2, <3>2 DEF MediaInv, PendingIsRemembered
      <4> QED
        BY <1>2, <1>4, <3>2, <4>1
    <3> QED
      BY <3>1, <3>2
  <2> QED
    BY <2>1, <2>2 DEF PendingIsRemembered
<1> QED
  BY <1>5, <1>6, <1>9, <1>11, <1>12, <1>13 DEF MediaInv

---------------------------------------------------------------------------
\* The steps of run()

\* The row, the file and what is remembered of them stay.
LEMMA StoreStays ==
    ASSUME MediaBounds, MediaInv, NEW j \in Job, IsCall(job[j]), NEW x, Moved(j, x), SlotsOk',
           IsCall(x), x.media = job[j].media, UNCHANGED <<store, tasks>>,
           x.step = "recording" => file[job[j].media] = "fresh",
           x.step = "skipping" => row[job[j].media] # "ready"
    PROVE  MediaInv'
<1> DEFINE m == job[j].media
<1>1. UNCHANGED <<row, file, served, unrecorded>> /\ UNCHANGED tasks
  BY DEF store
<1>2. /\ row \in [Media -> {"none", "pending", "ready", "skipped", "expired", "gone"}]
      /\ file \in [Media -> {"none", "fresh", "old"}] /\ served \subseteq Media /\ unrecorded \subseteq Media
  BY DEF MediaInv, MediaType
<1>3. m \in Media /\ x # NoJob
  BY CallIs
<1>4. row[m] # "none"
  BY CallIs, InFlightIs DEF MediaInv, CallsInv
<1>5. m \in served => row[m] = "ready" /\ file[m] # "none"
  BY DEF MediaInv, ReadyIsServed
<1> QED
  BY <1>1, <1>2, <1>3, <1>4, <1>5, CallKeeps

LEMMA StepIsCall ==
    ASSUME MediaInv, NEW j \in Job, job[j].step \in JobStepName
    PROVE  /\ IsCall(job[j]) /\ job[j].media \in Media /\ row[job[j].media] # "none"
           /\ job[j].step \in {"looking", "skipping"} \/ ~CannotBeRestored(job[j])
<1>1. IsCall(job[j])
  BY NoCall DEF MediaInv, MediaType, JobStepName
<1>2. j \in Job \ Free
  BY <1>1, CallIs DEF Free
<1> QED
  BY <1>1, <1>2, CallIs DEF MediaInv, CallsInv, IsCall, CannotBeRestored

LEMMA AcquiresKeeps ==
    ASSUME MediaBounds, MediaInv, NEW j \in Job, Acquires(j)
    PROVE  MediaInv'
<1>1. job[j].step = "acquire" /\ UNCHANGED <<store, tasks>>
  BY DEF Acquires
<1>2. IsCall(job[j]) /\ ~CannotBeRestored(job[j])
  BY <1>1, StepIsCall DEF JobStepName
<1>3. PICK step \in {"downloading", "waiting"} : job' = [job EXCEPT ![j].step = step]
  BY SlotsTaken DEF MediaInv
<1> DEFINE x == [job[j] EXCEPT !.step = step]
<1>4. IsCall(x) /\ x.media = job[j].media /\ x.step = step
  BY <1>2 DEF IsCall, JobStepName, CannotBeRestored
<1>5. job' = [job EXCEPT ![j] = x]
  BY <1>3
<1> HIDE DEF x
<1>6. Moved(j, x)
  BY <1>5 DEF MediaInv, MediaType, Moved
<1>7. SlotsOk'
  BY SlotsTaken DEF MediaInv, SlotsOk
<1> QED
  BY <1>1, <1>2, <1>4, <1>6, <1>7, StoreStays

LEMMA DownloadsKeeps ==
    ASSUME MediaBounds, MediaInv, NEW j \in Job, Downloads(j)
    PROVE  MediaInv'
<1>1. job[j].step = "downloading" /\ UNCHANGED <<store, tasks>>
  BY DEF Downloads
<1>2. IsCall(job[j]) /\ ~CannotBeRestored(job[j]) /\ Holds(job[j])
  BY <1>1, StepIsCall DEF JobStepName, Holds
<1>3. CASE Goes(j, "writing")
  BY <1>1, <1>2, <1>3, GoesMoves, StoreStays DEF MediaInv
<1>4. CASE Fails(j)
  BY <1>1, <1>2, <1>4, FailsMoves, StoreStays DEF MediaInv
<1>5. CASE job' = [job EXCEPT ![j].step = "looking", ![j].rethrows = TRUE] /\ UNCHANGED <<waiting, active>>
  <2> DEFINE x == [job[j] EXCEPT !.step = "looking", !.rethrows = TRUE]
  <2>1. IsCall(x) /\ x.media = job[j].media /\ x.step = "looking" /\ x.resumed = job[j].resumed
    BY <1>2 DEF IsCall, JobStepName, CannotBeRestored
  <2>2. job' = [job EXCEPT ![j] = x]
    BY <1>5 DEF MediaInv, MediaType
  <2> HIDE DEF x
  <2>3. Holds(x)
    BY <1>2, <2>1 DEF Holds, CannotBeRestored
  <2>4. SlotInv'
    BY <1>1, <1>2, <1>5, <2>1, <2>2, <2>3, SlotsStay DEF MediaInv
  <2>5. Moved(j, x) /\ SlotsOk'
    BY <1>5, <2>2, <2>4 DEF MediaInv, MediaType, Moved, SlotsOk
  <2> QED
    BY <1>1, <1>2, <2>1, <2>5, StoreStays
<1> QED
  BY <1>3, <1>4, <1>5 DEF Downloads

LEMMA DelayKeeps ==
    ASSUME MediaBounds, MediaInv, NEW j \in Job, DelayPasses(j)
    PROVE  MediaInv'
<1>1. job[j].step = "delayed" /\ UNCHANGED <<store, tasks>> /\ Goes(j, "acquire")
  BY DEF DelayPasses
<1>2. IsCall(job[j]) /\ ~CannotBeRestored(job[j])
  BY <1>1, StepIsCall DEF JobStepName
<1> QED
  BY <1>1, <1>2, GoesMoves, StoreStays DEF MediaInv

\* The file is there before its row says so.
LEMMA WritesKeeps ==
    ASSUME MediaBounds, MediaInv, NEW j \in Job, Writes(j)
    PROVE  MediaInv'
<1> DEFINE m == job[j].media
<1>1. job[j].step = "writing" /\ UNCHANGED <<row, served, unrecorded, tasks>>
  BY DEF Writes
<1>2. /\ IsCall(job[j]) /\ ~CannotBeRestored(job[j]) /\ Holds(job[j]) /\ m \in Media /\ row[m] # "none"
  BY <1>1, StepIsCall DEF JobStepName, Holds
<1>3. CASE Fails(j) /\ UNCHANGED file
  BY <1>1, <1>2, <1>3, FailsMoves, StoreStays DEF MediaInv, store
<1>4. CASE file' = [file EXCEPT ![m] = "fresh"] /\ Goes(j, "recording")
  <2>1. PICK x : Moved(j, x) /\ IsCall(x) /\ x.media = m /\ x.step = "recording" /\ SlotsOk'
    BY <1>2, <1>4, GoesMoves DEF MediaInv
  <2>2. /\ file' \in [Media -> {"none", "fresh", "old"}] /\ file'[m] = "fresh"
        /\ \A n \in Media \ {m} : file'[n] = file[n]
    BY <1>2, <1>4 DEF MediaInv, MediaType
  <2>3. /\ row \in [Media -> {"none", "pending", "ready", "skipped", "expired", "gone"}]
        /\ served \subseteq Media /\ unrecorded \subseteq Media
    BY DEF MediaInv, MediaType
  <2>4. m \in served => row[m] = "ready"
    BY DEF MediaInv, ReadyIsServed
  <2>5. x # NoJob
    BY <2>1, CallIs
  <2> QED
    BY <1>1, <1>2, <2>1, <2>2, <2>3, <2>4, <2>5, CallKeeps
<1> QED
  BY <1>3, <1>4 DEF Writes

\* What a status makes of the rows.
LEMMA RecordedIs ==
    ASSUME MediaType, NEW m \in Media, NEW status \in {"ready", "skipped", "expired"}, Recorded(m, status)
    PROVE  /\ row' \in [Media -> {"none", "pending", "ready", "skipped", "expired", "gone"}]
           /\ row'[m] = IF row[m] = "gone" THEN "gone" ELSE status
           /\ \A n \in Media \ {m} : row'[n] = row[n]
BY DEF MediaType, Recorded

LEMMA RecordsKeeps ==
    ASSUME MediaBounds, MediaInv, NEW j \in Job, Records(j)
    PROVE  MediaInv'
<1> DEFINE m == job[j].media
<1>1. job[j].step = "recording" /\ UNCHANGED <<file, unrecorded, tasks>>
  BY DEF Records
<1>2. /\ IsCall(job[j]) /\ ~CannotBeRestored(job[j]) /\ Holds(job[j]) /\ m \in Media /\ row[m] # "none"
  BY <1>1, StepIsCall DEF JobStepName, Holds
<1>3. file[m] = "fresh"
  BY <1>1, <1>2, CallIs DEF MediaInv, CallsInv, Free
<1>4. CASE UNCHANGED <<row, served>> /\ Fails(j)
  BY <1>1, <1>2, <1>4, FailsMoves, StoreStays DEF MediaInv, store
<1>5. CASE /\ Recorded(m, "ready")
           /\ served' = IF row[m] = "gone" THEN served ELSE served \union {m}
           /\ Ends(j) \/ Fails(j)
  <2>1. /\ row' \in [Media -> {"none", "pending", "ready", "skipped", "expired", "gone"}]
        /\ row'[m] = IF row[m] = "gone" THEN "gone" ELSE "ready"
        /\ \A n \in Media \ {m} : row'[n] = row[n]
    BY <1>2, <1>5, RecordedIs DEF MediaInv
  <2>2. PICK x : /\ Moved(j, x) /\ SlotsOk'
                 /\ x = NoJob \/ (IsCall(x) /\ x.media = m)
                 /\ x.step \notin {"recording", "skipping"}
    <3>1. CASE Ends(j)
      BY <1>2, <3>1, EndsMoves, NoCall DEF MediaInv
    <3>2. CASE Fails(j)
      BY <1>2, <3>2, FailsMoves DEF MediaInv
    <3> QED
      BY <1>5, <3>1, <3>2
  <2>3. /\ file \in [Media -> {"none", "fresh", "old"}] /\ served' \subseteq Media /\ unrecorded \subseteq Media
        /\ \A n \in Media \ {m} : n \in served' => n \in served
    BY <1>2, <1>5 DEF MediaInv, MediaType
  <2>4. m \in served' => row[m] # "gone"
    BY <1>5 DEF MediaInv, ReadyIsServed
  <2> QED
    BY <1>1, <1>2, <1>3, <2>1, <2>2, <2>3, <2>4, CallKeeps
<1> QED
  BY <1>4, <1>5 DEF Records

\* What markSkipped() does when the log fails: a download is tried again, or it is the next
\* process that is left to do it.
LEMMA NotSkippedKeeps ==
    ASSUME MediaBounds, MediaInv, NEW j \in Job, job[j].step \in {"looking", "skipping"}, NotSkipped(j),
           UNCHANGED <<file, served, tasks>>,
           UNCHANGED row \/ (job[j].step = "skipping" /\ Recorded(job[j].media, "skipped"))
    PROVE  MediaInv'
<1> DEFINE m == job[j].media
<1>1. IsCall(job[j]) /\ m \in Media /\ row[m] # "none"
  BY StepIsCall DEF JobStepName
<1>2. Holds(job[j]) \/ CannotBeRestored(job[j])
  BY DEF Holds, CannotBeRestored
<1>3. PICK x : /\ Moved(j, x) /\ SlotsOk'
               /\ x = NoJob \/ (IsCall(x) /\ x.media = m)
               /\ x.step \notin {"recording", "skipping"}
               /\ unrecorded' = IF x = NoJob THEN unrecorded \union {m} ELSE unrecorded
  <2>1. CASE job[j].rethrows
    <3>1. Fails(j) /\ unrecorded' = unrecorded /\ ~CannotBeRestored(job[j])
      BY <1>1, <2>1 DEF NotSkipped, IsCall, CannotBeRestored
    <3> QED
      BY <1>1, <1>2, <3>1, FailsMoves, CallIs DEF MediaInv
  <2>2. CASE ~job[j].rethrows
    <3>1. Ends(j) /\ unrecorded' = unrecorded \union {m}
      BY <2>2 DEF NotSkipped
    <3> QED
      BY <1>1, <1>2, <3>1, EndsMoves, NoCall DEF MediaInv
  <2> QED
    BY <2>1, <2>2
<1>4. /\ row' \in [Media -> {"none", "pending", "ready", "skipped", "expired", "gone"}]
      /\ row'[m] # "none" /\ \A n \in Media \ {m} : row'[n] = row[n]
      /\ m \in served => row'[m] = "ready"
  <2>1. CASE UNCHANGED row
    BY <1>1, <2>1 DEF MediaInv, MediaType, ReadyIsServed
  <2>2. CASE job[j].step = "skipping" /\ Recorded(m, "skipped")
    <3>1. row[m] # "ready"
      BY <1>1, <2>2, CallIs DEF MediaInv, CallsInv, Free
    <3>2. m \notin served
      BY <3>1 DEF MediaInv, ReadyIsServed
    <3> QED
      BY <1>1, <2>2, <3>2, RecordedIs DEF MediaInv
  <2> QED
    BY <2>1, <2>2
<1>5. /\ file \in [Media -> {"none", "fresh", "old"}] /\ served \subseteq Media
      /\ unrecorded' \subseteq Media /\ unrecorded \subseteq unrecorded'
      /\ m \in served => file[m] # "none"
  BY <1>1, <1>3 DEF MediaInv, MediaType, ReadyIsServed
<1> QED
  BY <1>1, <1>3, <1>4, <1>5, CallKeeps

LEMMA LooksKeeps ==
    ASSUME MediaBounds, MediaInv, NEW j \in Job, LooksBeforeSkipping(j)
    PROVE  MediaInv'
<1> DEFINE m == job[j].media
<1>1. job[j].step = "looking" /\ UNCHANGED <<row, file, served, tasks>>
  BY DEF LooksBeforeSkipping
<1>2. IsCall(job[j]) /\ m \in Media /\ row[m] # "none"
  BY <1>1, StepIsCall DEF JobStepName
<1>3. Holds(job[j]) \/ CannotBeRestored(job[j])
  BY <1>1 DEF Holds, CannotBeRestored
<1>4. CASE row[m] = "ready" /\ Ends(j) /\ UNCHANGED unrecorded
  <2>1. Moved(j, NoJob) /\ SlotsOk'
    BY <1>2, <1>3, <1>4, EndsMoves DEF MediaInv
  <2>2. /\ row \in [Media -> {"none", "pending", "ready", "skipped", "expired", "gone"}]
        /\ file \in [Media -> {"none", "fresh", "old"}] /\ served \subseteq Media /\ unrecorded \subseteq Media
        /\ m \in served => file[m] # "none"
    BY DEF MediaInv, MediaType, ReadyIsServed
  <2> QED
    BY <1>1, <1>2, <1>4, <2>1, <2>2, NoCall, CallKeeps
<1>5. CASE row[m] # "ready" /\ Goes(j, "skipping") /\ UNCHANGED unrecorded
  <2>1. PICK x : Moved(j, x) /\ IsCall(x) /\ x.media = m /\ x.step = "skipping" /\ SlotsOk'
    BY <1>1, <1>2, <1>3, <1>5, GoesMoves DEF MediaInv
  <2> QED
    BY <1>1, <1>2, <1>5, <2>1, StoreStays DEF store
<1>6. CASE NotSkipped(j)
  BY <1>1, <1>6, NotSkippedKeeps
<1> QED
  BY <1>4, <1>5, <1>6 DEF LooksBeforeSkipping

LEMMA SkipsKeeps ==
    ASSUME MediaBounds, MediaInv, NEW j \in Job, Skips(j)
    PROVE  MediaInv'
<1> DEFINE m == job[j].media
<1>1. job[j].step = "skipping" /\ UNCHANGED <<file, served, tasks>>
  BY DEF Skips
<1>2. IsCall(job[j]) /\ m \in Media /\ row[m] # "none" /\ row[m] # "ready"
  BY <1>1, StepIsCall, CallIs DEF JobStepName, MediaInv, CallsInv, Free
<1>3. Holds(job[j]) \/ CannotBeRestored(job[j])
  BY <1>1 DEF Holds, CannotBeRestored
<1>4. CASE Recorded(m, "skipped") /\ Ends(j) /\ UNCHANGED unrecorded
  <2>1. Moved(j, NoJob) /\ SlotsOk'
    BY <1>2, <1>3, <1>4, EndsMoves DEF MediaInv
  <2>2. /\ row' \in [Media -> {"none", "pending", "ready", "skipped", "expired", "gone"}]
        /\ row'[m] \in {"gone", "skipped"} /\ \A n \in Media \ {m} : row'[n] = row[n]
    BY <1>2, <1>4, RecordedIs DEF MediaInv
  <2>3. /\ file \in [Media -> {"none", "fresh", "old"}] /\ served \subseteq Media /\ unrecorded \subseteq Media
        /\ m \notin served
    BY <1>2 DEF MediaInv, MediaType, ReadyIsServed
  <2> QED
    BY <1>1, <1>2, <1>4, <2>1, <2>2, <2>3, NoCall, CallKeeps
<1>5. CASE Recorded(m, "skipped") /\ NotSkipped(j)
  BY <1>1, <1>5, NotSkippedKeeps
<1>6. CASE UNCHANGED row /\ NotSkipped(j)
  BY <1>1, <1>6, NotSkippedKeeps
<1> QED
  BY <1>4, <1>5, <1>6 DEF Skips

LEMMA JobStepKeeps == MediaBounds /\ MediaInv /\ (\E j \in Job : JobStep(j)) => MediaInv'
BY AcquiresKeeps, DownloadsKeeps, WritesKeeps, RecordsKeeps, LooksKeeps, SkipsKeeps, DelayKeeps DEF JobStep

---------------------------------------------------------------------------
\* Calls that begin

LEMMA NewIs ==
    ASSUME MediaBounds, NEW m \in Media, NEW x \in {New(m, FALSE), Resumed(m)}
    PROVE  IsCall(x) /\ x.media = m /\ x.step \in {"acquire", "looking"} /\ ~Holds(x)
<1>1. CASE x = New(m, FALSE)
  BY <1>1 DEF New, NoJob, IsCall, JobStepName, Holds
<1>2. CASE x = Resumed(m) /\ m \notin Unrestorable
  BY <1>2 DEF Resumed, New, NoJob, IsCall, JobStepName, Holds
<1>3. CASE x = Resumed(m) /\ m \in Unrestorable
  BY <1>3 DEF Resumed, New, NoJob, IsCall, JobStepName, Holds
<1> QED
  BY <1>1, <1>2, <1>3

\* Calls take free places, each for a media of its own that nobody works on.
LEMMA CallsBegin ==
    ASSUME MediaBounds, MediaInv, NEW N \in SUBSET Free, NEW f \in [N -> Media \ InFlight],
           \A k, l \in N : f[k] = f[l] => k = l,
           \A k \in N : job'[k] \in {New(f[k], FALSE), Resumed(f[k])},
           \A k \in Job \ N : job'[k] = job[k],
           UNCHANGED <<waiting, active>>
    PROVE  /\ \A k \in Job : job'[k] = NoJob \/ IsCall(job'[k])
           /\ SlotInv'
           /\ \A k, l \in Job \ Free' : job'[k].media = job'[l].media => k = l
           /\ \A k \in Job \ Free' : \/ k \in Job \ Free /\ job'[k] = job[k]
                                     \/ k \in N /\ job'[k].media = f[k] /\ job'[k].step \in {"acquire", "looking"}
           /\ InFlight \subseteq InFlight' /\ \A k \in N : f[k] \in InFlight'
<1>1. \A k \in N : /\ IsCall(job'[k]) /\ job'[k].media = f[k] /\ job'[k].step \in {"acquire", "looking"}
                   /\ ~Holds(job'[k]) /\ k \in Job /\ job[k] = NoJob
  <2> TAKE k \in N
  <2>1. f[k] \in Media /\ k \in Free
    OBVIOUS
  <2> QED
    BY <2>1, NewIs DEF Free
<1>2. \A k \in Job : job'[k] = NoJob \/ IsCall(job'[k])
  BY <1>1 DEF MediaInv, MediaType
<1>3. Holders' = Holders
  <2>1. \A k \in Job : Holds(job'[k]) <=> Holds(job[k])
    BY <1>1, NoCall
  <2> QED
    BY <2>1 DEF Holders
<1>4. \A k \in Job : job'[k].step = "waiting" <=> job[k].step = "waiting"
  BY <1>1, NoCall
<1>5. SlotInv'
  BY <1>3, <1>4 DEF MediaInv, SlotInv
<1>6. Free' = Free \ N
  BY <1>1, CallIs DEF Free
<1>7. \A k \in Job \ Free' : \/ k \in Job \ Free /\ k \notin N /\ job'[k] = job[k]
                             \/ k \in N /\ job'[k].media = f[k] /\ job'[k].step \in {"acquire", "looking"}
  BY <1>1, <1>6
<1>8. \A k \in Job \ Free : job[k].media \in InFlight
  BY DEF InFlight
<1>9. \A k, l \in Job \ Free' : job'[k].media = job'[l].media => k = l
  <2> SUFFICES ASSUME NEW k \in Job \ Free', NEW l \in Job \ Free', job'[k].media = job'[l].media
               PROVE  k = l
    OBVIOUS
  <2>1. CASE k \in N /\ l \in N
    BY <1>1, <2>1
  <2>2. CASE k \notin N /\ l \notin N
    BY <1>7, <2>2 DEF MediaInv, CallsInv
  <2>3. CASE k \in N /\ l \notin N
    BY <1>1, <1>7, <1>8, <2>3
  <2>4. CASE k \notin N /\ l \in N
    BY <1>1, <1>7, <1>8, <2>4
  <2> QED
    BY <2>1, <2>2, <2>3, <2>4
<1>10. /\ InFlight \subseteq InFlight' /\ \A k \in N : f[k] \in InFlight'
  <2>1. \A k \in Job \ Free : k \in Job \ Free' /\ job'[k] = job[k]
    BY <1>6
  <2>2. \A k \in N : k \in Job \ Free'
    BY <1>1, <1>6
  <2> QED
    BY <1>1, <1>7, <2>1, <2>2 DEF InFlight
<1> QED
  BY <1>2, <1>5, <1>7, <1>9, <1>10

LEMMA ArrivesKeeps ==
    ASSUME MediaBounds, MediaInv, Arrives
    PROVE  MediaInv'
<1>1. /\ Free # {} /\ running
      /\ UNCHANGED <<file, served, unrecorded, waiting, active, resume, retention, running>>
  BY DEF Arrives, tasks
<1>2. PICK m \in Media : row[m] = "none" /\ row' = [row EXCEPT ![m] = "pending"] /\ Scheduled(m)
  BY DEF Arrives
<1>3. PICK j \in Free : j = NextFree /\ j \in Job
  BY <1>1 DEF NextFree, Free
<1> DEFINE f == [k \in {j} |-> m]
<1>4. m \notin InFlight
  BY <1>2 DEF InFlight, MediaInv, CallsInv
<1>5. /\ job' = [job EXCEPT ![j] = New(m, FALSE)]
      /\ job'[j] = New(m, FALSE) /\ \A k \in Job \ {j} : job'[k] = job[k]
      /\ job' = [k \in Job |-> job'[k]]
  BY <1>2, <1>3 DEF Scheduled, MediaInv, MediaType
<1>6. {j} \in SUBSET Free /\ f \in [{j} -> Media \ InFlight] /\ f[j] = m
  BY <1>3, <1>4
<1> HIDE DEF f
<1>7. /\ \A k \in Job : job'[k] = NoJob \/ IsCall(job'[k])
      /\ SlotInv'
      /\ \A k, l \in Job \ Free' : job'[k].media = job'[l].media => k = l
      /\ \A k \in Job \ Free' : \/ k \in Job \ Free /\ job'[k] = job[k]
                                \/ k \in {j} /\ job'[k].media = f[k] /\ job'[k].step \in {"acquire", "looking"}
      /\ InFlight \subseteq InFlight' /\ \A k \in {j} : f[k] \in InFlight'
      /\ \A n \in InFlight' : n \in InFlight \/ \E k \in {j} : f[k] = n
  <2>1. \A k, l \in {j} : f[k] = f[l] => k = l
    OBVIOUS
  <2>2. \A k \in {j} : job'[k] \in {New(f[k], FALSE), Resumed(f[k])}
    BY <1>5, <1>6
  <2> QED
    <3> DEFINE N == {j}
    <3>1. /\ N \in SUBSET Free /\ f \in [N -> Media \ InFlight]
          /\ \A k, l \in N : f[k] = f[l] => k = l
          /\ \A k \in N : job'[k] \in {New(f[k], FALSE), Resumed(f[k])}
          /\ \A k \in Job \ N : job'[k] = job[k]
      BY <1>5, <1>6, <2>1, <2>2
    <3>2. UNCHANGED <<waiting, active>>
      BY <1>1
    <3> HIDE DEF N
    <3>3. \A k \in Job : job'[k] = NoJob \/ IsCall(job'[k])
      BY <3>1, <3>2, CallsBegin
    <3>4. SlotInv'
      BY <3>1, <3>2, CallsBegin
    <3>5. \A k, l \in Job \ Free' : job'[k].media = job'[l].media => k = l
      BY <3>1, <3>2, CallsBegin
    <3>6. \A k \in Job \ Free' : \/ k \in Job \ Free /\ job'[k] = job[k]
                                 \/ k \in N /\ job'[k].media = f[k] /\ job'[k].step \in {"acquire", "looking"}
      BY <3>1, <3>2, CallsBegin
    <3>7. InFlight \subseteq InFlight' /\ \A k \in N : f[k] \in InFlight'
      BY <3>1, <3>2, CallsBegin
    <3>8. \A n \in InFlight' : n \in InFlight \/ \E k \in N : f[k] = n
      BY <3>6 DEF InFlight
    <3> QED
      BY <3>3, <3>4, <3>5, <3>6, <3>7, <3>8 DEF N
<1>8. InFlight' = InFlight \union {m}
  BY <1>6, <1>7
<1>9. /\ row' \in [Media -> {"none", "pending", "ready", "skipped", "expired", "gone"}]
      /\ row'[m] = "pending" /\ \A n \in Media \ {m} : row'[n] = row[n]
  BY <1>2 DEF MediaInv, MediaType
<1>10. MediaType'
  BY <1>1, <1>5, <1>7, <1>9 DEF MediaInv, MediaType
<1>11. CallsInv'
  <2>1. ASSUME NEW k \in Job \ Free'
        PROVE  /\ row'[job'[k].media] # "none"
               /\ job'[k].step = "recording" => file'[job'[k].media] = "fresh"
               /\ job'[k].step = "skipping" => row'[job'[k].media] # "ready"
    <3>1. CASE k \in {j} /\ job'[k].media = f[k] /\ job'[k].step \in {"acquire", "looking"}
      BY <1>6, <1>9, <3>1
    <3>2. CASE k \in Job \ Free /\ job'[k] = job[k]
      <4>1. job[k].media \in Media \ {m}
        BY <1>4, <3>2, InFlightIs DEF MediaInv
      <4> QED
        BY <1>1, <1>9, <3>2, <4>1 DEF MediaInv, CallsInv
    <3> QED
      BY <1>7, <3>1, <3>2
  <2> QED
    BY <1>7, <2>1 DEF CallsInv
<1>12. file[m] = "none" /\ m \notin retention.purged /\ m \notin served
  BY <1>2 DEF MediaInv, FilesInv, ReadyIsServed, MediaType
<1>13. FilesInv'
  <2>1. \A n \in Media : row'[n] = "none" => file'[n] = "none"
    BY <1>1, <1>9 DEF MediaInv, FilesInv
  <2>2. \A n \in Media : file'[n] = "old" \/ n \in retention'.purged =>
             row'[n] \notin {"none", "pending"} /\ n \notin InFlight'
    <3> TAKE n \in Media
    <3>1. CASE n = m
      BY <1>1, <1>12, <3>1
    <3>2. CASE n # m
      BY <1>1, <1>8, <1>9, <3>2 DEF MediaInv, FilesInv
    <3> QED
      BY <3>1, <3>2
  <2> QED
    BY <1>1, <2>1, <2>2 DEF MediaInv, FilesInv
<1>14. ReadyIsServed'
  BY <1>1, <1>9, <1>12 DEF MediaInv, ReadyIsServed, MediaType
<1>15. PendingIsRemembered'
  <2>1. SlotsAreKept'
    BY <1>7 DEF SlotInv, Holders, Holds, SlotsAreKept
  <2> QED
    BY <1>1, <1>8, <1>9, <2>1 DEF MediaInv, PendingIsRemembered
<1> QED
  BY <1>7, <1>10, <1>11, <1>13, <1>14, <1>15 DEF MediaInv

---------------------------------------------------------------------------
\* A page of pending media

LEMMA LeastNatural ==
    ASSUME NEW T \in SUBSET Nat, T # {}
    PROVE  \E n \in T : \A m \in T : ~(m < n)
<1>1. PICK n \in T : \A m \in T : <<m, n>> \notin OpToRel(<, Nat)
  BY WFMin, NatLessThanWellFounded, Zenon
<1>2. \A m \in T : m < n => <<m, n>> \in OpToRel(<, Nat)
  BY Zenon DEF OpToRel
<1> QED
  BY <1>1, <1>2, Zenon

LEMMA GreatestMedia ==
    ASSUME MediaBounds, NEW S \in SUBSET Media, S # {}
    PROVE  \E m \in S : \A n \in S : n <= m
<1> DEFINE T == {LastMedia - m : m \in S}
<1>0. LastMedia \in Nat /\ \A m \in S : m \in Nat /\ LastMedia - m \in Nat
  BY DEF MediaBounds, Media
<1>1. T \in SUBSET Nat /\ T # {}
  BY <1>0
<1>2. PICK t \in T : \A s \in T : ~(s < t)
  BY <1>1, LeastNatural
<1>3. PICK m \in S : t = LastMedia - m
  BY <1>2
<1>4. \A n \in S : n <= m
  BY <1>2, <1>3 DEF MediaBounds, Media
<1> QED
  BY <1>4

LEMMA PageIs ==
    ASSUME MediaBounds, NEW pending \in SUBSET Media, NEW page,
           page = {m \in pending : Cardinality({n \in pending : n < m}) < BatchSize}
    PROVE  /\ page = {} => pending = {}
           /\ page # {} => \E p \in page : /\ p = CHOOSE m \in page : \A n \in page : n <= m
                                           /\ \A m \in pending : m <= p => m \in page
<1>1. IsFiniteSet(pending)
  <2>1. IsFiniteSet(1 .. LastMedia)
    BY FS_Interval DEF MediaBounds
  <2> QED
    BY <2>1, FS_Subset DEF Media
<1>2. ASSUME pending # {} PROVE page # {}
  <2>1. PICK m \in pending : \A n \in pending : ~(n < m)
    BY <1>2, LeastNatural DEF Media
  <2>2. {n \in pending : n < m} = {}
    BY <2>1
  <2>3. Cardinality({n \in pending : n < m}) = 0
    BY <2>2, FS_EmptySet
  <2> QED
    BY <2>1, <2>3 DEF MediaBounds
<1>3. ASSUME page # {}
      PROVE  \E p \in page : /\ p = CHOOSE m \in page : \A n \in page : n <= m
                             /\ \A m \in pending : m <= p => m \in page
  <2> DEFINE p == CHOOSE m \in page : \A n \in page : n <= m
  <2>1. p \in page /\ p \in pending
    BY <1>3, GreatestMedia
  <2> HIDE DEF p
  <2>2. ASSUME NEW m \in pending, m <= p PROVE m \in page
    <3> DEFINE A == {n \in pending : n < m}
               B == {n \in pending : n < p}
    <3>1. A \subseteq B /\ IsFiniteSet(A) /\ IsFiniteSet(B)
      <4>1. p \in Nat /\ m \in Nat /\ \A n \in pending : n \in Nat
        BY <2>1, <2>2 DEF Media
      <4>3. ASSUME NEW n \in A PROVE n \in B
        BY <2>2, <4>1
      <4>2. A \subseteq pending /\ B \subseteq pending
        OBVIOUS
      <4> QED
        BY <1>1, <4>2, <4>3, FS_Subset
    <3>2. Cardinality(A) <= Cardinality(B) /\ Cardinality(A) \in Nat /\ Cardinality(B) \in Nat
      BY <3>1, FS_Subset, FS_CardinalityType
    <3>3. Cardinality(B) < BatchSize
      BY <2>1
    <3> QED
      BY <3>2, <3>3 DEF MediaBounds
  <2> QED
    BY <2>1, <2>2 DEF p
<1> QED
  BY <1>2, <1>3

---------------------------------------------------------------------------
\* The passes over what is pending

LEMMA StartsResumeKeeps ==
    ASSUME MediaBounds, MediaInv, StartsResume \/ Starts
    PROVE  MediaInv'
<1>1. /\ resume' = [on |-> TRUE, after |-> 0] /\ running' \in BOOLEAN
      /\ UNCHANGED <<row, file, served, unrecorded, job, waiting, active, retention>>
  BY DEF StartsResume, Starts, store, work, MediaInv, MediaType
<1>2. resume'.on /\ \A m \in Media : m > resume'.after
  BY <1>1 DEF Media
<1>3. MediaType'
  BY <1>1 DEF MediaInv, MediaType
<1>4. SlotInv' /\ CallsInv' /\ FilesInv' /\ ReadyIsServed'
  BY <1>1 DEF MediaInv, SlotInv, Holders, Holds, CallsInv, FilesInv, ReadyIsServed, Free, InFlight
<1>5. PendingIsRemembered'
  <2>1. SlotsAreKept'
    BY <1>4 DEF SlotInv, Holders, Holds, SlotsAreKept
  <2> QED
    BY <1>2, <2>1 DEF PendingIsRemembered
<1> QED
  BY <1>3, <1>4, <1>5 DEF MediaInv

\* The page has what is pending up to its last, and every media of it is worked on by then.
LEMMA ResumesPageKeeps ==
    ASSUME MediaBounds, MediaInv, ResumesPage
    PROVE  MediaInv'
<1> DEFINE pending == PendingAfter(resume.after)
           page == {m \in pending : Cardinality({n \in pending : n < m}) < BatchSize}
           new == page \ InFlight
<1>1. /\ resume.on
      /\ UNCHANGED <<row, file, served, unrecorded, waiting, active, retention, running>>
  BY DEF ResumesPage, store
<1>2. /\ page = {} => resume' = NoResume /\ UNCHANGED job
      /\ page # {} => /\ resume' = [resume EXCEPT !.after = CHOOSE m \in page : \A n \in page : n <= m]
                      /\ \E taken \in [new -> Free] :
                             /\ \A m, n \in new : taken[m] = taken[n] => m = n
                             /\ job' = [j \in Job |->
                                   IF \E m \in new : taken[m] = j
                                   THEN Resumed(CHOOSE m \in new : taken[m] = j)
                                   ELSE job[j]]
  BY DEF ResumesPage
<1>3. \A m \in Media : row[m] = "pending" /\ m > resume.after <=> m \in pending
  BY DEF PendingAfter
<1>4. pending \in SUBSET Media
  BY DEF PendingAfter
<1> HIDE DEF pending
<1>5. /\ page = {} => pending = {}
      /\ page # {} => \E p \in page : /\ p = CHOOSE m \in page : \A n \in page : n <= m
                                      /\ \A m \in pending : m <= p => m \in page
  BY <1>4, PageIs
<1>6. page \subseteq pending
  OBVIOUS
<1> HIDE DEF page
<1>7. \A m \in Media : row[m] = "pending" =>
          m \in InFlight \union unrecorded \/ m \in pending \/ ~running
  BY <1>3 DEF MediaInv, PendingIsRemembered
<1>8. CASE page = {}
  <2>1. job' = job /\ resume' = NoResume
    BY <1>2, <1>8
  <2>2. MediaType'
    BY <1>1, <2>1 DEF MediaInv, MediaType, NoResume
  <2>3. SlotInv' /\ CallsInv' /\ FilesInv' /\ ReadyIsServed'
    BY <1>1, <2>1 DEF MediaInv, SlotInv, Holders, Holds, CallsInv, FilesInv, ReadyIsServed, Free, InFlight
  <2>4. PendingIsRemembered'
    <3>1. SlotsAreKept'
      BY <2>3 DEF SlotInv, Holders, Holds, SlotsAreKept
    <3>2. InFlight' = InFlight
      BY <2>1 DEF InFlight, Free
    <3> QED
      BY <1>1, <1>5, <1>7, <1>8, <3>1, <3>2 DEF PendingIsRemembered
  <2> QED
    BY <2>2, <2>3, <2>4 DEF MediaInv
<1>9. CASE page # {}
  <2>1. PICK p \in page : /\ p = CHOOSE m \in page : \A n \in page : n <= m
                          /\ \A m \in pending : m <= p => m \in page
    BY <1>5, <1>9
  <2>2. resume' = [resume EXCEPT !.after = p]
    BY <1>2, <1>9, <2>1
  <2>3. p \in Nat /\ resume \in [on : BOOLEAN, after : Nat] /\ \A m \in Media : m \in Nat
    BY <1>4, <1>6, <2>1 DEF Media, MediaInv, MediaType
  <2>4. resume' \in [on : BOOLEAN, after : Nat] /\ resume'.on /\ resume'.after = p
    BY <1>1, <2>2, <2>3
  <2>5. PICK taken \in [new -> Free] :
            /\ \A m, n \in new : taken[m] = taken[n] => m = n
            /\ job' = [j \in Job |->
                  IF \E m \in new : taken[m] = j
                  THEN Resumed(CHOOSE m \in new : taken[m] = j)
                  ELSE job[j]]
    BY <1>2, <1>9
  <2>6. new \subseteq Media /\ \A m \in new : m \notin InFlight /\ row[m] = "pending" /\ m \in page
    BY <1>3, <1>4, <1>6
  <2>7. \A m \in page : m \in InFlight \/ m \in new
    OBVIOUS
  <2>8. PICK W : W = new
    OBVIOUS
  <2> HIDE DEF new
  <2> DEFINE N == {taken[m] : m \in W}
             f == [k \in N |-> CHOOSE m \in W : taken[m] = k]
  <2>9. \A m \in W : taken[m] \in Free /\ taken[m] \in N
    BY <2>5, <2>8
  <2>10. \A k \in N : f[k] \in W /\ taken[f[k]] = k
    OBVIOUS
  <2>11. \A m \in W : f[taken[m]] = m
    BY <2>5, <2>8, <2>9, <2>10
  <2>12. N \in SUBSET Free /\ N \subseteq Job
    BY <2>9 DEF Free
  <2>13. f \in [N -> Media \ InFlight]
    BY <2>6, <2>8, <2>10
  <2>14. \A k \in Job : job'[k] = IF k \in N THEN Resumed(f[k]) ELSE job[k]
    BY <2>5, <2>8
  <2>15. job' = [k \in Job |-> job'[k]]
    BY <2>5
  <2>16. PICK M, g : M = N /\ g = f
    OBVIOUS
  <2> HIDE DEF N, f
  <2>17. /\ M \in SUBSET Free /\ g \in [M -> Media \ InFlight]
         /\ \A k, l \in M : g[k] = g[l] => k = l
         /\ \A k \in M : job'[k] \in {New(g[k], FALSE), Resumed(g[k])}
         /\ \A k \in Job \ M : job'[k] = job[k]
    BY <2>10, <2>12, <2>13, <2>14, <2>16
  <2>18. UNCHANGED <<waiting, active>>
    BY <1>1
  <2>19. \A k \in Job : job'[k] = NoJob \/ IsCall(job'[k])
    BY <2>17, <2>18, CallsBegin
  <2>20. SlotInv'
    BY <2>17, <2>18, CallsBegin
  <2>21. \A k, l \in Job \ Free' : job'[k].media = job'[l].media => k = l
    BY <2>17, <2>18, CallsBegin
  <2>22. \A k \in Job \ Free' : \/ k \in Job \ Free /\ job'[k] = job[k]
                                \/ k \in M /\ job'[k].media = g[k] /\ job'[k].step \in {"acquire", "looking"}
    BY <2>17, <2>18, CallsBegin
  <2>23. InFlight \subseteq InFlight' /\ \A k \in M : g[k] \in InFlight'
    BY <2>17, <2>18, CallsBegin
  <2>24. \A n \in InFlight' : n \in InFlight \/ n \in W
    BY <2>10, <2>16, <2>22 DEF InFlight
  <2>25. \A m \in page : m \in InFlight'
    BY <2>7, <2>8, <2>9, <2>11, <2>16, <2>23
  <2>26. MediaType'
    BY <1>1, <2>4, <2>15, <2>19 DEF MediaInv, MediaType
  <2>27. CallsInv'
    <3>1. ASSUME NEW k \in Job \ Free'
          PROVE  /\ row'[job'[k].media] # "none"
                 /\ job'[k].step = "recording" => file'[job'[k].media] = "fresh"
                 /\ job'[k].step = "skipping" => row'[job'[k].media] # "ready"
      <4>1. CASE k \in M /\ job'[k].media = g[k] /\ job'[k].step \in {"acquire", "looking"}
        BY <1>1, <2>6, <2>8, <2>10, <2>16, <4>1
      <4>2. CASE k \in Job \ Free /\ job'[k] = job[k]
        BY <1>1, <4>2 DEF MediaInv, CallsInv
      <4> QED
        BY <2>22, <4>1, <4>2
    <3> QED
      BY <2>21, <3>1 DEF CallsInv
  <2>28. FilesInv'
    <3>1. \A n \in Media : file'[n] = "old" \/ n \in retention'.purged =>
              row'[n] \notin {"none", "pending"} /\ n \notin InFlight'
      BY <1>1, <2>6, <2>8, <2>24 DEF MediaInv, FilesInv
    <3> QED
      BY <1>1, <3>1 DEF MediaInv, FilesInv
  <2>29. ReadyIsServed'
    BY <1>1 DEF MediaInv, ReadyIsServed
  <2>30. PendingIsRemembered'
    <3>1. SlotsAreKept'
      BY <2>20 DEF SlotInv, Holders, Holds, SlotsAreKept
    <3>2. ASSUME running', NEW m \in Media, row'[m] = "pending"
          PROVE  m \in InFlight' \union unrecorded' \/ (resume'.on /\ m > resume'.after)
      <4>1. CASE m \in InFlight \union unrecorded
        BY <1>1, <2>23, <4>1
      <4>2. CASE m \in pending
        <5>1. CASE m <= p
          BY <2>1, <2>25, <4>2, <5>1
        <5>2. CASE m > p
          BY <2>4, <5>2
        <5> QED
          BY <2>3, <5>1, <5>2
      <4> QED
        BY <1>1, <1>7, <3>2, <4>1, <4>2
    <3> QED
      BY <3>1, <3>2 DEF PendingIsRemembered
  <2> QED
    BY <2>20, <2>26, <2>27, <2>28, <2>29, <2>30 DEF MediaInv
<1> QED
  BY <1>8, <1>9

LEMMA ResumeFailsKeeps ==
    ASSUME MediaBounds, MediaInv, ResumeFails
    PROVE  MediaInv'
<1>1. /\ resume' = NoResume /\ unrecorded' = unrecorded \union (PendingAfter(resume.after) \ InFlight)
      /\ UNCHANGED <<row, file, served, job, waiting, active, retention, running>>
  BY DEF ResumeFails, work
<1>2. MediaType'
  BY <1>1 DEF MediaInv, MediaType, NoResume, PendingAfter
<1>3. SlotInv' /\ CallsInv' /\ FilesInv' /\ ReadyIsServed' /\ InFlight' = InFlight
  BY <1>1 DEF MediaInv, SlotInv, Holders, Holds, CallsInv, FilesInv, ReadyIsServed, Free, InFlight
<1>4. PendingIsRemembered'
  <2>1. SlotsAreKept'
    BY <1>3 DEF SlotInv, Holders, Holds, SlotsAreKept
  <2> QED
    BY <1>1, <1>3, <2>1 DEF MediaInv, PendingIsRemembered, PendingAfter
<1> QED
  BY <1>2, <1>3, <1>4 DEF MediaInv

---------------------------------------------------------------------------
\* Retention, time and the process: no call is touched, but by the end of all.

LEMMA RestKeeps ==
    ASSUME MediaBounds, MediaInv, UNCHANGED <<job, waiting, active, resume, running, unrecorded>>,
           row' \in [Media -> {"none", "pending", "ready", "skipped", "expired", "gone"}],
           file' \in [Media -> {"none", "fresh", "old"}],
           served' \subseteq served,
           retention' \in [step : {"idle", "purging", "marking", "deleting"}, purged : SUBSET Media],
           \A m \in Media : /\ row'[m] = row[m] \/ (row'[m] \in {"expired", "gone"} /\ row[m] # "none")
                            /\ file[m] = "fresh" /\ m \in InFlight => file'[m] = "fresh"
                            /\ file[m] = "none" => file'[m] = "none",
           \A m \in served' : row'[m] = "ready" /\ file'[m] # "none",
           \A m \in Media : file'[m] = "old" \/ m \in retention'.purged =>
               row[m] \notin {"none", "pending"} /\ m \notin InFlight,
           retention'.purged \intersect served' = {}
    PROVE  MediaInv'
<1>1. MediaType'
  BY DEF MediaInv, MediaType
<1>2. SlotInv' /\ InFlight' = InFlight /\ Free' = Free
  BY DEF MediaInv, SlotInv, Holders, Holds, Free, InFlight
<1>3. CallsInv'
  <2>1. ASSUME NEW k \in Job \ Free
        PROVE  /\ row'[job[k].media] # "none"
               /\ job[k].step = "recording" => file'[job[k].media] = "fresh"
               /\ job[k].step = "skipping" => row'[job[k].media] # "ready"
    <3>1. job[k].media \in Media /\ job[k].media \in InFlight
      BY InFlightIs DEF MediaInv
    <3> QED
      BY <3>1 DEF MediaInv, CallsInv
  <2> QED
    BY <1>2, <2>1 DEF MediaInv, CallsInv
<1>4. FilesInv'
  <2>1. \A m \in Media : row'[m] = "none" => file'[m] = "none"
    BY DEF MediaInv, FilesInv
  <2> QED
    BY <1>2, <2>1 DEF FilesInv
<1>5. ReadyIsServed'
  BY DEF ReadyIsServed
<1>6. PendingIsRemembered'
  <2>1. SlotsAreKept'
    BY <1>2 DEF SlotInv, Holders, Holds, SlotsAreKept
  <2> QED
    BY <1>2, <2>1 DEF MediaInv, PendingIsRemembered
<1> QED
  BY <1>1, <1>2, <1>3, <1>4, <1>5, <1>6 DEF MediaInv

LEMMA RetentionKeeps ==
    ASSUME MediaBounds, MediaInv, RetentionStarts \/ Purges \/ MarksExpired \/ DeletesRows
    PROVE  MediaInv'
<1>1. /\ UNCHANGED <<job, waiting, active, resume, running, unrecorded>>
  BY DEF RetentionStarts, Purges, MarksExpired, DeletesRows, store, work
<1>2. /\ row \in [Media -> {"none", "pending", "ready", "skipped", "expired", "gone"}]
      /\ file \in [Media -> {"none", "fresh", "old"}] /\ served \subseteq Media
      /\ retention \in [step : {"idle", "purging", "marking", "deleting"}, purged : SUBSET Media]
      /\ \A m \in served : row[m] = "ready" /\ file[m] # "none"
      /\ \A m \in Media : file[m] = "old" \/ m \in retention.purged =>
             row[m] \notin {"none", "pending"} /\ m \notin InFlight
      /\ retention.purged \intersect served = {}
  BY DEF MediaInv, MediaType, ReadyIsServed, FilesInv
<1>3. CASE UNCHANGED <<row, file, served>> /\ \E s \in {"purging", "marking", "deleting"} :
               retention' = [retention EXCEPT !.step = s] \/ retention' = [step |-> s, purged |-> {}]
  <2>1. PICK s \in {"purging", "marking", "deleting"} :
            retention' = [retention EXCEPT !.step = s] \/ retention' = [step |-> s, purged |-> {}]
    BY <1>3
  <2>2. /\ retention' \in [step : {"idle", "purging", "marking", "deleting"}, purged : SUBSET Media]
        /\ retention'.purged \subseteq retention.purged
    BY <1>2, <2>1
  <2> QED
    BY <1>1, <1>2, <1>3, <2>2, RestKeeps
<1>4. CASE \E m \in Media :
               /\ file[m] = "old"
               /\ file' = [file EXCEPT ![m] = "none"] /\ served' = served \ {m}
               /\ retention' = [retention EXCEPT !.purged = @ \union {m}]
               /\ UNCHANGED row
  <2>1. PICK m \in Media :
               /\ file[m] = "old"
               /\ file' = [file EXCEPT ![m] = "none"] /\ served' = served \ {m}
               /\ retention' = [retention EXCEPT !.purged = @ \union {m}]
               /\ UNCHANGED row
    BY <1>4
  <2>2. /\ file' \in [Media -> {"none", "fresh", "old"}] /\ file'[m] = "none"
        /\ \A n \in Media \ {m} : file'[n] = file[n]
    BY <1>2, <2>1
  <2>3. /\ retention' \in [step : {"idle", "purging", "marking", "deleting"}, purged : SUBSET Media]
        /\ retention'.purged = retention.purged \union {m}
    BY <1>2, <2>1
  <2>4. \A n \in served' : row'[n] = "ready" /\ file'[n] # "none"
    BY <1>2, <2>1, <2>2
  <2>5. \A n \in Media : file'[n] = "old" \/ n \in retention'.purged =>
               row[n] \notin {"none", "pending"} /\ n \notin InFlight
    BY <1>2, <2>1, <2>2, <2>3
  <2>6. retention'.purged \intersect served' = {} /\ served' \subseteq served
    BY <1>2, <2>1, <2>3
  <2>7. \A n \in Media : /\ row'[n] = row[n]
                         /\ file[n] = "fresh" /\ n \in InFlight => file'[n] = "fresh"
                         /\ file[n] = "none" => file'[n] = "none"
    BY <1>2, <2>1, <2>2
  <2> QED
    BY <1>1, <1>2, <2>1, <2>2, <2>3, <2>4, <2>5, <2>6, <2>7, RestKeeps
<1>5. CASE \E m \in retention.purged :
               /\ retention' = [retention EXCEPT !.purged = @ \ {m}]
               /\ Recorded(m, "expired") \/ UNCHANGED row
               /\ UNCHANGED <<file, served>>
  <2>1. PICK m \in retention.purged :
               /\ retention' = [retention EXCEPT !.purged = @ \ {m}]
               /\ Recorded(m, "expired") \/ UNCHANGED row
               /\ UNCHANGED <<file, served>>
    BY <1>5
  <2>2. m \in Media /\ m \notin served /\ row[m] # "none"
    BY <1>2
  <2>3. /\ row' \in [Media -> {"none", "pending", "ready", "skipped", "expired", "gone"}]
        /\ row'[m] \in {row[m], "gone", "expired"} /\ \A n \in Media \ {m} : row'[n] = row[n]
    BY <1>2, <2>1, <2>2, RecordedIs DEF MediaInv
  <2>4. /\ retention' \in [step : {"idle", "purging", "marking", "deleting"}, purged : SUBSET Media]
        /\ retention'.purged \subseteq retention.purged
    BY <1>2, <2>1
  <2>5. \A n \in Media : row'[n] = row[n] \/ (row'[n] \in {"expired", "gone"} /\ row[n] # "none")
    BY <2>2, <2>3
  <2>6. \A n \in served' : row'[n] = "ready" /\ file'[n] # "none"
    BY <1>2, <2>1, <2>2, <2>3
  <2> QED
    BY <1>1, <1>2, <2>1, <2>3, <2>4, <2>5, <2>6, RestKeeps
<1>6. CASE /\ \E old \in SUBSET {m \in Media : row[m] # "none" /\ file[m] # "fresh"} :
                  /\ row' = [m \in Media |-> IF m \in old THEN "gone" ELSE row[m]]
                  /\ served' = served \ old
           /\ retention' = NoRetention /\ UNCHANGED file
  <2>1. PICK old \in SUBSET {m \in Media : row[m] # "none" /\ file[m] # "fresh"} :
                  /\ row' = [m \in Media |-> IF m \in old THEN "gone" ELSE row[m]]
                  /\ served' = served \ old
    BY <1>6
  <2>2. /\ row' \in [Media -> {"none", "pending", "ready", "skipped", "expired", "gone"}]
        /\ \A n \in Media : row'[n] = row[n] \/ (row'[n] \in {"expired", "gone"} /\ row[n] # "none")
        /\ \A n \in served' : n \in served /\ row'[n] = row[n]
    BY <1>2, <2>1
  <2>3. retention'.purged = {} /\ retention' \in [step : {"idle", "purging", "marking", "deleting"}, purged : SUBSET Media]
    BY <1>6 DEF NoRetention
  <2> QED
    BY <1>1, <1>2, <1>6, <2>1, <2>2, <2>3, RestKeeps
<1>7. CASE RetentionStarts
  BY <1>3, <1>7 DEF RetentionStarts, store
<1>8. CASE Purges
  BY <1>3, <1>4, <1>8 DEF Purges
<1>9. CASE MarksExpired
  BY <1>3, <1>5, <1>9 DEF MarksExpired
<1>10. CASE DeletesRows
  BY <1>6, <1>10 DEF DeletesRows
<1> QED
  BY <1>7, <1>8, <1>9, <1>10

LEMMA AgesKeeps ==
    ASSUME MediaBounds, MediaInv, NEW m \in Media, Ages(m)
    PROVE  MediaInv'
<1>1. /\ file[m] = "fresh" /\ row[m] # "pending" /\ m \notin InFlight
      /\ file' = [file EXCEPT ![m] = "old"]
      /\ UNCHANGED <<row, served, unrecorded, job, waiting, active, resume, retention, running>>
  BY DEF Ages, work, tasks
<1>2. /\ row \in [Media -> {"none", "pending", "ready", "skipped", "expired", "gone"}]
      /\ served \subseteq Media
      /\ retention \in [step : {"idle", "purging", "marking", "deleting"}, purged : SUBSET Media]
      /\ \A n \in served : row[n] = "ready" /\ file[n] # "none"
      /\ retention.purged \intersect served = {}
  BY DEF MediaInv, MediaType, ReadyIsServed, FilesInv
<1>3. /\ file' \in [Media -> {"none", "fresh", "old"}] /\ file'[m] = "old"
      /\ \A n \in Media \ {m} : file'[n] = file[n]
  BY <1>1 DEF MediaInv, MediaType
<1>4. row[m] # "none"
  BY <1>1 DEF MediaInv, FilesInv
<1>5. \A n \in Media : file'[n] = "old" \/ n \in retention'.purged =>
          row[n] \notin {"none", "pending"} /\ n \notin InFlight
  BY <1>1, <1>3, <1>4 DEF MediaInv, FilesInv
<1>6. \A n \in Media : /\ file[n] = "fresh" /\ n \in InFlight => file'[n] = "fresh"
                       /\ file[n] = "none" => file'[n] = "none"
  BY <1>1, <1>3
<1>7. \A n \in served : file'[n] # "none"
  BY <1>2, <1>3
<1> QED
  BY <1>1, <1>2, <1>3, <1>5, <1>6, <1>7, RestKeeps

\* Nothing is in progress.
LEMMA IdleIs ==
    ASSUME MediaBounds, job = [j \in Job |-> NoJob], waiting = <<>>, active = 0
    PROVE  /\ \A j \in Job : job[j] = NoJob
           /\ SlotInv /\ CallsInv /\ Free = Job /\ InFlight = {}
<1>1. \A j \in Job : job[j] = NoJob
  OBVIOUS
<1>2. Holders = {}
  BY <1>1, NoCall DEF Holders
<1>3. SlotInv
  BY <1>1, <1>2, NoCall, FS_EmptySet DEF SlotInv, MediaBounds
<1>4. Free = Job
  BY <1>1 DEF Free
<1> QED
  BY <1>1, <1>3, <1>4 DEF CallsInv, InFlight

LEMMA StopsKeeps ==
    ASSUME MediaBounds, MediaInv, Stops
    PROVE  MediaInv'
<1>1. /\ running' = FALSE /\ job' = [j \in Job |-> NoJob] /\ waiting' = <<>> /\ active' = 0
      /\ resume' = NoResume /\ retention' = NoRetention /\ unrecorded' = {}
      /\ UNCHANGED <<row, file, served>>
  BY DEF Stops
<1>2. /\ \A j \in Job : job'[j] = NoJob
      /\ SlotInv' /\ CallsInv' /\ Free' = Job /\ InFlight' = {}
  <2>1. \A j \in Job : job'[j] = NoJob
    BY <1>1
  <2>2. Holders' = {}
    BY <2>1, NoCall DEF Holders
  <2>3. SlotInv'
    BY <1>1, <2>1, <2>2, NoCall, FS_EmptySet DEF SlotInv, MediaBounds
  <2>4. Free' = Job
    BY <2>1 DEF Free
  <2> QED
    BY <2>1, <2>3, <2>4 DEF CallsInv, InFlight
<1>3. MediaType'
  <2>1. job' = [j \in Job |-> job'[j]]
    BY <1>1
  <2>2. waiting' \in Seq(Job) /\ active' \in Nat
    BY <1>1
  <2>3. resume' \in [on : BOOLEAN, after : Nat]
    BY <1>1 DEF NoResume
  <2>4. retention' \in [step : {"idle", "purging", "marking", "deleting"}, purged : SUBSET Media]
    BY <1>1 DEF NoRetention
  <2> QED
    BY <1>1, <1>2, <2>1, <2>2, <2>3, <2>4 DEF MediaInv, MediaType
<1>4. FilesInv' /\ ReadyIsServed'
  BY <1>1, <1>2 DEF MediaInv, FilesInv, ReadyIsServed, NoRetention
<1>5. PendingIsRemembered'
  <2>1. SlotsAreKept'
    BY <1>2 DEF SlotInv, Holders, Holds, SlotsAreKept
  <2> QED
    BY <1>1, <2>1 DEF PendingIsRemembered
<1> QED
  BY <1>2, <1>3, <1>4, <1>5 DEF MediaInv

LEMMA MediaStarts == MediaBounds /\ MediaInit => MediaInv
<1> SUFFICES ASSUME MediaBounds, MediaInit PROVE MediaInv
  OBVIOUS
<1>1. /\ \A j \in Job : job[j] = NoJob
      /\ SlotInv /\ CallsInv /\ Free = Job /\ InFlight = {}
  BY IdleIs DEF MediaInit
<1>2. MediaType
  BY <1>1 DEF MediaInit, MediaType, NoResume, NoRetention
<1>3. FilesInv /\ ReadyIsServed
  BY DEF MediaInit, FilesInv, ReadyIsServed, NoRetention
<1>4. PendingIsRemembered
  <2>1. SlotsAreKept
    BY <1>1 DEF SlotInv, Holders, Holds, SlotsAreKept
  <2> QED
    BY <2>1 DEF MediaInit, PendingIsRemembered
<1> QED
  BY <1>1, <1>2, <1>3, <1>4 DEF MediaInv

LEMMA MediaKeeps == MediaBounds /\ MediaInv /\ [MediaNext]_mediaVars => MediaInv'
<1> SUFFICES ASSUME MediaBounds, MediaInv, [MediaNext]_mediaVars PROVE MediaInv'
  OBVIOUS
<1>1. CASE UNCHANGED mediaVars
  <2>1. /\ row' = row /\ file' = file /\ job' = job /\ waiting' = waiting /\ active' = active /\ resume' = resume
        /\ retention' = retention /\ running' = running /\ served' = served /\ unrecorded' = unrecorded
    BY <1>1 DEF mediaVars
  <2>2. MediaType'
    BY <2>1 DEF MediaInv, MediaType
  <2>3. SlotInv'
    BY <2>1 DEF MediaInv, SlotInv, Holders, Holds
  <2>4. CallsInv'
    BY <2>1 DEF MediaInv, CallsInv, Free
  <2>5. FilesInv' /\ ReadyIsServed'
    BY <2>1 DEF MediaInv, FilesInv, ReadyIsServed, InFlight, Free
  <2>6. PendingIsRemembered'
    BY <2>1 DEF MediaInv, PendingIsRemembered, SlotsAreKept, Free, InFlight
  <2> QED
    BY <2>2, <2>3, <2>4, <2>5, <2>6 DEF MediaInv
<1>2. CASE MediaNext
  BY <1>2, ArrivesKeeps, JobStepKeeps, StartsResumeKeeps, ResumesPageKeeps, ResumeFailsKeeps, RetentionKeeps,
     AgesKeeps, StopsKeeps DEF MediaNext
<1> QED
  BY <1>1, <1>2

LEMMA MediaInvariant == MediaBounds => (MediaSpec => []MediaInv)
<1> SUFFICES ASSUME MediaBounds PROVE MediaSpec => []MediaInv
  OBVIOUS
<1>1. MediaInit => MediaInv
  BY MediaStarts
<1>2. MediaInv /\ [MediaNext]_mediaVars => MediaInv'
  BY MediaKeeps
<1> QED
  BY <1>1, <1>2, PTL DEF MediaSpec

\* However many media, calls, slots and retries there are, whatever fails and whenever the
\* process restarts or retention passes: a media recorded as ready keeps its row and its file
\* until retention removes it.
THEOREM ReadyServed == MediaBounds /\ MediaSpec => []ReadyIsServed
<1> SUFFICES ASSUME MediaBounds PROVE MediaSpec => []ReadyIsServed
  OBVIOUS
<1>1. MediaInv => ReadyIsServed
  BY DEF MediaInv
<1> QED
  BY <1>1, MediaInvariant, PTL

\* ... no slot is lost or given twice, and a pending media is in somebody's hands.
THEOREM PendingRemembered == MediaBounds /\ MediaSpec => []PendingIsRemembered
<1> SUFFICES ASSUME MediaBounds PROVE MediaSpec => []PendingIsRemembered
  OBVIOUS
<1>1. MediaInv => PendingIsRemembered
  BY DEF MediaInv
<1> QED
  BY <1>1, MediaInvariant, PTL

---------------------------------------------------------------------------
(***************************************************************************)
(* Proofs about WebhookIntake, for any updates, accounts and webhooks.     *)
(***************************************************************************)

\* What is going to be handed over has an account whose adapter understood it, if any was asked.
Understood(u, d) ==
    /\ d.account # NoAccount
    /\ d.standard \in BOOLEAN
    /\ d.standard => Parses(d.account.provider, Payload[u])

IntakeInv ==
    /\ DOMAIN post = Incoming /\ post = [u \in Incoming |-> post[u]]
    /\ DOMAIN answer = Incoming /\ answer = [u \in Incoming |-> answer[u]]
    /\ accepted \in [Incoming -> Nat]
    /\ handed \in Seq({handed[i] : i \in DOMAIN handed})
    /\ \A u \in Incoming : post[u].step = "forwarding" => Understood(u, post[u])
    /\ \A i \in DOMAIN handed : Understood(handed[i].update, handed[i])
    /\ \A u \in Incoming : IsFiniteSet(HandedOver(u)) /\ Cardinality(HandedOver(u)) = accepted[u]
    /\ \A u \in Incoming : answer[u] = "ok" => accepted[u] >= 1

LEMMA IntakeStarts == IntakeInit => IntakeInv
<1> SUFFICES ASSUME IntakeInit PROVE IntakeInv
  OBVIOUS
<1>1. \A u \in Incoming : HandedOver(u) = {}
  BY DEF IntakeInit, HandedOver
<1>2. IsFiniteSet({}) /\ Cardinality({}) = 0
  BY FS_EmptySet
<1>3. \A u \in Incoming : post[u] = NotPosted /\ answer[u] = "none" /\ NotPosted.step = "none"
  BY DEF IntakeInit, NotPosted
<1>4. handed = <<>> /\ handed \in Seq({handed[i] : i \in DOMAIN handed}) /\ DOMAIN handed = {}
  BY DEF IntakeInit
<1> QED
  BY <1>1, <1>2, <1>3, <1>4 DEF IntakeInit, IntakeInv

\* An update that is refused, or whose handler is at another step; one that is answered with 200
\* was handed over with it.
LEMMA HandlerKeeps ==
    ASSUME IntakeInv, NEW u \in Incoming, Post(u) \/ Handle(u)
    PROVE  IntakeInv'
<1>1. handed' = handed /\ \A v \in Incoming : HandedOver(v)' = HandedOver(v)
  BY DEF Post, Handle, Rejects, Forwards, HandedOver
<1>2. /\ accepted' = accepted
      /\ DOMAIN answer' = Incoming /\ answer' = [v \in Incoming |-> answer'[v]]
      /\ \A v \in Incoming : answer'[v] = "ok" => answer[v] = "ok"
  <2>1. CASE Post(u)
    BY <2>1 DEF Post, IntakeInv
  <2>2. CASE answer' = answer /\ accepted' = accepted
    BY <2>2 DEF IntakeInv
  <2>3. CASE Responds(u, "refused")
    BY <2>3 DEF Responds, IntakeInv
  <2> QED
    BY <2>1, <2>2, <2>3 DEF Handle, Rejects, Forwards
<1>3. /\ DOMAIN post' = Incoming /\ post' = [v \in Incoming |-> post'[v]]
      /\ \A v \in Incoming \ {u} : post'[v] = post[v]
      /\ post'[u].step = "forwarding" => Understood(u, post'[u])
  <2>1. CASE Post(u)
    BY <2>1 DEF Post, IntakeInv
  <2>2. CASE Rejects(u)
    BY <2>2 DEF Rejects, IntakeInv, NotPosted
  <2> DEFINE a == accounts[Target[u]]
             content == EnvelopeOf(a, ContentOf(a.provider, Payload[u]))
  <2>4. Takes(a, Route[u]) => a # NoAccount
    BY DEF Takes
  <2>5. ASSUME Handle(u)
        PROVE  \/ Rejects(u)
               \/ a # NoAccount /\ Forwards(u, a, FALSE, RawBody)
               \/ a # NoAccount /\ Parses(a.provider, Payload[u]) /\ Forwards(u, a, TRUE, content)
    BY <2>4, <2>5, Zenon DEF Handle
  <2> HIDE DEF a, content
  <2>6. CASE a # NoAccount /\ Forwards(u, a, FALSE, RawBody)
    <3>1. post' = [post EXCEPT ![u] = [step |-> "forwarding", account |-> a, standard |-> FALSE, data |-> RawBody]]
      BY <2>6 DEF Forwards
    <3>2. post'[u].account = a /\ post'[u].standard = FALSE
      BY <3>1 DEF IntakeInv
    <3> QED
      BY <2>6, <3>1, <3>2 DEF IntakeInv, Understood
  <2>7. CASE a # NoAccount /\ Parses(a.provider, Payload[u]) /\ Forwards(u, a, TRUE, content)
    <3>1. post' = [post EXCEPT ![u] = [step |-> "forwarding", account |-> a, standard |-> TRUE, data |-> content]]
      BY <2>7 DEF Forwards
    <3>2. post'[u].account = a /\ post'[u].standard = TRUE
      BY <3>1 DEF IntakeInv
    <3> QED
      BY <2>7, <3>1, <3>2 DEF IntakeInv, Understood
  <2> QED
    BY <2>1, <2>2, <2>5, <2>6, <2>7
<1> QED
  BY <1>1, <1>2, <1>3 DEF IntakeInv

\* Handed over and answered, in one.
LEMMA ForwardKeeps ==
    ASSUME IntakeInv, NEW u \in Incoming, Enqueues(u)
    PROVE  IntakeInv'
<1> DEFINE d == Delivery(u)
           n == Len(handed)
           S == {handed[i] : i \in DOMAIN handed} \union {d}
<1>1. /\ handed' = Append(handed, d) /\ post' = [post EXCEPT ![u] = NotPosted]
      /\ post[u].step = "forwarding" /\ Responds(u, "ok")
  BY DEF Enqueues
<1>2. /\ d.update = u /\ d.account = post[u].account /\ d.standard = post[u].standard
  BY DEF Delivery
<1>3. /\ n \in Nat /\ DOMAIN handed = 1 .. n /\ DOMAIN handed' = 1 .. n + 1
      /\ handed'[n + 1] = d /\ \A i \in 1 .. n : handed'[i] = handed[i]
      /\ handed' \in Seq({handed'[i] : i \in DOMAIN handed'})
  <2> HIDE DEF d
  <2>1. handed \in Seq({handed[i] : i \in DOMAIN handed})
    BY DEF IntakeInv
  <2>2. {handed[i] : i \in DOMAIN handed} \subseteq S
    OBVIOUS
  <2> HIDE DEF S
  <2>3. handed \in Seq(S) /\ d \in S
    BY <2>1, <2>2 DEF S
  <2>4. /\ n \in Nat /\ DOMAIN handed = 1 .. n /\ DOMAIN handed' = 1 .. n + 1 /\ handed' \in Seq(S)
        /\ handed'[n + 1] = d /\ \A i \in 1 .. n : handed'[i] = handed[i]
    BY <1>1, <2>3
  <2>5. Len(handed') = n + 1 /\ \A i \in 1 .. n + 1 : handed'[i] \in {handed'[j] : j \in DOMAIN handed'}
    BY <1>1, <2>3, <2>4
  <2>6. handed' = [i \in 1 .. n + 1 |-> handed'[i]]
    BY <2>4
  <2>7. handed' \in Seq({handed'[i] : i \in DOMAIN handed'})
    BY <2>4, <2>5, <2>6, SeqDef
  <2> QED
    BY <2>4, <2>7
<1>4. Understood(u, d) /\ \A i \in DOMAIN handed' : Understood(handed'[i].update, handed'[i])
  <2>1. Understood(u, post[u])
    BY <1>1 DEF IntakeInv
  <2>2. Understood(u, d)
    BY <1>2, <2>1 DEF Understood
  <2>3. \A i \in DOMAIN handed : Understood(handed[i].update, handed[i])
    BY DEF IntakeInv
  <2> HIDE DEF d
  <2> QED
    BY <1>2, <1>3, <2>2, <2>3
<1>5. accepted' = [accepted EXCEPT ![u] = @ + 1] /\ accepted' \in [Incoming -> Nat]
  BY <1>1 DEF Responds, IntakeInv
<1>6. \A v \in Incoming : IsFiniteSet(HandedOver(v)') /\ Cardinality(HandedOver(v)') = accepted'[v]
  <2> HIDE DEF d
  <2> TAKE v \in Incoming
  <2>1. IsFiniteSet(HandedOver(v)) /\ Cardinality(HandedOver(v)) = accepted[v]
    BY DEF IntakeInv
  <2>2. CASE v = u
    <3>1. HandedOver(v)' = HandedOver(v) \union {n + 1} /\ n + 1 \notin HandedOver(v)
      BY <1>2, <1>3, <2>2 DEF HandedOver
    <3>2. accepted'[v] = accepted[v] + 1
      BY <1>5, <2>2 DEF IntakeInv
    <3> QED
      BY <2>1, <3>1, <3>2, FS_AddElement
  <2>3. CASE v # u
    <3>1. HandedOver(v)' = HandedOver(v) /\ accepted'[v] = accepted[v]
      BY <1>2, <1>3, <1>5, <2>3 DEF HandedOver, IntakeInv
    <3> QED
      BY <2>1, <3>1
  <2> QED
    BY <2>2, <2>3
<1>7. /\ DOMAIN answer' = Incoming /\ answer' = [v \in Incoming |-> answer'[v]]
      /\ \A v \in Incoming : answer'[v] = "ok" => accepted'[v] >= 1
  <2>1. \A v \in Incoming : accepted'[v] >= accepted[v] /\ accepted'[v] \in Nat /\ (v = u => accepted'[v] >= 1)
    BY <1>5 DEF IntakeInv
  <2>2. PICK s : answer' = [answer EXCEPT ![u] = s]
    BY <1>1 DEF Responds
  <2>3. \A v \in Incoming \ {u} : answer'[v] = answer[v]
    BY <2>2 DEF IntakeInv
  <2>4. DOMAIN answer' = Incoming /\ answer' = [v \in Incoming |-> answer'[v]]
    BY <2>2 DEF IntakeInv
  <2> QED
    BY <2>1, <2>3, <2>4 DEF IntakeInv
<1>8. /\ DOMAIN post' = Incoming /\ post' = [v \in Incoming |-> post'[v]]
      /\ \A v \in Incoming : post'[v].step = "forwarding" => Understood(v, post'[v])
  BY <1>1 DEF IntakeInv, NotPosted
<1> QED
  BY <1>3, <1>4, <1>5, <1>6, <1>7, <1>8 DEF IntakeInv

\* Accounts and webhooks come and go, and a restart loses what is in progress.
LEMMA MeanwhileKeeps ==
    ASSUME IntakeInv, (\E a \in ChannelAccount : ChangeAccount(a) \/ ChangeWebhooks(a)) \/ Restart
    PROVE  IntakeInv'
<1>1. /\ UNCHANGED <<answer, handed, accepted>>
      /\ post' = post \/ post' = [u \in Incoming |-> NotPosted]
      /\ \A u \in Incoming : HandedOver(u)' = HandedOver(u)
  BY DEF ChangeAccount, ChangeWebhooks, Restart, HandedOver
<1>2. NotPosted.step = "none"
  BY DEF NotPosted
<1> QED
  BY <1>1, <1>2 DEF IntakeInv

LEMMA IntakeKeeps == IntakeInv /\ [IntakeNext]_intakeVars => IntakeInv'
<1> SUFFICES ASSUME IntakeInv, [IntakeNext]_intakeVars PROVE IntakeInv'
  OBVIOUS
<1>1. CASE UNCHANGED intakeVars
  BY <1>1 DEF intakeVars, IntakeInv, HandedOver
<1>2. CASE IntakeNext
  BY <1>2, HandlerKeeps, ForwardKeeps, MeanwhileKeeps DEF IntakeNext
<1> QED
  BY <1>1, <1>2

\* Whatever is posted, deleted, changed or restarted, and however often: an update has been
\* handed over once for each time it was answered with 200, and only if an adapter understood it.
THEOREM AcceptedForwarded == IntakeSpec => []AcceptedIsForwarded
<1>1. IntakeInv => AcceptedIsForwarded
  <2> SUFFICES ASSUME IntakeInv PROVE AcceptedIsForwarded
    OBVIOUS
  <2>1. \A u \in Incoming : \A i \in HandedOver(u) : Understood(u, handed[i])
    BY DEF IntakeInv, HandedOver
  <2> QED
    BY <2>1 DEF IntakeInv, Understood, AcceptedIsForwarded
<1> QED
  BY <1>1, IntakeStarts, IntakeKeeps, PTL DEF IntakeSpec

====
