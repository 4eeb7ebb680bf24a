---- MODULE Downstream_proofs ----
(***************************************************************************)
(* Proofs about what follows a message: the webhooks with the alerts that  *)
(* go through their queues, and the live stream.                           *)
(***************************************************************************)
EXTENDS ConnectionAlerts, LiveStream, FiniteSetTheorems, WellFoundedInduction, TLAPS

---------------------------------------------------------------------------
(***************************************************************************)
(* Proofs about WebhookConfigs, WebhookForwarder and ConnectionAlerts, for *)
(* any webhooks, destinations, events and capacity. The runs follow each   *)
(* of the three alone; here their steps interleave: webhooks change while  *)
(* events and alerts wait in the queues, and a restart is one of all.      *)
(***************************************************************************)

TogetherInit == ConfigInit /\ ForwarderInit /\ AlertInit

TogetherNext ==
    \/ ConfigStep /\ UNCHANGED <<forwarderVars, alertVars>>
    \/ AlertStep
    \/ ConfigRestart /\ AlertRestart

togetherVars == <<configVars, forwarderVars, alertVars>>

Together == TogetherInit /\ [][TogetherNext]_togetherVars

---------------------------------------------------------------------------
\* The webhooks and their file

WriteType == [step : {"done", "opening", "writing"}, content : Configs, met : BOOLEAN]

ConfigType ==
    /\ configs \in Configs
    /\ file \in [whole : BOOLEAN, content : Configs]
    /\ writes \in [Writer -> WriteType]
    /\ doubtful \in BOOLEAN

\* Without doubt the file is what is in memory, or the one write there is makes it that.
SavedOrBeing ==
    ~doubtful =>
        \/ Busy = {} /\ file = [whole |-> TRUE, content |-> configs]
        \/ \E w \in Writer : Busy = {w} /\ writes[w].content = configs /\ ~writes[w].met

ConfigInv == ConfigType /\ SavedOrBeing

LEMMA NoneAreConfigs ==
    /\ None \in Configs /\ NoWrite \in WriteType /\ Torn \in [whole : BOOLEAN, content : Configs]
<1>1. None \in [{} -> Settings]
  BY DEF None
<1>2. None \in Configs
  BY <1>1 DEF Configs
<1> QED
  BY <1>2 DEF NoWrite, WriteType, Torn

LEMMA ConfigsAre ==
    \A f : f \in Configs <=> f \in [DOMAIN f -> Settings] /\ DOMAIN f \subseteq Config
BY DEF Configs

LEMMA ChangeKeeps ==
    ASSUME ConfigInv, NEW new \in Configs, Change(new) PROVE ConfigInv'
<1> DEFINE v == NextWriter
<1>1. v \in Writer \ Busy
  <2>1. Writer \ Busy # {}
    BY DEF Change, Busy
  <2> QED
    BY <2>1 DEF NextWriter
<1> HIDE DEF v
<1>2. writes' = [writes EXCEPT ![v] = [NoWrite EXCEPT !.step = "opening", !.content = new]]
      /\ configs' = new /\ file' = file /\ doubtful' = (doubtful \/ Busy # {})
  BY DEF Change, v
<1> DEFINE begun == [NoWrite EXCEPT !.step = "opening", !.content = new]
<1>3. begun \in WriteType /\ begun.step = "opening" /\ begun.content = new /\ begun.met = FALSE
  <2>1. NoWrite \in WriteType /\ NoWrite.met = FALSE
    BY NoneAreConfigs DEF NoWrite
  <2> QED
    BY <2>1 DEF WriteType
<1> HIDE DEF begun
<1>4. writes' \in [Writer -> WriteType] /\ writes'[v] = begun /\ \A w \in Writer \ {v} : writes'[w] = writes[w]
  <2>1. writes' = [writes EXCEPT ![v] = begun]
    BY <1>2 DEF begun
  <2> QED
    BY <1>1, <1>3, <2>1 DEF ConfigInv, ConfigType
<1>5. Busy' = Busy \union {v}
  BY <1>1, <1>3, <1>4 DEF Busy
<1>6. ConfigType'
  BY <1>2, <1>4 DEF ConfigInv, ConfigType
<1>7. SavedOrBeing'
  BY <1>1, <1>2, <1>3, <1>4, <1>5 DEF SavedOrBeing
<1> QED
  BY <1>6, <1>7 DEF ConfigInv

LEMMA AddKeeps ==
    ASSUME ConfigInv, NEW s \in Settings, Add(s) PROVE ConfigInv'
<1>1. PICK c \in Config \ DOMAIN configs :
          Change([d \in DOMAIN configs \union {c} |-> IF d = c THEN s ELSE configs[d]])
  BY DEF Add
<1>2. [d \in DOMAIN configs \union {c} |-> IF d = c THEN s ELSE configs[d]] \in Configs
  BY ConfigsAre DEF ConfigInv, ConfigType
<1> QED
  BY <1>1, <1>2, ChangeKeeps

LEMMA UpdateKeeps ==
    ASSUME ConfigInv, NEW s \in Settings, NEW c \in DOMAIN configs, Update(c, s) PROVE ConfigInv'
<1>1. [configs EXCEPT ![c] = s] \in Configs
  BY ConfigsAre DEF ConfigInv, ConfigType
<1> QED
  BY <1>1, ChangeKeeps DEF Update

\* What the other writes become once one is over.
LEMMA OneWriteLess ==
    ASSUME ConfigType, NEW w \in Writer,
           writes' = [x \in Writer |->
                        IF x = w THEN NoWrite
                        ELSE [writes[x] EXCEPT !.met = @ \/ writes[x].step = "writing"]]
    PROVE  writes' \in [Writer -> WriteType] /\ Busy' = Busy \ {w}
<1>1. \A x \in Writer : /\ [writes[x] EXCEPT !.met = @ \/ writes[x].step = "writing"] \in WriteType
                        /\ [writes[x] EXCEPT !.met = @ \/ writes[x].step = "writing"].step = writes[x].step
  BY DEF ConfigType, WriteType
<1>2. NoWrite \in WriteType /\ NoWrite.step = "done"
  BY NoneAreConfigs DEF NoWrite
<1> QED
  BY <1>1, <1>2 DEF Busy

LEMMA ConfigStepKeeps ==
    ASSUME ConfigInv, ConfigStep PROVE ConfigInv'
<1>1. ASSUME NEW s \in Settings, Add(s) PROVE ConfigInv'
  BY <1>1, AddKeeps
<1>2. ASSUME NEW s \in Settings, PutWebhook(s) PROVE ConfigInv'
  BY <1>2, AddKeeps, UpdateKeeps DEF PutWebhook
<1>3. ASSUME NEW s \in Settings, NEW c \in DOMAIN configs, Update(c, s) PROVE ConfigInv'
  BY <1>3, UpdateKeeps
<1>4. ASSUME NEW c \in DOMAIN configs, RemoveConfig(c) PROVE ConfigInv'
  <2>1. Restrict(configs, DOMAIN configs \ {c}) \in Configs
    BY ConfigsAre DEF ConfigInv, ConfigType, Restrict
  <2> QED
    BY <1>4, <2>1, ChangeKeeps DEF RemoveConfig
<1>5. CASE RemoveByAccountId
  BY <1>5, NoneAreConfigs, ChangeKeeps DEF RemoveByAccountId
<1>6. ASSUME NEW w \in Writer, WriteOpens(w) PROVE ConfigInv'
  <2>1. writes[w].step = "opening" /\ configs' = configs /\ doubtful' = doubtful
        /\ writes' = [writes EXCEPT ![w].step = "writing", ![w].met = FALSE]
    BY <1>6 DEF WriteOpens
  <2>2. writes' \in [Writer -> WriteType]
        /\ writes'[w].step = "writing" /\ ~writes'[w].met /\ writes'[w].content = writes[w].content
        /\ \A x \in Writer \ {w} : writes'[x] = writes[x]
    BY <2>1 DEF ConfigInv, ConfigType, WriteType
  <2>3. Busy' = Busy /\ w \in Busy
    BY <2>1, <2>2 DEF Busy
  <2>4. ConfigType'
    BY <1>6, <2>1, <2>2, NoneAreConfigs DEF WriteOpens, ConfigInv, ConfigType
  <2>5. SavedOrBeing'
    BY <2>1, <2>2, <2>3 DEF ConfigInv, SavedOrBeing
  <2> QED
    BY <2>4, <2>5 DEF ConfigInv
<1>7. ASSUME NEW w \in Writer, WriteEnds(w) PROVE ConfigInv'
  <2>1. writes' \in [Writer -> WriteType] /\ Busy' = Busy \ {w} /\ w \in Busy
    BY <1>7, OneWriteLess DEF WriteEnds, ConfigInv, Busy
  <2>2. configs' = configs
        /\ doubtful' = (doubtful /\ (Busy # {w} \/ writes[w].met \/ writes[w].content # configs))
        /\ (file' = Torn \/ file' = [whole |-> TRUE, content |-> writes[w].content])
        /\ (~writes[w].met => file' = [whole |-> TRUE, content |-> writes[w].content])
    BY <1>7 DEF WriteEnds
  <2>3. writes[w].content \in Configs /\ writes[w].met \in BOOLEAN
    BY DEF ConfigInv, ConfigType, WriteType
  <2>4. ConfigType'
    <3>1. doubtful' \in BOOLEAN
      BY <2>2 DEF ConfigInv, ConfigType
    <3>2. file' \in [whole : BOOLEAN, content : Configs]
      <4>1. file' = Torn \/ file' = [whole |-> TRUE, content |-> writes[w].content]
        BY <2>2
      <4>2. [whole |-> TRUE, content |-> writes[w].content] \in [whole : BOOLEAN, content : Configs]
        BY <2>3
      <4> QED
        BY <4>1, <4>2, NoneAreConfigs, Zenon
    <3> QED
      BY <2>1, <2>2, <3>1, <3>2 DEF ConfigInv, ConfigType
  <2>5. ASSUME ~doubtful' PROVE Busy = {w} /\ ~writes[w].met /\ writes[w].content = configs
    BY <2>1, <2>2, <2>5 DEF ConfigInv, SavedOrBeing
  <2>6. SavedOrBeing'
    BY <2>1, <2>2, <2>5 DEF SavedOrBeing
  <2> QED
    BY <2>4, <2>6 DEF ConfigInv
<1>8. ASSUME NEW w \in Writer, WriteFails(w) PROVE ConfigInv'
  <2>1. writes' \in [Writer -> WriteType]
    BY <1>8, OneWriteLess DEF WriteFails, ConfigInv
  <2>2. ConfigType' /\ doubtful'
    BY <1>8, <2>1, NoneAreConfigs DEF WriteFails, ConfigInv, ConfigType
  <2> QED
    BY <2>2 DEF ConfigInv, SavedOrBeing
<1> QED
  BY <1>1, <1>2, <1>3, <1>4, <1>5, <1>6, <1>7, <1>8 DEF ConfigStep

LEMMA ConfigRestartKeeps ==
    ASSUME ConfigInv, ConfigRestart PROVE ConfigInv'
<1>1. file' \in [whole : BOOLEAN, content : Configs]
  BY NoneAreConfigs DEF ConfigRestart, ConfigInv, ConfigType
<1>2. configs' = file'.content /\ configs' \in Configs /\ doubtful' = ~file'.whole
      /\ file' = [whole |-> file'.whole, content |-> file'.content]
  BY <1>1 DEF ConfigRestart
<1>3. writes' \in [Writer -> WriteType] /\ Busy' = {}
  BY NoneAreConfigs DEF ConfigRestart, Busy, NoWrite
<1>4. ConfigType'
  BY <1>1, <1>2, <1>3 DEF ConfigType
<1>5. SavedOrBeing'
  BY <1>1, <1>2, <1>3 DEF SavedOrBeing
<1> QED
  BY <1>4, <1>5 DEF ConfigInv

LEMMA ConfigInitHolds ==
    ASSUME ConfigInit PROVE ConfigInv
<1>1. writes \in [Writer -> WriteType] /\ Busy = {}
  BY NoneAreConfigs DEF ConfigInit, Busy, NoWrite
<1> QED
  BY <1>1 DEF ConfigInit, ConfigInv, ConfigType, SavedOrBeing

\* Changes that were saved one at a time are in the file, so a restart brings the same
\* webhooks back. (FileWebhookConfigStore persist, load.)
THEOREM SavedChangesStay == Together => []SavedWhenQuiet
<1>1. TogetherInit => ConfigInv
  BY ConfigInitHolds DEF TogetherInit
<1>2. ConfigInv /\ [TogetherNext]_togetherVars => ConfigInv'
  <2> SUFFICES ASSUME ConfigInv, [TogetherNext]_togetherVars PROVE ConfigInv'
    OBVIOUS
  <2>1. CASE UNCHANGED configVars
    BY <2>1 DEF configVars, ConfigInv, ConfigType, SavedOrBeing, Busy
  <2>2. CASE ConfigStep
    BY <2>2, ConfigStepKeeps
  <2>3. CASE ConfigRestart
    BY <2>3, ConfigRestartKeeps
  <2>4. AlertStep => UNCHANGED configVars
    BY DEF AlertStep, Quiet, AnyAnswer, AnsweredAlert
  <2> QED
    BY <2>1, <2>2, <2>3, <2>4 DEF TogetherNext, togetherVars
<1>3. ConfigInv => SavedWhenQuiet
  BY DEF ConfigInv, ConfigType, SavedOrBeing, SavedWhenQuiet
<1> QED
  BY <1>1, <1>2, <1>3, PTL DEF Together

---------------------------------------------------------------------------
\* Induction on the naturals, for a set of them

LEMMA LeastNatural ==
    ASSUME NEW T \in SUBSET Nat, T # {}
    PROVE  \E n \in T : \A m \in T : ~(m < n)
<1>1. PICK n \in T : \A m \in T : <<m, n>> \notin OpToRel(<, Nat)
  BY WFMin, NatLessThanWellFounded, Zenon
<1>2. \A m \in T : m < n => <<m, n>> \in OpToRel(<, Nat)
  BY Zenon DEF OpToRel
<1> QED
  BY <1>1, <1>2, Zenon

LEMMA Induction ==
    ASSUME NEW T \in SUBSET Nat, 0 \in T, \A n \in T : n + 1 \in T
    PROVE  T = Nat
<1> SUFFICES ASSUME T # Nat PROVE FALSE
  OBVIOUS
<1>1. PICK n \in Nat \ T : \A m \in Nat \ T : ~(m < n)
  BY LeastNatural
<1>2. n # 0 /\ n - 1 \in Nat /\ n - 1 < n /\ (n - 1) + 1 = n
  BY <1>1
<1>3. n - 1 \in T
  BY <1>1, <1>2
<1> QED
  BY <1>1, <1>2, <1>3

---------------------------------------------------------------------------
\* One queue

AlertDelivery == [kind : {"alert"}, lost : BOOLEAN, of : {"current", "past"}]

Delivery == [kind : {"event"}, event : Event] \union AlertDelivery \union [kind : {"notice"}]

QueueType == [there : BOOLEAN, pending : Seq(Delivery), posting : SUBSET Delivery]

\* A queue that is there has a worker, which posts one delivery.
Worked(q) ==
    IF q.there THEN \E d \in Delivery : q.posting = {d}
    ELSE q.posting = {} /\ q.pending = <<>>

\* What a queue becomes that is handed one delivery again and again: it may lose its oldest.
Grown(q, p, d) ==
    /\ p \in QueueType
    /\ \/ p = q
       \/ ~q.there /\ p.there /\ p.posting = {d} /\ \A i \in DOMAIN p.pending : p.pending[i] = d
       \/ /\ q.there /\ p.there /\ p.posting = q.posting
          /\ \E s \in 0 .. Len(q.pending) :
                 /\ Len(q.pending) - s <= Len(p.pending)
                 /\ \A i \in 1 .. Len(q.pending) - s : p.pending[i] = q.pending[i + s]
                 /\ \A i \in DOMAIN p.pending : i > Len(q.pending) - s => p.pending[i] = d

LEMMA QueueRecord ==
    ASSUME NEW q \in QueueType, NEW d \in Delivery
    PROVE  /\ q.there \in BOOLEAN /\ q.pending \in Seq(Delivery) /\ q.posting \subseteq Delivery
           /\ Enqueued(q, d) \in QueueType
           /\ ~q.there => /\ Enqueued(q, d).there /\ Enqueued(q, d).posting = q.posting \union {d}
                          /\ Enqueued(q, d).pending = q.pending
           /\ q.there => /\ Enqueued(q, d).there /\ Enqueued(q, d).posting = q.posting
                         /\ Enqueued(q, d).pending =
                                Append(IF Len(q.pending) >= Capacity THEN Tail(q.pending) ELSE q.pending, d)
<1>1. q.there \in BOOLEAN /\ q.pending \in Seq(Delivery) /\ q.posting \subseteq Delivery
  BY DEF QueueType
<1> DEFINE left == IF Len(q.pending) >= Capacity THEN Tail(q.pending) ELSE q.pending
<1>2. left \in Seq(Delivery)
  <2>1. Len(q.pending) >= Capacity => q.pending # <<>>
    BY <1>1, ForwarderAssumption
  <2> QED
    BY <1>1, <2>1
<1>3. Append(left, d) \in Seq(Delivery)
  BY <1>2
<1>4. q.posting \union {d} \in SUBSET Delivery
  BY <1>1
<1>5. CASE ~q.there
  <2>1. Enqueued(q, d) = [q EXCEPT !.there = TRUE, !.posting = @ \union {d}]
    BY <1>5 DEF Enqueued
  <2> QED
    BY <1>1, <1>4, <1>5, <2>1 DEF QueueType
<1>6. CASE q.there
  <2>1. Enqueued(q, d) = [q EXCEPT !.pending = Append(left, d)]
    BY <1>6 DEF Enqueued
  <2> HIDE DEF left
  <2>2. /\ Enqueued(q, d) \in QueueType /\ Enqueued(q, d).there = q.there
        /\ Enqueued(q, d).posting = q.posting /\ Enqueued(q, d).pending = Append(left, d)
    BY <1>1, <1>3, <2>1 DEF QueueType
  <2> QED
    BY <1>1, <1>6, <2>2 DEF left
<1> QED
  BY <1>1, <1>5, <1>6

LEMMA OneMore ==
    ASSUME NEW q \in QueueType, Worked(q), NEW d \in Delivery, NEW p, Grown(q, p, d)
    PROVE  Grown(q, Enqueued(p, d), d)
<1> DEFINE e == Enqueued(p, d)
           Q == q.pending
           P == p.pending
<1>1. p \in QueueType
  BY DEF Grown
<1>2. e \in QueueType /\ Q \in Seq(Delivery) /\ P \in Seq(Delivery)
  BY <1>1, QueueRecord
<1>3. CASE ~q.there /\ ~p.there
  <2>1. p = q /\ p.posting = {} /\ p.pending = <<>>
    BY <1>3 DEF Grown, Worked
  <2>2. e.there /\ e.posting = {d} /\ e.pending = <<>>
    BY <1>1, <1>3, <2>1, QueueRecord
  <2> QED
    BY <1>2, <1>3, <2>2 DEF Grown
<1>4. CASE p.there
  <2> DEFINE left == IF Len(P) >= Capacity THEN Tail(P) ELSE P
  <2>1. e.there /\ e.posting = p.posting /\ e.pending = Append(left, d)
    BY <1>1, <1>4, QueueRecord
  <2>2. Len(P) >= Capacity => Len(P) > 0
    BY <1>2, ForwarderAssumption
  <2>3. CASE ~q.there
    <3>1. p.posting = {d} /\ \A i \in DOMAIN P : P[i] = d
      BY <1>4, <2>3 DEF Grown
    <3>2. \A i \in DOMAIN e.pending : e.pending[i] = d
      BY <1>2, <2>1, <2>2, <3>1
    <3> QED
      BY <1>2, <2>1, <2>3, <3>1, <3>2 DEF Grown
  <2>4. CASE q.there
    <3>1. p.posting = q.posting /\ \E s \in 0 .. Len(Q) :
              /\ Len(Q) - s <= Len(P)
              /\ \A i \in 1 .. Len(Q) - s : P[i] = Q[i + s]
              /\ \A i \in DOMAIN P : i > Len(Q) - s => P[i] = d
      <4>1. CASE p = q
        <5>1. 0 \in 0 .. Len(Q) /\ Len(Q) - 0 <= Len(P) /\ \A i \in 1 .. Len(Q) - 0 : P[i] = Q[i + 0]
          BY <1>2, <4>1
        <5>2. \A i \in DOMAIN P : ~(i > Len(Q) - 0)
          BY <1>2, <4>1
        <5> QED
          BY <4>1, <5>1, <5>2
      <4>2. CASE p # q
        BY <2>4, <4>2 DEF Grown
      <4> QED
        BY <4>1, <4>2
    <3>2. PICK s \in 0 .. Len(Q) :
              /\ Len(Q) - s <= Len(P)
              /\ \A i \in 1 .. Len(Q) - s : P[i] = Q[i + s]
              /\ \A i \in DOMAIN P : i > Len(Q) - s => P[i] = d
      BY <3>1
    <3> DEFINE E == e.pending
               Witness(t) ==
                   /\ Len(Q) - t <= Len(E)
                   /\ \A i \in 1 .. Len(Q) - t : E[i] = Q[i + t]
                   /\ \A i \in DOMAIN E : i > Len(Q) - t => E[i] = d
    <3>3. \E t \in 0 .. Len(Q) : Witness(t)
      <4>1. CASE ~(Len(P) >= Capacity)
        <5>1. E = Append(P, d)
          BY <2>1, <4>1
        <5> HIDE DEF E, P, Q, e
        <5>2. Witness(s)
          BY <1>2, <3>2, <5>1
        <5> QED
          BY <5>2
      <4>2. CASE Len(P) >= Capacity /\ s < Len(Q)
        <5>1. E = Append(Tail(P), d) /\ Len(P) > 0
          BY <2>1, <2>2, <4>2
        <5> HIDE DEF E, P, Q, e
        <5>2. Len(E) = Len(P) /\ DOMAIN E = 1 .. Len(P) /\ E[Len(P)] = d
              /\ \A i \in 1 .. Len(P) - 1 : E[i] = P[i + 1]
          BY <1>2, <5>1
        <5>3. s + 1 \in 0 .. Len(Q) /\ Len(Q) - (s + 1) <= Len(E) /\ Len(Q) \in Nat /\ Len(P) \in Nat
          BY <1>2, <3>2, <4>2, <5>2
        <5>4. ASSUME NEW i \in 1 .. Len(Q) - (s + 1) PROVE E[i] = Q[i + (s + 1)]
          <6>1. i \in 1 .. Len(P) - 1 /\ i + 1 \in 1 .. Len(Q) - s /\ (i + 1) + s = i + (s + 1)
            BY <3>2, <5>3
          <6> QED
            BY <3>2, <5>2, <6>1
        <5>5. ASSUME NEW i \in DOMAIN E, i > Len(Q) - (s + 1) PROVE E[i] = d
          <6>1. CASE i = Len(P)
            BY <5>2, <6>1
          <6>2. CASE i # Len(P)
            <7>1. i \in 1 .. Len(P) - 1 /\ i + 1 \in DOMAIN P /\ i + 1 > Len(Q) - s
              BY <1>2, <5>2, <5>3, <5>5, <6>2
            <7> QED
              BY <3>2, <5>2, <7>1
          <6> QED
            BY <6>1, <6>2
        <5> QED
          BY <5>3, <5>4, <5>5
      <4>3. CASE Len(P) >= Capacity /\ s = Len(Q)
        <5>1. E = Append(Tail(P), d) /\ Len(P) > 0
          BY <2>1, <2>2, <4>3
        <5> HIDE DEF E, P, Q, e
        <5>2. \A i \in DOMAIN P : P[i] = d
          BY <1>2, <3>2, <4>3
        <5>3. \A i \in DOMAIN E : E[i] = d
          BY <1>2, <5>1, <5>2
        <5>4. Len(Q) - s = 0 /\ 0 <= Len(E)
          BY <1>2, <4>3, <5>1
        <5>5. Witness(s)
          BY <5>3, <5>4
        <5> QED
          BY <5>5
      <4>4. s < Len(Q) \/ s = Len(Q)
        BY <1>2
      <4> HIDE DEF Witness
      <4> QED
        BY <4>1, <4>2, <4>3, <4>4
    <3> QED
      BY <1>2, <2>1, <2>4, <3>1, <3>3 DEF Grown
  <2> QED
    BY <2>3, <2>4
<1>5. p.there \/ (~q.there /\ ~p.there) \/ (q.there /\ ~p.there)
  OBVIOUS
<1>6. ~(q.there /\ ~p.there)
  BY DEF Grown
<1> QED
  BY <1>3, <1>4, <1>5, <1>6

\* The recursive function Repeated is made of exists ...
LEMMA RepeatedExists ==
    ASSUME NEW q, NEW d, NEW n \in Nat
    PROVE  \E f : f = [k \in 0 .. n |-> IF k = 0 THEN q ELSE Enqueued(f[k - 1], d)]
<1> DEFINE T == {m \in Nat : \E f : f = [k \in 0 .. m |-> IF k = 0 THEN q ELSE Enqueued(f[k - 1], d)]}
<1>1. 0 \in T
  <2> DEFINE f == [k \in 0 .. 0 |-> q]
  <2>1. f = [k \in 0 .. 0 |-> IF k = 0 THEN q ELSE Enqueued(f[k - 1], d)]
    OBVIOUS
  <2> QED
    BY <2>1
<1>2. ASSUME NEW m \in T PROVE m + 1 \in T
  <2>1. PICK f : f = [k \in 0 .. m |-> IF k = 0 THEN q ELSE Enqueued(f[k - 1], d)]
    OBVIOUS
  <2> DEFINE g == [k \in 0 .. m + 1 |-> IF k = m + 1 THEN Enqueued(f[m], d) ELSE f[k]]
             h == [k \in 0 .. m + 1 |-> IF k = 0 THEN q ELSE Enqueued(g[k - 1], d)]
  <2>2. ASSUME NEW k \in 0 .. m + 1 PROVE g[k] = h[k]
    <3>1. CASE k = 0
      BY <2>1, <3>1
    <3>2. CASE k = m + 1
      BY <2>1, <3>2
    <3>3. CASE k \in 1 .. m
      <4>1. g[k] = f[k] /\ k - 1 \in 0 .. m /\ k - 1 # m + 1
        BY <3>3
      <4>2. g[k - 1] = f[k - 1]
        BY <4>1
      <4>3. f[k] = Enqueued(f[k - 1], d)
        BY <2>1, <3>3
      <4> QED
        BY <3>3, <4>1, <4>2, <4>3
    <3> QED
      BY <3>1, <3>2, <3>3
  <2>3. g = h
    BY <2>2
  <2>4. g = [k \in 0 .. m + 1 |-> IF k = 0 THEN q ELSE Enqueued(g[k - 1], d)]
    BY <2>3, Zenon
  <2> HIDE DEF g, h
  <2>5. \E x : x = [k \in 0 .. m + 1 |-> IF k = 0 THEN q ELSE Enqueued(x[k - 1], d)]
    BY <2>4, Zenon
  <2> QED
    BY <2>5
<1> HIDE DEF T
<1>3. T = Nat
  BY <1>1, <1>2, Induction DEF T
<1> QED
  BY <1>3 DEF T

\* ... and what it makes of a queue.
LEMMA RepeatedGrows ==
    ASSUME NEW q \in QueueType, Worked(q), NEW d \in Delivery, NEW n \in Nat
    PROVE  Grown(q, Repeated(q, d, n), d)
<1> DEFINE after == CHOOSE f : f = [k \in 0 .. n |-> IF k = 0 THEN q ELSE Enqueued(f[k - 1], d)]
<1>1. after = [k \in 0 .. n |-> IF k = 0 THEN q ELSE Enqueued(after[k - 1], d)]
  BY RepeatedExists
<1>2. Repeated(q, d, n) = after[n]
  BY DEF Repeated
<1> HIDE DEF after
<1> DEFINE T == {k \in Nat : k <= n => Grown(q, after[k], d)}
<1>3. 0 \in T
  <2>1. after[0] = q
    BY <1>1
  <2>2. Grown(q, q, d)
    BY DEF Grown
  <2> QED
    BY <2>1, <2>2
<1>4. ASSUME NEW k \in T PROVE k + 1 \in T
  <2> SUFFICES ASSUME k + 1 <= n PROVE Grown(q, after[k + 1], d)
    OBVIOUS
  <2>1. after[k + 1] = Enqueued(after[k], d) /\ k <= n
    BY <1>1
  <2> QED
    BY <2>1, OneMore
<1> HIDE DEF T
<1>5. T = Nat
  BY <1>3, <1>4, Induction DEF T
<1> QED
  BY <1>2, <1>5 DEF T

---------------------------------------------------------------------------
\* The order in a queue

IsEvent(d) == d.kind = "event"

\* l is the last event posted, n the last one forwarded. Copies of an event for several
\* webhooks of a destination are next to each other.
OrderOf(q, l, n) ==
    /\ l <= n
    /\ \A d \in q.posting : IsEvent(d) => d.event = l
    /\ \A j \in DOMAIN q.pending : IsEvent(q.pending[j]) =>
           /\ l <= q.pending[j].event /\ q.pending[j].event <= n
           /\ q.pending[j].event = l =>
                  q.posting = {q.pending[j]} /\ \A k \in 1 .. j - 1 : q.pending[k] = q.pending[j]
    /\ \A i, j \in DOMAIN q.pending : (i < j /\ IsEvent(q.pending[i]) /\ IsEvent(q.pending[j])) =>
           /\ q.pending[i].event <= q.pending[j].event
           /\ q.pending[i].event = q.pending[j].event =>
                  \A k \in i .. j - 1 : q.pending[k] = q.pending[j]

\* What Observe makes of the last event posted.
Observed(q, p, l) ==
    LET begun == {d.event : d \in {x \in p.posting \ q.posting : x.kind = "event"}}
    IN  IF begun = {} THEN l ELSE CHOOSE e \in begun : TRUE

\* A step of a queue that keeps all that.
InTurn(q, p, l, n) ==
    /\ Worked(p) /\ OrderOf(p, Observed(q, p, l), n)
    /\ Observed(q, p, l) \in Nat
    /\ \A d \in p.posting \ q.posting : IsEvent(d) => d.event > l

LEMMA NothingBegun ==
    ASSUME NEW q, NEW p, NEW l, \A d \in p.posting : IsEvent(d) => d \in q.posting
    PROVE  Observed(q, p, l) = l
BY DEF Observed, IsEvent

LEMMA OneBegun ==
    ASSUME NEW q, NEW p, NEW l, NEW d, p.posting = {d}, IsEvent(d), d \notin q.posting
    PROVE  Observed(q, p, l) = d.event
<1>1. {x.event : x \in {y \in p.posting \ q.posting : y.kind = "event"}} = {d.event}
  BY DEF IsEvent
<1>2. (CHOOSE e \in {d.event} : TRUE) = d.event
  OBVIOUS
<1> QED
  BY <1>1, <1>2 DEF Observed

LEMMA DeliveriesAre ==
    /\ \A d \in Delivery : IsEvent(d) => d.event \in Nat /\ d = Forwarded(d.event)
    /\ \A e \in Event : Forwarded(e) \in Delivery /\ IsEvent(Forwarded(e)) /\ Forwarded(e).event = e
    /\ Notice \in Delivery /\ ~IsEvent(Notice)
    /\ \A d \in AlertDelivery : d \in Delivery /\ ~IsEvent(d)
BY ForwarderAssumption DEF Delivery, AlertDelivery, IsEvent, Forwarded, Notice, Event

LEMMA GrownIsWorked ==
    ASSUME NEW q \in QueueType, Worked(q), NEW d \in Delivery, NEW p, Grown(q, p, d)
    PROVE  Worked(p) /\ p \in QueueType /\ p.pending \in Seq(Delivery) /\ p.posting \subseteq Delivery
<1>1. p \in QueueType
  BY DEF Grown
<1>2. p.pending \in Seq(Delivery) /\ p.posting \subseteq Delivery
  BY <1>1 DEF QueueType
<1>3. p = q \/ (p.there /\ (p.posting = {d} \/ (q.there /\ p.posting = q.posting)))
  BY DEF Grown
<1>4. Worked(p)
  BY <1>3 DEF Worked
<1> QED
  BY <1>1, <1>2, <1>4

\* Behind what waits comes nothing older, so what is handed over next is in order.
LEMMA GrownInOrder ==
    ASSUME NEW q \in QueueType, Worked(q), NEW d \in Delivery, NEW p, Grown(q, p, d),
           NEW l \in Nat, NEW n \in Nat, NEW m \in Nat, n <= m, OrderOf(q, l, n),
           IsEvent(d) => d.event = m /\ n < m
    PROVE  /\ InTurn(q, p, l, m)
           /\ ~IsEvent(d) => OrderOf(p, l, m) /\ \A x \in p.posting : IsEvent(x) => x \in q.posting
<1> DEFINE Q == q.pending
           P == p.pending
<1>1. Worked(p) /\ p \in QueueType /\ P \in Seq(Delivery) /\ Q \in Seq(Delivery)
  BY GrownIsWorked, QueueRecord
<1>2. \A j \in DOMAIN Q : Q[j] \in Delivery /\ (IsEvent(Q[j]) => Q[j].event \in Nat)
  BY <1>1, DeliveriesAre
<1>3. CASE p = q
  <2>1. OrderOf(p, l, m)
    BY <1>2, <1>3 DEF OrderOf
  <2>2. Observed(q, p, l) = l
    BY <1>3, NothingBegun
  <2> QED
    BY <1>1, <1>3, <2>1, <2>2 DEF InTurn
<1>4. CASE ~q.there /\ p.there /\ p.posting = {d} /\ \A i \in DOMAIN P : P[i] = d
  <2>1. q.posting = {} /\ l <= m
    BY <1>4 DEF Worked, OrderOf
  <2>2. CASE IsEvent(d)
    <3>1. Observed(q, p, l) = m
      BY <1>4, <2>1, <2>2, OneBegun
    <3>2. \A j \in DOMAIN P : \A k \in 1 .. j - 1 : k \in DOMAIN P
      BY <1>1
    <3>3. \A i, j \in DOMAIN P : \A k \in i .. j - 1 : k \in DOMAIN P
      BY <1>1
    <3>4. OrderOf(p, m, m)
      BY <1>4, <2>2, <3>2, <3>3 DEF OrderOf
    <3>5. l < m
      BY <2>2 DEF OrderOf
    <3> QED
      BY <1>1, <1>4, <2>2, <3>1, <3>4, <3>5 DEF InTurn
  <2>3. CASE ~IsEvent(d)
    <3>1. Observed(q, p, l) = l
      BY <1>4, <2>3, NothingBegun
    <3>2. OrderOf(p, l, m)
      BY <1>4, <2>1, <2>3 DEF OrderOf
    <3> QED
      BY <1>1, <1>4, <2>3, <3>1, <3>2 DEF InTurn
  <2> QED
    BY <2>2, <2>3
<1>5. CASE /\ q.there /\ p.there /\ p.posting = q.posting
           /\ \E s \in 0 .. Len(Q) :
                  /\ Len(Q) - s <= Len(P)
                  /\ \A i \in 1 .. Len(Q) - s : P[i] = Q[i + s]
                  /\ \A i \in DOMAIN P : i > Len(Q) - s => P[i] = d
  <2>1. PICK s \in 0 .. Len(Q) :
            /\ Len(Q) - s <= Len(P)
            /\ \A i \in 1 .. Len(Q) - s : P[i] = Q[i + s]
            /\ \A i \in DOMAIN P : i > Len(Q) - s => P[i] = d
    BY <1>5
  <2> DEFINE c == Len(Q) - s
  <2>2. /\ c \in Nat /\ DOMAIN P = 1 .. Len(P) /\ Len(P) \in Nat /\ s \in Nat
        /\ \A i \in 1 .. c : i + s \in DOMAIN Q /\ P[i] = Q[i + s]
        /\ \A i \in DOMAIN P : i \notin 1 .. c => P[i] = d
    BY <1>1, <2>1
  <2>3. p.posting = q.posting
    BY <1>5
  <2> HIDE DEF P, Q, c
  <2>4. l <= m
    BY DEF OrderOf
  <2>5. \A x \in p.posting : IsEvent(x) => x.event = l
    BY <2>3 DEF OrderOf
  <2>6. ASSUME NEW j \in DOMAIN P, IsEvent(P[j])
        PROVE  /\ l <= P[j].event /\ P[j].event <= m
               /\ P[j].event = l => p.posting = {P[j]} /\ \A k \in 1 .. j - 1 : P[k] = P[j]
    <3>1. CASE j \in 1 .. c
      <4>1. P[j] = Q[j + s] /\ j + s \in DOMAIN Q
        BY <2>2, <3>1
      <4>2. /\ l <= Q[j + s].event /\ Q[j + s].event <= n /\ Q[j + s].event \in Nat
            /\ Q[j + s].event = l => q.posting = {Q[j + s]} /\ \A k \in 1 .. (j + s) - 1 : Q[k] = Q[j + s]
        <5> DEFINE x == j + s
        <5>1. x \in DOMAIN Q /\ IsEvent(Q[x])
          BY <2>6, <4>1
        <5> HIDE DEF x
        <5>2. /\ l <= Q[x].event /\ Q[x].event <= n /\ Q[x].event \in Nat
              /\ Q[x].event = l => q.posting = {Q[x]} /\ \A k \in 1 .. x - 1 : Q[k] = Q[x]
          BY <1>2, <5>1 DEF OrderOf, Q
        <5> QED
          BY <5>2 DEF x
      <4>3. ASSUME NEW k \in 1 .. j - 1, Q[j + s].event = l PROVE P[k] = P[j]
        <5>1. k + s \in 1 .. (j + s) - 1 /\ k \in 1 .. c
          <6>1. j \in Nat /\ j <= c /\ c \in Nat /\ s \in Nat
            BY <2>2, <3>1
          <6>2. k \in Nat /\ 1 <= k /\ k <= j - 1
            BY <6>1
          <6> QED
            BY <6>1, <6>2
        <5>2. P[k] = Q[k + s] /\ Q[k + s] = Q[j + s]
          BY <2>2, <4>2, <4>3, <5>1
        <5> QED
          BY <4>1, <5>2
      <4>4. l <= P[j].event /\ P[j].event <= m
        BY <4>1, <4>2
      <4>5. P[j].event = l => p.posting = {P[j]}
        BY <2>3, <4>1, <4>2
      <4> QED
        BY <4>1, <4>3, <4>4, <4>5
    <3>2. CASE j \notin 1 .. c
      <4>1. P[j] = d
        BY <2>2, <3>2
      <4>2. l < m /\ d.event = m
        BY <2>6, <4>1 DEF OrderOf
      <4> QED
        BY <4>1, <4>2
    <3> QED
      BY <3>1, <3>2
  <2>7. ASSUME NEW i \in DOMAIN P, NEW j \in DOMAIN P, i < j, IsEvent(P[i]), IsEvent(P[j])
        PROVE  /\ P[i].event <= P[j].event
               /\ P[i].event = P[j].event => \A k \in i .. j - 1 : P[k] = P[j]
    <3>1. CASE j \in 1 .. c
      <4>1. i \in 1 .. c /\ i + s < j + s
        BY <2>2, <2>7, <3>1
      <4>2. P[i] = Q[i + s] /\ P[j] = Q[j + s] /\ i + s \in DOMAIN Q /\ j + s \in DOMAIN Q
        BY <2>2, <3>1, <4>1
      <4>3. /\ Q[i + s].event <= Q[j + s].event
            /\ Q[i + s].event = Q[j + s].event => \A k \in i + s .. (j + s) - 1 : Q[k] = Q[j + s]
        BY <2>7, <4>1, <4>2 DEF OrderOf, Q
      <4>4. ASSUME NEW k \in i .. j - 1, P[i].event = P[j].event PROVE P[k] = P[j]
        <5> DEFINE a == i
                   b == j
        <5>0. a \in 1 .. c /\ b \in 1 .. c /\ c \in Nat /\ s \in Nat /\ k \in a .. b - 1
          BY <2>2, <3>1, <4>1
        <5> HIDE DEF a, b
        <5>3. k + s \in a + s .. (b + s) - 1 /\ k \in 1 .. c
          BY <5>0
        <5>1. k + s \in i + s .. (j + s) - 1 /\ k \in 1 .. c
          BY <5>3 DEF a, b
        <5>2. P[k] = Q[k + s]
          BY <2>2, <5>1
        <5> QED
          BY <4>2, <4>3, <4>4, <5>1, <5>2
      <4> QED
        BY <4>2, <4>3, <4>4
    <3>2. CASE j \notin 1 .. c /\ i \in 1 .. c
      <4>1. P[j] = d /\ d.event = m /\ n < m
        BY <2>2, <2>7, <3>2
      <4>2. P[i] = Q[i + s] /\ i + s \in DOMAIN Q
        BY <2>2, <3>2
      <4>3. Q[i + s].event <= n /\ Q[i + s].event \in Nat
        BY <1>2, <2>7, <4>2 DEF OrderOf, Q
      <4> QED
        BY <4>1, <4>2, <4>3
    <3>3. CASE j \notin 1 .. c /\ i \notin 1 .. c
      <4>1. P[j] = d /\ P[i] = d
        BY <2>2, <3>3
      <4>2. \A k \in i .. j - 1 : k \in DOMAIN P /\ k \notin 1 .. c
        BY <2>2, <3>3
      <4>3. \A k \in i .. j - 1 : P[k] = d
        BY <2>2, <4>2
      <4>4. d.event = m
        BY <2>7, <4>1
      <4> QED
        BY <4>1, <4>3, <4>4
    <3>4. j \in 1 .. c \/ (j \notin 1 .. c /\ i \in 1 .. c) \/ (j \notin 1 .. c /\ i \notin 1 .. c)
      OBVIOUS
    <3> QED
      BY <3>1, <3>2, <3>3, <3>4
  <2>8. OrderOf(p, l, m)
    BY <2>4, <2>5, <2>6, <2>7 DEF OrderOf, P
  <2>9. Observed(q, p, l) = l
    BY <2>3, NothingBegun
  <2> QED
    BY <1>1, <2>3, <2>8, <2>9 DEF InTurn
<1> QED
  BY <1>3, <1>4, <1>5 DEF Grown

\* The worker goes on to what waits longest, or goes.
LEMMA TakenIs ==
    ASSUME NEW q \in QueueType, Worked(q), NEW d \in q.posting
    PROVE  /\ Taken(q, d) \in QueueType /\ q.posting = {d} /\ q.there /\ q.pending \in Seq(Delivery)
           /\ q.pending = <<>> => ~Taken(q, d).there /\ Taken(q, d).posting = {} /\ Taken(q, d).pending = <<>>
           /\ q.pending # <<>> => /\ Taken(q, d).there /\ Taken(q, d).posting = {Head(q.pending)}
                                  /\ Taken(q, d).pending = Tail(q.pending)
                                  /\ Head(q.pending) \in Delivery /\ Tail(q.pending) \in Seq(Delivery)
                                  /\ 1 \in DOMAIN q.pending /\ Head(q.pending) = q.pending[1]
                                  /\ \A i \in DOMAIN Tail(q.pending) :
                                         /\ i \in Nat /\ i >= 1 /\ i + 1 \in DOMAIN q.pending
                                         /\ Tail(q.pending)[i] = q.pending[i + 1]
<1>1. q.there \in BOOLEAN /\ q.pending \in Seq(Delivery) /\ q.posting \subseteq Delivery
  BY DEF QueueType
<1>2. q.posting = {d} /\ q.there
  BY <1>1 DEF Worked
<1>3. CASE q.pending = <<>>
  <2>1. Taken(q, d) = [NoQueue EXCEPT !.posting = {}]
    BY <1>2, <1>3 DEF Taken
  <2>2. /\ Taken(q, d) \in QueueType /\ ~Taken(q, d).there
        /\ Taken(q, d).posting = {} /\ Taken(q, d).pending = <<>>
    <3>1. NoQueue \in QueueType /\ ~NoQueue.there /\ NoQueue.pending = <<>>
      BY DEF NoQueue, QueueType
    <3> QED
      BY <2>1, <3>1 DEF QueueType
  <2> QED
    BY <1>1, <1>2, <1>3, <2>2
<1>4. CASE q.pending # <<>>
  <2> DEFINE h == Head(q.pending)
             t == Tail(q.pending)
  <2>1. h \in Delivery /\ t \in Seq(Delivery) /\ 1 \in DOMAIN q.pending /\ h = q.pending[1]
        /\ \A i \in DOMAIN t : i \in Nat /\ i >= 1 /\ i + 1 \in DOMAIN q.pending /\ t[i] = q.pending[i + 1]
    BY <1>1, <1>4
  <2>2. Taken(q, d) = [q EXCEPT !.pending = t, !.posting = (@ \ {d}) \union {h}]
    BY <1>4 DEF Taken
  <2>3. (q.posting \ {d}) \union {h} = {h} /\ {h} \in SUBSET Delivery
    BY <1>2, <2>1
  <2> HIDE DEF h, t
  <2>4. /\ Taken(q, d) \in QueueType /\ Taken(q, d).there = q.there
        /\ Taken(q, d).posting = {h} /\ Taken(q, d).pending = t
    BY <1>1, <2>1, <2>2, <2>3 DEF QueueType
  <2> QED
    BY <1>1, <1>2, <1>4, <2>1, <2>4 DEF h, t
<1> QED
  BY <1>3, <1>4

LEMMA TakenInOrder ==
    ASSUME NEW q \in QueueType, Worked(q), NEW d \in q.posting, NEW l \in Nat, NEW n \in Nat, OrderOf(q, l, n)
    PROVE  InTurn(q, Taken(q, d), l, n)
<1> DEFINE p == Taken(q, d)
           Q == q.pending
<1>1. p \in QueueType /\ q.posting = {d} /\ l <= n
  BY TakenIs DEF OrderOf
<1>2. CASE Q = <<>>
  <2>1. ~p.there /\ p.posting = {} /\ p.pending = <<>>
    BY <1>2, TakenIs
  <2> HIDE DEF p
  <2>2. Observed(q, p, l) = l
    BY <2>1, NothingBegun
  <2>3. OrderOf(p, l, n)
    BY <1>1, <2>1 DEF OrderOf
  <2> QED
    BY <2>1, <2>2, <2>3 DEF InTurn, Worked, p
<1>3. CASE Q # <<>>
  <2> DEFINE h == Head(Q)
             t == Tail(Q)
  <2>1. /\ p.there /\ p.posting = {h} /\ p.pending = t /\ h \in Delivery /\ 1 \in DOMAIN Q /\ h = Q[1]
        /\ t \in Seq(Delivery) /\ Q \in Seq(Delivery)
        /\ \A i \in DOMAIN t : i \in Nat /\ i >= 1 /\ i + 1 \in DOMAIN Q /\ t[i] = Q[i + 1]
    BY <1>3, TakenIs
  <2>6. DOMAIN t = 1 .. Len(t) /\ Len(t) \in Nat
    BY <2>1
  <2>2. Worked(p)
    BY <2>1 DEF Worked
  <2> HIDE DEF p, h, t, Q
  <2>3. \A j \in DOMAIN Q : Q[j] \in Delivery /\ (IsEvent(Q[j]) => Q[j].event \in Nat)
    BY <2>1, DeliveriesAre
  <2>4. CASE ~IsEvent(h)
    <3>1. Observed(q, p, l) = l
      BY <2>1, <2>4, NothingBegun
    <3>2. ASSUME NEW j \in DOMAIN t, IsEvent(t[j])
          PROVE  l <= t[j].event /\ t[j].event <= n /\ t[j].event # l
      <4>1. j + 1 \in DOMAIN Q /\ t[j] = Q[j + 1] /\ 1 \in 1 .. (j + 1) - 1
        BY <2>1
      <4>2. /\ l <= Q[j + 1].event /\ Q[j + 1].event <= n
            /\ Q[j + 1].event = l => \A k \in 1 .. (j + 1) - 1 : Q[k] = Q[j + 1]
        BY <3>2, <4>1 DEF OrderOf, Q
      <4> QED
        BY <2>1, <2>4, <3>2, <4>1, <4>2
    <3>3. ASSUME NEW i \in DOMAIN t, NEW j \in DOMAIN t, i < j, IsEvent(t[i]), IsEvent(t[j])
          PROVE  /\ t[i].event <= t[j].event
                 /\ t[i].event = t[j].event => \A k \in i .. j - 1 : t[k] = t[j]
      <4>1. i + 1 \in DOMAIN Q /\ t[i] = Q[i + 1] /\ j + 1 \in DOMAIN Q /\ t[j] = Q[j + 1] /\ i + 1 < j + 1
        BY <2>1, <3>3
      <4>2. /\ Q[i + 1].event <= Q[j + 1].event
            /\ Q[i + 1].event = Q[j + 1].event => \A k \in i + 1 .. (j + 1) - 1 : Q[k] = Q[j + 1]
        BY <3>3, <4>1 DEF OrderOf, Q
      <4>3. \A k \in i .. j - 1 : k \in DOMAIN t /\ k + 1 \in i + 1 .. (j + 1) - 1 /\ t[k] = Q[k + 1]
        <5>1. i \in Nat /\ i >= 1 /\ j \in Nat /\ j <= Len(t) /\ Len(t) \in Nat
          BY <2>6
        <5>2. \A k \in i .. j - 1 : k \in 1 .. Len(t) /\ k + 1 \in i + 1 .. (j + 1) - 1
          BY <5>1
        <5> QED
          BY <2>6, <2>1, <5>2
      <4> QED
        BY <4>1, <4>2, <4>3
    <3>4. OrderOf(p, l, n)
      BY <1>1, <2>1, <2>4, <3>2, <3>3 DEF OrderOf
    <3> QED
      BY <2>1, <2>2, <2>4, <3>1, <3>4 DEF InTurn, p
  <2>5. CASE IsEvent(h)
    <3> DEFINE e == h.event
    <3>1. l <= e /\ e <= n /\ e \in Nat /\ h = Forwarded(e)
      BY <2>1, <2>3, <2>5, DeliveriesAre DEF OrderOf, Q
    <3>2. e = l => h \in q.posting
      BY <2>1, <2>5 DEF OrderOf, Q
    <3>3. h \in q.posting => e = l
      BY <2>5 DEF OrderOf
    <3>4. Observed(q, p, l) = e
      BY <2>1, <2>5, <3>2, <3>3, NothingBegun, OneBegun
    <3> HIDE DEF e
    <3>5. ASSUME NEW j \in DOMAIN t, IsEvent(t[j])
          PROVE  /\ e <= t[j].event /\ t[j].event <= n
                 /\ t[j].event = e => p.posting = {t[j]} /\ \A k \in 1 .. j - 1 : t[k] = t[j]
      <4>1. j + 1 \in DOMAIN Q /\ t[j] = Q[j + 1] /\ 1 < j + 1 /\ j \in Nat
        BY <2>1
      <4>2. /\ Q[j + 1].event <= n /\ Q[1].event <= Q[j + 1].event
            /\ Q[1].event = Q[j + 1].event => \A k \in 1 .. (j + 1) - 1 : Q[k] = Q[j + 1]
        BY <2>1, <2>5, <3>5, <4>1 DEF OrderOf, Q
      <4>3. \A k \in 1 .. j - 1 : k \in DOMAIN t /\ k + 1 \in 1 .. (j + 1) - 1 /\ t[k] = Q[k + 1]
        <5>1. j \in Nat /\ j <= Len(t) /\ Len(t) \in Nat
          BY <2>6
        <5>2. \A k \in 1 .. j - 1 : k \in 1 .. Len(t) /\ k + 1 \in 1 .. (j + 1) - 1
          BY <5>1
        <5> QED
          BY <2>6, <2>1, <5>2
      <4>4. 1 \in 1 .. (j + 1) - 1
        BY <4>1, <2>1
      <4> QED
        BY <2>1, <4>1, <4>2, <4>3, <4>4 DEF e
    <3>6. ASSUME NEW i \in DOMAIN t, NEW j \in DOMAIN t, i < j, IsEvent(t[i]), IsEvent(t[j])
          PROVE  /\ t[i].event <= t[j].event
                 /\ t[i].event = t[j].event => \A k \in i .. j - 1 : t[k] = t[j]
      <4>1. i + 1 \in DOMAIN Q /\ t[i] = Q[i + 1] /\ j + 1 \in DOMAIN Q /\ t[j] = Q[j + 1] /\ i + 1 < j + 1
        BY <2>1, <3>6
      <4>2. /\ Q[i + 1].event <= Q[j + 1].event
            /\ Q[i + 1].event = Q[j + 1].event => \A k \in i + 1 .. (j + 1) - 1 : Q[k] = Q[j + 1]
        BY <3>6, <4>1 DEF OrderOf, Q
      <4>3. \A k \in i .. j - 1 : k \in DOMAIN t /\ k + 1 \in i + 1 .. (j + 1) - 1 /\ t[k] = Q[k + 1]
        <5>1. i \in Nat /\ i >= 1 /\ j \in Nat /\ j <= Len(t) /\ Len(t) \in Nat
          BY <2>6
        <5>2. \A k \in i .. j - 1 : k \in 1 .. Len(t) /\ k + 1 \in i + 1 .. (j + 1) - 1
          BY <5>1
        <5> QED
          BY <2>6, <2>1, <5>2
      <4> QED
        BY <4>1, <4>2, <4>3
    <3>7. OrderOf(p, e, n)
      BY <2>1, <3>1, <3>5, <3>6 DEF OrderOf, e
    <3>8. \A x \in p.posting \ q.posting : IsEvent(x) => x.event > l
      BY <2>1, <3>1, <3>2 DEF e
    <3> QED
      BY <2>2, <3>1, <3>4, <3>7, <3>8 DEF InTurn, p
  <2> QED
    BY <2>4, <2>5 DEF p
<1> QED
  BY <1>2, <1>3

---------------------------------------------------------------------------
\* The alert that is waited for

IsCurrent(d) == d.kind = "alert" /\ d.of = "current"

\* Where there is one, there is one.
OneCurrent(q, there) ==
    /\ \A i, j \in DOMAIN q.pending : IsCurrent(q.pending[i]) /\ IsCurrent(q.pending[j]) => i = j
    /\ (\E d \in q.posting : IsCurrent(d)) => \A i \in DOMAIN q.pending : ~IsCurrent(q.pending[i])
    /\ there <=> (\/ \E d \in q.posting : IsCurrent(d)
                  \/ \E i \in DOMAIN q.pending : IsCurrent(q.pending[i]))

CurrentOf(q) == {d \in Range(q.pending) \union q.posting : IsCurrent(d)}

\* Handing over something else adds none.
LEMMA NoMoreCurrent ==
    ASSUME NEW q \in QueueType, Worked(q), NEW d \in Delivery, ~IsCurrent(d), NEW p, Grown(q, p, d),
           NEW b \in BOOLEAN, OneCurrent(q, b)
    PROVE  /\ OneCurrent(p, b) \/ OneCurrent(p, FALSE)
           /\ CurrentOf(p) \subseteq CurrentOf(q)
<1> DEFINE Q == q.pending
           P == p.pending
<1>1. Worked(p) /\ p \in QueueType /\ P \in Seq(Delivery) /\ Q \in Seq(Delivery)
  BY GrownIsWorked, QueueRecord
<1>2. CASE p = q
  BY <1>2
<1>3. CASE ~q.there /\ p.there /\ p.posting = {d} /\ \A i \in DOMAIN P : P[i] = d
  <2>1. \A x \in Range(P) \union p.posting : ~IsCurrent(x)
    BY <1>3 DEF Range
  <2>2. OneCurrent(p, FALSE)
    BY <1>3 DEF OneCurrent
  <2> QED
    BY <2>1, <2>2 DEF CurrentOf
<1>4. CASE /\ q.there /\ p.there /\ p.posting = q.posting
           /\ \E s \in 0 .. Len(Q) :
                  /\ Len(Q) - s <= Len(P)
                  /\ \A i \in 1 .. Len(Q) - s : P[i] = Q[i + s]
                  /\ \A i \in DOMAIN P : i > Len(Q) - s => P[i] = d
  <2>1. PICK s \in 0 .. Len(Q) :
            /\ Len(Q) - s <= Len(P)
            /\ \A i \in 1 .. Len(Q) - s : P[i] = Q[i + s]
            /\ \A i \in DOMAIN P : i > Len(Q) - s => P[i] = d
    BY <1>4
  <2>2. \A i \in DOMAIN P : IsCurrent(P[i]) => i \in Int /\ i + s \in DOMAIN Q /\ P[i] = Q[i + s]
    <3> SUFFICES ASSUME NEW i \in DOMAIN P, IsCurrent(P[i])
                 PROVE  i \in Int /\ i + s \in DOMAIN Q /\ P[i] = Q[i + s]
      OBVIOUS
    <3>1. i \in Nat /\ i >= 1 /\ s \in Nat /\ Len(Q) \in Nat /\ DOMAIN Q = 1 .. Len(Q)
      BY <1>1
    <3>2. i \in 1 .. Len(Q) - s
      BY <2>1, <3>1
    <3> HIDE DEF P, Q
    <3>3. i + s \in 1 .. Len(Q)
      BY <3>1, <3>2
    <3> QED
      BY <2>1, <3>1, <3>2, <3>3
  <2>3. p.posting = q.posting /\ s \in Int
    BY <1>4
  <2> HIDE DEF P, Q
  <2>4. \A i, j \in DOMAIN P : IsCurrent(P[i]) /\ IsCurrent(P[j]) => i = j
    <3> SUFFICES ASSUME NEW i \in DOMAIN P, NEW j \in DOMAIN P, IsCurrent(P[i]), IsCurrent(P[j]) PROVE i = j
      OBVIOUS
    <3>1. i + s = j + s /\ i \in Int /\ j \in Int
      BY <2>2 DEF OneCurrent, Q
    <3> QED
      BY <2>3, <3>1
  <2>5. (\E x \in p.posting : IsCurrent(x)) => \A i \in DOMAIN P : ~IsCurrent(P[i])
    BY <2>2, <2>3 DEF OneCurrent, Q
  <2>6. ((\E x \in p.posting : IsCurrent(x)) \/ (\E i \in DOMAIN P : IsCurrent(P[i]))) => b
    BY <2>2, <2>3 DEF OneCurrent, Q
  <2>7. OneCurrent(p, b) \/ OneCurrent(p, FALSE)
    BY <2>4, <2>5, <2>6 DEF OneCurrent, P
  <2>8. ASSUME NEW x \in CurrentOf(p) PROVE x \in CurrentOf(q)
    <3>1. CASE x \in p.posting
      BY <2>3, <2>8, <3>1 DEF CurrentOf
    <3>2. CASE x \in Range(P)
      <4>1. PICK i \in DOMAIN P : P[i] = x
        BY <3>2 DEF Range
      <4>2. IsCurrent(x)
        BY <2>8 DEF CurrentOf
      <4>3. x \in Range(Q)
        BY <2>2, <4>1, <4>2 DEF Range
      <4> QED
        BY <4>2, <4>3 DEF CurrentOf, Q
    <3> QED
      BY <2>8, <3>1, <3>2 DEF CurrentOf, P
  <2> QED
    BY <2>7, <2>8
<1> QED
  BY <1>2, <1>3, <1>4 DEF Grown

\* An alert is handed over where none is.
LEMMA OneCurrentMore ==
    ASSUME NEW q \in QueueType, Worked(q), NEW d \in Delivery, IsCurrent(d), OneCurrent(q, FALSE)
    PROVE  OneCurrent(Enqueued(q, d), TRUE)
<1> DEFINE p == Enqueued(q, d)
           left == IF Len(q.pending) >= Capacity THEN Tail(q.pending) ELSE q.pending
<1>1. q.pending \in Seq(Delivery) /\ \A i \in DOMAIN q.pending : ~IsCurrent(q.pending[i])
  BY QueueRecord DEF OneCurrent
<1>2. \A x \in q.posting : ~IsCurrent(x)
  BY DEF OneCurrent
<1>3. CASE ~q.there
  <2>1. p.posting = {d} /\ p.pending = <<>>
    BY <1>3, QueueRecord DEF Worked
  <2> HIDE DEF p
  <2> QED
    BY <2>1 DEF OneCurrent, p
<1>4. CASE q.there
  <2>1. p.posting = q.posting /\ p.pending = Append(left, d)
    BY <1>4, QueueRecord
  <2>2. left \in Seq(Delivery) /\ \A i \in DOMAIN left : ~IsCurrent(left[i])
    <3>1. Len(q.pending) >= Capacity => q.pending # <<>>
      BY <1>1, ForwarderAssumption
    <3> QED
      BY <1>1, <3>1
  <2> HIDE DEF p, left
  <2>3. /\ \A i \in DOMAIN p.pending : (i \in DOMAIN left /\ p.pending[i] = left[i]) \/ i = Len(left) + 1
        /\ Len(left) + 1 \in DOMAIN p.pending /\ p.pending[Len(left) + 1] = d
    BY <2>1, <2>2
  <2>4. /\ \A i, j \in DOMAIN p.pending : IsCurrent(p.pending[i]) /\ IsCurrent(p.pending[j]) => i = j
        /\ \E i \in DOMAIN p.pending : IsCurrent(p.pending[i])
    BY <2>2, <2>3
  <2> QED
    BY <1>2, <2>1, <2>4 DEF OneCurrent, p
<1> QED
  BY <1>3, <1>4, QueueRecord

LEMMA TakenCurrent ==
    ASSUME NEW q \in QueueType, Worked(q), NEW d \in q.posting, NEW b \in BOOLEAN, OneCurrent(q, b)
    PROVE  OneCurrent(Taken(q, d), b /\ ~IsCurrent(d))
<1> DEFINE p == Taken(q, d)
           Q == q.pending
<1>1. q.posting = {d} /\ Q \in Seq(Delivery)
  BY TakenIs
<1>2. CASE Q = <<>>
  <2>1. p.posting = {} /\ p.pending = <<>>
    BY <1>2, TakenIs
  <2>2. b <=> IsCurrent(d)
    BY <1>1, <1>2 DEF OneCurrent
  <2> HIDE DEF p
  <2> QED
    BY <2>1, <2>2 DEF OneCurrent, p
<1>3. CASE Q # <<>>
  <2> DEFINE t == Tail(Q)
  <2>1. /\ p.posting = {Q[1]} /\ p.pending = t /\ 1 \in DOMAIN Q
        /\ \A i \in DOMAIN t : i \in Nat /\ i >= 1 /\ i + 1 \in DOMAIN Q /\ t[i] = Q[i + 1]
    BY <1>3, TakenIs
  <2>2. \A i \in DOMAIN Q : i # 1 => i - 1 \in DOMAIN t /\ t[i - 1] = Q[i]
    BY <1>1, <1>3
  <2> HIDE DEF p, Q, t
  <2>3. \A i, j \in DOMAIN t : IsCurrent(t[i]) /\ IsCurrent(t[j]) => i = j
    <3> SUFFICES ASSUME NEW i \in DOMAIN t, NEW j \in DOMAIN t, IsCurrent(t[i]), IsCurrent(t[j]) PROVE i = j
      OBVIOUS
    <3>1. i \in Nat /\ j \in Nat /\ i + 1 \in DOMAIN Q /\ j + 1 \in DOMAIN Q
          /\ IsCurrent(Q[i + 1]) /\ IsCurrent(Q[j + 1])
      BY <2>1
    <3>2. i + 1 = j + 1
      BY <3>1 DEF OneCurrent, Q
    <3> QED
      BY <3>1, <3>2
  <2>4. IsCurrent(Q[1]) => \A i \in DOMAIN t : ~IsCurrent(t[i])
    <3> SUFFICES ASSUME IsCurrent(Q[1]), NEW i \in DOMAIN t, IsCurrent(t[i]) PROVE FALSE
      OBVIOUS
    <3>1. i >= 1 /\ i \in Nat /\ i + 1 \in DOMAIN Q /\ IsCurrent(Q[i + 1])
      BY <2>1
    <3>2. 1 = i + 1
      BY <2>1, <3>1 DEF OneCurrent, Q
    <3> QED
      BY <3>1, <3>2
  <2>5. (IsCurrent(Q[1]) \/ \E i \in DOMAIN t : IsCurrent(t[i])) <=> \E i \in DOMAIN Q : IsCurrent(Q[i])
    BY <2>1, <2>2
  <2>6. (b /\ ~IsCurrent(d)) <=> \E i \in DOMAIN Q : IsCurrent(Q[i])
    BY <1>1 DEF OneCurrent, Q
  <2> QED
    BY <2>1, <2>3, <2>4, <2>5, <2>6 DEF OneCurrent, p
<1> QED
  BY <1>2, <1>3

---------------------------------------------------------------------------
\* What an outage does to a queue

\* Nothing the order is about.
QuietTurn(q, p, l, n) ==
    /\ p \in QueueType /\ Worked(p) /\ OrderOf(p, l, n)
    /\ \A x \in p.posting : IsEvent(x) => x \in q.posting

LEMMA QuietIsInTurn ==
    ASSUME NEW q, NEW p, NEW l \in Nat, NEW n, QuietTurn(q, p, l, n)
    PROVE  InTurn(q, p, l, n)
<1>1. Observed(q, p, l) = l
  BY NothingBegun DEF QuietTurn
<1> QED
  BY <1>1 DEF QuietTurn, InTurn

OldOf(d) == IF d.kind = "alert" THEN [d EXCEPT !.of = "past"] ELSE d

LeftOf(q) == [q EXCEPT !.pending = [i \in DOMAIN @ |-> OldOf(@[i])], !.posting = {OldOf(d) : d \in @}]

LEMMA OldAre ==
    \A d \in Delivery : /\ OldOf(d) \in Delivery /\ ~IsCurrent(OldOf(d))
                        /\ IsEvent(OldOf(d)) <=> IsEvent(d)
                        /\ IsEvent(d) => OldOf(d) = d
<1> SUFFICES ASSUME NEW d \in Delivery
             PROVE  /\ OldOf(d) \in Delivery /\ ~IsCurrent(OldOf(d))
                    /\ IsEvent(OldOf(d)) <=> IsEvent(d)
                    /\ IsEvent(d) => OldOf(d) = d
  OBVIOUS
<1>1. CASE d \in AlertDelivery
  <2>1. OldOf(d) = [d EXCEPT !.of = "past"] /\ d.kind = "alert"
    BY <1>1 DEF OldOf, AlertDelivery
  <2>2. OldOf(d) \in AlertDelivery /\ OldOf(d).of = "past" /\ OldOf(d).kind = "alert"
    BY <1>1, <2>1 DEF AlertDelivery
  <2> QED
    BY <2>1, <2>2 DEF Delivery, IsCurrent, IsEvent
<1>2. CASE d \notin AlertDelivery
  <2>1. d.kind \in {"event", "notice"}
    BY <1>2 DEF Delivery
  <2> QED
    BY <2>1 DEF OldOf, IsCurrent, IsEvent
<1> QED
  BY <1>1, <1>2

LEMMA LeftIsQuiet ==
    ASSUME NEW q \in QueueType, Worked(q), NEW l \in Nat, NEW n \in Nat, OrderOf(q, l, n)
    PROVE  QuietTurn(q, LeftOf(q), l, n) /\ OneCurrent(LeftOf(q), FALSE)
<1> DEFINE p == LeftOf(q)
           Q == q.pending
           P == [i \in DOMAIN Q |-> OldOf(Q[i])]
<1>1. Q \in Seq(Delivery) /\ q.posting \subseteq Delivery /\ q.there \in BOOLEAN
  BY DEF QueueType
<1>2. P \in Seq(Delivery) /\ DOMAIN P = DOMAIN Q /\ \A i \in DOMAIN Q : P[i] = OldOf(Q[i]) /\ Q[i] \in Delivery
  BY <1>1, OldAre
<1>3. {OldOf(d) : d \in q.posting} \in SUBSET Delivery
  BY <1>1, OldAre
<1>4. p \in QueueType /\ p.there = q.there /\ p.pending = P /\ p.posting = {OldOf(d) : d \in q.posting}
  <2> HIDE DEF P
  <2>1. p = [q EXCEPT !.pending = P, !.posting = {OldOf(d) : d \in q.posting}]
    BY DEF LeftOf, P
  <2> HIDE DEF p
  <2> QED
    BY <1>2, <1>3, <2>1 DEF QueueType
<1> HIDE DEF p, P
<1>5. Worked(p)
  <2>1. CASE q.there
    <3>1. PICK d \in Delivery : q.posting = {d}
      BY <2>1 DEF Worked
    <3>2. p.posting = {OldOf(d)} /\ OldOf(d) \in Delivery
      BY <1>4, <3>1, OldAre
    <3> QED
      BY <1>4, <2>1, <3>2 DEF Worked
  <2>2. CASE ~q.there
    BY <1>2, <1>4, <2>2 DEF Worked
  <2> QED
    BY <2>1, <2>2
<1>6. \A x \in p.posting : (IsEvent(x) => x \in q.posting) /\ ~IsCurrent(x)
  BY <1>1, <1>4, OldAre
<1>7. \A i \in DOMAIN Q : /\ IsEvent(P[i]) <=> IsEvent(Q[i])
                          /\ IsEvent(Q[i]) => P[i] = Q[i]
                          /\ ~IsCurrent(P[i])
  BY <1>2, OldAre
<1>8. OrderOf(p, l, n)
  <2>1. l <= n /\ \A x \in p.posting : IsEvent(x) => x.event = l
    BY <1>6 DEF OrderOf
  <2>2. ASSUME NEW j \in DOMAIN Q, IsEvent(P[j])
        PROVE  /\ l <= P[j].event /\ P[j].event <= n
               /\ P[j].event = l => p.posting = {P[j]} /\ \A k \in 1 .. j - 1 : P[k] = P[j]
    <3>1. P[j] = Q[j] /\ IsEvent(Q[j])
      BY <1>7, <2>2
    <3>2. l <= Q[j].event /\ Q[j].event <= n
      BY <3>1 DEF OrderOf
    <3>3. ASSUME Q[j].event = l PROVE p.posting = {P[j]} /\ \A k \in 1 .. j - 1 : P[k] = P[j]
      <4>1. q.posting = {Q[j]} /\ \A k \in 1 .. j - 1 : Q[k] = Q[j]
        BY <3>1, <3>3 DEF OrderOf
      <4>2. \A k \in 1 .. j - 1 : k \in DOMAIN Q
        BY <1>1
      <4> QED
        BY <1>2, <1>4, <4>1, <4>2
    <3> QED
      BY <3>1, <3>2, <3>3
  <2>3. ASSUME NEW i \in DOMAIN Q, NEW j \in DOMAIN Q, i < j, IsEvent(P[i]), IsEvent(P[j])
        PROVE  /\ P[i].event <= P[j].event
               /\ P[i].event = P[j].event => \A k \in i .. j - 1 : P[k] = P[j]
    <3>1. P[j] = Q[j] /\ IsEvent(Q[j]) /\ P[i] = Q[i] /\ IsEvent(Q[i])
      BY <1>7, <2>3
    <3>2. /\ Q[i].event <= Q[j].event
          /\ Q[i].event = Q[j].event => \A k \in i .. j - 1 : Q[k] = Q[j]
      BY <2>3, <3>1 DEF OrderOf
    <3>3. \A k \in i .. j - 1 : k \in DOMAIN Q
      BY <1>1
    <3> QED
      BY <1>2, <3>1, <3>2, <3>3
  <2>4. p.pending = P /\ DOMAIN P = DOMAIN Q
    BY <1>2, <1>4
  <2>5. \A j \in DOMAIN P : IsEvent(P[j]) =>
            /\ l <= P[j].event /\ P[j].event <= n
            /\ P[j].event = l => p.posting = {P[j]} /\ \A k \in 1 .. j - 1 : P[k] = P[j]
    BY <2>2, <2>4
  <2>6. \A i, j \in DOMAIN P : i < j /\ IsEvent(P[i]) /\ IsEvent(P[j]) =>
            /\ P[i].event <= P[j].event
            /\ P[i].event = P[j].event => \A k \in i .. j - 1 : P[k] = P[j]
    BY <2>3, <2>4
  <2> HIDE DEF Q
  <2> QED
    BY <2>1, <2>4, <2>5, <2>6 DEF OrderOf
<1>9. OneCurrent(p, FALSE)
  BY <1>2, <1>4, <1>6, <1>7 DEF OneCurrent
<1> QED
  BY <1>4, <1>5, <1>6, <1>8, <1>9 DEF QuietTurn, p

LEMMA LeftAre ==
    ASSUME NEW qs \in [Url -> QueueType]
    PROVE  DOMAIN Left(qs) = Url /\ \A u \in Url : Left(qs)[u] = LeftOf(qs[u])
BY Zenon DEF Left, LeftOf, OldOf

OutageType ==
    [is : BOOLEAN, lost : BOOLEAN, up : {"no", "since", "stable"}, long : BOOLEAN,
     next : {"now", "repeat", "retry"}, forwarded : BOOLEAN, sending : BOOLEAN, told : BOOLEAN]

LEMMA HandedOver ==
    ASSUME NEW q \in QueueType, Worked(q), NEW l \in Nat, NEW n \in Nat, OrderOf(q, l, n),
           NEW d \in Delivery, ~IsEvent(d), NEW k \in Nat
    PROVE  /\ QuietTurn(q, Repeated(q, d, k), l, n)
           /\ QuietTurn(q, Enqueued(q, d), l, n)
           /\ ~IsCurrent(d) /\ OneCurrent(q, FALSE) => OneCurrent(Repeated(q, d, k), FALSE)
<1>1. Grown(q, Repeated(q, d, k), d)
  BY RepeatedGrows
<1>2. Grown(q, q, d)
  BY DEF Grown
<1>3. Grown(q, Enqueued(q, d), d)
  BY <1>2, OneMore
<1>4. \A p : Grown(q, p, d) => QuietTurn(q, p, l, n)
  BY GrownInOrder, GrownIsWorked DEF QuietTurn
<1>5. ~IsCurrent(d) /\ OneCurrent(q, FALSE) => OneCurrent(Repeated(q, d, k), FALSE)
  BY <1>1, NoMoreCurrent
<1> QED
  BY <1>1, <1>3, <1>4, <1>5

LEMMA DeliveriesCount ==
    ASSUME ConfigType, NEW W, NEW u PROVE DeliveriesTo(W, u) \in Nat
<1> DEFINE matching == {c \in DOMAIN configs \intersect W : configs[c].enabled}
           there == {c \in matching : configs[c].url = u}
<1>1. DOMAIN configs \subseteq Config
  BY ConfigsAre DEF ConfigType
<1>2. IsFiniteSet(there)
  BY <1>1, ConfigAssumption, FS_Subset
<1>3. Cardinality(there) \in Nat
  BY <1>2, FS_CardinalityType
<1> QED
  BY <1>3 DEF DeliveriesTo

LEMMA WithAlertIsQuiet ==
    ASSUME ConfigType, NEW u \in Url, NEW q \in QueueType, Worked(q), NEW l \in Nat, NEW n \in Nat,
           OrderOf(q, l, n), NEW o \in OutageType, OneCurrent(q, FALSE)
    PROVE  QuietTurn(q, WithAlert(u, q, o), l, n) /\ OneCurrent(WithAlert(u, q, o), u = AlertUrl)
<1> DEFINE k == IF o.forwarded THEN 0 ELSE DeliveriesTo(Listening, u)
           r == Repeated(q, Notice, k)
           a == Alert(o)
<1>1. k \in Nat
  BY DeliveriesCount
<1>2. Notice \in Delivery /\ ~IsEvent(Notice) /\ ~IsCurrent(Notice)
  BY DeliveriesAre DEF Notice, IsCurrent
<1>3. a \in Delivery /\ ~IsEvent(a) /\ IsCurrent(a)
  <2>1. o.lost \in BOOLEAN
    BY DEF OutageType
  <2>2. a \in AlertDelivery /\ a.kind = "alert" /\ a.of = "current"
    BY <2>1 DEF Alert, AlertDelivery
  <2> QED
    BY <2>2, DeliveriesAre DEF IsCurrent
<1> HIDE DEF k, a
<1>4. QuietTurn(q, r, l, n) /\ OneCurrent(r, FALSE)
  BY <1>1, <1>2, HandedOver
<1> HIDE DEF r
<1>5. r \in QueueType /\ Worked(r) /\ OrderOf(r, l, n)
  BY <1>4 DEF QuietTurn
<1>6. QuietTurn(r, Enqueued(r, a), l, n) /\ OneCurrent(Enqueued(r, a), TRUE)
  BY <1>3, <1>5, <1>4, HandedOver, OneCurrentMore
<1>7. QuietTurn(q, Enqueued(r, a), l, n)
  BY <1>4, <1>6 DEF QuietTurn
<1>8. WithAlert(u, q, o) = IF u = AlertUrl THEN Enqueued(r, a) ELSE r
  BY DEF WithAlert, k, r, a
<1> QED
  BY <1>4, <1>6, <1>7, <1>8

---------------------------------------------------------------------------
\* The invariant of the queues and of the outage

QueuesInv ==
    /\ queue \in [Url -> QueueType]
    /\ latest \in [Url -> Nat]
    /\ seen \in 0 .. LastEvent
    /\ \A u \in Url : Worked(queue[u]) /\ OrderOf(queue[u], latest[u], seen)

\* An alert about the loss itself is not what an outage waits a repetition for.
NotPutOff(o) == o.is /\ o.lost /\ ~o.told /\ ~o.sending => o.next # "repeat"

AlertsInv ==
    /\ outage \in OutageType
    /\ NotPutOff(outage)
    /\ \A u \in Url : OneCurrent(queue[u], u = AlertUrl /\ outage.sending)

\* The body of InOrder.
InOrderStep ==
    \A u \in Url :
        /\ Cardinality(queue'[u].posting) = IF queue'[u].there THEN 1 ELSE 0
        /\ \A d \in queue'[u].posting \ queue[u].posting :
              d.kind = "event" => d.event > latest[u]

LEMMA OnePosting ==
    ASSUME NEW q, Worked(q)
    PROVE  Cardinality(q.posting) = IF q.there THEN 1 ELSE 0
<1>1. CASE q.there
  <2>1. PICK d \in Delivery : q.posting = {d}
    BY <1>1 DEF Worked
  <2>2. Cardinality({d}) = 1
    BY FS_Singleton
  <2> QED
    BY <1>1, <2>1, <2>2
<1>2. CASE ~q.there
  BY <1>2, FS_EmptySet DEF Worked
<1> QED
  BY <1>1, <1>2

\* Where each queue takes a step in turn, all keep their order.
LEMMA TurnsKeep ==
    ASSUME QueuesInv, queue' \in [Url -> QueueType], seen' \in 0 .. LastEvent, Observe,
           \A u \in Url : InTurn(queue[u], queue'[u], latest[u], seen')
    PROVE  QueuesInv' /\ InOrderStep
<1>1. latest' = [u \in Url |-> Observed(queue[u], queue'[u], latest[u])]
  BY Zenon DEF Observe, Observed
<1>2. \A u \in Url : Observed(queue[u], queue'[u], latest[u]) \in Nat
  BY DEF InTurn
<1>3. latest' \in [Url -> Nat] /\ \A u \in Url : latest'[u] = Observed(queue[u], queue'[u], latest[u])
  BY <1>1, <1>2
<1>4. \A u \in Url : Worked(queue'[u]) /\ OrderOf(queue'[u], latest'[u], seen')
  BY <1>3 DEF InTurn
<1>5. QueuesInv'
  BY <1>3, <1>4 DEF QueuesInv
<1>6. InOrderStep
  BY <1>4, OnePosting DEF InOrderStep, InTurn, IsEvent
<1> QED
  BY <1>5, <1>6

\* Where nothing the order is about happens.
QuietQueues(qs) ==
    qs \in [Url -> QueueType] /\ \A u \in Url : QuietTurn(queue[u], qs[u], latest[u], seen)

LEMMA QuietKeeps ==
    ASSUME QueuesInv, QuietQueues(queue'), seen' = seen, Observe
    PROVE  QueuesInv' /\ InOrderStep
<1>1. ASSUME NEW u \in Url PROVE InTurn(queue[u], queue'[u], latest[u], seen')
  <2>1. latest[u] \in Nat /\ QuietTurn(queue[u], queue'[u], latest[u], seen)
    BY DEF QueuesInv, QuietQueues
  <2> QED
    BY <2>1, QuietIsInTurn
<1> QED
  BY <1>1, TurnsKeep DEF QueuesInv, QuietQueues

LEMMA SameIsQuiet ==
    ASSUME QueuesInv PROVE QuietQueues(queue)
BY DEF QueuesInv, QuietQueues, QuietTurn

LEMMA LeavingIsQuiet ==
    ASSUME QueuesInv
    PROVE  QuietQueues(Left(queue)) /\ \A u \in Url : OneCurrent(Left(queue)[u], FALSE)
<1>1. DOMAIN Left(queue) = Url /\ \A u \in Url : Left(queue)[u] = LeftOf(queue[u])
  BY LeftAre DEF QueuesInv
<1>2. ASSUME NEW u \in Url
      PROVE  /\ QuietTurn(queue[u], LeftOf(queue[u]), latest[u], seen)
             /\ OneCurrent(LeftOf(queue[u]), FALSE)
  <2>1. queue[u] \in QueueType /\ Worked(queue[u]) /\ latest[u] \in Nat /\ seen \in Nat
        /\ OrderOf(queue[u], latest[u], seen)
    BY ForwarderAssumption DEF QueuesInv
  <2> QED
    BY <2>1, LeftIsQuiet
<1>3. \A u \in Url : LeftOf(queue[u]) \in QueueType
  BY <1>2 DEF QuietTurn
<1>4. Left(queue) = [u \in Url |-> Left(queue)[u]]
  BY DEF Left
<1>5. Left(queue) \in [Url -> QueueType]
  BY <1>1, <1>3, <1>4
<1> QED
  BY <1>1, <1>2, <1>5 DEF QuietQueues

---------------------------------------------------------------------------
\* The steps of an outage

LEMMA NoOutages ==
    /\ NoOutage \in OutageType /\ NotPutOff(NoOutage) /\ ~NoOutage.sending
    /\ NewOutage \in OutageType /\ NotPutOff(NewOutage) /\ ~NewOutage.sending
BY DEF NoOutage, NewOutage, OutageType, NotPutOff

LEMMA AlertingKeeps ==
    ASSUME ConfigType, QueuesInv, NEW o \in OutageType, NotPutOff(o),
           NEW qs, QuietQueues(qs), \A u \in Url : OneCurrent(qs[u], u = AlertUrl /\ o.sending),
           Alerting(o, qs)
    PROVE  QuietQueues(queue') /\ AlertsInv'
<1>1. CASE ~Due(o)
  BY <1>1 DEF Alerting, AlertsInv
<1>2. CASE Due(o) /\ account # "active"
  <2>1. outage' = NoOutage /\ queue' = qs /\ ~o.sending
    BY <1>2 DEF Alerting, Due
  <2>2. \A u \in Url : (u = AlertUrl /\ o.sending) = FALSE /\ (u = AlertUrl /\ NoOutage.sending) = FALSE
    BY <2>1, NoOutages
  <2> QED
    BY <2>1, <2>2, NoOutages DEF AlertsInv
<1>3. CASE Due(o) /\ account = "active"
  <2>1. /\ outage' = [o EXCEPT !.sending = TRUE, !.forwarded = TRUE]
        /\ queue' = [u \in Url |-> WithAlert(u, qs[u], o)]
        /\ ~o.sending
    BY <1>3 DEF Alerting, Due
  <2>2. outage' \in OutageType /\ outage'.sending /\ NotPutOff(outage')
    BY <2>1 DEF OutageType, NotPutOff
  <2>3. ASSUME NEW u \in Url
        PROVE  /\ QuietTurn(queue[u], queue'[u], latest[u], seen)
               /\ OneCurrent(queue'[u], u = AlertUrl)
    <3>1. QuietTurn(queue[u], qs[u], latest[u], seen) /\ qs[u] \in QueueType
          /\ latest[u] \in Nat /\ seen \in Nat
      BY ForwarderAssumption DEF QuietQueues, QueuesInv
    <3>2. Worked(qs[u]) /\ OrderOf(qs[u], latest[u], seen)
      BY <3>1 DEF QuietTurn
    <3>3. OneCurrent(qs[u], FALSE)
      <4>1. (u = AlertUrl /\ o.sending) = FALSE
        BY <2>1
      <4> QED
        BY <4>1
    <3>4. /\ QuietTurn(qs[u], WithAlert(u, qs[u], o), latest[u], seen)
          /\ OneCurrent(WithAlert(u, qs[u], o), u = AlertUrl)
      BY <3>1, <3>2, <3>3, WithAlertIsQuiet
    <3>5. queue'[u] = WithAlert(u, qs[u], o)
      BY <2>1
    <3>6. QuietTurn(queue[u], WithAlert(u, qs[u], o), latest[u], seen)
      BY <3>1, <3>4 DEF QuietTurn
    <3> QED
      BY <3>4, <3>5, <3>6
  <2>4. queue' \in [Url -> QueueType]
    <3>1. \A u \in Url : WithAlert(u, qs[u], o) \in QueueType
      BY <2>1, <2>3 DEF QuietTurn
    <3> QED
      BY <2>1, <3>1
  <2>5. \A u \in Url : (u = AlertUrl /\ outage'.sending) = (u = AlertUrl)
    BY <2>2
  <2>6. AlertsInv'
    BY <2>2, <2>3, <2>5 DEF AlertsInv
  <2> QED
    BY <2>3, <2>4, <2>6 DEF QuietQueues
<1> QED
  BY <1>1, <1>2, <1>3

Inv == ConfigInv /\ QueuesInv /\ AlertsInv

LEMMA EndsKeeps ==
    ASSUME Inv, Ends PROVE QuietQueues(queue') /\ AlertsInv'
<1>1. outage' = NoOutage /\ queue' = Left(queue)
  BY DEF Ends
<1>2. QuietQueues(Left(queue)) /\ \A u \in Url : OneCurrent(Left(queue)[u], FALSE)
  BY LeavingIsQuiet DEF Inv
<1>3. \A u \in Url : (u = AlertUrl /\ NoOutage.sending) = FALSE
  BY NoOutages
<1> QED
  BY <1>1, <1>2, <1>3, NoOutages DEF AlertsInv

\* A step that changes the outage alone.
LEMMA OutageAlone ==
    ASSUME Inv, UNCHANGED queue, outage' \in OutageType, NotPutOff(outage'), outage'.sending = outage.sending
    PROVE  QuietQueues(queue') /\ AlertsInv'
<1>1. QuietQueues(queue')
  BY SameIsQuiet DEF Inv
<1>2. AlertsInv'
  BY DEF AlertsInv, Inv
<1> QED
  BY <1>1, <1>2

LEMMA SessionLostKeeps ==
    ASSUME Inv, SessionLost PROVE QuietQueues(queue') /\ AlertsInv'
<1> DEFINE same == outage.is /\ outage.up = "no"
           current == IF same THEN outage ELSE NewOutage
           lost == IF current.lost THEN current
                   ELSE [current EXCEPT !.lost = TRUE, !.next = "now", !.forwarded = FALSE, !.told = FALSE]
           qs == IF same THEN queue ELSE Left(queue)
<1>1. Alerting(lost, qs)
  BY DEF SessionLost
<1>2. current \in OutageType /\ NotPutOff(current)
  BY NoOutages DEF Inv, AlertsInv
<1>3. QuietQueues(qs) /\ \A u \in Url : OneCurrent(qs[u], u = AlertUrl /\ current.sending)
  <2>1. CASE same
    BY <2>1, SameIsQuiet DEF Inv, AlertsInv
  <2>2. CASE ~same
    <3>1. qs = Left(queue) /\ \A u \in Url : (u = AlertUrl /\ current.sending) = FALSE
      BY <2>2, NoOutages
    <3>2. QuietQueues(Left(queue)) /\ \A u \in Url : OneCurrent(Left(queue)[u], FALSE)
      BY LeavingIsQuiet DEF Inv
    <3> QED
      BY <3>1, <3>2
  <2> QED
    BY <2>1, <2>2
<1> HIDE DEF current, qs, same
<1>4. lost \in OutageType /\ NotPutOff(lost) /\ lost.sending = current.sending
  BY <1>2 DEF OutageType, NotPutOff
<1> HIDE DEF lost
<1>5. \A u \in Url : OneCurrent(qs[u], u = AlertUrl /\ lost.sending)
  BY <1>3, <1>4
<1>6. ConfigType /\ QueuesInv
  BY DEF Inv, ConfigInv
<1> QED
  BY <1>1, <1>3, <1>4, <1>5, <1>6, AlertingKeeps

LEMMA UpdateOfConnectionKeeps ==
    ASSUME Inv, ConnectionUpdate PROVE QuietQueues(queue') /\ AlertsInv'
<1>1. outage \in OutageType /\ NotPutOff(outage)
  BY DEF Inv, AlertsInv
<1>2. CASE Deliberate \/ Qr
  BY <1>2, EndsKeeps DEF Deliberate, Qr
<1>3. CASE Connected
  <2>1. outage' \in OutageType /\ NotPutOff(outage') /\ outage'.sending = outage.sending
    BY <1>1, <1>3 DEF Connected, OutageType, NotPutOff
  <2> QED
    BY <1>3, <2>1, OutageAlone DEF Connected
<1>4. CASE SessionLost
  BY <1>4, SessionLostKeeps
<1>5. CASE Disconnected
  <2>1. CASE outage.is /\ outage.up # "stable"
    <3>1. outage' \in OutageType /\ NotPutOff(outage') /\ outage'.sending = outage.sending
      BY <1>1, <1>5, <2>1 DEF Disconnected, OutageType, NotPutOff
    <3> QED
      BY <1>5, <2>1, <3>1, OutageAlone DEF Disconnected
  <2>2. CASE ~(outage.is /\ outage.up # "stable")
    <3>1. outage' = NewOutage /\ queue' = Left(queue)
      BY <1>5, <2>2 DEF Disconnected
    <3>2. QuietQueues(Left(queue)) /\ \A u \in Url : OneCurrent(Left(queue)[u], FALSE)
      BY LeavingIsQuiet DEF Inv
    <3>3. \A u \in Url : (u = AlertUrl /\ NewOutage.sending) = FALSE
      BY NoOutages
    <3> QED
      BY <3>1, <3>2, <3>3, NoOutages DEF AlertsInv
  <2> QED
    BY <2>1, <2>2
<1> QED
  BY <1>2, <1>3, <1>4, <1>5 DEF ConnectionUpdate

LEMMA TickKeeps ==
    ASSUME Inv, Tick PROVE QuietQueues(queue') /\ AlertsInv'
<1>1. CASE outage.up = "stable"
  BY <1>1, EndsKeeps DEF Tick
<1>2. CASE outage.up # "stable"
  <2>1. Alerting(outage, queue)
    BY <1>2 DEF Tick
  <2>2. ConfigType /\ QueuesInv /\ outage \in OutageType /\ NotPutOff(outage)
        /\ \A u \in Url : OneCurrent(queue[u], u = AlertUrl /\ outage.sending)
    BY DEF Inv, ConfigInv, AlertsInv
  <2>3. QuietQueues(queue)
    BY <2>2, SameIsQuiet
  <2> HIDE DEF Inv
  <2> QED
    BY <2>1, <2>2, <2>3, AlertingKeeps
<1> QED
  BY <1>1, <1>2

LEMMA TimeKeeps ==
    ASSUME Inv, TimePasses PROVE QuietQueues(queue') /\ AlertsInv'
<1>1. outage \in OutageType /\ NotPutOff(outage)
  BY DEF Inv, AlertsInv
<1>2. outage' \in OutageType /\ NotPutOff(outage') /\ outage'.sending = outage.sending
  BY <1>1 DEF TimePasses, NextAlertComes, StaysDown, StaysUp, OutageType, NotPutOff
<1> QED
  BY <1>2, OutageAlone DEF TimePasses

---------------------------------------------------------------------------
\* The steps of the queues

LEMMA AnswerKeepsType ==
    ASSUME NEW o \in OutageType, NotPutOff(o), NEW ok \in BOOLEAN, NEW lost \in BOOLEAN
    PROVE  /\ Answering(o, ok, lost) \in OutageType /\ NotPutOff(Answering(o, ok, lost))
           /\ ~Answering(o, ok, lost).sending
BY DEF Answering, OutageType, NotPutOff

\* There is one alert that is waited for at most.
LEMMA CurrentIsOne ==
    ASSUME NEW q \in QueueType, Worked(q), NEW b \in BOOLEAN, OneCurrent(q, b)
    PROVE  /\ \A x, y \in CurrentOf(q) : x = y
           /\ b <=> CurrentOf(q) # {}
           /\ \A x \in CurrentOf(q) : x.lost \in BOOLEAN
<1>1. q.pending \in Seq(Delivery) /\ q.posting \subseteq Delivery
  BY DEF QueueType
<1>2. \A x \in Range(q.pending) : \E i \in DOMAIN q.pending : q.pending[i] = x
  BY DEF Range
<1>3. \A i \in DOMAIN q.pending : q.pending[i] \in Range(q.pending) /\ q.pending[i] \in Delivery
  BY <1>1 DEF Range
<1>4. \A x, y \in q.posting : x = y
  BY DEF Worked
<1>5. \A x, y \in CurrentOf(q) : x = y
  <2> SUFFICES ASSUME NEW x \in CurrentOf(q), NEW y \in CurrentOf(q) PROVE x = y
    OBVIOUS
  <2>1. CASE x \in q.posting
    BY <1>2, <1>4, <2>1 DEF CurrentOf, OneCurrent
  <2>2. CASE y \in q.posting
    BY <1>2, <1>4, <2>2 DEF CurrentOf, OneCurrent
  <2>3. CASE x \in Range(q.pending) /\ y \in Range(q.pending)
    BY <1>2, <2>3 DEF CurrentOf, OneCurrent
  <2> QED
    BY <2>1, <2>2, <2>3 DEF CurrentOf
<1>6. b <=> CurrentOf(q) # {}
  <2>1. CurrentOf(q) # {} <=> (\/ \E d \in q.posting : IsCurrent(d)
                               \/ \E i \in DOMAIN q.pending : IsCurrent(q.pending[i]))
    BY <1>2, <1>3 DEF CurrentOf
  <2> QED
    BY <2>1 DEF OneCurrent
<1>7. ASSUME NEW x \in CurrentOf(q) PROVE x.lost \in BOOLEAN
  <2>1. x \in Delivery /\ x.kind = "alert"
    BY <1>1, <1>2, <1>3 DEF CurrentOf, IsCurrent
  <2> QED
    BY <2>1 DEF Delivery, AlertDelivery
<1> QED
  BY <1>5, <1>6, <1>7

\* Of the queues, that of the alerts has the alert that is waited for.
LEMMA AwaitedIs ==
    ASSUME NEW qs \in [Url -> QueueType], \A u \in Url : u # AlertUrl => CurrentOf(qs[u]) = {}
    PROVE  Awaited(qs) = CurrentOf(qs[AlertUrl])
<1>1. \A d : d \in Awaited(qs) <=> \E u \in Url : d \in CurrentOf(qs[u])
  BY DEF Awaited, CurrentOf, IsCurrent
<1>2. AlertUrl \in Url
  BY AlertAssumption
<1> QED
  BY <1>1, <1>2

LEMMA ForwardKeeps ==
    ASSUME Inv, ForwardBesideAlerts PROVE QueuesInv' /\ AlertsInv' /\ InOrderStep
<1> DEFINE e == seen + 1
           f == Forwarded(e)
<1>1. /\ seen' = e /\ e \in Event /\ e \in Nat /\ e \in 0 .. LastEvent /\ seen \in Nat /\ seen < e /\ Observe
      /\ queue' = [u \in Url |-> Repeated(queue[u], f, Deliveries(e, u))]
  BY ForwarderAssumption DEF ForwardBesideAlerts, Forward, Inv, QueuesInv, Event
<1>2. f \in Delivery /\ IsEvent(f) /\ f.event = e /\ ~IsCurrent(f)
  BY <1>1, DeliveriesAre DEF IsCurrent, Forwarded
<1> HIDE DEF f, e
<1>3. ASSUME NEW u \in Url
      PROVE  /\ queue[u] \in QueueType /\ Worked(queue[u]) /\ latest[u] \in Nat
             /\ OrderOf(queue[u], latest[u], seen)
             /\ Grown(queue[u], Repeated(queue[u], f, Deliveries(e, u)), f)
  <2>1. Deliveries(e, u) \in Nat
    BY DeliveriesCount DEF Deliveries, Inv, ConfigInv
  <2>2. queue[u] \in QueueType /\ Worked(queue[u]) /\ latest[u] \in Nat
        /\ OrderOf(queue[u], latest[u], seen)
    BY DEF Inv, QueuesInv
  <2>3. Grown(queue[u], Repeated(queue[u], f, Deliveries(e, u)), f)
    BY <1>2, <2>1, <2>2, RepeatedGrows
  <2> QED
    BY <2>2, <2>3
<1>4. queue' \in [Url -> QueueType] /\ \A u \in Url : Grown(queue[u], queue'[u], f)
  BY <1>1, <1>3 DEF Grown
<1>5. ASSUME NEW u \in Url PROVE InTurn(queue[u], queue'[u], latest[u], e)
  BY <1>1, <1>2, <1>3, <1>4, GrownInOrder
<1>6. QueuesInv' /\ InOrderStep
  <2>1. QueuesInv
    BY DEF Inv
  <2> QED
    BY <1>1, <1>4, <1>5, <2>1, TurnsKeep
<1> DEFINE b(u) == u = AlertUrl /\ outage.sending
<1>7. outage \in OutageType /\ NotPutOff(outage) /\ \A u \in Url : OneCurrent(queue[u], b(u)) /\ b(u) \in BOOLEAN
  BY DEF Inv, AlertsInv, OutageType
<1>8. ASSUME NEW u \in Url
      PROVE  /\ OneCurrent(queue'[u], b(u)) \/ OneCurrent(queue'[u], FALSE)
             /\ CurrentOf(queue'[u]) \subseteq CurrentOf(queue[u])
             /\ queue'[u] \in QueueType /\ Worked(queue'[u])
  <2>1. queue[u] \in QueueType /\ Worked(queue[u]) /\ Grown(queue[u], queue'[u], f)
    BY <1>3, <1>4
  <2>2. OneCurrent(queue[u], b(u)) /\ b(u) \in BOOLEAN
    BY <1>7
  <2> HIDE DEF b
  <2>3. /\ OneCurrent(queue'[u], b(u)) \/ OneCurrent(queue'[u], FALSE)
        /\ CurrentOf(queue'[u]) \subseteq CurrentOf(queue[u])
    BY <1>2, <2>1, <2>2, NoMoreCurrent
  <2> QED
    BY <1>2, <2>1, <2>3, GrownIsWorked
<1>9. \A u \in Url : u # AlertUrl => OneCurrent(queue'[u], FALSE) /\ CurrentOf(queue[u]) = {} /\ CurrentOf(queue'[u]) = {}
  <2> SUFFICES ASSUME NEW u \in Url, u # AlertUrl
               PROVE  OneCurrent(queue'[u], FALSE) /\ CurrentOf(queue[u]) = {} /\ CurrentOf(queue'[u]) = {}
    OBVIOUS
  <2>1. b(u) = FALSE
    OBVIOUS
  <2>2. OneCurrent(queue'[u], FALSE)
    BY <1>8, <2>1
  <2>3. OneCurrent(queue[u], FALSE)
    BY <1>7, <2>1
  <2>4. CurrentOf(queue[u]) = {}
    BY <1>3, <2>3, CurrentIsOne
  <2> QED
    BY <1>8, <2>2, <2>4
<1> DEFINE q == queue[AlertUrl]
           p == queue'[AlertUrl]
           dropped == Awaited(queue) \ Awaited(queue')
<1>10. AlertUrl \in Url
  BY AlertAssumption
<1>11. dropped = CurrentOf(q) \ CurrentOf(p)
  <2>1. queue \in [Url -> QueueType]
    BY DEF Inv, QueuesInv
  <2>2. Awaited(queue) = CurrentOf(q)
    BY <1>9, <2>1, AwaitedIs
  <2>3. Awaited(queue') = CurrentOf(p)
    BY <1>4, <1>9, AwaitedIs
  <2> QED
    BY <2>2, <2>3
<1>12. outage' = IF dropped = {} THEN outage ELSE Answering(outage, FALSE, (CHOOSE d \in dropped : TRUE).lost)
  BY DEF ForwardBesideAlerts
<1>13. b(AlertUrl) = outage.sending /\ outage.sending \in BOOLEAN
  BY <1>7 DEF OutageType
<1>14. /\ OneCurrent(q, outage.sending)
       /\ OneCurrent(p, outage.sending) \/ OneCurrent(p, FALSE)
       /\ CurrentOf(p) \subseteq CurrentOf(q)
       /\ q \in QueueType /\ Worked(q) /\ p \in QueueType /\ Worked(p)
  <2>1. OneCurrent(q, outage.sending)
    BY <1>7, <1>10, <1>13
  <2>2. OneCurrent(p, outage.sending) \/ OneCurrent(p, FALSE)
    BY <1>8, <1>10, <1>13
  <2> QED
    BY <1>3, <1>8, <1>10, <2>1, <2>2
<1> HIDE DEF dropped, b, q, p
<1>15. /\ \A x, y \in CurrentOf(q) : x = y
       /\ outage.sending <=> CurrentOf(q) # {}
       /\ \A x \in CurrentOf(q) : x.lost \in BOOLEAN
  BY <1>13, <1>14, CurrentIsOne
<1>16. CASE dropped = {}
  <2>1. outage' = outage
    BY <1>12, <1>16
  <2>2. OneCurrent(p, outage.sending)
    <3>1. CASE OneCurrent(p, FALSE)
      <4>1. CurrentOf(p) = {}
        BY <1>14, <3>1, CurrentIsOne
      <4>2. outage.sending = FALSE
        BY <1>11, <1>13, <1>15, <1>16, <4>1
      <4> QED
        BY <3>1, <4>2
    <3> QED
      BY <1>14, <3>1
  <2>3. ASSUME NEW u \in Url PROVE OneCurrent(queue'[u], u = AlertUrl /\ outage.sending)
    <3>1. CASE u = AlertUrl
      <4>1. (u = AlertUrl /\ outage.sending) = outage.sending
        BY <1>13, <3>1
      <4> QED
        BY <2>2, <3>1, <4>1 DEF p
    <3>2. CASE u # AlertUrl
      <4>1. (u = AlertUrl /\ outage.sending) = FALSE
        BY <3>2
      <4> QED
        BY <1>9, <3>2, <4>1
    <3> QED
      BY <3>1, <3>2
  <2> QED
    BY <1>6, <1>7, <2>1, <2>3 DEF AlertsInv
<1>17. CASE dropped # {}
  <2>1. (CHOOSE d \in dropped : TRUE) \in CurrentOf(q)
    BY <1>11, <1>17
  <2>2. (CHOOSE d \in dropped : TRUE).lost \in BOOLEAN
    BY <1>15, <2>1
  <2>3. outage' \in OutageType /\ NotPutOff(outage') /\ ~outage'.sending
    BY <1>7, <1>12, <1>17, <2>2, AnswerKeepsType
  <2>4. OneCurrent(p, FALSE)
    <3>1. CurrentOf(p) = {}
      BY <1>11, <1>14, <1>15, <1>17
    <3>2. OneCurrent(p, outage.sending) => outage.sending = FALSE
      BY <1>13, <1>14, <3>1, CurrentIsOne
    <3> QED
      BY <1>14, <3>2
  <2>5. \A u \in Url : OneCurrent(queue'[u], FALSE)
    BY <1>9, <2>4 DEF p
  <2>6. \A u \in Url : (u = AlertUrl /\ outage'.sending) = FALSE
    BY <2>3
  <2>7. AlertsInv'
    BY <2>3, <2>5, <2>6 DEF AlertsInv
  <2> QED
    BY <1>6, <2>7
<1> QED
  BY <1>16, <1>17

LEMMA AnswerKeeps ==
    ASSUME Inv, NEW v \in Url, NEW d \in queue[v].posting, NEW ok \in BOOLEAN, AnsweredAlert(v, d, ok)
    PROVE  QueuesInv' /\ AlertsInv' /\ InOrderStep
<1>1. /\ queue' = [queue EXCEPT ![v] = Taken(queue[v], d)]
      /\ Observe /\ seen' = seen /\ Settle(d, ok)
  BY DEF AnsweredAlert, Answered
<1>2. queue \in [Url -> QueueType] /\ seen \in Nat /\ seen \in 0 .. LastEvent
      /\ \A u \in Url : Worked(queue[u]) /\ OrderOf(queue[u], latest[u], seen) /\ latest[u] \in Nat
                        /\ queue[u] \in QueueType
  BY ForwarderAssumption DEF Inv, QueuesInv
<1>3. Taken(queue[v], d) \in QueueType /\ queue[v].posting = {d} /\ d \in Delivery
  <2>1. queue[v].posting \subseteq Delivery
    BY <1>2 DEF QueueType
  <2> QED
    BY <1>2, <2>1, TakenIs
<1>4. queue' \in [Url -> QueueType] /\ queue'[v] = Taken(queue[v], d)
      /\ \A u \in Url : u # v => queue'[u] = queue[u]
  BY <1>1, <1>2, <1>3
<1>5. ASSUME NEW u \in Url PROVE InTurn(queue[u], queue'[u], latest[u], seen)
  <2>1. CASE u = v
    BY <1>2, <1>4, <2>1, TakenInOrder
  <2>2. CASE u # v
    <3>1. QuietTurn(queue[u], queue[u], latest[u], seen)
      BY <1>2 DEF QuietTurn
    <3> QED
      BY <1>2, <1>4, <2>2, <3>1, QuietIsInTurn
  <2> QED
    BY <2>1, <2>2
<1>6. QueuesInv' /\ InOrderStep
  <2>1. QueuesInv /\ seen' \in 0 .. LastEvent
    BY <1>1, <1>2 DEF Inv
  <2> QED
    BY <1>1, <1>4, <1>5, <2>1, TurnsKeep
<1> DEFINE b(u) == u = AlertUrl /\ outage.sending
<1>7. outage \in OutageType /\ NotPutOff(outage)
      /\ \A u \in Url : OneCurrent(queue[u], b(u)) /\ b(u) \in BOOLEAN
  BY DEF Inv, AlertsInv, OutageType
<1>8. OneCurrent(queue'[v], b(v) /\ ~IsCurrent(d))
  <2>1. queue[v] \in QueueType /\ Worked(queue[v]) /\ b(v) \in BOOLEAN /\ OneCurrent(queue[v], b(v))
    BY <1>2, <1>7
  <2> HIDE DEF b
  <2>2. OneCurrent(Taken(queue[v], d), b(v) /\ ~IsCurrent(d))
    BY <2>1, TakenCurrent
  <2> QED
    BY <1>4, <2>2
<1>9. CASE ~IsCurrent(d)
  <2>1. outage' = outage
    BY <1>1, <1>9 DEF Settle, IsCurrent
  <2>2. OneCurrent(queue'[v], b(v))
    <3>1. (b(v) /\ ~IsCurrent(d)) = b(v)
      BY <1>7, <1>9
    <3> HIDE DEF b
    <3> QED
      BY <1>8, <3>1
  <2>3. \A u \in Url : OneCurrent(queue'[u], b(u))
    BY <1>4, <1>7, <2>2
  <2> QED
    BY <1>6, <1>7, <2>1, <2>3 DEF AlertsInv
<1>10. CASE IsCurrent(d)
  <2>1. b(v)
    BY <1>3, <1>7, <1>10 DEF OneCurrent
  <2>2. d.lost \in BOOLEAN /\ outage' = Answering(outage, ok, d.lost)
    <3>1. d.kind = "alert" /\ d.of = "current"
      BY <1>10 DEF IsCurrent
    <3>2. d.lost \in BOOLEAN
      BY <1>3, <3>1 DEF Delivery, AlertDelivery
    <3> QED
      BY <1>1, <3>1, <3>2 DEF Settle
  <2>3. outage' \in OutageType /\ NotPutOff(outage') /\ ~outage'.sending
    BY <1>7, <2>2, AnswerKeepsType
  <2>4. \A u \in Url : OneCurrent(queue'[u], FALSE)
    <3>1. (b(v) /\ ~IsCurrent(d)) = FALSE
      BY <1>10
    <3>2. \A u \in Url : u # v => b(u) = FALSE
      BY <2>1
    <3> HIDE DEF b
    <3>3. OneCurrent(queue'[v], FALSE)
      BY <1>8, <3>1
    <3>4. \A u \in Url : u # v => OneCurrent(queue'[u], FALSE)
      BY <1>4, <1>7, <3>2
    <3> QED
      BY <3>3, <3>4
  <2>5. \A u \in Url : (u = AlertUrl /\ outage'.sending) = FALSE
    BY <2>3
  <2> QED
    BY <1>6, <2>3, <2>4, <2>5 DEF AlertsInv
<1> QED
  BY <1>9, <1>10

LEMMA NoQueueIs ==
    /\ NoQueue \in QueueType /\ Worked(NoQueue) /\ OneCurrent(NoQueue, FALSE)
    /\ \A l, n \in Nat : l <= n => OrderOf(NoQueue, l, n)
BY DEF NoQueue, QueueType, Worked, OneCurrent, OrderOf

LEMMA AlertRestartKeeps ==
    ASSUME Inv, AlertRestart PROVE QueuesInv' /\ AlertsInv' /\ InOrderStep
<1>1. /\ queue' = [u \in Url |-> NoQueue] /\ seen' = seen /\ latest' = latest
      /\ outage' = NoOutage
  BY DEF AlertRestart, ForwarderRestart
<1>2. /\ latest \in [Url -> Nat] /\ seen \in 0 .. LastEvent /\ seen \in Nat
      /\ \A u \in Url : latest[u] <= seen /\ latest[u] \in Nat
  BY ForwarderAssumption DEF Inv, QueuesInv, OrderOf
<1>3. queue' \in [Url -> QueueType] /\ \A u \in Url : queue'[u] = NoQueue
  BY <1>1, NoQueueIs
<1>4. QueuesInv'
  BY <1>1, <1>2, <1>3, NoQueueIs DEF QueuesInv
<1>5. \A u \in Url : (u = AlertUrl /\ NoOutage.sending) = FALSE
  BY NoOutages
<1>6. AlertsInv'
  BY <1>1, <1>3, <1>5, NoOutages, NoQueueIs DEF AlertsInv
<1>7. InOrderStep
  <2>1. NoQueue.posting = {} /\ ~NoQueue.there
    BY DEF NoQueue
  <2> QED
    BY <1>3, <2>1, FS_EmptySet DEF InOrderStep
<1> QED
  BY <1>4, <1>6, <1>7

\* A step that leaves the queues and the outage alone.
LEMMA NothingKeeps ==
    ASSUME Inv, UNCHANGED <<queue, seen, latest, outage>>
    PROVE  QueuesInv' /\ AlertsInv' /\ InOrderStep
<1>1. QueuesInv' /\ AlertsInv'
  BY DEF Inv, QueuesInv, AlertsInv
<1>2. InOrderStep
  BY OnePosting DEF InOrderStep, Inv, QueuesInv
<1> QED
  BY <1>1, <1>2

LEMMA AlertStepKeeps ==
    ASSUME Inv, AlertStep PROVE QueuesInv' /\ AlertsInv' /\ InOrderStep
<1>1. CASE ConnectionUpdate /\ Quiet
  BY <1>1, UpdateOfConnectionKeeps, QuietKeeps DEF Quiet, Inv
<1>2. CASE Tick /\ Quiet
  BY <1>2, TickKeeps, QuietKeeps DEF Quiet, Inv
<1>3. CASE TimePasses /\ Quiet
  BY <1>3, TimeKeeps, QuietKeeps DEF Quiet, Inv
<1>4. CASE ForwardBesideAlerts /\ UNCHANGED <<account, configVars>>
  BY <1>4, ForwardKeeps
<1>5. CASE \E u \in Url : AnyAnswer(u)
  BY <1>5, AnswerKeeps DEF AnyAnswer
<1>6. CASE AccountChanges /\ UNCHANGED <<configVars, seen, latest>>
  BY <1>6, NothingKeeps DEF AccountChanges
<1> QED
  BY <1>1, <1>2, <1>3, <1>4, <1>5, <1>6 DEF AlertStep

LEMMA InvHolds ==
    ASSUME TogetherInit PROVE Inv
<1>1. ConfigInv
  BY ConfigInitHolds DEF TogetherInit
<1>2. QueuesInv
  BY NoQueueIs, ForwarderAssumption DEF TogetherInit, ForwarderInit, QueuesInv
<1>3. outage = NoOutage /\ \A u \in Url : queue[u] = NoQueue
  BY DEF TogetherInit, ForwarderInit, AlertInit
<1>4. \A u \in Url : (u = AlertUrl /\ NoOutage.sending) = FALSE
  BY NoOutages
<1>5. AlertsInv
  BY <1>3, <1>4, NoOutages, NoQueueIs DEF AlertsInv
<1> QED
  BY <1>1, <1>2, <1>5 DEF Inv

LEMMA InvKept ==
    ASSUME Inv, [TogetherNext]_togetherVars PROVE Inv' /\ InOrderStep
<1>1. CASE UNCHANGED togetherVars
  <2>1. QueuesInv' /\ AlertsInv' /\ InOrderStep
    BY <1>1, NothingKeeps DEF togetherVars, forwarderVars, alertVars
  <2>2. ConfigInv'
    BY <1>1 DEF togetherVars, configVars, Inv, ConfigInv, ConfigType, SavedOrBeing, Busy
  <2> QED
    BY <2>1, <2>2 DEF Inv
<1>2. CASE ConfigStep /\ UNCHANGED <<forwarderVars, alertVars>>
  <2>1. QueuesInv' /\ AlertsInv' /\ InOrderStep
    BY <1>2, NothingKeeps DEF forwarderVars, alertVars
  <2>2. ConfigInv'
    BY <1>2, ConfigStepKeeps DEF Inv
  <2> QED
    BY <2>1, <2>2 DEF Inv
<1>3. CASE AlertStep
  <2>1. QueuesInv' /\ AlertsInv' /\ InOrderStep
    BY <1>3, AlertStepKeeps
  <2>2. UNCHANGED configVars
    BY <1>3 DEF AlertStep, Quiet, AnyAnswer, AnsweredAlert
  <2>3. ConfigInv'
    BY <2>2 DEF configVars, Inv, ConfigInv, ConfigType, SavedOrBeing, Busy
  <2> QED
    BY <2>1, <2>3 DEF Inv
<1>4. CASE ConfigRestart /\ AlertRestart
  <2>1. QueuesInv' /\ AlertsInv' /\ InOrderStep
    BY <1>4, AlertRestartKeeps
  <2>2. ConfigInv'
    BY <1>4, ConfigRestartKeeps DEF Inv
  <2> QED
    BY <2>1, <2>2 DEF Inv
<1> QED
  BY <1>1, <1>2, <1>3, <1>4 DEF TogetherNext

---------------------------------------------------------------------------
\* Theorems about the queues

\* A destination sees the events one at a time and in the order of the bus, whatever was
\* dropped, failed or lost with a restart in between, however its webhooks changed meanwhile;
\* and no delivery waits in a queue that no worker empties. (enqueue, deliverAll, post.)
THEOREM EventsInOrder == Together => InOrder
<1>1. TogetherInit => Inv
  BY InvHolds
<1>2. Inv /\ [TogetherNext]_togetherVars => Inv'
  BY InvKept
<1>3. Inv /\ [TogetherNext]_togetherVars => [InOrderStep]_<<configVars, forwarderVars>>
  BY InvKept
<1>4. Together => [][InOrderStep]_<<configVars, forwarderVars>>
  BY <1>1, <1>2, <1>3, PTL DEF Together
<1> QED
  BY <1>4 DEF InOrder, InOrderStep

LEMMA AlertsKeptUp == Inv => AlertsKeepUp
<1> SUFFICES ASSUME Inv PROVE AlertsKeepUp
  OBVIOUS
<1> DEFINE q == queue[AlertUrl]
           waiting == {i \in DOMAIN q.pending : q.pending[i] \in Awaited(queue)}
           posting == q.posting \intersect Awaited(queue)
<1>1. AlertUrl \in Url /\ queue \in [Url -> QueueType]
  BY AlertAssumption DEF Inv, QueuesInv
<1>2. q \in QueueType /\ Worked(q) /\ OneCurrent(q, outage.sending) /\ outage.sending \in BOOLEAN
  <2>1. outage.sending \in BOOLEAN
    BY DEF Inv, AlertsInv, OutageType
  <2>2. (AlertUrl = AlertUrl /\ outage.sending) = outage.sending
    BY <2>1
  <2>3. OneCurrent(q, AlertUrl = AlertUrl /\ outage.sending)
    BY <1>1 DEF Inv, AlertsInv
  <2> QED
    BY <1>1, <2>1, <2>2, <2>3 DEF Inv, QueuesInv
<1>3. Awaited(queue) = CurrentOf(q)
  <2>1. ASSUME NEW u \in Url, u # AlertUrl PROVE CurrentOf(queue[u]) = {}
    <3>1. (u = AlertUrl /\ outage.sending) = FALSE
      BY <2>1
    <3>2. OneCurrent(queue[u], FALSE)
      BY <3>1 DEF Inv, AlertsInv
    <3> QED
      BY <1>1, <3>2, CurrentIsOne DEF Inv, QueuesInv
  <2> QED
    BY <1>1, <2>1, AwaitedIs
<1>4. waiting = {i \in DOMAIN q.pending : IsCurrent(q.pending[i])}
      /\ posting = {d \in q.posting : IsCurrent(d)}
  BY <1>3 DEF CurrentOf, Range
<1> HIDE DEF q, waiting, posting
<1>5. Cardinality(waiting) + Cardinality(posting) = IF outage.sending THEN 1 ELSE 0
  <2>1. Cardinality({}) = 0
    BY FS_EmptySet
  <2>2. CASE ~outage.sending
    <3>1. waiting = {} /\ posting = {}
      BY <1>2, <1>4, <2>2 DEF OneCurrent
    <3> QED
      BY <2>1, <2>2, <3>1
  <2>3. CASE outage.sending /\ posting # {}
    <3>1. waiting = {}
      BY <1>2, <1>4, <2>3 DEF OneCurrent
    <3>2. PICK d : posting = {d}
      BY <1>2, <1>4, <2>3 DEF Worked
    <3>3. Cardinality({d}) = 1
      BY FS_Singleton
    <3> QED
      BY <2>1, <2>3, <3>1, <3>2, <3>3
  <2>4. CASE outage.sending /\ posting = {}
    <3>1. PICK i : waiting = {i}
      <4>1. PICK i \in DOMAIN q.pending : IsCurrent(q.pending[i])
        BY <1>2, <1>4, <2>4 DEF OneCurrent
      <4>2. \A j \in waiting : j = i
        BY <1>2, <1>4, <4>1 DEF OneCurrent
      <4> QED
        BY <1>4, <4>1, <4>2
    <3>2. Cardinality({i}) = 1
      BY FS_Singleton
    <3> QED
      BY <2>1, <2>4, <3>1, <3>2
  <2> QED
    BY <2>2, <2>3, <2>4
<1>6. outage.is /\ outage.lost /\ ~outage.told /\ ~outage.sending => outage.next # "repeat"
  BY DEF Inv, AlertsInv, NotPutOff
<1> QED
  BY <1>5, <1>6 DEF AlertsKeepUp, waiting, posting, q

\* The alert an outage waits for is under way, once, and only while the outage waits: no full
\* queue, restart, end of the outage or change of the account loses it or leaves a second one.
\* And an alert about a lost session is not put off because another one, about the drop before
\* it, was delivered. (sending, onSettled, onSessionLost, alertIfDue.)
THEOREM AlertsAreKept == Together => []AlertsKeepUp
<1>1. TogetherInit => Inv
  BY InvHolds
<1>2. Inv /\ [TogetherNext]_togetherVars => Inv'
  BY InvKept
<1>3. Inv => AlertsKeepUp
  BY AlertsKeptUp
<1> QED
  BY <1>1, <1>2, <1>3, PTL DEF Together

---------------------------------------------------------------------------
(***************************************************************************)
(* Proofs about LiveStream, for any number of connections, accounts,       *)
(* frames on their way and faults, in Node or in a browser.                *)
(***************************************************************************)

ClientType ==
    [ws : Socket \union {NoSocket}, timer : BOOLEAN, watchdog : BOOLEAN, pings : BOOLEAN,
     subscriptions : SUBSET Account, asked : {"apart", "connected", "refused"}, behind : BOOLEAN]

SocketType ==
    [state : {"none", "connecting", "open", "closing"}, accounts : SUBSET Account, silent : BOOLEAN]

ServerType == [in : BOOLEAN, filter : SUBSET Account, alive : BOOLEAN]

\* What the client sends.
FrameType == [action : {"subscribe", "unsubscribe"}, accounts : SUBSET Account]

LiveType ==
    /\ client \in ClientType
    /\ socket \in [Socket -> SocketType]
    /\ server \in [Socket -> ServerType]
    /\ up \in [Socket -> Seq(FrameType)]

\* A filter becomes these subscriptions when the frames have been heard, one after the other.
Becomes(filter, frames, subscriptions) ==
    \E g \in [0 .. Len(frames) -> SUBSET Account] :
        /\ g[0] = filter /\ g[Len(frames)] = subscriptions
        /\ \A i \in DOMAIN frames : g[i] = Filtered(g[i - 1], frames[i])

\* A connection that is being made asks for what the client wants, and nothing is on its way
\* before it is open; then what the server has and what is on its way make what the client wants.
FiltersFollow ==
    /\ \A s \in Socket : socket[s].state \in {"none", "connecting"} => up[s] = <<>>
    /\ \A s \in Socket : socket[s].state = "connecting" => socket[s].accounts = client.subscriptions
    /\ \A s \in Socket : (s = client.ws /\ socket[s].state = "open" /\ server[s].in) =>
           Becomes(server[s].filter, up[s], client.subscriptions)

LiveInv == LiveType /\ OneConnection /\ FiltersFollow

---------------------------------------------------------------------------
\* Frames and what they make of a filter

LEMMA FilteredType ==
    \A f \in SUBSET Account, frame \in FrameType : Filtered(f, frame) \in SUBSET Account
BY DEF Filtered, FrameType

LEMMA NothingToHear ==
    ASSUME NEW f \in SUBSET Account, NEW t
    PROVE  Becomes(f, <<>>, t) <=> f = t
<1>1. Becomes(f, <<>>, t) => f = t
  BY DEF Becomes
<1>2. ASSUME f = t PROVE Becomes(f, <<>>, t)
  <2> DEFINE g == [i \in 0 .. Len(<<>>) |-> f]
  <2>1. g \in [0 .. Len(<<>>) -> SUBSET Account] /\ g[0] = f /\ g[Len(<<>>)] = t
    BY <1>2
  <2>2. DOMAIN <<>> = {}
    OBVIOUS
  <2> HIDE DEF g
  <2> QED
    BY <2>1, <2>2 DEF Becomes
<1> QED
  BY <1>1, <1>2

\* One more frame on its way.
LEMMA OneMoreFrame ==
    ASSUME NEW f, NEW frames \in Seq(FrameType), NEW t, Becomes(f, frames, t), NEW frame \in FrameType
    PROVE  Becomes(f, Append(frames, frame), Filtered(t, frame))
<1> DEFINE n == Len(frames)
           more == Append(frames, frame)
<1>1. PICK g \in [0 .. n -> SUBSET Account] :
          /\ g[0] = f /\ g[n] = t
          /\ \A i \in DOMAIN frames : g[i] = Filtered(g[i - 1], frames[i])
  BY DEF Becomes
<1>2. /\ n \in Nat /\ Len(more) = n + 1 /\ DOMAIN frames = 1 .. n /\ DOMAIN more = 1 .. n + 1
      /\ more[n + 1] = frame /\ \A i \in 1 .. n : more[i] = frames[i]
  OBVIOUS
<1> HIDE DEF n, more
<1> DEFINE h == [i \in 0 .. n + 1 |-> IF i = n + 1 THEN Filtered(t, frame) ELSE g[i]]
<1>3. t \in SUBSET Account
  BY <1>1, <1>2
<1>4. h \in [0 .. n + 1 -> SUBSET Account]
  BY <1>1, <1>2, <1>3, FilteredType
<1>5. h[0] = f /\ h[n + 1] = Filtered(t, frame) /\ \A i \in 0 .. n : h[i] = g[i]
  BY <1>1, <1>2
<1> HIDE DEF h
<1>6. ASSUME NEW i \in 1 .. n + 1 PROVE h[i] = Filtered(h[i - 1], more[i])
  <2>1. CASE i = n + 1
    BY <1>1, <1>2, <1>5, <2>1
  <2>2. CASE i \in 1 .. n
    <3>1. i \in 0 .. n /\ i - 1 \in 0 .. n
      BY <1>2, <2>2
    <3> QED
      BY <1>1, <1>2, <1>5, <2>2, <3>1
  <2> QED
    BY <1>2, <2>1, <2>2
<1> QED
  BY <1>2, <1>4, <1>5, <1>6 DEF Becomes, more

\* The first frame is heard.
LEMMA FirstFrame ==
    ASSUME NEW f, NEW frames \in Seq(FrameType), frames # <<>>, NEW t, Becomes(f, frames, t)
    PROVE  Becomes(Filtered(f, Head(frames)), Tail(frames), t)
<1> DEFINE n == Len(frames)
           rest == Tail(frames)
<1>1. PICK g \in [0 .. n -> SUBSET Account] :
          /\ g[0] = f /\ g[n] = t
          /\ \A i \in DOMAIN frames : g[i] = Filtered(g[i - 1], frames[i])
  BY DEF Becomes
<1>2. /\ n \in Nat /\ n >= 1 /\ Len(rest) = n - 1 /\ DOMAIN frames = 1 .. n /\ DOMAIN rest = 1 .. n - 1
      /\ Head(frames) = frames[1] /\ \A i \in 1 .. n - 1 : rest[i] = frames[i + 1]
  OBVIOUS
<1> HIDE DEF n, rest
<1> DEFINE h == [i \in 0 .. n - 1 |-> g[i + 1]]
<1>3. /\ h \in [0 .. n - 1 -> SUBSET Account]
      /\ \A i \in 0 .. n - 1 : h[i] = g[i + 1] /\ i + 1 \in DOMAIN frames
  BY <1>1, <1>2
<1> HIDE DEF h
<1>4. h[0] = Filtered(f, Head(frames)) /\ h[n - 1] = t
  <2>1. 0 \in 0 .. n - 1 /\ n - 1 \in 0 .. n - 1 /\ 0 + 1 = 1 /\ (n - 1) + 1 = n /\ 1 - 1 = 0
    BY <1>2
  <2>2. h[0] = g[1] /\ h[n - 1] = g[n] /\ 1 \in DOMAIN frames
    BY <1>3, <2>1
  <2> QED
    BY <1>1, <1>2, <2>1, <2>2
<1>5. ASSUME NEW i \in 1 .. n - 1 PROVE h[i] = Filtered(h[i - 1], rest[i])
  <2>1. i \in 0 .. n - 1 /\ i - 1 \in 0 .. n - 1 /\ (i - 1) + 1 = i /\ (i + 1) - 1 = i
    BY <1>2
  <2>2. h[i] = g[i + 1] /\ h[i - 1] = g[i] /\ i + 1 \in DOMAIN frames
    BY <1>3, <2>1
  <2>3. g[i + 1] = Filtered(g[(i + 1) - 1], frames[i + 1])
    BY <1>1, <2>2
  <2> QED
    BY <1>2, <2>1, <2>2, <2>3
<1> QED
  BY <1>2, <1>3, <1>4, <1>5 DEF Becomes, rest

---------------------------------------------------------------------------
\* The steps of the client

LEMMA TypesOf ==
    ASSUME LiveInv, NEW s \in Socket
    PROVE  /\ client \in ClientType /\ client.ws \in Socket \union {NoSocket}
           /\ client.subscriptions \in SUBSET Account
           /\ socket[s] \in SocketType /\ socket[s].silent \in BOOLEAN
           /\ socket[s].state \in {"none", "connecting", "open", "closing"}
           /\ server[s] \in ServerType /\ server[s].filter \in SUBSET Account
           /\ up[s] \in Seq(FrameType)
BY DEF LiveInv, LiveType, ClientType, SocketType, ServerType

LEMMA UnusedTypes ==
    /\ Unused \in SocketType /\ Unused.state = "none" /\ Unused.accounts = {}
    /\ Absent \in ServerType /\ ~Absent.in
BY DEF Unused, Absent, SocketType, ServerType

\* A step of the client alone that leaves its connection and its subscriptions.
LEMMA ClientAlone ==
    ASSUME LiveInv, UNCHANGED <<socket, up, server>>, client' \in ClientType,
           client'.ws = client.ws, client'.subscriptions = client.subscriptions,
           client'.asked = client.asked, client'.timer => client.timer
    PROVE  LiveInv'
<1>1. LiveType'
  BY DEF LiveInv, LiveType
<1>2. OneConnection'
  BY DEF LiveInv, OneConnection
<1>3. FiltersFollow'
  BY DEF LiveInv, FiltersFollow
<1> QED
  BY <1>1, <1>2, <1>3 DEF LiveInv

LEMMA ConnectKeeps ==
    ASSUME LiveInv, NEW timer \in BOOLEAN, timer => client.timer, Connect(timer)
    PROVE  LiveInv'
<1>1. CASE client.ws # NoSocket
  <2>1. client' = [client EXCEPT !.timer = timer] /\ client \in ClientType
        /\ UNCHANGED <<socket, up, server>>
    BY <1>1 DEF Connect, LiveInv, LiveType
  <2>2. /\ client' \in ClientType /\ client'.ws = client.ws /\ client'.timer = timer
        /\ client'.subscriptions = client.subscriptions /\ client'.asked = client.asked
    BY <2>1 DEF ClientType
  <2> QED
    BY <2>1, <2>2, ClientAlone
<1>2. CASE client.ws = NoSocket
  <2>1. PICK s \in Socket :
            /\ socket[s].state = "none" /\ ~server[s].in
            /\ client' = [client EXCEPT !.ws = s, !.timer = timer, !.watchdog = client.pings, !.asked = "connected"]
            /\ socket' = [socket EXCEPT ![s] = [Unused EXCEPT !.state = "connecting", !.accounts = UrlAccounts]]
            /\ UNCHANGED <<up, server>>
    BY <1>2 DEF Connect
  <2>2. client \in ClientType /\ client.subscriptions \in SUBSET Account
    BY <2>1, TypesOf
  <2>3. /\ client' \in ClientType /\ client'.ws = s /\ client'.asked = "connected"
        /\ client'.subscriptions = client.subscriptions
    BY <2>1, <2>2 DEF ClientType
  <2> DEFINE new == [Unused EXCEPT !.state = "connecting", !.accounts = UrlAccounts]
  <2>4. new \in SocketType /\ new.state = "connecting" /\ new.accounts = client.subscriptions
    BY <2>2, UnusedTypes DEF SocketType, UrlAccounts
  <2>5. socket' = [socket EXCEPT ![s] = new]
    BY <2>1
  <2> HIDE DEF new
  <2>6. socket' \in [Socket -> SocketType] /\ socket'[s] = new
        /\ \A t \in Socket : t # s => socket'[t] = socket[t]
    BY <2>4, <2>5 DEF LiveInv, LiveType
  <2>7. \A t \in Socket : socket[t].state \notin {"connecting", "open"}
    BY <1>2, LiveAssumption DEF LiveInv, OneConnection
  <2>8. LiveType'
    BY <2>1, <2>3, <2>6 DEF LiveInv, LiveType
  <2>9. OneConnection'
    BY <2>3, <2>6, <2>7 DEF OneConnection
  <2>10. FiltersFollow'
    BY <2>1, <2>3, <2>4, <2>6, <2>7 DEF LiveInv, FiltersFollow
  <2> QED
    BY <2>8, <2>9, <2>10 DEF LiveInv
<1> QED
  BY <1>1, <1>2

\* A connection closes, or is gone, that is not the client's any more.
LEMMA LettingGo ==
    ASSUME LiveInv, client' \in ClientType, client'.ws = NoSocket,
           client'.subscriptions = client.subscriptions, client'.asked = "apart" => ~client'.timer,
           socket' \in [Socket -> SocketType], \A s \in Socket : socket'[s].state \notin {"connecting", "open"},
           up' \in [Socket -> Seq(FrameType)], \A s \in Socket : socket'[s].state = "none" => up'[s] = <<>>,
           UNCHANGED server
    PROVE  LiveInv'
<1>1. LiveType'
  BY DEF LiveInv, LiveType
<1>2. OneConnection'
  BY DEF OneConnection
<1>3. FiltersFollow'
  BY DEF FiltersFollow
<1> QED
  BY <1>1, <1>2, <1>3 DEF LiveInv

LEMMA DisconnectKeeps ==
    ASSUME LiveInv, CallDisconnect PROVE LiveInv'
<1>1. client' = [client EXCEPT !.ws = NoSocket, !.timer = FALSE, !.watchdog = FALSE, !.asked = "apart",
                               !.behind = FALSE]
      /\ client \in ClientType
  BY DEF CallDisconnect, LiveInv, LiveType
<1>2. /\ client' \in ClientType /\ client'.ws = NoSocket /\ ~client'.timer
      /\ client'.subscriptions = client.subscriptions
  BY <1>1 DEF ClientType
<1>3. socket' \in [Socket -> SocketType]
      /\ \A s \in Socket : /\ socket'[s].state \notin {"connecting", "open"}
                           /\ socket'[s].state = "none" => socket[s].state = "none"
  <2>1. CASE client.ws = NoSocket
    BY <2>1, LiveAssumption DEF CallDisconnect, LiveInv, LiveType, OneConnection
  <2>2. CASE client.ws # NoSocket
    <3>1. client.ws \in Socket
      BY <1>1, <2>2 DEF ClientType
    <3>2. socket[client.ws] \in SocketType
      BY <3>1 DEF LiveInv, LiveType
    <3> DEFINE r == [socket[client.ws] EXCEPT !.state = "closing"]
    <3>3. r \in SocketType /\ r.state = "closing"
      BY <3>2 DEF SocketType
    <3>4. socket' = [socket EXCEPT ![client.ws] = r]
      BY <2>2 DEF CallDisconnect
    <3> HIDE DEF r
    <3> QED
      BY <3>1, <3>3, <3>4 DEF LiveInv, LiveType, OneConnection
  <2> QED
    BY <2>1, <2>2
<1>4. UNCHANGED <<up, server>>
  BY DEF CallDisconnect
<1>5. /\ up' \in [Socket -> Seq(FrameType)]
      /\ \A s \in Socket : socket'[s].state = "none" => up'[s] = <<>>
  BY <1>3, <1>4 DEF LiveInv, LiveType, FiltersFollow
<1> QED
  BY <1>2, <1>3, <1>4, <1>5, LettingGo

\* subscribe() and unsubscribe(): the frame makes of the filter what the client wants now.
LEMMA FilterKeeps ==
    ASSUME LiveInv, NEW action \in {"subscribe", "unsubscribe"}, NEW accs \in SUBSET Account,
           NEW subs \in SUBSET Account, SendAction(action, accs, subs),
           subs = Filtered(client.subscriptions, [action |-> action, accounts |-> accs])
    PROVE  LiveInv'
<1> DEFINE frame == [action |-> action, accounts |-> accs]
           w == client.ws
<1>1. /\ w # NoSocket /\ socket[w].state = "open"
      /\ up' = [up EXCEPT ![w] = Append(up[w], frame)]
      /\ client' = [client EXCEPT !.subscriptions = subs]
      /\ UNCHANGED <<socket, server>>
  BY DEF SendAction, IsConnected
<1>2. w \in Socket /\ client \in ClientType
  BY <1>1 DEF LiveInv, LiveType, ClientType
<1>3. frame \in FrameType
  BY DEF FrameType
<1>4. client' \in ClientType /\ client'.ws = w /\ client'.subscriptions = subs
      /\ client'.asked = client.asked /\ client'.timer = client.timer
  BY <1>1, <1>2 DEF ClientType
<1>5. subs = Filtered(client.subscriptions, frame)
  OBVIOUS
<1> HIDE DEF frame
<1>6. up[w] \in Seq(FrameType)
  BY <1>2, TypesOf
<1>7. up' \in [Socket -> Seq(FrameType)] /\ up'[w] = Append(up[w], frame)
      /\ \A s \in Socket : s # w => up'[s] = up[s]
  BY <1>1, <1>2, <1>3, <1>6 DEF LiveInv, LiveType
<1>8. LiveType'
  BY <1>1, <1>4, <1>7 DEF LiveInv, LiveType
<1>9. OneConnection'
  BY <1>1, <1>4 DEF LiveInv, OneConnection
<1>10. \A s \in Socket : socket[s].state \in {"connecting", "open"} => s = w
  BY DEF LiveInv, OneConnection
<1>11. FiltersFollow'
  <2>1. \A s \in Socket : socket'[s].state \in {"none", "connecting"} => s # w /\ up'[s] = up[s]
    BY <1>1, <1>7
  <2>2. \A s \in Socket : socket'[s].state # "connecting"
    BY <1>1, <1>10
  <2>3. ASSUME server[w].in PROVE Becomes(server[w].filter, up'[w], subs)
    <3>1. Becomes(server[w].filter, up[w], client.subscriptions)
      BY <1>1, <1>2, <2>3 DEF LiveInv, FiltersFollow
    <3> QED
      BY <1>3, <1>5, <1>6, <1>7, <3>1, OneMoreFrame
  <2> QED
    BY <1>1, <1>4, <2>1, <2>2, <2>3 DEF LiveInv, FiltersFollow
<1> QED
  BY <1>8, <1>9, <1>11 DEF LiveInv

LEMMA SubscribeKeeps ==
    ASSUME LiveInv, NEW accs \in SUBSET Account, CallSubscribe(accs) \/ CallUnsubscribe(accs)
    PROVE  LiveInv'
<1>1. client.subscriptions \in SUBSET Account
  BY DEF LiveInv, LiveType, ClientType
<1>2. CASE CallSubscribe(accs)
  <2>1. accs = Filtered(client.subscriptions, [action |-> "subscribe", accounts |-> accs])
    BY DEF Filtered
  <2> QED
    BY <1>2, <2>1, FilterKeeps DEF CallSubscribe
<1>3. CASE CallUnsubscribe(accs)
  <2> DEFINE left == client.subscriptions \ accs
  <2>1. left = Filtered(client.subscriptions, [action |-> "unsubscribe", accounts |-> accs])
        /\ left \in SUBSET Account
    BY <1>1 DEF Filtered
  <2>2. SendAction("unsubscribe", accs, left)
    BY <1>3 DEF CallUnsubscribe
  <2> HIDE DEF left
  <2> QED
    BY <2>1, <2>2, FilterKeeps
<1> QED
  BY <1>2, <1>3

LEMMA WatchdogKeeps ==
    ASSUME LiveInv, WatchdogFires PROVE LiveInv'
<1> DEFINE w == client.ws
           r == [socket[w] EXCEPT !.state = "closing"]
<1>1. /\ client' = [client EXCEPT !.watchdog = FALSE] /\ socket' = [socket EXCEPT ![w] = r]
      /\ UNCHANGED <<up, server>> /\ w \in Socket /\ client \in ClientType
  BY DEF WatchdogFires, LiveInv, LiveType, ClientType
<1>2. /\ client' \in ClientType /\ client'.ws = w /\ client'.timer = client.timer
      /\ client'.subscriptions = client.subscriptions /\ client'.asked = client.asked
  BY <1>1 DEF ClientType
<1>3. r \in SocketType /\ r.state = "closing"
  <2>1. socket[w] \in SocketType
    BY <1>1, TypesOf
  <2> QED
    BY <2>1 DEF SocketType
<1> HIDE DEF r
<1>4. socket' \in [Socket -> SocketType] /\ socket'[w] = r /\ \A s \in Socket : s # w => socket'[s] = socket[s]
  BY <1>1, <1>3 DEF LiveInv, LiveType
<1>5. LiveType'
  BY <1>1, <1>2, <1>4 DEF LiveInv, LiveType
<1>6. OneConnection'
  BY <1>2, <1>3, <1>4 DEF LiveInv, OneConnection
<1>7. FiltersFollow'
  BY <1>1, <1>2, <1>3, <1>4 DEF LiveInv, FiltersFollow
<1> QED
  BY <1>5, <1>6, <1>7 DEF LiveInv

\* A connection is gone, whether it is still the client's or one it dropped.
LEMMA GoneKeeps ==
    ASSUME LiveInv, NEW s \in Socket, NEW refused \in BOOLEAN,
           client' = Closed(s, refused), Gone(s), UNCHANGED server
    PROVE  LiveInv'
<1> DEFINE r == [Unused EXCEPT !.silent = socket[s].silent]
<1>1. /\ socket' = [socket EXCEPT ![s] = r]
      /\ up' = [up EXCEPT ![s] = <<>>]
  BY DEF Gone
<1>2. r \in SocketType /\ r.state = "none"
  <2>1. socket[s].silent \in BOOLEAN
    BY TypesOf
  <2> QED
    BY <2>1, UnusedTypes DEF SocketType
<1> HIDE DEF r
<1>3. /\ socket' \in [Socket -> SocketType] /\ up' \in [Socket -> Seq(FrameType)]
      /\ socket'[s].state = "none" /\ up'[s] = <<>>
      /\ \A t \in Socket : t # s => socket'[t] = socket[t] /\ up'[t] = up[t]
  <2>1. <<>> \in Seq(FrameType)
    OBVIOUS
  <2> QED
    BY <1>1, <1>2, <2>1 DEF LiveInv, LiveType
<1>4. CASE s = client.ws
  <2>1. client' = [client EXCEPT !.ws = NoSocket, !.watchdog = FALSE, !.behind = FALSE,
                                 !.timer = client.timer \/ (AutoReconnect /\ ~refused),
                                 !.asked = IF refused THEN "refused" ELSE client.asked]
        /\ client \in ClientType
    BY <1>4 DEF Closed, LiveInv, LiveType
  <2>2. client' \in ClientType /\ client'.ws = NoSocket /\ client'.subscriptions = client.subscriptions
        /\ client'.asked = IF refused THEN "refused" ELSE client.asked
    BY <2>1, LiveAssumption DEF ClientType
  <2>3. client'.asked # "apart"
    BY <1>4, <2>2, LiveAssumption DEF LiveInv, OneConnection
  <2>4. \A t \in Socket : socket'[t].state \notin {"connecting", "open"}
    BY <1>3, <1>4 DEF LiveInv, OneConnection
  <2>5. \A t \in Socket : socket'[t].state = "none" => up'[t] = <<>>
    BY <1>3 DEF LiveInv, FiltersFollow
  <2> QED
    BY <1>3, <2>2, <2>3, <2>4, <2>5, LettingGo
<1>5. CASE s # client.ws
  <2>1. client' = client
    BY <1>5 DEF Closed
  <2>2. LiveType'
    BY <1>3, <2>1 DEF LiveInv, LiveType
  <2>3. OneConnection'
    BY <1>3, <2>1 DEF LiveInv, OneConnection
  <2>4. FiltersFollow'
    BY <1>3, <1>5, <2>1 DEF LiveInv, FiltersFollow
  <2> QED
    BY <2>2, <2>3, <2>4 DEF LiveInv
<1> QED
  BY <1>4, <1>5

---------------------------------------------------------------------------
\* The steps of the server and of the network

LEMMA AcceptKeeps ==
    ASSUME LiveInv, NEW s \in Socket, Accepts(s) PROVE LiveInv'
<1> DEFINE r == [socket[s] EXCEPT !.state = "open", !.accounts = {}]
           e == [in |-> TRUE, filter |-> socket[s].accounts, alive |-> TRUE]
<1>1. /\ socket[s].state = "connecting"
      /\ socket' = [socket EXCEPT ![s] = r] /\ server' = [server EXCEPT ![s] = e]
      /\ UNCHANGED <<client, up>>
  BY DEF Accepts
<1>2. r \in SocketType /\ r.state = "open"
  <2>1. socket[s] \in SocketType
    BY TypesOf
  <2> QED
    BY <2>1 DEF SocketType
<1>3. e \in ServerType /\ e.in /\ e.filter = client.subscriptions
      /\ up[s] = <<>> /\ s = client.ws /\ client.subscriptions \in SUBSET Account
  <2>1. socket[s].accounts = client.subscriptions /\ up[s] = <<>> /\ s = client.ws
    BY <1>1 DEF LiveInv, FiltersFollow, OneConnection
  <2> QED
    BY <2>1, TypesOf DEF ServerType
<1> HIDE DEF r, e
<1>4. /\ socket' \in [Socket -> SocketType] /\ socket'[s] = r
      /\ server' \in [Socket -> ServerType] /\ server'[s] = e
      /\ \A t \in Socket : t # s => socket'[t] = socket[t] /\ server'[t] = server[t]
  BY <1>1, <1>2, <1>3 DEF LiveInv, LiveType
<1>5. LiveType'
  BY <1>1, <1>3, <1>4 DEF LiveInv, LiveType
<1>6. OneConnection'
  BY <1>1, <1>3, <1>4 DEF LiveInv, OneConnection
<1>7. Becomes(e.filter, up[s], client.subscriptions)
  BY <1>3, NothingToHear
<1>8. FiltersFollow'
  BY <1>1, <1>2, <1>3, <1>4, <1>7 DEF LiveInv, FiltersFollow
<1> QED
  BY <1>5, <1>6, <1>8 DEF LiveInv

LEMMA HearingKeeps ==
    ASSUME LiveInv, NEW s \in Socket, HearsClient(s) PROVE LiveInv'
<1> DEFINE f == Filtered(server[s].filter, Head(up[s]))
           e == [server[s] EXCEPT !.filter = f, !.alive = TRUE]
<1>1. /\ up[s] \in Seq(FrameType) /\ up[s] # <<>> /\ server[s] \in ServerType
      /\ server[s].filter \in SUBSET Account
      /\ up' = [up EXCEPT ![s] = Tail(up[s])] /\ server' = [server EXCEPT ![s] = e]
      /\ server[s].in /\ UNCHANGED <<client, socket>>
  BY TypesOf DEF HearsClient
<1>2. Tail(up[s]) \in Seq(FrameType) /\ Head(up[s]) \in FrameType
  BY <1>1
<1>3. f \in SUBSET Account
  BY <1>1, <1>2, FilteredType
<1>4. ASSUME s = client.ws, socket[s].state = "open"
      PROVE  Becomes(f, Tail(up[s]), client.subscriptions)
  <2>1. Becomes(server[s].filter, up[s], client.subscriptions)
    BY <1>1, <1>4 DEF LiveInv, FiltersFollow
  <2> QED
    BY <1>1, <2>1, FirstFrame
<1> HIDE DEF f
<1>5. e \in ServerType /\ e.filter = f
  BY <1>1, <1>3 DEF ServerType
<1> HIDE DEF e
<1>6. /\ up' \in [Socket -> Seq(FrameType)] /\ up'[s] = Tail(up[s])
      /\ server' \in [Socket -> ServerType] /\ server'[s] = e
      /\ \A t \in Socket : t # s => up'[t] = up[t] /\ server'[t] = server[t]
  BY <1>1, <1>2, <1>5 DEF LiveInv, LiveType
<1>7. LiveType'
  BY <1>1, <1>5, <1>6 DEF LiveInv, LiveType
<1>8. OneConnection'
  BY <1>1 DEF LiveInv, OneConnection
<1>9. socket[s].state \notin {"none", "connecting"}
  BY <1>1 DEF LiveInv, FiltersFollow
<1>10. FiltersFollow'
  BY <1>1, <1>4, <1>5, <1>6, <1>9 DEF LiveInv, FiltersFollow
<1> QED
  BY <1>7, <1>8, <1>10 DEF LiveInv

\* Steps that neither add a connection nor change a filter, nor the client besides what it missed.
LEMMA ServerAlone ==
    ASSUME LiveInv, UNCHANGED <<socket, up>>, server' \in [Socket -> ServerType],
           \A s \in Socket : server'[s].in => server[s].in /\ server'[s].filter = server[s].filter,
           NEW b \in BOOLEAN, client' = [client EXCEPT !.behind = b]
    PROVE  LiveInv'
<1>1. /\ client' \in ClientType /\ client'.ws = client.ws /\ client'.timer = client.timer
      /\ client'.subscriptions = client.subscriptions /\ client'.asked = client.asked
  BY DEF LiveInv, LiveType, ClientType
<1>2. LiveType'
  BY <1>1 DEF LiveInv, LiveType
<1>3. OneConnection'
  BY <1>1 DEF LiveInv, OneConnection
<1>4. FiltersFollow'
  BY <1>1 DEF LiveInv, FiltersFollow
<1> QED
  BY <1>2, <1>3, <1>4 DEF LiveInv

LEMMA BroadcastKeeps ==
    ASSUME LiveInv, NEW a, Broadcasts(a) PROVE LiveInv'
<1>1. PICK failing \in Failing(a) :
          /\ client' = [client EXCEPT !.behind = client.behind \/ Misses(a, failing)]
          /\ server' = [s \in Socket |-> IF s \in failing THEN Absent ELSE server[s]]
          /\ UNCHANGED <<socket, up>>
  BY DEF Broadcasts
<1>2. PICK b \in BOOLEAN : b = (client.behind \/ Misses(a, failing))
  OBVIOUS
<1>3. client' = [client EXCEPT !.behind = b]
  BY <1>1, <1>2
<1>4. server' \in [Socket -> ServerType]
      /\ \A s \in Socket : server'[s].in => server[s].in /\ server'[s].filter = server[s].filter
  BY <1>1, UnusedTypes DEF LiveInv, LiveType
<1> QED
  BY <1>1, <1>3, <1>4, ServerAlone

\* A step of the server alone.
LEMMA SameClient ==
    ASSUME LiveInv, UNCHANGED client
    PROVE  \E b \in BOOLEAN : client' = [client EXCEPT !.behind = b]
<1>1. client \in ClientType /\ client.behind \in BOOLEAN
  BY DEF LiveInv, LiveType, ClientType
<1>2. client = [client EXCEPT !.behind = client.behind]
  BY <1>1 DEF ClientType
<1> QED
  BY <1>1, <1>2

LEMMA AliveKeeps ==
    ASSUME NEW e \in ServerType, NEW b \in BOOLEAN
    PROVE  /\ [e EXCEPT !.alive = b] \in ServerType
           /\ [e EXCEPT !.alive = b].in = e.in /\ [e EXCEPT !.alive = b].filter = e.filter
BY DEF ServerType

LEMMA HeartbeatKeeps ==
    ASSUME LiveInv, Heartbeat PROVE LiveInv'
<1>1. server' = [s \in Socket |-> IF server[s].alive THEN [server[s] EXCEPT !.alive = FALSE] ELSE Absent]
      /\ UNCHANGED <<client, socket, up>>
  BY DEF Heartbeat
<1>2. ASSUME NEW s \in Socket
      PROVE  /\ server'[s] \in ServerType
             /\ server'[s].in => server[s].in /\ server'[s].filter = server[s].filter
  <2>1. server[s] \in ServerType
    BY TypesOf
  <2>2. server'[s] = [server[s] EXCEPT !.alive = FALSE] \/ server'[s] = Absent
    BY <1>1
  <2> QED
    BY <2>1, <2>2, AliveKeeps, UnusedTypes
<1>3. server' \in [Socket -> ServerType]
  <2>1. server' = [s \in Socket |-> server'[s]]
    BY <1>1
  <2> QED
    BY <1>2, <2>1
<1> QED
  BY <1>1, <1>2, <1>3, SameClient, ServerAlone

LEMMA PongKeeps ==
    ASSUME LiveInv, NEW s \in Socket, Pong(s) \/ ServerCloses(s) PROVE LiveInv'
<1> DEFINE e == IF Pong(s) THEN [server[s] EXCEPT !.alive = TRUE] ELSE Absent
<1>1. server' = [server EXCEPT ![s] = e] /\ UNCHANGED <<client, socket, up>>
  BY DEF Pong, ServerCloses
<1>2. e \in ServerType /\ (e.in => server[s].in /\ e.filter = server[s].filter)
  <2>1. server[s] \in ServerType
    BY TypesOf
  <2> QED
    BY <2>1, AliveKeeps, UnusedTypes
<1> HIDE DEF e
<1>3. server' \in [Socket -> ServerType] /\ server'[s] = e /\ \A t \in Socket : t # s => server'[t] = server[t]
  BY <1>1, <1>2 DEF LiveInv, LiveType
<1> QED
  BY <1>1, <1>2, <1>3, SameClient, ServerAlone

LEMMA BreakKeeps ==
    ASSUME LiveInv, NEW s \in Socket, Breaks(s) PROVE LiveInv'
<1>1. PICK r \in SocketType :
          /\ socket' = [socket EXCEPT ![s] = r] /\ r.accounts = socket[s].accounts
          /\ r.state = socket[s].state \/ r.state = "closing"
  <2> DEFINE a == [socket[s] EXCEPT !.silent = TRUE]
             b == [socket[s] EXCEPT !.state = "closing"]
  <2>1. socket' = [socket EXCEPT ![s] = a] \/ socket' = [socket EXCEPT ![s] = b]
    BY DEF Breaks
  <2>2. socket[s] \in SocketType
    BY TypesOf
  <2>3. /\ a \in SocketType /\ a.accounts = socket[s].accounts /\ a.state = socket[s].state
        /\ b \in SocketType /\ b.accounts = socket[s].accounts /\ b.state = "closing"
    BY <2>2 DEF SocketType
  <2> HIDE DEF a, b
  <2> QED
    BY <2>1, <2>3
<1>2. UNCHANGED <<up, server>> /\ \E b \in BOOLEAN : client' = [client EXCEPT !.behind = b]
  <2>1. CASE UNCHANGED client
    BY <2>1, SameClient DEF Breaks
  <2>2. CASE \E lost \in BOOLEAN : client' = [client EXCEPT !.behind = client.behind \/ lost]
    <3>1. PICK lost \in BOOLEAN : client' = [client EXCEPT !.behind = client.behind \/ lost]
      BY <2>2
    <3>2. client.behind \in BOOLEAN
      BY DEF LiveInv, LiveType, ClientType
    <3>3. PICK b \in BOOLEAN : b = (client.behind \/ lost)
      BY <3>2
    <3> QED
      BY <3>1, <3>3 DEF Breaks
  <2> QED
    BY <2>1, <2>2, TypesOf DEF Breaks, ServerType
<1>3. /\ client' \in ClientType /\ client'.ws = client.ws /\ client'.timer = client.timer
      /\ client'.subscriptions = client.subscriptions /\ client'.asked = client.asked
  BY <1>2 DEF LiveInv, LiveType, ClientType
<1>4. socket' \in [Socket -> SocketType] /\ socket'[s] = r /\ \A t \in Socket : t # s => socket'[t] = socket[t]
  BY <1>1 DEF LiveInv, LiveType
<1>5. LiveType'
  BY <1>2, <1>3, <1>4 DEF LiveInv, LiveType
<1>6. OneConnection'
  BY <1>1, <1>3, <1>4 DEF LiveInv, OneConnection
<1>7. FiltersFollow'
  BY <1>1, <1>2, <1>3, <1>4 DEF LiveInv, FiltersFollow
<1> QED
  BY <1>5, <1>6, <1>7 DEF LiveInv

---------------------------------------------------------------------------
\* Theorems

LEMMA LiveInvHolds ==
    ASSUME LiveInit PROVE LiveInv
<1>1. client \in ClientType /\ client.ws = NoSocket /\ ~client.timer
  BY DEF LiveInit, ClientType
<1>2. \A s \in Socket : /\ socket[s] = Unused /\ server[s] = Absent /\ up[s] = <<>>
  BY DEF LiveInit
<1>3. LiveType
  <2>1. <<>> \in Seq(FrameType)
    OBVIOUS
  <2> QED
    BY <1>1, <2>1, UnusedTypes DEF LiveInit, LiveType
<1>4. OneConnection
  BY <1>1, <1>2, UnusedTypes DEF OneConnection
<1>5. FiltersFollow
  BY <1>2, UnusedTypes DEF FiltersFollow
<1> QED
  BY <1>3, <1>4, <1>5 DEF LiveInv

LEMMA LiveInvKept ==
    ASSUME LiveInv, [LiveNext]_liveVars PROVE LiveInv'
<1>1. CASE UNCHANGED liveVars
  <2>1. LiveType'
    BY <1>1 DEF liveVars, LiveInv, LiveType
  <2>2. OneConnection'
    BY <1>1 DEF liveVars, LiveInv, OneConnection
  <2>3. FiltersFollow'
    BY <1>1 DEF liveVars, LiveInv, FiltersFollow
  <2> QED
    BY <2>1, <2>2, <2>3 DEF LiveInv
<1>2. CASE CallConnect
  <2>1. client.timer \in BOOLEAN
    BY DEF LiveInv, LiveType, ClientType
  <2> QED
    BY <1>2, <2>1, ConnectKeeps DEF CallConnect
<1>3. CASE TimerFires
  BY <1>3, ConnectKeeps DEF TimerFires
<1>4. CASE CallDisconnect
  BY <1>4, DisconnectKeeps
<1>5. CASE WatchdogFires
  BY <1>5, WatchdogKeeps
<1>6. CASE \E accs \in Asked : CallSubscribe(accs) \/ CallUnsubscribe(accs)
  BY <1>6, SubscribeKeeps, LiveAssumption
<1>7. CASE \E s \in Socket : Closes(s)
  BY <1>7, GoneKeeps DEF Closes
<1>8. CASE \E s \in Socket : Accepts(s) \/ Refuses(s) \/ HearsClient(s) \/ Pong(s) \/ ServerCloses(s)
  BY <1>8, AcceptKeeps, GoneKeeps, HearingKeeps, PongKeeps DEF Refuses
<1>9. CASE \E a \in Account : Broadcasts(a)
  BY <1>9, BroadcastKeeps
<1>10. CASE Heartbeat
  BY <1>10, HeartbeatKeeps
<1>11. CASE \E s \in Socket : Breaks(s)
  BY <1>11, BreakKeeps
<1> QED
  BY <1>1, <1>2, <1>3, <1>4, <1>5, <1>6, <1>7, <1>8, <1>9, <1>10, <1>11
  DEF LiveNext, ClientStep, ServerStep

LEMMA LiveInvAlways == LiveSpec => []LiveInv
<1>1. LiveInit => LiveInv
  BY LiveInvHolds
<1>2. LiveInv /\ [LiveNext]_liveVars => LiveInv'
  BY LiveInvKept
<1> QED
  BY <1>1, <1>2, PTL DEF LiveSpec

\* The client has one connection, and knows it: one it dropped neither takes its place nor
\* takes it along when it closes at last; after disconnect() none comes back by itself.
\* (connect, disconnect, onClose, scheduleReconnect.)
THEOREM OneConnectionAtMost == LiveSpec => []OneConnection
<1>1. LiveInv => OneConnection
  BY DEF LiveInv
<1> QED
  BY <1>1, LiveInvAlways, PTL

\* What the server filters by is what the client asked for, once it has heard it: over
\* whatever reconnects, however many changes are on their way and in which connection.
\* (subscriptions, buildWsUrl, addClient, unsubscribe.)
THEOREM FiltersAgreeWhenHeard == LiveSpec => []FiltersAgree
<1>1. LiveInv => FiltersAgree
  <2> SUFFICES ASSUME LiveInv, IsConnected, server[client.ws].in, up[client.ws] = <<>>
               PROVE  server[client.ws].filter = client.subscriptions
    BY DEF FiltersAgree
  <2> DEFINE w == client.ws
  <2>1. w \in Socket /\ socket[w].state = "open"
    BY DEF IsConnected, LiveInv, LiveType, ClientType
  <2>2. Becomes(server[w].filter, <<>>, client.subscriptions)
    BY <2>1 DEF LiveInv, FiltersFollow
  <2>3. server[w].filter \in SUBSET Account
    BY <2>1, TypesOf
  <2> QED
    BY <2>2, <2>3, NothingToHear
<1> QED
  BY <1>1, LiveInvAlways, PTL

====
