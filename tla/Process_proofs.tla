---- MODULE Process_proofs ----
(***************************************************************************)
(* Proofs about what a process of the gateway starts with and ends with:   *)
(* the file of accounts, the SQLite log and the shutdown.                  *)
(***************************************************************************)
EXTENDS GracefulShutdown, AccountsFile, SqliteMessageLog, SequenceTheorems, FiniteSetTheorems, WellFoundedInduction, TLAPS

---------------------------------------------------------------------------
(***************************************************************************)
(* Proofs about GracefulShutdown, for any number of steps that fit into    *)
(* the limit, and any lateness of the timers.                              *)
(***************************************************************************)

Exits == {Running, "success", "failure", "killed"}

ShutdownType ==
    /\ boot \in {"loading", "replaying", "listening", "connecting", "running", "left", "failed"}
    /\ schedules \in BOOLEAN
    /\ shutdown \in [started : BOOLEAN, failed : BOOLEAN, clean : BOOLEAN, step : 0 .. Len(MaxTime), due : Nat]
    /\ outcome \in [Step -> {"waiting", "running", "ok", "failed"}]
    /\ code \in Exits
    /\ now \in Nat /\ late \in Nat
    /\ crashed \in BOOLEAN

\* Before the handlers nothing is started; then the steps are gone through in order, a clean
\* shutdown has only good ones behind it, and a crash is not forgotten.
StepsInOrder ==
    /\ boot = "loading" => ~shutdown.started
    /\ shutdown.started <=> shutdown.step # 0
    /\ \A s \in Step : s <= shutdown.step => outcome[s] # "waiting"
    /\ code = Running /\ shutdown.clean => \A s \in Step : s < shutdown.step => outcome[s] = "ok"
    /\ code = Running /\ crashed => shutdown.failed /\ shutdown.started

\* While no timer was late it is not later than the step may end, and the steps so far took
\* no more than they may.
InTime ==
    /\ ~shutdown.started => now = 0 /\ late = 0
    /\ late = 0 =>
           /\ now <= Total
           /\ shutdown.started => now <= shutdown.due /\ shutdown.due <= Elapsed[shutdown.step]

ShutdownInv == ShutdownType /\ StepsInOrder /\ InTime /\ ShutdownIsOrderly

---------------------------------------------------------------------------
\* Induction on the naturals, for a set of them

LEMMA LeastNatural ==
    ASSUME NEW T \in SUBSET Nat, T # {}
    PROVE  \E n \in T : \A m \in T : ~(m < n)
<1>1. PICK n \in T : \A m \in T : <<m, n>> \notin OpToRel(<, Nat)
  BY WFMin, NatLessThanWellFounded, Zenon
<1>2. \A m \in T : m < n => <<m, n>> \in OpToRel(<, Nat)
  BY Zenon DEF OpToRel
<1> QED
  BY <1>1, <1>2, Zenon

LEMMA Induction ==
    ASSUME NEW T \in SUBSET Nat, 0 \in T, \A n \in T : n + 1 \in T
    PROVE  T = Nat
<1> SUFFICES ASSUME T # Nat PROVE FALSE
  OBVIOUS
<1>1. PICK n \in Nat \ T : \A m \in Nat \ T : ~(m < n)
  BY LeastNatural
<1>2. n # 0 /\ n - 1 \in Nat /\ n - 1 < n /\ (n - 1) + 1 = n
  BY <1>1
<1>3. n - 1 \in T
  BY <1>1, <1>2
<1> QED
  BY <1>1, <1>2, <1>3

---------------------------------------------------------------------------
\* The time the first steps may take

\* The recursive function Elapsed is made of exists.
LEMMA ElapsedExists ==
    ASSUME NEW n \in Nat
    PROVE  \E f : f = [s \in 0 .. n |-> IF s = 0 THEN 0 ELSE f[s - 1] + MaxTime[s]]
<1> DEFINE T == {m \in Nat : \E f : f = [s \in 0 .. m |-> IF s = 0 THEN 0 ELSE f[s - 1] + MaxTime[s]]}
<1>1. 0 \in T
  <2> DEFINE f == [s \in 0 .. 0 |-> 0]
  <2>1. f = [s \in 0 .. 0 |-> IF s = 0 THEN 0 ELSE f[s - 1] + MaxTime[s]]
    OBVIOUS
  <2> QED
    BY <2>1
<1>2. ASSUME NEW m \in T PROVE m + 1 \in T
  <2>1. PICK f : f = [s \in 0 .. m |-> IF s = 0 THEN 0 ELSE f[s - 1] + MaxTime[s]]
    OBVIOUS
  <2> DEFINE g == [s \in 0 .. m + 1 |-> IF s = m + 1 THEN f[m] + MaxTime[m + 1] ELSE f[s]]
             h == [s \in 0 .. m + 1 |-> IF s = 0 THEN 0 ELSE g[s - 1] + MaxTime[s]]
  <2>2. ASSUME NEW s \in 0 .. m + 1 PROVE g[s] = h[s]
    <3>1. CASE s = 0
      BY <2>1, <3>1
    <3>2. CASE s = m + 1
      BY <2>1, <3>2
    <3>3. CASE s \in 1 .. m
      <4>1. g[s] = f[s] /\ s - 1 \in 0 .. m /\ s - 1 # m + 1
        BY <3>3
      <4>2. g[s - 1] = f[s - 1]
        BY <4>1
      <4>3. f[s] = f[s - 1] + MaxTime[s]
        BY <2>1, <3>3
      <4> QED
        BY <3>3, <4>1, <4>2, <4>3
    <3> QED
      BY <3>1, <3>2, <3>3
  <2>3. g = h
    BY <2>2
  <2>4. g = [s \in 0 .. m + 1 |-> IF s = 0 THEN 0 ELSE g[s - 1] + MaxTime[s]]
    BY <2>3, Zenon
  <2> HIDE DEF g, h
  <2>5. \E x : x = [s \in 0 .. m + 1 |-> IF s = 0 THEN 0 ELSE x[s - 1] + MaxTime[s]]
    BY <2>4, Zenon
  <2> QED
    BY <2>5
<1> HIDE DEF T
<1>3. T = Nat
  BY <1>1, <1>2, Induction DEF T
<1> QED
  BY <1>3 DEF T

\* The steps are numbered, and each adds its own time to that of those before it.
LEMMA ElapsedIs ==
    ASSUME TimesFit
    PROVE  /\ Len(MaxTime) \in Nat \ {0} /\ Step = 1 .. Len(MaxTime)
           /\ \A s \in Step : MaxTime[s] \in Nat
           /\ Elapsed[0] = 0
           /\ \A s \in Step : Elapsed[s] = Elapsed[s - 1] + MaxTime[s]
<1>1. /\ Len(MaxTime) \in Nat \ {0} /\ Step = 1 .. Len(MaxTime)
      /\ \A s \in Step : MaxTime[s] \in Nat
  BY DEF TimesFit, Step
<1>2. Elapsed = [s \in 0 .. Len(MaxTime) |-> IF s = 0 THEN 0 ELSE Elapsed[s - 1] + MaxTime[s]]
  BY <1>1, ElapsedExists DEF Elapsed
<1>3. Elapsed[0] = 0 /\ \A s \in 1 .. Len(MaxTime) : Elapsed[s] = Elapsed[s - 1] + MaxTime[s]
  BY <1>1, <1>2
<1> QED
  BY <1>1, <1>3

\* ... none less than the steps before.
LEMMA ElapsedType == TimesFit => \A s \in 0 .. Len(MaxTime) : Elapsed[s] \in Nat
<1> SUFFICES ASSUME TimesFit PROVE \A s \in 0 .. Len(MaxTime) : Elapsed[s] \in Nat
  OBVIOUS
<1> DEFINE T == {s \in Nat : s <= Len(MaxTime) => Elapsed[s] \in Nat}
<1>1. 0 \in T
  BY ElapsedIs
<1>2. ASSUME NEW s \in T PROVE s + 1 \in T
  <2> SUFFICES ASSUME s + 1 <= Len(MaxTime) PROVE Elapsed[s + 1] \in Nat
    OBVIOUS
  <2>1. s + 1 \in Step /\ (s + 1) - 1 = s /\ Elapsed[s] \in Nat
    BY ElapsedIs
  <2>2. Elapsed[s + 1] = Elapsed[s] + MaxTime[s + 1] /\ MaxTime[s + 1] \in Nat
    BY <2>1, ElapsedIs
  <2> QED
    BY <2>1, <2>2
<1> HIDE DEF T
<1>3. T = Nat
  BY <1>1, <1>2, Induction DEF T
<1> QED
  BY <1>3, ElapsedIs DEF T

LEMMA MinOfTwo ==
    ASSUME NEW a \in Int, NEW b \in Int
    PROVE  Min({a, b}) = IF a <= b THEN a ELSE b
<1> DEFINE m == IF a <= b THEN a ELSE b
<1>1. m \in {a, b} /\ \A y \in {a, b} : m <= y
  OBVIOUS
<1>2. \A x \in {a, b} : (\A y \in {a, b} : x <= y) => x = m
  OBVIOUS
<1> HIDE DEF m
<1>3. Min({a, b}) = m
  BY <1>1, <1>2 DEF Min
<1> QED
  BY <1>3 DEF m

---------------------------------------------------------------------------
\* The steps of the process

LEMMA ShutdownStarts == TimesFit /\ ShutdownInit => ShutdownInv
<1> SUFFICES ASSUME TimesFit, ShutdownInit PROVE ShutdownInv
  OBVIOUS
<1>1. Len(MaxTime) \in Nat /\ Step = 1 .. Len(MaxTime) /\ Total \in Nat
  BY ElapsedIs DEF TimesFit
<1>2. ShutdownType
  <2>1. shutdown \in [started : BOOLEAN, failed : BOOLEAN, clean : BOOLEAN, step : 0 .. Len(MaxTime), due : Nat]
    BY <1>1 DEF ShutdownInit
  <2>2. outcome \in [Step -> {"waiting", "running", "ok", "failed"}]
    BY <1>1 DEF ShutdownInit
  <2> QED
    BY <1>1, <2>1, <2>2 DEF ShutdownInit, ShutdownType, Exits, Running
<1>3. StepsInOrder /\ ShutdownIsOrderly
  BY <1>1 DEF ShutdownInit, StepsInOrder, ShutdownIsOrderly, Running
<1>4. InTime
  BY <1>1 DEF ShutdownInit, InTime
<1> QED
  BY <1>2, <1>3, <1>4 DEF ShutdownInv

\* The boot, before and between the steps of the shutdown.
LEMMA BootKeeps ==
    ASSUME TimesFit, ShutdownInv, code = Running,
           LoadFails \/ HandlersInPlace \/ Replayed \/ Listens \/ ListenFails \/ Connected
    PROVE  ShutdownInv'
<1> USE DEF ShutdownInv, ShutdownType, StepsInOrder, InTime, ShutdownIsOrderly, Exits, Running
<1>1. CASE LoadFails
  BY <1>1 DEF LoadFails, Stops, Exit
<1>2. CASE HandlersInPlace
  BY <1>2 DEF HandlersInPlace, Goes
<1>3. CASE Replayed
  BY <1>3 DEF Replayed, Goes
<1>4. CASE Listens
  BY <1>4 DEF Listens, Goes
<1>5. CASE ListenFails
  BY <1>5 DEF ListenFails, Stops, Exit
<1>6. CASE Connected
  BY <1>6 DEF Connected
<1> QED
  BY <1>1, <1>2, <1>3, <1>4, <1>5, <1>6

\* A step gets a time that is in the limit.
LEMMA BudgetFits ==
    ASSUME TimesFit, NEW s \in Step, now \in Nat
    PROVE  /\ Budget(s) \in Int /\ Budget(s) <= MaxTime[s] /\ now + Budget(s) <= Total
           /\ now + Budget(s) \in Nat
           /\ now <= Total => now <= now + Budget(s)
<1>1. MaxTime[s] \in Nat /\ Total \in Nat
  BY ElapsedIs DEF TimesFit
<1> QED
  BY <1>1, MinOfTwo DEF Budget

\* Whether a step ends well or badly: the next one gets its turn, or it was the last.
LEMMA EndsKeeps ==
    ASSUME TimesFit, ShutdownInv, code = Running, NEW result \in {"ok", "failed"},
           InStep, StepEnds(result)
    PROVE  ShutdownInv'
<1> DEFINE s == shutdown.step
           clean == shutdown.clean /\ result = "ok"
           n == Len(MaxTime)
<1> USE DEF ShutdownInv, Running
<1>1. /\ n \in Nat \ {0} /\ Step = 1 .. n /\ s \in Step /\ s \in 1 .. n /\ shutdown.started /\ Total \in Nat
      /\ UNCHANGED <<boot, schedules, now, late, crashed>> /\ clean \in BOOLEAN
  BY ElapsedIs DEF InStep, StepsInOrder, ShutdownType, TimesFit
<1>2. shutdown \in [started : BOOLEAN, failed : BOOLEAN, clean : BOOLEAN, step : 0 .. n, due : Nat]
      /\ outcome \in [Step -> {"waiting", "running", "ok", "failed"}] /\ now \in Nat /\ late \in Nat
  BY DEF ShutdownType
<1>3. CASE s < n
  <2>1. /\ s + 1 \in Step /\ s + 1 \in 0 .. n
        /\ shutdown' = [shutdown EXCEPT !.clean = clean, !.step = s + 1, !.due = now + Budget(s + 1)]
        /\ outcome' = [outcome EXCEPT ![s] = result, ![s + 1] = "running"]
        /\ code' = code
    BY <1>1, <1>3 DEF StepEnds
  <2>2. /\ now + Budget(s + 1) \in Nat /\ Budget(s + 1) \in Int /\ Budget(s + 1) <= MaxTime[s + 1]
        /\ now <= Total => now <= now + Budget(s + 1)
    BY <1>2, <2>1, BudgetFits
  <2>3. ShutdownType'
    BY <1>1, <1>2, <2>1, <2>2 DEF ShutdownType
  <2>4. StepsInOrder'
    <3>1. \A t \in Step : t <= s + 1 => outcome'[t] # "waiting"
      BY <1>1, <1>2, <2>1 DEF StepsInOrder
    <3>2. clean => \A t \in Step : t < s + 1 => outcome'[t] = "ok"
      BY <1>1, <1>2, <2>1 DEF StepsInOrder
    <3>3. shutdown'.started /\ shutdown'.step = s + 1 /\ shutdown'.clean = clean
          /\ shutdown'.failed = shutdown.failed /\ s + 1 # 0
      BY <1>1, <1>2, <2>1
    <3> QED
      BY <1>1, <2>1, <3>1, <3>2, <3>3 DEF StepsInOrder
  <2>5. InTime'
    <3>1. Elapsed[s + 1] = Elapsed[s] + MaxTime[s + 1] /\ Elapsed[s] \in Nat /\ MaxTime[s + 1] \in Nat
      BY <1>1, <2>1, ElapsedIs, ElapsedType
    <3>2. shutdown'.step = s + 1 /\ shutdown'.due = now + Budget(s + 1) /\ shutdown'.started
      BY <1>1, <1>2, <2>1
    <3> QED
      BY <1>1, <1>2, <2>2, <3>1, <3>2 DEF InTime
  <2>6. ShutdownIsOrderly'
    BY <1>1, <1>2, <2>1 DEF ShutdownIsOrderly
  <2> QED
    BY <2>3, <2>4, <2>5, <2>6
<1>4. CASE ~(s < n)
  <2>1. /\ s = n
        /\ shutdown' = [shutdown EXCEPT !.clean = clean]
        /\ outcome' = [outcome EXCEPT ![s] = result]
        /\ code' = IF clean /\ ~shutdown.failed THEN "success" ELSE "failure"
    BY <1>1, <1>4 DEF StepEnds, Exit
  <2>2. ShutdownType'
    BY <1>1, <1>2, <2>1 DEF ShutdownType, Exits
  <2>3. StepsInOrder'
    BY <1>1, <1>2, <2>1 DEF StepsInOrder
  <2>4. InTime'
    BY <1>1, <1>2, <2>1 DEF InTime
  <2>5. clean => \A t \in Step : outcome'[t] = "ok"
    BY <1>1, <1>2, <2>1 DEF StepsInOrder
  <2>6. \A t \in Step : outcome'[t] # "waiting"
    BY <1>1, <1>2, <2>1 DEF StepsInOrder
  <2>7. ShutdownIsOrderly'
    BY <1>1, <1>2, <2>1, <2>5, <2>6 DEF ShutdownIsOrderly, StepsInOrder
  <2> QED
    BY <2>2, <2>3, <2>4, <2>7
<1> QED
  BY <1>3, <1>4

\* The limit for all of them: with timers in time it comes in the last step.
LEMMA HardStopKeeps ==
    ASSUME TimesFit, ShutdownInv, code = Running, HardStop
    PROVE  ShutdownInv'
<1> DEFINE n == Len(MaxTime)
<1> USE DEF ShutdownInv, Running
<1>1. /\ n \in Nat \ {0} /\ Step = 1 .. n /\ shutdown.step \in Step /\ Total \in Nat /\ now >= Total
      /\ code' = "failure" /\ UNCHANGED <<shutdown, outcome, boot, schedules, now, late, crashed>>
  BY ElapsedIs DEF HardStop, InStep, Exit, TimesFit
<1>2. shutdown.due \in Nat /\ now \in Nat /\ shutdown.started /\ Elapsed[shutdown.step] \in Nat
  BY <1>1, ElapsedType DEF ShutdownType, StepsInOrder
<1>3. late = 0 => ~(shutdown.step < n)
  BY <1>1, <1>2 DEF InTime, TimesFit
<1>4. late = 0 => \A s \in Step : outcome[s] # "waiting"
  BY <1>1, <1>3 DEF StepsInOrder
<1>5. ShutdownType' /\ StepsInOrder' /\ InTime'
  BY <1>1 DEF ShutdownType, StepsInOrder, InTime, Exits
<1>6. ShutdownIsOrderly'
  BY <1>1, <1>4 DEF ShutdownIsOrderly
<1> QED
  BY <1>5, <1>6

LEMMA TickKeeps ==
    ASSUME TimesFit, ShutdownInv, code = Running, Tick
    PROVE  ShutdownInv'
<1> USE DEF ShutdownInv, Running
<1>1. /\ Total \in Nat /\ MaxLate \in Nat /\ shutdown.due \in Nat /\ now \in Nat /\ late \in Nat
      /\ shutdown.started /\ now' = now + 1 /\ UNCHANGED <<boot, schedules, shutdown, outcome, code, crashed>>
  BY DEF ShutdownType, Tick, TimesFit
<1>2. \/ late' = late + 1
      \/ late' = late /\ now < shutdown.due /\ now < Total
  BY <1>1, MinOfTwo DEF Tick
<1>3. ShutdownType' /\ StepsInOrder' /\ ShutdownIsOrderly'
  BY <1>1, <1>2 DEF ShutdownType, StepsInOrder, ShutdownIsOrderly
<1>4. InTime'
  BY <1>1, <1>2 DEF InTime
<1> QED
  BY <1>3, <1>4

\* The shutdown starts, or was started: a failure counts either way.
LEMMA RunKeeps ==
    ASSUME TimesFit, ShutdownInv, code = Running, boot # "loading", NEW failed \in BOOLEAN,
           Run(failed), UNCHANGED <<boot, now, late>>, crashed' \in BOOLEAN, crashed' => crashed \/ failed
    PROVE  ShutdownInv'
<1> DEFINE n == Len(MaxTime)
<1> USE DEF ShutdownInv, Running
<1>1. /\ n \in Nat \ {0} /\ Step = 1 .. n /\ Total \in Nat /\ 1 \in Step /\ 1 \in 0 .. n
      /\ shutdown \in [started : BOOLEAN, failed : BOOLEAN, clean : BOOLEAN, step : 0 .. n, due : Nat]
      /\ outcome \in [Step -> {"waiting", "running", "ok", "failed"}] /\ now \in Nat
  BY ElapsedIs DEF TimesFit, ShutdownType
<1>2. CASE shutdown.started
  <2>1. /\ shutdown' = [shutdown EXCEPT !.failed = @ \/ failed]
        /\ UNCHANGED <<schedules, outcome, code>>
    BY <1>2 DEF Run
  <2>2. ShutdownType'
    BY <1>1, <2>1 DEF ShutdownType
  <2>3. StepsInOrder'
    BY <1>1, <1>2, <2>1 DEF StepsInOrder
  <2>4. InTime' /\ ShutdownIsOrderly'
    BY <1>1, <2>1 DEF InTime, ShutdownIsOrderly
  <2> QED
    BY <2>2, <2>3, <2>4
<1>3. CASE ~shutdown.started
  <2>1. /\ shutdown' = [shutdown EXCEPT !.started = TRUE, !.failed = failed, !.step = 1, !.due = Budget(1)]
        /\ outcome' = [outcome EXCEPT ![1] = "running"]
        /\ schedules' = FALSE /\ code' = code
    BY <1>3 DEF Run
  <2>2. Budget(1) \in Nat /\ (late = 0 => Budget(1) <= Elapsed[1] /\ now = 0)
    <3>1. MaxTime[1] \in Nat /\ Elapsed[1] = Elapsed[0] + MaxTime[1] /\ Elapsed[0] = 0
      BY <1>1, ElapsedIs
    <3>2. Budget(1) \in Int /\ Budget(1) <= MaxTime[1] /\ now + Budget(1) \in Nat
      BY <1>1, BudgetFits
    <3>3. now = 0
      BY <1>3 DEF InTime
    <3> QED
      BY <1>1, <1>3, <3>1, <3>2, <3>3 DEF InTime
  <2>3. ShutdownType'
    BY <1>1, <2>1, <2>2 DEF ShutdownType
  <2>4. StepsInOrder'
    <3>1. /\ shutdown'.started /\ shutdown'.step = 1 /\ shutdown'.clean = shutdown.clean
          /\ shutdown'.failed = failed
      BY <1>1, <2>1
    <3>2. \A t \in Step : t <= 1 => outcome'[t] # "waiting"
      BY <1>1, <2>1
    <3>3. \A t \in Step : ~(t < 1)
      BY <1>1
    <3>4. crashed' => shutdown'.failed
      BY <1>1, <1>3, <2>1, <3>1 DEF StepsInOrder
    <3> QED
      BY <2>1, <3>1, <3>2, <3>3, <3>4 DEF StepsInOrder
  <2>5. InTime'
    BY <1>1, <2>1, <2>2 DEF InTime
  <2>6. ShutdownIsOrderly'
    BY <1>1, <2>1 DEF ShutdownIsOrderly
  <2> QED
    BY <2>3, <2>4, <2>5, <2>6
<1> QED
  BY <1>2, <1>3

\* A signal or a crash; before the handlers it ends the process as it is.
LEMMA SignalKeeps ==
    ASSUME TimesFit, ShutdownInv, code = Running, Signal \/ Crash
    PROVE  ShutdownInv'
<1>1. CASE boot = "loading"
  BY <1>1 DEF Signal, Crash, Stops, Exit, ShutdownInv, ShutdownType, StepsInOrder, InTime, ShutdownIsOrderly,
              Exits, Running
<1>2. CASE boot # "loading" /\ Signal
  BY <1>2, RunKeeps DEF Signal, ShutdownInv, ShutdownType
<1>3. CASE boot # "loading" /\ Crash
  BY <1>3, RunKeeps DEF Crash
<1> QED
  BY <1>1, <1>2, <1>3

LEMMA ShutdownKeeps == TimesFit /\ ShutdownInv /\ [ShutdownNext]_shutdownVars => ShutdownInv'
<1> SUFFICES ASSUME TimesFit, ShutdownInv, [ShutdownNext]_shutdownVars PROVE ShutdownInv'
  OBVIOUS
<1>1. CASE UNCHANGED shutdownVars
  BY <1>1 DEF shutdownVars, ShutdownInv, ShutdownType, StepsInOrder, InTime, ShutdownIsOrderly
<1>2. CASE ShutdownNext
  <2>1. code = Running
    BY <1>2 DEF ShutdownNext
  <2>2. CASE LoadFails \/ HandlersInPlace \/ Replayed \/ Listens \/ ListenFails \/ Connected
    BY <2>1, <2>2, BootKeeps
  <2>3. CASE StepSettles
    BY <2>1, <2>3, EndsKeeps DEF StepSettles
  <2>4. CASE StepFails \/ StepTimesOut
    BY <2>1, <2>4, EndsKeeps DEF StepFails, StepTimesOut
  <2>5. CASE HardStop
    BY <2>1, <2>5, HardStopKeeps
  <2>6. CASE Tick
    BY <2>1, <2>6, TickKeeps
  <2>7. CASE Signal \/ Crash
    BY <2>1, <2>7, SignalKeeps
  <2> QED
    BY <1>2, <2>2, <2>3, <2>4, <2>5, <2>6, <2>7 DEF ShutdownNext
<1> QED
  BY <1>1, <1>2

\* Whatever the steps and their times, as long as all but the last fit into the limit: success
\* is reported only for a shutdown that was one, no schedule outlives its start, and with timers
\* in time every step gets its turn.
THEOREM ShutdownOrderly == TimesFit /\ ShutdownSpec => []ShutdownIsOrderly
<1> SUFFICES ASSUME TimesFit PROVE ShutdownSpec => []ShutdownIsOrderly
  OBVIOUS
<1>1. ShutdownInit => ShutdownInv
  BY ShutdownStarts
<1>2. ShutdownInv /\ [ShutdownNext]_shutdownVars => ShutdownInv'
  BY ShutdownKeeps
<1>3. ShutdownInv => ShutdownIsOrderly
  BY DEF ShutdownInv
<1> QED
  BY <1>1, <1>2, <1>3, PTL DEF ShutdownSpec

---------------------------------------------------------------------------
(***************************************************************************)
(* Proofs about AccountsFile, for any channels, any identities that the    *)
(* bodies bring, any changes in their turns and any faults.                *)
(***************************************************************************)

Provider == {"selfAuth", "keyed"}
Status == {"unchecked", "active", "suspended"}

\* An account of a known channel, whatever its identity is.
IsAccount(a) ==
    /\ a = [channel |-> a.channel, provider |-> a.provider, credentials |-> a.credentials,
            status |-> a.status, identity |-> a.identity]
    /\ a.channel \in Channel /\ a.credentials \in BOOLEAN

\* An account that loads as it is.
Whole(a) == IsAccount(a) /\ HasRequiredCredentials(a) /\ IsOwn(a.channel, a.identity)

\* What the union makes of what the bodies bring.
Identity ==
    UNION {{DefaultIdentity(c)} \union {IdentitySchema(raw) : raw \in NewIdentity[c] \union PutIdentity[c]} : c \in Channel}

NewAccount ==
    {a \in [channel : Channel, provider : Provider, credentials : BOOLEAN, status : Status, identity : Identity] :
        HasRequiredCredentials(a)}

Body ==
    [provider : Provider] \union [status : Status] \union [credentials : {TRUE}] \union [identity : Identity]

ChangeType ==
    [op : {"save"}, account : NewAccount] \union [op : {"update"}, partial : Body, gone : BOOLEAN]
    \union [op : {"remove"}] \union [op : {"observe"}, status : Status, found : BOOLEAN]

\* An update whose account is still there leaves it with its credentials.
Checked(account, change) ==
    change.op = "update" /\ ~change.gone =>
        /\ account # NoAccount
        /\ change.partial \in [provider : {"keyed"}] => account.credentials

QueueInv == queue \in Seq(ChangeType) /\ \A i \in DOMAIN queue : Checked(memory, queue[i])

AccountOrNone(a) == a = NoAccount \/ IsAccount(a)
WholeOrNone(a) == a = NoAccount \/ Whole(a)

FileInv ==
    /\ AccountOrNone(memory) /\ AccountOrNone(yaml)
    /\ up \in BOOLEAN /\ unwritten \in BOOLEAN /\ flawed \in BOOLEAN
    /\ QueueInv
    /\ up /\ ~unwritten => memory = LoadedAccount(yaml) \/ yaml = ToYaml(memory)
    /\ ~flawed => WholeOrNone(yaml) /\ (up => WholeOrNone(memory))
    /\ ~up => queue = <<>>

---------------------------------------------------------------------------
\* Identities

LEMMA MinOfOne == ASSUME NEW i \in Int PROVE Min({i}) = i
BY DEF Min

\* An identity with the field of its channel alone passes the union, as it is.
LEMMA OwnLoads ==
    ASSUME ChannelsKnown, NEW channel \in Channel, NEW identity, IsOwn(channel, identity)
    PROVE  /\ IdentitySchema(identity) = identity /\ identity # Invalid
           /\ BuildIdentity(channel, identity) = identity
           /\ SerializeIdentity(identity) = identity
<1> DEFINE own == OwnField[channel]
<1>1. /\ DOMAIN identity = {own} /\ identity = [f \in {own} |-> identity[f]]
      /\ identity[own] # "undefined" /\ (own = "address" => identity[own] # "")
  BY DEF IsOwn
<1>2. own \in {"phoneNumber", "botUsername", "address"}
  BY DEF ChannelsKnown, OwnField
<1>3. PICK i \in DOMAIN UnionFields : UnionFields[i] = own
  BY <1>2 DEF UnionFields
<1>4. \A j \in DOMAIN UnionFields : UnionFields[j] = own => j = i
  BY <1>3 DEF UnionFields
<1> HIDE DEF own
<1>5. {j \in DOMAIN UnionFields : Matches(identity, UnionFields[j])} = {i}
  BY <1>1, <1>3, <1>4 DEF Matches
<1>11. i \in Int
  BY DEF UnionFields
<1>6. IdentitySchema(identity) = Restrict(identity, {own})
  BY <1>3, <1>5, <1>11, MinOfOne DEF IdentitySchema
<1>7. Restrict(identity, {own}) = identity
  BY <1>1 DEF Restrict
<1>8. identity # Invalid
  <2>1. DOMAIN Invalid = {"invalid"}
    BY DEF Invalid
  <2> QED
    BY <1>1, <1>2, <2>1
<1>9. BuildIdentity(channel, identity) = identity
  BY <1>1 DEF BuildIdentity, own
<1>10. SerializeIdentity(identity) = Restrict(identity, {own})
  <2>1. {f \in DOMAIN identity : identity[f] # "undefined"} = {own}
    BY <1>1
  <2> QED
    BY <2>1 DEF SerializeIdentity
<1> QED
  BY <1>6, <1>7, <1>8, <1>9, <1>10

---------------------------------------------------------------------------
\* Accounts

LEMMA AccountIsSome == ASSUME NEW a, IsAccount(a) PROVE a # NoAccount
<1>1. DOMAIN NoAccount = {"channel"}
  BY DEF NoAccount
<1>2. DOMAIN a = {"channel", "provider", "credentials", "status", "identity"}
  BY DEF IsAccount
<1> QED
  BY <1>1, <1>2

\* It is written and loaded as it is.
LEMMA WholeLoads ==
    ASSUME ChannelsKnown, NEW a, WholeOrNone(a)
    PROVE  ToYaml(a) = a /\ Loads(a) /\ LoadedAccount(a) = a
<1>1. CASE a = NoAccount
  BY <1>1 DEF ToYaml, Loads, LoadedAccount
<1>2. CASE Whole(a)
  <2>1. a # NoAccount /\ IsAccount(a) /\ HasRequiredCredentials(a)
    BY <1>2, AccountIsSome DEF Whole
  <2>2. /\ IdentitySchema(a.identity) = a.identity /\ a.identity # Invalid
        /\ BuildIdentity(a.channel, a.identity) = a.identity
        /\ SerializeIdentity(a.identity) = a.identity
    BY <1>2, OwnLoads DEF Whole, IsAccount
  <2>3. [a EXCEPT !.identity = a.identity] = a
    BY <2>1 DEF IsAccount
  <2> QED
    BY <2>1, <2>2, <2>3 DEF ToYaml, Loads, LoadedAccount
<1> QED
  BY <1>1, <1>2 DEF WholeOrNone

\* Written or loaded, it is an account.
LEMMA AccountStays ==
    ASSUME NEW a, AccountOrNone(a)
    PROVE  AccountOrNone(ToYaml(a)) /\ AccountOrNone(LoadedAccount(a))
<1>1. ASSUME NEW i, IsAccount(a) PROVE IsAccount([a EXCEPT !.identity = i])
  BY <1>1 DEF IsAccount
<1> QED
  BY <1>1 DEF AccountOrNone, ToYaml, LoadedAccount

\* The fields of a changed account.
LEMMA ChangedFields ==
    ASSUME NEW a, IsAccount(a), NEW p
    PROVE  WithChanges(a, p) =
               [channel |-> IF "channel" \in DOMAIN p THEN p.channel ELSE a.channel,
                provider |-> IF "provider" \in DOMAIN p THEN p.provider ELSE a.provider,
                credentials |-> IF "credentials" \in DOMAIN p THEN p.credentials ELSE a.credentials,
                status |-> IF "status" \in DOMAIN p THEN p.status ELSE a.status,
                identity |-> IF "identity" \in DOMAIN p THEN p.identity ELSE a.identity]
<1>1. DOMAIN a = {"channel", "provider", "credentials", "status", "identity"}
  BY DEF IsAccount
<1> QED
  BY <1>1 DEF WithChanges

\* A body leaves it an account of its channel that keeps its credentials; a whole one whole, when
\* its identity is of the channel and a provider with keys finds them.
LEMMA BodyKeeps ==
    ASSUME NEW a, IsAccount(a), NEW p \in Body
    PROVE  /\ IsAccount(WithChanges(a, p))
           /\ a.credentials => WithChanges(a, p).credentials
           /\ /\ Whole(a) /\ (p \in [provider : {"keyed"}] => a.credentials)
              /\ "identity" \in DOMAIN p => IsOwn(a.channel, p.identity)
              => Whole(WithChanges(a, p))
<1> DEFINE b == WithChanges(a, p)
<1>1. CASE p \in [provider : Provider]
  <2>1. DOMAIN p = {"provider"} /\ p.provider \in Provider
    BY <1>1
  <2>2. b = [channel |-> a.channel, provider |-> p.provider, credentials |-> a.credentials, status |-> a.status,
             identity |-> a.identity]
    BY <2>1, ChangedFields
  <2>3. IsAccount(b) /\ b.credentials = a.credentials /\ b.channel = a.channel /\ b.identity = a.identity
    BY <2>2 DEF IsAccount
  <2>4. p.provider = "keyed" => p \in [provider : {"keyed"}]
    BY <1>1
  <2>5. (p \in [provider : {"keyed"}] => a.credentials) => HasRequiredCredentials(b)
    BY <2>1, <2>2, <2>4 DEF HasRequiredCredentials, Provider
  <2> QED
    BY <2>3, <2>5 DEF Whole
<1>2. CASE p \in [status : Status]
  <2>1. DOMAIN p = {"status"}
    BY <1>2
  <2>2. b = [channel |-> a.channel, provider |-> a.provider, credentials |-> a.credentials, status |-> p.status,
             identity |-> a.identity]
    BY <2>1, ChangedFields
  <2>3. IsAccount(b) /\ b.credentials = a.credentials /\ b.channel = a.channel /\ b.identity = a.identity
    BY <2>2 DEF IsAccount
  <2> QED
    BY <2>2, <2>3 DEF Whole, HasRequiredCredentials
<1>3. CASE p \in [credentials : {TRUE}]
  <2>1. DOMAIN p = {"credentials"} /\ p.credentials = TRUE
    BY <1>3
  <2>2. b = [channel |-> a.channel, provider |-> a.provider, credentials |-> TRUE, status |-> a.status,
             identity |-> a.identity]
    BY <2>1, ChangedFields
  <2>3. IsAccount(b) /\ b.credentials = TRUE /\ b.channel = a.channel /\ b.identity = a.identity
    BY <2>2 DEF IsAccount
  <2> QED
    BY <2>3 DEF Whole, HasRequiredCredentials
<1>4. CASE p \in [identity : Identity]
  <2>1. DOMAIN p = {"identity"}
    BY <1>4
  <2>2. b = [channel |-> a.channel, provider |-> a.provider, credentials |-> a.credentials, status |-> a.status,
             identity |-> p.identity]
    BY <2>1, ChangedFields
  <2>3. IsAccount(b) /\ b.credentials = a.credentials /\ b.channel = a.channel /\ b.identity = p.identity
    BY <2>2 DEF IsAccount
  <2> QED
    BY <2>1, <2>2, <2>3 DEF Whole, HasRequiredCredentials
<1> QED
  BY <1>1, <1>2, <1>3, <1>4 DEF Body

\* So does what a check found.
LEMMA ObservedIs ==
    ASSUME NEW a, IsAccount(a), NEW c, c.found \in BOOLEAN
    PROVE  /\ IsAccount(Observed(a, c))
           /\ Observed(a, c).credentials = a.credentials
           /\ Whole(a) => Whole(Observed(a, c))
<1> DEFINE p == [status |-> IF a.status = "suspended" THEN "suspended" ELSE c.status,
                 identity |-> IF c.found THEN Found(a) ELSE a.identity]
           own == OwnField[a.channel]
           b == WithChanges(a, p)
<1>1. Observed(a, c) = b
  BY DEF Observed
<1>2. DOMAIN p = {"status", "identity"} /\ p.identity = (IF c.found THEN Found(a) ELSE a.identity)
  OBVIOUS
<1> HIDE DEF p
<1>3. b = [channel |-> a.channel, provider |-> a.provider, credentials |-> a.credentials,
           status |-> p.status, identity |-> p.identity]
  BY <1>2, ChangedFields
<1>4. /\ IsAccount(b) /\ b.credentials = a.credentials /\ b.channel = a.channel /\ b.provider = a.provider
      /\ b.identity = p.identity
  BY <1>3 DEF IsAccount
<1>5. IsOwn(a.channel, a.identity) => IsOwn(a.channel, p.identity)
  <2>1. SUFFICES ASSUME IsOwn(a.channel, a.identity) PROVE IsOwn(a.channel, Found(a))
    BY <1>2
  <2>2. DOMAIN a.identity = {own}
    BY <2>1 DEF IsOwn
  <2> HIDE DEF own
  <2>3. Found(a) = [x \in {own} |-> "found"]
    BY <2>2 DEF Found, own
  <2>4. DOMAIN Found(a) = {own} /\ Found(a) = [f \in {own} |-> Found(a)[f]] /\ Found(a)[own] = "found"
    BY <2>3
  <2> QED
    BY <2>4 DEF IsOwn, own
<1> QED
  BY <1>1, <1>4, <1>5 DEF Whole, HasRequiredCredentials

---------------------------------------------------------------------------
\* The changes in their turns

\* A change that joins them was checked against the account as it is.
LEMMA WaitsKeeps ==
    ASSUME FileInv, NEW c \in ChangeType, Waits(c), Checked(memory, c)
    PROVE  FileInv'
<1>1. /\ queue \in Seq(ChangeType) /\ queue' = Append(queue, c) /\ queue' \in Seq(ChangeType)
      /\ up /\ UNCHANGED <<memory, yaml, unwritten, up, flawed, failures>>
  BY DEF Waits, FileInv, QueueInv
<1>2. /\ Len(queue) \in Nat /\ DOMAIN queue' = 1 .. Len(queue) + 1 /\ queue'[Len(queue) + 1] = c
      /\ DOMAIN queue = 1 .. Len(queue) /\ \A i \in DOMAIN queue : queue'[i] = queue[i]
  BY <1>1
<1>3. ASSUME NEW i \in DOMAIN queue' PROVE Checked(memory', queue'[i])
  <2>1. Checked(memory, queue'[i])
    BY <1>2 DEF FileInv, QueueInv
  <2> QED
    BY <1>1, <2>1 DEF Checked
<1>4. QueueInv'
  BY <1>1, <1>3 DEF QueueInv, Checked
<1>5. (AccountOrNone(memory) /\ AccountOrNone(yaml))'
  BY <1>1 DEF FileInv, AccountOrNone, IsAccount
<1>6. (~flawed => WholeOrNone(yaml) /\ (up => WholeOrNone(memory)))'
  BY <1>1 DEF FileInv, WholeOrNone, Whole, IsAccount, HasRequiredCredentials, IsOwn
<1> QED
  BY <1>1, <1>4, <1>5, <1>6 DEF FileInv

\* The first has ended, and leaves an account that keeps its credentials, or one where none was.
LEMMA EndedKeeps ==
    ASSUME QueueInv, queue # <<>>, queue' = Tail(queue),
           memory # NoAccount => memory' # NoAccount /\ (memory.credentials => memory'.credentials)
    PROVE  QueueInv'
<1>1. /\ queue \in Seq(ChangeType) /\ queue' \in Seq(ChangeType)
      /\ \A i \in DOMAIN queue' : i + 1 \in DOMAIN queue /\ queue'[i] = queue[i + 1]
  BY DEF QueueInv
<1>2. ASSUME NEW i \in DOMAIN queue' PROVE Checked(memory', queue'[i])
  <2>1. Checked(memory, queue[i + 1])
    BY <1>1 DEF QueueInv
  <2> QED
    BY <1>1, <2>1 DEF Checked
<1> QED
  BY <1>1, <1>2 DEF QueueInv, Checked

\* The account is gone: so says every update that waits.
LEMMA OutlivedKeeps ==
    ASSUME QueueInv, queue # <<>>, queue' = Outlived(Tail(queue))
    PROVE  QueueInv'
<1> DEFINE rest == Tail(queue)
<1>1. rest \in Seq(ChangeType)
  BY DEF QueueInv
<1> HIDE DEF rest
<1>2. /\ queue' = [i \in DOMAIN rest |->
                    IF rest[i].op = "update" THEN [rest[i] EXCEPT !.gone = TRUE] ELSE rest[i]]
      /\ DOMAIN rest = 1 .. Len(rest) /\ Len(rest) \in Nat
  BY <1>1 DEF Outlived, rest
<1>3. ASSUME NEW i \in DOMAIN rest
      PROVE  queue'[i] \in ChangeType /\ (queue'[i].op = "update" => queue'[i].gone)
  <2>1. rest[i] \in ChangeType
    BY <1>1
  <2>2. CASE rest[i].op = "update"
    <3>1. rest[i] \in [op : {"update"}, partial : Body, gone : BOOLEAN]
      BY <2>1, <2>2 DEF ChangeType
    <3>2. queue'[i] = [rest[i] EXCEPT !.gone = TRUE]
      BY <1>2, <2>2
    <3>3. queue'[i] \in [op : {"update"}, partial : Body, gone : BOOLEAN] /\ queue'[i].gone
      BY <3>1, <3>2
    <3> QED
      BY <3>3 DEF ChangeType
  <2>3. CASE rest[i].op # "update"
    <3>1. queue'[i] = rest[i]
      BY <1>2, <2>3
    <3> QED
      BY <2>1, <2>3, <3>1
  <2> QED
    BY <2>2, <2>3
<1>4. DOMAIN queue' = 1 .. Len(rest)
  BY <1>2
<1>5. queue' \in Seq(ChangeType)
  BY <1>2, <1>3, <1>4, IsASeq
<1> QED
  BY <1>2, <1>3, <1>4, <1>5 DEF QueueInv, Checked

---------------------------------------------------------------------------
\* The steps of the repository

LEMMA CreateKeeps ==
    ASSUME FileInv, CallCreate
    PROVE  FileInv'
<1> DEFINE Made(c, p, k, s, i) ==
               [channel |-> c, provider |-> p, credentials |-> k, status |-> s, identity |-> i]
           Given(c, raw) == IF raw = Absent THEN DefaultIdentity(c) ELSE IdentitySchema(raw)
           Accepted(account) ==
               /\ HasRequiredCredentials(account)
               /\ account.identity # Invalid
               /\ Waits([op |-> "save", account |-> account])
<1>0. PICK channel \in Channel, provider \in {"selfAuth", "keyed"}, credentials \in BOOLEAN :
          \E raw \in NewIdentity[channel], status \in {"unchecked", "suspended"} :
              Accepted(Made(channel, provider, credentials, status, Given(channel, raw)))
  BY DEF CallCreate
<1>1. PICK raw \in NewIdentity[channel], status \in {"unchecked", "suspended"} :
          Accepted(Made(channel, provider, credentials, status, Given(channel, raw)))
  BY <1>0
<1> DEFINE i == Given(channel, raw)
           a == Made(channel, provider, credentials, status, i)
           c == [op |-> "save", account |-> a]
<1>2. i \in Identity
  BY <1>1 DEF Identity
<1> HIDE DEF i
<1>3. a \in NewAccount
  <2>1. /\ a \in [channel : Channel, provider : Provider, credentials : BOOLEAN, status : Status, identity : Identity]
        /\ HasRequiredCredentials(a)
    BY <1>1, <1>2 DEF Provider, Status, i
  <2> QED
    BY <2>1 DEF NewAccount
<1> HIDE DEF a
<1>4. c \in ChangeType /\ c.op = "save"
  BY <1>3 DEF ChangeType
<1> QED
  BY <1>1, <1>4, WaitsKeeps DEF Checked, a, i

LEMMA UpdateKeeps ==
    ASSUME FileInv, CallUpdate
    PROVE  FileInv'
<1>1. PICK body \in Updates(memory) :
          /\ HasRequiredCredentials(WithChanges(memory, body))
          /\ Waits([op |-> "update", partial |-> body, gone |-> FALSE])
  BY DEF CallUpdate
<1>2. IsAccount(memory) /\ memory # NoAccount
  BY DEF CallUpdate, FileInv, AccountOrNone
<1>3. body \in Body
  <2>1. CASE \E raw \in PutIdentity[memory.channel] : body = [identity |-> IdentitySchema(raw)]
    <3>1. PICK raw \in PutIdentity[memory.channel] : body = [identity |-> IdentitySchema(raw)]
      BY <2>1
    <3>2. IdentitySchema(raw) \in Identity
      BY <1>2 DEF IsAccount, Identity
    <3> QED
      BY <3>1, <3>2 DEF Body
  <2>2. CASE \E p \in {"selfAuth", "keyed"} : body = [provider |-> p]
    BY <2>2 DEF Body, Provider
  <2>3. CASE \E s \in {"active", "suspended"} : body = [status |-> s]
    BY <2>3 DEF Body, Status
  <2>4. CASE body = [credentials |-> TRUE]
    BY <2>4 DEF Body
  <2> QED
    BY <2>1, <2>2, <2>3, <2>4 DEF Updates
<1>4. body \in [provider : {"keyed"}] => memory.credentials
  <2>1. SUFFICES ASSUME body \in [provider : {"keyed"}] PROVE memory.credentials
    OBVIOUS
  <2>2. DOMAIN body = {"provider"} /\ body.provider = "keyed"
    BY <2>1
  <2>3. /\ WithChanges(memory, body).provider = "keyed"
        /\ WithChanges(memory, body).credentials = memory.credentials
    BY <1>2, <2>2, ChangedFields
  <2> QED
    BY <1>1, <2>3 DEF HasRequiredCredentials
<1> DEFINE c == [op |-> "update", partial |-> body, gone |-> FALSE]
<1>5. c \in ChangeType
  BY <1>3 DEF ChangeType
<1>6. Checked(memory, c)
  BY <1>2, <1>4 DEF Checked
<1> HIDE DEF c
<1> QED
  BY <1>1, <1>5, <1>6, WaitsKeeps DEF c

LEMMA OtherCallsKeep ==
    ASSUME FileInv, CallRemove \/ CallObserve
    PROVE  FileInv'
<1>1. CASE CallRemove
  <2>1. [op |-> "remove"] \in ChangeType /\ Checked(memory, [op |-> "remove"])
    BY DEF ChangeType, Checked
  <2> QED
    BY <1>1, <2>1, WaitsKeeps DEF CallRemove
<1>2. CASE CallObserve
  <2>1. PICK status \in {"active", "unchecked"}, found \in BOOLEAN :
            Waits([op |-> "observe", status |-> status, found |-> found])
    BY <1>2 DEF CallObserve
  <2> DEFINE c == [op |-> "observe", status |-> status, found |-> found]
  <2>2. c \in ChangeType /\ Checked(memory, c)
    BY DEF ChangeType, Status, Checked
  <2> QED
    BY <2>1, <2>2, WaitsKeeps
<1> QED
  BY <1>1, <1>2

\* What the first change makes of the account, if it applies: an account that keeps its
\* credentials, or none; and a whole one, or none, unless the file is flawed then.
LEMMA ChangedIs ==
    ASSUME FileInv, up, queue # <<>>, Applies
    PROVE  /\ AccountOrNone(Changed) /\ Flawed \in BOOLEAN
           /\ ~Flawed => WholeOrNone(Changed)
           /\ Change.op # "remove" =>
                  (memory # NoAccount => Changed # NoAccount /\ (memory.credentials => Changed.credentials))
           /\ Change.op = "observe" => Flawed = flawed
           /\ Change.op = "remove" => memory # NoAccount /\ Changed = NoAccount
<1>1. Change \in ChangeType /\ Change = queue[1] /\ 1 \in DOMAIN queue /\ Checked(memory, Change)
  BY DEF FileInv, QueueInv, Change
<1>2. CASE Change.op = "save"
  <2>1. Change \in [op : {"save"}, account : NewAccount]
    BY <1>1, <1>2 DEF ChangeType
  <2>2. /\ Changed = Change.account /\ Flawed = ~IsOwn(Change.account.channel, Change.account.identity)
        /\ Change.account \in NewAccount
    BY <1>2, <2>1 DEF Changed, Flawed
  <2>3. IsAccount(Change.account) /\ HasRequiredCredentials(Change.account)
    BY <2>2 DEF NewAccount, IsAccount
  <2>4. Flawed \in BOOLEAN
    BY <2>2 DEF IsOwn
  <2> QED
    BY <1>2, <2>2, <2>3, <2>4 DEF Applies, AccountOrNone, WholeOrNone, Whole
<1>3. CASE Change.op = "remove"
  BY <1>3 DEF Applies, Changed, Flawed, AccountOrNone, WholeOrNone
<1>4. CASE Change.op = "update"
  <2>1. Change \in [op : {"update"}, partial : Body, gone : BOOLEAN]
    BY <1>1, <1>4 DEF ChangeType
  <2> DEFINE p == Change.partial
  <2>2. /\ memory # NoAccount /\ IsAccount(memory) /\ Changed = WithChanges(memory, p) /\ p \in Body
        /\ Flawed = (\/ flawed \/ Change.gone
                     \/ "identity" \in DOMAIN p /\ ~IsOwn(memory.channel, p.identity))
    BY <1>4, <2>1 DEF FileInv, AccountOrNone, Applies, Changed, Flawed
  <2>3. Flawed \in BOOLEAN
    <3>1. flawed \in BOOLEAN /\ Change.gone \in BOOLEAN
      BY <2>1 DEF FileInv
    <3> QED
      BY <2>2, <3>1 DEF IsOwn
  <2>4. ~Flawed => /\ ~flawed /\ ~Change.gone /\ Whole(memory)
                   /\ "identity" \in DOMAIN p => IsOwn(memory.channel, p.identity)
    BY <2>2 DEF FileInv, WholeOrNone
  <2>5. ~Flawed => (p \in [provider : {"keyed"}] => memory.credentials)
    BY <1>1, <1>4, <2>4 DEF Checked
  <2>6. IsAccount(Changed) /\ Changed # NoAccount /\ (memory.credentials => Changed.credentials)
    BY <2>2, BodyKeeps, AccountIsSome
  <2>7. ~Flawed => Whole(Changed)
    BY <2>2, <2>4, <2>5, BodyKeeps
  <2> QED
    BY <1>4, <2>3, <2>6, <2>7 DEF AccountOrNone, WholeOrNone
<1>5. CASE Change.op = "observe"
  <2>1. /\ memory # NoAccount /\ IsAccount(memory) /\ Changed = Observed(memory, Change) /\ Flawed = flawed
        /\ flawed \in BOOLEAN
    BY <1>5 DEF FileInv, AccountOrNone, Applies, Changed, Flawed
  <2>2. Change.found \in BOOLEAN
    BY <1>1, <1>5 DEF ChangeType
  <2>3. /\ IsAccount(Changed) /\ Changed.credentials = memory.credentials
        /\ Whole(memory) => Whole(Changed)
    BY <2>1, <2>2, ObservedIs
  <2>4. ~flawed => Whole(memory)
    BY <2>1 DEF FileInv, WholeOrNone
  <2> QED
    BY <1>5, <2>1, <2>3, <2>4, AccountIsSome DEF AccountOrNone, WholeOrNone
<1> QED
  BY <1>1, <1>2, <1>3, <1>4, <1>5 DEF ChangeType

LEMMA WriteKeeps ==
    ASSUME ChannelsKnown, FileInv, Ignored \/ Commit \/ WriteFails
    PROVE  FileInv'
<1>1. up /\ up' /\ queue # <<>> /\ up' = up
  BY DEF Ignored, Commit, WriteFails, Ended
<1>2. CASE Ignored
  <2>1. queue' = Tail(queue) /\ UNCHANGED <<memory, yaml, unwritten, flawed>>
    BY <1>2 DEF Ignored, Ended
  <2>2. QueueInv'
    BY <1>1, <2>1, EndedKeeps DEF FileInv
  <2> QED
    BY <1>1, <2>1, <2>2 DEF FileInv
<1>3. CASE Commit
  <2>1. /\ Applies /\ memory' = Changed /\ yaml' = ToYaml(Changed) /\ ~unwritten' /\ flawed' = Flawed
        /\ queue' = IF Change.op = "remove" THEN Outlived(Tail(queue)) ELSE Tail(queue)
        /\ unwritten' \in BOOLEAN
    BY <1>3 DEF Commit
  <2>2. AccountOrNone(memory') /\ AccountOrNone(yaml') /\ flawed' \in BOOLEAN
    BY <1>1, <2>1, ChangedIs, AccountStays
  <2>3. ~flawed' => WholeOrNone(memory') /\ WholeOrNone(yaml')
    <3>1. ~flawed' => WholeOrNone(Changed)
      BY <1>1, <2>1, ChangedIs
    <3> QED
      BY <2>1, <3>1, WholeLoads
  <2>4. QueueInv'
    BY <1>1, <2>1, ChangedIs, EndedKeeps, OutlivedKeeps DEF FileInv
  <2> QED
    BY <1>1, <2>1, <2>2, <2>3, <2>4 DEF FileInv
<1>4. CASE WriteFails
  <2>1. Applies /\ UNCHANGED <<yaml, flawed>> /\ queue' = Tail(queue)
    BY <1>4 DEF WriteFails, Ended
  <2>2. CASE Change.op = "observe"
    <3>1. memory' = Changed /\ unwritten' = TRUE
      BY <1>4, <2>2 DEF WriteFails
    <3>2. /\ AccountOrNone(memory')
          /\ memory # NoAccount => memory' # NoAccount /\ (memory.credentials => memory'.credentials)
          /\ ~flawed => WholeOrNone(memory')
      BY <1>1, <2>1, <2>2, <3>1, ChangedIs
    <3>3. QueueInv'
      BY <1>1, <2>1, <3>2, EndedKeeps DEF FileInv
    <3> QED
      BY <1>1, <2>1, <3>1, <3>2, <3>3 DEF FileInv
  <2>3. CASE Change.op # "observe"
    <3>1. UNCHANGED <<memory, unwritten>>
      BY <1>4, <2>3 DEF WriteFails
    <3>2. QueueInv'
      BY <1>1, <2>1, <3>1, EndedKeeps DEF FileInv
    <3> QED
      BY <1>1, <2>1, <3>1, <3>2 DEF FileInv
  <2> QED
    BY <2>2, <2>3
<1> QED
  BY <1>2, <1>3, <1>4

LEMMA EmptyQueue == queue = <<>> => QueueInv
BY DEF QueueInv

\* The process ends and starts again: the queue is gone, and the file is what is loaded.
LEMMA RestartKeeps ==
    ASSUME ChannelsKnown, FileInv, Stop \/ Start
    PROVE  FileInv'
<1>1. CASE Stop
  <2>1. /\ up /\ up' = FALSE /\ queue' = <<>> /\ UNCHANGED <<memory, unwritten>>
        /\ \/ UNCHANGED <<yaml, flawed>>
           \/ queue # <<>> /\ Applies /\ yaml' = ToYaml(Changed) /\ flawed' = Flawed
    BY <1>1 DEF Stop
  <2>2. QueueInv'
    BY <2>1 DEF QueueInv
  <2>3. CASE UNCHANGED <<yaml, flawed>>
    BY <2>1, <2>2, <2>3 DEF FileInv
  <2>4. CASE queue # <<>> /\ Applies /\ yaml' = ToYaml(Changed) /\ flawed' = Flawed
    <3>1. AccountOrNone(Changed) /\ Flawed \in BOOLEAN /\ (~Flawed => WholeOrNone(Changed))
      BY <2>1, <2>4, ChangedIs
    <3>2. AccountOrNone(yaml') /\ (~flawed' => WholeOrNone(yaml'))
      BY <2>4, <3>1, AccountStays, WholeLoads
    <3> QED
      BY <2>1, <2>2, <2>4, <3>1, <3>2 DEF FileInv
  <2> QED
    BY <2>1, <2>3, <2>4
<1>2. CASE Start
  <2> DEFINE loaded == LoadedAccount(yaml)
  <2>1. /\ up' = TRUE /\ queue = <<>> /\ queue' = queue /\ yaml' = yaml /\ flawed' = flawed
        /\ \/ memory' = loaded /\ unwritten' = FALSE
           \/ /\ loaded # NoAccount
              /\ \E found \in BOOLEAN : memory' = Observed(loaded, [status |-> "active", found |-> found])
              /\ unwritten' = TRUE
    BY <1>2 DEF Start, FileInv
  <2>2. AccountOrNone(loaded) /\ (~flawed => WholeOrNone(loaded))
    BY AccountStays, WholeLoads DEF FileInv
  <2> HIDE DEF loaded
  <2>3. QueueInv'
    BY <2>1 DEF QueueInv
  <2>4. CASE memory' = loaded /\ unwritten' = FALSE
    BY <2>1, <2>2, <2>3, <2>4 DEF FileInv, loaded
  <2>5. CASE /\ loaded # NoAccount /\ unwritten' = TRUE
             /\ \E found \in BOOLEAN : memory' = Observed(loaded, [status |-> "active", found |-> found])
    <3>1. PICK found \in BOOLEAN : memory' = Observed(loaded, [status |-> "active", found |-> found])
      BY <2>5
    <3>2. IsAccount(loaded) /\ (~flawed => Whole(loaded))
      BY <2>2, <2>5 DEF AccountOrNone, WholeOrNone
    <3>3. IsAccount(memory') /\ (~flawed => Whole(memory'))
      BY <3>1, <3>2, ObservedIs
    <3>4. AccountOrNone(memory') /\ (~flawed => WholeOrNone(memory'))
      BY <3>3 DEF AccountOrNone, WholeOrNone
    <3> QED
      BY <2>1, <2>3, <2>5, <3>4 DEF FileInv
  <2> QED
    BY <2>1, <2>4, <2>5
<1> QED
  BY <1>1, <1>2

LEMMA FileKeeps == ChannelsKnown /\ FileInv /\ [FileNext]_fileVars => FileInv'
<1> SUFFICES ASSUME ChannelsKnown, FileInv, [FileNext]_fileVars PROVE FileInv'
  OBVIOUS
<1>1. CASE UNCHANGED fileVars
  BY <1>1 DEF fileVars, FileInv, QueueInv
<1>2. CASE FileNext
  BY <1>2, CreateKeeps, UpdateKeeps, OtherCallsKeep, WriteKeeps, RestartKeeps DEF FileNext
<1> QED
  BY <1>1, <1>2

\* Whatever requests and checks come in which order, whichever identities they bring and whichever
\* writes fail: memory is what was written last, or read, but for an observation that could not be
\* written yet. And while nobody gave the account an identity that its channel has no use for, nor
\* a change that was checked against an account deleted since, the next start loads the file and
\* gets from it what is in memory.
THEOREM NextStartGetsMemory == ChannelsKnown /\ FileSpec => []MemoryIsNextStart
<1> SUFFICES ASSUME ChannelsKnown PROVE FileSpec => []MemoryIsNextStart
  OBVIOUS
<1>1. FileInit => FileInv
  <2>1. FileInit => QueueInv
    BY EmptyQueue DEF FileInit
  <2>2. ToYaml(NoAccount) = NoAccount
    BY DEF ToYaml
  <2> QED
    BY <2>1, <2>2 DEF FileInit, FileInv, AccountOrNone, WholeOrNone
<1>2. FileInv /\ [FileNext]_fileVars => FileInv'
  BY FileKeeps
<1>3. FileInv => MemoryIsNextStart
  <2> SUFFICES ASSUME FileInv PROVE MemoryIsNextStart
    OBVIOUS
  <2>1. ASSUME ~flawed PROVE Loads(yaml) /\ (up /\ ~unwritten => LoadedAccount(yaml) = memory)
    <3>1. Loads(yaml) /\ LoadedAccount(yaml) = yaml
      BY <2>1, WholeLoads DEF FileInv
    <3>2. up => ToYaml(memory) = memory
      BY <2>1, WholeLoads DEF FileInv
    <3> QED
      BY <3>1, <3>2 DEF FileInv
  <2> QED
    BY <2>1 DEF FileInv, MemoryIsNextStart
<1> QED
  BY <1>1, <1>2, <1>3, PTL DEF FileSpec

---------------------------------------------------------------------------
(***************************************************************************)
(* Proofs about SqliteMessageLog, for any accounts, envelopes, rows and    *)
(* size of a batch: each step is one of MessageLog or none. In an account  *)
(* a higher number is a younger row, so a purge of the oldest rows leaves  *)
(* the highest number, and the counter, which may be one behind, stays     *)
(* above what is left.                                                     *)
(***************************************************************************)

\* Rows of the table, typed; what was stored later is later in every order.
SqliteType ==
    /\ clock \in Nat /\ lastSeq \in Nat /\ purging \in Nat
    /\ counters \in [Account -> Nat]
    /\ \A r \in table : /\ r.id \in Envelope /\ r.accountSeq \in Nat
                        /\ r.createdAt \in Nat /\ r.createdAt <= clock
                        /\ r.seq \in Nat /\ r.seq <= lastSeq

\* In an account a higher number is a younger row.
RowsByAge ==
    \A r, s \in table : AccountOf[r.id] = AccountOf[s.id] /\ r.accountSeq < s.accountSeq => Before(r, s)

\* No counter would hand out a number below its rows.
NextIsAbove ==
    \A r \in table : LET n == counters[AccountOf[r.id]]
                     IN  r.accountSeq <= n \/ NumberTaken(table, AccountOf[r.id], n + 1)

SqliteInv == SqliteType /\ RowsByAge /\ NextIsAbove /\ (purging # NotPurging => CaughtUp)
---------------------------------------------------------------------------
\* The rows of the log are those of the table, without their place.
LEMMA RowsAre ==
    /\ \A r \in table : \E q \in rows : q.id = r.id /\ q.accountSeq = r.accountSeq
    /\ \A q \in rows : \E r \in table : q.id = r.id /\ q.accountSeq = r.accountSeq
    /\ \A a, n : NumberTaken(rows, a, n) <=> NumberTaken(table, a, n)
    /\ \A a, n : PastAll(rows, a, n) <=> PastAll(table, a, n)
<1> DEFINE P(r) == [id |-> r.id, accountSeq |-> r.accountSeq, createdAt |-> r.createdAt]
<1>1. \A r : P(r).id = r.id /\ P(r).accountSeq = r.accountSeq
  OBVIOUS
<1>2. rows = {P(r) : r \in table}
  BY DEF rows
<1> HIDE DEF P
<1>3. \A r \in table : \E q \in rows : q.id = r.id /\ q.accountSeq = r.accountSeq
  BY <1>1, <1>2
<1>4. \A q \in rows : \E r \in table : q.id = r.id /\ q.accountSeq = r.accountSeq
  BY <1>1, <1>2
<1>5. \A a, n : NumberTaken(rows, a, n) <=> NumberTaken(table, a, n)
  BY <1>3, <1>4 DEF NumberTaken, AccountRows
<1>6. \A a, n : PastAll(rows, a, n) <=> PastAll(table, a, n)
  BY <1>3, <1>4, <1>5 DEF PastAll, AccountRows
<1> QED
  BY <1>3, <1>4, <1>5, <1>6

\* What an insert stores is above all rows of its account, and so is the counter it leaves.
LEMMA InsertIsAbove ==
    ASSUME SqliteInv, CountersFit, NEW e \in Envelope, NEW n \in Nat,
           ~NumberTaken(rows, AccountOf[e], n),
           \/ n = Bumped(e)
           \/ NumberTaken(rows, AccountOf[e], Bumped(e)) /\ PastAll(rows, AccountOf[e], n)
    PROVE  /\ \A r \in table : AccountOf[r.id] = AccountOf[e] => r.accountSeq < n
           /\ CaughtUp => n = Bumped(e)
<1>1. AccountOf[e] \in Account /\ counters[AccountOf[e]] \in Nat
  BY AccountOfAssumption DEF SqliteInv, SqliteType
<1>2. /\ ~NumberTaken(table, AccountOf[e], n)
      /\ \/ n = Bumped(e)
         \/ NumberTaken(table, AccountOf[e], Bumped(e)) /\ PastAll(table, AccountOf[e], n)
  BY RowsAre
<1>3. CASE n = Bumped(e)
  <2>1. ASSUME NEW r \in table, AccountOf[r.id] = AccountOf[e] PROVE r.accountSeq < n
    <3>1. r.accountSeq <= counters[AccountOf[e]]
      BY <1>2, <1>3, <2>1 DEF SqliteInv, NextIsAbove, Bumped
    <3> QED
      BY <1>1, <1>3, <3>1 DEF Bumped, SqliteInv, SqliteType
  <2> QED
    BY <1>3, <2>1
<1>4. CASE NumberTaken(table, AccountOf[e], Bumped(e)) /\ PastAll(table, AccountOf[e], n)
  <2>1. \A r \in table : AccountOf[r.id] = AccountOf[e] => r.accountSeq < n
    BY <1>4 DEF PastAll, AccountRows
  <2>2. ~CaughtUp
    <3>1. PICK r \in table : AccountOf[r.id] = AccountOf[e] /\ r.accountSeq = counters[AccountOf[e]] + 1
      BY <1>4 DEF NumberTaken, AccountRows, Bumped
    <3> QED
      BY <1>1, <3>1 DEF CaughtUp
  <2> QED
    BY <2>1, <2>2
<1> QED
  BY <1>2, <1>3, <1>4

\* The row of an insert, in the table and in the log.
LEMMA InsertIs ==
    ASSUME SqliteInv, CountersFit, NEW e \in Envelope, InsertNew(e) \/ InsertResynced(e)
    PROVE  \E n \in Nat : /\ InsertWith(e, n)
                          /\ ~NumberTaken(rows, AccountOf[e], n) /\ Holding(rows, e) = {}
                          /\ \/ n = Bumped(e)
                             \/ NumberTaken(rows, AccountOf[e], Bumped(e)) /\ PastAll(rows, AccountOf[e], n)
<1>1. Bumped(e) \in Nat
  BY AccountOfAssumption DEF SqliteInv, SqliteType, Bumped
<1>2. CASE InsertNew(e)
  BY <1>1, <1>2 DEF InsertNew, InsertWith, Conflicts
<1>3. CASE InsertResynced(e)
  <2>1. PICK n \in 1 .. MaxSeq + 1 : PastAll(rows, AccountOf[e], n) /\ InsertWith(e, n)
    BY <1>3 DEF InsertResynced
  <2>2. n \in Nat
    BY DEF CountersFit
  <2>3. NumberTaken(rows, AccountOf[e], Bumped(e)) /\ Holding(rows, e) = {}
    BY <1>3 DEF InsertResynced, Conflicts
  <2> QED
    BY <2>1, <2>2, <2>3 DEF InsertWith, Conflicts
<1> QED
  BY <1>2, <1>3

LEMMA InsertKeeps ==
    ASSUME SqliteInv, CountersFit, NEW e \in Envelope, InsertNew(e) \/ InsertResynced(e),
           UNCHANGED <<purging, clock>>
    PROVE  SqliteInv'
<1>1. PICK n \in Nat : /\ InsertWith(e, n)
                       /\ ~NumberTaken(rows, AccountOf[e], n)
                       /\ \/ n = Bumped(e)
                          \/ NumberTaken(rows, AccountOf[e], Bumped(e)) /\ PastAll(rows, AccountOf[e], n)
  BY InsertIs
<1>2. /\ \A r \in table : AccountOf[r.id] = AccountOf[e] => r.accountSeq < n
      /\ CaughtUp => n = Bumped(e)
  BY <1>1, InsertIsAbove
<1>3. PICK x : x = [id |-> e, accountSeq |-> n, createdAt |-> clock, seq |-> lastSeq + 1]
  OBVIOUS
<1>4. /\ table' = table \union {x} /\ lastSeq' = lastSeq + 1 /\ UNCHANGED <<purging, clock>>
      /\ counters' = [counters EXCEPT ![AccountOf[e]] = n]
      /\ x.id = e /\ x.accountSeq = n /\ x.createdAt = clock /\ x.seq = lastSeq + 1
  BY <1>1, <1>3 DEF InsertWith
<1>5. AccountOf[e] \in Account /\ \A r \in table : AccountOf[r.id] \in Account
  BY AccountOfAssumption DEF SqliteInv, SqliteType
<1>6. /\ counters' \in [Account -> Nat] /\ counters'[AccountOf[e]] = n
      /\ \A a \in Account \ {AccountOf[e]} : counters'[a] = counters[a]
  BY <1>4, <1>5 DEF SqliteInv, SqliteType
<1>7. SqliteType'
  BY <1>4, <1>6 DEF SqliteInv, SqliteType
<1>8. RowsByAge'
  <2> SUFFICES ASSUME NEW r \in table', NEW s \in table',
                      AccountOf[r.id] = AccountOf[s.id], r.accountSeq < s.accountSeq
               PROVE  Before(r, s)
    BY DEF RowsByAge
  <2>1. CASE r \in table /\ s \in table
    BY <2>1 DEF SqliteInv, RowsByAge
  <2>2. CASE r \in table /\ s = x
    BY <1>4, <2>2 DEF SqliteInv, SqliteType, Before
  <2>3. CASE r = x /\ s \in table
    <3>1. s.accountSeq < n /\ s.accountSeq \in Nat
      BY <1>2, <1>4, <2>3 DEF SqliteInv, SqliteType
    <3> QED
      BY <1>4, <2>3, <3>1
  <2>4. r # x \/ s # x
    BY <1>4
  <2> QED
    BY <1>4, <2>1, <2>2, <2>3, <2>4
<1>9. NextIsAbove'
  <2> SUFFICES ASSUME NEW r \in table'
               PROVE  \/ r.accountSeq <= counters'[AccountOf[r.id]]
                      \/ NumberTaken(table', AccountOf[r.id], counters'[AccountOf[r.id]] + 1)
    BY DEF NextIsAbove
  <2>1. CASE AccountOf[r.id] = AccountOf[e]
    BY <1>2, <1>4, <1>6, <2>1 DEF SqliteInv, SqliteType
  <2>2. CASE AccountOf[r.id] # AccountOf[e]
    <3>1. r \in table /\ counters'[AccountOf[r.id]] = counters[AccountOf[r.id]]
      BY <1>4, <1>5, <1>6, <2>2
    <3>2. table \subseteq table'
      BY <1>4
    <3> QED
      BY <3>1, <3>2 DEF SqliteInv, NextIsAbove, NumberTaken, AccountRows
  <2> QED
    BY <2>1, <2>2
<1>10. ASSUME purging' # NotPurging PROVE CaughtUp'
  <2>1. CaughtUp
    BY <1>4, <1>10 DEF SqliteInv
  <2> SUFFICES ASSUME NEW r \in table' PROVE r.accountSeq <= counters'[AccountOf[r.id]]
    BY DEF CaughtUp
  <2>2. CASE AccountOf[r.id] = AccountOf[e]
    BY <1>2, <1>4, <1>6, <2>2 DEF SqliteInv, SqliteType
  <2>3. CASE AccountOf[r.id] # AccountOf[e]
    <3>1. r \in table /\ counters'[AccountOf[r.id]] = counters[AccountOf[r.id]]
      BY <1>4, <1>5, <1>6, <2>3
    <3> QED
      BY <2>1, <3>1 DEF CaughtUp
  <2> QED
    BY <2>2, <2>3
<1> QED
  BY <1>7, <1>8, <1>9, <1>10 DEF SqliteInv

\* A batch goes, of a table whose counters are at the last numbers.
LEMMA BatchKeeps ==
    ASSUME SqliteInv, CaughtUp, NEW cutoff, cutoff \in Nat, DeleteBatch(cutoff)
    PROVE  SqliteInv'
<1>1. table' \subseteq table /\ UNCHANGED <<counters, answer, lastSeq, clock>> /\ purging' \in Nat
  BY DEF DeleteBatch, NotPurging
<1>2. CaughtUp'
  BY <1>1 DEF CaughtUp
<1>3. SqliteType' /\ RowsByAge'
  BY <1>1 DEF SqliteInv, SqliteType, RowsByAge
<1>4. NextIsAbove'
  BY <1>2 DEF CaughtUp, NextIsAbove
<1> QED
  BY <1>2, <1>3, <1>4 DEF SqliteInv

LEMMA SqliteStarts == CountersFit /\ SqliteInit => SqliteInv
<1> SUFFICES ASSUME CountersFit, SqliteInit PROVE SqliteInv
  OBVIOUS
<1>1. PICK n : n = Cardinality(InitialRows)
  OBVIOUS
<1>2. n \in Nat
  BY <1>1, InitialAssumption, FS_CardinalityType
<1>3. PICK place \in [InitialRows -> 1 .. n] :
           /\ \A r, s \in InitialRows : AccountOf[r.id] = AccountOf[s.id] /\ r.accountSeq < s.accountSeq => place[r] < place[s]
           /\ table = {[id |-> r.id, accountSeq |-> r.accountSeq, createdAt |-> r.createdAt, seq |-> place[r]] : r \in InitialRows}
  BY <1>1 DEF SqliteInit
<1>4. counters = InitialCounters /\ lastSeq = n /\ clock = 0 /\ purging = NotPurging
  BY <1>1 DEF SqliteInit
<1>5. /\ \A x \in table : \E r \in InitialRows : /\ x.id = r.id /\ x.accountSeq = r.accountSeq
                                                /\ x.createdAt = r.createdAt /\ x.seq = place[r]
      /\ \A r \in InitialRows : \E x \in table : x.id = r.id /\ x.accountSeq = r.accountSeq
  <2> DEFINE P(r) == [id |-> r.id, accountSeq |-> r.accountSeq, createdAt |-> r.createdAt, seq |-> place[r]]
  <2>1. \A r : /\ P(r).id = r.id /\ P(r).accountSeq = r.accountSeq
               /\ P(r).createdAt = r.createdAt /\ P(r).seq = place[r]
    OBVIOUS
  <2>2. table = {P(r) : r \in InitialRows}
    BY <1>3
  <2> HIDE DEF P
  <2> QED
    BY <2>1, <2>2
<1>6. \A r \in InitialRows : /\ r.id \in Envelope /\ r.accountSeq \in Nat /\ r.createdAt = 0
                             /\ place[r] \in 1 .. n
  BY InitialAssumption DEF Row
<1>7. SqliteType
  BY <1>2, <1>4, <1>5, <1>6, InitialAssumption DEF SqliteType, NotPurging
<1>8. RowsByAge
  BY <1>3, <1>5, <1>6 DEF RowsByAge, Before
<1>9. NextIsAbove
  <2> SUFFICES ASSUME NEW x \in table
               PROVE  \/ x.accountSeq <= counters[AccountOf[x.id]]
                      \/ NumberTaken(table, AccountOf[x.id], counters[AccountOf[x.id]] + 1)
    BY DEF NextIsAbove
  <2>1. PICK r \in InitialRows : x.id = r.id /\ x.accountSeq = r.accountSeq
    BY <1>5
  <2>2. \A a, k : NumberTaken(InitialRows, a, k) => NumberTaken(table, a, k)
    BY <1>5 DEF NumberTaken, AccountRows
  <2> QED
    BY <1>4, <2>1, <2>2 DEF CountersFit
<1> QED
  BY <1>4, <1>7, <1>8, <1>9 DEF SqliteInv

LEMMA SqliteKeeps == CountersFit /\ SqliteInv /\ [SqliteNext]_sqliteVars => SqliteInv'
<1> SUFFICES ASSUME CountersFit, SqliteInv, [SqliteNext]_sqliteVars PROVE SqliteInv'
  OBVIOUS
<1>1. ASSUME UNCHANGED <<table, counters, lastSeq>>, clock' = clock \/ clock' = clock + 1,
             purging' = purging \/ purging' = NotPurging
      PROVE  SqliteInv'
  BY <1>1 DEF SqliteInv, SqliteType, RowsByAge, NextIsAbove, CaughtUp, NotPurging
<1>2. ASSUME NEW e \in Envelope, InsertInbound(e) PROVE SqliteInv'
  <2>1. UNCHANGED <<purging, clock>>
    BY <1>2 DEF InsertInbound
  <2>2. CASE InsertDuplicate(e)
    BY <1>1, <2>1, <2>2 DEF InsertDuplicate
  <2> QED
    BY <1>2, <2>1, <2>2, InsertKeeps DEF InsertInbound
<1>3. ASSUME NEW cutoff \in 1 .. clock, CallDelete(cutoff) PROVE SqliteInv'
  <2>1. cutoff \in Nat
    BY DEF SqliteInv, SqliteType
  <2> QED
    BY <1>3, <2>1, BatchKeeps DEF CallDelete
<1>4. CASE NextBatch
  <2>1. purging \in Nat /\ CaughtUp /\ DeleteBatch(purging)
    BY <1>4 DEF NextBatch, SqliteInv, SqliteType
  <2>2. PICK cutoff : cutoff = purging
    OBVIOUS
  <2> QED
    BY <2>1, <2>2, BatchKeeps
<1>5. CASE Restart
  BY <1>1, <1>5 DEF Restart
<1>6. CASE SqliteTick
  BY <1>1, <1>6 DEF SqliteTick
<1>7. CASE UNCHANGED sqliteVars
  BY <1>1, <1>7 DEF sqliteVars
<1> QED
  BY <1>2, <1>3, <1>4, <1>5, <1>6, <1>7 DEF SqliteNext

---------------------------------------------------------------------------
\* What the log of the port does at each step

LEMMA StoredIsInsert ==
    ASSUME SqliteInv, CountersFit, NEW e \in Envelope, InsertNew(e) \/ InsertResynced(e)
    PROVE  Log!Insert(e)
<1>1. PICK n \in Nat : /\ InsertWith(e, n)
                       /\ ~NumberTaken(rows, AccountOf[e], n) /\ Holding(rows, e) = {}
                       /\ \/ n = Bumped(e)
                          \/ NumberTaken(rows, AccountOf[e], Bumped(e)) /\ PastAll(rows, AccountOf[e], n)
  BY InsertIs
<1>2. PICK row : row = [id |-> e, accountSeq |-> n, createdAt |-> clock]
  OBVIOUS
<1>3. /\ row.id = e /\ row.accountSeq = n
      /\ counters' = [counters EXCEPT ![AccountOf[e]] = n] /\ answer' = Log!Inserted(e, n)
  BY <1>1, <1>2 DEF InsertWith
<1>4. rows' = rows \union {row}
  <2>1. PICK x : x = [id |-> e, accountSeq |-> n, createdAt |-> clock, seq |-> lastSeq + 1]
    OBVIOUS
  <2>2. table' = table \union {x} /\ x.id = e /\ x.accountSeq = n /\ x.createdAt = clock
    BY <1>1, <2>1 DEF InsertWith
  <2> DEFINE P(r) == [id |-> r.id, accountSeq |-> r.accountSeq, createdAt |-> r.createdAt]
  <2>3. rows = {P(r) : r \in table} /\ rows' = {P(r) : r \in table'} /\ P(x) = row
    BY <1>2, <2>2 DEF rows
  <2> HIDE DEF P
  <2> QED
    BY <2>2, <2>3
<1>5. Log!Holding(rows, e) = {}
  BY <1>1 DEF Log!Holding, Holding, Log!SameWaMessage, SameWaMessage
<1>6. Log!NextNumber(AccountOf[e], n)
  BY <1>1 DEF Log!NextNumber, Log!NumberTaken, NumberTaken, Log!AccountRows, AccountRows, Log!PastAll, PastAll, Bumped
<1> QED
  BY <1>3, <1>4, <1>5, <1>6 DEF Log!Insert

LEMMA DuplicateIsAnswered ==
    ASSUME NEW e \in Envelope, InsertDuplicate(e)
    PROVE  Log!AnswerDuplicate(e)
<1>1. Log!Holding(rows, e) = Holding(rows, e)
  BY DEF Log!Holding, Holding, Log!SameWaMessage, SameWaMessage
<1>2. rows' = rows /\ counters' = counters
  BY DEF InsertDuplicate, rows
<1> QED
  BY <1>1, <1>2 DEF InsertDuplicate, Log!AnswerDuplicate

\* A batch takes the oldest rows, which have the lowest numbers of their accounts.
LEMMA BatchIsPurge ==
    ASSUME SqliteInv, NEW cutoff, cutoff \in Nat, DeleteBatch(cutoff)
    PROVE  Log!Purge
<1>1. PICK batch \in SUBSET Expired(cutoff) : IsBatch(batch, cutoff) /\ table' = table \ batch
  BY DEF DeleteBatch
<1>2. \A r \in table : r.createdAt \in Nat /\ r.seq \in Nat /\ r.accountSeq \in Nat
  BY DEF SqliteInv, SqliteType
\* Who stays is not older than who goes.
<1>3. ASSUME NEW r \in table \ batch, NEW s \in batch PROVE ~Before(r, s)
  <2>1. s \in table /\ s.createdAt < cutoff
    BY <1>1 DEF Expired
  <2>2. CASE r.createdAt < cutoff
    <3>1. r \in Expired(cutoff) \ batch
      BY <2>2 DEF Expired
    <3>2. Before(s, r)
      BY <1>1, <3>1 DEF IsBatch
    <3> QED
      BY <1>2, <2>1, <3>2 DEF Before
  <2>3. CASE ~(r.createdAt < cutoff)
    BY <1>2, <2>1, <2>3 DEF Before
  <2> QED
    BY <2>2, <2>3
<1>4. ASSUME NEW r \in table \ batch, NEW s \in table, AccountOf[r.id] = AccountOf[s.id], s.accountSeq > r.accountSeq
      PROVE  s \in table \ batch
  <2>1. Before(r, s)
    BY <1>2, <1>4 DEF SqliteInv, RowsByAge
  <2> QED
    BY <1>3, <2>1
<1> DEFINE P(r) == [id |-> r.id, accountSeq |-> r.accountSeq, createdAt |-> r.createdAt]
<1>5. \A r : P(r).id = r.id /\ P(r).accountSeq = r.accountSeq
  OBVIOUS
<1>6. rows = {P(r) : r \in table} /\ rows' = {P(r) : r \in table \ batch}
  BY <1>1 DEF rows
<1> HIDE DEF P
<1>7. rows' \subseteq rows
  BY <1>6
<1>8. ASSUME NEW p \in rows', NEW q \in rows, AccountOf[p.id] = AccountOf[q.id], q.accountSeq > p.accountSeq
      PROVE  q \in rows'
  <2>1. PICK r \in table \ batch : p = P(r)
    BY <1>6
  <2>2. PICK s \in table : q = P(s)
    BY <1>6
  <2>3. s \in table \ batch
    BY <1>4, <1>5, <1>8, <2>1, <2>2
  <2> QED
    BY <1>6, <2>2, <2>3
<1> QED
  BY <1>7, <1>8 DEF Log!Purge, DeleteBatch

LEMMA SqliteStepIsLogs ==
    CountersFit /\ SqliteInv /\ [SqliteNext]_sqliteVars => [Log!Next]_(Log!vars)
<1> SUFFICES ASSUME CountersFit, SqliteInv, [SqliteNext]_sqliteVars PROVE [Log!Next]_(Log!vars)
  OBVIOUS
<1>1. ASSUME UNCHANGED <<table, counters, answer>> PROVE [Log!Next]_(Log!vars)
  BY <1>1 DEF Log!vars, rows
<1>2. ASSUME NEW e \in Envelope, InsertInbound(e) PROVE Log!Next
  <2>1. Log!Insert(e) \/ Log!AnswerDuplicate(e)
    BY <1>2, StoredIsInsert, DuplicateIsAnswered DEF InsertInbound
  <2> QED
    BY <2>1 DEF Log!Next
<1>3. ASSUME NEW cutoff \in 1 .. clock, CallDelete(cutoff) PROVE Log!Next
  <2>1. cutoff \in Nat
    BY DEF SqliteInv, SqliteType
  <2> QED
    BY <1>3, <2>1, BatchIsPurge DEF CallDelete, Log!Next
<1>4. CASE NextBatch
  <2>1. purging \in Nat /\ DeleteBatch(purging)
    BY <1>4 DEF NextBatch, SqliteInv, SqliteType
  <2>2. PICK cutoff : cutoff = purging
    OBVIOUS
  <2>3. Log!Purge
    BY <2>1, <2>2, BatchIsPurge
  <2> QED
    BY <2>3 DEF Log!Next
<1>5. CASE Restart \/ SqliteTick \/ UNCHANGED sqliteVars
  BY <1>1, <1>5 DEF Restart, SqliteTick, sqliteVars
<1> QED
  BY <1>2, <1>3, <1>4, <1>5 DEF SqliteNext

\* The SQLite store is the log of the port for any accounts, envelopes, rows it starts with and batch size:
\* an insert is one atomic step, and retention leaves no hole in an account between one batch and the next,
\* whatever is inserted meanwhile and wherever the process ends. (insertInbound, deleteOlderThan.)
THEOREM SqliteIsTheLog == CountersFit /\ SqliteSpec => SqliteImplementsMessageLog
<1> SUFFICES ASSUME CountersFit PROVE SqliteSpec => SqliteImplementsMessageLog
  OBVIOUS
<1>1. SqliteInit => Log!Init
  <2> SUFFICES ASSUME SqliteInit PROVE Log!Init
    OBVIOUS
  <2>1. rows = InitialRows
    <3>1. PICK place :
              table = {[id |-> r.id, accountSeq |-> r.accountSeq, createdAt |-> r.createdAt, seq |-> place[r]] : r \in InitialRows}
      BY DEF SqliteInit
    <3> DEFINE T(r) == [id |-> r.id, accountSeq |-> r.accountSeq, createdAt |-> r.createdAt, seq |-> place[r]]
               P(x) == [id |-> x.id, accountSeq |-> x.accountSeq, createdAt |-> x.createdAt]
    <3>2. \A r \in InitialRows : P(T(r)) = r
      BY InitialAssumption DEF Row
    <3>3. table = {T(r) : r \in InitialRows} /\ rows = {P(x) : x \in table}
      BY <3>1 DEF rows
    <3> HIDE DEF T, P
    <3> QED
      BY <3>2, <3>3
  <2> QED
    BY <2>1 DEF SqliteInit, Log!Init
<1>2. SqliteInit => SqliteInv
  BY SqliteStarts
<1>3. SqliteInv /\ [SqliteNext]_sqliteVars => SqliteInv'
  BY SqliteKeeps
<1>4. SqliteInv /\ [SqliteNext]_sqliteVars => [Log!Next]_(Log!vars)
  BY SqliteStepIsLogs
<1> QED
  BY <1>1, <1>2, <1>3, <1>4, PTL DEF SqliteSpec, SqliteImplementsMessageLog

====
