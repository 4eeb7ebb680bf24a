---- MODULE InboundPipeline_proofs ----
(***************************************************************************)
(* What holds of the inbound path for every number of accounts, messages   *)
(* and recoveries, with any number of faults: no message that handle()     *)
(* accepted is lost, and an event carries only the number its own envelope *)
(* has in the log. Every step of the loop is a step of one activity, so    *)
(* the argument is what the others may count on meanwhile: a message       *)
(* leaves memory only for a log that has it, and a pass that runs while    *)
(* others append keeps or accounts for each line it was handed. The second *)
(* half is about the order of the messages.                                *)
(***************************************************************************)
EXTENDS InboundPipeline, SequenceTheorems, FiniteSetTheorems, TLAPS

---------------------------------------------------------------------------
\* The inductive invariant

FileUser == Account \union {"pass", "drain"}

PassCaller == Account \union Recovery \union {"startup", "timer"}

EntryType == [message : Message, lid : BOOLEAN]

TurnType == [by : FileUser, lid : BOOLEAN]

PassType == [step : {"none", "toRead", "line", "inserting", "probing", "toKeep"},
             size : Nat, next : Nat, kept : Seq(EntryType), rejected : SUBSET Message,
             heldBack : SUBSET Account, waiting : SUBSET Account, stored : BOOLEAN]

WorkerSteps == {"idle", "enriching", "ready", "calling", "writingOff", "replaying", "delivering"}

WorkerType == [step : WorkerSteps, attempt : 0 .. MaxRetries]

CircuitType == [diversion : Diversion, stopped : BOOLEAN, probe : {"none", "scheduled", "writing"}]

RecoveryType == [running : BOOLEAN, missed : BOOLEAN, stored : BOOLEAN, resuming : BOOLEAN]

WorldInv ==
    /\ mode \in {"off", "starting", "running", "draining", "leaving"}
    /\ up \in BOOLEAN
    /\ faults \in [{"outage", "answer", "file", "stop", "any"} -> Nat]
    /\ circuit \in CircuitType
    /\ recovery \in [Recovery -> RecoveryType]

\* A queue holds messages of its account, and a worker that is busy has one at its head.
QueueInv ==
    /\ arrived \subseteq Message
    /\ queue \in [Account -> Seq(Message)]
    /\ worker \in [Account -> WorkerType]
    /\ enrichment \in [Message -> {"pending"} \union Resolution]
    /\ \A a \in Account :
           /\ \A i \in DOMAIN queue[a] : queue[a][i] \in arrived /\ AccountOf[queue[a][i]] = a
           /\ worker[a].step # "idle" => queue[a] # <<>>

\* A WhatsApp message has one row, in the log of its account.
OneRow ==
    \A a \in Account : \A i, j \in DOMAIN log[a] :
        /\ AccountOf[log[a][i]] = a
        /\ WaIdOf[log[a][i]] = WaIdOf[log[a][j]] => i = j

LogInv ==
    /\ log \in [Account -> Seq(Message)]
    /\ emitted \in [Message -> Int]
    /\ OneRow
    /\ NumberedEventsAreStored

WaitsFor(by) ==
    /\ by \in Account => worker[by].step = "writingOff"
    /\ by = "pass" => pass.step \in {"toRead", "toKeep"}
    /\ by = "drain" => left # <<>>

\* Who waits for the file has something to do with it, and waits once.
TurnInv ==
    /\ turn \in Seq(TurnType)
    /\ \A i \in DOMAIN turn : WaitsFor(turn[i].by)
    /\ \A i, j \in DOMAIN turn : turn[i].by = turn[j].by => i = j

\* A line the pass is done with stays, is rejected, was left out or is in the message log.
LineIsSafe(m) ==
    \/ \E j \in DOMAIN pass.kept : pass.kept[j].message = m
    \/ m \in pass.rejected \union filtered
    \/ Row(m) # {}

\* A pass is over the first lines of the file, which only grows meanwhile.
PassInv ==
    /\ failed \in Seq(EntryType)
    /\ passes \in Seq(PassCaller)
    /\ pass \in PassType
    /\ pass.step # "none" => passes # <<>>
    /\ pass.size <= Len(failed)
    /\ pass.next \in 1 .. pass.size + 1
    /\ pass.step \in {"inserting", "probing"} => pass.next <= pass.size
    /\ pass.step = "toKeep" => pass.next = pass.size + 1
    /\ \A i \in 1 .. pass.next - 1 : LineIsSafe(failed[i].message)

\* What drain() gathered is all there was, and is written off before the process ends.
LeftInv ==
    /\ left \in Seq(Message)
    /\ IsFiniteSet(unsaved)
    /\ left # <<>> => mode = "leaving"
    /\ mode = "leaving" => unsaved = {}

\* Nothing is anywhere that did not arrive.
ArrivedInv ==
    /\ rejects \union unsaved \union filtered \union gone \union held \union late \subseteq arrived
    /\ \A i \in DOMAIN failed : failed[i].message \in arrived
    /\ \A i \in DOMAIN pass.kept : pass.kept[i].message \in arrived
    /\ pass.rejected \subseteq arrived
    /\ \A i \in DOMAIN left : left[i] \in arrived

PipelineInv ==
    /\ WorldInv /\ QueueInv /\ LogInv
    /\ TurnInv /\ PassInv /\ LeftInv
    /\ ArrivedInv /\ NothingLost

---------------------------------------------------------------------------
\* What each activity leaves alone

LEMMA ProbeFrame ==
    /\ ProbeStep => UNCHANGED <<world, durable, live, turn, pass, left, history>>
    /\ \A r \in Recovery : Resumed(r) =>
           UNCHANGED <<mode, up, durable, live, turn, passes, pass, heldTimer, left,
                       arrived, emitted, filtered, gone, held>>
BY DEF ProbeStep, ProbeFires, ProbeFails, ProbeWrites, Resumed, passing

LEMMA PassFrame ==
    PassStep => UNCHANGED <<up, live, left, arrived, emitted, gone>>
BY DEF PassStep, BeginPass, Read, ReadFails, SaveLine, LineStored, LineRefused, LineFails, ProbeLine,
   LinesDone, KeepOnly, KeepFails, world, live, history

LEMMA WorkerFrame ==
    ASSUME NEW a \in Account, WorkerStep(a)
    PROVE  UNCHANGED <<mode, up, rejects, pass, heldTimer, left, arrived, held>>
BY DEF WorkerStep, Start, Enriched, Attempt, Answer, FailForGood, Fail, Appended, Deliver,
   world, durable, live, passing, history

LEMMA OutsideFrame ==
    StartUp \/ ShutDown \/ StoreFails \/ StoreReturns \/ RetryHeld =>
        UNCHANGED <<durable, live, turn, pass, recovery, left, history>>
BY DEF StartUp, ShutDown, StoreFails, StoreReturns, RetryHeld, passing

LEMMA HandleFrame ==
    ASSUME NEW m \in Message, Handle(m)
    PROVE  UNCHANGED <<world, durable, worker, enrichment, circuit, turn, passing, left,
                       emitted, filtered, gone, held, late>>
BY DEF Handle

LEMMA DrainFrame ==
    GatherLeft \/ WriteLeft \/ LeftAppended =>
        UNCHANGED <<up, log, rejects, queue, worker, enrichment, circuit, passes, pass, heldTimer,
                    arrived, emitted, held, late>>
BY DEF GatherLeft, WriteLeft, LeftAppended, world, durable, live, passing, history

---------------------------------------------------------------------------
\* Queues and workers

LEMMA CurrentFacts ==
    ASSUME QueueInv, NEW a \in Account, worker[a].step # "idle" \/ queue[a] # <<>>
    PROVE  /\ queue[a] # <<>> /\ queue[a] \in Seq(Message)
           /\ Current(a) \in Message
           /\ Current(a) \in arrived
           /\ AccountOf[Current(a)] = a
<1>1. queue[a] # <<>> /\ queue[a] \in Seq(Message) /\ 1 \in DOMAIN queue[a]
  BY DEF QueueInv
<1> QED
  BY <1>1 DEF QueueInv, Current

\* A worker moves on to another step, its queue as it is.
LEMMA StepKeepsQueues ==
    ASSUME QueueInv, NEW a \in Account, queue[a] # <<>>,
           NEW s \in WorkerSteps,
           \/ Step(a, s)
           \/ worker[a].attempt < MaxRetries /\ WaitToRetry(a),
           UNCHANGED <<queue, arrived>>,
           enrichment' \in [Message -> {"pending"} \union Resolution]
    PROVE  QueueInv'
<1>1. worker' \in [Account -> WorkerType]
  <2>1. worker \in [Account -> WorkerType] /\ worker[a] \in WorkerType
    BY DEF QueueInv
  <2>2. CASE Step(a, s)
    BY <2>1, <2>2 DEF Step, WorkerType
  <2>3. CASE worker[a].attempt < MaxRetries /\ WaitToRetry(a)
    <3>1. [step |-> "ready", attempt |-> worker[a].attempt + 1] \in WorkerType
      BY <2>1, <2>3, PipelineAssumption DEF WorkerType, WorkerSteps
    <3> QED
      BY <2>1, <2>3, <3>1 DEF WaitToRetry
  <2> QED
    BY <2>2, <2>3
<1>2. \A b \in Account : worker'[b].step # "idle" => queue[b] # <<>>
  BY DEF QueueInv, Step, WaitToRetry
<1> QED
  BY <1>1, <1>2 DEF QueueInv

LEMMA EndsKeepsQueues ==
    ASSUME QueueInv, NEW a \in Account, queue[a] # <<>>, Ends(a), UNCHANGED arrived,
           enrichment' \in [Message -> {"pending"} \union Resolution]
    PROVE  QueueInv'
<1>1. /\ worker' = [worker EXCEPT ![a] = Idle]
      /\ queue' = [queue EXCEPT ![a] = Tail(queue[a])]
      /\ queue[a] \in Seq(Message)
  BY DEF Ends, QueueInv
<1>2. /\ Tail(queue[a]) \in Seq(Message)
      /\ \A i \in DOMAIN Tail(queue[a]) : i + 1 \in DOMAIN queue[a] /\ Tail(queue[a])[i] = queue[a][i + 1]
  BY <1>1
<1>3. worker' \in [Account -> WorkerType]
  BY <1>1, PipelineAssumption DEF QueueInv, Idle, WorkerType, WorkerSteps
<1>4. ASSUME NEW b \in Account
      PROVE  /\ \A i \in DOMAIN queue'[b] : queue'[b][i] \in arrived /\ AccountOf[queue'[b][i]] = b
             /\ worker'[b].step # "idle" => queue'[b] # <<>>
  <2>1. CASE b = a
    BY <2>1, <1>1, <1>2 DEF QueueInv, Idle
  <2>2. CASE b # a
    BY <2>2, <1>1 DEF QueueInv
  <2> QED
    BY <2>1, <2>2
<1> QED
  BY <1>1, <1>2, <1>3, <1>4 DEF QueueInv

LEMMA WorkerKeepsQueues ==
    ASSUME QueueInv, NEW a \in Account, WorkerStep(a), 
           \A w \in DOMAIN turn : turn[w].by \in Account => worker[turn[w].by].step = "writingOff",
           turn \in Seq(TurnType)
    PROVE  QueueInv'
<1>a. UNCHANGED arrived
  BY WorkerFrame
<1>e. QueueInv => enrichment \in [Message -> {"pending"} \union Resolution]
  BY DEF QueueInv
<1>1. CASE Start(a)
  <2>1. queue[a] # <<>> /\ UNCHANGED enrichment
    BY <1>1 DEF Start
  <2>2. CASE Step(a, "enriching") /\ UNCHANGED queue
    BY <2>1, <2>2, <1>a, <1>e, StepKeepsQueues DEF WorkerSteps
  <2>3. CASE Judge(a, enrichment[Current(a)])
    BY <2>1, <2>3, <1>a, <1>e, StepKeepsQueues, EndsKeepsQueues DEF Judge, SenderResolved, WorkerSteps
  <2> QED
    BY <1>1, <2>2, <2>3 DEF Start
<1>2. ASSUME NEW e \in Resolution, Enriched(a, e) PROVE QueueInv'
  <2>1. queue[a] # <<>> /\ Judge(a, e) /\ enrichment' = [enrichment EXCEPT ![Current(a)] = e]
    BY <1>2, CurrentFacts DEF Enriched
  <2>2. enrichment' \in [Message -> {"pending"} \union Resolution]
    BY <2>1, <1>e
  <2> QED
    BY <2>1, <2>2, <1>a, StepKeepsQueues, EndsKeepsQueues DEF Judge, SenderResolved, WorkerSteps
<1>3. ASSUME queue[a] # <<>>, Refuse(a), UNCHANGED <<queue, enrichment>> PROVE QueueInv'
  BY <1>3, <1>a, <1>e, StepKeepsQueues DEF Refuse, AfterWriteOff, WorkerSteps
<1>4. CASE Attempt(a)
  <2>1. queue[a] # <<>> /\ UNCHANGED <<queue, enrichment>>
    BY <1>4, CurrentFacts DEF Attempt
  <2> QED
    BY <2>1, <1>3, <1>4, <1>a, <1>e, StepKeepsQueues DEF Attempt, WorkerSteps
<1>5. CASE Answer(a)
  BY <1>5, <1>a, <1>e, CurrentFacts, EndsKeepsQueues DEF Answer
<1>6. CASE FailForGood(a)
  BY <1>6, <1>3, CurrentFacts DEF FailForGood
<1>7. CASE Fail(a)
  <2>1. queue[a] # <<>> /\ UNCHANGED <<queue, enrichment>> /\ RetryOrOpen(a)
    BY <1>7, CurrentFacts DEF Fail
  <2>2. CASE worker[a].attempt < MaxRetries /\ WaitToRetry(a)
    BY <2>1, <2>2, <1>a, <1>e, StepKeepsQueues DEF WorkerSteps
  <2> QED
    BY <2>1, <2>2, <1>3 DEF RetryOrOpen
<1>8. CASE Appended(a)
  <2>1. worker[a].step = "writingOff"
    <3>1. 1 \in DOMAIN turn /\ turn[1].by = a
      BY <1>8 DEF Appended
    <3> QED
      BY <3>1
  <2>2. queue[a] # <<>> /\ UNCHANGED <<queue, enrichment>> /\ AfterWriteOff(a)
    BY <1>8, <2>1, CurrentFacts DEF Appended
  <2> QED
    BY <2>2, <1>a, <1>e, StepKeepsQueues DEF AfterWriteOff, WorkerSteps
<1>9. CASE Deliver(a)
  BY <1>9, <1>a, <1>e, CurrentFacts, EndsKeepsQueues DEF Deliver
<1> QED
  BY <1>1, <1>2, <1>4, <1>5, <1>6, <1>7, <1>8, <1>9 DEF WorkerStep

LEMMA ForgottenQueues ==
    ASSUME QueueInv, Forget, UNCHANGED arrived
    PROVE  QueueInv'
BY PipelineAssumption DEF QueueInv, Forget, Idle, NotEnriched, Resolution, WorkerType, WorkerSteps

LEMMA QueueInvStep ==
    ASSUME QueueInv, TurnInv, [Next]_vars
    PROVE  QueueInv'
<1>1. ASSUME NEW m \in Message, Handle(m) PROVE QueueInv'
  <2> DEFINE a == AccountOf[m]
  <2>1. /\ a \in Account
        /\ arrived' = arrived \union {m}
        /\ queue' = [queue EXCEPT ![a] = Append(queue[a], m)]
        /\ UNCHANGED <<worker, enrichment>>
        /\ queue[a] \in Seq(Message)
    BY <1>1, PipelineAssumption DEF Handle, QueueInv
  <2> HIDE DEF a
  <2>2. /\ Append(queue[a], m) \in Seq(Message)
        /\ Append(queue[a], m) # <<>>
        /\ \A i \in DOMAIN Append(queue[a], m) :
               \/ i \in DOMAIN queue[a] /\ Append(queue[a], m)[i] = queue[a][i]
               \/ Append(queue[a], m)[i] = m
    BY <2>1
  <2>3. ASSUME NEW b \in Account
        PROVE  /\ \A i \in DOMAIN queue'[b] : queue'[b][i] \in arrived' /\ AccountOf[queue'[b][i]] = b
               /\ worker[b].step # "idle" => queue'[b] # <<>>
    <3>1. CASE b = a
      BY <3>1, <2>1, <2>2 DEF QueueInv, a
    <3>2. CASE b # a
      BY <3>2, <2>1 DEF QueueInv
    <3> QED
      BY <3>1, <3>2
  <2> QED
    BY <2>1, <2>2, <2>3 DEF QueueInv
<1>2. ASSUME NEW a \in Account, WorkerStep(a) PROVE QueueInv'
  BY <1>2, WorkerKeepsQueues DEF TurnInv, WaitsFor
<1>3. CASE Exit \/ Crash
  BY <1>3, ForgottenQueues DEF Exit, Crash, history
<1>4. CASE UNCHANGED <<queue, worker, arrived, enrichment>>
  BY <1>4 DEF QueueInv
<1> QED
  BY <1>1, <1>2, <1>3, <1>4, ProbeFrame, PassFrame, OutsideFrame, DrainFrame
     DEF Next, DrainStep, vars, live, history


---------------------------------------------------------------------------
\* The gateway, the store and the circuit

LEMMA SpendType ==
    ASSUME WorldInv, NEW kind \in {"outage", "answer", "file", "stop", "any"}, Spend(kind)
    PROVE  faults' \in [{"outage", "answer", "file", "stop", "any"} -> Nat]
<1>1. faults[kind] - 1 \in Nat /\ faults["any"] - 1 \in Nat
  BY DEF WorldInv, Spend
<1> QED
  BY <1>1 DEF WorldInv, Spend

LEMMA OpenedType ==
    ASSUME WorldInv
    PROVE  /\ Opened \in CircuitType
           /\ Finished \in CircuitType
           /\ Stopped \in CircuitType
BY DEF WorldInv, CircuitType, Opened, Finished, Stopped, Diversion

LEMMA NewsType ==
    ASSUME WorldInv, NewsForRecover \/ UNCHANGED recovery
    PROVE  recovery' \in [Recovery -> RecoveryType]
<1>1. ASSUME NEW r \in RecoveryType PROVE [r EXCEPT !.missed = r.running] \in RecoveryType
  BY DEF RecoveryType
<1>2. recovery \in [Recovery -> RecoveryType]
  BY DEF WorldInv
<1> QED
  BY <1>1, <1>2 DEF NewsForRecover

\* What a recover() may be after a pass of its own.
LEMMA AfterPassType ==
    ASSUME NEW recording \in BOOLEAN
    PROVE  /\ [Recovers EXCEPT !.stored = recording] \in RecoveryType
           /\ Recovers \in RecoveryType /\ NoRecovery \in RecoveryType /\ Resumes \in RecoveryType
BY DEF Recovers, NoRecovery, Resumes, RecoveryType

LEMMA EndPassWorld ==
    ASSUME WorldInv, PassInv, NEW outcome, NEW stays, EndPass(outcome, stays)
    PROVE  /\ mode' \in {mode, "running"}
           /\ circuit' \in CircuitType
           /\ recovery' \in [Recovery -> RecoveryType]
<1>2. circuit \in CircuitType /\ Finished \in CircuitType /\ recovery \in [Recovery -> RecoveryType]
  BY OpenedType DEF WorldInv
<1>3. mode' \in {mode, "running"}
  BY DEF EndPass
<1>4. CASE UNCHANGED <<circuit, recovery>>
  BY <1>2, <1>3, <1>4
<1>5. CASE Head(passes) \in Recovery /\ Recover(Head(passes), outcome)
  <2> DEFINE r == Head(passes)
  <2>1. HasStored(r) \in BOOLEAN
    BY DEF HasStored
  <2>2. /\ circuit' \in {circuit, Finished}
        /\ recovery' \in {[recovery EXCEPT ![r] = [Recovers EXCEPT !.stored = HasStored(r)]],
                         [recovery EXCEPT ![r] = NoRecovery], [recovery EXCEPT ![r] = Resumes]}
    BY <1>5 DEF Recover, Finish, AfterFinish
  <2> QED
    BY <1>2, <1>3, <1>5, <2>1, <2>2, AfterPassType
<1> QED
  BY <1>4, <1>5 DEF EndPass

LEMMA RefuseWorld ==
    ASSUME WorldInv, NEW a \in Account, Refuse(a), circuit' \in {circuit, Opened},
           UNCHANGED <<mode, up>>,
           faults' \in [{"outage", "answer", "file", "stop", "any"} -> Nat]
    PROVE  WorldInv'
BY OpenedType, NewsType DEF WorldInv, Refuse

LEMMA WorldInvStep ==
    ASSUME WorldInv, PassInv, [Next]_vars
    PROVE  WorldInv'
<1> USE DEF world, live, passing
<1>1. ASSUME NEW m \in Message, Handle(m) PROVE WorldInv'
  BY <1>1 DEF WorldInv, Handle
<1>2. ASSUME NEW a \in Account, WorkerStep(a) PROVE WorldInv'
  <2>1. CASE Start(a) \/ (\E e \in Resolution : Enriched(a, e)) \/ Answer(a) \/ Deliver(a)
    BY <2>1 DEF WorldInv, Start, Enriched, Answer, Deliver
  <2>2. CASE Attempt(a)
    BY <2>2, RefuseWorld DEF Attempt, WorldInv
  <2>3. CASE FailForGood(a)
    BY <2>3, RefuseWorld DEF FailForGood, WorldInv
  <2>4. CASE Fail(a)
    <3>1. faults' \in [{"outage", "answer", "file", "stop", "any"} -> Nat]
      BY <2>4, SpendType DEF Fail, WorldInv
    <3>2. RetryOrOpen(a) /\ UNCHANGED <<mode, up>>
      BY <2>4 DEF Fail
    <3> QED
      BY <3>1, <3>2, RefuseWorld DEF RetryOrOpen, WorldInv
  <2>5. CASE Appended(a)
    BY <2>5, SpendType DEF Appended, WorldInv
  <2> QED
    BY <1>2, <2>1, <2>2, <2>3, <2>4, <2>5 DEF WorkerStep
<1>3. CASE PassStep
  <2>1. CASE BeginPass \/ Read \/ (\E resolution \in Resolution, tooLate \in BOOLEAN : SaveLine(resolution, tooLate))
             \/ LineStored \/ LineRefused
    BY <2>1 DEF WorldInv, BeginPass, Read, SaveLine, LineStored, LineRefused
  <2>2. ASSUME NEW outcome, NEW stays, EndPass(outcome, stays), UNCHANGED up,
               faults' \in [{"outage", "answer", "file", "stop", "any"} -> Nat]
        PROVE  WorldInv'
    BY <2>2, EndPassWorld DEF WorldInv
  <2>3. CASE ReadFails
    BY <2>2, <2>3, SpendType DEF ReadFails, WorldInv
  <2>4. CASE LineFails
    BY <2>4, SpendType DEF LineFails, WorldInv
  <2>5. CASE ProbeLine
    BY <2>5, OpenedType DEF ProbeLine, WorldInv
  <2>6. CASE LinesDone
    BY <2>2, <2>6 DEF LinesDone, WorldInv
  <2>7. CASE KeepOnly
    BY <2>2, <2>7 DEF KeepOnly, WorldInv
  <2>8. CASE KeepFails
    BY <2>2, <2>8, SpendType DEF KeepFails, WorldInv
  <2> QED
    BY <1>3, <2>1, <2>3, <2>4, <2>5, <2>6, <2>7, <2>8 DEF PassStep
<1>4. CASE ProbeStep
  <2>1. circuit \in CircuitType /\ recovery \in [Recovery -> RecoveryType] /\ UNCHANGED <<mode, up, faults>>
    BY <1>4, ProbeFrame DEF WorldInv
  <2>2. circuit' \in CircuitType
    <3>1. CASE ProbeFires
      BY <3>1, <2>1 DEF ProbeFires, CircuitType
    <3>2. CASE ProbeFails
      BY <3>2, <2>1 DEF ProbeFails, CircuitType
    <3>3. CASE ProbeWrites
      BY <3>3, <2>1 DEF ProbeWrites, CircuitType, Diversion
    <3> QED
      BY <1>4, <3>1, <3>2, <3>3 DEF ProbeStep
  <2>3. recovery' \in [Recovery -> RecoveryType]
    <3>1. \/ UNCHANGED recovery
          \/ \E r \in Recovery : recovery' = [recovery EXCEPT ![r] = Recovers]
      BY <1>4 DEF ProbeStep, ProbeFires, ProbeFails, ProbeWrites
    <3>2. Recovers \in RecoveryType
      BY AfterPassType
    <3> QED
      BY <2>1, <3>1, <3>2
  <2> QED
    BY <2>1, <2>2, <2>3 DEF WorldInv
<1>5. CASE DrainStep
  <2>1. CASE GatherLeft
    BY <2>1 DEF GatherLeft, WorldInv
  <2>2. CASE WriteLeft
    BY <2>2, NewsType DEF WriteLeft, WorldInv
  <2>3. CASE LeftAppended
    BY <2>3, SpendType DEF LeftAppended, WorldInv
  <2>4. CASE Exit
    BY <2>4 DEF Exit, Forget, WorldInv, Closed, NoRecovery, CircuitType, RecoveryType, Diversion
  <2> QED
    BY <1>5, <2>1, <2>2, <2>3, <2>4 DEF DrainStep
<1>6. CASE RetryHeld \/ StartUp \/ StoreReturns
  BY <1>6 DEF RetryHeld, StartUp, StoreReturns, WorldInv
<1>7. CASE ShutDown
  BY <1>7, SpendType, OpenedType DEF ShutDown, WorldInv
<1>8. CASE Crash
  BY <1>8, SpendType DEF Crash, Forget, WorldInv, Closed, NoRecovery, CircuitType, RecoveryType, Diversion
<1>9. CASE StoreFails
  BY <1>9, SpendType DEF StoreFails, WorldInv
<1>10. ASSUME NEW r \in Recovery, Resumed(r) PROVE WorldInv'
  <2>1. recovery' = [recovery EXCEPT ![r] = NoRecovery] /\ circuit' \in {circuit, Finished}
    BY <1>10 DEF Resumed, Finish
  <2>2. faults' \in [{"outage", "answer", "file", "stop", "any"} -> Nat]
    BY <1>10, SpendType DEF Resumed, WorldInv
  <2> QED
    BY <1>10, <2>1, <2>2, AfterPassType, OpenedType DEF Resumed, WorldInv
<1>11. CASE UNCHANGED vars
  BY <1>11 DEF vars, WorldInv
<1> QED
  BY <1>1, <1>2, <1>3, <1>4, <1>5, <1>6, <1>7, <1>8, <1>9, <1>10, <1>11 DEF Next

---------------------------------------------------------------------------
\* The message log

\* An account's rows stay where they are.
LogGrows ==
    \A a \in Account : \A i \in DOMAIN log[a] : i \in DOMAIN log'[a] /\ log'[a][i] = log[a][i]

\* insertInbound: after it the message is there, once.
LEMMA InsertLog ==
    ASSUME LogInv, NEW m \in Message, Insert(m)
    PROVE  /\ log' \in [Account -> Seq(Message)]
           /\ OneRow'
           /\ LogGrows
           /\ Row(m)' # {}
           /\ Row(m) = {} => /\ Len(log[AccountOf[m]]) + 1 \in DOMAIN log'[AccountOf[m]]
                             /\ log'[AccountOf[m]][Len(log[AccountOf[m]]) + 1] = m
<1> DEFINE b == AccountOf[m]
           was == log[b]
<1>1. b \in Account /\ log \in [Account -> Seq(Message)] /\ was \in Seq(Message)
  BY PipelineAssumption DEF LogInv
<1>2. CASE Row(m) # {}
  <2>1. log' = log
    BY <1>2 DEF Insert
  <2> QED
    BY <1>1, <1>2, <2>1 DEF LogInv, OneRow, LogGrows, Row
<1>3. CASE Row(m) = {}
  <2>1. log' = [log EXCEPT ![b] = Append(was, m)]
    BY <1>3 DEF Insert
  <2>2. \A i \in DOMAIN was : WaIdOf[was[i]] # WaIdOf[m]
    BY <1>3 DEF Row
  <2> HIDE DEF b, was
  <2>3. log'[b] = Append(was, m) /\ \A a \in Account : a # b => log'[a] = log[a]
    BY <1>1, <2>1
  <2>4. /\ Append(was, m) \in Seq(Message)
        /\ DOMAIN Append(was, m) = DOMAIN was \union {Len(was) + 1}
        /\ Append(was, m)[Len(was) + 1] = m
        /\ \A i \in DOMAIN was : Append(was, m)[i] = was[i]
        /\ Len(was) + 1 \notin DOMAIN was
    BY <1>1
  <2>5. log' \in [Account -> Seq(Message)]
    BY <1>1, <2>1, <2>4
  <2>6. LogGrows
    BY <2>3, <2>4 DEF LogGrows, was
  <2>7. ASSUME NEW a \in Account, NEW i \in DOMAIN log'[a], NEW j \in DOMAIN log'[a]
        PROVE  AccountOf[log'[a][i]] = a /\ (WaIdOf[log'[a][i]] = WaIdOf[log'[a][j]] => i = j)
    <3>1. CASE a # b
      BY <3>1, <2>3 DEF LogInv, OneRow
    <3>2. CASE a = b
      <4>1. \A k \in DOMAIN was : AccountOf[was[k]] = a
        BY <3>2 DEF LogInv, OneRow, was
      <4>2. \A k, l \in DOMAIN was : WaIdOf[was[k]] = WaIdOf[was[l]] => k = l
        BY <3>2 DEF LogInv, OneRow, was
      <4>3. AccountOf[m] = a
        BY <3>2 DEF b
      <4> QED
        BY <3>2, <2>2, <2>3, <2>4, <4>1, <4>2, <4>3
    <3> QED
      BY <3>1, <3>2
  <2>8. Row(m)' # {}
    BY <2>3, <2>4 DEF Row, b
  <2>9. OneRow'
    BY <2>7 DEF OneRow
  <2> QED
    BY <2>3, <2>4, <2>5, <2>6, <2>8, <2>9 DEF b, was
<1> QED
  BY <1>2, <1>3

\* A message that has its row keeps it.
LEMMA RowsStay ==
    ASSUME LogGrows, NEW m \in Message, Row(m) # {}
    PROVE  Row(m)' # {}
<1>1. PICK i \in DOMAIN log[AccountOf[m]] : WaIdOf[log[AccountOf[m]][i]] = WaIdOf[m]
  BY DEF Row
<1>2. i \in DOMAIN log'[AccountOf[m]] /\ log'[AccountOf[m]][i] = log[AccountOf[m]][i]
  BY PipelineAssumption DEF LogGrows
<1> QED
  BY <1>1, <1>2 DEF Row

LEMMA EmittedStay ==
    ASSUME LogInv, log' \in [Account -> Seq(Message)], OneRow', LogGrows,
           \/ UNCHANGED emitted
           \/ \E m \in Message, number \in Nat :
                  /\ Emit(m, number)
                  /\ number > 0 => /\ number \in DOMAIN log'[AccountOf[m]]
                                   /\ log'[AccountOf[m]][number] = m
    PROVE  LogInv'
<1>1. emitted' \in [Message -> Int]
  BY DEF LogInv, Emit
<1>2. ASSUME NEW n \in Message, emitted'[n] > 0
      PROVE  emitted'[n] \in DOMAIN log'[AccountOf[n]] /\ log'[AccountOf[n]][emitted'[n]] = n
  <2>1. AccountOf[n] \in Account /\ log[AccountOf[n]] \in Seq(Message)
    BY PipelineAssumption DEF LogInv
  <2>2. CASE emitted'[n] = emitted[n]
    <3>1. emitted[n] \in DOMAIN log[AccountOf[n]] /\ log[AccountOf[n]][emitted[n]] = n
      BY <1>2, <2>1, <2>2 DEF LogInv, NumberedEventsAreStored
    <3> QED
      BY <2>1, <2>2, <3>1 DEF LogGrows
  <2>3. CASE emitted'[n] # emitted[n]
    BY <1>2, <2>3 DEF Emit, LogInv
  <2> QED
    BY <2>2, <2>3
<1>3. NumberedEventsAreStored'
  <2>1. \A n \in Message : log'[AccountOf[n]] \in Seq(Message)
    BY PipelineAssumption
  <2> QED
    BY <1>2, <2>1 DEF NumberedEventsAreStored
<1> QED
  BY <1>1, <1>3 DEF LogInv

\* The line a pass is at is one of the file.
LEMMA LineFacts ==
    ASSUME PassInv, pass.next <= pass.size
    PROVE  /\ pass.next \in DOMAIN failed
           /\ Line \in EntryType
           /\ LineMessage \in Message
           /\ LineAccount \in Account
<1>1. /\ failed \in Seq(EntryType)
      /\ pass.next \in Nat /\ pass.size \in Nat
      /\ pass.next >= 1 /\ pass.size <= Len(failed)
  BY DEF PassInv, PassType
<1>2. pass.next \in DOMAIN failed /\ failed[pass.next] \in EntryType
  BY <1>1
<1> QED
  BY <1>2, PipelineAssumption DEF Line, LineMessage, LineAccount, EntryType

\* Every step leaves the rows that are there, and one that adds a row adds it as
\* insertInbound does.
LEMMA LogOnlyGrows ==
    ASSUME QueueInv, LogInv, PassInv, [Next]_vars
    PROVE  UNCHANGED log \/ \E m \in Message : Insert(m)
<1>1. ASSUME NEW m \in Message, Handle(m) PROVE UNCHANGED log
  BY <1>1 DEF Handle, durable
<1>2. ASSUME NEW a \in Account, WorkerStep(a) PROVE UNCHANGED log \/ \E m \in Message : Insert(m)
  <2>1. CASE Answer(a) \/ Fail(a)
    <3>1. Current(a) \in Message
      BY <2>1, CurrentFacts DEF Answer, Fail
    <3> QED
      BY <2>1, <3>1 DEF Answer, Fail
  <2>2. CASE ~(Answer(a) \/ Fail(a))
    BY <1>2, <2>2 DEF WorkerStep, Start, Enriched, Attempt, FailForGood, Appended, Deliver, durable
  <2> QED
    BY <2>1, <2>2
<1>3. CASE PassStep
  <2>1. CASE LineStored \/ LineFails
    <3>1. LineMessage \in Message
      BY <2>1, LineFacts DEF LineStored, LineFails, PassInv
    <3> QED
      BY <2>1, <3>1 DEF LineStored, LineFails
  <2>2. CASE ~(LineStored \/ LineFails)
    BY <1>3, <2>2 DEF PassStep, BeginPass, Read, ReadFails, SaveLine, LineRefused, ProbeLine, LinesDone,
       KeepOnly, KeepFails, durable
  <2> QED
    BY <2>1, <2>2
<1>4. CASE DrainStep \/ Crash
  BY <1>4 DEF DrainStep, GatherLeft, WriteLeft, LeftAppended, Exit, Crash, durable
<1> QED
  BY <1>1, <1>2, <1>3, <1>4, ProbeFrame, OutsideFrame DEF Next, durable, vars

LEMMA LogAfter ==
    ASSUME LogInv, UNCHANGED log \/ \E m \in Message : Insert(m)
    PROVE  log' \in [Account -> Seq(Message)] /\ OneRow' /\ LogGrows
<1>1. CASE UNCHANGED log
  BY <1>1 DEF LogInv, OneRow, LogGrows
<1> QED
  BY <1>1, InsertLog

LEMMA LogInvStep ==
    ASSUME QueueInv, LogInv, PassInv, [Next]_vars
    PROVE  LogInv'
<1> USE DEF history
<1>1. log' \in [Account -> Seq(Message)] /\ OneRow' /\ LogGrows
  BY LogOnlyGrows, LogAfter
<1>2. ASSUME NEW a \in Account, WorkerStep(a) PROVE LogInv'
  <2>1. CASE Answer(a)
    <3> DEFINE m == Current(a)
    <3>1. m \in Message /\ AccountOf[m] = a /\ Insert(m) /\ log[a] \in Seq(Message)
      BY <2>1, CurrentFacts DEF Answer, LogInv
    <3>2. CASE Row(m) = {} /\ Emit(m, Len(log[a]) + 1)
      <4>1. /\ Len(log[a]) + 1 \in DOMAIN log'[a]
            /\ log'[a][Len(log[a]) + 1] = m
            /\ Len(log[a]) + 1 \in Nat
        BY <3>1, <3>2, InsertLog
      <4> HIDE DEF m
      <4> QED
        BY <1>1, <3>1, <3>2, <4>1, EmittedStay
    <3>3. ASSUME NEW i \in SettledRow(a), Emit(m, i) PROVE LogInv'
      <4>1. i \in DOMAIN log[a] /\ log[a][i] = m
        BY <3>1 DEF SettledRow, Row
      <4>2. i \in Nat /\ i \in DOMAIN log'[a] /\ log'[a][i] = m
        BY <1>1, <3>1, <4>1 DEF LogGrows
      <4> HIDE DEF m
      <4> QED
        BY <1>1, <3>1, <3>3, <4>2, EmittedStay
    <3>4. CASE UNCHANGED emitted
      BY <1>1, <3>4, EmittedStay
    <3> QED
      BY <2>1, <3>2, <3>3, <3>4 DEF Answer
  <2>2. CASE Deliver(a)
    <3>1. Current(a) \in Message /\ Emit(Current(a), 0)
      BY <2>2, CurrentFacts DEF Deliver
    <3>2. 0 \in Nat /\ ~(0 > 0)
      OBVIOUS
    <3> QED
      BY <1>1, <3>1, <3>2, EmittedStay
  <2>3. CASE ~(Answer(a) \/ Deliver(a))
    <3>1. UNCHANGED emitted
      BY <1>2, <2>3 DEF WorkerStep, Start, Enriched, Attempt, FailForGood, Fail, Appended
    <3> QED
      BY <1>1, <3>1, EmittedStay
  <2> QED
    BY <2>1, <2>2, <2>3
<1>3. CASE UNCHANGED emitted
  BY <1>1, <1>3, EmittedStay
<1> QED
  BY <1>2, <1>3, ProbeFrame, PassFrame, OutsideFrame, HandleFrame, DrainFrame DEF Next, DrainStep, Exit, Crash, vars

---------------------------------------------------------------------------
\* The turn at the file

Waiting == {turn[i].by : i \in DOMAIN turn}

LEMMA WaitingFacts ==
    ASSUME TurnInv
    PROVE  /\ Waiting \subseteq FileUser
           /\ \A u \in Waiting : WaitsFor(u)
           /\ turn # <<>> => Head(turn).by \in Waiting /\ Head(turn) \in TurnType
<1>1. \A i \in DOMAIN turn : turn[i] \in TurnType /\ turn[i].by \in FileUser
  <2>1. \A i \in DOMAIN turn : turn[i] \in TurnType
    BY DEF TurnInv
  <2> QED
    BY <2>1 DEF TurnType
<1>2. turn # <<>> => 1 \in DOMAIN turn /\ Head(turn) = turn[1]
  BY DEF TurnInv
<1>3. ASSUME NEW u \in Waiting PROVE u \in FileUser /\ WaitsFor(u)
  <2>1. PICK i \in DOMAIN turn : u = turn[i].by
    BY DEF Waiting
  <2>2. WaitsFor(turn[i].by)
    BY DEF TurnInv
  <2> QED
    BY <1>1, <2>1, <2>2
<1> QED
  BY <1>1, <1>2, <1>3 DEF Waiting

LEMMA TurnStays ==
    ASSUME TurnInv, UNCHANGED turn, \A u \in Waiting : WaitsFor(u)'
    PROVE  TurnInv'
<1>1. \A i \in DOMAIN turn : WaitsFor(turn[i].by)'
  BY DEF Waiting, WaitsFor
<1> QED
  BY <1>1 DEF TurnInv

LEMMA TurnJoined ==
    ASSUME TurnInv, NEW by \in FileUser, NEW lid \in BOOLEAN,
           turn' = Append(turn, Turn(by, lid)),
           by \notin Waiting,
           WaitsFor(by)', \A u \in Waiting : WaitsFor(u)'
    PROVE  TurnInv'
<1>1. turn \in Seq(TurnType) /\ Turn(by, lid) \in TurnType /\ Turn(by, lid).by = by
  BY DEF TurnInv, Turn, TurnType
<1>2. /\ turn' \in Seq(TurnType)
      /\ DOMAIN turn' = DOMAIN turn \union {Len(turn) + 1}
      /\ turn'[Len(turn) + 1].by = by
      /\ \A i \in DOMAIN turn : turn'[i] = turn[i]
  BY <1>1
<1>3. \A i \in DOMAIN turn : turn[i].by \in Waiting
  BY DEF Waiting
<1>4. ASSUME NEW i \in DOMAIN turn' PROVE WaitsFor(turn[i].by)'
  <2>1. turn'[i].by = by \/ turn'[i].by \in Waiting
    BY <1>2, <1>3
  <2> QED
    BY <2>1 DEF WaitsFor
<1>5. \A i, j \in DOMAIN turn : turn[i].by = turn[j].by => i = j
  BY DEF TurnInv
<1>6. ASSUME NEW i \in DOMAIN turn', NEW j \in DOMAIN turn', turn'[i].by = turn'[j].by PROVE i = j
  BY <1>2, <1>3, <1>5, <1>6
<1> QED
  BY <1>2, <1>4, <1>6 DEF TurnInv

LEMMA TurnLeft ==
    ASSUME TurnInv, turn # <<>>, turn' = Tail(turn),
           \A u \in Waiting : u # Head(turn).by => WaitsFor(u)'
    PROVE  TurnInv'
<1>1. /\ turn \in Seq(TurnType)
      /\ turn' \in Seq(TurnType)
      /\ \A i \in DOMAIN turn' : i \in Nat /\ i # 0 /\ i + 1 \in DOMAIN turn /\ turn'[i] = turn[i + 1]
      /\ 1 \in DOMAIN turn /\ Head(turn) = turn[1]
  BY DEF TurnInv
<1>2. \A i, j \in DOMAIN turn : turn[i].by = turn[j].by => i = j
  BY DEF TurnInv
<1>3. ASSUME NEW i \in DOMAIN turn' PROVE WaitsFor(turn[i].by)'
  <2>1. turn'[i].by = turn[i + 1].by /\ i + 1 \in DOMAIN turn /\ i + 1 # 1
    BY <1>1
  <2>2. turn'[i].by \in Waiting
    BY <2>1 DEF Waiting
  <2>3. turn'[i].by # Head(turn).by
    BY <1>1, <1>2, <2>1
  <2> QED
    BY <2>2, <2>3 DEF WaitsFor
<1>4. ASSUME NEW i \in DOMAIN turn', NEW j \in DOMAIN turn', turn'[i].by = turn'[j].by PROVE i = j
  <2>1. i + 1 = j + 1
    BY <1>1, <1>2, <1>4
  <2> QED
    BY <1>1, <2>1
<1> QED
  BY <1>1, <1>3, <1>4 DEF TurnInv

\* A step of a worker is of no other.
LEMMA OwnWorker ==
    ASSUME QueueInv, NEW a \in Account, WorkerStep(a), NEW b \in Account, b # a
    PROVE  worker'[b] = worker[b]
<1>1. worker \in [Account -> WorkerType]
  BY DEF QueueInv
<1>2. \/ UNCHANGED worker
      \/ \E s : Step(a, s)
      \/ Ends(a) \/ WaitToRetry(a)
  BY DEF WorkerStep, Start, Enriched, Judge, SenderResolved, Attempt, Answer, FailForGood, Fail, Appended,
     Deliver, Refuse, AfterWriteOff, RetryOrOpen
<1> QED
  BY <1>1, <1>2 DEF Step, Ends, WaitToRetry

LEMMA TurnInvStep ==
    ASSUME QueueInv, TurnInv, LeftInv, [Next]_vars
    PROVE  TurnInv'
<1> USE DEF world, durable, live, passing, history
<1>1. ASSUME NEW a \in Account, WorkerStep(a) PROVE TurnInv'
  <2>1. a \in FileUser /\ a # "pass" /\ a # "drain"
    BY NamesAssumption DEF FileUser
  <2>2. \A u \in Waiting : u # a => WaitsFor(u)'
    <3>1. \A u \in Waiting : WaitsFor(u)
      BY WaitingFacts
    <3> QED
      BY <1>1, <3>1, OwnWorker, WorkerFrame DEF WaitsFor
  <2>3. worker[a].step # "writingOff" => a \notin Waiting
    BY WaitingFacts DEF WaitsFor
  <2>4. ASSUME Refuse(a), a \notin Waiting PROVE TurnInv'
    <3>1. CASE UNCHANGED turn
      BY <3>1, <2>2, <2>4, TurnStays
    <3>2. CASE Step(a, "writingOff") /\ turn' = Append(turn, Turn(a, FALSE))
      <4>1. worker'[a].step = "writingOff"
        BY <3>2 DEF Step, QueueInv, WorkerType
      <4>2. WaitsFor(a)'
        BY <2>1, <4>1 DEF WaitsFor
      <4> QED
        BY <3>2, <2>1, <2>2, <2>4, <4>2, TurnJoined
    <3> QED
      BY <3>1, <3>2, <2>4 DEF Refuse
  <2>5. CASE Start(a) \/ (\E e \in Resolution : Enriched(a, e)) \/ Answer(a) \/ Deliver(a)
    <3>1. UNCHANGED turn /\ worker[a].step # "writingOff"
      BY <2>5 DEF Start, Enriched, Answer, Deliver
    <3> QED
      BY <3>1, <2>2, <2>3, TurnStays
  <2>6. CASE Attempt(a)
    <3>1. worker[a].step # "writingOff" /\ (UNCHANGED turn \/ Refuse(a))
      BY <2>6 DEF Attempt
    <3> QED
      BY <3>1, <2>2, <2>3, <2>4, TurnStays
  <2>7. CASE FailForGood(a)
    BY <2>7, <2>3, <2>4 DEF FailForGood
  <2>8. CASE Fail(a)
    <3>1. worker[a].step # "writingOff" /\ (UNCHANGED turn \/ Refuse(a))
      BY <2>8 DEF Fail, RetryOrOpen
    <3> QED
      BY <3>1, <2>2, <2>3, <2>4, TurnStays
  <2>9. CASE Appended(a)
    BY <2>9, <2>2, TurnLeft DEF Appended
  <2> QED
    BY <1>1, <2>5, <2>6, <2>7, <2>8, <2>9 DEF WorkerStep
<1>2. ASSUME UNCHANGED <<worker, left>>, NEW u \in Waiting, u # "pass" PROVE WaitsFor(u)'
  BY <1>2, WaitingFacts DEF WaitsFor
<1>3. CASE PassStep
  <2> UNCHANGED <<worker, left>>
    BY <1>3, PassFrame
  <2>1. CASE BeginPass
    <3>1. pass.step = "none" /\ pass'.step = "toRead" /\ turn' = Append(turn, Turn("pass", FALSE))
      BY <2>1 DEF BeginPass, NoPass
    <3>2. "pass" \notin Waiting
      BY <3>1, WaitingFacts DEF WaitsFor
    <3>3. WaitsFor("pass")'
      BY <3>1, NamesAssumption DEF WaitsFor
    <3> QED
      BY <3>1, <3>2, <3>3, <1>2, TurnJoined DEF FileUser
  <2>2. CASE Read \/ ReadFails \/ KeepOnly \/ KeepFails
    <3>1. turn # <<>> /\ turn' = Tail(turn) /\ Head(turn).by = "pass"
      BY <2>2 DEF Read, ReadFails, KeepOnly, KeepFails, FileIsFor
    <3> QED
      BY <3>1, <1>2, TurnLeft
  <2>3. CASE pass.step \notin {"toRead", "toKeep"} /\ UNCHANGED turn
    <3>1. "pass" \notin Waiting
      BY <2>3, WaitingFacts DEF WaitsFor
    <3> QED
      BY <2>3, <3>1, <1>2, TurnStays
  <2>4. CASE LinesDone
    <3>1. CASE UNCHANGED turn
      BY <2>3, <2>4, <3>1 DEF LinesDone
    <3>2. CASE pass' = [pass EXCEPT !.step = "toKeep"] /\ turn' = Append(turn, Turn("pass", FALSE))
      <4>1. "pass" \notin Waiting
        BY <2>4, WaitingFacts DEF WaitsFor, LinesDone
      <4>2. WaitsFor("pass")'
        BY <3>2, NamesAssumption DEF WaitsFor
      <4> QED
        BY <3>2, <4>1, <4>2, <1>2, TurnJoined DEF FileUser
    <3> QED
      BY <2>4, <3>1, <3>2 DEF LinesDone
  <2> QED
    BY <1>3, <2>1, <2>2, <2>3, <2>4
       DEF PassStep, SaveLine, LineStored, LineRefused, LineFails, ProbeLine
<1>4. CASE UNCHANGED <<turn, worker, pass, left>>
  BY <1>4, WaitingFacts, TurnStays DEF WaitsFor
<1>5. CASE GatherLeft
  <2>1. UNCHANGED <<turn, worker, pass>> /\ left = <<>>
    BY <1>5 DEF GatherLeft, LeftInv
  <2>2. "drain" \notin Waiting
    BY <2>1, WaitingFacts DEF WaitsFor
  <2> QED
    BY <2>1, <2>2, WaitingFacts, TurnStays DEF WaitsFor
<1>6. CASE WriteLeft
  <2>1. CASE turn' = Append(turn, Turn("drain", enrichment[Head(left)] = "pending")) /\ UNCHANGED left
    <3>1. "drain" \notin Waiting
      BY <1>6 DEF WriteLeft, Waiting
    <3>2. WaitsFor("drain")' /\ (enrichment[Head(left)] = "pending") \in BOOLEAN
      BY <1>6, <2>1, NamesAssumption DEF WaitsFor, WriteLeft
    <3>3. \A u \in Waiting : WaitsFor(u)'
      BY <1>6, <2>1, WaitingFacts DEF WaitsFor, WriteLeft
    <3> QED
      BY <2>1, <3>1, <3>2, <3>3, TurnJoined DEF FileUser
  <2>2. CASE UNCHANGED turn
    <3>1. "drain" \notin Waiting
      BY <1>6 DEF WriteLeft, Waiting
    <3>2. \A u \in Waiting : WaitsFor(u)'
      BY <1>6, <3>1, WaitingFacts DEF WaitsFor, WriteLeft
    <3> QED
      BY <2>2, <3>2, TurnStays
  <2> QED
    BY <1>6, <2>1, <2>2 DEF WriteLeft
<1>7. CASE LeftAppended
  <2>1. \A u \in Waiting : u # "drain" => WaitsFor(u)'
    BY <1>7, DrainFrame, WaitingFacts DEF WaitsFor
  <2> QED
    BY <1>7, <2>1, TurnLeft DEF LeftAppended
<1>8. CASE Exit \/ Crash
  <2>1. turn' = <<>>
    BY <1>8 DEF Exit, Crash, Forget
  <2>2. turn' \in Seq(TurnType) /\ DOMAIN turn' = {}
    BY <2>1
  <2> QED
    BY <2>2 DEF TurnInv
<1> QED
  BY <1>1, <1>3, <1>4, <1>5, <1>6, <1>7, <1>8, ProbeFrame, OutsideFrame, HandleFrame DEF Next, DrainStep, vars

---------------------------------------------------------------------------
\* The passes over the failed log

\* What is in the file stays where it is.
FileGrows ==
    /\ failed' \in Seq(EntryType)
    /\ Len(failed) <= Len(failed')
    /\ \A i \in DOMAIN failed : failed'[i] = failed[i]

LEMMA AppendedFile ==
    ASSUME PassInv,
           UNCHANGED failed \/ \E m \in Message, lid \in BOOLEAN : failed' = Append(failed, Entry(m, lid))
    PROVE  FileGrows
<1>1. failed \in Seq(EntryType)
  BY DEF PassInv
<1>2. ASSUME NEW e \in EntryType, failed' = Append(failed, e) PROVE FileGrows
  BY <1>1, <1>2 DEF FileGrows
<1>3. \A m \in Message, lid \in BOOLEAN : Entry(m, lid) \in EntryType
  BY DEF Entry, EntryType
<1>4. CASE UNCHANGED failed
  BY <1>1, <1>4 DEF FileGrows
<1> QED
  BY <1>2, <1>3, <1>4

LEMMA SafeStaysSafe ==
    ASSUME LogGrows, filtered \subseteq filtered',
           \A j \in DOMAIN pass.kept : j \in DOMAIN pass'.kept /\ pass'.kept[j] = pass.kept[j],
           pass.rejected \subseteq pass'.rejected,
           NEW m \in Message, LineIsSafe(m)
    PROVE  LineIsSafe(m)'
BY RowsStay DEF LineIsSafe

\* While no pass moves, the others only add to what it goes by.
LEMMA PassStays ==
    ASSUME PassInv, UNCHANGED pass, FileGrows, LogGrows, filtered \subseteq filtered',
           passes' \in Seq(PassCaller), passes # <<>> => passes' # <<>>
    PROVE  PassInv'
<1>1. /\ failed \in Seq(EntryType) /\ failed' \in Seq(EntryType)
      /\ pass \in PassType /\ pass.next \in Nat /\ pass.size \in Nat
      /\ pass.size <= Len(failed) /\ Len(failed) <= Len(failed')
      /\ pass.next <= pass.size + 1
  BY DEF PassInv, FileGrows, PassType
<1>2. pass.size <= Len(failed')
  BY <1>1
<1>3. ASSUME NEW i \in 1 .. pass.next - 1 PROVE LineIsSafe(failed[i].message)'
  <2>1. i \in DOMAIN failed /\ failed[i] \in EntryType /\ failed'[i] = failed[i]
    BY <1>1 DEF FileGrows
  <2>2. failed[i].message \in Message /\ LineIsSafe(failed[i].message)
    BY <2>1 DEF EntryType, PassInv
  <2>3. \A m \in Message : LineIsSafe(m) => LineIsSafe(m)'
    BY SafeStaysSafe
  <2> QED
    BY <2>1, <2>2, <2>3 DEF LineIsSafe, Row
<1> QED
  BY <1>1, <1>2, <1>3 DEF PassInv

\* A pass is done with a line it leaves safe.
LEMMA PassMoves ==
    ASSUME PassInv, pass.step # "none", pass.next <= pass.size,
           pass' \in PassType,
           pass'.step = "line", pass'.size = pass.size, pass'.next = pass.next + 1,
           \A j \in DOMAIN pass.kept : j \in DOMAIN pass'.kept /\ pass'.kept[j] = pass.kept[j],
           pass.rejected \subseteq pass'.rejected,
           UNCHANGED <<failed, passes>>, LogGrows, filtered \subseteq filtered',
           \E m \in Message : m = LineMessage /\ LineIsSafe(m)'
    PROVE  PassInv'
<1>1. /\ failed \in Seq(EntryType)
      /\ pass \in PassType /\ pass.next \in Nat /\ pass.size \in Nat
      /\ pass.size <= Len(failed)
      /\ pass.next >= 1
  BY DEF PassInv, PassType
<1>2. pass'.next \in 1 .. pass'.size + 1
  BY <1>1
<1>3. ASSUME NEW i \in 1 .. pass.next PROVE LineIsSafe(failed[i].message)'
  <2>1. CASE i = pass.next
    <3>1. PICK m \in Message : m = LineMessage /\ LineIsSafe(m)'
      OBVIOUS
    <3>2. m = failed'[i].message
      BY <2>1, <3>1 DEF LineMessage, Line
    <3> QED
      BY <3>1, <3>2 DEF LineIsSafe, Row
  <2>2. CASE i # pass.next
    <3>1. i \in 1 .. pass.next - 1 /\ i \in DOMAIN failed /\ failed[i] \in EntryType
      BY <1>1, <2>2
    <3>2. failed[i].message \in Message /\ LineIsSafe(failed[i].message)
      BY <3>1 DEF EntryType, PassInv
    <3>3. \A m \in Message : LineIsSafe(m) => LineIsSafe(m)'
      BY SafeStaysSafe
    <3> QED
      BY <3>2, <3>3 DEF LineIsSafe, Row
  <2> QED
    BY <2>1, <2>2
<1>4. 1 .. pass'.next - 1 = 1 .. pass.next
  BY <1>1
<1>5. \A i \in 1 .. pass'.next - 1 : LineIsSafe(failed[i].message)'
  BY <1>3, <1>4
<1>6. passes' # <<>> /\ passes' \in Seq(PassCaller) /\ failed' \in Seq(EntryType) /\ pass'.size <= Len(failed')
  BY <1>1 DEF PassInv
<1> QED
  BY <1>2, <1>5, <1>6 DEF PassInv, LineIsSafe, Row

LEMMA NoPassType ==
    /\ NoPass \in PassType
    /\ NoPass.next = 1 /\ NoPass.size = 0 /\ NoPass.step = "none"
    /\ NoPass.kept = <<>> /\ NoPass.rejected = {}
<1>1. <<>> \in Seq(EntryType)
  OBVIOUS
<1> QED
  BY <1>1 DEF NoPass, PassType

\* A pass that has ended has nothing to answer for.
LEMMA PassIsOver ==
    ASSUME pass' = NoPass, failed' \in Seq(EntryType), passes' \in Seq(PassCaller)
    PROVE  PassInv'
<1>1. NoPass \in PassType /\ NoPass.next = 1 /\ NoPass.size = 0 /\ NoPass.step = "none"
  BY NoPassType
<1>2. Len(failed') \in Nat
  OBVIOUS
<1>3. 1 .. NoPass.next - 1 = {} /\ NoPass.next \in 1 .. NoPass.size + 1 /\ NoPass.size <= Len(failed')
  BY <1>1, <1>2
<1> QED
  BY <1>1, <1>3 DEF PassInv

LEMMA CallersAfter ==
    ASSUME PassInv, pass.step # "none", NEW outcome, NEW stays, EndPass(outcome, stays)
    PROVE  pass' = NoPass /\ passes' \in Seq(PassCaller)
<1>1. passes \in Seq(PassCaller) /\ passes # <<>>
  BY DEF PassInv
<1>2. Tail(passes) \in Seq(PassCaller) /\ Recovery \subseteq PassCaller
  BY <1>1 DEF PassCaller
<1>3. passes' = Tail(passes) \/ \E r \in Recovery : passes' = Append(Tail(passes), r)
  BY DEF EndPass, Recover
<1> QED
  BY <1>2, <1>3 DEF EndPass

\* Whose turn it is at the file writes what is its own.
LEMMA OwnTurn ==
    ASSUME QueueInv, TurnInv, NEW a \in Account, Appended(a)
    PROVE  worker[a].step = "writingOff" /\ Current(a) \in Message /\ Current(a) \in arrived
<1>1. worker[a].step = "writingOff"
  BY WaitingFacts DEF Appended, WaitsFor
<1> QED
  BY <1>1, CurrentFacts

LEMMA FiltersOnlyGrow ==
    ASSUME [Next]_vars
    PROVE  filtered \subseteq filtered'
BY DEF Next, vars, history, Handle, WorkerStep, Start, Enriched, Judge, Attempt, Answer, FailForGood, Fail,
   Appended, Deliver, PassStep, BeginPass, Read, ReadFails, SaveLine, LineStored, LineRefused, LineFails,
   ProbeLine, LinesDone, KeepOnly, KeepFails, Resumed, ProbeStep, ProbeFires, ProbeFails, ProbeWrites, RetryHeld,
   DrainStep, GatherLeft, WriteLeft, LeftAppended, Exit, StartUp, ShutDown, Crash, StoreFails, StoreReturns

\* A pass at a line: it stays, is rejected, is left out, is stored, or waits for the log.
LEMMA LineStep ==
    ASSUME QueueInv, PassInv, LogGrows, filtered \subseteq filtered', UNCHANGED <<failed, passes>>,
           pass.step \in {"line", "inserting", "probing"}, pass.next <= pass.size,
           \/ \E waits \in BOOLEAN : Keep(waits)
           \/ Reject
           \/ /\ pass' \in {NextLine, [NextLine EXCEPT !.stored = TRUE]}
              /\ \E m \in Message : m = LineMessage /\ (m \in filtered' \/ Row(m)' # {})
           \/ pass' = [pass EXCEPT !.step = "inserting"]
           \/ pass' = [pass EXCEPT !.step = "probing"]
    PROVE  PassInv'
<1>1. /\ pass \in PassType
      /\ Line \in EntryType /\ LineMessage \in Message /\ LineAccount \in Account
      /\ pass.kept \in Seq(EntryType) /\ Append(pass.kept, Line) \in Seq(EntryType)
      /\ pass.size \in Nat /\ pass.next + 1 \in Nat
      /\ pass.rejected \in SUBSET Message
      /\ pass.heldBack \union {LineAccount} \in SUBSET Account
      /\ pass.waiting \in SUBSET Account /\ pass.waiting \union {LineAccount} \in SUBSET Account
  <2>1. pass \in PassType /\ Line \in EntryType /\ LineMessage \in Message /\ LineAccount \in Account
    BY LineFacts DEF PassInv
  <2>2. /\ pass.kept \in Seq(EntryType) /\ pass.size \in Nat /\ pass.next \in Nat
        /\ pass.rejected \in SUBSET Message
        /\ pass.heldBack \in SUBSET Account /\ pass.waiting \in SUBSET Account
    BY <2>1 DEF PassType
  <2> QED
    BY <2>1, <2>2
<1>2. ASSUME NEW waits \in BOOLEAN, Keep(waits) PROVE PassInv'
  <2>1. pass' = [NextLine EXCEPT !.kept = Append(pass.kept, Line),
                                 !.heldBack = pass.heldBack \union {LineAccount},
                                 !.waiting = IF waits THEN pass.waiting \union {LineAccount} ELSE pass.waiting]
    BY <1>1, <1>2 DEF Keep, NextLine, PassType
  <2>2. /\ pass' \in PassType /\ pass'.step = "line" /\ pass'.size = pass.size /\ pass'.next = pass.next + 1
        /\ pass'.rejected = pass.rejected /\ pass'.kept = Append(pass.kept, Line)
    BY <1>1, <2>1 DEF NextLine, PassType
  <2>3. /\ \A j \in DOMAIN pass.kept : j \in DOMAIN pass'.kept /\ pass'.kept[j] = pass.kept[j]
        /\ Len(pass.kept) + 1 \in DOMAIN pass'.kept
        /\ pass'.kept[Len(pass.kept) + 1] = Line
    BY <1>1, <2>2
  <2>4. \A m \in Message : m = LineMessage => LineIsSafe(m)'
    BY <2>3 DEF LineIsSafe, LineMessage
  <2> QED
    BY <1>1, <2>2, <2>3, <2>4, PassMoves
<1>3. CASE Reject
  <2>1. /\ pass' \in PassType /\ pass'.step = "line" /\ pass'.size = pass.size /\ pass'.next = pass.next + 1
        /\ pass'.rejected = pass.rejected \union {LineMessage} /\ pass'.kept = pass.kept
    BY <1>1, <1>3 DEF Reject, NextLine, PassType
  <2>2. \A m \in Message : m = LineMessage => LineIsSafe(m)'
    BY <2>1 DEF LineIsSafe
  <2> QED
    BY <1>1, <2>1, <2>2, PassMoves
<1>4. CASE /\ pass' \in {NextLine, [NextLine EXCEPT !.stored = TRUE]}
           /\ \E m \in Message : m = LineMessage /\ (m \in filtered' \/ Row(m)' # {})
  <2>1. /\ pass' \in PassType /\ pass'.step = "line" /\ pass'.size = pass.size /\ pass'.next = pass.next + 1
        /\ pass'.rejected = pass.rejected /\ pass'.kept = pass.kept
    BY <1>1, <1>4 DEF NextLine, PassType
  <2>2. \A m \in Message : m = LineMessage => LineIsSafe(m)'
    BY <1>4 DEF LineIsSafe, Row
  <2> QED
    BY <1>1, <2>1, <2>2, PassMoves
<1>5. ASSUME NEW s \in {"inserting", "probing"}, pass' = [pass EXCEPT !.step = s] PROVE PassInv'
  <2>1. /\ pass' \in PassType /\ pass'.step = s /\ pass'.size = pass.size /\ pass'.next = pass.next
        /\ pass'.rejected = pass.rejected /\ pass'.kept = pass.kept
    BY <1>1, <1>5 DEF PassType
  <2>2. ASSUME NEW i \in 1 .. pass.next - 1 PROVE LineIsSafe(failed[i].message)'
    <3>1. i \in DOMAIN failed /\ failed[i] \in EntryType
      BY DEF PassInv, PassType
    <3>2. failed[i].message \in Message /\ LineIsSafe(failed[i].message)
      BY <3>1 DEF EntryType, PassInv
    <3>3. \A m \in Message : LineIsSafe(m) => LineIsSafe(m)'
      BY <2>1, SafeStaysSafe
    <3> QED
      BY <3>2, <3>3 DEF LineIsSafe, Row
  <2> QED
    BY <2>1, <2>2 DEF PassInv
<1> QED
  BY <1>2, <1>3, <1>4, <1>5

LEMMA PassInvStep ==
    ASSUME WorldInv, QueueInv, LogInv, TurnInv, PassInv, LeftInv, [Next]_vars
    PROVE  PassInv'
<1> USE DEF world, durable, live, passing, history
<1>1. LogGrows /\ filtered \subseteq filtered'
  BY LogOnlyGrows, LogAfter, FiltersOnlyGrow
<1>2. failed \in Seq(EntryType) /\ passes \in Seq(PassCaller)
  BY DEF PassInv
<1>3. ASSUME NEW by \in PassCaller, passes' = Append(passes, by) PROVE passes' \in Seq(PassCaller) /\ passes' # <<>>
  BY <1>2, <1>3
<1>4. ASSUME UNCHANGED <<failed, pass>>,
             UNCHANGED passes \/ \E by \in PassCaller : passes' = Append(passes, by)
      PROVE  PassInv'
  BY <1>1, <1>2, <1>3, <1>4, AppendedFile, PassStays
<1>5. ASSUME NEW a \in Account, WorkerStep(a) PROVE PassInv'
  <2>1. UNCHANGED pass
    BY <1>5, WorkerFrame
  <2>2. UNCHANGED passes \/ passes' = Append(passes, a)
    BY <1>5 DEF WorkerStep, Start, Enriched, Attempt, Answer, FailForGood, Fail, Appended, Deliver, Refuse,
       RetryOrOpen, AfterWriteOff
  <2>3. CASE Appended(a)
    <3>1. FileGrows
      BY <2>3, OwnTurn, AppendedFile DEF Appended
    <3> QED
      BY <1>1, <1>2, <1>3, <2>1, <2>2, <3>1, PassStays DEF PassCaller
  <2>4. CASE ~Appended(a)
    <3>1. UNCHANGED failed
      BY <1>5, <2>4 DEF WorkerStep, Start, Enriched, Attempt, Answer, FailForGood, Fail, Deliver
    <3> QED
      BY <1>4, <2>1, <2>2, <3>1 DEF PassCaller
  <2> QED
    BY <2>3, <2>4
<1>6. ASSUME pass.step # "none", NEW outcome, NEW stays, EndPass(outcome, stays), failed' \in Seq(EntryType)
      PROVE  PassInv'
  BY <1>6, CallersAfter, PassIsOver
<1>7. CASE PassStep
  <2>1. CASE BeginPass
    <3>1. pass' = [NoPass EXCEPT !.step = "toRead"] /\ passes # <<>> /\ UNCHANGED <<failed, passes>>
      BY <2>1 DEF BeginPass
    <3>2. pass' \in PassType /\ pass'.step = "toRead" /\ pass'.size = 0 /\ pass'.next = 1
      BY <3>1, NoPassType DEF PassType
    <3>3. Len(failed') \in Nat /\ 1 .. 1 - 1 = {}
      BY <1>2, <3>1
    <3> QED
      BY <3>1, <3>2, <3>3 DEF PassInv
  <2>2. CASE Read
    <3>1. pass' = [pass EXCEPT !.step = "line", !.size = Len(failed)] /\ UNCHANGED <<failed, passes>>
          /\ pass.step = "toRead" /\ pass \in PassType /\ Len(failed) \in Nat
      BY <1>2, <2>2 DEF Read, FileIsFor, PassInv
    <3>2. pass' \in PassType /\ pass'.step = "line" /\ pass'.size = Len(failed) /\ pass'.next = pass.next
          /\ pass'.kept = pass.kept /\ pass'.rejected = pass.rejected
      BY <3>1 DEF PassType
    <3>3. pass.next \in 1 .. Len(failed) + 1
      BY <3>1 DEF PassInv, PassType
    <3>4. ASSUME NEW i \in 1 .. pass.next - 1 PROVE LineIsSafe(failed[i].message)'
      <4>1. i \in DOMAIN failed /\ failed[i] \in EntryType
        BY <3>1 DEF PassInv, PassType
      <4>2. failed[i].message \in Message /\ LineIsSafe(failed[i].message)
        BY <4>1 DEF EntryType, PassInv
      <4>3. \A m \in Message : LineIsSafe(m) => LineIsSafe(m)'
        BY <1>1, <3>2, SafeStaysSafe
      <4> QED
        BY <3>1, <4>2, <4>3 DEF LineIsSafe, Row
    <3> QED
      BY <3>1, <3>2, <3>3, <3>4 DEF PassInv
  <2>3. CASE ReadFails
    BY <1>2, <1>6, <2>3 DEF ReadFails, FileIsFor
  <2>4. ASSUME NEW resolution \in Resolution, NEW tooLate \in BOOLEAN, SaveLine(resolution, tooLate)
        PROVE  PassInv'
    <3>1. /\ pass.step = "line" /\ pass.next <= pass.size /\ UNCHANGED <<failed, passes>>
      BY <2>4 DEF SaveLine
    <3>2. \/ Keep(LineAccount \in pass.waiting) \/ Keep(TRUE) \/ Keep(FALSE)
          \/ Reject
          \/ pass' = NextLine /\ LineMessage \in filtered'
          \/ pass' = [pass EXCEPT !.step = "inserting"]
      BY <2>4 DEF SaveLine
    <3>3. CASE Keep(LineAccount \in pass.waiting) \/ Keep(TRUE) \/ Keep(FALSE)
      <4>1. (LineAccount \in pass.waiting) \in BOOLEAN
        OBVIOUS
      <4>2. \E waits \in BOOLEAN : Keep(waits)
        BY <3>3, <4>1, Zenon
      <4> QED
        BY <1>1, <3>1, <4>2, LineStep
    <3> QED
      BY <1>1, <3>1, <3>2, <3>3, LineStep, LineFacts
  <2>5. CASE LineStored
    <3>1. pass.step = "inserting" /\ pass.next <= pass.size /\ UNCHANGED <<failed, passes>>
      BY <2>5 DEF LineStored, PassInv
    <3>2. \A m \in Message : Insert(m) => Row(m)' # {}
      BY InsertLog
    <3>3. \E m \in Message : m = LineMessage /\ Row(m)' # {}
      BY <2>5, <3>1, <3>2, LineFacts DEF LineStored
    <3> QED
      BY <1>1, <2>5, <3>1, <3>3, LineStep DEF LineStored
  <2>6. CASE LineRefused
    BY <1>1, <2>6, LineStep DEF LineRefused, PassInv
  <2>7. CASE LineFails
    BY <1>1, <2>7, LineStep DEF LineFails, PassInv
  <2>8. CASE ProbeLine
    <3>1. up \in BOOLEAN
      BY DEF WorldInv
    <3> QED
      BY <1>1, <2>8, <3>1, LineStep DEF ProbeLine, PassInv
  <2>9. CASE LinesDone
    <3>1. CASE UNCHANGED passes /\ pass' = [pass EXCEPT !.step = "toKeep"]
      <4>1. pass \in PassType /\ pass.next = pass.size + 1 /\ pass.step = "line" /\ passes # <<>> /\ UNCHANGED failed
        BY <2>9 DEF LinesDone, PassInv, PassType
      <4>2. pass' \in PassType /\ pass'.step = "toKeep" /\ pass'.size = pass.size /\ pass'.next = pass.next
            /\ pass'.kept = pass.kept /\ pass'.rejected = pass.rejected
        BY <3>1, <4>1 DEF PassType
      <4>3. ASSUME NEW i \in 1 .. pass.next - 1 PROVE LineIsSafe(failed[i].message)'
        <5>1. i \in DOMAIN failed /\ failed[i] \in EntryType
          BY <4>1 DEF PassInv, PassType
        <5>2. failed[i].message \in Message /\ LineIsSafe(failed[i].message)
          BY <5>1 DEF EntryType, PassInv
        <5>3. \A m \in Message : LineIsSafe(m) => LineIsSafe(m)'
          BY <1>1, <4>2, SafeStaysSafe
        <5> QED
          BY <4>1, <5>2, <5>3 DEF LineIsSafe, Row
      <4> QED
        BY <3>1, <4>1, <4>2, <4>3 DEF PassInv
    <3>2. CASE EndPass("passed", pass.kept # <<>>)
      BY <1>2, <1>6, <2>9, <3>2 DEF LinesDone
    <3> QED
      BY <2>9, <3>1, <3>2 DEF LinesDone
  <2>10. CASE KeepOnly
    <3>1. failed' \in Seq(EntryType)
      <4>1. pass \in PassType /\ pass.kept \in Seq(EntryType) /\ pass.size \in Nat
        BY DEF PassInv, PassType
      <4>2. SubSeq(failed, pass.size + 1, Len(failed)) \in Seq(EntryType)
        BY <1>2, <4>1
      <4> QED
        BY <2>10, <4>1, <4>2 DEF KeepOnly
    <3> QED
      BY <1>6, <2>10, <3>1 DEF KeepOnly, FileIsFor
  <2>11. CASE KeepFails
    BY <1>2, <1>6, <2>11 DEF KeepFails, FileIsFor
  <2> QED
    BY <1>7, <2>1, <2>2, <2>3, <2>4, <2>5, <2>6, <2>7, <2>8, <2>9, <2>10, <2>11 DEF PassStep
<1>8. CASE Exit \/ Crash
  <2>1. pass' = NoPass /\ passes' = <<>> /\ UNCHANGED failed
    BY <1>8 DEF Exit, Crash, Forget
  <2>2. passes' \in Seq(PassCaller)
    BY <2>1
  <2> QED
    BY <1>2, <2>1, <2>2, PassIsOver
<1>9. CASE ProbeStep
  <2>1. UNCHANGED passes \/ \E r \in Recovery : passes' = Append(passes, r)
    BY <1>9 DEF ProbeStep, ProbeFires, ProbeFails, ProbeWrites
  <2> QED
    BY <1>4, <1>9, <2>1, ProbeFrame DEF PassCaller
<1>10. CASE RetryHeld
  BY <1>4, <1>10 DEF RetryHeld, PassCaller
<1>11. CASE StartUp
  <2>1. passes' = <<"startup">> /\ passes' # <<>> /\ passes' \in Seq(PassCaller)
    BY <1>11 DEF StartUp, PassCaller
  <2> QED
    BY <1>1, <1>2, <1>11, <2>1, AppendedFile, PassStays DEF StartUp
<1>12. CASE GatherLeft \/ WriteLeft \/ LeftAppended
  <2>1. UNCHANGED <<pass, passes>>
    BY <1>12, DrainFrame
  <2>2. FileGrows
    <3>1. CASE LeftAppended
      <4>1. left # <<>> /\ Head(turn) \in TurnType
        BY <3>1, WaitingFacts, NamesAssumption DEF LeftAppended, WaitsFor
      <4>2. Head(left) \in Message /\ Head(turn).lid \in BOOLEAN
        BY <4>1 DEF LeftInv, TurnType
      <4> QED
        BY <3>1, <4>2, AppendedFile DEF LeftAppended
    <3>2. CASE ~LeftAppended
      BY <1>12, <3>2, AppendedFile DEF GatherLeft, WriteLeft
    <3> QED
      BY <3>1, <3>2
  <2> QED
    BY <1>1, <1>2, <2>1, <2>2, PassStays
<1>13. CASE UNCHANGED <<failed, pass, passes>>
  BY <1>4, <1>13
<1> QED
  BY <1>5, <1>7, <1>8, <1>9, <1>10, <1>11, <1>12, <1>13, HandleFrame, ProbeFrame
     DEF Next, DrainStep, vars, ShutDown, StoreFails, StoreReturns

---------------------------------------------------------------------------
\* What drain() gathers

LEMMA PassMode ==
    PassStep => mode' = mode \/ (mode = "starting" /\ mode' = "running")
BY DEF PassStep, BeginPass, Read, ReadFails, SaveLine, LineStored, LineRefused, LineFails, ProbeLine, LinesDone,
   KeepOnly, KeepFails, EndPass, world

\* Each of the messages that are not stored is gathered.
LEMMA Gathered ==
    ASSUME LeftInv, unsaved \subseteq Message, GatherLeft
    PROVE  left' \in Seq(Message) /\ ToSet(left') = unsaved
<1> DEFINE n == Cardinality(unsaved)
           D == 1 .. n
<1>1. n \in Nat
  BY FS_CardinalityType DEF LeftInv
<1>2. left' \in SetToSeqs(unsaved)
  BY DEF GatherLeft
<1>3. left' \in [D -> unsaved] /\ \A i, j \in D : i # j => left'[i] # left'[j]
  BY <1>2 DEF SetToSeqs
<1>4. left' \in Injection(D, unsaved)
  BY <1>3 DEF Injection, IsInjective
<1>5. Cardinality(D) = n
  BY <1>1, FS_Interval
<1>6. left' \in Surjection(D, unsaved)
  BY <1>4, <1>5, FS_Injection DEF LeftInv
<1>7. ToSet(left') = unsaved
  BY <1>3, <1>6 DEF Surjection, ToSet
<1>8. left' \in Seq(Message)
  BY <1>1, <1>3
<1> QED
  BY <1>7, <1>8

LEMMA UnsavedShrinks ==
    ASSUME NEW a \in Account, WorkerStep(a)
    PROVE  unsaved' \subseteq unsaved
BY DEF WorkerStep, Start, Enriched, Judge, Attempt, Answer, FailForGood, Fail, Appended, Deliver, live

LEMMA LeftInvStep ==
    ASSUME LeftInv, ArrivedInv, arrived \subseteq Message, TurnInv, [Next]_vars
    PROVE  LeftInv'
<1> USE DEF live
<1>1. ASSUME NEW m \in Message, Handle(m) PROVE LeftInv'
  <2>1. IsFiniteSet(unsaved \union {m})
    BY FS_AddElement DEF LeftInv
  <2> QED
    BY <1>1, <2>1 DEF Handle, LeftInv, world
<1>2. ASSUME NEW a \in Account, WorkerStep(a) PROVE LeftInv'
  <2>1. unsaved' \subseteq unsaved /\ UNCHANGED <<mode, left>>
    BY <1>2, UnsavedShrinks, WorkerFrame
  <2>2. IsFiniteSet(unsaved')
    BY <2>1, FS_Subset DEF LeftInv
  <2> QED
    BY <2>1, <2>2 DEF LeftInv
<1>3. CASE PassStep
  BY <1>3, PassMode, PassFrame DEF LeftInv
<1>4. CASE GatherLeft
  <2>1. unsaved \subseteq Message
    BY DEF ArrivedInv
  <2>2. IsFiniteSet({})
    BY FS_EmptySet
  <2> QED
    BY <1>4, <2>1, <2>2, Gathered DEF LeftInv, GatherLeft
<1>5. CASE WriteLeft \/ LeftAppended
  <2>1. left # <<>>
    BY <1>5, WaitingFacts, NamesAssumption DEF WriteLeft, LeftAppended, WaitsFor
  <2>2. Tail(left) \in Seq(Message)
    BY <2>1 DEF LeftInv
  <2>3. left' \in {left, Tail(left)} /\ UNCHANGED <<mode, unsaved>>
    BY <1>5 DEF WriteLeft, LeftAppended, world
  <2> QED
    BY <2>1, <2>2, <2>3 DEF LeftInv
<1>6. CASE Exit \/ Crash
  <2>1. IsFiniteSet({}) /\ <<>> \in Seq(Message)
    BY FS_EmptySet
  <2> QED
    BY <1>6, <2>1 DEF Exit, Crash, Forget, LeftInv
<1>7. CASE StartUp \/ ShutDown
  BY <1>7 DEF StartUp, ShutDown, LeftInv
<1>8. CASE UNCHANGED <<mode, left, unsaved>>
  BY <1>8 DEF LeftInv
<1> QED
  BY <1>1, <1>2, <1>3, <1>4, <1>5, <1>6, <1>7, <1>8, ProbeFrame
     DEF Next, DrainStep, vars, world, StoreFails, StoreReturns, RetryHeld

---------------------------------------------------------------------------
\* Only what arrived is anywhere

LEMMA InFileArrived ==
    ASSUME ArrivedInv
    PROVE  InFile \subseteq arrived /\ ToSet(left) \subseteq arrived
BY DEF ArrivedInv, InFile, ToSet

LEMMA ArrivedInvStep ==
    ASSUME QueueInv, TurnInv, PassInv, LeftInv, ArrivedInv, [Next]_vars
    PROVE  ArrivedInv'
<1> USE DEF world, durable, live, passing, history
<1>1. ASSUME NEW m \in Message, Handle(m) PROVE ArrivedInv'
  BY <1>1 DEF Handle, ArrivedInv
<1>2. ASSUME NEW a \in Account, WorkerStep(a) PROVE ArrivedInv'
  <2>1. UNCHANGED <<rejects, pass, left, arrived, held>> /\ unsaved' \subseteq unsaved
    BY <1>2, WorkerFrame, UnsavedShrinks
  <2>2. filtered' \subseteq arrived
    <3>1. ASSUME NEW e, Judge(a, e) PROVE filtered' \subseteq arrived
      BY <3>1 DEF Judge, ArrivedInv
    <3> QED
      BY <1>2, <3>1 DEF WorkerStep, Start, Enriched, Attempt, Answer, FailForGood, Fail, Appended, Deliver, ArrivedInv
  <2>3. late' \subseteq arrived
    BY <1>2, InFileArrived DEF WorkerStep, Start, Enriched, Attempt, Answer, FailForGood, Fail, Appended, Deliver, ArrivedInv
  <2>4. gone' \subseteq arrived /\ \A i \in DOMAIN failed' : failed'[i].message \in arrived
    <3>1. CASE Appended(a)
      <4>1. Current(a) \in arrived
        BY <3>1, OwnTurn
      <4>2. CASE failed' = Append(failed, Entry(Current(a), FALSE)) /\ UNCHANGED gone
        <5>1. failed \in Seq(EntryType)
          BY DEF PassInv
        <5>2. \A i \in DOMAIN failed' : (i \in DOMAIN failed /\ failed'[i] = failed[i]) \/ failed'[i].message = Current(a)
          BY <4>2, <5>1 DEF Entry
        <5> QED
          BY <4>1, <4>2, <5>2 DEF ArrivedInv
      <4>3. CASE gone' = gone \union {Current(a)} /\ UNCHANGED failed
        BY <4>1, <4>3 DEF ArrivedInv
      <4> QED
        BY <3>1, <4>2, <4>3 DEF Appended
    <3>2. CASE ~Appended(a)
      BY <1>2, <3>2 DEF WorkerStep, Start, Enriched, Attempt, Answer, FailForGood, Fail, Deliver, ArrivedInv
    <3> QED
      BY <3>1, <3>2
  <2> QED
    BY <2>1, <2>2, <2>3, <2>4 DEF ArrivedInv
<1>3. CASE PassStep
  <2>1. UNCHANGED <<unsaved, left, arrived, gone>> /\ late' \subseteq arrived
    <3>1. UNCHANGED <<unsaved, left, arrived, gone>>
      BY <1>3, PassFrame
    <3>2. late' \subseteq late \union InFile
      BY <1>3 DEF PassStep, BeginPass, Read, ReadFails, SaveLine, LineStored, LineRefused, LineFails, ProbeLine,
         LinesDone, KeepOnly, KeepFails, EndPass, Recover, Finish
    <3> QED
      BY <3>1, <3>2, InFileArrived DEF ArrivedInv
  <2>2. held' \subseteq arrived /\ filtered' \subseteq arrived
    <3>1. pass.next <= pass.size => LineMessage \in arrived
      BY LineFacts DEF ArrivedInv, LineMessage, Line
    <3>2. ASSUME NEW waits, Keep(waits), pass.next <= pass.size PROVE held' \subseteq arrived
      BY <3>1, <3>2 DEF Keep, ArrivedInv
    <3>3. ASSUME NEW resolution, NEW tooLate, SaveLine(resolution, tooLate)
          PROVE  held' \subseteq arrived /\ filtered' \subseteq arrived
      BY <3>1, <3>2, <3>3 DEF SaveLine, SetAside, ArrivedInv
    <3>4. CASE ReadFails \/ KeepFails
      BY <3>4, InFileArrived DEF ReadFails, KeepFails, ArrivedInv
    <3>5. CASE ProbeLine
      BY <3>2, <3>5 DEF ProbeLine, ArrivedInv, PassInv
    <3>6. CASE UNCHANGED <<held, filtered>>
      BY <3>6 DEF ArrivedInv
    <3> QED
      BY <1>3, <3>3, <3>4, <3>5, <3>6 DEF PassStep, BeginPass, Read, LineStored, LineRefused, LineFails, LinesDone, KeepOnly
  <2>3. rejects' \subseteq arrived
    BY <1>3 DEF PassStep, BeginPass, Read, ReadFails, SaveLine, LineStored, LineRefused, LineFails, ProbeLine, LinesDone,
       KeepOnly, KeepFails, ArrivedInv
  <2>4. \A i \in DOMAIN failed' : failed'[i].message \in arrived
    <3>1. CASE KeepOnly
      <4>1. /\ pass \in PassType /\ pass.kept \in Seq(EntryType) /\ pass.size \in Nat
            /\ failed \in Seq(EntryType) /\ pass.size <= Len(failed)
        BY DEF PassInv, PassType
      <4>2. \A i \in DOMAIN failed' :
                \/ i \in DOMAIN pass.kept /\ failed'[i] = pass.kept[i]
                \/ \E j \in DOMAIN failed : failed'[i] = failed[j]
        <5> DEFINE rest == SubSeq(failed, pass.size + 1, Len(failed))
        <5>1. /\ rest \in Seq(EntryType)
              /\ \A j \in DOMAIN rest : pass.size + j \in DOMAIN failed /\ rest[j] = failed[pass.size + j]
          BY <4>1
        <5>2. failed' = pass.kept \o rest
          BY <3>1 DEF KeepOnly
        <5> HIDE DEF rest
        <5>3. \A i \in DOMAIN failed' : \/ i \in DOMAIN pass.kept /\ failed'[i] = pass.kept[i]
                                        \/ i - Len(pass.kept) \in DOMAIN rest /\ failed'[i] = rest[i - Len(pass.kept)]
          BY <4>1, <5>1, <5>2
        <5> QED
          BY <5>1, <5>3
      <4> QED
        BY <4>2 DEF ArrivedInv
    <3>2. CASE UNCHANGED failed
      BY <3>2 DEF ArrivedInv
    <3> QED
      BY <1>3, <3>1, <3>2 DEF PassStep, BeginPass, Read, ReadFails, SaveLine, LineStored, LineRefused, LineFails,
         ProbeLine, LinesDone, KeepFails
  <2>5. (\A i \in DOMAIN pass'.kept : pass'.kept[i].message \in arrived) /\ pass'.rejected \subseteq arrived
    <3>1. pass.next <= pass.size =>
              /\ LineMessage \in arrived /\ Line.message = LineMessage /\ Line \in EntryType
      BY LineFacts DEF ArrivedInv, LineMessage, Line
    <3>2. pass \in PassType /\ pass.kept \in Seq(EntryType) /\ pass.rejected \subseteq arrived
      BY DEF PassInv, PassType, ArrivedInv
    <3>3. ASSUME NEW waits, Keep(waits), pass.next <= pass.size
          PROVE  (\A i \in DOMAIN pass'.kept : pass'.kept[i].message \in arrived) /\ pass'.rejected \subseteq arrived
      <4>1. pass'.kept = Append(pass.kept, Line) /\ pass'.rejected = pass.rejected
        BY <3>2, <3>3 DEF Keep, NextLine, PassType
      <4>2. \A i \in DOMAIN pass'.kept : (i \in DOMAIN pass.kept /\ pass'.kept[i] = pass.kept[i]) \/ pass'.kept[i] = Line
        BY <3>1, <3>2, <3>3, <4>1
      <4> QED
        BY <3>1, <3>2, <3>3, <4>1, <4>2 DEF ArrivedInv
    <3>4. CASE Reject /\ pass.next <= pass.size
      <4>1. pass'.kept = pass.kept /\ pass'.rejected = pass.rejected \union {LineMessage}
        BY <3>2, <3>4 DEF Reject, NextLine, PassType
      <4> QED
        BY <3>1, <3>2, <3>4, <4>1 DEF ArrivedInv
    <3>5. CASE pass'.kept = pass.kept /\ pass'.rejected = pass.rejected
      BY <3>5 DEF ArrivedInv
    <3>6. CASE pass'.kept = <<>> /\ pass'.rejected = {}
      BY <3>6
    <3>7. CASE pass' = NoPass \/ pass' = [NoPass EXCEPT !.step = "toRead"]
      BY <3>6, <3>7, NoPassType DEF PassType
    <3>8. ASSUME NEW s, pass' = [pass EXCEPT !.step = s] PROVE pass'.kept = pass.kept /\ pass'.rejected = pass.rejected
      BY <3>2, <3>8 DEF PassType
    <3>9. CASE pass' \in {NextLine, [NextLine EXCEPT !.stored = TRUE]}
      BY <3>2, <3>5, <3>9 DEF NextLine, PassType
    <3>10. CASE Read
      BY <3>2, <3>5, <3>10 DEF Read, PassType
    <3>11. CASE BeginPass \/ ReadFails \/ KeepOnly \/ KeepFails
      BY <3>7, <3>11 DEF BeginPass, ReadFails, KeepOnly, KeepFails, EndPass
    <3>12. CASE LinesDone
      BY <3>5, <3>7, <3>8, <3>12 DEF LinesDone, EndPass
    <3>13. CASE LineStored \/ LineRefused \/ LineFails \/ ProbeLine
      <4>1. pass.step \in {"inserting", "probing"} => pass.next <= pass.size
        BY DEF PassInv
      <4>2. CASE ProbeLine
        BY <3>3, <4>1, <4>2 DEF ProbeLine
      <4> QED
        BY <3>4, <3>5, <3>8, <3>9, <3>13, <4>1, <4>2 DEF LineStored, LineRefused, LineFails
    <3>14. ASSUME NEW resolution, NEW tooLate, SaveLine(resolution, tooLate)
           PROVE  (\A i \in DOMAIN pass'.kept : pass'.kept[i].message \in arrived) /\ pass'.rejected \subseteq arrived
      <4>1. pass.next <= pass.size
        BY <3>14 DEF SaveLine
      <4>2. \/ Keep(LineAccount \in pass.waiting) \/ Keep(TRUE) \/ Keep(FALSE)
            \/ Reject
            \/ pass' = NextLine
            \/ pass' = [pass EXCEPT !.step = "inserting"]
        BY <3>14 DEF SaveLine
      <4> QED
        BY <3>3, <3>4, <3>5, <3>8, <3>9, <4>1, <4>2
    <3> QED
      BY <1>3, <3>10, <3>11, <3>12, <3>13, <3>14 DEF PassStep
  <2> QED
    BY <2>1, <2>2, <2>3, <2>4, <2>5 DEF ArrivedInv
<1>4. CASE GatherLeft
  <2>1. ToSet(left') = unsaved
    BY <1>4, Gathered DEF ArrivedInv, QueueInv
  <2>2. \A i \in DOMAIN left' : left'[i] \in arrived
    BY <2>1 DEF ToSet, ArrivedInv
  <2> QED
    BY <1>4, <2>2 DEF GatherLeft, ArrivedInv
<1>5. CASE WriteLeft \/ LeftAppended
  <2>1. left # <<>> /\ left \in Seq(Message)
    BY <1>5, WaitingFacts, NamesAssumption DEF WriteLeft, LeftAppended, WaitsFor, LeftInv
  <2>2. /\ Head(left) \in arrived
        /\ \A i \in DOMAIN Tail(left) : Tail(left)[i] \in arrived
    <3>1. Head(left) = left[1] /\ 1 \in DOMAIN left
      BY <2>1
    <3>2. \A i \in DOMAIN Tail(left) : i + 1 \in DOMAIN left /\ Tail(left)[i] = left[i + 1]
      BY <2>1
    <3> QED
      BY <3>1, <3>2 DEF ArrivedInv
  <2>3. CASE WriteLeft
    BY <2>2, <2>3 DEF WriteLeft, ArrivedInv
  <2>4. CASE LeftAppended
    <3>1. \A i \in DOMAIN failed' : failed'[i].message \in arrived
      <4>1. CASE failed' = Append(failed, Entry(Head(left), Head(turn).lid))
        <5>1. failed \in Seq(EntryType)
          BY DEF PassInv
        <5>2. \A i \in DOMAIN failed' : (i \in DOMAIN failed /\ failed'[i] = failed[i]) \/ failed'[i].message = Head(left)
          BY <4>1, <5>1 DEF Entry
        <5> QED
          BY <2>2, <5>2 DEF ArrivedInv
      <4>2. CASE UNCHANGED failed
        BY <4>2 DEF ArrivedInv
      <4> QED
        BY <2>4, <4>1, <4>2 DEF LeftAppended
    <3> QED
      BY <2>2, <2>4, <3>1 DEF LeftAppended, ArrivedInv
  <2> QED
    BY <1>5, <2>3, <2>4
<1>6. CASE Exit \/ Crash
  <2>1. pass'.kept = <<>> /\ pass'.rejected = {} /\ left' = <<>> /\ unsaved' = {}
    BY <1>6, NoPassType DEF Exit, Crash, Forget
  <2>2. /\ UNCHANGED <<failed, rejects, filtered, held, late, arrived>>
        /\ gone' \subseteq gone \union unsaved \union ToSet(left)
    BY <1>6 DEF Exit, Crash
  <2>3. \A i \in DOMAIN <<>> : FALSE
    OBVIOUS
  <2> QED
    BY <2>1, <2>2, <2>3, InFileArrived DEF ArrivedInv
<1>7. CASE /\ UNCHANGED <<failed, rejects, unsaved, left, pass, arrived, filtered, gone, held>>
           /\ late' \subseteq late \union InFile
  BY <1>7, InFileArrived DEF ArrivedInv
<1>8. ASSUME NEW r \in Recovery, Resumed(r) PROVE late' \subseteq late \union InFile
  BY <1>8 DEF Resumed, Finish
<1> QED
  BY <1>1, <1>2, <1>3, <1>4, <1>5, <1>6, <1>7, <1>8, ProbeFrame, OutsideFrame DEF Next, DrainStep, vars

---------------------------------------------------------------------------
\* Nothing is lost

Somewhere(m) ==
    \/ m \in unsaved \union ToSet(left)
    \/ Row(m) # {}
    \/ m \in InFile \union rejects \union filtered \union gone

\* A message is somewhere still if no step takes it from where it may go from without
\* putting it somewhere.
LEMMA StaysSomewhere ==
    ASSUME LogGrows, rejects \subseteq rejects', filtered \subseteq filtered', gone \subseteq gone',
           NEW m \in Message, Somewhere(m),
           m \in unsaved => Somewhere(m)',
           m \in ToSet(left) => Somewhere(m)',
           m \in InFile => Somewhere(m)'
    PROVE  Somewhere(m)'
BY RowsStay DEF Somewhere

LEMMA FileKeeps ==
    ASSUME FileGrows, PassInv
    PROVE  InFile \subseteq InFile'
<1>1. ASSUME NEW i \in DOMAIN failed PROVE i \in DOMAIN failed' /\ failed'[i] = failed[i]
  BY DEF FileGrows, PassInv
<1> QED
  BY <1>1 DEF InFile

\* What is appended is in the file.
LEMMA AppendedIsInFile ==
    ASSUME PassInv, NEW m, NEW lid, failed' = Append(failed, Entry(m, lid))
    PROVE  m \in InFile'
<1>1. /\ Len(failed) + 1 \in DOMAIN failed'
      /\ failed'[Len(failed) + 1] = Entry(m, lid)
  BY DEF PassInv
<1>2. failed'[Len(failed) + 1].message = m
  BY <1>1 DEF Entry
<1> QED
  BY <1>1, <1>2 DEF InFile

\* What is behind the first n of a sequence.
LEMMA Rest ==
    ASSUME NEW T, NEW q \in Seq(T), NEW n \in Nat, n <= Len(q)
    PROVE  /\ SubSeq(q, n + 1, Len(q)) \in Seq(T)
           /\ Len(SubSeq(q, n + 1, Len(q))) = Len(q) - n
           /\ \A i \in (n + 1) .. Len(q) : SubSeq(q, n + 1, Len(q))[i - n] = q[i]
<1>1. SubSeq(q, n + 1, Len(q)) \in Seq(T)
  OBVIOUS
<1>2. Len(SubSeq(q, n + 1, Len(q))) = Len(q) - n
  OBVIOUS
<1>3. ASSUME NEW i \in (n + 1) .. Len(q)
      PROVE  SubSeq(q, n + 1, Len(q))[i - n] = q[i]
  OBVIOUS
<1> QED
  BY <1>1, <1>2, <1>3

\* Where the members of the second of two sequences are in both.
LEMMA Behind ==
    ASSUME NEW T, NEW p \in Seq(T), NEW q \in Seq(T), NEW k \in DOMAIN q
    PROVE  Len(p) + k \in DOMAIN (p \o q) /\ (p \o q)[Len(p) + k] = q[k]
<1>1. k \in 1 .. Len(q) /\ Len(p) \in Nat /\ Len(q) \in Nat
  OBVIOUS
<1>2. DOMAIN (p \o q) = 1 .. Len(p) + Len(q)
  OBVIOUS
<1>3. Len(p) + k \in 1 .. Len(p) + Len(q)
  BY <1>1
<1>4. (p \o q)[Len(p) + k] = q[k]
  BY <1>1
<1> QED
  BY <1>2, <1>3, <1>4

\* keepOnly: every line of the file is in it still, or is where the pass put it.
LEMMA KeepOnlyKeeps ==
    ASSUME PassInv, KeepOnly, NEW m \in Message, m \in InFile, LogGrows, filtered \subseteq filtered'
    PROVE  Somewhere(m)'
<1> DEFINE rest == SubSeq(failed, pass.size + 1, Len(failed))
<1>1. PICK i \in DOMAIN failed : failed[i].message = m
  BY DEF InFile
<1>2. /\ pass \in PassType /\ pass.kept \in Seq(EntryType) /\ pass.size \in Nat
      /\ failed \in Seq(EntryType) /\ pass.size <= Len(failed) /\ pass.next = pass.size + 1
      /\ i \in 1 .. Len(failed)
  <2>1. pass \in PassType /\ failed \in Seq(EntryType) /\ pass.size <= Len(failed)
    BY DEF PassInv
  <2>2. pass.kept \in Seq(EntryType) /\ pass.size \in Nat
    BY <2>1 DEF PassType
  <2>3. pass.step = "toKeep"
    BY DEF KeepOnly, FileIsFor
  <2>4. pass.next = pass.size + 1
    BY <2>3 DEF PassInv
  <2>5. i \in 1 .. Len(failed)
    BY <1>1, <2>1
  <2> QED
    BY <2>1, <2>2, <2>4, <2>5
<1>3. failed' = pass.kept \o rest /\ rejects' = rejects \union pass.rejected
  BY DEF KeepOnly
<1>4. CASE i <= pass.size
  <2>1. LineIsSafe(m)
    BY <1>1, <1>2, <1>4 DEF PassInv
  <2>2. ASSUME NEW j \in DOMAIN pass.kept, pass.kept[j].message = m PROVE m \in InFile'
    <3>1. rest \in Seq(EntryType)
      BY <1>2, Rest
    <3> HIDE DEF rest
    <3>2. j \in DOMAIN failed' /\ failed'[j] = pass.kept[j]
      BY <1>2, <1>3, <3>1
    <3> QED
      BY <2>2, <3>2 DEF InFile
  <2> QED
    BY <1>3, <2>1, <2>2, RowsStay DEF LineIsSafe, Somewhere
<1>5. CASE i > pass.size
  <2>1. /\ rest \in Seq(EntryType)
        /\ i - pass.size \in DOMAIN rest /\ rest[i - pass.size] = failed[i]
    <3>1. i \in (pass.size + 1) .. Len(failed) /\ pass.size \in Nat
      BY <1>2, <1>5
    <3>2. /\ rest \in Seq(EntryType) /\ Len(rest) = Len(failed) - pass.size
          /\ rest[i - pass.size] = failed[i]
      BY <1>2, <3>1, Rest
    <3> HIDE DEF rest
    <3>3. i - pass.size \in 1 .. Len(rest)
      BY <1>2, <3>1, <3>2
    <3> QED
      BY <3>2, <3>3
  <2> HIDE DEF rest
  <2>2. /\ Len(pass.kept) + (i - pass.size) \in DOMAIN failed'
        /\ failed'[Len(pass.kept) + (i - pass.size)] = failed[i]
    <3> DEFINE k == i - pass.size
    <3>1. k \in DOMAIN rest /\ rest[k] = failed[i] /\ rest \in Seq(EntryType) /\ pass.kept \in Seq(EntryType)
      BY <1>2, <2>1
    <3> HIDE DEF k
    <3>2. /\ Len(pass.kept) + k \in DOMAIN (pass.kept \o rest)
          /\ (pass.kept \o rest)[Len(pass.kept) + k] = rest[k]
      BY <3>1, Behind
    <3>3. /\ Len(pass.kept) + k \in DOMAIN failed'
          /\ failed'[Len(pass.kept) + k] = failed[i]
      BY <1>3, <3>1, <3>2
    <3> QED
      BY <3>3 DEF k
  <2> QED
    BY <1>1, <2>2 DEF InFile, Somewhere
<1> QED
  BY <1>2, <1>4, <1>5

LEMMA NothingLostStep ==
    ASSUME QueueInv, LogInv, TurnInv, PassInv, LeftInv, ArrivedInv, NothingLost, [Next]_vars
    PROVE  NothingLost'
<1> USE DEF world, durable, live, passing, history
<1>1. LogGrows /\ filtered \subseteq filtered'
  BY LogOnlyGrows, LogAfter, FiltersOnlyGrow
<1>2. \A m \in arrived : m \in Message /\ Somewhere(m)
  BY DEF NothingLost, Somewhere, QueueInv
<1>3. ASSUME UNCHANGED arrived, \A m \in arrived : Somewhere(m)' PROVE NothingLost'
  BY <1>3 DEF NothingLost, Somewhere, Row, InFile
<1>4. ASSUME NEW a \in Account, WorkerStep(a) PROVE NothingLost'
  <2>1. UNCHANGED <<rejects, left, arrived>> /\ unsaved' \subseteq unsaved
    BY <1>4, WorkerFrame, UnsavedShrinks
  <2>2. gone \subseteq gone' /\ FileGrows
    <3>1. CASE Appended(a)
      BY <3>1, OwnTurn, AppendedFile DEF Appended
    <3>2. CASE ~Appended(a)
      <4>1. UNCHANGED <<failed, gone>>
        BY <1>4, <3>2 DEF WorkerStep, Start, Enriched, Attempt, Answer, FailForGood, Fail, Deliver
      <4> QED
        BY <4>1, AppendedFile
    <3> QED
      BY <3>1, <3>2
  <2>3. ASSUME NEW m \in Message, m \in unsaved PROVE Somewhere(m)'
    <3>1. CASE m \in unsaved'
      BY <3>1 DEF Somewhere
    <3>2. CASE m \notin unsaved'
      <4>1. ASSUME NEW e, Judge(a, e) PROVE m \in filtered'
        BY <2>3, <3>2, <4>1 DEF Judge
      <4>2. CASE Answer(a)
        <5>1. m = Current(a) /\ Insert(m)
          BY <2>3, <3>2, <4>2 DEF Answer
        <5> QED
          BY <5>1, InsertLog DEF Somewhere
      <4>3. CASE Appended(a)
        <5>1. m = Current(a)
          BY <2>3, <3>2, <4>3 DEF Appended
        <5>2. m \in InFile' \/ m \in gone'
          BY <4>3, <5>1, AppendedIsInFile DEF Appended
        <5> QED
          BY <5>2 DEF Somewhere
      <4> QED
        BY <1>4, <2>3, <3>2, <4>1, <4>2, <4>3
           DEF WorkerStep, Start, Enriched, Attempt, FailForGood, Fail, Deliver, Somewhere
    <3> QED
      BY <3>1, <3>2
  <2>4. \A m \in Message : (m \in ToSet(left) \/ m \in InFile) => Somewhere(m)'
    BY <2>1, <2>2, FileKeeps DEF Somewhere
  <2>5. \A m \in arrived : Somewhere(m)'
    BY <1>1, <1>2, <2>1, <2>2, <2>3, <2>4, StaysSomewhere
  <2> QED
    BY <1>3, <2>1, <2>5
<1>5. CASE PassStep
  <2>1. UNCHANGED <<unsaved, left, arrived, gone>>
    BY <1>5, PassFrame
  <2>2. rejects \subseteq rejects'
    BY <1>5 DEF PassStep, BeginPass, Read, ReadFails, SaveLine, LineStored, LineRefused, LineFails, ProbeLine, LinesDone,
       KeepOnly, KeepFails
  <2>3. ASSUME NEW m \in Message, m \in InFile PROVE Somewhere(m)'
    <3>1. CASE KeepOnly
      BY <1>1, <2>3, <3>1, KeepOnlyKeeps
    <3>2. CASE ~KeepOnly
      <4>1. UNCHANGED failed
        BY <1>5, <3>2 DEF PassStep, BeginPass, Read, ReadFails, SaveLine, LineStored, LineRefused, LineFails, ProbeLine,
           LinesDone, KeepFails
      <4> QED
        BY <2>3, <4>1 DEF InFile, Somewhere
    <3> QED
      BY <3>1, <3>2
  <2>4. \A m \in Message : m \in unsaved \/ m \in ToSet(left) => Somewhere(m)'
    BY <2>1 DEF Somewhere
  <2>5. \A m \in arrived : Somewhere(m)'
    BY <1>1, <1>2, <2>1, <2>2, <2>3, <2>4, StaysSomewhere
  <2> QED
    BY <1>3, <2>1, <2>5
<1>6. CASE GatherLeft
  <2>1. ToSet(left') = unsaved /\ left = <<>>
    BY <1>6, Gathered DEF ArrivedInv, QueueInv, LeftInv, GatherLeft
  <2>2. ToSet(left) = {}
    BY <2>1 DEF ToSet
  <2>3. UNCHANGED <<rejects, failed, filtered, gone, arrived>>
    BY <1>6 DEF GatherLeft
  <2>4. \A m \in arrived : Somewhere(m)'
    BY <1>1, <1>2, <2>1, <2>2, <2>3, StaysSomewhere DEF Somewhere, InFile
  <2> QED
    BY <1>3, <2>3, <2>4
<1>7. CASE WriteLeft \/ LeftAppended
  <2>1. left # <<>> /\ left \in Seq(Message)
    BY <1>7, WaitingFacts, NamesAssumption DEF WriteLeft, LeftAppended, WaitsFor, LeftInv
  <2>2. UNCHANGED <<unsaved, rejects, arrived>> /\ gone \subseteq gone'
    BY <1>7 DEF WriteLeft, LeftAppended
  <2>3. FileGrows
    <3>1. CASE LeftAppended
      <4>1. Head(left) \in Message /\ Head(turn).lid \in BOOLEAN
        BY <2>1, <3>1, WaitingFacts DEF LeftAppended, TurnType
      <4> QED
        BY <3>1, <4>1, AppendedFile DEF LeftAppended
    <3>2. CASE WriteLeft
      BY <3>2, AppendedFile DEF WriteLeft
    <3> QED
      BY <1>7, <3>1, <3>2
  <2>4. ASSUME NEW m \in Message, m \in ToSet(left) PROVE Somewhere(m)'
    <3>1. m = Head(left) \/ m \in ToSet(Tail(left))
      <4>1. PICK i \in DOMAIN left : m = left[i]
        BY <2>4 DEF ToSet
      <4>2. CASE i = 1
        BY <2>1, <4>1, <4>2
      <4>3. CASE i # 1
        <5>1. i - 1 \in DOMAIN Tail(left) /\ Tail(left)[i - 1] = m
          BY <2>1, <4>1, <4>3
        <5> QED
          BY <5>1 DEF ToSet
      <4> QED
        BY <4>2, <4>3
    <3>2. left' = left \/ (left' = Tail(left) /\ (Head(left) \in filtered' \/ Head(left) \in gone' \/ Head(left) \in InFile'))
      BY <1>7, AppendedIsInFile DEF WriteLeft, LeftAppended
    <3> QED
      BY <2>4, <3>1, <3>2 DEF Somewhere
  <2>5. \A m \in Message : (m \in unsaved \/ m \in InFile) => Somewhere(m)'
    BY <2>2, <2>3, FileKeeps DEF Somewhere
  <2>6. \A m \in arrived : Somewhere(m)'
    BY <1>1, <1>2, <2>2, <2>4, <2>5, StaysSomewhere
  <2> QED
    BY <1>3, <2>2, <2>6
<1>8. CASE Exit \/ Crash
  <2>1. UNCHANGED <<failed, log, rejects, filtered, arrived>> /\ gone \subseteq gone'
    BY <1>8 DEF Exit, Crash
  <2>2. unsaved \union ToSet(left) \subseteq gone'
    <3>1. CASE Crash
      BY <3>1 DEF Crash
    <3>2. CASE Exit
      <4>1. unsaved = {} /\ left = <<>>
        BY <3>2 DEF Exit, LeftInv
      <4> QED
        BY <4>1 DEF ToSet
    <3> QED
      BY <1>8, <3>1, <3>2
  <2>3. \A m \in Message : (m \in unsaved \/ m \in ToSet(left) \/ m \in InFile) => Somewhere(m)'
    BY <2>1, <2>2 DEF Somewhere, InFile
  <2>4. \A m \in arrived : Somewhere(m)'
    BY <1>1, <1>2, <2>1, <2>3, StaysSomewhere
  <2> QED
    BY <1>3, <2>1, <2>4
<1>9. ASSUME NEW n \in Message, Handle(n) PROVE NothingLost'
  <2>1. arrived' = arrived \union {n} /\ unsaved' = unsaved \union {n}
        /\ UNCHANGED <<log, failed, rejects, left, filtered, gone>>
    BY <1>9 DEF Handle
  <2> QED
    BY <1>2, <2>1 DEF NothingLost, Somewhere, Row, InFile
<1>10. CASE UNCHANGED <<log, failed, rejects, unsaved, left, arrived, filtered, gone>>
  BY <1>10 DEF NothingLost, Row, InFile
<1> QED
  BY <1>4, <1>5, <1>6, <1>7, <1>8, <1>9, <1>10, ProbeFrame, OutsideFrame DEF Next, DrainStep, vars

---------------------------------------------------------------------------
\* All of it, always

LEMMA PipelineInvInit ==
    Init => PipelineInv
<1> SUFFICES ASSUME Init PROVE PipelineInv
  OBVIOUS
<1> USE DEF Init
<1>1. WorldInv
  BY PipelineAssumption DEF WorldInv, Closed, CircuitType, NoRecovery, RecoveryType, Diversion
<1>2. QueueInv
  BY PipelineAssumption DEF QueueInv, Idle, WorkerType, WorkerSteps, NotEnriched, Resolution
<1>3. LogInv
  <2>1. log \in [Account -> Seq(Message)] /\ \A a \in Account : DOMAIN log[a] = {}
    OBVIOUS
  <2> QED
    BY <2>1 DEF LogInv, OneRow, NumberedEventsAreStored
<1>4. TurnInv
  <2>1. turn \in Seq(TurnType) /\ DOMAIN turn = {}
    OBVIOUS
  <2> QED
    BY <2>1 DEF TurnInv
<1>5. PassInv
  <2>1. failed \in Seq(EntryType) /\ passes \in Seq(PassCaller) /\ Len(failed) = 0
    OBVIOUS
  <2>2. 0 <= Len(failed) /\ 1 \in 1 .. 0 + 1 /\ 1 .. 1 - 1 = {}
    BY <2>1
  <2> QED
    BY <2>1, <2>2, NoPassType DEF PassInv
<1>6. LeftInv
  <2>1. left \in Seq(Message) /\ IsFiniteSet(unsaved)
    BY FS_EmptySet
  <2> QED
    BY <2>1 DEF LeftInv
<1>7. ArrivedInv
  <2>1. DOMAIN failed = {} /\ DOMAIN pass.kept = {} /\ pass.rejected = {} /\ DOMAIN left = {}
    BY NoPassType
  <2> QED
    BY <2>1 DEF ArrivedInv
<1>8. NothingLost
  BY DEF NothingLost
<1> QED
  BY <1>1, <1>2, <1>3, <1>4, <1>5, <1>6, <1>7, <1>8 DEF PipelineInv

LEMMA PipelineInvStep ==
    PipelineInv /\ [Next]_vars => PipelineInv'
<1> SUFFICES ASSUME PipelineInv, [Next]_vars PROVE PipelineInv'
  OBVIOUS
<1>1. /\ WorldInv /\ QueueInv /\ LogInv /\ TurnInv /\ PassInv /\ LeftInv /\ ArrivedInv /\ NothingLost
      /\ arrived \subseteq Message
  BY DEF PipelineInv, QueueInv
<1>2. WorldInv' /\ QueueInv' /\ LogInv'
  BY <1>1, WorldInvStep, QueueInvStep, LogInvStep
<1>3. TurnInv' /\ PassInv' /\ LeftInv'
  BY <1>1, TurnInvStep, PassInvStep, LeftInvStep
<1>4. ArrivedInv' /\ NothingLost'
  BY <1>1, ArrivedInvStep, NothingLostStep
<1> QED
  BY <1>2, <1>3, <1>4 DEF PipelineInv

LEMMA PipelineInvAlways ==
    Spec => []PipelineInv
BY PipelineInvInit, PipelineInvStep, PTL DEF Spec

\* The pipeline, the guard, the failed log and drain() stay within what they are written for:
\* no message is attempted more often than there are delays for, none is in the failed log, the
\* log of rejects or the account's queue that handle() did not accept.
THEOREM TypeCorrect ==
    Spec => []TypeOK
<1>1. PipelineInv => TypeOK
  BY DEF PipelineInv, WorldInv, QueueInv, LogInv, PassInv, LeftInv, ArrivedInv, TypeOK,
     CircuitType, RecoveryType, WorkerType, WorkerSteps, EntryType
<1> QED
  BY <1>1, PipelineInvAlways, PTL

\* InboundPipeline, its StoreGuard and FailedInboundFile lose no message: whatever fails, in
\* whatever order, every message that handle() accepted is in memory, in a log, left out by the
\* filter, or reported LOST.
THEOREM NothingIsLost ==
    Spec => []NothingLost
<1>1. PipelineInv => NothingLost
  BY DEF PipelineInv
<1> QED
  BY <1>1, PipelineInvAlways, PTL

\* An event carries the number of the row its own envelope has, so two events share none, retries
\* after a lost answer included.
THEOREM EventsCarryTheirOwnNumber ==
    Spec => []NumberedEventsAreStored
<1>1. PipelineInv => NumberedEventsAreStored
  BY DEF PipelineInv, LogInv
<1> QED
  BY <1>1, PipelineInvAlways, PTL

---------------------------------------------------------------------------
(***************************************************************************)
(* The order in which the inbound path numbers messages, for every number  *)
(* of accounts and messages, with any number of faults: a message is       *)
(* overtaken by a later one of its account only if it waited in the failed *)
(* log on its own account, the pipeline was draining, or one recover()     *)
(* ended the recovery of another. With the circuit closed, whatever waits  *)
(* in the failed log has been seen by a pass, or a pass that will see it   *)
(* comes before its account's next message.                                *)
(***************************************************************************)

\* The inductive invariant

\* m came before n, and they are of one account.
Before(m, n) == AccountOf[m] = AccountOf[n] /\ m < n

Queued == UNION {ToSet(queue[a]) : a \in Account}

Logged == UNION {ToSet(log[a]) : a \in Account}

FileMessage(i) == failed[i].message

\* m is stored, will never be, or may be overtaken.
Passed(m) == Row(m) # {} \/ m \in held \union late \/ ~Storable(m)

ArrivalInv ==
    /\ \A m \in arrived, n \in Message \ arrived : ~Before(n, m)
    /\ Logged \subseteq arrived

\* Queues are in order, and what is not written yet is in one, at its head while a worker
\* has it.
QueueOrder ==
    /\ \A a \in Account : \A i, j \in DOMAIN queue[a] : i < j => ~Before(queue[a][j], queue[a][i])
    /\ unsaved \subseteq Queued
    /\ \A a \in Account : worker[a].step \in {"replaying", "delivering"} => Current(a) \notin unsaved

\* What drain() writes off is in order, and behind what a worker still has.
LeftOrder ==
    /\ \A i, j \in DOMAIN left : i < j => ~Before(left[j], left[i])
    /\ \A a \in Account : worker[a].step # "idle" => \A l \in ToSet(left) : ~Before(l, Current(a))

\* No message is accepted before the startup pass is over.
ModeInv ==
    /\ mode \in {"off", "starting"} => Queued = {}
    /\ mode = "off" => pass = NoPass /\ passes = <<>> /\ circuit = Closed /\ ~heldTimer
    /\ mode \in {"draining", "leaving"} => circuit.stopped

\* Whoever writes off is waiting for the file, ahead of drain().
TurnOrder ==
    /\ \A a \in Account : worker[a].step = "writingOff" => a \in Waiting
    /\ \A i, j \in DOMAIN turn : i < j /\ turn[i].by = "drain" => turn[j].by \notin Account

\* The failed log is in order, and nothing in it is later than what will be appended.
FileOrder ==
    /\ \A i, j \in DOMAIN failed : i < j => ~Before(FileMessage(j), FileMessage(i))
    /\ mode # "leaving" => \A k \in InFile, m \in Queued : ~Before(m, k)
    /\ \A k \in InFile, l \in ToSet(left) : ~Before(l, k)
    /\ \A a \in Account : worker[a].step = "writingOff" => \A k \in InFile : ~Before(Current(a), k)

\* A line that is being stored is not later than what is in memory, and none of its account
\* before it stays.
LineOrder ==
    pass.step = "inserting" =>
        /\ \A m \in Queued \union ToSet(left) : ~Before(m, LineMessage)
        /\ LineAccount \notin pass.heldBack

\* What a pass keeps are lines of the file, in order. It is done with a line when no later
\* message overtakes it any more, or when its account is held back.
KeptInv ==
    /\ \A i, j \in DOMAIN pass.kept : i < j => ~Before(pass.kept[j].message, pass.kept[i].message)
    /\ \A j \in DOMAIN pass.kept : \E i \in 1 .. pass.next - 1 : failed[i] = pass.kept[j]
    /\ \A i \in 1 .. pass.next - 1 : AccountOf[FileMessage(i)] \in pass.heldBack \/ Passed(FileMessage(i))
    /\ pass.step \in {"none", "toRead"} => pass = [NoPass EXCEPT !.step = pass.step]

Calls(c) == \E i \in DOMAIN passes : passes[i] = c

\* Who waits for a pass waits once, and a recovery lasts until its pass is over.
CallersInv ==
    /\ \A i, j \in DOMAIN passes : passes[i] = passes[j] => i = j
    /\ \A r \in Recovery : recovery[r].running <=> Calls(r)
    /\ \A r \in Recovery : recovery[r].resuming => ~recovery[r].running
    /\ \A a \in Account : Calls(a) => worker[a].step = "replaying"
    /\ Recovering => \E r \in Recovery : recovery[r].running

\* The pass c waits for is still to be handed the entry that is i-th in the file now.
WillSee(c, i) ==
    \E k \in DOMAIN passes :
        /\ passes[k] = c
        /\ \/ k # 1
           \/ pass.step \in {"none", "toRead"}
           \/ i \in pass.next .. pass.size

\* A recover() whose pass is not the last.
GoesAgain == circuit.diversion = "recovering" /\ \E r \in Recovery : recovery[r].running /\ recovery[r].missed

\* The pass of a recovery is still to come, or the one before any message.
Comes(c, a) ==
    \/ circuit.diversion = "recovering" /\ c \in Recovery
    \/ circuit.diversion = "none" /\ c = a
    \/ circuit.diversion = "none" /\ mode = "starting" /\ c = "startup"

\* Unless the store is down, a pass is coming for each entry that may still be stored in order.
CoverInv ==
    mode # "off" /\ ~circuit.stopped /\ circuit.diversion # "down" =>
        \A i \in DOMAIN failed :
            \/ Passed(FileMessage(i))
            \/ GoesAgain
            \/ \E c \in PassCaller : Comes(c, AccountOf[FileMessage(i)]) /\ WillSee(c, i)

AheadOfPass(a) == \E i, j \in DOMAIN turn : i < j /\ turn[i].by = a /\ turn[j].by = "pass"

\* A message that is being written off while a recovery runs is there when its pass reads.
WritesInv ==
    Recovering => \A a \in Account : worker[a].step = "writingOff" =>
        \/ GoesAgain
        \/ \E r \in Recovery, k \in DOMAIN passes :
              /\ passes[k] = r
              /\ k # 1 \/ pass.step = "none" \/ (pass.step = "toRead" /\ AheadOfPass(a))

\* The entries that a has in this pass may all be overtaken.
AllPassed(a) == \A i \in 1 .. pass.size : AccountOf[FileMessage(i)] = a => Passed(FileMessage(i))

\* An account is held back by an outage, or else may be overtaken; its recovery comes after.
HeldBackInv ==
    \A a \in pass.heldBack \ pass.waiting :
        \/ circuit.stopped \/ circuit.diversion = "down"
        \/ circuit.diversion = "recovering" /\ \E r \in Recovery, k \in DOMAIN passes : k # 1 /\ passes[k] = r
        \/ AllPassed(a)

\* What is being stored overtakes nothing in the failed log but what it may.
CallsInv ==
    \A a \in Account : worker[a].step = "calling" =>
        \A k \in InFile : Before(k, Current(a)) => Passed(k)

LogOrder ==
    /\ \A n \in Logged, m \in Queued \union ToSet(left) : ~Before(m, n)
    /\ \A n \in Logged, k \in InFile : Before(k, n) => Passed(k)
    /\ OrderButForLate

OrderInv ==
    /\ ArrivalInv /\ QueueOrder /\ LeftOrder /\ ModeInv /\ TurnOrder
    /\ FileOrder /\ LineOrder /\ KeptInv
    /\ CallersInv /\ CoverInv /\ WritesInv /\ HeldBackInv
    /\ CallsInv /\ LogOrder

---------------------------------------------------------------------------
\* Queues, as sets

LEMMA QueuedFacts ==
    ASSUME QueueInv
    PROVE  /\ Queued \subseteq arrived
           /\ \A a \in Account : \A m \in ToSet(queue[a]) : AccountOf[m] = a /\ m \in Queued /\ m \in Message
           /\ \A a \in Account : queue[a] # <<>> =>
                  Current(a) \in ToSet(queue[a]) /\ Current(a) = queue[a][1] /\ 1 \in DOMAIN queue[a]
<1>1. \A a \in Account : \A m \in ToSet(queue[a]) : m \in arrived /\ AccountOf[m] = a /\ m \in Queued /\ m \in Message
  BY DEF QueueInv, Queued, ToSet
<1>2. \A a \in Account : queue[a] # <<>> =>
          1 \in DOMAIN queue[a] /\ Current(a) = queue[a][1] /\ Current(a) \in ToSet(queue[a])
  BY DEF QueueInv, Current, ToSet
<1> QED
  BY <1>1, <1>2 DEF Queued

\* A worker has a message, and is done with it or leaves the queue as it is.
LEMMA WorkerQueue ==
    ASSUME QueueInv, TurnInv, NEW a \in Account, WorkerStep(a)
    PROVE  queue[a] # <<>> /\ (Ends(a) \/ UNCHANGED queue)
<1>1. queue[a] # <<>>
  <2>1. CASE worker[a].step # "idle"
    BY <2>1, CurrentFacts
  <2>2. CASE Start(a)
    BY <2>2 DEF Start
  <2>3. CASE Appended(a)
    <3>1. worker[a].step = "writingOff"
      BY <2>3, OwnTurn
    <3> QED
      BY <3>1, CurrentFacts
  <2> QED
    BY <2>1, <2>2, <2>3 DEF WorkerStep, Enriched, Attempt, Answer, FailForGood, Fail, Deliver
<1>2. Ends(a) \/ UNCHANGED queue
  BY DEF WorkerStep, Start, Enriched, Judge, Attempt, Answer, FailForGood, Fail, Appended, Deliver
<1> QED
  BY <1>1, <1>2

LEMMA EndsFacts ==
    ASSUME QueueInv, NEW a \in Account, queue[a] # <<>>, Ends(a)
    PROVE  /\ Queued' \subseteq Queued
           /\ Queued \subseteq Queued' \union {Current(a)}
           /\ \A b \in Account : b # a => queue'[b] = queue[b]
           /\ \A i \in DOMAIN queue'[a] : i \in Nat /\ i + 1 \in DOMAIN queue[a] /\ queue'[a][i] = queue[a][i + 1]
           /\ worker'[a].step = "idle"
<1>1. /\ queue[a] \in Seq(Message)
      /\ queue' = [queue EXCEPT ![a] = Tail(queue[a])]
      /\ worker' = [worker EXCEPT ![a] = Idle]
      /\ queue \in [Account -> Seq(Message)] /\ worker \in [Account -> WorkerType]
  BY DEF QueueInv, Ends
<1>2. \A i \in DOMAIN Tail(queue[a]) : i \in Nat /\ i + 1 \in DOMAIN queue[a] /\ Tail(queue[a])[i] = queue[a][i + 1]
  BY <1>1
<1>3. \A i \in DOMAIN queue[a] : i = 1 \/ (i - 1 \in DOMAIN Tail(queue[a]) /\ Tail(queue[a])[i - 1] = queue[a][i])
  BY <1>1
<1>4. ToSet(Tail(queue[a])) \subseteq ToSet(queue[a])
  BY <1>2 DEF ToSet
<1>5. ToSet(queue[a]) \subseteq ToSet(Tail(queue[a])) \union {Current(a)}
  <2>1. Current(a) = queue[a][1]
    BY <1>1 DEF Current
  <2>2. \A i \in DOMAIN queue[a] : queue[a][i] \in ToSet(Tail(queue[a])) \union {Current(a)}
    BY <1>3, <2>1 DEF ToSet
  <2> QED
    BY <2>2 DEF ToSet
<1>6. queue'[a] = Tail(queue[a]) /\ \A b \in Account : b # a => queue'[b] = queue[b]
  BY <1>1
<1>7. \A b \in Account : ToSet(queue'[b]) \subseteq ToSet(queue[b])
  BY <1>4, <1>6
<1>8. \A b \in Account : ToSet(queue[b]) \subseteq ToSet(queue'[b]) \union {Current(a)}
  BY <1>5, <1>6
<1>9. worker'[a].step = "idle"
  BY <1>1 DEF Idle
<1> QED
  BY <1>2, <1>6, <1>7, <1>8, <1>9 DEF Queued

LEMMA HandleFacts ==
    ASSUME QueueInv, NEW m \in Message, Handle(m)
    PROVE  /\ Queued' = Queued \union {m}
           /\ m \notin arrived /\ arrived' = arrived \union {m}
           /\ \A b \in Account : b # AccountOf[m] => queue'[b] = queue[b]
           /\ queue[AccountOf[m]] \in Seq(Message)
           /\ queue'[AccountOf[m]] = Append(queue[AccountOf[m]], m)
<1> DEFINE a == AccountOf[m]
<1>1. /\ a \in Account /\ m \notin arrived /\ arrived' = arrived \union {m}
      /\ queue[a] \in Seq(Message)
      /\ queue' = [queue EXCEPT ![a] = Append(queue[a], m)]
      /\ queue \in [Account -> Seq(Message)]
  BY PipelineAssumption DEF Handle, QueueInv
<1> HIDE DEF a
<1>2. queue'[a] = Append(queue[a], m) /\ \A b \in Account : b # a => queue'[b] = queue[b]
  BY <1>1
<1>3. /\ DOMAIN Append(queue[a], m) = DOMAIN queue[a] \union {Len(queue[a]) + 1}
      /\ Append(queue[a], m)[Len(queue[a]) + 1] = m
      /\ \A i \in DOMAIN queue[a] : Append(queue[a], m)[i] = queue[a][i]
  BY <1>1
<1>4. ToSet(Append(queue[a], m)) = ToSet(queue[a]) \union {m}
  BY <1>3 DEF ToSet
<1>5. Queued' = Queued \union {m}
  <2>1. \A b \in Account : ToSet(queue'[b]) = IF b = a THEN ToSet(queue[a]) \union {m} ELSE ToSet(queue[b])
    BY <1>2, <1>4
  <2> QED
    BY <1>1, <2>1 DEF Queued
<1> QED
  BY <1>1, <1>2, <1>5 DEF a

LEMMA ForgetFacts ==
    ASSUME Forget
    PROVE  Queued' = {} /\ ToSet(left') = {} /\ unsaved' = {} /\ \A a \in Account : worker'[a].step = "idle"
BY DEF Forget, Queued, ToSet, Idle

\* Only handle() adds to a queue.
LEMMA QueueMoves ==
    ASSUME QueueInv, TurnInv, [Next]_vars
    PROVE  \/ Queued' \subseteq Queued
           \/ \E m \in Message \ arrived : Handle(m) /\ Queued' = Queued \union {m}
<1> USE DEF live
<1>1. ASSUME NEW m \in Message, Handle(m) PROVE m \notin arrived /\ Queued' = Queued \union {m}
  BY <1>1, HandleFacts
<1>2. ASSUME NEW a \in Account, WorkerStep(a) PROVE Queued' \subseteq Queued
  <2>1. CASE Ends(a)
    BY <1>2, <2>1, WorkerQueue, EndsFacts
  <2> QED
    BY <1>2, <2>1, WorkerQueue DEF Queued
<1>3. CASE Exit \/ Crash
  BY <1>3, ForgetFacts DEF Exit, Crash
<1>4. CASE UNCHANGED queue
  BY <1>4 DEF Queued
<1> QED
  BY <1>1, <1>2, <1>3, <1>4, ProbeFrame, PassFrame, OutsideFrame, DrainFrame DEF Next, DrainStep, vars

\* A busy worker has the message it had, or one it just began with, which is not written yet.
LEMMA CurrentStays ==
    ASSUME QueueInv, TurnInv, [Next]_vars, NEW a \in Account, worker'[a].step # "idle"
    PROVE  /\ queue[a] # <<>> /\ Current(a)' = Current(a)
           /\ Current(a) \in ToSet(queue[a])
           /\ worker[a].step # "idle" \/ Current(a) \in unsaved
<1> USE DEF live
<1>1. ASSUME NEW m \in Message, Handle(m) PROVE UNCHANGED worker /\ Current(a)' = Current(a)
  <2>1. UNCHANGED worker
    BY <1>1, HandleFrame
  <2>2. queue[a] # <<>> /\ queue[a] \in Seq(Message)
    BY <2>1, CurrentFacts
  <2>3. CASE a = AccountOf[m]
    BY <1>1, <2>1, <2>2, <2>3, HandleFacts DEF Current
  <2>4. CASE a # AccountOf[m]
    BY <1>1, <2>1, <2>4, HandleFacts DEF Current
  <2> QED
    BY <2>1, <2>3, <2>4
<1>2. ASSUME NEW b \in Account, WorkerStep(b)
      PROVE  /\ queue[a] # <<>> /\ Current(a)' = Current(a)
             /\ worker[a].step # "idle" \/ Current(a) \in unsaved
  <2>1. CASE b # a
    <3>1. worker'[a] = worker[a]
      BY <1>2, <2>1, OwnWorker
    <3>2. queue'[a] = queue[a]
      BY <1>2, <2>1, WorkerQueue, EndsFacts
    <3> QED
      BY <3>1, <3>2, CurrentFacts DEF Current
  <2>2. CASE b = a
    <3>1. queue[a] # <<>> /\ UNCHANGED queue
      BY <1>2, <2>2, WorkerQueue, EndsFacts
    <3>2. ASSUME worker[a].step = "idle" PROVE Current(a) \in unsaved
      <4>1. Start(a)
        BY <1>2, <2>2, <3>2, OwnTurn DEF WorkerStep, Enriched, Attempt, Answer, FailForGood, Fail, Deliver
      <4>2. ~Ends(a)
        BY <3>1, EndsFacts
      <4> QED
        BY <4>1, <4>2 DEF Start, Judge
    <3> QED
      BY <3>1, <3>2 DEF Current
  <2> QED
    BY <2>1, <2>2
<1>3. ~(Exit \/ Crash)
  BY ForgetFacts DEF Exit, Crash
<1>4. UNCHANGED <<queue, worker>> => Current(a)' = Current(a) /\ worker[a].step # "idle"
  BY DEF Current
<1>5. /\ queue[a] # <<>> /\ Current(a)' = Current(a)
      /\ worker[a].step # "idle" \/ Current(a) \in unsaved
  BY <1>1, <1>2, <1>3, <1>4, CurrentFacts, ProbeFrame, PassFrame, OutsideFrame, DrainFrame DEF Next, DrainStep, vars
<1> QED
  BY <1>5, QueuedFacts

---------------------------------------------------------------------------
\* What enters a place, and from where

LEMMA LeftMoves ==
    ASSUME QueueInv, TurnInv, LeftInv, ArrivedInv, [Next]_vars
    PROVE  \/ UNCHANGED left
           \/ left # <<>> /\ left' = Tail(left)
           \/ ToSet(left') = {} /\ left' = <<>>
           \/ GatherLeft /\ ToSet(left') = unsaved
<1> USE DEF world, durable, live, passing, history
<1>1. CASE GatherLeft
  BY <1>1, Gathered DEF ArrivedInv, QueueInv
<1>2. CASE WriteLeft \/ LeftAppended
  <2>1. left # <<>>
    BY <1>2, WaitingFacts, NamesAssumption DEF WriteLeft, LeftAppended, WaitsFor
  <2> QED
    BY <1>2, <2>1 DEF WriteLeft, LeftAppended
<1>3. CASE Exit \/ Crash
  BY <1>3 DEF Exit, Crash, Forget, ToSet
<1> QED
  BY <1>1, <1>2, <1>3, ProbeFrame, PassFrame, OutsideFrame, HandleFrame, WorkerFrame DEF Next, DrainStep, vars

LEMMA LeftTail ==
    ASSUME LeftInv, left # <<>>
    PROVE  /\ Head(left) \in ToSet(left) /\ Head(left) \in Message /\ mode = "leaving"
           /\ ToSet(Tail(left)) \subseteq ToSet(left)
           /\ Head(left) = left[1] /\ 1 \in DOMAIN left
           /\ \A i \in DOMAIN Tail(left) : i \in Nat /\ i + 1 \in DOMAIN left /\ Tail(left)[i] = left[i + 1] /\ 1 < i + 1
<1>1. left \in Seq(Message) /\ 1 \in DOMAIN left /\ Head(left) = left[1] /\ mode = "leaving"
  BY DEF LeftInv
<1>2. \A i \in DOMAIN Tail(left) : i \in Nat /\ i + 1 \in DOMAIN left /\ Tail(left)[i] = left[i + 1] /\ 1 < i + 1
  BY <1>1
<1>3. ToSet(Tail(left)) \subseteq ToSet(left)
  BY <1>2 DEF ToSet
<1> QED
  BY <1>1, <1>2, <1>3 DEF ToSet

LEMMA LeftGrowsFromQueues ==
    ASSUME QueueInv, TurnInv, LeftInv, ArrivedInv, QueueOrder, [Next]_vars
    PROVE  ToSet(left') \subseteq ToSet(left) \union Queued
BY LeftMoves, LeftTail DEF QueueOrder, ToSet

LEMMA FileFacts ==
    ASSUME PassInv, ArrivedInv
    PROVE  /\ failed \in Seq(EntryType)
           /\ \A i \in DOMAIN failed : i \in Nat /\ failed[i] \in EntryType /\ FileMessage(i) \in InFile
           /\ \A k \in InFile : \E i \in DOMAIN failed : FileMessage(i) = k
           /\ InFile \subseteq Message /\ InFile \subseteq arrived
<1>1. failed \in Seq(EntryType) /\ \A i \in DOMAIN failed : i \in Nat /\ failed[i] \in EntryType
  BY DEF PassInv
<1> QED
  BY <1>1 DEF InFile, FileMessage, EntryType, ArrivedInv

LEMMA FileAppended ==
    ASSUME PassInv, ArrivedInv, NEW m \in Message, NEW lid \in BOOLEAN, failed' = Append(failed, Entry(m, lid))
    PROVE  /\ InFile' = InFile \union {m}
           /\ DOMAIN failed' = DOMAIN failed \union {Len(failed) + 1}
           /\ \A i \in DOMAIN failed : failed'[i] = failed[i] /\ FileMessage(i)' = FileMessage(i) /\ i < Len(failed) + 1
           /\ failed'[Len(failed) + 1].message = m
           /\ Len(failed) \in Nat
<1>1. failed \in Seq(EntryType)
  BY DEF PassInv
<1>2. /\ DOMAIN failed' = DOMAIN failed \union {Len(failed) + 1}
      /\ \A i \in DOMAIN failed : failed'[i] = failed[i] /\ i < Len(failed) + 1
      /\ failed'[Len(failed) + 1] = Entry(m, lid)
      /\ Len(failed) \in Nat
  BY <1>1
<1>3. Entry(m, lid).message = m
  BY DEF Entry
<1>4. InFile' = InFile \union {m}
  BY <1>2, <1>3 DEF InFile
<1> QED
  BY <1>2, <1>3, <1>4 DEF FileMessage

\* The file stays, gets what a worker or drain() writes off, or is rewritten.
LEMMA FileMoves ==
    ASSUME QueueInv, TurnInv, LeftInv, [Next]_vars
    PROVE  \/ UNCHANGED failed
           \/ \E a \in Account :
                  Appended(a) /\ worker[a].step = "writingOff" /\ Current(a) \in Message
                  /\ failed' = Append(failed, Entry(Current(a), FALSE))
           \/ /\ LeftAppended /\ left # <<>> /\ mode = "leaving" /\ Head(left) \in Message
              /\ \E lid \in BOOLEAN : failed' = Append(failed, Entry(Head(left), lid))
           \/ KeepOnly
<1> USE DEF world, durable
<1>1. ASSUME NEW a \in Account, WorkerStep(a)
      PROVE  \/ UNCHANGED failed
             \/ Appended(a) /\ worker[a].step = "writingOff" /\ Current(a) \in Message
                /\ failed' = Append(failed, Entry(Current(a), FALSE))
  BY <1>1, OwnTurn DEF WorkerStep, Start, Enriched, Attempt, Answer, FailForGood, Fail, Appended, Deliver
<1>2. CASE PassStep
  BY <1>2 DEF PassStep, BeginPass, Read, ReadFails, SaveLine, LineStored, LineRefused, LineFails, ProbeLine,
     LinesDone, KeepFails
<1>3. CASE LeftAppended
  <2>1. left # <<>>
    BY <1>3, WaitingFacts, NamesAssumption DEF LeftAppended, WaitsFor
  <2>2. Head(turn).lid \in BOOLEAN
    BY <1>3, WaitingFacts DEF LeftAppended, TurnType
  <2> QED
    BY <1>3, <2>1, <2>2, LeftTail DEF LeftAppended
<1>4. CASE GatherLeft \/ WriteLeft \/ Exit \/ Crash
  BY <1>4 DEF GatherLeft, WriteLeft, Exit, Crash
<1> QED
  BY <1>1, <1>2, <1>3, <1>4, ProbeFrame, OutsideFrame, HandleFrame DEF Next, DrainStep, vars

LEMMA SetInserted ==
    ASSUME LogInv, NEW m \in Message, Insert(m)
    PROVE  \/ UNCHANGED log
           \/ /\ Row(m) = {} /\ Logged' = Logged \union {m}
              /\ log' = [log EXCEPT ![AccountOf[m]] = Append(log[AccountOf[m]], m)]
<1> DEFINE b == AccountOf[m]
<1>1. b \in Account /\ log \in [Account -> Seq(Message)] /\ log[b] \in Seq(Message)
  BY PipelineAssumption DEF LogInv
<1>2. CASE Row(m) = {}
  <2>1. log' = [log EXCEPT ![b] = Append(log[b], m)]
    BY <1>2 DEF Insert
  <2> HIDE DEF b
  <2>2. /\ DOMAIN Append(log[b], m) = DOMAIN log[b] \union {Len(log[b]) + 1}
        /\ Append(log[b], m)[Len(log[b]) + 1] = m
        /\ \A i \in DOMAIN log[b] : Append(log[b], m)[i] = log[b][i]
    BY <1>1
  <2>3. ToSet(Append(log[b], m)) = ToSet(log[b]) \union {m}
    BY <2>2 DEF ToSet
  <2>4. \A c \in Account : ToSet(log'[c]) = IF c = b THEN ToSet(log[b]) \union {m} ELSE ToSet(log[c])
    BY <1>1, <2>1, <2>3
  <2>5. Logged' = Logged \union {m}
    BY <1>1, <2>4 DEF Logged
  <2> QED
    BY <1>2, <2>1, <2>5 DEF b
<1> QED
  BY <1>2 DEF Insert

\* What a worker or the pass stores.
LEMMA LogMoves ==
    ASSUME QueueInv, LogInv, PassInv, [Next]_vars
    PROVE  \/ UNCHANGED log
           \/ \E m \in Message :
                  /\ Insert(m) /\ Storable(m)
                  /\ \/ \E a \in Account : worker[a].step = "calling" /\ m = Current(a) /\ (Answer(a) \/ Fail(a))
                     \/ pass.step = "inserting" /\ m = LineMessage /\ (LineStored \/ LineFails)
<1> USE DEF durable
<1>1. ASSUME NEW a \in Account, WorkerStep(a)
      PROVE  \/ UNCHANGED log
             \/ \E m \in Message :
                  /\ Insert(m) /\ Storable(m)
                  /\ worker[a].step = "calling" /\ m = Current(a) /\ (Answer(a) \/ Fail(a))
  <2>1. CASE Answer(a) \/ Fail(a)
    <3>1. Current(a) \in Message
      BY <2>1, CurrentFacts DEF Answer, Fail
    <3> QED
      BY <2>1, <3>1 DEF Answer, Fail
  <2>2. CASE ~(Answer(a) \/ Fail(a))
    BY <1>1, <2>2 DEF WorkerStep, Start, Enriched, Attempt, FailForGood, Appended, Deliver
  <2> QED
    BY <2>1, <2>2
<1>2. CASE PassStep
  <2>1. CASE LineStored \/ LineFails
    <3>1. LineMessage \in Message
      BY <2>1, LineFacts DEF LineStored, LineFails, PassInv
    <3> QED
      BY <2>1, <3>1 DEF LineStored, LineFails
  <2>2. CASE ~(LineStored \/ LineFails)
    BY <1>2, <2>2 DEF PassStep, BeginPass, Read, ReadFails, SaveLine, LineRefused, ProbeLine, LinesDone,
       KeepOnly, KeepFails
  <2> QED
    BY <2>1, <2>2
<1>3. CASE DrainStep \/ Crash
  BY <1>3 DEF DrainStep, GatherLeft, WriteLeft, LeftAppended, Exit, Crash
<1> QED
  BY <1>1, <1>2, <1>3, ProbeFrame, OutsideFrame, HandleFrame DEF Next, vars

LEMMA LoggedGrows ==
    ASSUME QueueInv, LogInv, PassInv, [Next]_vars
    PROVE  \/ Logged' = Logged
           \/ \E m \in Message :
                  /\ Logged' = Logged \union {m} /\ Row(m) = {} /\ Storable(m) /\ Insert(m)
                  /\ \/ \E a \in Account : worker[a].step = "calling" /\ m = Current(a) /\ (Answer(a) \/ Fail(a))
                     \/ pass.step = "inserting" /\ m = LineMessage /\ (LineStored \/ LineFails)
<1>1. UNCHANGED log => Logged' = Logged
  BY DEF Logged
<1> QED
  BY <1>1, LogMoves, SetInserted

LEMMA HistoryGrows ==
    ASSUME [Next]_vars
    PROVE  held \subseteq held' /\ late \subseteq late' /\ arrived \subseteq arrived'
<1> USE DEF history
<1>1. ASSUME NEW m \in Message, Handle(m) PROVE held \subseteq held' /\ late \subseteq late' /\ arrived \subseteq arrived'
  BY <1>1 DEF Handle
<1>2. ASSUME NEW a \in Account, WorkerStep(a) PROVE held \subseteq held' /\ late \subseteq late' /\ arrived \subseteq arrived'
  BY <1>2, WorkerFrame DEF WorkerStep, Start, Enriched, Attempt, Answer, FailForGood, Fail, Appended, Deliver
<1>3. CASE PassStep
  <2>1. held \subseteq held'
    BY <1>3 DEF PassStep, BeginPass, Read, ReadFails, SaveLine, Keep, SetAside, LineStored, LineRefused, LineFails,
       ProbeLine, LinesDone, KeepOnly, KeepFails
  <2>2. late \subseteq late'
    BY <1>3 DEF PassStep, BeginPass, Read, ReadFails, SaveLine, LineStored, LineRefused, LineFails,
       ProbeLine, LinesDone, KeepOnly, KeepFails, EndPass, Recover, Finish
  <2> QED
    BY <1>3, <2>1, <2>2, PassFrame
<1>4. CASE Exit \/ Crash
  BY <1>4 DEF Exit, Crash
<1>5. ASSUME NEW r \in Recovery, Resumed(r) PROVE late \subseteq late'
  BY <1>5 DEF Resumed, Finish
<1> QED
  BY <1>1, <1>2, <1>3, <1>4, <1>5, ProbeFrame, OutsideFrame, DrainFrame DEF Next, DrainStep, vars

LEMMA PassedStays ==
    ASSUME QueueInv, LogInv, PassInv, [Next]_vars, NEW m \in Message, Passed(m)
    PROVE  Passed(m)'
<1>1. LogGrows
  BY LogOnlyGrows, LogAfter
<1>2. Row(m) # {} => Row(m)' # {}
  BY <1>1, RowsStay
<1> QED
  BY <1>2, HistoryGrows DEF Passed, Storable

---------------------------------------------------------------------------
\* Arrivals, queues, what drain() has left

LEMMA StoredArrived ==
    ASSUME QueueInv, PassInv, ArrivedInv, NEW m \in Message,
           \/ \E a \in Account : worker[a].step = "calling" /\ m = Current(a)
           \/ pass.step = "inserting" /\ m = LineMessage
    PROVE  m \in arrived
<1>1. ASSUME pass.step = "inserting" PROVE LineMessage \in arrived
  BY <1>1, LineFacts DEF PassInv, ArrivedInv, LineMessage, Line
<1> QED
  BY <1>1, CurrentFacts

LEMMA ArrivalInvStep ==
    ASSUME PipelineInv, ArrivalInv, [Next]_vars
    PROVE  ArrivalInv'
<1> USE DEF history, world
<1>1. QueueInv /\ LogInv /\ PassInv /\ ArrivedInv
  BY DEF PipelineInv
<1>2. Logged' \subseteq arrived'
  BY <1>1, LoggedGrows, StoredArrived, HistoryGrows DEF ArrivalInv
<1>3. UNCHANGED arrived \/ \E m \in Message : Handle(m)
  BY ProbeFrame, PassFrame, OutsideFrame, DrainFrame, WorkerFrame DEF Next, DrainStep, Exit, Crash, vars
<1>4. ASSUME NEW m \in Message, Handle(m), NEW x \in arrived', NEW n \in Message \ arrived', Before(n, x)
      PROVE  FALSE
  <2>1. arrived' = arrived \union {m} /\ \A y \in Message \ arrived : y < m => AccountOf[y] # AccountOf[m]
    BY <1>4 DEF Handle
  <2> QED
    BY <1>4, <2>1 DEF ArrivalInv, Before
<1> QED
  BY <1>2, <1>3, <1>4 DEF ArrivalInv, Before

\* The head of a queue came first.
LEMMA HeadFirst ==
    ASSUME QueueInv, QueueOrder, NEW a \in Account, queue[a] # <<>>, NEW m \in Queued
    PROVE  ~Before(m, Current(a))
<1>1. SUFFICES ASSUME Before(m, Current(a)) PROVE FALSE
  OBVIOUS
<1>2. Current(a) = queue[a][1] /\ AccountOf[Current(a)] = a /\ Current(a) \in Message /\ 1 \in DOMAIN queue[a]
  BY QueuedFacts
<1>3. m \in ToSet(queue[a])
  BY <1>1, <1>2, QueuedFacts DEF Queued, Before
<1>4. PICK i \in DOMAIN queue[a] : m = queue[a][i]
  BY <1>3 DEF ToSet
<1>5. i = 1 \/ 1 < i
  BY <1>4 DEF QueueInv
<1>6. i # 1
  <2>1. Current(a) \in Nat
    BY <1>2, PipelineAssumption
  <2>2. m # Current(a)
    BY <1>1, <2>1 DEF Before
  <2> QED
    BY <1>2, <1>4, <2>2
<1> QED
  BY <1>1, <1>2, <1>4, <1>5, <1>6 DEF QueueOrder

LEMMA NotQueuesOwn ==
    ASSUME QueueInv, NEW a \in Account, Ends(a), queue[a] # <<>>
    PROVE  queue' # queue
<1>1. queue[a] \in Seq(Message) /\ queue'[a] = Tail(queue[a])
  BY DEF QueueInv, Ends
<1>2. Len(Tail(queue[a])) # Len(queue[a])
  BY <1>1
<1> QED
  BY <1>1, <1>2

\* A worker that moves on without its message leaves none that is not written.
LEMMA EndsWritten ==
    ASSUME QueueInv, TurnInv, QueueOrder, NEW a \in Account, WorkerStep(a), Ends(a)
    PROVE  Current(a) \notin unsaved'
<1> USE DEF live
<1>1. ~UNCHANGED queue
  BY WorkerQueue, NotQueuesOwn
<1>2. ASSUME NEW e, Judge(a, e) PROVE Current(a) \notin unsaved'
  BY <1>1, <1>2 DEF Judge
<1>3. CASE Start(a)
  <2>1. Judge(a, enrichment[Current(a)])
    BY <1>1, <1>3 DEF Start
  <2> QED
    BY <1>2, <2>1
<1>4. ASSUME NEW e \in Resolution, Enriched(a, e) PROVE Current(a) \notin unsaved'
  BY <1>2, <1>4 DEF Enriched
<1>5. CASE Deliver(a)
  BY <1>5 DEF Deliver, QueueOrder
<1>6. CASE Answer(a)
  BY <1>6 DEF Answer
<1>7. ~(Attempt(a) \/ FailForGood(a) \/ Fail(a) \/ Appended(a))
  BY <1>1 DEF Attempt, FailForGood, Fail, Appended
<1> QED
  BY <1>3, <1>4, <1>5, <1>6, <1>7 DEF WorkerStep

LEMMA QueueOrderStep ==
    ASSUME PipelineInv, ArrivalInv, QueueOrder, [Next]_vars
    PROVE  QueueOrder'
<1> USE DEF live
<1>1. QueueInv /\ TurnInv /\ ArrivedInv /\ LeftInv
  BY DEF PipelineInv
<1>2. ASSUME NEW b \in Account, NEW i \in DOMAIN queue'[b], NEW j \in DOMAIN queue'[b], i < j
      PROVE  ~Before(queue'[b][j], queue'[b][i])
  <2>1. ASSUME NEW m \in Message, Handle(m) PROVE ~Before(queue'[b][j], queue'[b][i])
    <3>1. CASE b # AccountOf[m]
      BY <1>1, <1>2, <2>1, <3>1, HandleFacts DEF QueueOrder
    <3>2. CASE b = AccountOf[m]
      <4>1. queue[b] \in Seq(Message) /\ queue'[b] = Append(queue[b], m) /\ m \notin arrived
        BY <1>1, <2>1, <3>2, HandleFacts
      <4>2. i \in DOMAIN queue[b] /\ queue'[b][i] = queue[b][i]
        BY <1>2, <4>1
      <4>3. (j \in DOMAIN queue[b] /\ queue'[b][j] = queue[b][j]) \/ queue'[b][j] = m
        BY <4>1
      <4>4. queue[b][i] \in arrived
        BY <1>1, <4>2 DEF QueueInv
      <4> QED
        BY <1>2, <4>1, <4>2, <4>3, <4>4 DEF ArrivalInv, QueueOrder
    <3> QED
      BY <3>1, <3>2
  <2>2. ASSUME NEW a \in Account, WorkerStep(a) PROVE ~Before(queue'[b][j], queue'[b][i])
    <3>1. CASE UNCHANGED queue
      BY <1>2, <3>1 DEF QueueOrder
    <3>2. CASE Ends(a) /\ b = a
      <4>1. /\ i + 1 \in DOMAIN queue[a] /\ queue'[a][i] = queue[a][i + 1] /\ i \in Nat
            /\ j + 1 \in DOMAIN queue[a] /\ queue'[a][j] = queue[a][j + 1] /\ j \in Nat
        BY <1>1, <1>2, <2>2, <3>2, WorkerQueue, EndsFacts
      <4>2. i + 1 < j + 1
        BY <1>2, <4>1
      <4> QED
        BY <3>2, <4>1, <4>2 DEF QueueOrder
    <3>3. CASE Ends(a) /\ b # a
      BY <1>1, <1>2, <2>2, <3>3, WorkerQueue, EndsFacts DEF QueueOrder
    <3> QED
      BY <1>1, <2>2, <3>1, <3>2, <3>3, WorkerQueue
  <2>3. CASE Exit \/ Crash
    BY <1>2, <2>3 DEF Exit, Crash, Forget
  <2>4. CASE UNCHANGED queue
    BY <1>2, <2>4 DEF QueueOrder
  <2> QED
    BY <2>1, <2>2, <2>3, <2>4, ProbeFrame, PassFrame, OutsideFrame, DrainFrame DEF Next, DrainStep, vars
<1>3. unsaved' \subseteq Queued'
  <2>1. ASSUME NEW m \in Message, Handle(m) PROVE unsaved' \subseteq Queued'
    BY <1>1, <2>1, HandleFacts DEF Handle, QueueOrder
  <2>2. ASSUME NEW a \in Account, WorkerStep(a) PROVE unsaved' \subseteq Queued'
    <3>1. unsaved' \subseteq unsaved
      BY <2>2, UnsavedShrinks
    <3>2. CASE UNCHANGED queue
      BY <3>1, <3>2 DEF QueueOrder, Queued
    <3>3. CASE Ends(a)
      BY <1>1, <2>2, <3>1, <3>3, WorkerQueue, EndsFacts, EndsWritten DEF QueueOrder
    <3> QED
      BY <1>1, <2>2, <3>2, <3>3, WorkerQueue
  <2>3. CASE Exit \/ Crash
    BY <2>3 DEF Exit, Crash, Forget
  <2>4. CASE GatherLeft
    BY <2>4 DEF GatherLeft
  <2>5. CASE UNCHANGED <<queue, unsaved>>
    BY <2>5 DEF QueueOrder, Queued
  <2> QED
    BY <2>1, <2>2, <2>3, <2>4, <2>5, ProbeFrame, PassFrame, OutsideFrame DEF Next, DrainStep, WriteLeft, LeftAppended, vars
<1>4. ASSUME NEW a \in Account, worker'[a].step \in {"replaying", "delivering"}
      PROVE  Current(a)' \notin unsaved'
  <2>1. Current(a)' = Current(a) /\ Current(a) \in arrived
    BY <1>1, <1>4, CurrentStays, QueuedFacts
  <2>2. unsaved' \subseteq unsaved \union (Message \ arrived)
    <3>1. ASSUME NEW m \in Message, Handle(m) PROVE unsaved' \subseteq unsaved \union (Message \ arrived)
      BY <3>1 DEF Handle
    <3>2. ASSUME NEW b \in Account, WorkerStep(b) PROVE unsaved' \subseteq unsaved
      BY <3>2, UnsavedShrinks
    <3>3. CASE Exit \/ Crash \/ GatherLeft
      BY <3>3 DEF Exit, Crash, Forget, GatherLeft
    <3> QED
      BY <3>1, <3>2, <3>3, ProbeFrame, PassFrame, OutsideFrame DEF Next, DrainStep, WriteLeft, LeftAppended, vars
  <2>3. CASE worker[a].step \in {"replaying", "delivering"}
    BY <2>1, <2>2, <2>3 DEF QueueOrder
  <2>4. CASE worker[a].step \notin {"replaying", "delivering"}
    <3>1. worker'[a] # worker[a]
      BY <1>4, <2>4
    <3>2. WorkerStep(a)
      <4>1. ASSUME NEW m \in Message, Handle(m) PROVE FALSE
        BY <3>1, <4>1, HandleFrame
      <4>2. ASSUME NEW b \in Account, b # a, WorkerStep(b) PROVE FALSE
        BY <1>1, <3>1, <4>2, OwnWorker
      <4>3. ~(Exit \/ Crash)
        BY <1>4, ForgetFacts DEF Exit, Crash
      <4> QED
        BY <3>1, <4>1, <4>2, <4>3, ProbeFrame, PassFrame, OutsideFrame, DrainFrame DEF Next, DrainStep, vars
    <3>3. Appended(a) \/ (Refuse(a) /\ UNCHANGED unsaved)
      <4>1. ~Ends(a)
        BY <1>1, <1>4, <3>2, WorkerQueue, EndsFacts
      <4>2. worker \in [Account -> WorkerType]
        BY <1>1 DEF QueueInv
      <4>3. ASSUME NEW s \in {"enriching", "ready", "calling"}, Step(a, s) PROVE FALSE
        BY <1>4, <4>2, <4>3 DEF Step
      <4>4. ~WaitToRetry(a)
        BY <1>4, <4>2 DEF WaitToRetry
      <4> QED
        BY <3>2, <4>1, <4>3, <4>4 DEF WorkerStep, Start, Enriched, Judge, SenderResolved, Attempt, Answer,
           FailForGood, Fail, RetryOrOpen, Deliver
    <3>4. CASE Appended(a)
      BY <2>1, <3>4 DEF Appended
    <3>5. CASE Refuse(a) /\ UNCHANGED unsaved
      <4>1. ~Step(a, "writingOff")
        <5>1. worker \in [Account -> WorkerType]
          BY <1>1 DEF QueueInv
        <5>2. Step(a, "writingOff") => worker'[a].step = "writingOff"
          BY <5>1 DEF Step, WorkerType
        <5> QED
          BY <1>4, <5>2
      <4> QED
        BY <2>1, <3>5, <4>1 DEF Refuse
    <3> QED
      BY <3>3, <3>4, <3>5
  <2> QED
    BY <2>3, <2>4
<1> QED
  BY <1>2, <1>3, <1>4 DEF QueueOrder

LEMMA LeftOrderStep ==
    ASSUME PipelineInv, QueueOrder, LeftOrder, [Next]_vars
    PROVE  LeftOrder'
<1>1. QueueInv /\ TurnInv /\ ArrivedInv /\ LeftInv /\ Message \subseteq Nat
  BY PipelineAssumption DEF PipelineInv
<1>2. ASSUME NEW i \in DOMAIN left', NEW j \in DOMAIN left', i < j PROVE ~Before(left'[j], left'[i])
  <2>1. CASE UNCHANGED left
    BY <1>2, <2>1 DEF LeftOrder
  <2>2. CASE left # <<>> /\ left' = Tail(left)
    <3>1. /\ i \in Nat /\ i + 1 \in DOMAIN left /\ left'[i] = left[i + 1]
          /\ j \in Nat /\ j + 1 \in DOMAIN left /\ left'[j] = left[j + 1]
      BY <1>1, <2>2, LeftTail
    <3>2. i + 1 < j + 1
      BY <1>2, <3>1
    <3> QED
      BY <3>1, <3>2 DEF LeftOrder
  <2>3. CASE GatherLeft
    <3>1. left' \in Seq(Message)
      BY <1>1, <2>3, Gathered DEF ArrivedInv, QueueInv
    <3>2. left'[i] \in Nat /\ left'[j] \in Nat
      <4>1. left'[i] \in Message /\ left'[j] \in Message
        BY <1>2, <3>1
      <4> QED
        BY <1>1, <4>1
    <3>3. AccountOf[left'[i]] = AccountOf[left'[j]] => left'[i] < left'[j]
      BY <1>2, <2>3 DEF GatherLeft
    <3> QED
      BY <3>2, <3>3 DEF Before
  <2> QED
    BY <1>1, <1>2, <2>1, <2>2, <2>3, LeftMoves
<1>3. ASSUME NEW a \in Account, worker'[a].step # "idle", NEW l \in ToSet(left') PROVE ~Before(l, Current(a)')
  <2>1. queue[a] # <<>> /\ Current(a)' = Current(a) /\ (worker[a].step # "idle" \/ Current(a) \in unsaved)
    BY <1>1, <1>3, CurrentStays
  <2>2. CASE GatherLeft /\ ToSet(left') = unsaved
    BY <1>1, <1>3, <2>1, <2>2, HeadFirst DEF QueueOrder
  <2>3. CASE l \in ToSet(left)
    <3>1. left # <<>>
      BY <2>3 DEF ToSet
    <3>2. unsaved = {}
      BY <1>1, <3>1 DEF LeftInv
    <3> QED
      BY <2>1, <2>3, <3>2 DEF LeftOrder
  <2> QED
    BY <1>1, <1>3, <2>2, <2>3, LeftMoves, LeftTail DEF ToSet
<1> QED
  BY <1>2, <1>3 DEF LeftOrder, Before

---------------------------------------------------------------------------
\* The circuit, the calls for a pass, the turn at the file

\* The circuit opens, is being closed by a recovery, closes or is stopped.
LEMMA CircuitMoves ==
    ASSUME WorldInv, [Next]_vars
    PROVE  \/ circuit'.diversion = circuit.diversion /\ circuit'.stopped = circuit.stopped
           \/ /\ ~circuit.stopped /\ circuit'.diversion = "down" /\ ~circuit'.stopped
              /\ UNCHANGED mode
           \/ /\ ProbeWrites /\ ~circuit.stopped
              /\ circuit'.diversion = "recovering" /\ ~circuit'.stopped
           \/ /\ Recovering /\ circuit'.diversion = "none" /\ ~circuit'.stopped
              /\ \/ /\ \E outcome \in {"passed", "failed"}, stays \in BOOLEAN : EndPass(outcome, stays)
                    /\ Head(passes) \in Recovery
                 \/ \E r \in Recovery : Resumed(r)
           \/ ShutDown /\ circuit'.diversion = circuit.diversion /\ circuit'.stopped
           \/ (Exit \/ Crash) /\ circuit' = Closed
<1> USE DEF world
<1>1. circuit \in CircuitType
  BY DEF WorldInv
<1>2. CASE circuit' = circuit
  BY <1>2
<1>3. CASE circuit' = Opened /\ UNCHANGED mode
  BY <1>1, <1>3 DEF Opened, CircuitType
<1>4. ASSUME NEW a \in Account, WorkerStep(a) PROVE circuit' \in {circuit, Opened} /\ UNCHANGED mode
  <2>1. UNCHANGED mode
    BY <1>4, WorkerFrame
  <2> QED
    BY <1>4, <2>1 DEF WorkerStep, Start, Enriched, Attempt, Answer, FailForGood, Fail, RetryOrOpen, Appended, Deliver
<1>5. ASSUME NEW outcome \in {"passed", "failed"}, NEW stays \in BOOLEAN, EndPass(outcome, stays)
      PROVE  \/ circuit' = circuit
             \/ Recovering /\ circuit'.diversion = "none" /\ ~circuit'.stopped /\ Head(passes) \in Recovery
  BY <1>1, <1>5 DEF EndPass, Recover, Finish, Finished, Recovering, CircuitType
<1>6. CASE PassStep
  <2>1. CASE ReadFails
    BY <2>1, <1>2, <1>5 DEF ReadFails
  <2>2. CASE LinesDone
    <3>1. (pass.kept # <<>>) \in BOOLEAN
      OBVIOUS
    <3> QED
      BY <2>2, <3>1, <1>2, <1>5 DEF LinesDone
  <2>3. CASE KeepOnly
    <3>1. (pass.kept # <<>>) \in BOOLEAN
      OBVIOUS
    <3> QED
      BY <2>3, <3>1, <1>2, <1>5 DEF KeepOnly
  <2>4. CASE KeepFails
    BY <2>4, <1>2, <1>5 DEF KeepFails
  <2>5. CASE ProbeLine
    BY <2>5, <1>2, <1>3 DEF ProbeLine
  <2>6. CASE BeginPass \/ Read \/ LineStored \/ LineRefused \/ LineFails
    BY <2>6, <1>2 DEF BeginPass, Read, LineStored, LineRefused, LineFails
  <2>7. ASSUME NEW e \in Resolution, NEW t \in BOOLEAN, SaveLine(e, t) PROVE circuit' = circuit
    BY <2>7 DEF SaveLine
  <2> QED
    BY <1>2, <1>6, <2>1, <2>2, <2>3, <2>4, <2>5, <2>6, <2>7 DEF PassStep
<1>7. CASE ProbeStep
  <2>1. CASE ProbeFires \/ ProbeFails
    BY <1>1, <2>1 DEF ProbeFires, ProbeFails, CircuitType
  <2>2. CASE ProbeWrites
    <3>1. CASE circuit.stopped
      <4>1. circuit' = [circuit EXCEPT !.probe = "none"]
        BY <2>2, <3>1 DEF ProbeWrites
      <4> QED
        BY <1>1, <4>1 DEF CircuitType
    <3>2. CASE ~circuit.stopped
      <4>1. circuit' = [circuit EXCEPT !.probe = "none", !.diversion = "recovering"]
        BY <2>2, <3>2 DEF ProbeWrites
      <4> QED
        BY <1>1, <2>2, <3>2, <4>1 DEF CircuitType
    <3> QED
      BY <3>1, <3>2
  <2> QED
    BY <1>7, <2>1, <2>2 DEF ProbeStep
<1>8. CASE ShutDown
  BY <1>1, <1>8 DEF ShutDown, Stopped, CircuitType
<1>9. CASE Exit \/ Crash
  BY <1>9 DEF Exit, Crash, Forget
<1>10. ASSUME NEW r \in Recovery, Resumed(r)
       PROVE  circuit' = circuit \/ (Recovering /\ circuit'.diversion = "none" /\ ~circuit'.stopped)
  BY <1>1, <1>10 DEF Resumed, Finish, Finished, Recovering, CircuitType
<1> QED
  BY <1>2, <1>3, <1>4, <1>6, <1>7, <1>8, <1>9, <1>10, HandleFrame, DrainFrame
     DEF Next, DrainStep, RetryHeld, StartUp, StoreFails, StoreReturns, vars

\* With the process off, nothing goes on in it.
LEMMA OffIsQuiet ==
    ASSUME QueueInv, TurnInv, ModeInv, mode = "off", [Next]_vars
    PROVE  \/ StartUp
           \/ UNCHANGED <<mode, queue, pass, passes, circuit, heldTimer>>
<1> USE DEF world, live, passing
<1>1. pass.step = "none" /\ passes = <<>> /\ circuit.probe = "none" /\ ~heldTimer /\ Queued = {}
  BY DEF ModeInv, NoPass, Closed
<1>2. ASSUME NEW a \in Account, WorkerStep(a) PROVE FALSE
  <2>1. queue[a] # <<>>
    BY <1>2, WorkerQueue
  <2>2. Current(a) \in Queued
    BY <2>1, QueuedFacts
  <2> QED
    BY <1>1, <2>2
<1>3. ~PassStep
  BY <1>1 DEF PassStep, BeginPass, Read, ReadFails, SaveLine, LineStored, LineRefused, LineFails, ProbeLine,
     LinesDone, KeepOnly, KeepFails, FileIsFor
<1>4. ~ProbeStep /\ ~RetryHeld
  BY <1>1 DEF ProbeStep, ProbeFires, ProbeFails, ProbeWrites, RetryHeld
<1>5. \A m \in Message : ~Handle(m)
  BY DEF Handle
<1>6. ~GatherLeft /\ ~Exit /\ ~ShutDown /\ ~Crash
  BY DEF GatherLeft, Exit, ShutDown, Crash
<1>7. WriteLeft \/ LeftAppended => UNCHANGED <<mode, queue, pass, passes, circuit, heldTimer>>
  BY DEF WriteLeft, LeftAppended
<1>8. ASSUME NEW r \in Recovery, Resumed(r) PROVE UNCHANGED <<mode, queue, pass, passes, circuit, heldTimer>>
  <2>1. ~Recovering
    BY DEF ModeInv, Closed, Recovering
  <2> QED
    BY <1>8, <2>1 DEF Resumed, Finish, Finished
<1> QED
  BY <1>2, <1>3, <1>4, <1>5, <1>6, <1>7, <1>8 DEF Next, DrainStep, StoreFails, StoreReturns, vars

LEMMA ModeMoves ==
    ASSUME [Next]_vars
    PROVE  \/ UNCHANGED mode
           \/ mode = "starting" /\ mode' = "running" /\ PassStep
           \/ StartUp /\ mode = "off" /\ mode' = "starting"
           \/ ShutDown /\ mode' = "draining"
           \/ GatherLeft /\ mode = "draining" /\ mode' = "leaving"
           \/ (Exit \/ Crash) /\ mode' = "off"
<1> USE DEF world
<1>1. CASE PassStep
  BY <1>1 DEF PassStep, BeginPass, Read, ReadFails, SaveLine, LineStored, LineRefused, LineFails, ProbeLine,
     LinesDone, KeepOnly, KeepFails, EndPass
<1>2. CASE DrainStep
  BY <1>2 DEF DrainStep, GatherLeft, WriteLeft, LeftAppended, Exit, Forget
<1>3. CASE StartUp \/ ShutDown \/ Crash \/ RetryHeld \/ StoreFails \/ StoreReturns
  BY <1>3 DEF StartUp, ShutDown, Crash, Forget, RetryHeld, StoreFails, StoreReturns
<1> QED
  BY <1>1, <1>2, <1>3, ProbeFrame, HandleFrame, WorkerFrame DEF Next, vars

LEMMA ModeInvStep ==
    ASSUME PipelineInv, ModeInv, [Next]_vars
    PROVE  ModeInv'
<1> USE DEF live
<1>1. WorldInv /\ QueueInv /\ TurnInv
  BY DEF PipelineInv
<1>2. ASSUME mode' \in {"off", "starting"} PROVE Queued' = {}
  <2>1. CASE Exit \/ Crash
    BY <2>1, ForgetFacts DEF Exit, Crash
  <2>2. CASE ~(Exit \/ Crash)
    <3>1. mode \in {"off", "starting"}
      BY <1>2, <2>2, ModeMoves
    <3>2. \A m \in Message : ~Handle(m)
      BY <3>1 DEF Handle
    <3> QED
      BY <1>1, <3>1, <3>2, QueueMoves DEF ModeInv
  <2> QED
    BY <2>1, <2>2
<1>3. ASSUME mode' = "off"
      PROVE  pass' = NoPass /\ passes' = <<>> /\ circuit' = Closed /\ ~heldTimer'
  <2>1. CASE Exit \/ Crash
    BY <2>1 DEF Exit, Crash, Forget
  <2>2. CASE ~(Exit \/ Crash)
    <3>1. mode = "off" /\ ~StartUp
      BY <1>3, <2>2, ModeMoves DEF StartUp
    <3> QED
      BY <1>1, <3>1, OffIsQuiet DEF ModeInv
  <2> QED
    BY <2>1, <2>2
<1>4. ASSUME mode' \in {"draining", "leaving"} PROVE circuit'.stopped
  <2>1. ~(Exit \/ Crash)
    BY <1>4 DEF Exit, Crash, Forget
  <2>2. CASE ShutDown
    BY <1>1, <2>2 DEF ShutDown, Stopped, WorldInv, CircuitType
  <2>3. CASE ~ShutDown
    <3>1. mode \in {"draining", "leaving"}
      BY <1>4, <2>1, <2>3, ModeMoves
    <3>2. circuit.stopped
      BY <3>1 DEF ModeInv
    <3> QED
      BY <1>1, <2>1, <2>3, <3>2, CircuitMoves DEF Recovering
  <2> QED
    BY <2>2, <2>3
<1> QED
  BY <1>2, <1>3, <1>4 DEF ModeInv

\* Who joins the line for the file, and why.
LEMMA TurnMoves ==
    ASSUME QueueInv, TurnInv, [Next]_vars
    PROVE  \/ UNCHANGED turn
           \/ /\ turn # <<>> /\ turn' = Tail(turn)
              /\ \A a \in Account : worker'[a].step = "writingOff" => Head(turn).by # a
           \/ /\ \E u \in {"pass", "drain"}, lid \in BOOLEAN : turn' = Append(turn, Turn(u, lid))
              /\ UNCHANGED worker
           \/ \E a \in Account :
                  /\ WorkerStep(a) /\ Refuse(a)
                  /\ Current(a) \in unsaved /\ UNCHANGED failed
                  /\ turn' = Append(turn, Turn(a, FALSE))
           \/ (Exit \/ Crash) /\ turn' = <<>>
<1> USE DEF durable, live
<1>1. ASSUME NEW a \in Account, WorkerStep(a), ~UNCHANGED turn
      PROVE  \/ /\ turn # <<>> /\ turn' = Tail(turn)
                /\ \A b \in Account : worker'[b].step = "writingOff" => Head(turn).by # b
             \/ /\ Refuse(a) /\ Current(a) \in unsaved /\ UNCHANGED failed
                /\ turn' = Append(turn, Turn(a, FALSE))
  <2>1. CASE Appended(a)
    <3>1. worker \in [Account -> WorkerType]
      BY DEF QueueInv
    <3>2. worker'[a].step # "writingOff"
      BY <2>1, <3>1 DEF Appended, AfterWriteOff, Step, WorkerType
    <3> QED
      BY <2>1, <3>2 DEF Appended
  <2>2. CASE ~Appended(a)
    <3>1. Refuse(a) /\ UNCHANGED failed
      BY <1>1, <2>2 DEF WorkerStep, Start, Enriched, Attempt, Answer, FailForGood, Fail, RetryOrOpen, Deliver
    <3> QED
      BY <1>1, <3>1 DEF Refuse
  <2> QED
    BY <2>1, <2>2
<1>2. CASE PassStep
  <2>1. UNCHANGED worker
    BY <1>2, PassFrame
  <2>2. CASE BeginPass
    BY <2>1, <2>2 DEF BeginPass
  <2>3. CASE LinesDone
    BY <2>1, <2>3 DEF LinesDone
  <2>4. CASE Read \/ ReadFails \/ KeepOnly \/ KeepFails
    <3>1. turn # <<>> /\ turn' = Tail(turn) /\ Head(turn).by = "pass"
      BY <2>4 DEF Read, ReadFails, KeepOnly, KeepFails, FileIsFor
    <3> QED
      BY <3>1, NamesAssumption
  <2>5. CASE LineStored \/ LineRefused \/ LineFails \/ ProbeLine
    BY <2>5 DEF LineStored, LineRefused, LineFails, ProbeLine
  <2>6. ASSUME NEW e \in Resolution, NEW t \in BOOLEAN, SaveLine(e, t) PROVE UNCHANGED turn
    BY <2>6 DEF SaveLine
  <2> QED
    BY <1>2, <2>2, <2>3, <2>4, <2>5, <2>6 DEF PassStep
<1>3. CASE WriteLeft
  <2>1. (enrichment[Head(left)] = "pending") \in BOOLEAN
    OBVIOUS
  <2> QED
    BY <1>3, <2>1 DEF WriteLeft
<1>4. CASE LeftAppended
  BY <1>4, NamesAssumption DEF LeftAppended
<1>5. CASE Exit \/ Crash
  BY <1>5 DEF Exit, Crash, Forget
<1> QED
  BY <1>1, <1>2, <1>3, <1>4, <1>5, ProbeFrame, OutsideFrame, HandleFrame DEF Next, DrainStep, GatherLeft, vars

LEMMA TurnTail ==
    ASSUME TurnInv, turn # <<>>
    PROVE  /\ 1 \in DOMAIN turn /\ Head(turn) = turn[1]
           /\ \A i \in DOMAIN Tail(turn) : i \in Nat /\ i # 0 /\ i + 1 \in DOMAIN turn /\ Tail(turn)[i] = turn[i + 1]
           /\ \A i \in DOMAIN turn : i \in Nat /\ (i = 1 \/ (1 < i /\ i - 1 \in DOMAIN Tail(turn) /\ Tail(turn)[i - 1] = turn[i]))
BY DEF TurnInv

LEMMA TurnAppended ==
    ASSUME TurnInv, NEW u, NEW lid, turn' = Append(turn, Turn(u, lid))
    PROVE  /\ DOMAIN turn' = DOMAIN turn \union {Len(turn) + 1}
           /\ \A i \in DOMAIN turn : turn'[i] = turn[i] /\ i < Len(turn) + 1 /\ i \in Nat
           /\ turn'[Len(turn) + 1].by = u
           /\ Len(turn) \in Nat
<1>1. Turn(u, lid).by = u
  BY DEF Turn
<1>2. /\ DOMAIN turn' = DOMAIN turn \union {Len(turn) + 1}
      /\ \A i \in DOMAIN turn : turn'[i] = turn[i] /\ i < Len(turn) + 1 /\ i \in Nat
      /\ turn'[Len(turn) + 1] = Turn(u, lid)
      /\ Len(turn) \in Nat
  BY DEF TurnInv
<1> QED
  BY <1>1, <1>2

\* A worker begins to write off only what drain() has not taken.
LEMMA NewWriteOff ==
    ASSUME QueueInv, TurnInv, NEW a \in Account, worker'[a].step = "writingOff",
           worker[a].step # "writingOff", [Next]_vars
    PROVE  /\ Refuse(a) /\ Current(a) \in unsaved /\ turn' = Append(turn, Turn(a, FALSE))
           /\ WorkerStep(a) /\ UNCHANGED failed /\ NewsForRecover
<1> USE DEF live, durable
<1>1. worker'[a] # worker[a] /\ worker \in [Account -> WorkerType]
  BY DEF QueueInv
<1>2. WorkerStep(a)
  <2>1. ASSUME NEW m \in Message, Handle(m) PROVE FALSE
    BY <1>1, <2>1, HandleFrame
  <2>2. ASSUME NEW b \in Account, b # a, WorkerStep(b) PROVE FALSE
    BY <1>1, <2>2, OwnWorker
  <2>3. ~(Exit \/ Crash)
    BY ForgetFacts DEF Exit, Crash
  <2> QED
    BY <1>1, <2>1, <2>2, <2>3, ProbeFrame, PassFrame, OutsideFrame, DrainFrame DEF Next, DrainStep, vars
<1>3. \A s : Step(a, s) => s = "writingOff"
  BY <1>1 DEF Step, WorkerType
<1>4. ~Ends(a) /\ ~WaitToRetry(a)
  BY <1>1 DEF Ends, Idle, WaitToRetry
<1>5. Refuse(a) /\ UNCHANGED failed
  BY <1>2, <1>3, <1>4 DEF WorkerStep, Start, Enriched, Judge, SenderResolved, Attempt, Answer, FailForGood, Fail,
     RetryOrOpen, Appended, AfterWriteOff, Deliver
<1>6. ~AfterWriteOff(a)
  BY <1>3 DEF AfterWriteOff
<1> QED
  BY <1>2, <1>5, <1>6 DEF Refuse

LEMMA TurnOrderStep ==
    ASSUME PipelineInv, TurnOrder, [Next]_vars
    PROVE  TurnOrder'
<1>1. QueueInv /\ TurnInv /\ LeftInv
  BY DEF PipelineInv
<1>2. "pass" \notin Account /\ "drain" \notin Account
  BY NamesAssumption
<1>3. ASSUME NEW a \in Account, worker'[a].step = "writingOff" PROVE a \in Waiting'
  <2>1. CASE worker[a].step = "writingOff"
    <3>1. PICK i \in DOMAIN turn : turn[i].by = a
      BY <2>1 DEF TurnOrder, Waiting
    <3>2. CASE UNCHANGED turn
      BY <3>1, <3>2 DEF Waiting
    <3>3. CASE turn # <<>> /\ turn' = Tail(turn) /\ Head(turn).by # a
      <4>1. i # 1
        BY <1>1, <3>1, <3>3, TurnTail
      <4>2. i - 1 \in DOMAIN turn' /\ turn'[i - 1] = turn[i]
        BY <1>1, <3>3, <4>1, TurnTail
      <4> QED
        BY <3>1, <4>2 DEF Waiting
    <3>4. ASSUME NEW u, NEW lid, turn' = Append(turn, Turn(u, lid)) PROVE a \in Waiting'
      <4>1. i \in DOMAIN turn' /\ turn'[i] = turn[i]
        BY <1>1, <3>4, TurnAppended
      <4> QED
        BY <3>1, <4>1 DEF Waiting
    <3>5. ~(Exit \/ Crash)
      BY <1>3, ForgetFacts DEF Exit, Crash
    <3> QED
      BY <1>1, <1>3, <3>2, <3>3, <3>4, <3>5, TurnMoves
  <2>2. CASE worker[a].step # "writingOff"
    <3>1. turn' = Append(turn, Turn(a, FALSE))
      BY <1>1, <1>3, <2>2, NewWriteOff
    <3>2. Len(turn) + 1 \in DOMAIN turn' /\ turn'[Len(turn) + 1].by = a
      BY <1>1, <3>1, TurnAppended
    <3> QED
      BY <3>2 DEF Waiting
  <2> QED
    BY <2>1, <2>2
<1>4. ASSUME NEW i \in DOMAIN turn', NEW j \in DOMAIN turn', i < j, turn'[i].by = "drain"
      PROVE  turn'[j].by \notin Account
  <2>1. CASE UNCHANGED turn
    BY <1>4, <2>1 DEF TurnOrder
  <2>2. CASE turn # <<>> /\ turn' = Tail(turn)
    <3>1. /\ i \in Nat /\ i + 1 \in DOMAIN turn /\ turn'[i] = turn[i + 1]
          /\ j \in Nat /\ j + 1 \in DOMAIN turn /\ turn'[j] = turn[j + 1]
      BY <1>1, <2>2, TurnTail
    <3>2. i + 1 < j + 1
      BY <1>4, <3>1
    <3> QED
      BY <1>4, <3>1, <3>2 DEF TurnOrder
  <2>3. ASSUME NEW u, NEW lid, turn' = Append(turn, Turn(u, lid)),
               u \in Account => "drain" \notin Waiting
        PROVE  turn'[j].by \notin Account
    <3>1. /\ DOMAIN turn' = DOMAIN turn \union {Len(turn) + 1}
          /\ \A k \in DOMAIN turn : turn'[k] = turn[k] /\ k < Len(turn) + 1 /\ k \in Nat
          /\ turn'[Len(turn) + 1].by = u /\ Len(turn) \in Nat
      BY <1>1, <2>3, TurnAppended
    <3>2. i \in DOMAIN turn /\ turn[i].by = "drain"
      BY <1>4, <3>1
    <3>3. CASE j \in DOMAIN turn
      BY <1>4, <3>1, <3>2, <3>3 DEF TurnOrder
    <3>4. CASE j = Len(turn) + 1
      <4>1. "drain" \in Waiting
        BY <3>2 DEF Waiting
      <4> QED
        BY <2>3, <3>1, <3>4, <4>1
    <3> QED
      BY <3>1, <3>3, <3>4
  <2>4. unsaved # {} => "drain" \notin Waiting
    <3>1. "drain" \in Waiting => left # <<>>
      BY <1>1, WaitingFacts DEF WaitsFor
    <3> QED
      BY <1>1, <3>1 DEF LeftInv
  <2>5. ~(turn' = <<>>)
    BY <1>4
  <2> QED
    BY <1>1, <1>2, <2>1, <2>2, <2>3, <2>4, <2>5, TurnMoves
<1> QED
  BY <1>3, <1>4 DEF TurnOrder

---------------------------------------------------------------------------
\* What becomes of a line, and of the file

\* It passes, or stays: on its own account, behind one that does, because of an outage or
\* the shutdown, or behind one that stays for that.
LineDone ==
    \/ /\ UNCHANGED circuit
       /\ pass'.kept = pass.kept /\ pass'.heldBack = pass.heldBack /\ pass'.waiting = pass.waiting
       /\ \E m \in Message : m = LineMessage /\ Passed(m)'
    \/ /\ UNCHANGED circuit
       /\ pass'.kept = Append(pass.kept, Line)
       /\ pass'.heldBack = pass.heldBack \union {LineAccount}
       /\ pass'.waiting = pass.waiting \union {LineAccount}
       /\ \E m \in Message : m = LineMessage /\ Passed(m)'
    \/ /\ UNCHANGED circuit
       /\ pass'.kept = Append(pass.kept, Line)
       /\ pass'.heldBack = pass.heldBack /\ pass'.waiting = pass.waiting
       /\ LineAccount \in pass.heldBack \ pass.waiting
    \/ /\ circuit'.stopped \/ circuit'.diversion = "down"
       /\ pass'.kept = Append(pass.kept, Line)
       /\ pass'.heldBack = pass.heldBack \union {LineAccount}
       /\ pass'.waiting = pass.waiting

AtLine == \E e \in Resolution, t \in BOOLEAN : SaveLine(e, t)

LineStays == pass'.step = "line" /\ pass'.size = pass.size /\ pass'.next = pass.next + 1

LEMMA KeepOutcome ==
    ASSUME WorldInv, PassInv, NEW waits \in BOOLEAN, pass.next <= pass.size, Keep(waits),
           \/ UNCHANGED circuit /\ (waits \/ circuit.stopped \/ circuit.diversion = "down"
                                    \/ LineAccount \in pass.heldBack \ pass.waiting)
           \/ ~waits /\ circuit' = Opened
    PROVE  LineStays /\ LineDone
<1>1. pass \in PassType /\ LineMessage \in Message
  BY LineFacts DEF PassInv
<1>2. LineStays
  BY <1>1 DEF Keep, NextLine, PassType, LineStays
<1>3. /\ pass'.kept = Append(pass.kept, Line)
      /\ pass'.heldBack = pass.heldBack \union {LineAccount}
      /\ pass'.waiting = IF waits THEN pass.waiting \union {LineAccount} ELSE pass.waiting
  BY <1>1 DEF Keep, NextLine, PassType
<1>4. waits => LineMessage \in held'
  BY DEF Keep
<1>5. circuit' = Opened => circuit'.stopped \/ circuit'.diversion = "down"
  BY DEF Opened, WorldInv, CircuitType
<1>6. CASE UNCHANGED circuit /\ waits
  BY <1>1, <1>2, <1>3, <1>4, <1>6 DEF LineDone, Passed
<1>7. CASE ~waits /\ circuit' = Opened
  BY <1>2, <1>3, <1>5, <1>7 DEF LineDone
<1>8. CASE UNCHANGED circuit /\ ~waits
  BY <1>2, <1>3, <1>7, <1>8 DEF LineDone
<1> QED
  BY <1>6, <1>7, <1>8

\* What a step at a line may do: be done with it, or wait for the message log.
LEMMA LineOutcome ==
    ASSUME WorldInv, LogInv, PassInv,
           AtLine \/ LineStored \/ LineRefused \/ LineFails \/ ProbeLine
    PROVE  /\ pass.step \in {"line", "inserting", "probing"} /\ pass.next <= pass.size
           /\ UNCHANGED <<mode, failed, passes, recovery, turn, heldTimer>>
           /\ \/ LineStays /\ LineDone
              \/ /\ UNCHANGED circuit
                 /\ pass' = [pass EXCEPT !.step = "inserting"]
                 /\ pass.step = "line" /\ LineAccount \notin pass.heldBack /\ ~circuit.stopped
              \/ /\ UNCHANGED circuit
                 /\ pass' = [pass EXCEPT !.step = "probing"]
<1> USE DEF world, durable, live, passing
<1>1. /\ pass.step \in {"line", "inserting", "probing"} /\ pass.next <= pass.size
      /\ UNCHANGED <<mode, failed, passes, recovery, turn, heldTimer>>
  <2>1. AtLine => /\ pass.step = "line" /\ pass.next <= pass.size
                  /\ UNCHANGED <<mode, failed, passes, recovery, turn, heldTimer>>
    BY DEF AtLine, SaveLine
  <2>2. LineStored \/ LineRefused \/ LineFails \/ ProbeLine =>
            /\ pass.step \in {"inserting", "probing"}
            /\ UNCHANGED <<mode, failed, passes, recovery, turn, heldTimer>>
    BY DEF LineStored, LineRefused, LineFails, ProbeLine
  <2>3. pass.step \in {"inserting", "probing"} => pass.next <= pass.size
    BY DEF PassInv
  <2> QED
    BY <2>1, <2>2, <2>3
<1>2. pass \in PassType /\ LineMessage \in Message
  BY <1>1, LineFacts DEF PassInv
<1>3. ASSUME pass' \in {NextLine, [NextLine EXCEPT !.stored = TRUE]} \/ Reject
      PROVE  /\ LineStays
             /\ pass'.kept = pass.kept /\ pass'.heldBack = pass.heldBack /\ pass'.waiting = pass.waiting
  BY <1>2, <1>3 DEF Reject, NextLine, PassType, LineStays
<1>4. CASE AtLine
  <2>1. PICK e \in Resolution, t \in BOOLEAN : SaveLine(e, t)
    BY <1>4 DEF AtLine
  <2>2. UNCHANGED circuit /\ pass.step = "line"
    BY <2>1 DEF SaveLine
  <2>3. \/ LineAccount \in pass.heldBack /\ Keep(LineAccount \in pass.waiting)
        \/ Keep(TRUE)
        \/ (pass' = NextLine \/ Reject) /\ SetAside
        \/ (circuit.stopped \/ circuit.diversion = "down") /\ Keep(FALSE)
        \/ /\ LineAccount \notin pass.heldBack /\ ~circuit.stopped
           /\ pass' = [pass EXCEPT !.step = "inserting"]
    <3> DEFINE judged == ~Line.lid \/ e # "unresolved"
               leftOut == Line.lid /\ e = "excluded"
    <3>1. CASE LineAccount \in pass.heldBack
      BY <2>1, <3>1 DEF SaveLine
    <3>2. CASE LineAccount \notin pass.heldBack /\ ~judged
      BY <2>1, <3>2 DEF SaveLine
    <3>3. CASE LineAccount \notin pass.heldBack /\ judged /\ leftOut
      BY <2>1, <3>3 DEF SaveLine
    <3>4. CASE LineAccount \notin pass.heldBack /\ judged /\ ~leftOut
      BY <2>1, <3>4 DEF SaveLine
    <3> QED
      BY <3>1, <3>2, <3>3, <3>4
  <2>4. ASSUME LineAccount \in pass.heldBack, Keep(LineAccount \in pass.waiting) PROVE LineStays /\ LineDone
    <3>1. CASE LineAccount \in pass.waiting
      <4>1. Keep(TRUE)
        BY <2>4, <3>1 DEF Keep
      <4> QED
        BY <1>1, <2>2, <4>1, KeepOutcome
    <3>2. CASE LineAccount \notin pass.waiting
      <4>1. Keep(FALSE)
        BY <2>4, <3>2 DEF Keep
      <4> QED
        BY <1>1, <2>2, <2>4, <3>2, <4>1, KeepOutcome
    <3> QED
      BY <3>1, <3>2
  <2>5. ASSUME Keep(TRUE) PROVE LineStays /\ LineDone
    BY <1>1, <2>2, <2>5, KeepOutcome
  <2>6. ASSUME pass' = NextLine \/ Reject, SetAside PROVE LineStays /\ LineDone
    BY <1>2, <1>3, <2>2, <2>6 DEF SetAside, LineDone, Passed
  <2>7. ASSUME circuit.stopped \/ circuit.diversion = "down", Keep(FALSE) PROVE LineStays /\ LineDone
    BY <1>1, <2>2, <2>7, KeepOutcome
  <2> QED
    BY <1>1, <2>2, <2>3, <2>4, <2>5, <2>6, <2>7
<1>5. CASE LineStored
  <2>1. \E m \in Message : m = LineMessage /\ Passed(m)'
    <3>1. PICK m \in Message : m = LineMessage
      BY <1>2
    <3>2. Insert(m)
      BY <1>5, <3>1 DEF LineStored
    <3>3. Row(m)' # {}
      BY <3>2, InsertLog
    <3> QED
      BY <3>1, <3>3 DEF Passed
  <2> QED
    BY <1>1, <1>3, <1>5, <2>1 DEF LineStored, LineDone
<1>6. CASE LineRefused
  BY <1>1, <1>2, <1>3, <1>6 DEF LineRefused, LineDone, Passed, Storable
<1>7. CASE LineFails
  BY <1>1, <1>7 DEF LineFails
<1>8. CASE ProbeLine
  <2>1. CASE up
    BY <1>1, <1>8, <2>1, KeepOutcome DEF ProbeLine, WorldInv
  <2>2. CASE ~up
    BY <1>1, <1>8, <2>2, KeepOutcome DEF ProbeLine, WorldInv
  <2> QED
    BY <1>1, <2>1, <2>2
<1> QED
  BY <1>4, <1>5, <1>6, <1>7, <1>8

\* A pass is over: it stored, rejected or kept every line, or its file could not be used,
\* and then all that is in it waits on its own account.
PassEnds ==
    /\ pass.step # "none" /\ pass' = NoPass
    /\ \E outcome \in {"passed", "failed"}, stays \in BOOLEAN :
          /\ EndPass(outcome, stays)
          /\ \/ outcome = "failed" /\ InFile \subseteq held' /\ UNCHANGED failed
             \/ outcome = "passed" /\ pass.step \in {"line", "toKeep"} /\ pass.next > pass.size
                /\ (KeepOnly \/ UNCHANGED failed)

\* Nothing but its own steps moves a pass.
LEMMA PassSteps ==
    ASSUME PassInv, [Next]_vars
    PROVE  \/ UNCHANGED pass
           \/ BeginPass \/ Read
           \/ AtLine \/ LineStored \/ LineRefused \/ LineFails \/ ProbeLine
           \/ LinesDone /\ pass' = [pass EXCEPT !.step = "toKeep"]
           \/ PassStep /\ PassEnds
           \/ (Exit \/ Crash) /\ pass' = NoPass
<1> USE DEF durable, passing
<1>1. (pass.kept # <<>>) \in BOOLEAN
  OBVIOUS
<1>2. pass.step = "toKeep" => pass.next > pass.size
  BY DEF PassInv, PassType
<1>3. CASE ReadFails
  BY <1>3 DEF ReadFails, FileIsFor, EndPass, PassEnds, PassStep
<1>4. CASE KeepFails
  BY <1>4 DEF KeepFails, FileIsFor, EndPass, PassEnds, PassStep
<1>5. CASE KeepOnly
  BY <1>1, <1>2, <1>5 DEF KeepOnly, FileIsFor, EndPass, PassEnds, PassStep
<1>6. CASE LinesDone
  BY <1>1, <1>6 DEF LinesDone, EndPass, PassEnds, PassStep
<1>7. CASE Exit \/ Crash
  BY <1>7 DEF Exit, Crash, Forget
<1> QED
  BY <1>3, <1>4, <1>5, <1>6, <1>7, ProbeFrame, OutsideFrame, HandleFrame, WorkerFrame, DrainFrame
     DEF Next, PassStep, AtLine, DrainStep, vars

LEMMA KeptNone ==
    ASSUME pass'.kept = <<>>, pass'.next = 1,
           pass'.step \in {"none", "toRead"} => pass' = [NoPass EXCEPT !.step = pass'.step]
    PROVE  KeptInv'
<1>1. DOMAIN <<>> = {} /\ 1 .. 1 - 1 = {}
  OBVIOUS
<1> QED
  BY <1>1 DEF KeptInv

\* A pass that is done with no line more is as it was, whatever is appended.
LEMMA KeptStays ==
    ASSUME PassInv, KeptInv, FileGrows, \A m \in Message : Passed(m) => Passed(m)',
           pass'.kept = pass.kept, pass'.next = pass.next, pass'.heldBack = pass.heldBack,
           pass'.step \in {"none", "toRead"} => pass' = pass
    PROVE  KeptInv'
<1>1. /\ failed \in Seq(EntryType) /\ pass \in PassType
      /\ pass.next \in Nat /\ pass.size \in Nat /\ pass.size <= Len(failed) /\ pass.next <= pass.size + 1
  BY DEF PassInv, PassType
<1>2. \A i \in 1 .. pass.next - 1 : i \in DOMAIN failed /\ failed'[i] = failed[i] /\ failed[i] \in EntryType
  BY <1>1 DEF FileGrows
<1>3. \A i \in 1 .. pass.next - 1 : FileMessage(i) \in Message /\ FileMessage(i)' = FileMessage(i)
  BY <1>2 DEF FileMessage, EntryType
<1>4. ASSUME NEW i \in 1 .. pass.next - 1
      PROVE  AccountOf[FileMessage(i)'] \in pass.heldBack \/ Passed(FileMessage(i))'
  <2>1. PICK m \in Message : m = FileMessage(i) /\ m = FileMessage(i)'
    BY <1>3
  <2>2. AccountOf[m] \in pass.heldBack \/ Passed(m)'
    BY <2>1 DEF KeptInv
  <2> QED
    BY <2>1, <2>2 DEF Passed, Row
<1>5. \A j \in DOMAIN pass.kept : \E i \in 1 .. pass.next - 1 : failed'[i] = pass.kept[j]
  BY <1>2 DEF KeptInv
<1> QED
  BY <1>4, <1>5 DEF KeptInv

\* One line more.
LEMMA KeptMoves ==
    ASSUME PassInv, KeptInv, FileOrder, UNCHANGED failed, \A m \in Message : Passed(m) => Passed(m)',
           pass.next <= pass.size, LineStays, LineDone
    PROVE  KeptInv'
<1>1. /\ failed \in Seq(EntryType) /\ pass \in PassType /\ pass.kept \in Seq(EntryType)
      /\ pass.next \in Nat /\ pass.size \in Nat /\ pass.size <= Len(failed) /\ pass.next >= 1
      /\ Line \in EntryType /\ LineMessage \in Message /\ LineAccount = AccountOf[LineMessage]
      /\ Line = failed[pass.next] /\ LineMessage = FileMessage(pass.next)
  BY LineFacts DEF PassInv, PassType, LineAccount, Line, LineMessage, FileMessage
<1>2. \A i \in 1 .. pass.next : i \in DOMAIN failed /\ FileMessage(i) \in Message
  <2>1. \A i \in 1 .. pass.next : i \in DOMAIN failed /\ failed[i] \in EntryType
    BY <1>1
  <2> QED
    BY <2>1 DEF FileMessage, EntryType
<1>3. pass.heldBack \subseteq pass'.heldBack
  BY DEF LineDone
<1>4. 1 .. pass'.next - 1 = 1 .. pass.next
  BY <1>1 DEF LineStays
<1>5. ASSUME NEW i \in 1 .. pass.next
      PROVE  AccountOf[FileMessage(i)'] \in pass'.heldBack \/ Passed(FileMessage(i))'
  <2>1. PICK m \in Message : m = FileMessage(i) /\ m = FileMessage(i)'
    BY <1>2 DEF FileMessage
  <2>2. AccountOf[m] \in pass'.heldBack \/ Passed(m)'
    <3>1. CASE i = pass.next
      BY <1>1, <2>1, <3>1 DEF LineDone
    <3>2. CASE i # pass.next
      <4>1. i \in 1 .. pass.next - 1
        BY <1>1, <3>2
      <4> QED
        BY <1>3, <2>1, <4>1 DEF KeptInv
    <3> QED
      BY <3>1, <3>2
  <2> QED
    BY <2>1, <2>2 DEF Passed, Row
<1>6. CASE pass'.kept = pass.kept
  <2>1. \A j \in DOMAIN pass.kept : \E i \in 1 .. pass.next : failed[i] = pass.kept[j]
    <3>1. \A i \in 1 .. pass.next - 1 : i \in 1 .. pass.next
      BY <1>1
    <3> QED
      BY <3>1 DEF KeptInv
  <2>2. \A i, j \in DOMAIN pass.kept : i < j => ~Before(pass.kept[j].message, pass.kept[i].message)
    BY DEF KeptInv
  <2> QED
    BY <1>4, <1>5, <1>6, <2>1, <2>2 DEF KeptInv, LineStays, Before
<1>7. CASE pass'.kept = Append(pass.kept, Line)
  <2>1. /\ DOMAIN pass'.kept = DOMAIN pass.kept \union {Len(pass.kept) + 1}
        /\ pass'.kept[Len(pass.kept) + 1] = Line
        /\ \A j \in DOMAIN pass.kept : pass'.kept[j] = pass.kept[j] /\ j < Len(pass.kept) + 1
        /\ \A j \in DOMAIN pass.kept : ~(Len(pass.kept) + 1 < j)
    BY <1>1, <1>7
  <2>2. ASSUME NEW j \in DOMAIN pass'.kept PROVE \E i \in 1 .. pass.next : failed[i] = pass'.kept[j]
    <3>1. CASE j = Len(pass.kept) + 1
      <4>1. pass.next \in 1 .. pass.next
        BY <1>1
      <4> QED
        BY <1>1, <2>1, <3>1, <4>1
    <3>2. CASE j \in DOMAIN pass.kept
      <4>1. \A i \in 1 .. pass.next - 1 : i \in 1 .. pass.next
        BY <1>1
      <4> QED
        BY <2>1, <3>2, <4>1 DEF KeptInv
    <3> QED
      BY <2>1, <3>1, <3>2
  <2>3. ASSUME NEW i \in DOMAIN pass'.kept, NEW j \in DOMAIN pass'.kept, i < j
        PROVE  ~Before(pass'.kept[j].message, pass'.kept[i].message)
    <3>1. CASE i \in DOMAIN pass.kept /\ j \in DOMAIN pass.kept
      BY <2>1, <2>3, <3>1 DEF KeptInv
    <3>2. CASE i \in DOMAIN pass.kept /\ j = Len(pass.kept) + 1
      <4>1. PICK k \in 1 .. pass.next - 1 : failed[k] = pass.kept[i]
        BY <3>2 DEF KeptInv
      <4>2. k \in DOMAIN failed /\ pass.next \in DOMAIN failed /\ k < pass.next
        BY <1>1
      <4>3. ~Before(FileMessage(pass.next), FileMessage(k))
        BY <4>2 DEF FileOrder
      <4> QED
        BY <1>1, <2>1, <3>2, <4>1, <4>3 DEF FileMessage
    <3>3. ~(i = Len(pass.kept) + 1)
      BY <1>1, <2>1, <2>3
    <3> QED
      BY <2>1, <3>1, <3>2, <3>3
  <2> QED
    BY <1>4, <1>5, <2>2, <2>3 DEF KeptInv, LineStays, Before
<1> QED
  BY <1>6, <1>7 DEF LineDone

\* The file only grows until a pass rewrites it.
LEMMA FileGrowsOrRewritten ==
    ASSUME PipelineInv, [Next]_vars
    PROVE  FileGrows \/ KeepOnly
<1>1. QueueInv /\ TurnInv /\ LeftInv /\ PassInv
  BY DEF PipelineInv
<1>2. UNCHANGED failed => FileGrows
  BY <1>1 DEF FileGrows, PassInv
<1>3. ASSUME NEW m \in Message, NEW lid \in BOOLEAN, failed' = Append(failed, Entry(m, lid)) PROVE FileGrows
  BY <1>1, <1>3, AppendedFile
<1> QED
  BY <1>1, <1>2, <1>3, FileMoves

LEMMA KeptInvStep ==
    ASSUME PipelineInv, KeptInv, FileOrder, [Next]_vars
    PROVE  KeptInv'
<1>1. WorldInv /\ QueueInv /\ LogInv /\ PassInv
  BY DEF PipelineInv
<1>2. \A m \in Message : Passed(m) => Passed(m)'
  BY <1>1, PassedStays
<1>3. /\ NoPass.kept = <<>> /\ NoPass.next = 1 /\ NoPass.step = "none"
      /\ NoPass = [NoPass EXCEPT !.step = "none"]
  BY DEF NoPass
<1>4. CASE pass' = NoPass
  BY <1>3, <1>4, KeptNone
<1>5. CASE UNCHANGED pass
  <2>1. ~KeepOnly
    BY <1>3, <1>5 DEF KeepOnly, FileIsFor, EndPass
  <2>2. FileGrows
    BY <2>1, FileGrowsOrRewritten
  <2> QED
    BY <1>1, <1>2, <1>5, <2>2, KeptStays
<1>6. CASE BeginPass
  <2>1. pass' = [NoPass EXCEPT !.step = "toRead"]
    BY <1>6 DEF BeginPass
  <2> QED
    BY <2>1, KeptNone DEF NoPass
<1>7. CASE Read
  <2>1. pass = [NoPass EXCEPT !.step = "toRead"] /\ pass' = [pass EXCEPT !.step = "line", !.size = Len(failed)]
    BY <1>7 DEF Read, FileIsFor, KeptInv
  <2>2. pass'.kept = <<>> /\ pass'.next = 1 /\ pass'.step = "line"
    BY <2>1 DEF NoPass
  <2> QED
    BY <2>2, KeptNone
<1>8. ASSUME UNCHANGED failed, NEW s \in {"inserting", "probing", "toKeep"}, pass' = [pass EXCEPT !.step = s]
      PROVE  KeptInv'
  <2>1. /\ pass'.kept = pass.kept /\ pass'.next = pass.next /\ pass'.heldBack = pass.heldBack
        /\ pass'.step = s
    BY <1>1, <1>8 DEF PassInv, PassType
  <2>2. FileGrows
    BY <1>1, <1>8 DEF FileGrows, PassInv
  <2> QED
    BY <1>1, <1>2, <2>1, <2>2, KeptStays
<1>9. CASE AtLine \/ LineStored \/ LineRefused \/ LineFails \/ ProbeLine
  <2>1. /\ pass.next <= pass.size /\ UNCHANGED failed
        /\ \/ LineStays /\ LineDone
           \/ pass' = [pass EXCEPT !.step = "inserting"]
           \/ pass' = [pass EXCEPT !.step = "probing"]
    BY <1>1, <1>9, LineOutcome
  <2> QED
    BY <1>1, <1>2, <1>8, <2>1, KeptMoves
<1>10. CASE LinesDone /\ pass' = [pass EXCEPT !.step = "toKeep"]
  BY <1>8, <1>10 DEF LinesDone, durable
<1> QED
  BY <1>1, <1>4, <1>5, <1>6, <1>7, <1>9, <1>10, PassSteps DEF PassEnds

LEMMA Joined ==
    ASSUME NEW T, NEW p \in Seq(T), NEW q \in Seq(T)
    PROVE  /\ p \o q \in Seq(T) /\ Len(p \o q) = Len(p) + Len(q)
           /\ \A i \in 1 .. Len(p) : (p \o q)[i] = p[i]
           /\ \A i \in (Len(p) + 1) .. Len(p \o q) : (p \o q)[i] = q[i - Len(p)]
<1>1. p \o q \in Seq(T) /\ Len(p \o q) = Len(p) + Len(q)
  OBVIOUS
<1>2. \A i \in 1 .. Len(p) : (p \o q)[i] = p[i]
  OBVIOUS
<1>3. ASSUME NEW i \in (Len(p) + 1) .. Len(p \o q) PROVE (p \o q)[i] = q[i - Len(p)]
  BY <1>1
<1> QED
  BY <1>1, <1>2, <1>3

\* What a rewrite leaves are lines that were there, in the order they were in.
LEMMA Rewritten ==
    ASSUME PassInv, ArrivedInv, KeptInv, FileOrder, KeepOnly
    PROVE  /\ \A i \in DOMAIN failed' : \E k \in DOMAIN failed : failed'[i] = failed[k]
           /\ \A i, j \in DOMAIN failed' : i < j => ~Before(failed'[j].message, failed'[i].message)
           /\ InFile' \subseteq InFile
<1> DEFINE rest == SubSeq(failed, pass.size + 1, Len(failed))
<1>1. /\ pass \in PassType /\ pass.kept \in Seq(EntryType) /\ pass.size \in Nat
      /\ failed \in Seq(EntryType) /\ pass.size <= Len(failed) /\ pass.next = pass.size + 1
  BY DEF PassInv, PassType, KeepOnly, FileIsFor
<1>2. failed' = pass.kept \o rest
  BY DEF KeepOnly
<1>3. /\ rest \in Seq(EntryType) /\ Len(rest) = Len(failed) - pass.size
      /\ \A i \in (pass.size + 1) .. Len(failed) : rest[i - pass.size] = failed[i]
  BY <1>1, Rest
<1> HIDE DEF rest
<1>4. /\ failed' \in Seq(EntryType) /\ Len(failed') = Len(pass.kept) + Len(rest)
      /\ \A i \in 1 .. Len(pass.kept) : failed'[i] = pass.kept[i]
      /\ \A i \in (Len(pass.kept) + 1) .. Len(failed') : failed'[i] = rest[i - Len(pass.kept)]
  <2>1. pass.kept \in Seq(EntryType) /\ rest \in Seq(EntryType)
    BY <1>1, <1>3
  <2>2. /\ pass.kept \o rest \in Seq(EntryType) /\ Len(pass.kept \o rest) = Len(pass.kept) + Len(rest)
        /\ \A i \in 1 .. Len(pass.kept) : (pass.kept \o rest)[i] = pass.kept[i]
        /\ \A i \in (Len(pass.kept) + 1) .. Len(pass.kept \o rest) :
               (pass.kept \o rest)[i] = rest[i - Len(pass.kept)]
    BY <2>1, Joined
  <2> QED
    BY <1>2, <2>2
<1>5. ASSUME NEW i \in DOMAIN failed', i <= Len(pass.kept)
      PROVE  i \in DOMAIN pass.kept /\ failed'[i] = pass.kept[i] /\ \E k \in 1 .. pass.size : failed[k] = failed'[i]
  <2>1. i \in 1 .. Len(pass.kept) /\ i \in DOMAIN pass.kept
    BY <1>1, <1>4, <1>5
  <2>2. 1 .. pass.next - 1 = 1 .. pass.size
    BY <1>1
  <2> QED
    BY <1>4, <2>1, <2>2 DEF KeptInv
<1>6. ASSUME NEW i \in DOMAIN failed', ~(i <= Len(pass.kept))
      PROVE  /\ i - Len(pass.kept) + pass.size \in DOMAIN failed
             /\ i - Len(pass.kept) + pass.size > pass.size
             /\ failed'[i] = failed[i - Len(pass.kept) + pass.size]
  <2>1. i \in (Len(pass.kept) + 1) .. Len(failed') /\ i \in Nat
    BY <1>1, <1>3, <1>4, <1>6
  <2>2. ASSUME NEW n \in Nat, NEW f \in Nat, NEW s \in Nat, s <= f, i \in (n + 1) .. (n + (f - s))
        PROVE  /\ i - n + s \in (s + 1) .. f /\ (i - n + s) - s = i - n
               /\ i - n + s \in 1 .. f /\ i - n + s > s
    BY <2>1, <2>2
  <2>3. /\ i - Len(pass.kept) + pass.size \in (pass.size + 1) .. Len(failed)
        /\ (i - Len(pass.kept) + pass.size) - pass.size = i - Len(pass.kept)
        /\ i - Len(pass.kept) + pass.size \in 1 .. Len(failed)
        /\ i - Len(pass.kept) + pass.size > pass.size
    <3>1. Len(pass.kept) \in Nat /\ Len(failed) \in Nat /\ pass.size \in Nat /\ pass.size <= Len(failed)
      BY <1>1
    <3>2. Len(failed') = Len(pass.kept) + (Len(failed) - pass.size)
      BY <1>3, <1>4
    <3> QED
      BY <2>1, <2>2, <3>1, <3>2
  <2>4. rest[i - Len(pass.kept)] = failed[i - Len(pass.kept) + pass.size]
    BY <1>3, <2>3
  <2>5. failed'[i] = rest[i - Len(pass.kept)]
    BY <1>4, <2>1
  <2>6. i - Len(pass.kept) + pass.size \in DOMAIN failed
    BY <1>1, <2>3
  <2> QED
    BY <2>3, <2>4, <2>5, <2>6
<1>7. ASSUME NEW i \in DOMAIN failed' PROVE \E k \in DOMAIN failed : failed'[i] = failed[k]
  <2>1. \A k \in 1 .. pass.size : k \in DOMAIN failed
    BY <1>1
  <2> QED
    BY <1>5, <1>6, <2>1
<1>8. ASSUME NEW i \in DOMAIN failed', NEW j \in DOMAIN failed', i < j
      PROVE  ~Before(failed'[j].message, failed'[i].message)
  <2>0. i \in Nat /\ j \in Nat /\ Len(pass.kept) \in Nat
    BY <1>1, <1>4
  <2>1. CASE j <= Len(pass.kept)
    <3>1. i <= Len(pass.kept)
      BY <1>8, <2>0, <2>1
    <3> QED
      BY <1>5, <1>8, <2>1, <3>1 DEF KeptInv
  <2>2. CASE i <= Len(pass.kept) /\ ~(j <= Len(pass.kept))
    <3>1. PICK k \in 1 .. pass.size : failed[k] = failed'[i]
      BY <1>5, <2>2
    <3>2. k \in DOMAIN failed /\ k < j - Len(pass.kept) + pass.size
      BY <1>1, <1>6, <2>0, <2>2
    <3> QED
      BY <1>6, <2>2, <3>1, <3>2 DEF FileOrder, FileMessage
  <2>3. CASE ~(i <= Len(pass.kept))
    <3>1. ~(j <= Len(pass.kept))
      BY <1>8, <2>0, <2>3
    <3>2. i - Len(pass.kept) + pass.size < j - Len(pass.kept) + pass.size
      BY <1>1, <1>8, <2>0
    <3> QED
      BY <1>6, <2>3, <3>1, <3>2 DEF FileOrder, FileMessage
  <2> QED
    BY <2>1, <2>2, <2>3
<1>9. InFile' \subseteq InFile
  BY <1>7 DEF InFile
<1> QED
  BY <1>7, <1>8, <1>9


\* What is in the file now was there, or is what a worker or drain() wrote off.
LEMMA FileGains ==
    ASSUME PipelineInv, KeptInv, FileOrder, [Next]_vars
    PROVE  \/ InFile' \subseteq InFile
           \/ \E a \in Account : worker[a].step = "writingOff" /\ Appended(a) /\ InFile' = InFile \union {Current(a)}
           \/ LeftAppended /\ left # <<>> /\ mode = "leaving" /\ InFile' = InFile \union {Head(left)}
<1>1. QueueInv /\ TurnInv /\ PassInv /\ LeftInv /\ ArrivedInv
  BY DEF PipelineInv
<1>2. UNCHANGED failed => InFile' \subseteq InFile
  BY DEF InFile
<1>3. ASSUME NEW m \in Message, NEW lid \in BOOLEAN, failed' = Append(failed, Entry(m, lid))
      PROVE  InFile' = InFile \union {m}
  BY <1>1, <1>3, FileAppended
<1>4. KeepOnly => InFile' \subseteq InFile
  BY <1>1, Rewritten
<1> QED
  BY <1>1, <1>2, <1>3, <1>4, FileMoves

LEMMA FileOrderStep ==
    ASSUME PipelineInv, ArrivalInv, QueueOrder, LeftOrder, TurnOrder, KeptInv, FileOrder, [Next]_vars
    PROVE  FileOrder'
<1>1. QueueInv /\ TurnInv /\ PassInv /\ LeftInv /\ ArrivedInv
  BY DEF PipelineInv
<1>2. InFile \subseteq Message /\ InFile \subseteq arrived
  BY <1>1, FileFacts
<1>3. \A a \in Account : worker[a].step # "idle" => Current(a) \in Queued /\ AccountOf[Current(a)] = a
  BY <1>1, CurrentFacts, QueuedFacts
<1>4. left # <<>> => mode = "leaving" /\ unsaved = {}
  BY <1>1 DEF LeftInv
<1>5. ASSUME NEW i \in DOMAIN failed', NEW j \in DOMAIN failed', i < j
      PROVE  ~Before(failed'[j].message, failed'[i].message)
  <2>1. ASSUME NEW m \in Message, NEW lid \in BOOLEAN, failed' = Append(failed, Entry(m, lid)),
               \A k \in InFile : ~Before(m, k)
        PROVE  ~Before(failed'[j].message, failed'[i].message)
    <3>1. /\ DOMAIN failed' = DOMAIN failed \union {Len(failed) + 1}
          /\ \A k \in DOMAIN failed : failed'[k] = failed[k] /\ k < Len(failed) + 1
          /\ failed'[Len(failed) + 1].message = m /\ Len(failed) \in Nat
      BY <1>1, <2>1, FileAppended
    <3>2. \A k \in DOMAIN failed : k \in Nat /\ failed[k].message \in InFile
      BY <1>1, FileFacts DEF FileMessage
    <3>3. i \in DOMAIN failed
      BY <1>5, <3>1, <3>2
    <3>4. CASE j \in DOMAIN failed
      BY <1>5, <3>1, <3>3, <3>4 DEF FileOrder, FileMessage
    <3>5. CASE j = Len(failed) + 1
      BY <2>1, <3>1, <3>2, <3>3, <3>5
    <3> QED
      BY <3>1, <3>4, <3>5
  <2>2. CASE UNCHANGED failed
    BY <1>5, <2>2 DEF FileOrder, FileMessage
  <2>3. CASE KeepOnly
    BY <1>1, <1>5, <2>3, Rewritten
  <2>4. \A a \in Account : worker[a].step = "writingOff" => \A k \in InFile : ~Before(Current(a), k)
    BY DEF FileOrder
  <2>5. left # <<>> => \A k \in InFile : ~Before(Head(left), k)
    BY <1>1, LeftTail DEF FileOrder
  <2> QED
    BY <1>1, <2>1, <2>2, <2>3, <2>4, <2>5, FileMoves
<1>6. \/ InFile' \subseteq InFile
      \/ \E a \in Account : worker[a].step = "writingOff" /\ Appended(a) /\ InFile' = InFile \union {Current(a)}
      \/ LeftAppended /\ left # <<>> /\ mode = "leaving" /\ InFile' = InFile \union {Head(left)}
  BY FileGains
<1>7. ASSUME mode' # "leaving", NEW k \in InFile', NEW m \in Queued' PROVE ~Before(m, k)
  <2>1. ~(Exit \/ Crash)
    BY <1>7, ForgetFacts DEF Exit, Crash
  <2>2. mode # "leaving"
    BY <1>7, <2>1, ModeMoves DEF StartUp, ShutDown
  <2>3. m \in Queued \/ (m \in Message \ arrived /\ Handle(m))
    BY <1>1, <1>7, QueueMoves
  <2>4. k \in InFile \/ \E a \in Account : worker[a].step = "writingOff" /\ k = Current(a) /\ Appended(a)
    BY <1>6, <1>7, <2>2
  <2>5. CASE m \in Queued /\ k \in InFile
    BY <2>2, <2>5 DEF FileOrder
  <2>6. CASE m \in Queued /\ k \notin InFile
    BY <1>1, <2>4, <2>6, CurrentFacts, HeadFirst
  <2>7. CASE m \in Message \ arrived
    <3>1. k \in arrived
      BY <1>1, <1>2, <2>4, CurrentFacts
    <3> QED
      BY <2>7, <3>1 DEF ArrivalInv
  <2> QED
    BY <2>3, <2>5, <2>6, <2>7
<1>8. ASSUME NEW k \in InFile', NEW l \in ToSet(left') PROVE ~Before(l, k)
  <2>1. CASE GatherLeft /\ ToSet(left') = unsaved
    <3>1. mode # "leaving" /\ k \in InFile
      BY <1>8, <2>1 DEF GatherLeft, durable, InFile
    <3> QED
      BY <1>8, <2>1, <3>1 DEF FileOrder, QueueOrder
  <2>2. CASE ToSet(left') \subseteq ToSet(left) /\ left # <<>>
    <3>1. CASE k \in InFile
      BY <1>8, <2>2, <3>1 DEF FileOrder
    <3>2. ASSUME NEW a \in Account, worker[a].step = "writingOff", k = Current(a) PROVE ~Before(l, k)
      BY <1>8, <2>2, <3>2 DEF LeftOrder
    <3>3. CASE LeftAppended /\ k = Head(left)
      <4>1. PICK i \in DOMAIN left' : l = left'[i]
        BY <1>8 DEF ToSet
      <4>2. left' = Tail(left)
        BY <3>3 DEF LeftAppended
      <4>3. /\ i \in Nat /\ i + 1 \in DOMAIN left /\ left'[i] = left[i + 1] /\ 1 < i + 1
            /\ 1 \in DOMAIN left /\ Head(left) = left[1]
        BY <1>1, <2>2, <4>2, LeftTail
      <4> QED
        BY <3>3, <4>1, <4>3 DEF LeftOrder
    <3> QED
      BY <1>6, <1>8, <3>1, <3>2, <3>3
  <2>3. ToSet(left) # {} => left # <<>>
    BY DEF ToSet
  <2>4. UNCHANGED left => ToSet(left') = ToSet(left)
    OBVIOUS
  <2> QED
    BY <1>1, <1>8, <2>1, <2>2, <2>3, <2>4, LeftMoves, LeftTail
<1>9. ASSUME NEW a \in Account, worker'[a].step = "writingOff", NEW k \in InFile'
      PROVE  ~Before(Current(a)', k)
  <2>1. Current(a)' = Current(a) /\ Current(a) \in Queued /\ AccountOf[Current(a)] = a
    BY <1>1, <1>9, CurrentStays, QueuedFacts
  <2>2. CASE worker[a].step # "writingOff"
    <3>1. Current(a) \in unsaved /\ UNCHANGED failed
      BY <1>1, <1>9, <2>2, NewWriteOff
    <3>2. mode # "leaving" /\ k \in InFile
      BY <1>1, <1>9, <3>1 DEF LeftInv, InFile
    <3> QED
      BY <2>1, <3>2 DEF FileOrder
  <2>3. CASE worker[a].step = "writingOff"
    <3>1. CASE k \in InFile
      BY <2>1, <2>3, <3>1 DEF FileOrder
    <3>2. ASSUME NEW b \in Account, worker[b].step = "writingOff", Appended(b), k = Current(b)
          PROVE  ~Before(Current(a)', k)
      <4>1. b # a
        <5>1. worker \in [Account -> WorkerType]
          BY <1>1 DEF QueueInv
        <5>2. Appended(b) => worker'[b].step # "writingOff"
          BY <5>1 DEF Appended, AfterWriteOff, Step, WorkerType
        <5> QED
          BY <1>9, <3>2, <5>2
      <4>2. AccountOf[k] = b
        BY <1>3, <3>2
      <4> QED
        BY <2>1, <4>1, <4>2 DEF Before
    <3>3. ~LeftAppended
      <4>1. PICK i \in DOMAIN turn : turn[i].by = a
        BY <2>3 DEF TurnOrder, Waiting
      <4>2. "drain" \notin Account
        BY NamesAssumption
      <4>3. LeftAppended => turn # <<>> /\ Head(turn).by = "drain"
        BY DEF LeftAppended
      <4> QED
        BY <1>1, <4>1, <4>2, <4>3, TurnTail DEF TurnOrder
    <3> QED
      BY <1>6, <1>9, <3>1, <3>2, <3>3
  <2> QED
    BY <2>2, <2>3
<1> QED
  BY <1>5, <1>7, <1>8, <1>9 DEF FileOrder, FileMessage, Before

LEMMA LineOrderStep ==
    ASSUME PipelineInv, ArrivalInv, QueueOrder, ModeInv, FileOrder, LineOrder, [Next]_vars
    PROVE  LineOrder'
<1>1. WorldInv /\ QueueInv /\ TurnInv /\ LogInv /\ PassInv /\ LeftInv /\ ArrivedInv
  BY DEF PipelineInv
<1>2. SUFFICES ASSUME pass'.step = "inserting"
               PROVE  /\ \A m \in Queued' \union ToSet(left') : ~Before(m, LineMessage')
                      /\ LineAccount' \notin pass'.heldBack
  BY DEF LineOrder, Before
<1>3. \/ UNCHANGED pass
      \/ /\ pass' = [pass EXCEPT !.step = "inserting"] /\ UNCHANGED failed
         /\ pass.step = "line" /\ LineAccount \notin pass.heldBack /\ ~circuit.stopped
         /\ PassStep
  <2>1. ~BeginPass /\ ~Read /\ pass' # NoPass
    <3>1. BeginPass => pass'.step = "toRead"
      BY DEF BeginPass, NoPass
    <3>2. Read => pass'.step = "line"
      <4>1. pass \in PassType
        BY <1>1 DEF PassInv
      <4> QED
        BY <4>1 DEF Read, PassType
    <3>3. NoPass.step = "none"
      BY DEF NoPass
    <3> QED
      BY <1>2, <3>1, <3>2, <3>3
  <2>2. pass' = [pass EXCEPT !.step = "inserting"] => pass'.step = "inserting"
    BY <1>1 DEF PassInv, PassType
  <2>3. ASSUME NEW s \in {"probing", "toKeep"}, pass' = [pass EXCEPT !.step = s] PROVE FALSE
    BY <1>1, <1>2, <2>3 DEF PassInv, PassType
  <2>4. ~LineStays
    BY <1>2 DEF LineStays
  <2>5. AtLine \/ LineStored \/ LineRefused \/ LineFails \/ ProbeLine => PassStep
    BY DEF AtLine, PassStep
  <2> QED
    BY <1>1, <2>1, <2>3, <2>4, <2>5, PassSteps, LineOutcome DEF PassEnds
<1>4. pass.next <= pass.size /\ pass'.next = pass.next /\ pass'.heldBack = pass.heldBack
  <2>1. pass'.next = pass.next /\ pass'.heldBack = pass.heldBack /\ pass'.size = pass.size
    BY <1>1, <1>3 DEF PassInv, PassType
  <2>2. pass'.next <= pass'.size
    BY <1>1, <1>2, PassInvStep DEF PassInv
  <2> QED
    BY <2>1, <2>2
<1>5. pass.next \in DOMAIN failed /\ LineMessage \in Message /\ LineMessage \in InFile
  BY <1>1, <1>4, LineFacts DEF InFile, LineMessage, Line
<1>6. LineMessage' = LineMessage /\ LineAccount' = LineAccount
  <2>1. ~KeepOnly
    BY <1>2 DEF KeepOnly, EndPass, NoPass
  <2>2. failed'[pass.next] = failed[pass.next]
    BY <1>5, <2>1, FileGrowsOrRewritten DEF FileGrows
  <2> QED
    BY <1>4, <2>2 DEF LineMessage, LineAccount, Line
<1>7. /\ \A m \in Queued \union ToSet(left) : ~Before(m, LineMessage)
      /\ LineAccount \notin pass.heldBack
  <2>1. CASE UNCHANGED pass
    BY <1>2, <2>1 DEF LineOrder
  <2>2. CASE LineAccount \notin pass.heldBack /\ ~circuit.stopped
    <3>1. mode # "leaving" /\ left = <<>>
      BY <1>1, <2>2 DEF ModeInv, LeftInv
    <3>2. ToSet(left) = {}
      BY <3>1 DEF ToSet
    <3> QED
      BY <1>5, <2>2, <3>1, <3>2 DEF FileOrder
  <2> QED
    BY <1>3, <2>1, <2>2
<1>8. ASSUME NEW m \in Queued' \union ToSet(left') PROVE ~Before(m, LineMessage)
  <2>1. m \in Queued \union ToSet(left) \/ m \in Message \ arrived
    BY <1>1, <1>8, QueueMoves, LeftGrowsFromQueues
  <2>2. LineMessage \in arrived
    BY <1>1, <1>5, FileFacts
  <2> QED
    BY <1>7, <2>1, <2>2 DEF ArrivalInv
<1> QED
  BY <1>4, <1>6, <1>7, <1>8

---------------------------------------------------------------------------
\* Who waits for a pass

\* r asks for one more pass, or is past its passes; the others go on.
PassesAgain(r) ==
    /\ recovery'[r].running /\ ~recovery'[r].resuming
    /\ \A q \in Recovery : q # r => recovery'[q] = recovery[q]

PastPasses(r) ==
    /\ ~recovery'[r].running
    /\ \A q \in Recovery : q # r => recovery'[q] = recovery[q]

\* The recover() calls are where they were, with what is news for them.
RecoveriesGoOn ==
    \A r \in Recovery :
        /\ recovery'[r].running = recovery[r].running
        /\ recovery[r].running /\ recovery[r].missed => recovery'[r].missed
        /\ recovery'[r].resuming => recovery[r].resuming

LEMMA NewsKeepsRunning ==
    ASSUME WorldInv, UNCHANGED recovery \/ NewsForRecover
    PROVE  RecoveriesGoOn
<1>1. recovery \in [Recovery -> RecoveryType]
  BY DEF WorldInv
<1> QED
  BY <1>1 DEF NewsForRecover, RecoveryType, RecoveriesGoOn

LEMMA RecoveryChanges ==
    ASSUME WorldInv, NEW r \in Recovery
    PROVE  /\ recovery' = [recovery EXCEPT ![r] = Recovers] => PassesAgain(r)
           /\ \A stored : recovery' = [recovery EXCEPT ![r] = [Recovers EXCEPT !.stored = stored]] => PassesAgain(r)
           /\ recovery' \in {[recovery EXCEPT ![r] = NoRecovery], [recovery EXCEPT ![r] = Resumes]} => PastPasses(r)
<1>1. recovery \in [Recovery -> RecoveryType]
  BY DEF WorldInv
<1>2. Recovers.running /\ ~Recovers.resuming /\ ~NoRecovery.running /\ ~Resumes.running
  BY DEF Recovers, NoRecovery, Resumes
<1>3. \A stored : LET again == [Recovers EXCEPT !.stored = stored] IN again.running /\ ~again.resuming
  BY DEF Recovers, NoRecovery
<1> QED
  BY <1>1, <1>2, <1>3 DEF PassesAgain, PastPasses

LEMMA EndsCalls ==
    ASSUME WorldInv, PassInv, pass.step # "none", NEW outcome, NEW stays, EndPass(outcome, stays)
    PROVE  /\ 1 \in DOMAIN passes /\ Head(passes) = passes[1] /\ Head(passes) \in PassCaller
           /\ \A k \in DOMAIN Tail(passes) :
                  k \in Nat /\ k # 0 /\ k + 1 \in DOMAIN passes /\ Tail(passes)[k] = passes[k + 1]
           /\ \A k \in DOMAIN passes :
                  k = 1 \/ (k - 1 \in DOMAIN Tail(passes) /\ Tail(passes)[k - 1] = passes[k])
           /\ mode' = IF Head(passes) = "startup" /\ mode = "starting" THEN "running" ELSE mode
           /\ \/ /\ Head(passes) \notin Recovery
                 /\ passes' = Tail(passes) /\ UNCHANGED <<recovery, circuit>>
              \/ /\ Head(passes) \in Recovery
                 /\ passes' = Append(Tail(passes), Head(passes))
                 /\ PassesAgain(Head(passes)) /\ UNCHANGED circuit
              \/ /\ Head(passes) \in Recovery
                 /\ passes' = Tail(passes)
                 /\ PastPasses(Head(passes)) /\ circuit' = Finished
                 /\ outcome = "passed" /\ Recovering => ~recovery[Head(passes)].missed
                 /\ Recovering /\ (\E q \in Recovery \ {Head(passes)} : recovery[q].running) => InFile \subseteq late'
<1>1. passes \in Seq(PassCaller) /\ passes # <<>>
  BY DEF PassInv
<1>2. /\ 1 \in DOMAIN passes /\ Head(passes) = passes[1] /\ Head(passes) \in PassCaller
      /\ \A k \in DOMAIN Tail(passes) :
             k \in Nat /\ k # 0 /\ k + 1 \in DOMAIN passes /\ Tail(passes)[k] = passes[k + 1]
      /\ \A k \in DOMAIN passes :
             k = 1 \/ (k - 1 \in DOMAIN Tail(passes) /\ Tail(passes)[k - 1] = passes[k])
  BY <1>1
<1>3. mode' = IF Head(passes) = "startup" /\ mode = "starting" THEN "running" ELSE mode
  BY DEF EndPass
<1>4. CASE Head(passes) \notin Recovery
  BY <1>2, <1>3, <1>4 DEF EndPass
<1>5. CASE Head(passes) \in Recovery
  <2> DEFINE h == Head(passes)
  <2>1. Recover(h, outcome)
    BY <1>5 DEF EndPass
  <2>2. CASE outcome = "passed" /\ Recovering /\ recovery[h].missed
    <3>1. /\ recovery' = [recovery EXCEPT ![h] = [Recovers EXCEPT !.stored = HasStored(h)]]
          /\ passes' = Append(Tail(passes), h) /\ UNCHANGED circuit
      BY <2>1, <2>2 DEF Recover
    <3>2. PassesAgain(h)
      BY <1>5, <3>1, RecoveryChanges
    <3> QED
      BY <1>2, <1>3, <1>5, <3>1, <3>2
  <2>3. CASE ~(outcome = "passed" /\ Recovering /\ recovery[h].missed)
    <3>1. /\ recovery' \in {[recovery EXCEPT ![h] = NoRecovery], [recovery EXCEPT ![h] = Resumes]}
          /\ passes' = Tail(passes) /\ Finish(h)
      BY <2>1, <2>3 DEF Recover, AfterFinish
    <3>2. PastPasses(h)
      BY <1>5, <3>1, RecoveryChanges
    <3>3. /\ circuit' = Finished
          /\ Recovering /\ (\E q \in Recovery \ {h} : recovery[q].running) => InFile \subseteq late'
      BY <3>1 DEF Finish
    <3> QED
      BY <1>2, <1>3, <1>5, <2>3, <3>1, <3>2, <3>3
  <2> QED
    BY <2>2, <2>3
<1> QED
  BY <1>4, <1>5

LEMMA CallsTail ==
    ASSUME WorldInv, PassInv, pass.step # "none", NEW outcome, NEW stays, EndPass(outcome, stays)
    PROVE  /\ \A k \in DOMAIN passes : k = 1 \/ (k - 1 \in DOMAIN passes' /\ passes'[k - 1] = passes[k])
           /\ \A k \in DOMAIN passes' :
                  \/ k \in Nat /\ k # 0 /\ k + 1 \in DOMAIN passes /\ passes'[k] = passes[k + 1]
                  \/ k = Len(passes) /\ passes'[k] = Head(passes) /\ Head(passes) \in Recovery
<1>1. passes \in Seq(PassCaller) /\ passes # <<>>
  BY DEF PassInv
<1>2. CASE passes' = Tail(passes)
  BY <1>1, <1>2
<1>3. CASE passes' = Append(Tail(passes), Head(passes)) /\ Head(passes) \in Recovery
  <2>1. Tail(passes) \in Seq(PassCaller) /\ Len(Tail(passes)) = Len(passes) - 1 /\ Len(passes) \in Nat
    BY <1>1
  <2>2. /\ DOMAIN passes' = DOMAIN Tail(passes) \union {Len(passes)}
        /\ \A k \in DOMAIN Tail(passes) : passes'[k] = Tail(passes)[k]
        /\ passes'[Len(passes)] = Head(passes)
    BY <1>3, <2>1
  <2> QED
    BY <1>1, <1>3, <2>2
<1> QED
  BY <1>2, <1>3, EndsCalls

LEMMA CallJoined ==
    ASSUME PassInv, NEW c, passes' = Append(passes, c)
    PROVE  /\ DOMAIN passes' = DOMAIN passes \union {Len(passes) + 1}
           /\ \A k \in DOMAIN passes : passes'[k] = passes[k] /\ k # Len(passes) + 1
           /\ passes'[Len(passes) + 1] = c
           /\ passes # <<>> => Len(passes) + 1 # 1
           /\ Len(passes) \in Nat
BY DEF PassInv

\* The circuit is as it was, or no longer lets live messages or a recovery through.
CircuitHolds ==
    \/ circuit'.diversion = circuit.diversion /\ circuit'.stopped = circuit.stopped
    \/ circuit'.stopped \/ circuit'.diversion = "down"

\* Another waits for a pass, or what is written off is news for recover().
CallsGrow ==
    /\ \/ UNCHANGED passes
       \/ \E c \in Account \union {"startup", "timer"} :
              /\ passes' = Append(passes, c) /\ ~Calls(c)
              /\ c \in Account => worker'[c].step = "replaying"
    /\ RecoveriesGoOn
    /\ \A a \in Account : Calls(a) => worker'[a].step = "replaying"

LEMMA WorkerCalls ==
    ASSUME WorldInv, QueueInv, TurnInv, PassInv, CallersInv, NEW a \in Account, WorkerStep(a)
    PROVE  CallsGrow
<1> USE DEF world, durable, live, passing
<1>1. passes \in Seq(PassCaller) /\ worker \in [Account -> WorkerType]
  BY DEF PassInv, QueueInv
<1>2. \A b \in Account : Calls(b) => worker[b].step = "replaying"
  BY DEF CallersInv
<1>3. ~Calls(a)
  <2>1. SUFFICES ASSUME Calls(a) PROVE FALSE
    OBVIOUS
  <2>2. Deliver(a)
    BY <1>2, <2>1, OwnTurn DEF WorkerStep, Start, Enriched, Attempt, Answer, FailForGood, Fail
  <2>3. ~Contains(passes, a)
    BY <1>2, <2>1, <2>2 DEF Deliver
  <2> QED
    BY <1>1, <2>1, <2>3 DEF Contains, Calls
<1>4. Step(a, "replaying") => worker'[a].step = "replaying"
  BY <1>1 DEF Step, WorkerType
<1>5. AfterWriteOff(a) => UNCHANGED passes \/ (passes' = Append(passes, a) /\ worker'[a].step = "replaying")
  BY <1>4 DEF AfterWriteOff
<1>6. Refuse(a) => /\ UNCHANGED passes \/ (passes' = Append(passes, a) /\ worker'[a].step = "replaying")
                   /\ UNCHANGED recovery \/ NewsForRecover
  BY <1>5 DEF Refuse
<1>7. /\ UNCHANGED passes \/ (passes' = Append(passes, a) /\ worker'[a].step = "replaying")
      /\ UNCHANGED recovery \/ NewsForRecover
  <2>1. CASE Attempt(a)
    BY <1>6, <2>1 DEF Attempt
  <2>2. CASE FailForGood(a)
    BY <1>6, <2>2 DEF FailForGood
  <2>3. CASE Fail(a)
    BY <1>6, <2>3 DEF Fail, RetryOrOpen
  <2>4. CASE Appended(a)
    BY <1>5, <2>4 DEF Appended
  <2>5. CASE Start(a) \/ (\E e \in Resolution : Enriched(a, e)) \/ Answer(a) \/ Deliver(a)
    BY <2>5 DEF Start, Enriched, Answer, Deliver
  <2> QED
    BY <2>1, <2>2, <2>3, <2>4, <2>5 DEF WorkerStep
<1>8. \A b \in Account : Calls(b) => worker'[b].step = "replaying"
  BY <1>2, <1>3, OwnWorker
<1> QED
  BY <1>3, <1>7, <1>8, NewsKeepsRunning DEF CallsGrow

\* Nothing a pass or its callers go by changes but so.
Quiet == /\ UNCHANGED pass /\ CircuitHolds /\ CallsGrow /\ FileGrows
         /\ UNCHANGED mode \/ StartUp \/ circuit'.stopped

PassMovesOn == BeginPass \/ Read \/ AtLine \/ LineStored \/ LineRefused \/ LineFails \/ ProbeLine
               \/ (LinesDone /\ pass' = [pass EXCEPT !.step = "toKeep"])

RecoveryBegins(r) ==
    /\ UNCHANGED <<pass, worker, turn, failed, mode>>
    /\ circuit'.diversion = "recovering" /\ ~circuit'.stopped
    /\ ~recovery[r].running /\ PassesAgain(r)
    /\ passes' = Append(passes, r)

\* One recover() ends the recovery of another.
RecoveryCut ==
    /\ UNCHANGED <<pass, passes, worker, turn, failed, mode>>
    /\ Recovering /\ circuit'.diversion = "none"
    /\ RecoveriesGoOn
    /\ InFile \subseteq late'

LEMMA Moves ==
    ASSUME PipelineInv, ModeInv, CallersInv, [Next]_vars
    PROVE  \/ Quiet
           \/ /\ PassMovesOn /\ UNCHANGED <<mode, failed, passes, recovery, worker, heldTimer>>
              /\ CircuitHolds
           \/ \E r \in Recovery : RecoveryBegins(r)
           \/ RecoveryCut
           \/ PassStep /\ PassEnds
           \/ Exit \/ Crash
<1> USE DEF world, durable, live, passing
<1>1. WorldInv /\ QueueInv /\ TurnInv /\ PassInv /\ LogInv /\ LeftInv
  BY DEF PipelineInv
<1>2. circuit' = circuit => CircuitHolds
  BY DEF CircuitHolds
<1>3. circuit' = Opened => CircuitHolds
  BY <1>1 DEF CircuitHolds, Opened, WorldInv, CircuitType
<1>4. UNCHANGED <<passes, worker, recovery>> => CallsGrow
  BY <1>1, NewsKeepsRunning DEF CallsGrow, CallersInv
<1>5. UNCHANGED pass => FileGrows
  <2>1. UNCHANGED pass => ~KeepOnly
    BY DEF KeepOnly, FileIsFor, EndPass, NoPass
  <2> QED
    BY <2>1, FileGrowsOrRewritten
<1>6. ASSUME NEW a \in Account, WorkerStep(a) PROVE Quiet
  <2>1. circuit' \in {circuit, Opened}
    BY <1>6 DEF WorkerStep, Start, Enriched, Attempt, Answer, FailForGood, Fail, RetryOrOpen, Appended, Deliver
  <2>2. CircuitHolds
    BY <1>2, <1>3, <2>1
  <2> QED
    BY <1>1, <1>5, <1>6, <2>2, WorkerCalls, WorkerFrame DEF Quiet
<1>7. ASSUME NEW m \in Message, Handle(m) PROVE Quiet
  BY <1>2, <1>4, <1>5, <1>7, HandleFrame DEF Quiet
<1>8. CASE ProbeStep
  <2>1. CASE ProbeFires \/ ProbeFails
    <3>1. circuit'.diversion = circuit.diversion /\ circuit'.stopped = circuit.stopped
      BY <1>1, <2>1 DEF ProbeFires, ProbeFails, WorldInv, CircuitType
    <3> QED
      BY <1>4, <1>5, <2>1, <3>1 DEF ProbeFires, ProbeFails, Quiet, CircuitHolds
  <2>2. CASE ProbeWrites /\ circuit.stopped
    <3>1. circuit'.stopped
      BY <1>1, <2>2 DEF ProbeWrites, WorldInv, CircuitType
    <3> QED
      BY <1>4, <1>5, <2>2, <3>1 DEF ProbeWrites, Quiet, CircuitHolds
  <2>3. CASE ProbeWrites /\ ~circuit.stopped
    <3>1. circuit' = [circuit EXCEPT !.probe = "none", !.diversion = "recovering"]
      BY <2>3 DEF ProbeWrites
    <3>2. circuit'.diversion = "recovering" /\ ~circuit'.stopped
      BY <1>1, <2>3, <3>1 DEF WorldInv, CircuitType
    <3>3. PICK r \in Recovery : /\ recovery[r] = NoRecovery
                               /\ recovery' = [recovery EXCEPT ![r] = Recovers] /\ passes' = Append(passes, r)
      BY <2>3 DEF ProbeWrites
    <3>4. ~recovery[r].running /\ PassesAgain(r)
      <4>1. ~recovery[r].running
        BY <3>3 DEF NoRecovery
      <4>2. recovery' = [recovery EXCEPT ![r] = Recovers] => PassesAgain(r)
        BY <1>1, RecoveryChanges
      <4> QED
        BY <3>3, <4>1, <4>2
    <3>5. UNCHANGED <<pass, worker, turn, failed, mode>>
      BY <2>3 DEF ProbeWrites
    <3> QED
      BY <3>2, <3>3, <3>4, <3>5 DEF RecoveryBegins
  <2> QED
    BY <1>8, <2>1, <2>2, <2>3 DEF ProbeStep
<1>9. CASE RetryHeld
  <2>1. ~Calls("timer")
    BY <1>1, <1>9 DEF RetryHeld, Contains, Calls, PassInv
  <2>2. CallsGrow
    BY <1>1, <1>9, <2>1, NamesAssumption, NewsKeepsRunning DEF RetryHeld, CallsGrow, CallersInv
  <2> QED
    BY <1>2, <1>5, <1>9, <2>2 DEF RetryHeld, Quiet
<1>10. CASE StartUp
  <2>1. passes = <<>> /\ ~Calls("startup")
    BY <1>10 DEF StartUp, ModeInv, Calls
  <2>2. passes' = Append(passes, "startup")
    BY <1>10, <2>1 DEF StartUp
  <2>3. CallsGrow
    BY <1>1, <1>10, <2>1, <2>2, NamesAssumption, NewsKeepsRunning DEF StartUp, CallsGrow, CallersInv
  <2> QED
    BY <1>2, <1>5, <1>10, <2>3 DEF StartUp, Quiet
<1>11. CASE ShutDown
  <2>1. circuit'.stopped
    BY <1>1, <1>11 DEF ShutDown, Stopped, WorldInv, CircuitType
  <2> QED
    BY <1>4, <1>5, <1>11, <2>1 DEF ShutDown, Quiet, CircuitHolds
<1>12. CASE GatherLeft
  <2>1. circuit.stopped
    BY <1>12 DEF GatherLeft, ModeInv
  <2> QED
    BY <1>2, <1>4, <1>5, <1>12, <2>1 DEF GatherLeft, Quiet
<1>13. CASE WriteLeft
  <2>1. CallsGrow
    BY <1>1, <1>13, NewsKeepsRunning DEF WriteLeft, CallsGrow, CallersInv
  <2> QED
    BY <1>2, <1>5, <1>13, <2>1 DEF WriteLeft, Quiet
<1>14. CASE LeftAppended
  BY <1>2, <1>4, <1>5, <1>14 DEF LeftAppended, Quiet
<1>15. CASE StoreFails \/ StoreReturns \/ UNCHANGED vars
  BY <1>2, <1>4, <1>5, <1>15 DEF StoreFails, StoreReturns, vars, Quiet
<1>16. CASE PassStep
  <2>1. UNCHANGED worker
    BY <1>16, PassFrame
  <2>2. CASE BeginPass \/ Read
    BY <1>2, <2>1, <2>2 DEF BeginPass, Read, PassMovesOn
  <2>3. CASE AtLine \/ LineStored \/ LineRefused \/ LineFails \/ ProbeLine
    <3>1. circuit' \in {circuit, Opened}
      BY <2>3 DEF AtLine, SaveLine, LineStored, LineRefused, LineFails, ProbeLine
    <3> QED
      BY <1>1, <1>2, <1>3, <2>1, <2>3, <3>1, LineOutcome DEF PassMovesOn
  <2>4. CASE LinesDone /\ pass' = [pass EXCEPT !.step = "toKeep"]
    <3>1. pass'.step = "toKeep"
      BY <1>1, <2>4 DEF PassInv, PassType
    <3>2. UNCHANGED <<mode, failed, circuit, passes, recovery, heldTimer>>
      BY <2>4, <3>1 DEF LinesDone, EndPass, NoPass
    <3> QED
      BY <1>2, <2>1, <2>4, <3>2 DEF PassMovesOn
  <2>5. CASE UNCHANGED pass /\ ~(BeginPass \/ Read \/ AtLine \/ LineStored \/ LineRefused \/ LineFails \/ ProbeLine)
    <3>1. pass' # NoPass \/ pass = NoPass
      BY <2>5
    <3>2. ~(ReadFails \/ KeepFails \/ KeepOnly)
      BY <2>5 DEF ReadFails, KeepFails, KeepOnly, FileIsFor, EndPass, NoPass
    <3>3. ~LinesDone
      <4>1. pass \in PassType
        BY <1>1 DEF PassInv
      <4>2. LinesDone => pass.step = "line" /\ (pass' = NoPass \/ pass' = [pass EXCEPT !.step = "toKeep"])
        BY DEF LinesDone, EndPass
      <4> QED
        BY <2>5, <4>1, <4>2 DEF NoPass, PassType
    <3> QED
      BY <1>16, <2>5, <3>2, <3>3 DEF PassStep, AtLine
  <2> QED
    BY <1>1, <1>16, <2>2, <2>3, <2>4, <2>5, PassSteps
<1>17. ASSUME NEW r \in Recovery, Resumed(r) PROVE Quiet \/ RecoveryCut
  <2>1. UNCHANGED <<pass, passes, worker, turn, failed, mode>>
    BY <1>17 DEF Resumed
  <2>2. recovery[r].resuming /\ ~recovery[r].running /\ recovery' = [recovery EXCEPT ![r] = NoRecovery]
    BY <1>17 DEF Resumed, CallersInv
  <2>3. RecoveriesGoOn
    BY <1>1, <2>2 DEF RecoveriesGoOn, NoRecovery, WorldInv, RecoveryType
  <2>4. CASE UNCHANGED circuit
    <3>1. CallsGrow
      BY <2>1, <2>3 DEF CallsGrow, CallersInv
    <3> QED
      BY <1>2, <1>5, <2>1, <2>4, <3>1 DEF Quiet
  <2>5. CASE circuit' # circuit
    <3>1. Finish(r)
      BY <1>17, <2>5 DEF Resumed
    <3>2. Recovering /\ circuit'.diversion = "none"
      BY <1>1, <2>5, <3>1 DEF Finish, Finished, WorldInv, CircuitType
    <3>3. \E q \in Recovery \ {r} : recovery[q].running
      BY <2>2, <3>2 DEF CallersInv
    <3> QED
      BY <2>1, <2>3, <3>1, <3>2, <3>3 DEF Finish, RecoveryCut
  <2> QED
    BY <2>4, <2>5
<1> QED
  BY <1>6, <1>7, <1>8, <1>9, <1>10, <1>11, <1>12, <1>13, <1>14, <1>15, <1>16, <1>17 DEF Next, DrainStep

\* More wait, those who did still do.
LEMMA CallersGrow ==
    ASSUME WorldInv, PassInv, CallersInv, CallsGrow, Recovering' => Recovering
    PROVE  CallersInv'
<1>1. ASSUME NEW c \in Account \union {"startup", "timer"}, passes' = Append(passes, c), ~Calls(c)
      PROVE  /\ \A i, j \in DOMAIN passes' : passes'[i] = passes'[j] => i = j
             /\ \A d : Calls(d)' => Calls(d) \/ d = c
             /\ \A d : Calls(d) => Calls(d)'
             /\ c \notin Recovery
  <2>1. /\ DOMAIN passes' = DOMAIN passes \union {Len(passes) + 1}
        /\ \A k \in DOMAIN passes : passes'[k] = passes[k]
        /\ passes'[Len(passes) + 1] = c
    BY <1>1, CallJoined
  <2> QED
    BY <1>1, <2>1, NamesAssumption DEF CallersInv, Calls
<1>2. CASE UNCHANGED passes
  BY <1>2 DEF CallsGrow, RecoveriesGoOn, CallersInv, Calls
<1>3. ASSUME NEW c \in Account \union {"startup", "timer"}, passes' = Append(passes, c), ~Calls(c),
             c \in Account => worker'[c].step = "replaying"
      PROVE  CallersInv'
  <2>1. \A i, j \in DOMAIN passes' : passes'[i] = passes'[j] => i = j
    BY <1>1, <1>3
  <2>2. \A r \in Recovery : Calls(r)' <=> Calls(r)
    BY <1>1, <1>3
  <2>3. \A r \in Recovery : recovery'[r].running = recovery[r].running /\ (recovery'[r].resuming => recovery[r].resuming)
    BY DEF CallsGrow, RecoveriesGoOn
  <2>4. \A a \in Account : Calls(a)' => worker'[a].step = "replaying"
    BY <1>1, <1>3 DEF CallsGrow
  <2>5. Recovering' => \E r \in Recovery : recovery'[r].running
    BY <2>3 DEF CallersInv
  <2> QED
    BY <2>1, <2>2, <2>3, <2>4, <2>5 DEF CallersInv
<1> QED
  BY <1>2, <1>3 DEF CallsGrow

LEMMA CallersInvStep ==
    ASSUME PipelineInv, ModeInv, CallersInv, [Next]_vars
    PROVE  CallersInv'
<1>1. WorldInv /\ PassInv
  BY DEF PipelineInv
<1>2. CircuitHolds => (Recovering' => Recovering)
  BY DEF CircuitHolds, Recovering
<1>3. CASE Quiet
  BY <1>1, <1>2, <1>3, CallersGrow DEF Quiet
<1>4. CASE CircuitHolds /\ UNCHANGED <<passes, recovery, worker>>
  <2>1. CallsGrow
    BY <1>1, <1>4, NewsKeepsRunning DEF CallsGrow, CallersInv
  <2> QED
    BY <1>1, <1>2, <1>4, <2>1, CallersGrow
<1>5. ASSUME NEW r \in Recovery, RecoveryBegins(r) PROVE CallersInv'
  <2>1. ~Calls(r) /\ passes' = Append(passes, r) /\ UNCHANGED worker
    BY <1>5 DEF RecoveryBegins, CallersInv
  <2>2. /\ DOMAIN passes' = DOMAIN passes \union {Len(passes) + 1}
        /\ \A k \in DOMAIN passes : passes'[k] = passes[k]
        /\ passes'[Len(passes) + 1] = r
    BY <1>1, <2>1, CallJoined
  <2>3. \A i, j \in DOMAIN passes' : passes'[i] = passes'[j] => i = j
    BY <2>1, <2>2 DEF CallersInv, Calls
  <2>4. \A c : Calls(c)' <=> Calls(c) \/ c = r
    BY <2>2 DEF Calls
  <2>5. /\ recovery'[r].running /\ ~recovery'[r].resuming
        /\ \A q \in Recovery : q # r => recovery'[q] = recovery[q]
    BY <1>5 DEF RecoveryBegins, PassesAgain
  <2>6. \A q \in Recovery : recovery'[q].running <=> Calls(q)'
    BY <2>4, <2>5 DEF CallersInv
  <2>7. \A a \in Account : Calls(a)' => worker'[a].step = "replaying"
    BY <2>1, <2>4, NamesAssumption DEF CallersInv
  <2> QED
    BY <2>3, <2>5, <2>6, <2>7 DEF CallersInv
<1>6. CASE PassStep /\ PassEnds
  <2>1. PICK outcome \in {"passed", "failed"}, stays \in BOOLEAN : EndPass(outcome, stays) /\ pass.step # "none"
    BY <1>6 DEF PassEnds
  <2>2. UNCHANGED worker
    BY <1>6, PassFrame DEF live
  <2>3. PICK h \in PassCaller : 1 \in DOMAIN passes /\ h = passes[1] /\ h = Head(passes)
    BY <1>1, <2>1, EndsCalls
  <2>4. /\ \A k \in DOMAIN passes : k = 1 \/ (k - 1 \in DOMAIN passes' /\ passes'[k - 1] = passes[k])
        /\ \A k \in DOMAIN passes' :
               \/ k \in Nat /\ k # 0 /\ k + 1 \in DOMAIN passes /\ passes'[k] = passes[k + 1]
               \/ k = Len(passes) /\ passes'[k] = h
    BY <1>1, <2>1, <2>3, CallsTail
  <2>5. \A i, j \in DOMAIN passes : passes[i] = passes[j] => i = j
    BY DEF CallersInv
  <2>6. ASSUME NEW i \in DOMAIN passes', NEW j \in DOMAIN passes', passes'[i] = passes'[j] PROVE i = j
    <3>1. CASE i \in Nat /\ i # 0 /\ i + 1 \in DOMAIN passes /\ passes'[i] = passes[i + 1]
      <4>1. CASE j \in Nat /\ j # 0 /\ j + 1 \in DOMAIN passes /\ passes'[j] = passes[j + 1]
        <5>1. i + 1 = j + 1
          BY <2>5, <2>6, <3>1, <4>1
        <5> QED
          BY <3>1, <4>1, <5>1
      <4>2. CASE passes'[j] = h
        <5>1. i + 1 = 1
          BY <2>3, <2>5, <2>6, <3>1, <4>2
        <5> QED
          BY <3>1, <5>1
      <4> QED
        BY <2>4, <4>1, <4>2
    <3>2. CASE i = Len(passes) /\ passes'[i] = h
      <4>1. CASE j \in Nat /\ j # 0 /\ j + 1 \in DOMAIN passes /\ passes'[j] = passes[j + 1]
        <5>1. j + 1 = 1
          BY <2>3, <2>5, <2>6, <3>2, <4>1
        <5> QED
          BY <4>1, <5>1
      <4> QED
        BY <2>4, <3>2, <4>1
    <3> QED
      BY <2>4, <3>1, <3>2
  <2>7. \A c : c # h => (Calls(c)' <=> Calls(c))
    BY <2>3, <2>4 DEF Calls
  <2>8. passes' = Tail(passes) => ~Calls(h)'
    <3>1. SUFFICES ASSUME passes' = Tail(passes), NEW k \in DOMAIN passes', passes'[k] = h PROVE FALSE
      BY DEF Calls
    <3>2. k \in Nat /\ k # 0 /\ k + 1 \in DOMAIN passes /\ passes'[k] = passes[k + 1]
      BY <1>1, <2>1, <3>1, EndsCalls
    <3>3. k + 1 = 1
      BY <2>3, <2>5, <3>1, <3>2
    <3> QED
      BY <3>2, <3>3
  <2>9. passes' = Append(Tail(passes), h) => Calls(h)'
    <3>1. Tail(passes) \in Seq(PassCaller) /\ h \in PassCaller
      BY <1>1, <2>3 DEF PassInv
    <3>2. passes' = Append(Tail(passes), h) =>
              Len(Tail(passes)) + 1 \in DOMAIN passes' /\ passes'[Len(Tail(passes)) + 1] = h
      BY <3>1
    <3> QED
      BY <3>2 DEF Calls
  <2>10. \A a \in Account : Calls(a)' => worker'[a].step = "replaying"
    <3>1. ASSUME NEW a \in Account, Calls(a)' PROVE Calls(a)
      <4>1. a = h => Calls(a)
        BY <2>3 DEF Calls
      <4> QED
        BY <2>7, <3>1, <4>1
    <3> QED
      BY <2>2, <3>1 DEF CallersInv
  <2>11. /\ \A r \in Recovery : recovery'[r].running <=> Calls(r)'
         /\ \A r \in Recovery : recovery'[r].resuming => ~recovery'[r].running
         /\ Recovering' => \E r \in Recovery : recovery'[r].running
    <3>1. CASE h \notin Recovery /\ UNCHANGED <<recovery, circuit>>
      BY <2>7, <3>1 DEF CallersInv, Recovering
    <3>2. CASE h \in Recovery /\ passes' = Append(Tail(passes), h) /\ PassesAgain(h)
      BY <2>7, <2>9, <3>2 DEF CallersInv, PassesAgain
    <3>3. CASE h \in Recovery /\ passes' = Tail(passes) /\ PastPasses(h) /\ circuit' = Finished
      <4>1. ~Recovering'
        BY <1>1, <3>3 DEF Finished, Recovering, WorldInv, CircuitType
      <4> QED
        BY <2>7, <2>8, <3>3, <4>1 DEF CallersInv, PastPasses
    <3> QED
      BY <1>1, <2>1, <2>3, <3>1, <3>2, <3>3, EndsCalls
  <2> QED
    BY <2>6, <2>10, <2>11 DEF CallersInv
<1>7. CASE Exit \/ Crash
  <2>1. passes' = <<>> /\ recovery' = [r \in Recovery |-> NoRecovery] /\ circuit' = Closed
    BY <1>7 DEF Exit, Crash, Forget
  <2>2. DOMAIN passes' = {} /\ ~Recovering' /\ \A r \in Recovery : ~recovery'[r].running
    BY <2>1 DEF Closed, Recovering, NoRecovery
  <2> QED
    BY <2>2 DEF CallersInv, Calls
<1>8. CASE RecoveryCut
  <2>1. ~Recovering'
    BY <1>8 DEF RecoveryCut, Recovering
  <2> QED
    BY <1>8, <2>1 DEF RecoveryCut, RecoveriesGoOn, CallersInv, Calls
<1> QED
  BY <1>3, <1>4, <1>5, <1>6, <1>7, <1>8, Moves

\* What a pass has of an account stays passed while the file grows behind it.
LEMMA AllPassedStays ==
    ASSUME QueueInv, LogInv, PassInv, [Next]_vars, NEW a, AllPassed(a), UNCHANGED pass.size,
           \A i \in DOMAIN failed : failed'[i] = failed[i]
    PROVE  AllPassed(a)'
<1>1. \A m \in Message : Passed(m) => Passed(m)'
  BY PassedStays
<1>2. SUFFICES ASSUME NEW i \in 1 .. pass.size, AccountOf[FileMessage(i)'] = a PROVE Passed(FileMessage(i))'
  BY DEF AllPassed
<1>3. i \in DOMAIN failed /\ failed[i] \in EntryType
  BY DEF PassInv, PassType
<1>4. PICK m \in Message : m = failed[i].message
  BY <1>3 DEF EntryType
<1>5. FileMessage(i)' = m /\ FileMessage(i) = m
  BY <1>3, <1>4 DEF FileMessage
<1>6. Passed(m)'
  BY <1>1, <1>2, <1>4, <1>5 DEF AllPassed
<1> QED
  BY <1>5, <1>6 DEF FileMessage, Passed, Row, Storable

LEMMA HeldBackInvStep ==
    ASSUME PipelineInv, ModeInv, KeptInv, CallersInv, HeldBackInv, [Next]_vars
    PROVE  HeldBackInv'
<1>1. WorldInv /\ LogInv /\ PassInv /\ QueueInv
  BY DEF PipelineInv
<1>2. ASSUME NEW a \in pass.heldBack \ pass.waiting, CircuitHolds, UNCHANGED pass.size,
             \A i \in DOMAIN failed : failed'[i] = failed[i],
             \A k \in DOMAIN passes : k \in DOMAIN passes' /\ passes'[k] = passes[k]
      PROVE  \/ circuit'.stopped \/ circuit'.diversion = "down"
             \/ circuit'.diversion = "recovering" /\ \E r \in Recovery, k \in DOMAIN passes' : k # 1 /\ passes'[k] = r
             \/ AllPassed(a)'
  BY <1>1, <1>2, AllPassedStays DEF HeldBackInv, CircuitHolds
<1>3. NoPass.heldBack = {}
  BY DEF NoPass
<1>4. CASE Quiet
  <2>1. \A k \in DOMAIN passes : k \in DOMAIN passes' /\ passes'[k] = passes[k]
    BY <1>1, <1>4, CallJoined DEF Quiet, CallsGrow
  <2> QED
    BY <1>2, <1>4, <2>1 DEF Quiet, FileGrows, HeldBackInv
<1>5. CASE PassMovesOn /\ UNCHANGED <<passes, failed>> /\ CircuitHolds
  <2>1. CASE BeginPass
    BY <2>1 DEF BeginPass, NoPass, HeldBackInv
  <2>3. ASSUME NEW s, pass' = [pass EXCEPT !.step = s] PROVE HeldBackInv'
    <3>1. pass'.heldBack = pass.heldBack /\ pass'.waiting = pass.waiting /\ pass'.size = pass.size
      BY <1>1, <2>3 DEF PassInv, PassType
    <3> QED
      BY <1>2, <1>5, <3>1 DEF HeldBackInv
  <2>4. CASE LineStays /\ LineDone
    <3>1. \/ circuit'.stopped \/ circuit'.diversion = "down"
          \/ pass'.heldBack \ pass'.waiting \subseteq pass.heldBack \ pass.waiting
      BY <2>4 DEF LineStays, LineDone
    <3>2. CASE circuit'.stopped \/ circuit'.diversion = "down"
      BY <3>2 DEF HeldBackInv
    <3>3. CASE pass'.heldBack \ pass'.waiting \subseteq pass.heldBack \ pass.waiting /\ UNCHANGED pass.size
      BY <1>2, <1>5, <3>3 DEF HeldBackInv
    <3> QED
      BY <2>4, <3>1, <3>2, <3>3 DEF LineStays
  <2>5. CASE Read
    <3>1. pass.heldBack = {} /\ pass'.heldBack = pass.heldBack
      BY <1>1, <2>5 DEF Read, FileIsFor, KeptInv, NoPass, PassInv, PassType
    <3> QED
      BY <3>1 DEF HeldBackInv
  <2> QED
    BY <1>1, <1>5, <2>1, <2>3, <2>4, <2>5, LineOutcome DEF PassMovesOn
<1>6. ASSUME NEW r \in Recovery, RecoveryBegins(r) PROVE HeldBackInv'
  <2>1. pass' = pass /\ passes' = Append(passes, r) /\ circuit'.diversion = "recovering"
    BY <1>6 DEF RecoveryBegins
  <2>2. CASE passes = <<>>
    <3>1. pass.step = "none"
      BY <1>1, <2>2 DEF PassInv
    <3>2. pass.heldBack = {}
      BY <3>1 DEF KeptInv, NoPass
    <3> QED
      BY <2>1, <3>2 DEF HeldBackInv
  <2>3. CASE passes # <<>>
    <3>1. Len(passes) + 1 \in DOMAIN passes' /\ passes'[Len(passes) + 1] = r /\ Len(passes) + 1 # 1
      BY <1>1, <2>1, <2>3, CallJoined
    <3> QED
      BY <2>1, <3>1 DEF HeldBackInv
  <2> QED
    BY <2>2, <2>3
<1>7. CASE pass' = NoPass
  BY <1>3, <1>7 DEF HeldBackInv
<1>8. CASE RecoveryCut
  <2>1. \A i \in 1 .. pass.size : failed[i].message \in InFile
    BY <1>1 DEF PassInv, PassType, InFile
  <2>2. UNCHANGED <<pass, failed>> /\ InFile \subseteq late'
    BY <1>8 DEF RecoveryCut
  <2>3. \A a \in pass.heldBack : AllPassed(a)'
    BY <2>1, <2>2 DEF AllPassed, FileMessage, Passed
  <2> QED
    BY <2>2, <2>3 DEF HeldBackInv
<1>9. (PassStep /\ PassEnds) \/ Exit \/ Crash => pass' = NoPass
  BY DEF PassEnds, Exit, Crash, Forget
<1> QED
  BY <1>4, <1>5, <1>6, <1>7, <1>8, <1>9, Moves

\* A worker that waits keeps its place ahead of the pass.
LEMMA AheadStays ==
    ASSUME QueueInv, TurnInv, [Next]_vars, NEW a \in Account, worker'[a].step = "writingOff", AheadOfPass(a)
    PROVE  AheadOfPass(a)'
<1>1. PICK i \in DOMAIN turn, j \in DOMAIN turn : i < j /\ turn[i].by = a /\ turn[j].by = "pass"
  BY DEF AheadOfPass
<1>2. CASE UNCHANGED turn
  BY <1>1, <1>2 DEF AheadOfPass
<1>3. CASE turn # <<>> /\ turn' = Tail(turn) /\ Head(turn).by # a
  <2>1. i # 1 /\ i \in Nat /\ j \in Nat
    BY <1>1, <1>3, TurnTail
  <2>2. j # 1
    BY <1>1, <1>3, <2>1, TurnTail
  <2>3. /\ i - 1 \in DOMAIN turn' /\ turn'[i - 1] = turn[i]
        /\ j - 1 \in DOMAIN turn' /\ turn'[j - 1] = turn[j]
    BY <1>3, <2>1, <2>2, TurnTail
  <2>4. i - 1 < j - 1
    BY <1>1, <2>1
  <2> QED
    BY <1>1, <2>3, <2>4 DEF AheadOfPass
<1>4. ASSUME NEW u, NEW lid, turn' = Append(turn, Turn(u, lid)) PROVE AheadOfPass(a)'
  BY <1>1, <1>4, TurnAppended DEF AheadOfPass
<1>5. ~(Exit \/ Crash)
  BY ForgetFacts DEF Exit, Crash
<1> QED
  BY <1>2, <1>3, <1>4, <1>5, TurnMoves

LEMMA WritesInvStep ==
    ASSUME PipelineInv, ModeInv, TurnOrder, CallersInv, WritesInv, [Next]_vars
    PROVE  WritesInv'
<1>1. WorldInv /\ QueueInv /\ TurnInv /\ LogInv /\ PassInv
  BY DEF PipelineInv
<1>2. CallersInv'
  BY CallersInvStep
<1>3. SUFFICES ASSUME Recovering', NEW a \in Account, worker'[a].step = "writingOff"
               PROVE  \/ GoesAgain'
                      \/ \E r \in Recovery, k \in DOMAIN passes' :
                            /\ passes'[k] = r
                            /\ k # 1 \/ pass'.step = "none" \/ (pass'.step = "toRead" /\ AheadOfPass(a)')
  BY DEF WritesInv, AheadOfPass
<1>4. PICK q \in Recovery : recovery'[q].running
  BY <1>2, <1>3 DEF CallersInv
<1>5. circuit'.diversion = "recovering" /\ ~circuit'.stopped
  BY <1>3 DEF Recovering
<1>6. CASE worker[a].step # "writingOff"
  <2>1. NewsForRecover
    BY <1>1, <1>3, <1>6, NewWriteOff
  <2>2. recovery'[q].missed
    BY <1>1, <1>4, <2>1 DEF NewsForRecover, WorldInv, RecoveryType
  <2> QED
    BY <1>4, <1>5, <2>2 DEF GoesAgain
<1>7. CASE worker[a].step = "writingOff" /\ CircuitHolds
           /\ RecoveriesGoOn
           /\ \A k \in DOMAIN passes : k \in DOMAIN passes' /\ passes'[k] = passes[k]
           /\ (UNCHANGED pass \/ (PassMovesOn /\ UNCHANGED <<passes, worker>>))
  <2>1. Recovering
    BY <1>5, <1>7 DEF CircuitHolds, Recovering
  <2>2. GoesAgain => GoesAgain'
    BY <1>5, <1>7 DEF GoesAgain, RecoveriesGoOn
  <2>3. ASSUME NEW r \in Recovery, NEW k \in DOMAIN passes, passes[k] = r,
               k # 1 \/ pass.step = "none" \/ (pass.step = "toRead" /\ AheadOfPass(a))
        PROVE  k # 1 \/ pass'.step = "none" \/ (pass'.step = "toRead" /\ AheadOfPass(a)')
    <3>1. CASE UNCHANGED pass
      BY <1>1, <1>3, <2>3, <3>1, AheadStays
    <3>2. CASE BeginPass
      <4>1. pass'.step = "toRead" /\ turn' = Append(turn, Turn("pass", FALSE))
        BY <3>2 DEF BeginPass, NoPass
      <4>2. PICK i \in DOMAIN turn : turn[i].by = a
        BY <1>7 DEF TurnOrder, Waiting
      <4>3. /\ i \in DOMAIN turn' /\ turn'[i] = turn[i] /\ i < Len(turn) + 1
            /\ Len(turn) + 1 \in DOMAIN turn' /\ turn'[Len(turn) + 1].by = "pass"
        BY <1>1, <4>1, TurnAppended
      <4> QED
        BY <4>1, <4>2, <4>3 DEF AheadOfPass
    <3>3. CASE Read
      <4>1. pass.step = "toRead" /\ turn # <<>> /\ Head(turn).by = "pass"
        BY <3>3 DEF Read, FileIsFor
      <4>2. ~AheadOfPass(a)
        <5>1. SUFFICES ASSUME NEW i \in DOMAIN turn, NEW j \in DOMAIN turn, i < j, turn[j].by = "pass" PROVE FALSE
          BY DEF AheadOfPass
        <5>2. 1 \in DOMAIN turn /\ turn[1].by = "pass"
          BY <1>1, <4>1, TurnTail
        <5>3. j = 1
          BY <1>1, <5>1, <5>2 DEF TurnInv
        <5>4. \A n \in DOMAIN turn : n \in Nat /\ (n = 1 \/ 1 < n)
          BY <1>1, <4>1, TurnTail
        <5> QED
          BY <5>1, <5>3, <5>4
      <4> QED
        BY <2>3, <4>1, <4>2
    <3>4. CASE PassMovesOn /\ ~BeginPass /\ ~Read
      <4>1. pass.step \notin {"none", "toRead"}
        BY <1>1, <3>4, LineOutcome DEF PassMovesOn, LinesDone
      <4> QED
        BY <2>3, <4>1
    <3> QED
      BY <1>7, <3>1, <3>2, <3>3, <3>4
  <2>4. GoesAgain \/ \E r \in Recovery, k \in DOMAIN passes :
            /\ passes[k] = r
            /\ k # 1 \/ pass.step = "none" \/ (pass.step = "toRead" /\ AheadOfPass(a))
    BY <1>7, <2>1 DEF WritesInv
  <2>5. CASE GoesAgain
    BY <2>2, <2>5
  <2>6. ASSUME NEW r \in Recovery, NEW k \in DOMAIN passes, passes[k] = r,
               k # 1 \/ pass.step = "none" \/ (pass.step = "toRead" /\ AheadOfPass(a))
        PROVE  \E r1 \in Recovery, k1 \in DOMAIN passes' :
                   /\ passes'[k1] = r1
                   /\ k1 # 1 \/ pass'.step = "none" \/ (pass'.step = "toRead" /\ AheadOfPass(a)')
    <3>1. k \in DOMAIN passes' /\ passes'[k] = r
      BY <1>7, <2>6
    <3>2. k # 1 \/ pass'.step = "none" \/ (pass'.step = "toRead" /\ AheadOfPass(a)')
      BY <2>3, <2>6
    <3> QED
      BY <3>1, <3>2
  <2> QED
    BY <2>4, <2>5, <2>6
<1>8. CASE Quiet
  <2>1. \A k \in DOMAIN passes : k \in DOMAIN passes' /\ passes'[k] = passes[k]
    BY <1>1, <1>8, CallJoined DEF Quiet, CallsGrow
  <2> QED
    BY <1>6, <1>7, <1>8, <2>1 DEF Quiet, CallsGrow
<1>9. CASE PassMovesOn /\ UNCHANGED <<passes, recovery, worker>> /\ CircuitHolds
  BY <1>1, <1>6, <1>7, <1>9, NewsKeepsRunning
<1>10. ASSUME pass'.step = "none" PROVE \E k \in DOMAIN passes' : passes'[k] = q /\ pass'.step = "none"
  BY <1>2, <1>4, <1>10 DEF CallersInv, Calls
<1>11. ASSUME NEW r \in Recovery, RecoveryBegins(r)
       PROVE  \E k \in DOMAIN passes' : passes'[k] = r /\ (k # 1 \/ pass'.step = "none")
  <2>1. Len(passes) + 1 \in DOMAIN passes' /\ passes'[Len(passes) + 1] = r
        /\ (passes # <<>> => Len(passes) + 1 # 1)
    BY <1>1, <1>11, CallJoined DEF RecoveryBegins
  <2>2. passes = <<>> => pass.step = "none"
    BY <1>1 DEF PassInv
  <2> QED
    BY <1>11, <2>1, <2>2 DEF RecoveryBegins
<1>12. CASE PassStep /\ PassEnds
  <2>1. pass'.step = "none"
    BY <1>12 DEF PassEnds, NoPass
  <2> QED
    BY <1>10, <2>1
<1>13. ~(Exit \/ Crash)
  BY <1>3, ForgetFacts DEF Exit, Crash
<1>14. ~RecoveryCut
  BY <1>5 DEF RecoveryCut
<1> QED
  BY <1>8, <1>9, <1>11, <1>12, <1>13, <1>14, Moves


---------------------------------------------------------------------------
\* A pass is coming for what waits

\* What CoverInv says of m, the i-th in the file.
Covered(m, i) ==
    \/ Passed(m)
    \/ GoesAgain
    \/ \E c \in PassCaller : Comes(c, AccountOf[m]) /\ WillSee(c, i)

\* While nobody stops waiting and the circuit is as it was, an entry stays covered if its
\* pass stays to come, or it is passed.
LEMMA CoverStays ==
    ASSUME WorldInv, QueueInv, LogInv, PassInv, [Next]_vars,
           UNCHANGED mode, circuit'.diversion = circuit.diversion,
           RecoveriesGoOn,
           \A k \in DOMAIN passes : k \in DOMAIN passes' /\ passes'[k] = passes[k],
           NEW m \in Message, NEW i,
           \/ Passed(m)'
           \/ \E r \in Recovery : circuit.diversion = "recovering" /\ \E k \in DOMAIN passes : k # 1 /\ passes[k] = r
           \/ pass.step \in {"none", "toRead"} \/ i \in pass.next .. pass.size =>
                  pass'.step \in {"none", "toRead"} \/ i \in pass'.next .. pass'.size,
           Covered(m, i)
    PROVE  Covered(m, i)'
<1>1. CASE Passed(m) \/ Passed(m)'
  BY <1>1, PassedStays DEF Covered
<1>2. CASE GoesAgain
  <2>1. GoesAgain'
    BY <1>2 DEF GoesAgain, RecoveriesGoOn
  <2> QED
    BY <2>1 DEF Covered
<1>3. ASSUME NEW c \in PassCaller, Comes(c, AccountOf[m]), NEW k \in DOMAIN passes, passes[k] = c,
             k # 1 \/ pass'.step \in {"none", "toRead"} \/ i \in pass'.next .. pass'.size
      PROVE  Covered(m, i)'
  <2>1. Comes(c, AccountOf[m])'
    BY <1>3 DEF Comes
  <2>2. WillSee(c, i)'
    BY <1>3 DEF WillSee
  <2> QED
    BY <2>1, <2>2 DEF Covered
<1>4. ASSUME NEW r \in Recovery, circuit.diversion = "recovering", NEW k \in DOMAIN passes, k # 1, passes[k] = r
      PROVE  Covered(m, i)'
  <2>1. r \in PassCaller /\ Comes(r, AccountOf[m])
    BY <1>4 DEF PassCaller, Comes
  <2> QED
    BY <1>3, <1>4, <2>1
<1> QED
  BY <1>1, <1>2, <1>3, <1>4 DEF Covered, WillSee

\* One that joins the line for a pass will be handed the whole file.
LEMMA JoinerSees ==
    ASSUME PassInv, UNCHANGED pass, NEW c, passes' = Append(passes, c), NEW i
    PROVE  WillSee(c, i)'
<1>1. Len(passes) + 1 \in DOMAIN passes' /\ passes'[Len(passes) + 1] = c
      /\ (passes # <<>> => Len(passes) + 1 # 1)
  BY CallJoined
<1>2. passes = <<>> => pass.step = "none"
  BY DEF PassInv
<1> QED
  BY <1>1, <1>2 DEF WillSee

\* What a worker appends with the circuit closed, or while a recovery runs, is covered.
LEMMA AppendedCovered ==
    ASSUME PassInv, WritesInv, NEW a \in Account, Appended(a), worker[a].step = "writingOff", ~circuit.stopped,
           circuit.diversion # "down", circuit \in CircuitType, NEW m \in Message, AccountOf[m] = a, NEW i
    PROVE  Covered(m, i)'
<1>1. UNCHANGED <<pass, circuit, recovery, mode>> /\ AfterWriteOff(a)
  BY DEF Appended
<1>2. CASE circuit.diversion = "none"
  <2>1. passes' = Append(passes, a)
    BY <1>1, <1>2 DEF AfterWriteOff, TakingDirectly
  <2>2. WillSee(a, i)' /\ Comes(a, AccountOf[m])'
    BY <1>1, <1>2, <2>1, JoinerSees DEF Comes
  <2> QED
    BY <2>2 DEF Covered, PassCaller
<1>3. CASE circuit.diversion = "recovering"
  <2>1. UNCHANGED passes /\ Recovering
    BY <1>1, <1>3 DEF AfterWriteOff, TakingDirectly, Recovering
  <2>2. CASE GoesAgain
    BY <1>1, <2>2 DEF Covered, GoesAgain
  <2>3. ASSUME NEW r \in Recovery, NEW k \in DOMAIN passes, passes[k] = r,
               k # 1 \/ pass.step \in {"none", "toRead"}
        PROVE  Covered(m, i)'
    <3>1. WillSee(r, i)' /\ Comes(r, AccountOf[m])' /\ r \in PassCaller
      BY <1>1, <1>3, <2>1, <2>3 DEF WillSee, Comes, PassCaller
    <3> QED
      BY <3>1 DEF Covered
  <2> QED
    BY <2>1, <2>2, <2>3 DEF WritesInv
<1> QED
  BY <1>2, <1>3 DEF CircuitType, Diversion

\* The end of a pass leaves covered what it did not see.
LEMMA CoverAtEnd ==
    ASSUME PipelineInv, ModeInv, KeptInv, FileOrder, CallersInv, CoverInv, [Next]_vars,
           PassStep, PassEnds, ~circuit'.stopped, circuit'.diversion # "down",
           NEW i \in DOMAIN failed', NEW m \in Message, m = failed'[i].message
    PROVE  Covered(m, i)'
<1>1. WorldInv /\ QueueInv /\ LogInv /\ PassInv /\ ArrivedInv
  BY DEF PipelineInv
<1>2. PICK outcome \in {"passed", "failed"}, stays \in BOOLEAN :
          /\ EndPass(outcome, stays) /\ pass.step # "none" /\ pass' = NoPass
          /\ \/ outcome = "failed" /\ InFile \subseteq held' /\ UNCHANGED failed
             \/ outcome = "passed" /\ pass.step \in {"line", "toKeep"} /\ pass.next > pass.size
                /\ (KeepOnly \/ UNCHANGED failed)
  BY DEF PassEnds
<1>3. CASE InFile \subseteq held' /\ UNCHANGED failed
  BY <1>3 DEF Covered, Passed, InFile
<1>4. CASE outcome = "passed" /\ pass.step \in {"line", "toKeep"} /\ pass.next > pass.size
           /\ (KeepOnly \/ UNCHANGED failed)
  <2>1. PICK h \in PassCaller : 1 \in DOMAIN passes /\ h = passes[1] /\ h = Head(passes)
    BY <1>1, <1>2, EndsCalls
  <2>2. \/ /\ h \notin Recovery
           /\ passes' = Tail(passes) /\ UNCHANGED <<recovery, circuit>>
        \/ /\ h \in Recovery
           /\ passes' = Append(Tail(passes), h)
           /\ PassesAgain(h) /\ UNCHANGED circuit
        \/ /\ h \in Recovery
           /\ passes' = Tail(passes) /\ circuit' = Finished
           /\ Recovering => ~recovery[h].missed
           /\ Recovering /\ (\E q \in Recovery \ {h} : recovery[q].running) => InFile \subseteq late'
    BY <1>1, <1>2, <1>4, <2>1, EndsCalls
  <2>3. mode' = IF h = "startup" /\ mode = "starting" THEN "running" ELSE mode
    BY <1>1, <1>2, <2>1, EndsCalls
  <2>4. \A k \in DOMAIN passes : k = 1 \/ (k - 1 \in DOMAIN passes' /\ passes'[k - 1] = passes[k])
    BY <1>1, <1>2, CallsTail
  <2>5. pass'.step = "none"
    BY <1>2 DEF NoPass
  <2>6. ASSUME NEW c \in PassCaller, Comes(c, AccountOf[m])', NEW k \in DOMAIN passes', passes'[k] = c
        PROVE  Covered(m, i)'
    <3>1. WillSee(c, i)'
      BY <2>5, <2>6 DEF WillSee
    <3> QED
      BY <2>6, <3>1 DEF Covered
  <2>7. circuit \in CircuitType /\ ~circuit.stopped /\ circuit.diversion # "down" /\ mode # "off"
    <3>1. circuit \in CircuitType
      BY <1>1 DEF WorldInv
    <3>2. circuit' = Finished => ~circuit.stopped /\ circuit.diversion # "down"
      BY <3>1 DEF Finished, Recovering, CircuitType
    <3>3. ~circuit.stopped /\ circuit.diversion # "down"
      BY <2>2, <3>2
    <3>4. mode # "off"
      BY <1>2, <2>5 DEF ModeInv
    <3> QED
      BY <3>1, <3>3, <3>4
  <2>8. PICK j \in DOMAIN failed : FileMessage(j) = m
    BY <1>1, <1>4, Rewritten DEF FileMessage
  <2>9. Covered(m, j)
    BY <2>7, <2>8 DEF CoverInv, Covered
  <2>10. CASE Passed(m)
    BY <1>1, <2>10, PassedStays DEF Covered
  <2>11. ASSUME h \in Recovery, circuit' = Finished, Recovering, NEW q \in Recovery \ {h}, recovery[q].running
         PROVE  Covered(m, i)'
    <3>1. InFile \subseteq late'
      BY <2>2, <2>7, <2>11 DEF Finished, Recovering, CircuitType
    <3>2. m \in InFile
      BY <2>8 DEF InFile, FileMessage
    <3> QED
      BY <3>1, <3>2 DEF Covered, Passed
  <2>12. ASSUME GoesAgain, ~Passed(m) PROVE Covered(m, i)'
    <3>1. PICK r \in Recovery : recovery[r].running /\ recovery[r].missed
      BY <2>12 DEF GoesAgain
    <3>2. r \in PassCaller /\ circuit.diversion = "recovering"
      BY <2>12 DEF GoesAgain, PassCaller
    <3>3. CASE h \in Recovery /\ h = r
      <4>2. passes' = Append(Tail(passes), h) /\ UNCHANGED circuit
        BY <2>2, <2>7, <3>1, <3>2, <3>3 DEF Recovering
      <4>3. Len(Tail(passes)) + 1 \in DOMAIN passes' /\ passes'[Len(Tail(passes)) + 1] = h
        <5>1. Tail(passes) \in Seq(PassCaller) /\ h \in PassCaller
          BY <1>1, <2>1 DEF PassInv
        <5> QED
          BY <4>2, <5>1
      <4>4. Comes(r, AccountOf[m])'
        BY <3>2, <4>2 DEF Comes
      <4> QED
        BY <2>6, <3>2, <3>3, <4>3, <4>4
    <3>5. CASE h \in Recovery /\ h # r /\ circuit' = Finished
      BY <2>7, <2>11, <3>1, <3>2, <3>5 DEF Recovering
    <3>6. CASE h \in Recovery /\ h # r /\ PassesAgain(h) /\ UNCHANGED circuit
      <4>1. GoesAgain'
        BY <3>1, <3>2, <3>6 DEF GoesAgain, PassesAgain
      <4> QED
        BY <4>1 DEF Covered
    <3>4. CASE h \notin Recovery
      <4>1. Comes(r, AccountOf[m])'
        BY <2>2, <3>2, <3>4 DEF Comes
      <4>2. PICK k \in DOMAIN passes : passes[k] = r
        BY <3>1 DEF CallersInv, Calls
      <4>3. k # 1
        BY <2>1, <3>4, <4>2
      <4> QED
        BY <2>4, <2>6, <3>2, <4>1, <4>2, <4>3
    <3> QED
      BY <2>2, <3>3, <3>4, <3>5, <3>6
  <2>13. ASSUME NEW c \in PassCaller, Comes(c, AccountOf[m]), WillSee(c, j) PROVE Covered(m, i)'
    <3>1. PICK k \in DOMAIN passes : passes[k] = c /\ k # 1
      BY <1>1, <1>4, <2>13 DEF WillSee, PassInv, PassType
    <3>2. c # h
      BY <2>1, <3>1 DEF CallersInv
    <3>3. Comes(c, AccountOf[m])' \/ Covered(m, i)'
      <4>1. CASE circuit.diversion = "recovering" /\ c \in Recovery
        <5>1. recovery[c].running /\ Recovering
          BY <2>7, <3>1, <4>1 DEF CallersInv, Calls, Recovering
        <5>2. CASE UNCHANGED circuit
          BY <4>1, <5>2 DEF Comes
        <5>3. CASE h \in Recovery /\ circuit' # circuit
          BY <2>2, <2>11, <3>2, <4>1, <5>1, <5>3
        <5> QED
          BY <2>2, <5>2, <5>3
      <4>2. CASE circuit.diversion = "none" /\ (c = AccountOf[m] \/ (mode = "starting" /\ c = "startup"))
        <5>1. UNCHANGED circuit
          BY <2>2, <4>2 DEF Finished, Recovering
        <5> QED
          BY <2>3, <3>2, <4>2, <5>1 DEF Comes
      <4> QED
        BY <2>13, <4>1, <4>2 DEF Comes
    <3> QED
      BY <2>4, <2>6, <3>1, <3>3
  <2> QED
    BY <2>9, <2>10, <2>12, <2>13 DEF Covered
<1> QED
  BY <1>2, <1>3, <1>4

LEMMA CoverInvStep ==
    ASSUME PipelineInv, ModeInv, KeptInv, FileOrder, CallersInv, HeldBackInv, WritesInv,
           CoverInv, [Next]_vars
    PROVE  CoverInv'
<1>1. WorldInv /\ QueueInv /\ TurnInv /\ LogInv /\ PassInv /\ LeftInv /\ ArrivedInv /\ PassInv'
  BY PipelineInvStep DEF PipelineInv
<1>2. SUFFICES ASSUME mode' # "off", ~circuit'.stopped, circuit'.diversion # "down",
                      NEW i \in DOMAIN failed', NEW m \in Message, m = failed'[i].message
               PROVE  Covered(m, i)'
  <2>1. \A i \in DOMAIN failed' : failed'[i].message \in Message
    <3>1. failed' \in Seq(EntryType)
      BY <1>1 DEF PassInv
    <3>2. \A i \in DOMAIN failed' : failed'[i] \in EntryType
      BY <3>1
    <3> QED
      BY <3>2 DEF EntryType
  <2>2. ASSUME NEW i \in DOMAIN failed', ASSUME NEW m \in Message, m = failed'[i].message PROVE Covered(m, i)'
        PROVE  \/ Passed(FileMessage(i))'
               \/ GoesAgain'
               \/ \E c \in PassCaller : Comes(c, AccountOf[FileMessage(i)])' /\ WillSee(c, i)'
    <3>1. PICK m \in Message : m = failed'[i].message
      BY <2>1
    <3>2. Covered(m, i)'
      BY <2>2, <3>1
    <3> QED
      BY <3>1, <3>2 DEF Covered, FileMessage, Passed, Comes, Row, Storable
  <2> QED
    BY <2>2 DEF CoverInv
<1>3. ASSUME NEW j \in DOMAIN failed, m = failed[j].message, mode # "off", ~circuit.stopped, circuit.diversion # "down"
      PROVE  Covered(m, j)
  <2>1. \/ Passed(FileMessage(j))
        \/ GoesAgain
        \/ \E c \in PassCaller : Comes(c, AccountOf[FileMessage(j)]) /\ WillSee(c, j)
    BY <1>3 DEF CoverInv
  <2>2. m = FileMessage(j)
    BY <1>3 DEF FileMessage
  <2> QED
    BY <2>1, <2>2 DEF Covered
<1>4. CASE StartUp
  <2>1. circuit' = Closed /\ passes = <<>> /\ mode' = "starting" /\ UNCHANGED pass
    BY <1>4 DEF StartUp, ModeInv
  <2>2. passes' = Append(passes, "startup")
    BY <1>4, <2>1 DEF StartUp
  <2>3. WillSee("startup", i)' /\ Comes("startup", AccountOf[m])' /\ "startup" \in PassCaller
    BY <1>1, <2>1, <2>2, JoinerSees DEF Comes, Closed, PassCaller
  <2> QED
    BY <2>3 DEF Covered
<1>5. CASE Quiet /\ UNCHANGED mode
  <2>1. circuit'.diversion = circuit.diversion /\ circuit'.stopped = circuit.stopped
    BY <1>2, <1>5 DEF Quiet, CircuitHolds
  <2>2. \A k \in DOMAIN passes : k \in DOMAIN passes' /\ passes'[k] = passes[k]
    BY <1>1, <1>5, CallJoined DEF Quiet, CallsGrow
  <2>3. CASE i \in DOMAIN failed
    <3>1. Covered(m, i)
      BY <1>2, <1>3, <1>5, <2>1, <2>3 DEF Quiet, FileGrows
    <3> QED
      BY <1>1, <1>5, <2>1, <2>2, <3>1, CoverStays DEF Quiet, CallsGrow
  <2>4. CASE i \notin DOMAIN failed
    <3>1. ~KeepOnly
      BY <1>5 DEF Quiet, KeepOnly, FileIsFor, EndPass, NoPass
    <3>2. mode # "leaving"
      BY <1>2, <2>1 DEF ModeInv
    <3>3. PICK a \in Account : Appended(a) /\ worker[a].step = "writingOff" /\ Current(a) \in Message
                               /\ failed' = Append(failed, Entry(Current(a), FALSE))
      BY <1>1, <1>2, <2>4, <3>1, <3>2, FileMoves
    <3>4. m = Current(a)
      BY <1>1, <1>2, <2>4, <3>3, FileAppended
    <3>5. AccountOf[m] = a
      BY <1>1, <3>3, <3>4, CurrentFacts
    <3> QED
      BY <1>1, <1>2, <2>1, <3>3, <3>5, AppendedCovered DEF WorldInv
  <2> QED
    BY <2>3, <2>4
<1>6. CASE PassMovesOn /\ UNCHANGED <<mode, failed, passes, recovery, worker, heldTimer>> /\ CircuitHolds
  <2>1. circuit'.diversion = circuit.diversion /\ circuit'.stopped = circuit.stopped
    BY <1>2, <1>6 DEF CircuitHolds
  <2>2. Covered(m, i) /\ i \in DOMAIN failed /\ m = failed[i].message
    BY <1>2, <1>3, <1>6, <2>1
  <2>3. \/ Passed(m)'
        \/ \E r \in Recovery : circuit.diversion = "recovering" /\ \E k \in DOMAIN passes : k # 1 /\ passes[k] = r
        \/ pass.step \in {"none", "toRead"} \/ i \in pass.next .. pass.size =>
               pass'.step \in {"none", "toRead"} \/ i \in pass'.next .. pass'.size
    <3>1. CASE BeginPass
      BY <3>1 DEF BeginPass, NoPass
    <3>2. CASE Read
      <4>1. pass = [NoPass EXCEPT !.step = "toRead"]
        BY <3>2 DEF Read, FileIsFor, KeptInv
      <4>2. pass'.next = 1 /\ pass'.size = Len(failed)
        BY <3>2, <4>1 DEF Read, NoPass
      <4> QED
        BY <1>1, <2>2, <4>2 DEF PassInv
    <3>3. CASE AtLine \/ LineStored \/ LineRefused \/ LineFails \/ ProbeLine
      <4>1. pass \in PassType /\ pass.step \in {"line", "inserting", "probing"} /\ pass.next <= pass.size
        BY <1>1, <3>3, LineOutcome DEF PassInv
      <4>2. ASSUME NEW s, pass' = [pass EXCEPT !.step = s] PROVE pass'.next = pass.next /\ pass'.size = pass.size
        BY <4>1, <4>2 DEF PassType
      <4>3. CASE LineStays /\ LineDone
        <5>1. CASE i = pass.next
          <6>1. m = LineMessage /\ LineAccount = AccountOf[m]
            BY <2>2, <5>1 DEF LineMessage, LineAccount, Line
          <6>2. (\E n \in Message : n = LineMessage /\ Passed(n)') => Passed(m)'
            BY <6>1
          <6>3. \/ Passed(m)'
                \/ UNCHANGED circuit /\ LineAccount \in pass.heldBack \ pass.waiting
            BY <1>2, <4>3, <6>2 DEF LineDone
          <6>4. i \in 1 .. pass.size /\ FileMessage(i) = m
            BY <2>2, <4>1, <5>1 DEF PassType, PassInv, FileMessage
          <6>5. AllPassed(LineAccount) => Passed(m)
            BY <6>1, <6>4 DEF AllPassed
          <6>6. Passed(m) => Passed(m)'
            BY <1>1, <1>2, PassedStays
          <6> QED
            BY <1>2, <6>3, <6>5, <6>6 DEF HeldBackInv
        <5>2. CASE i # pass.next
          <6>1. i \in pass.next .. pass.size => i \in pass.next + 1 .. pass.size
            BY <4>1, <5>2 DEF PassType
          <6> QED
            BY <4>1, <4>3, <6>1 DEF LineStays
        <5> QED
          BY <5>1, <5>2
      <4> QED
        BY <1>1, <3>3, <4>1, <4>2, <4>3, LineOutcome
    <3>4. CASE LinesDone /\ pass' = [pass EXCEPT !.step = "toKeep"]
      <4>1. pass'.next = pass.next /\ pass'.size = pass.size /\ pass.step = "line"
        BY <1>1, <3>4 DEF PassInv, PassType, LinesDone
      <4> QED
        BY <4>1
    <3> QED
      BY <1>6, <3>1, <3>2, <3>3, <3>4 DEF PassMovesOn
  <2> QED
    BY <1>1, <1>6, <2>1, <2>2, <2>3, CoverStays, NewsKeepsRunning
<1>7. ASSUME NEW r \in Recovery, RecoveryBegins(r) PROVE Covered(m, i)'
  <2>1. WillSee(r, i)' /\ Comes(r, AccountOf[m])' /\ r \in PassCaller
    BY <1>1, <1>7, JoinerSees DEF RecoveryBegins, Comes, PassCaller
  <2> QED
    BY <2>1 DEF Covered
<1>8. CASE PassStep /\ PassEnds
  BY <1>2, <1>8, CoverAtEnd
<1>9. ~(Exit \/ Crash)
  BY <1>2 DEF Exit, Crash, Forget
<1>10. CASE RecoveryCut
  <2>1. m \in InFile
    BY <1>2, <1>10 DEF RecoveryCut, InFile
  <2> QED
    BY <1>10, <2>1 DEF RecoveryCut, Covered, Passed
<1> QED
  BY <1>2, <1>4, <1>5, <1>6, <1>7, <1>8, <1>9, <1>10, Moves DEF Quiet

---------------------------------------------------------------------------
\* What is stored overtakes nothing

\* A worker begins to store a message: with the guard stopped it may overtake the file.
LEMMA NewCall ==
    ASSUME QueueInv, TurnInv, NEW a \in Account, worker'[a].step = "calling",
           worker[a].step # "calling", [Next]_vars
    PROVE  /\ worker[a].step = "ready" /\ circuit.diversion = "none" /\ UNCHANGED <<failed, circuit>>
           /\ circuit.stopped => {m \in InFile : AccountOf[m] = a} \subseteq late'
<1> USE DEF live, durable
<1>1. worker'[a] # worker[a] /\ worker \in [Account -> WorkerType]
  BY DEF QueueInv
<1>2. WorkerStep(a)
  <2>1. ~(Exit \/ Crash)
    BY ForgetFacts DEF Exit, Crash
  <2> QED
    BY <1>1, <2>1, OwnWorker, HandleFrame, ProbeFrame, PassFrame, OutsideFrame, DrainFrame DEF Next, DrainStep, vars
<1>3. \A s : Step(a, s) => s = "calling"
  BY <1>1 DEF Step, WorkerType
<1>4. ~Ends(a) /\ ~WaitToRetry(a)
  BY <1>1 DEF Ends, Idle, WaitToRetry
<1>5. ~Refuse(a) /\ ~AfterWriteOff(a)
  BY <1>3 DEF Refuse, AfterWriteOff
<1>6. Attempt(a)
  BY <1>2, <1>3, <1>4, <1>5 DEF WorkerStep, Start, Enriched, Judge, SenderResolved, Answer, FailForGood, Fail,
     RetryOrOpen, Appended, Deliver
<1> QED
  BY <1>5, <1>6 DEF Attempt

LEMMA CallsInvStep ==
    ASSUME PipelineInv, QueueOrder, LeftOrder, ModeInv, KeptInv, FileOrder, CallersInv, CoverInv,
           CallsInv, [Next]_vars
    PROVE  CallsInv'
<1>1. QueueInv /\ TurnInv /\ LogInv /\ PassInv /\ LeftInv /\ ArrivedInv
  BY DEF PipelineInv
<1>2. SUFFICES ASSUME NEW a \in Account, worker'[a].step = "calling", NEW k \in InFile', Before(k, Current(a)')
               PROVE  Passed(k)'
  BY DEF CallsInv, Before
<1>3. /\ Current(a)' = Current(a) /\ queue[a] # <<>> /\ AccountOf[Current(a)] = a /\ Current(a) \in Queued
      /\ AccountOf[k] = a /\ Before(k, Current(a))
  <2>1. Current(a)' = Current(a) /\ queue[a] # <<>> /\ Current(a) \in ToSet(queue[a])
    BY <1>1, <1>2, CurrentStays
  <2> QED
    BY <1>1, <1>2, <2>1, QueuedFacts DEF Before
<1>4. CASE k \in InFile
  <2>1. k \in Message
    BY <1>1, <1>4, FileFacts
  <2>2. CASE worker[a].step = "calling"
    BY <1>1, <1>3, <1>4, <2>1, <2>2, PassedStays DEF CallsInv
  <2>3. CASE worker[a].step # "calling"
    <3>1. /\ worker[a].step = "ready" /\ circuit.diversion = "none"
          /\ circuit.stopped => {m \in InFile : AccountOf[m] = a} \subseteq late'
      BY <1>1, <1>2, <2>3, NewCall
    <3>2. CASE circuit.stopped
      BY <1>3, <1>4, <3>1, <3>2 DEF Passed
    <3>3. CASE ~circuit.stopped
      <4>1. mode \notin {"off", "starting"}
        BY <1>3 DEF ModeInv
      <4>2. PICK i \in DOMAIN failed : FileMessage(i) = k
        BY <1>1, <1>4, FileFacts
      <4>3. Passed(k) \/ GoesAgain \/ \E c \in PassCaller : Comes(c, a) /\ WillSee(c, i)
        BY <1>3, <3>1, <3>3, <4>1, <4>2 DEF CoverInv
      <4>4. ~GoesAgain
        BY <3>1 DEF GoesAgain
      <4>5. ASSUME NEW c \in PassCaller, Comes(c, a), WillSee(c, i) PROVE FALSE
        <5>1. c = a /\ Calls(a)
          BY <3>1, <4>1, <4>5 DEF Comes, WillSee, Calls
        <5> QED
          BY <3>1, <5>1 DEF CallersInv
      <4> QED
        BY <1>1, <2>1, <4>3, <4>4, <4>5, PassedStays
    <3> QED
      BY <3>2, <3>3
  <2> QED
    BY <2>2, <2>3
<1>5. ASSUME NEW b \in Account, worker[b].step = "writingOff", Appended(b), k = Current(b) PROVE FALSE
  <2>1. b = a
    BY <1>1, <1>3, <1>5, CurrentFacts
  <2>2. worker \in [Account -> WorkerType]
    BY <1>1 DEF QueueInv
  <2>3. worker'[b].step # "calling"
    BY <1>5, <2>2 DEF Appended, AfterWriteOff, Step, WorkerType
  <2> QED
    BY <1>2, <2>1, <2>3
<1>6. ASSUME LeftAppended, left # <<>>, k = Head(left) PROVE FALSE
  <2>1. UNCHANGED worker /\ k \in ToSet(left)
    BY <1>1, <1>6, LeftTail DEF LeftAppended, live
  <2> QED
    BY <1>2, <1>3, <2>1 DEF LeftOrder
<1> QED
  BY <1>2, <1>4, <1>5, <1>6, FileGains

LEMMA LogOrderStep ==
    ASSUME PipelineInv, ArrivalInv, QueueOrder, LeftOrder, FileOrder, LineOrder, KeptInv, CallsInv,
           LogOrder, [Next]_vars
    PROVE  LogOrder'
<1>1. QueueInv /\ TurnInv /\ LogInv /\ PassInv /\ LeftInv /\ ArrivedInv
  BY DEF PipelineInv
<1>2. \A m \in Message : Passed(m) => Passed(m)'
  BY <1>1, PassedStays
<1>3. InFile \subseteq Message /\ ToSet(left) \subseteq arrived /\ arrived \subseteq Message /\ Queued \subseteq Message
  BY <1>1, QueuedFacts, FileFacts DEF ArrivedInv, ToSet, QueueInv
\* What is stored is not behind what is in memory, and passes what it overtakes in the file.
<1>4. ASSUME NEW n \in Message,
             \/ \E a \in Account : worker[a].step = "calling" /\ n = Current(a) /\ (Answer(a) \/ Fail(a))
             \/ pass.step = "inserting" /\ n = LineMessage /\ (LineStored \/ LineFails)
      PROVE  /\ \A m \in Queued \union ToSet(left) : ~Before(m, n)
             /\ \A k \in InFile : Before(k, n) => Passed(k)
             /\ InFile' = InFile
             /\ n \in Queued \/ (n \in InFile /\ pass.step = "inserting" /\ n = LineMessage)
  <2>1. ASSUME NEW a \in Account, worker[a].step = "calling", n = Current(a), Answer(a) \/ Fail(a)
        PROVE  /\ \A m \in Queued \union ToSet(left) : ~Before(m, n)
               /\ \A k \in InFile : Before(k, n) => Passed(k)
               /\ InFile' = InFile
               /\ n \in Queued
    <3>1. queue[a] # <<>> /\ n \in Queued
      BY <1>1, <2>1, CurrentFacts, QueuedFacts
    <3>2. UNCHANGED failed
      BY <2>1 DEF Answer, Fail
    <3>3. \A m \in Queued \union ToSet(left) : ~Before(m, n)
      BY <1>1, <2>1, <3>1, HeadFirst DEF LeftOrder
    <3> QED
      BY <2>1, <3>1, <3>2, <3>3 DEF CallsInv, InFile
  <2>2. ASSUME pass.step = "inserting", n = LineMessage, LineStored \/ LineFails
        PROVE  /\ \A m \in Queued \union ToSet(left) : ~Before(m, n)
               /\ \A k \in InFile : Before(k, n) => Passed(k)
               /\ InFile' = InFile
               /\ n \in InFile
    <3>1. UNCHANGED failed
      BY <2>2 DEF LineStored, LineFails, durable
    <3>2. pass.next \in DOMAIN failed /\ n = FileMessage(pass.next) /\ n \in Nat
      BY <1>1, <2>2, LineFacts, PipelineAssumption DEF PassInv, LineMessage, Line, FileMessage
    <3>3. ASSUME NEW i \in DOMAIN failed, Before(FileMessage(i), n) PROVE Passed(FileMessage(i))
      <4>1. i # pass.next
        BY <3>2, <3>3 DEF Before
      <4>2. ~(pass.next < i)
        BY <3>2, <3>3 DEF FileOrder
      <4>3. i \in 1 .. pass.next - 1
        BY <1>1, <3>2, <4>1, <4>2 DEF PassInv
      <4>4. AccountOf[FileMessage(i)] \notin pass.heldBack
        BY <2>2, <3>3 DEF LineOrder, LineAccount, Before
      <4> QED
        BY <4>3, <4>4 DEF KeptInv
    <3>4. \A k \in InFile : Before(k, n) => Passed(k)
      BY <1>1, <3>3, FileFacts
    <3>5. n \in InFile
      BY <1>1, <3>2, FileFacts
    <3> QED
      BY <2>2, <3>1, <3>4, <3>5 DEF LineOrder, InFile
  <2> QED
    BY <1>4, <2>1, <2>2
<1>5. Logged' = Logged \/
      \E n \in Message :
          /\ Logged' = Logged \union {n} /\ Row(n) = {} /\ Storable(n) /\ Insert(n)
          /\ \/ \E a \in Account : worker[a].step = "calling" /\ n = Current(a) /\ (Answer(a) \/ Fail(a))
             \/ pass.step = "inserting" /\ n = LineMessage /\ (LineStored \/ LineFails)
  BY <1>1, LoggedGrows
<1>6. ASSUME NEW n \in Logged', NEW m \in Queued' \union ToSet(left') PROVE ~Before(m, n)
  <2>1. m \in Queued \union ToSet(left) \/ m \in Message \ arrived
    BY <1>1, <1>6, QueueMoves, LeftGrowsFromQueues
  <2>2. CASE n \in Logged
    BY <2>1, <2>2 DEF LogOrder, ArrivalInv
  <2>3. CASE n \notin Logged
    <3>1. /\ n \in arrived
          /\ \A l \in Queued \union ToSet(left) : ~Before(l, n)
      BY <1>1, <1>4, <1>5, <1>6, <2>3, StoredArrived
    <3> QED
      BY <2>1, <3>1 DEF ArrivalInv
  <2> QED
    BY <2>2, <2>3
<1>7. ASSUME NEW n \in Logged', NEW k \in InFile', Before(k, n) PROVE Passed(k)'
  <2>1. CASE n \in Logged
    <3>1. CASE k \in InFile
      BY <1>2, <1>3, <1>7, <2>1, <3>1 DEF LogOrder
    <3>2. CASE k \notin InFile
      <4>1. k \in Queued \union ToSet(left)
        BY <1>1, <1>7, <3>2, FileGains, CurrentFacts, QueuedFacts, LeftTail
      <4> QED
        BY <1>7, <2>1, <4>1 DEF LogOrder
    <3> QED
      BY <3>1, <3>2
  <2>2. CASE n \notin Logged
    <3>1. InFile' = InFile /\ (Before(k, n) => Passed(k))
      BY <1>4, <1>5, <1>7, <2>2
    <3> QED
      BY <1>2, <1>3, <1>7, <3>1
  <2> QED
    BY <2>1, <2>2
<1>8. OrderButForLate'
  <2>1. held \union late \subseteq held' \union late'
    BY HistoryGrows
  <2>2. CASE UNCHANGED log
    BY <2>1, <2>2 DEF LogOrder, OrderButForLate, InOrderBut
  <2>3. ASSUME NEW m \in Message, Row(m) = {}, Storable(m),
               log' = [log EXCEPT ![AccountOf[m]] = Append(log[AccountOf[m]], m)],
               \/ \E a \in Account : worker[a].step = "calling" /\ m = Current(a) /\ (Answer(a) \/ Fail(a))
               \/ pass.step = "inserting" /\ m = LineMessage /\ (LineStored \/ LineFails)
        PROVE  OrderButForLate'
    <3>1. PICK b \in Account : b = AccountOf[m]
      BY PipelineAssumption
    <3>2. log \in [Account -> Seq(Message)] /\ log[b] \in Seq(Message)
      BY <1>1, <3>1 DEF LogInv
    <3>3. /\ \A a \in Account : a # b => log'[a] = log[a]
          /\ log'[b] = Append(log[b], m)
      BY <2>3, <3>1, <3>2
    <3>4. /\ DOMAIN log'[b] = DOMAIN log[b] \union {Len(log[b]) + 1}
          /\ log'[b][Len(log[b]) + 1] = m
          /\ \A i \in DOMAIN log[b] : log'[b][i] = log[b][i] /\ i < Len(log[b]) + 1
      BY <3>2, <3>3
    <3>5. ASSUME NEW i \in DOMAIN log[b] PROVE log[b][i] < m \/ m \in held \union late
      <4>1. PICK n \in Message : n = log[b][i]
        BY <3>2
      <4>2. n \in Logged /\ AccountOf[n] = b
        BY <1>1, <4>1 DEF Logged, ToSet, LogInv, OneRow
      <4>3. n # m
        BY <2>3, <3>1, <4>1 DEF Row
      <4>4. CASE n < m
        BY <4>1, <4>4
      <4>5. CASE ~(n < m)
        <5>1. Before(m, n)
          BY <3>1, <4>2, <4>3, <4>5, PipelineAssumption DEF Before
        <5>2. m \notin Queued
          BY <4>2, <5>1 DEF LogOrder
        <5>3. Passed(m)
          BY <1>4, <2>3, <4>2, <5>1, <5>2 DEF LogOrder
        <5> QED
          BY <2>3, <5>3 DEF Passed
      <4> QED
        BY <4>4, <4>5
    <3>6. ASSUME NEW a \in Account, NEW i \in DOMAIN log'[a], NEW j \in DOMAIN log'[a], i < j
          PROVE  log'[a][i] < log'[a][j] \/ log'[a][j] \in held' \union late'
      <4>1. CASE a # b
        BY <2>1, <3>3, <3>6, <4>1 DEF LogOrder, OrderButForLate, InOrderBut
      <4>2. CASE a = b
        <5>1. i \in DOMAIN log[b]
          <6>1. i \in DOMAIN log[b] \union {Len(log[b]) + 1} /\ j \in DOMAIN log[b] \union {Len(log[b]) + 1}
            BY <3>4, <3>6, <4>2
          <6>2. Len(log[b]) \in Nat /\ \A k \in DOMAIN log[b] : k \in Nat /\ k < Len(log[b]) + 1
            BY <3>2
          <6> QED
            BY <3>6, <6>1, <6>2
        <5>2. CASE j \in DOMAIN log[b]
          BY <2>1, <3>4, <3>6, <4>2, <5>1, <5>2 DEF LogOrder, OrderButForLate, InOrderBut
        <5>3. CASE j = Len(log[b]) + 1
          BY <2>1, <3>4, <3>5, <4>2, <5>1, <5>3
        <5> QED
          BY <3>4, <4>2, <5>2, <5>3
      <4> QED
        BY <4>1, <4>2
    <3> QED
      BY <3>6 DEF OrderButForLate, InOrderBut
  <2>4. UNCHANGED log \/
        \E m \in Message :
            /\ Row(m) = {} /\ Storable(m)
            /\ log' = [log EXCEPT ![AccountOf[m]] = Append(log[AccountOf[m]], m)]
            /\ \/ \E a \in Account : worker[a].step = "calling" /\ m = Current(a) /\ (Answer(a) \/ Fail(a))
               \/ pass.step = "inserting" /\ m = LineMessage /\ (LineStored \/ LineFails)
    BY <1>1, LogMoves, SetInserted
  <2> QED
    BY <2>2, <2>3, <2>4
<1> QED
  BY <1>6, <1>7, <1>8 DEF LogOrder, Before

---------------------------------------------------------------------------
\* The order of arrival

LEMMA OrderInvInit ==
    Init => OrderInv
<1>1. SUFFICES ASSUME Init PROVE OrderInv
  OBVIOUS
<1>2. Queued = {} /\ Logged = {} /\ ToSet(left) = {} /\ InFile = {}
  BY <1>1 DEF Init, Queued, Logged, ToSet, InFile
<1>3. \A a \in Account : worker[a].step = "idle" /\ DOMAIN queue[a] = {} /\ DOMAIN log[a] = {}
  BY <1>1 DEF Init, Idle
<1>4. DOMAIN left = {} /\ DOMAIN failed = {} /\ DOMAIN turn = {} /\ DOMAIN passes = {} /\ unsaved = {} /\ arrived = {}
  BY <1>1 DEF Init
<1>5. pass = NoPass /\ pass.step = "none" /\ pass.heldBack = {} /\ DOMAIN pass.kept = {} /\ 1 .. pass.next - 1 = {}
      /\ pass = [NoPass EXCEPT !.step = pass.step]
  BY <1>1 DEF Init, NoPass
<1>6. circuit = Closed /\ mode = "off" /\ ~heldTimer /\ passes = <<>> /\ ~Recovering
      /\ \A r \in Recovery : ~recovery[r].running
  BY <1>1 DEF Init, Closed, NoRecovery, Recovering
<1>7. ArrivalInv /\ QueueOrder /\ LeftOrder /\ ModeInv /\ TurnOrder
  BY <1>2, <1>3, <1>4, <1>5, <1>6 DEF ArrivalInv, QueueOrder, LeftOrder, ModeInv, TurnOrder
<1>8. FileOrder /\ LineOrder /\ KeptInv
  BY <1>2, <1>3, <1>4, <1>5 DEF FileOrder, LineOrder, KeptInv
<1>9. CallersInv /\ CoverInv /\ WritesInv /\ HeldBackInv
  BY <1>4, <1>5, <1>6 DEF CallersInv, Calls, CoverInv, WritesInv, HeldBackInv
<1>10. CallsInv /\ LogOrder
  BY <1>2, <1>3 DEF CallsInv, LogOrder, OrderButForLate, InOrderBut
<1> QED
  BY <1>7, <1>8, <1>9, <1>10 DEF OrderInv

LEMMA OrderInvStep ==
    ASSUME PipelineInv, OrderInv, [Next]_vars
    PROVE  OrderInv'
<1>1. ArrivalInv' /\ QueueOrder' /\ LeftOrder' /\ ModeInv' /\ TurnOrder'
  BY ArrivalInvStep, QueueOrderStep, LeftOrderStep, ModeInvStep, TurnOrderStep DEF OrderInv
<1>2. FileOrder' /\ LineOrder' /\ KeptInv'
  BY FileOrderStep, LineOrderStep, KeptInvStep DEF OrderInv
<1>3. CallersInv' /\ CoverInv' /\ WritesInv' /\ HeldBackInv'
  BY CallersInvStep, CoverInvStep, WritesInvStep, HeldBackInvStep DEF OrderInv
<1>4. CallsInv' /\ LogOrder'
  BY CallsInvStep, LogOrderStep DEF OrderInv
<1> QED
  BY <1>1, <1>2, <1>3, <1>4 DEF OrderInv

\* Of two messages of an account the one that came first has the lower number in the
\* message log, through outages, shutdowns, crashes and restarts, unless it waited in the
\* failed log on its own account or the pipeline was draining: provided that the recover()
\* of one outage has ended before the next one's begins. This is what StoreGuard's
\* diversion, the pass before an account's next message, FailedInboundFile's turns and
\* drain()'s order are for.
THEOREM ArrivalOrderIsKept == Spec => []OrderButForLate
<1>1. Init => OrderInv
  BY OrderInvInit
<1>2. PipelineInv /\ OrderInv /\ [Next]_vars => OrderInv'
  BY OrderInvStep
<1>3. OrderInv => OrderButForLate
  BY DEF OrderInv, LogOrder
<1> QED
  BY <1>1, <1>2, <1>3, PipelineInvAlways, PTL DEF Spec

====
