---- MODULE InboundPipeline ----
(***************************************************************************)
(* InboundPipeline and its StoreGuard: a queue per account, retries, the    *)
(* circuit that opens when the message log is down, the failed log messages *)
(* go to meanwhile, the passes that store it, and the shutdown that writes  *)
(* off what is left. The event loop runs one step at a time; a step ends at *)
(* an await, so between two steps of one activity any other may run.       *)
(***************************************************************************)
EXTENDS Integers, FiniteSets, SequencesExt

CONSTANTS
    Account,
    Message,     \* envelopes, as numbers in order of arrival
    AccountOf,
    WaIdOf,      \* the WhatsApp message an envelope carries: the log's dedupe key
    Lid,         \* envelopes that come in with a LID for conversation: resolving it tells
                 \* whether the account's list includes them
    Refused,     \* envelopes the store answers with a PermanentStoreError
    Unstorable,  \* envelopes that fail with a RangeError on every attempt
    Recovery,    \* identities for the recover() calls: a bound on how many run at once
    MaxRetries,  \* how many delays PERSIST_RETRY_DELAYS_MS has
    MaxFaults    \* bounds: how often each thing may go wrong, and how often any of them

VARIABLES
    mode,        \* the gateway: off, starting, running, draining, leaving
    up,          \* whether the message log takes writes
    log,         \* the message log: per account, its messages by accountSeq
    failed,      \* the failed log's entries
    rejects,     \* the messages in the log of rejects
    queue,       \* per account, what handle() accepted and process() has not ended with
    worker,      \* per account, how far process() is with the head of its queue
    unsaved,     \* InboundPipeline.unsaved
    enrichment,  \* per message, what its enrich() made of the LID
    circuit,     \* StoreGuard's diversion, stopped and probeTimer
    turn,        \* FailedInboundFile's fileTurn: who waits to use the file
    passes,      \* its replayTurn: who waits for a replayFailed()
    pass,        \* the pass that is running
    recovery,    \* the recover() calls
    heldTimer,   \* whether heldRetryTimer is set
    left,        \* what drain() has still to write off
    arrived, emitted, filtered, gone, held, late,   \* history, for the properties
    faults       \* how often each thing may go wrong still

world == <<mode, up, faults>>
durable == <<log, failed, rejects>>
live == <<queue, worker, unsaved, enrichment>>
passing == <<passes, pass, recovery, heldTimer>>
history == <<arrived, emitted, filtered, gone, held, late>>
vars == <<world, durable, live, circuit, turn, passing, left, history>>

ASSUME PipelineAssumption ==
    /\ Message \subseteq Nat
    /\ AccountOf \in [Message -> Account]
    /\ UNION {Lid, Refused, Unstorable} \subseteq Message
    /\ MaxRetries \in Nat
    /\ MaxFaults \in [{"outage", "answer", "file", "stop", "any"} -> Nat]

\* Who waits for the file or for a pass is told apart by its name.
ASSUME NamesAssumption ==
    /\ Account \intersect Recovery = {}
    /\ {"pass", "drain", "startup", "timer"} \intersect (Account \union Recovery) = {}

Entry(m, lid) == [message |-> m, lid |-> lid]

\* Who waits for the file, and whether what it appends has its LID still.
Turn(by, lid) == [by |-> by, lid |-> lid]

Idle == [step |-> "idle", attempt |-> 0]

Closed == [diversion |-> "none", stopped |-> FALSE, probe |-> "none"]

NoPass == [step |-> "none", size |-> 0, next |-> 1, kept |-> <<>>, rejected |-> {},
           heldBack |-> {}, waiting |-> {}, stored |-> FALSE]

\* A recover(): at its passes, whether something was written off since the last began and
\* whether they stored anything, or past them and waiting for resumePendingMedia().
NoRecovery == [running |-> FALSE, missed |-> FALSE, stored |-> FALSE, resuming |-> FALSE]

Recovers == [NoRecovery EXCEPT !.running = TRUE]

Resumes == [NoRecovery EXCEPT !.resuming = TRUE]

NotEnriched == [m \in Message |-> IF m \in Lid THEN "pending" ELSE "included"]

Init ==
    /\ mode = "off" /\ up = TRUE /\ faults = MaxFaults
    /\ log = [a \in Account |-> <<>>] /\ failed = <<>> /\ rejects = {}
    /\ queue = [a \in Account |-> <<>>]
    /\ worker = [a \in Account |-> Idle]
    /\ unsaved = {} /\ left = <<>>
    /\ enrichment = NotEnriched
    /\ circuit = Closed
    /\ turn = <<>> /\ passes = <<>>
    /\ pass = NoPass
    /\ recovery = [r \in Recovery |-> NoRecovery]
    /\ heldTimer = FALSE
    /\ arrived = {} /\ filtered = {} /\ gone = {}
    /\ held = {} /\ late = {}
    /\ emitted = [m \in Message |-> -1]

Spend(kind) ==
    /\ faults[kind] > 0 /\ faults["any"] > 0
    /\ faults' = [faults EXCEPT ![kind] = @ - 1, !["any"] = @ - 1]

---------------------------------------------------------------------------
\* The message log, as MessageLog answers insertInbound

Row(m) == {i \in DOMAIN log[AccountOf[m]] : WaIdOf[log[AccountOf[m]][i]] = WaIdOf[m]}

\* A message of the account that is already there changes nothing.
Insert(m) ==
    log' = IF Row(m) = {} THEN [log EXCEPT ![AccountOf[m]] = Append(@, m)] ELSE log

\* The messages in the failed log.
InFile == {failed[i].message : i \in DOMAIN failed}

Storable(m) == m \notin Refused \union Unstorable

\* isPermanentFailure: the failure of m that another attempt would not change, a
\* PermanentStoreError or a RangeError.
FailsForGood(m) == m \in Unstorable \/ (up /\ m \in Refused)

---------------------------------------------------------------------------
\* StoreGuard

\* Why live messages are not reaching the log, if they are not.
Diversion == {"none", "down", "recovering"}

Recovering == ~circuit.stopped /\ circuit.diversion = "recovering"

TakingDirectly == ~circuit.stopped /\ circuit.diversion = "none"

\* What finishRecovery() leaves: nothing changes if the recovery was cut short.
Finished == IF Recovering THEN [circuit EXCEPT !.diversion = "none"] ELSE circuit

\* What stop() leaves: a probe that is not writing yet never will.
Stopped == [circuit EXCEPT !.stopped = TRUE,
                           !.probe = IF @ = "scheduled" THEN "none" ELSE @]

\* What open() leaves.
Opened ==
    IF circuit.diversion = "down" \/ circuit.stopped
        THEN circuit
        ELSE [circuit EXCEPT !.diversion = "down", !.probe = "scheduled"]

ProbeFires ==
    /\ circuit.probe = "scheduled"
    /\ circuit' = [circuit EXCEPT !.probe = "writing"]
    /\ UNCHANGED <<world, durable, live, turn, passing, left, history>>

\* (slip) a probe that fails is the last one.
ProbeFails_LastOne ==
    /\ circuit.probe = "writing"
    /\ ~up
    /\ circuit' = [circuit EXCEPT !.probe = "none"]
    /\ UNCHANGED <<world, durable, live, turn, passing, left, history>>

ProbeFails ==
    /\ circuit.probe = "writing"
    /\ ~up
    /\ circuit' = [circuit EXCEPT !.probe = IF circuit.stopped THEN "none" ELSE "scheduled"]
    /\ UNCHANGED <<world, durable, live, turn, passing, left, history>>

\* The probe writes: the failed log goes in first, and onAnswering starts recover(), also
\* while those of earlier outages are at work. Bound: as many as there are in Recovery.
ProbeWrites ==
    /\ circuit.probe = "writing"
    /\ up
    /\ \E r \in Recovery : recovery[r] = NoRecovery
    /\ IF circuit.stopped
         THEN /\ circuit' = [circuit EXCEPT !.probe = "none"]
              /\ UNCHANGED passing
         ELSE /\ circuit' = [circuit EXCEPT !.probe = "none", !.diversion = "recovering"]
              /\ \E r \in Recovery :
                     /\ recovery[r] = NoRecovery
                     /\ recovery' = [recovery EXCEPT ![r] = Recovers]
                     /\ passes' = Append(passes, r)
              /\ UNCHANGED <<pass, heldTimer>>
    /\ UNCHANGED <<world, durable, live, turn, left, history>>

---------------------------------------------------------------------------
\* handle() and process(): one message of an account at a time

Current(a) == Head(queue[a])

Step(a, s) == worker' = [worker EXCEPT ![a].step = s]

\* process() ends: the account's next message may start.
Ends(a) ==
    /\ worker' = [worker EXCEPT ![a] = Idle]
    /\ queue' = [queue EXCEPT ![a] = Tail(@)]

Handle(m) ==
    LET a == AccountOf[m] IN
    /\ mode = "running"
    /\ m \notin arrived
    /\ \A n \in Message \ arrived : n < m => AccountOf[n] # a
    /\ arrived' = arrived \union {m}
    /\ unsaved' = unsaved \union {m}
    /\ queue' = [queue EXCEPT ![a] = Append(@, m)]
    /\ UNCHANGED <<world, durable, worker, enrichment, circuit, turn, passing, left,
                   emitted, filtered, gone, held, late>>

\* What enrich() or a pass may make of a LID.
Resolution == {"included", "excluded", "unresolved"}

\* accepts(): an unresolved LID is on no list.
Accepted(e) == e = "included"

\* resolveSenderPhone() ends, with a phone or without: no failure of it keeps the message.
SenderResolved(a) == Step(a, "ready")

\* process() up to persist(), with e known of the LID: a message drain() has taken is
\* left alone, one the filter leaves out is dropped, and any other gets its sender's
\* phone resolved before its first attempt.
Judge(a, e) ==
    LET m == Current(a) IN
    \/ /\ m \notin unsaved
       /\ Ends(a)
       /\ UNCHANGED <<unsaved, filtered>>
    \/ /\ m \in unsaved /\ Accepted(e)
       /\ SenderResolved(a)
       /\ UNCHANGED <<queue, unsaved, filtered>>
    \/ /\ m \in unsaved /\ ~Accepted(e)
       /\ Ends(a)
       /\ unsaved' = unsaved \ {m}
       /\ filtered' = filtered \union {m}

Start(a) ==
    /\ worker[a].step = "idle"
    /\ queue[a] # <<>>
    /\ IF Current(a) \in unsaved /\ enrichment[Current(a)] = "pending"
         THEN Step(a, "enriching") /\ UNCHANGED <<queue, unsaved, filtered>>
         ELSE Judge(a, enrichment[Current(a)])
    /\ UNCHANGED <<world, durable, enrichment, circuit, turn, passing, left,
                   arrived, emitted, gone, held, late>>

Enriched(a, e) ==
    /\ worker[a].step = "enriching"
    /\ enrichment' = [enrichment EXCEPT ![Current(a)] = e]
    /\ Judge(a, e)
    /\ UNCHANGED <<world, durable, circuit, turn, passing, left, arrived, emitted, gone,
                   held, late>>

\* With the circuit closed the account's next message would overtake this one, so a pass
\* over the failed log comes first.
AfterWriteOff(a) ==
    IF TakingDirectly
        THEN Step(a, "replaying") /\ passes' = Append(passes, a)
        ELSE Step(a, "delivering") /\ UNCHANGED passes

\* writeOffs += 1: recover() will see that its pass may have missed something.
NewsForRecover ==
    recovery' = [r \in Recovery |-> [recovery[r] EXCEPT !.missed = recovery[r].running]]

\* guard.insert() rejects, and persist() writes the message off to the failed log unless
\* drain() has.
Refuse(a) ==
    \/ /\ Current(a) \in unsaved
       /\ Step(a, "writingOff")
       /\ turn' = Append(turn, Turn(a, FALSE))
       /\ NewsForRecover
       /\ UNCHANGED passes
    \/ /\ Current(a) \notin unsaved
       /\ AfterWriteOff(a)
       /\ UNCHANGED <<turn, recovery>>

\* An attempt of StoreGuard.insert, after resolveSenderPhone() or a wait between attempts:
\* rejected at once while the circuit is not closed. A guard that is stopped opens no
\* circuit, so after a message that was written off the next one goes straight in; late
\* keeps what it may overtake.
Attempt(a) ==
    /\ worker[a].step = "ready"
    /\ \/ /\ circuit.diversion = "none"
          /\ Step(a, "calling")
          /\ late' = IF circuit.stopped
                        THEN late \union {m \in InFile : AccountOf[m] = a} ELSE late
          /\ UNCHANGED <<turn, passes, recovery>>
       \/ /\ circuit.diversion # "none"
          /\ Refuse(a)
          /\ UNCHANGED late
    /\ UNCHANGED <<world, durable, queue, unsaved, enrichment, circuit, pass, heldTimer,
                   left,
                   arrived, emitted, filtered, gone, held>>

\* The event of m goes out, with its number or with none (0).
Emit(m, number) == emitted' = [emitted EXCEPT ![m] = number]

\* settleRetried: on a retry, the row of this very envelope is the attempt whose answer
\* was lost. Another envelope's is a real duplicate.
SettledRow(a) ==
    {i \in Row(Current(a)) : worker[a].attempt > 0 /\ log[a][i] = Current(a)}

\* (slip) on a retry, any duplicate is taken for the message's own.
Answer_AnyDuplicate(a) ==
    LET m == Current(a) IN
    /\ worker[a].step = "calling"
    /\ up /\ Storable(m)
    /\ Insert(m)
    /\ \/ Row(m) = {} /\ Emit(m, Len(log[a]) + 1)
       \/ worker[a].attempt > 0 /\ \E i \in Row(m) : Emit(m, i)
       \/ worker[a].attempt = 0 /\ Row(m) # {} /\ UNCHANGED emitted
    /\ unsaved' = unsaved \ {m}
    /\ Ends(a)
    /\ UNCHANGED <<world, failed, rejects, enrichment, circuit, turn, passing, left,
                   arrived, filtered, gone, held, late>>

\* The log answers, and persist() stamps its number on the message, which is emitted with
\* it. A duplicate is neither emitted nor reprocessed.
Answer(a) ==
    LET m == Current(a) IN
    /\ worker[a].step = "calling"
    /\ up /\ Storable(m)
    /\ Insert(m)
    /\ \/ Row(m) = {} /\ Emit(m, Len(log[a]) + 1)
       \/ \E i \in SettledRow(a) : Emit(m, i)
       \/ Row(m) # {} /\ SettledRow(a) = {} /\ UNCHANGED emitted
    /\ unsaved' = unsaved \ {m}
    /\ Ends(a)
    /\ UNCHANGED <<world, failed, rejects, enrichment, circuit, turn, passing, left,
                   arrived, filtered, gone, held, late>>

\* (slip) such a failure is retried like any other, for as long as it fails.
FailForGood_Forever(a) ==
    /\ worker[a].step = "calling"
    /\ FailsForGood(Current(a))
    /\ Step(a, "ready")
    /\ UNCHANGED <<world, durable, queue, unsaved, enrichment, circuit, turn, passing,
                   left, history>>

\* Such a failure is not retried and opens nothing.
FailForGood(a) ==
    /\ worker[a].step = "calling"
    /\ FailsForGood(Current(a))
    /\ Refuse(a)
    /\ UNCHANGED <<world, durable, queue, unsaved, enrichment, circuit, pass, heldTimer,
                   left, history>>

\* waitToRetry: the wait ends by itself, or because nobody waits any more.
WaitToRetry(a) == worker' = [worker EXCEPT ![a] = [step |-> "ready", attempt |-> @.attempt + 1]]

\* (slip) one attempt more than there are delays.
RetryOrOpen_OneMore(a) ==
    \/ /\ worker[a].attempt > MaxRetries
       /\ circuit' = Opened
       /\ Refuse(a)
    \/ /\ worker[a].attempt <= MaxRetries
       /\ WaitToRetry(a)
       /\ UNCHANGED <<circuit, turn, passes, recovery>>

\* One that may pass: it waits for the next attempt, or, out of delays, opens the circuit.
RetryOrOpen(a) ==
    \/ /\ worker[a].attempt = MaxRetries
       /\ circuit' = Opened
       /\ Refuse(a)
    \/ /\ worker[a].attempt < MaxRetries /\ circuit.stopped
       /\ Refuse(a)
       /\ UNCHANGED circuit
    \/ /\ worker[a].attempt < MaxRetries /\ ~circuit.stopped
       /\ WaitToRetry(a)
       /\ UNCHANGED <<circuit, turn, passes, recovery>>

\* The store is down, or its COMMIT went through and only the answer was lost.
Fail(a) ==
    /\ worker[a].step = "calling"
    /\ \/ /\ ~up /\ Current(a) \notin Unstorable
          /\ UNCHANGED <<log, faults>>
       \/ /\ up /\ Storable(Current(a))
          /\ Spend("answer")
          /\ Insert(Current(a))
    /\ RetryOrOpen(a)
    /\ UNCHANGED <<mode, up, failed, rejects, queue, unsaved, enrichment, pass, heldTimer,
                   left, history>>

\* writeOff() ends: the entry is in the file, or m is reported LOST.
Appended(a) ==
    /\ turn # <<>> /\ Head(turn).by = a
    /\ turn' = Tail(turn)
    /\ unsaved' = unsaved \ {Current(a)}
    /\ \/ /\ failed' = Append(failed, Entry(Current(a), FALSE))
          /\ UNCHANGED <<gone, faults>>
       \/ /\ Spend("file")
          /\ gone' = gone \union {Current(a)}
          /\ UNCHANGED failed
    /\ AfterWriteOff(a)
    /\ UNCHANGED <<mode, up, log, rejects, queue, enrichment, circuit, pass, recovery,
                   heldTimer, left,
                   arrived, emitted, filtered, held, late>>

\* Not stored, and delivered live without a sequence.
Deliver(a) ==
    /\ \/ worker[a].step = "delivering"
       \/ worker[a].step = "replaying" /\ ~Contains(passes, a)
    /\ Emit(Current(a), 0)
    /\ Ends(a)
    /\ UNCHANGED <<world, durable, unsaved, enrichment, circuit, turn, passing, left,
                   arrived, filtered, gone, held, late>>

---------------------------------------------------------------------------
\* replayFailed(): a pass over the failed log

\* FailedInboundFile runs passes one at a time.
BeginPass ==
    /\ passes # <<>>
    /\ pass.step = "none"
    /\ pass' = [NoPass EXCEPT !.step = "toRead"]
    /\ turn' = Append(turn, Turn("pass", FALSE))
    /\ UNCHANGED <<world, durable, live, circuit, passes, recovery, heldTimer, left,
                   history>>

\* finishRecovery(), called by r: it ends whatever recovery there is, so when that is of a
\* later outage and has a recover() of its own, what is in the file may be overtaken.
Finish(r) ==
    /\ circuit' = Finished
    /\ late' = IF Recovering /\ \E q \in Recovery \ {r} : recovery[q].running
                  THEN late \union InFile ELSE late

\* Whether the passes of r, with the one that ends, stored anything.
HasStored(r) == recovery[r].stored \/ pass.stored

\* After finishRecovery() a recover() that has stored anything resumes its media.
AfterFinish(r, outcome) ==
    recovery' = [recovery EXCEPT ![r] = IF outcome = "passed" /\ HasStored(r)
                                           THEN Resumes ELSE NoRecovery]

\* (slip) one pass, whatever was written off while it ran.
Recover_OnePass(r, outcome) ==
    /\ AfterFinish(r, outcome)
    /\ passes' = Tail(passes)
    /\ Finish(r)

\* recover() after a pass: another one if something was written off since it began, or
\* else finishRecovery(), with no await between the check and that. A failed log that
\* cannot be read or rewritten closes the circuit too.
Recover(r, outcome) ==
    IF outcome = "passed" /\ Recovering /\ recovery[r].missed
        THEN /\ recovery' = [recovery EXCEPT ![r] = [Recovers EXCEPT !.stored = HasStored(r)]]
             /\ passes' = Append(Tail(passes), r)
             /\ UNCHANGED <<circuit, late>>
        ELSE /\ AfterFinish(r, outcome)
             /\ passes' = Tail(passes)
             /\ Finish(r)

\* resumePendingMedia() ends, or it rejects and recover() calls finishRecovery() again.
Resumed(r) ==
    /\ recovery[r].resuming
    /\ recovery' = [recovery EXCEPT ![r] = NoRecovery]
    /\ \/ UNCHANGED <<faults, circuit, late>>
       \/ ~up /\ Finish(r) /\ UNCHANGED faults
       \/ Spend("answer") /\ Finish(r)
    /\ UNCHANGED <<mode, up, durable, live, turn, passes, pass, heldTimer, left,
                   arrived, emitted, filtered, gone, held>>

\* (slip) what stays is looked at again only after a restart.
EndPass_NoTimer(outcome, stays) ==
    /\ pass' = NoPass
    /\ mode' = IF Head(passes) = "startup" /\ mode = "starting" THEN "running" ELSE mode
    /\ IF Head(passes) \in Recovery
         THEN Recover(Head(passes), outcome)
         ELSE passes' = Tail(passes) /\ UNCHANGED <<recovery, circuit, late>>
    /\ UNCHANGED heldTimer

\* The pass ends and its caller goes on, with no await in between; if something stays,
\* another pass looks later.
EndPass(outcome, stays) ==
    /\ pass' = NoPass
    /\ heldTimer' = (heldTimer \/ (stays /\ mode \in {"starting", "running"}))
    /\ mode' = IF Head(passes) = "startup" /\ mode = "starting" THEN "running" ELSE mode
    /\ IF Head(passes) \in Recovery
         THEN Recover(Head(passes), outcome)
         ELSE passes' = Tail(passes) /\ UNCHANGED <<recovery, circuit, late>>

FileIsFor(s) ==
    /\ pass.step = s
    /\ turn # <<>> /\ Head(turn).by = "pass"
    /\ turn' = Tail(turn)

Read ==
    /\ FileIsFor("toRead")
    /\ pass' = [pass EXCEPT !.step = "line", !.size = Len(failed)]
    /\ UNCHANGED <<world, durable, live, circuit, passes, recovery, heldTimer, left,
                   history>>

ReadFails ==
    /\ FileIsFor("toRead")
    /\ Spend("file")
    /\ EndPass("failed", TRUE)
    /\ held' = held \union InFile
    /\ UNCHANGED <<up, durable, live, left, arrived, emitted, filtered, gone>>

Line == failed[pass.next]
LineMessage == Line.message
LineAccount == AccountOf[LineMessage]

NextLine == [pass EXCEPT !.step = "line", !.next = @ + 1]

\* The entry stays, and what its account has behind it stays with it. It waits on its
\* own account when neither an outage nor the shutdown is what keeps it.
Keep(waits) ==
    /\ pass' = [NextLine EXCEPT !.kept = Append(@, Line),
                                !.heldBack = @ \union {LineAccount},
                                !.waiting = IF waits THEN @ \union {LineAccount} ELSE @]
    /\ held' = IF waits THEN held \union {LineMessage} ELSE held

Reject == pass' = [NextLine EXCEPT !.rejected = @ \union {LineMessage}]

\* The entry is in the file until that is rewritten. If the process ends before, the next
\* start judges its LID anew, when what it had behind may be stored.
SetAside == held' = held \union {LineMessage}

\* The callback of the pass, up to the insert, case by case: an entry behind one that
\* stays; a LID that does not resolve (and past LID_MAX_WAIT_MS, on a live socket, never
\* will); a conversation left out; insertOnce, if the circuit lets it.
SaveLine(resolution, tooLate) ==
    LET judged == ~Line.lid \/ resolution # "unresolved"
        leftOut == Line.lid /\ resolution = "excluded"
    IN
    /\ pass.step = "line"
    /\ pass.next <= pass.size
    /\ CASE LineAccount \in pass.heldBack ->
                Keep(LineAccount \in pass.waiting) /\ UNCHANGED filtered
         [] LineAccount \notin pass.heldBack /\ ~judged /\ tooLate ->
                mode = "running" /\ Reject /\ SetAside /\ UNCHANGED filtered
         [] LineAccount \notin pass.heldBack /\ ~judged /\ ~tooLate ->
                Keep(TRUE) /\ UNCHANGED filtered
         [] LineAccount \notin pass.heldBack /\ leftOut ->
                pass' = NextLine /\ filtered' = filtered \union {LineMessage} /\ SetAside
         [] OTHER ->
                /\ IF circuit.stopped \/ circuit.diversion = "down"
                     THEN Keep(FALSE)
                     ELSE pass' = [pass EXCEPT !.step = "inserting"] /\ UNCHANGED held
                /\ UNCHANGED filtered
    /\ UNCHANGED <<world, durable, live, circuit, turn, passes, recovery, heldTimer, left,
                   arrived, emitted, gone, late>>

\* insertOnce. A duplicate is stored already.
LineStored ==
    /\ pass.step = "inserting"
    /\ up /\ Storable(LineMessage)
    /\ Insert(LineMessage)
    /\ pass' = [NextLine EXCEPT !.stored = TRUE]
    /\ UNCHANGED <<world, failed, rejects, live, circuit, turn, passes, recovery,
                   heldTimer, left, history>>

LineRefused ==
    /\ pass.step = "inserting"
    /\ up /\ LineMessage \in Refused
    /\ Reject
    /\ UNCHANGED <<world, durable, live, circuit, turn, passes, recovery, heldTimer, left,
                   history>>

\* After any other failure a write of the probe's own tells whose fault it was.
LineFails ==
    /\ pass.step = "inserting"
    /\ pass' = [pass EXCEPT !.step = "probing"]
    /\ \/ /\ ~up \/ LineMessage \in Unstorable
          /\ UNCHANGED <<log, faults>>
       \/ /\ up /\ Storable(LineMessage)
          /\ Spend("answer")
          /\ Insert(LineMessage)
    /\ UNCHANGED <<mode, up, failed, rejects, live, circuit, turn, passes, recovery,
                   heldTimer, left,
                   history>>

ProbeLine ==
    /\ pass.step = "probing"
    /\ Keep(up)
    /\ circuit' = IF up THEN circuit ELSE Opened
    /\ UNCHANGED <<world, durable, live, turn, passes, recovery, heldTimer, left,
                   arrived, emitted, filtered, gone, late>>

\* Every line has been handed over. A pass that stored and rejected nothing leaves the
\* file as it is.
LinesDone ==
    /\ pass.step = "line"
    /\ pass.next > pass.size
    /\ IF Len(pass.kept) < pass.size
         THEN /\ pass' = [pass EXCEPT !.step = "toKeep"]
              /\ turn' = Append(turn, Turn("pass", FALSE))
              /\ UNCHANGED <<mode, circuit, passes, recovery, heldTimer, late>>
         ELSE EndPass("passed", pass.kept # <<>>) /\ UNCHANGED turn
    /\ UNCHANGED <<up, faults, durable, live, left, arrived, emitted, filtered, gone, held>>

\* (slip) what was appended while the pass ran is dropped.
KeepOnly_Truncates ==
    /\ FileIsFor("toKeep")
    /\ failed' = pass.kept
    /\ rejects' = rejects \union pass.rejected
    /\ EndPass("passed", pass.kept # <<>>)
    /\ UNCHANGED <<up, faults, log, live, left, arrived, emitted, filtered, gone, held>>

\* The file keeps what stays and what was appended meanwhile.
KeepOnly ==
    /\ FileIsFor("toKeep")
    /\ failed' = pass.kept \o SubSeq(failed, pass.size + 1, Len(failed))
    /\ rejects' = rejects \union pass.rejected
    /\ EndPass("passed", pass.kept # <<>>)
    /\ UNCHANGED <<up, faults, log, live, left, arrived, emitted, filtered, gone, held>>

\* It could not be rewritten: every line is there still, also what was stored or rejected.
KeepFails ==
    /\ FileIsFor("toKeep")
    /\ Spend("file")
    /\ rejects' \in {rejects, rejects \union pass.rejected}
    /\ held' = held \union InFile
    /\ EndPass("failed", TRUE)
    /\ UNCHANGED <<up, log, failed, live, left, arrived, emitted, filtered, gone>>

\* heldRetryTimer. Bound: one of its passes waits at a time.
RetryHeld ==
    /\ heldTimer
    /\ ~Contains(passes, "timer")
    /\ heldTimer' = FALSE
    /\ passes' = Append(passes, "timer")
    /\ UNCHANGED <<world, durable, live, circuit, turn, pass, recovery, left, history>>

---------------------------------------------------------------------------
\* Starting, shutting down and crashing

\* main(): a pass over the failed log before any account connects.
StartUp ==
    /\ mode = "off"
    /\ mode' = "starting"
    /\ passes' = <<"startup">>
    /\ UNCHANGED <<up, faults, durable, live, circuit, turn, pass, recovery, heldTimer,
                   left, history>>

\* drain(), with the providers closed: no one waits between attempts any more.
ShutDown ==
    /\ mode \in {"starting", "running"}
    /\ Spend("stop")
    /\ mode' = "draining"
    /\ circuit' = Stopped
    /\ heldTimer' = FALSE
    /\ UNCHANGED <<up, durable, live, turn, passes, pass, recovery, left, history>>

\* The queues have ended, or their time has passed: what is not stored is written off, the
\* messages of an account in the order they came.
GatherLeft ==
    /\ mode = "draining"
    /\ mode' = "leaving"
    /\ \E order \in SetToSeqs(unsaved) :
           /\ \A i, j \in DOMAIN order :
                  i < j /\ AccountOf[order[i]] = AccountOf[order[j]] => order[i] < order[j]
           /\ left' = order
    /\ unsaved' = {}
    /\ UNCHANGED <<up, faults, durable, queue, worker, enrichment, circuit, turn, passing,
                   history>>

\* A LID still to enrich cannot be judged yet, and goes to the failed log for a pass to judge.
WriteLeft ==
    /\ left # <<>>
    /\ \A i \in DOMAIN turn : turn[i].by # "drain"
    /\ LET e == enrichment[Head(left)] IN
       IF e = "pending" \/ Accepted(e)
         THEN /\ turn' = Append(turn, Turn("drain", e = "pending"))
              /\ NewsForRecover
              /\ UNCHANGED <<filtered, left>>
         ELSE /\ filtered' = filtered \union {Head(left)}
              /\ left' = Tail(left)
              /\ UNCHANGED <<turn, recovery>>
    /\ UNCHANGED <<world, durable, live, circuit, passes, pass, heldTimer, arrived,
                   emitted, gone, held, late>>

LeftAppended ==
    /\ turn # <<>> /\ Head(turn).by = "drain"
    /\ turn' = Tail(turn)
    /\ left' = Tail(left)
    /\ \/ /\ failed' = Append(failed, Entry(Head(left), Head(turn).lid))
          /\ UNCHANGED <<gone, faults>>
       \/ /\ Spend("file")
          /\ gone' = gone \union {Head(left)}
          /\ UNCHANGED failed
    /\ UNCHANGED <<mode, up, log, rejects, live, circuit, passing, arrived, emitted,
                   filtered, held, late>>

\* The process ends, and with it all it has in memory.
Forget ==
    /\ mode' = "off"
    /\ queue' = [a \in Account |-> <<>>]
    /\ worker' = [a \in Account |-> Idle]
    /\ unsaved' = {} /\ left' = <<>>
    /\ enrichment' = NotEnriched
    /\ circuit' = Closed
    /\ turn' = <<>> /\ passes' = <<>>
    /\ pass' = NoPass
    /\ recovery' = [r \in Recovery |-> NoRecovery]
    /\ heldTimer' = FALSE

Exit ==
    /\ mode = "leaving"
    /\ left = <<>>
    /\ Forget
    /\ UNCHANGED <<up, faults, durable, history>>

\* Killed, or out of the shutdown's time: what is only in memory is gone.
Crash ==
    /\ mode # "off"
    /\ Spend("stop")
    /\ gone' = gone \union unsaved \union ToSet(left)
    /\ Forget
    /\ UNCHANGED <<up, durable, arrived, emitted, filtered, held, late>>

StoreFails ==
    /\ up
    /\ Spend("outage")
    /\ up' = FALSE
    /\ UNCHANGED <<mode, durable, live, circuit, turn, passing, left, history>>

StoreReturns ==
    /\ ~up
    /\ up' = TRUE
    /\ UNCHANGED <<mode, faults, durable, live, circuit, turn, passing, left, history>>

---------------------------------------------------------------------------
WorkerStep(a) ==
    \/ Start(a)
    \/ \E e \in Resolution : Enriched(a, e)
    \/ Attempt(a)
    \/ Answer(a)
    \/ FailForGood(a)
    \/ Fail(a)
    \/ Appended(a)
    \/ Deliver(a)

PassStep ==
    \/ BeginPass
    \/ Read
    \/ ReadFails
    \/ \E resolution \in Resolution, tooLate \in BOOLEAN : SaveLine(resolution, tooLate)
    \/ LineStored
    \/ LineRefused
    \/ LineFails
    \/ ProbeLine
    \/ LinesDone
    \/ KeepOnly
    \/ KeepFails

ProbeStep == ProbeFires \/ ProbeFails \/ ProbeWrites

DrainStep == GatherLeft \/ WriteLeft \/ LeftAppended \/ Exit

Next ==
    \/ \E m \in Message : Handle(m)
    \/ \E a \in Account : WorkerStep(a)
    \/ PassStep
    \/ \E r \in Recovery : Resumed(r)
    \/ ProbeStep
    \/ RetryHeld
    \/ DrainStep
    \/ StartUp
    \/ ShutDown
    \/ Crash
    \/ StoreFails
    \/ StoreReturns

Spec == Init /\ [][Next]_vars

\* Every await ends, timers fire, a store that fails comes back, and the gateway is
\* started again.
Fairness ==
    /\ \A a \in Account : WF_vars(WorkerStep(a))
    /\ WF_vars(PassStep)
    /\ \A r \in Recovery : WF_vars(Resumed(r))
    /\ WF_vars(ProbeStep)
    /\ WF_vars(RetryHeld)
    /\ WF_vars(DrainStep)
    /\ WF_vars(StartUp)
    /\ WF_vars(StoreReturns)

FairSpec == Spec /\ Fairness

---------------------------------------------------------------------------
\* Properties

\* Types, with no more attempts than there are delays for.
TypeOK ==
    /\ mode \in {"off", "starting", "running", "draining", "leaving"}
    /\ up \in BOOLEAN
    /\ log \in [Account -> Seq(Message)]
    /\ failed \in Seq([message : Message, lid : BOOLEAN])
    /\ rejects \union unsaved \union filtered \union gone \union held \union late \subseteq arrived
    /\ arrived \subseteq Message
    /\ queue \in [Account -> Seq(Message)]
    /\ worker \in [Account -> [step : {"idle", "enriching", "ready", "calling",
                                       "writingOff", "replaying", "delivering"},
                               attempt : 0 .. MaxRetries]]
    /\ circuit \in [diversion : Diversion, stopped : BOOLEAN,
                    probe : {"none", "scheduled", "writing"}]
    /\ recovery \in [Recovery -> [running : BOOLEAN, missed : BOOLEAN, stored : BOOLEAN,
                               resuming : BOOLEAN]]
    /\ left \in Seq(Message)

\* No message that handle() accepted disappears: it is in memory still, in the message
\* log, in the failed log, in the log of rejects, left out by the filter, or reported
\* LOST when neither log would take it. Only a crash takes what was in memory.
NothingLost ==
    \A m \in arrived :
        \/ m \in unsaved \union ToSet(left)
        \/ Row(m) # {}
        \/ m \in InFile \union rejects \union filtered \union gone

\* "No event may carry a sequence that is not yet in the log": what an event is
\* numbered, its own envelope has in the log, so no two events share a number.
NumberedEventsAreStored ==
    \A m \in Message : emitted[m] > 0 =>
        /\ emitted[m] <= Len(log[AccountOf[m]])
        /\ log[AccountOf[m]][emitted[m]] = m

\* Of two messages of an account, only an exempt one has the later number and came first.
InOrderBut(exempt) ==
    \A a \in Account : \A i, j \in DOMAIN log[a] :
        i < j => log[a][i] < log[a][j] \/ log[a][j] \in exempt

\* "Until it is in, new messages follow it there, so numbers keep the order of arrival":
\* through outages, shutdowns and restarts. Only a message that waits in the failed log on
\* its own account (an unresolved LID, one the store fails to take while it is working, a
\* file that cannot be read, a LID that a pass cut short had judged) is overtaken, with what
\* it has behind.
ArrivalOrder == InOrderBut(held)

\* The same, leaving out what is overtaken while the pipeline drains, or because a recover()
\* of an outage that is over ended the recovery of the next.
OrderButForLate == InOrderBut(held \union late)

\* The circuit does not stay open once the store is back.
CircuitCloses == circuit.diversion # "none" ~> circuit.diversion = "none"

\* What is in the failed log gets out of it, whatever went wrong in between: only an entry
\* that no attempt can write stays, with what its account has in the file.
FailedLogEmpties ==
    \A m \in Message : m \in InFile ~>
        m \notin InFile \/ \E u \in Unstorable \cap InFile : AccountOf[u] = AccountOf[m]

\* No message waits for ever in its account's queue: neither for retries nor for the pass
\* that must come before the next.
QueuesMove == \A m \in Message : m \in unsaved ~> m \notin unsaved
====
