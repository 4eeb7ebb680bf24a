---- MODULE GracefulShutdown ----
(***************************************************************************)
(* The boot and the way out of the process: signals and crashes at any     *)
(* point of either, the steps of the shutdown with the time each may take, *)
(* and the limit for all of them. Time runs from the first signal.         *)
(***************************************************************************)
EXTENDS Integers, Sequences, FiniteSetsExt

CONSTANTS
    MaxTime,    \* the seconds each step may take, in the order of gatewayShutdownSteps
    Total,      \* SHUTDOWN_TOTAL_MS
    MaxLate     \* bound: how many seconds the event loop is late with its timers, all in all

VARIABLES
    boot,       \* how far main() is
    schedules,  \* whether health checks and retention recur
    shutdown,   \* createGracefulShutdown: started, failed, clean, and the step it is at with its timer
    outcome,    \* how each step went
    code,       \* what the process ended with
    now,        \* seconds since the shutdown started
    late,       \* seconds of them that a timer was due and did not fire
    crashed     \* history: whether something escaped every handler

shutdownVars == <<boot, schedules, shutdown, outcome, code, now, late, crashed>>

Step == DOMAIN MaxTime

Running == "running"

ShutdownInit ==
    /\ boot = "loading"
    /\ schedules = FALSE
    /\ shutdown = [started |-> FALSE, failed |-> FALSE, clean |-> TRUE, step |-> 0, due |-> 0]
    /\ outcome = [s \in Step |-> "waiting"]
    /\ code = Running
    /\ now = 0 /\ late = 0
    /\ crashed = FALSE

Exit(c) == code' = c

\* process.exit
Stops(c) == Exit(c) /\ UNCHANGED <<schedules, shutdown, outcome, now, late>>

---------------------------------------------------------------------------
\* main()

\* The accounts, the store or the configuration: main() rejects. Nothing was accepted yet.
LoadFails == boot = "loading" /\ Stops("failure") /\ UNCHANGED <<boot, crashed>>

Goes(from, to) ==
    /\ boot = from /\ boot' = to
    /\ UNCHANGED <<schedules, shutdown, outcome, code, now, late, crashed>>

\* From here a signal finds the handlers.
HandlersInPlace == Goes("loading", "replaying")

\* replayFailed(), which has no limit of its own; that it fails is logged.
Replayed == Goes("replaying", "listening")

Listens == Goes("listening", "connecting")

\* The port is taken, or a shutdown has closed the server: the process ends at once, drained or not.
ListenFails == boot = "listening" /\ boot' = "failed" /\ Stops("failure") /\ UNCHANGED crashed

\* (slip) whether a shutdown began meanwhile is not asked.
Connected_Unasked ==
    /\ boot = "connecting"
    /\ boot' = "running" /\ schedules' = TRUE
    /\ UNCHANGED <<shutdown, outcome, code, now, late, crashed>>

\* connectManagedProviders() has ended: the schedules start, unless a shutdown began meanwhile.
Connected ==
    /\ boot = "connecting"
    /\ IF shutdown.started THEN boot' = "left" /\ UNCHANGED schedules
       ELSE boot' = "running" /\ schedules' = TRUE
    /\ UNCHANGED <<shutdown, outcome, code, now, late, crashed>>

---------------------------------------------------------------------------
\* The steps

\* The time a step gets: its own, or what is left.
Budget(s) == Min({MaxTime[s], Total - now})

\* The step is over, with its result; the next one begins, or the process ends.
StepEnds(result) ==
    LET s == shutdown.step
        clean == shutdown.clean /\ result = "ok"
    IN IF s < Len(MaxTime)
       THEN /\ shutdown' = [shutdown EXCEPT !.clean = clean, !.step = s + 1, !.due = now + Budget(s + 1)]
            /\ outcome' = [outcome EXCEPT ![s] = result, ![s + 1] = "running"]
            /\ UNCHANGED code
       ELSE /\ shutdown' = [shutdown EXCEPT !.clean = clean]
            /\ outcome' = [outcome EXCEPT ![s] = result]
            /\ Exit(IF clean /\ ~shutdown.failed THEN "success" ELSE "failure")

InStep == shutdown.step \in Step /\ UNCHANGED <<boot, schedules, now, late, crashed>>

StepSettles == InStep /\ StepEnds("ok")

StepFails == InStep /\ StepEnds("failed")

\* withinBudget: it goes on in the background, and the next step begins.
StepTimesOut == InStep /\ now >= shutdown.due /\ StepEnds("failed")

HardStop == InStep /\ now >= Total /\ Exit("failure") /\ UNCHANGED <<shutdown, outcome>>

\* Time passes; a timer that is due fires first, unless the event loop is late.
Tick ==
    LET due == now >= Min({shutdown.due, Total}) IN
    /\ shutdown.started
    /\ due => late < MaxLate
    /\ now' = now + 1
    /\ late' = IF due THEN late + 1 ELSE late
    /\ UNCHANGED <<boot, schedules, shutdown, outcome, code, crashed>>

---------------------------------------------------------------------------
\* Signals and crashes

\* run(): a second call runs nothing, but a failure counts. The first step stops the schedules
\* before it waits for the server.
Run(failed) ==
    IF shutdown.started
    THEN /\ shutdown' = [shutdown EXCEPT !.failed = @ \/ failed]
         /\ UNCHANGED <<schedules, outcome, code>>
    ELSE /\ shutdown' = [shutdown EXCEPT !.started = TRUE, !.failed = failed, !.step = 1, !.due = Budget(1)]
         /\ outcome' = [outcome EXCEPT ![1] = "running"]
         /\ schedules' = FALSE
         /\ UNCHANGED code

\* SIGTERM or SIGINT; before the handlers it just kills.
Signal ==
    /\ IF boot = "loading" THEN Stops("killed") ELSE Run(FALSE) /\ UNCHANGED <<now, late>>
    /\ UNCHANGED <<boot, crashed>>

\* exitOnCrash
Crash ==
    /\ crashed' = TRUE
    /\ IF boot = "loading" THEN Stops("failure") ELSE Run(TRUE) /\ UNCHANGED <<now, late>>
    /\ UNCHANGED boot

ShutdownNext ==
    /\ code = Running
    /\ \/ LoadFails \/ HandlersInPlace \/ Replayed \/ Listens \/ ListenFails \/ Connected
       \/ StepSettles \/ StepFails \/ StepTimesOut \/ HardStop \/ Tick
       \/ Signal \/ Crash

ShutdownSpec == ShutdownInit /\ [][ShutdownNext]_shutdownVars

---------------------------------------------------------------------------
\* What the first steps may take, one after the other ...
Elapsed[s \in 0 .. Len(MaxTime)] == IF s = 0 THEN 0 ELSE Elapsed[s - 1] + MaxTime[s]

\* ... leaves time for the next one. ("The budgets add up to SHUTDOWN_TOTAL_MS".)
TimesFit ==
    /\ MaxTime \in Seq(Nat) /\ MaxTime # <<>>
    /\ Total \in Nat /\ MaxLate \in Nat
    /\ \A s \in Step : s < Len(MaxTime) => Elapsed[s] < Total

---------------------------------------------------------------------------
\* Properties

\* Wherever in the boot or in the shutdown a signal or a crash arrives: the process reports
\* success only if every step ended well in its time and nothing crashed until the end; no
\* schedule runs once a shutdown has started, whichever of boot and shutdown is ahead; and
\* with timers that fire in time every step gets its turn before the limit, however long the
\* others take. ("exits, with 0 only if all went well", "The budgets add up", graceful-shutdown.ts.)
ShutdownIsOrderly ==
    /\ code = "success" => ~crashed /\ \A s \in Step : outcome[s] = "ok"
    /\ ~(schedules /\ shutdown.started)
    /\ shutdown.started /\ code # Running /\ boot # "failed" /\ late = 0 => \A s \in Step : outcome[s] # "waiting"
====
