---- MODULE InboundMedia ----
(***************************************************************************)
(* DiskMediaService, its files and the retention schedule: the media of a   *)
(* message is downloaded after the message is stored, with retries and a    *)
(* bound on how many downloads run at once; what a restart or a failure     *)
(* left pending is taken up again; old files and rows go.                   *)
(***************************************************************************)
EXTENDS Naturals, Sequences, FiniteSets

CONSTANTS
    LastMedia,     \* bound: the media are numbered 1 to LastMedia in the order of their rows
    Job,           \* bound: the run() calls there may be at once
    Concurrency,   \* download slots
    Retries,       \* how many delays DOWNLOAD_RETRY_DELAYS_MS has
    BatchSize,     \* rows per page when resuming
    Unrestorable   \* media whose stored raw payload cannot be restored

VARIABLES
    row,        \* the status of each media in the message log
    file,       \* its file on disk
    job,        \* the run() calls, and how far they are
    waiting,    \* `waiting`: who waits for a slot
    active,     \* `active`: slots taken
    resume,     \* resumePendingMedia()
    retention,  \* runRetention()
    running,    \* whether the process runs
    served,     \* history: media that were recorded as ready, and not removed by retention
    unrecorded  \* history: media whose outcome this process could not record or look for

mediaVars == <<row, file, job, waiting, active, resume, retention, running,
          served, unrecorded>>
store == <<row, file, served, unrecorded>>
work == <<job, waiting, active>>
tasks == <<resume, retention, running>>

Media == 1..LastMedia

\* resumed: resumePendingMedia() waits for it; rethrows: markSkipped() was called to.
NoJob == [media |-> 0, step |-> "none", attempt |-> 0, resumed |-> FALSE, rethrows |-> FALSE]

NoResume == [on |-> FALSE, after |-> 0]

NoRetention == [step |-> "idle", purged |-> {}]

MediaInit ==
    /\ row = [m \in Media |-> "none"] /\ file = [m \in Media |-> "none"]
    /\ job = [j \in Job |-> NoJob] /\ waiting = <<>> /\ active = 0
    /\ resume = NoResume /\ retention = NoRetention
    /\ running = TRUE /\ served = {} /\ unrecorded = {}

Free == {j \in Job : job[j] = NoJob}

\* Which of them a call takes makes no difference.
NextFree == CHOOSE j \in Free : TRUE

\* (slip) nobody remembers what is being worked on.
InFlight_Unguarded == {}

InFlight == {job[j].media : j \in Job \ Free}

---------------------------------------------------------------------------
\* run(), one await at a time

New(m, resumed) == [NoJob EXCEPT !.media = m, !.step = "acquire", !.resumed = resumed]

\* What is stored and cannot be restored is skipped without a download.
Resumed(m) ==
    IF m \in Unrestorable THEN [New(m, TRUE) EXCEPT !.step = "looking"] ELSE New(m, TRUE)

\* scheduleMedia(), after which nobody waits for the media or hears that it failed: process().
Scheduled(m) == job' = [job EXCEPT ![NextFree] = New(m, FALSE)]

\* The pipeline stored a message with a media.
Arrives ==
    /\ running
    /\ Free # {}
    /\ \E m \in Media :
           /\ row[m] = "none" /\ \A n \in 1..(m - 1) : row[n] # "none"
           /\ row' = [row EXCEPT ![m] = "pending"]
           /\ Scheduled(m)
    /\ UNCHANGED <<file, served, unrecorded, waiting, active, tasks>>

\* acquire()
Acquires(j) ==
    /\ job[j].step = "acquire"
    /\ IF active < Concurrency
         THEN /\ job' = [job EXCEPT ![j].step = "downloading"]
              /\ active' = active + 1 /\ UNCHANGED waiting
         ELSE /\ job' = [job EXCEPT ![j].step = "waiting"]
              /\ waiting' = Append(waiting, j) /\ UNCHANGED active
    /\ UNCHANGED <<store, tasks>>

\* release(): the slot passes to the first who waits.
Released(j, after) ==
    IF waiting = <<>>
      THEN /\ job' = [job EXCEPT ![j] = after]
           /\ active' = active - 1 /\ UNCHANGED waiting
      ELSE /\ job' = [job EXCEPT ![j] = after, ![Head(waiting)].step = "downloading"]
           /\ waiting' = Tail(waiting) /\ UNCHANGED active

\* run() is over. A raw payload that could not be restored held no slot.
Ends(j) ==
    IF job[j].media \in Unrestorable /\ job[j].resumed
      THEN job' = [job EXCEPT ![j] = NoJob] /\ UNCHANGED <<waiting, active>>
      ELSE Released(j, NoJob)

\* An attempt failed: another one follows a wait, or markSkipped() with the slot still held.
Fails(j) ==
    IF job[j].attempt < Retries
      THEN Released(j, [job[j] EXCEPT !.step = "delayed", !.attempt = @ + 1, !.rethrows = FALSE])
      ELSE /\ job' = [job EXCEPT ![j].step = "looking", ![j].rethrows = FALSE]
           /\ UNCHANGED <<waiting, active>>

Goes(j, step) == job' = [job EXCEPT ![j].step = step] /\ UNCHANGED <<waiting, active>>

\* downloadBaileysMedia: the data, an error or the end of its time, or nothing to store: too large,
\* as declared or as it comes, or no media at all.
DownloadResults == {"data", "error", "nothing"}

Downloads(j) ==
    /\ job[j].step = "downloading"
    /\ \E result \in DownloadResults :
           \/ result = "data" /\ Goes(j, "writing")
           \/ result = "error" /\ Fails(j)
           \/ /\ result = "nothing"
              /\ job' = [job EXCEPT ![j].step = "looking", ![j].rethrows = TRUE]
              /\ UNCHANGED <<waiting, active>>
    /\ UNCHANGED <<store, tasks>>

\* write(): the file is there once it is renamed.
Writes(j) ==
    /\ job[j].step = "writing"
    /\ \/ file' = [file EXCEPT ![job[j].media] = "fresh"] /\ Goes(j, "recording")
       \/ Fails(j) /\ UNCHANGED file
    /\ UNCHANGED <<row, served, unrecorded, tasks>>

\* updateMedia(): a row that was deleted is not written.
Recorded(m, status) == row' = [row EXCEPT ![m] = IF @ = "gone" THEN @ ELSE status]

\* The log may also fail to answer after it did what it was asked.
Records(j) ==
    LET m == job[j].media
    IN  /\ job[j].step = "recording"
        /\ \/ /\ Recorded(m, "ready")
              /\ served' = IF row[m] = "gone" THEN served ELSE served \union {m}
              /\ Ends(j) \/ Fails(j)
           \/ UNCHANGED <<row, served>> /\ Fails(j)
        /\ UNCHANGED <<file, unrecorded, tasks>>

\* What markSkipped() does with an error of the log.
NotSkipped(j) ==
    IF job[j].rethrows
      THEN Fails(j) /\ UNCHANGED unrecorded
      ELSE Ends(j) /\ unrecorded' = unrecorded \union {job[j].media}

\* markSkipped(): findById, and the update unless the media is ready.
LooksBeforeSkipping(j) ==
    /\ job[j].step = "looking"
    /\ \/ row[job[j].media] = "ready" /\ Ends(j) /\ UNCHANGED unrecorded
       \/ row[job[j].media] # "ready" /\ Goes(j, "skipping") /\ UNCHANGED unrecorded
       \/ NotSkipped(j)
    /\ UNCHANGED <<row, file, served, tasks>>

Skips(j) ==
    /\ job[j].step = "skipping"
    /\ \/ Recorded(job[j].media, "skipped") /\ Ends(j) /\ UNCHANGED unrecorded
       \/ Recorded(job[j].media, "skipped") /\ NotSkipped(j)
       \/ UNCHANGED row /\ NotSkipped(j)
    /\ UNCHANGED <<file, served, tasks>>

DelayPasses(j) ==
    /\ job[j].step = "delayed"
    /\ Goes(j, "acquire")
    /\ UNCHANGED <<store, tasks>>

JobStep(j) ==
    \/ Acquires(j) \/ Downloads(j) \/ Writes(j) \/ Records(j)
    \/ LooksBeforeSkipping(j) \/ Skips(j) \/ DelayPasses(j)

---------------------------------------------------------------------------
\* resumePendingMedia()

\* The pipeline stored what was in the failed log. A bound: no pass begins during another.
StartsResume ==
    /\ running /\ ~resume.on
    /\ resume' = [on |-> TRUE, after |-> 0]
    /\ UNCHANGED <<store, work, retention, running>>

PendingAfter(n) == {m \in Media : m > n /\ row[m] = "pending"}

\* The next page, once every run() of the last one is over. A media that is being worked on
\* is in good hands.
ResumesPage ==
    /\ resume.on /\ \A j \in Job : ~job[j].resumed
    /\ LET pending == PendingAfter(resume.after)
           page == {m \in pending : Cardinality({n \in pending : n < m}) < BatchSize}
       IN  IF page = {}
             THEN resume' = NoResume /\ UNCHANGED job
             ELSE /\ resume' = [resume EXCEPT !.after = CHOOSE m \in page : \A n \in page : n <= m]
                  /\ \E taken \in [page \ InFlight -> Free] :
                        /\ \A m, n \in page \ InFlight : taken[m] = taken[n] => m = n
                        /\ job' = [j \in Job |->
                              IF \E m \in page \ InFlight : taken[m] = j
                                THEN Resumed(CHOOSE m \in page \ InFlight : taken[m] = j)
                                ELSE job[j]]
    /\ UNCHANGED <<store, waiting, active, retention, running>>

\* The page cannot be read: the pass is over.
ResumeFails ==
    /\ resume.on /\ \A j \in Job : ~job[j].resumed
    /\ resume' = NoResume
    /\ unrecorded' = unrecorded \union (PendingAfter(resume.after) \ InFlight)
    /\ UNCHANGED <<row, file, served, work, retention, running>>

---------------------------------------------------------------------------
\* The retention schedule: one pass at a time

RetentionStarts ==
    /\ running /\ retention.step = "idle"
    /\ retention' = [step |-> "purging", purged |-> {}]
    /\ UNCHANGED <<store, work, resume, running>>

\* purgeOlderThan(): one file, the end of the folders, or an error, which leaves the files
\* removed and forgets which they were.
Purges ==
    /\ retention.step = "purging"
    /\ \/ \E m \in Media :
              /\ file[m] = "old"
              /\ file' = [file EXCEPT ![m] = "none"] /\ served' = served \ {m}
              /\ retention' = [retention EXCEPT !.purged = @ \union {m}]
       \/ retention' = [retention EXCEPT !.step = "marking"] /\ UNCHANGED <<file, served>>
       \/ retention' = [step |-> "deleting", purged |-> {}] /\ UNCHANGED <<file, served>>
    /\ UNCHANGED <<row, unrecorded, work, resume, running>>

MarksExpired ==
    /\ retention.step = "marking"
    /\ IF retention.purged = {}
         THEN retention' = [retention EXCEPT !.step = "deleting"] /\ UNCHANGED row
         ELSE \E m \in retention.purged :
                /\ retention' = [retention EXCEPT !.purged = @ \ {m}]
                /\ Recorded(m, "expired") \/ UNCHANGED row
    /\ UNCHANGED <<file, served, unrecorded, work, resume, running>>

\* deleteOlderThan(): rows are older than their files.
DeletesRows ==
    /\ retention.step = "deleting"
    /\ \E old \in SUBSET {m \in Media : row[m] # "none" /\ file[m] # "fresh"} :
           /\ row' = [m \in Media |-> IF m \in old THEN "gone" ELSE row[m]]
           /\ served' = served \ old
    /\ retention' = NoRetention
    /\ UNCHANGED <<file, unrecorded, work, resume, running>>

---------------------------------------------------------------------------
\* Time and the process

\* A file grows old: a pass fixes what that means when it starts. The gateway is not down for
\* as long as that with its media pending.
Ages(m) ==
    /\ retention.step = "idle"
    /\ file[m] = "fresh" /\ row[m] # "pending" /\ m \notin InFlight
    /\ file' = [file EXCEPT ![m] = "old"]
    /\ UNCHANGED <<row, served, unrecorded, work, tasks>>

Stops ==
    /\ running /\ running' = FALSE
    /\ job' = [j \in Job |-> NoJob] /\ waiting' = <<>> /\ active' = 0
    /\ resume' = NoResume /\ retention' = NoRetention /\ unrecorded' = {}
    /\ UNCHANGED <<row, file, served>>

\* (slip) what is pending is only taken up with what was in the failed log.
Starts_Idle ==
    /\ ~running /\ running' = TRUE
    /\ UNCHANGED <<store, work, resume, retention>>

\* main(): what is pending is taken up.
Starts ==
    /\ ~running /\ running' = TRUE
    /\ resume' = [on |-> TRUE, after |-> 0]
    /\ UNCHANGED <<store, work, retention>>

MediaNext ==
    \/ Arrives \/ \E j \in Job : JobStep(j)
    \/ StartsResume \/ ResumesPage \/ ResumeFails
    \/ RetentionStarts \/ Purges \/ MarksExpired \/ DeletesRows
    \/ \E m \in Media : Ages(m)
    \/ Stops \/ Starts

MediaSpec == MediaInit /\ [][MediaNext]_mediaVars

\* DEFAULT_CONCURRENCY and DEFAULT_RESUME_BATCH are at least one.
MediaBounds ==
    /\ LastMedia \in Nat /\ Unrestorable \subseteq Media
    /\ Concurrency \in Nat \ {0} /\ Retries \in Nat /\ BatchSize \in Nat \ {0}

---------------------------------------------------------------------------
\* Properties

\* A media that was recorded as ready is served, until retention removes it: no second attempt,
\* late failure, restart or pass of the retention takes it away, and its file is there.
\* (inFlight, markSkipped, write before updateMedia.)
ReadyIsServed == \A m \in served : row[m] = "ready" /\ file[m] # "none"

\* Slots are neither lost nor given twice, and nobody waits while one is free.
\* (acquire, release.)
SlotsAreKept ==
    /\ active = Cardinality({j \in Job : job[j].step \in {"downloading", "writing", "recording"}
                                \/ (job[j].step \in {"looking", "skipping"}
                                      /\ ~(job[j].resumed /\ job[j].media \in Unrestorable))})
    /\ active <= Concurrency /\ (waiting # <<>> => active = Concurrency)

\* Nobody forgets a pending media: it is being worked on, or a pass will come to it, unless this
\* process could not record its outcome, which the next one is left to do; and it does not wait
\* for a slot that nobody holds. (run, resuming, acquire, release.)
PendingIsRemembered ==
    /\ SlotsAreKept
    /\ running => \A m \in Media :
           row[m] = "pending" => \/ m \in InFlight \union unrecorded
                                 \/ resume.on /\ m > resume.after
====
