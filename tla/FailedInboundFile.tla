---- MODULE FailedInboundFile ----
(***************************************************************************)
(* FailedInboundFile: the failed log as a file of lines that is appended   *)
(* to, read and replaced, one operation at a time, while a pass hands its  *)
(* lines to save. The process may be killed and the power cut at any       *)
(* point, also halfway through a write, and any operation may fail. An     *)
(* empty line is not told apart from none: nobody reads it.                *)
(***************************************************************************)
EXTENDS Integers, Sequences

CONSTANTS
    Entry,       \* what append() is called with, once each
    NamesStay,   \* whether flushing a file makes its name in the directory stay too
    MaxFaults    \* bounds: how often each thing may go wrong

VARIABLES
    file,       \* what the path holds
    survivors,  \* what it may hold instead after a power cut
    rejects,    \* the entries in the file of rejects
    saved,      \* the entries the message log has
    turn,       \* fileTurn: who waits for the file, an entry to append or the pass
    pass,       \* the replayOnce() that is running
    asked,      \* history: the entries append() was called with
    acked,      \* history: those it resolved for
    faults      \* how often each thing may go wrong still

vars == <<file, survivors, rejects, saved, turn, pass, asked, acked, faults>>

ASSUME FileAssumption ==
    /\ "pass" \notin Entry /\ "torn" \notin Entry
    /\ NamesStay \in BOOLEAN
    /\ MaxFaults \in [{"save", "operation", "kill", "power"} -> Nat]

\* Part of a line: an entry, or what a write that was cut short left of one.
Fragment == Entry \union {"torn"}

\* A file of lines, the last of which may lack its end.
File == [there : BOOLEAN, lines : Seq(Seq(Fragment)), cutShort : BOOLEAN]

NoFile == [there |-> FALSE, lines |-> <<>>, cutShort |-> FALSE]

\* parseEntry takes an entry that is alone on its line, and nothing else.
Readable(line) == Len(line) = 1 /\ line[1] \in Entry

EntriesOf(lines) == {lines[i][1] : i \in {j \in DOMAIN lines : Readable(lines[j])}}

NoPass == [step |-> "none", lines |-> <<>>, size |-> 0, kept |-> <<>>, rejected |-> <<>>]

Init ==
    /\ file = NoFile /\ survivors = {}
    /\ rejects = {} /\ saved = {}
    /\ turn = <<>> /\ pass = NoPass
    /\ asked = {} /\ acked = {}
    /\ faults = MaxFaults

Spend(kind) ==
    /\ faults[kind] > 0
    /\ faults' = [faults EXCEPT ![kind] = @ - 1]

---------------------------------------------------------------------------
\* append

CallAppend(e) ==
    /\ e \notin asked
    /\ asked' = asked \union {e}
    /\ turn' = Append(turn, e)
    /\ UNCHANGED <<file, survivors, rejects, saved, pass, acked, faults>>

\* (slip) appended right behind what is there.
Extended_Glued(lines, fragment) ==
    IF file.cutShort
        THEN [lines EXCEPT ![Len(lines)] = Append(@, fragment)]
        ELSE Append(lines, <<fragment>>)

\* On a line of its own: endsCutShort puts an end of line first if the last has none.
Extended(lines, fragment) == Append(lines, <<fragment>>)

Appended(e) == [there |-> TRUE, lines |-> Extended(file.lines, e), cutShort |-> FALSE]

\* What an append that does not get to its end may leave.
HalfAppended(e) ==
    {file,
     [file EXCEPT !.there = TRUE, !.cutShort = FALSE],
     [there |-> TRUE, lines |-> Extended(file.lines, "torn"), cutShort |-> TRUE],
     [there |-> TRUE, lines |-> Extended(file.lines, e), cutShort |-> TRUE],
     Appended(e)}

\* Flushed, append resolves. The directory is not: with NamesStay = FALSE a power cut can
\* bring back what the path held before.
AppendEnds ==
    /\ turn # <<>> /\ Head(turn) \in Entry
    /\ file' = Appended(Head(turn))
    /\ acked' = acked \union {Head(turn)}
    /\ turn' = Tail(turn)
    /\ survivors' = CASE NamesStay -> {}
                      [] ~NamesStay /\ file.there -> survivors
                      [] OTHER -> survivors \union {NoFile}
    /\ UNCHANGED <<rejects, saved, pass, asked, faults>>

\* Nothing of it need be flushed.
AppendFails ==
    /\ turn # <<>> /\ Head(turn) \in Entry
    /\ Spend("operation")
    /\ file' \in HalfAppended(Head(turn))
    /\ survivors' = (survivors \union HalfAppended(Head(turn))) \ {file'}
    /\ turn' = Tail(turn)
    /\ UNCHANGED <<rejects, saved, pass, asked, acked>>

---------------------------------------------------------------------------
\* replay

\* replayTurn: a pass starts when no other is running.
Replay ==
    /\ pass.step = "none"
    /\ pass' = [NoPass EXCEPT !.step = "reading"]
    /\ turn' = Append(turn, "pass")
    /\ UNCHANGED <<file, survivors, rejects, saved, asked, acked, faults>>

PassHasFile(s) == pass.step = s /\ turn # <<>> /\ Head(turn) = "pass"

Read ==
    /\ PassHasFile("reading")
    /\ pass' = [pass EXCEPT !.step = "saving", !.lines = file.lines, !.size = Len(file.lines)]
    /\ turn' = Tail(turn)
    /\ UNCHANGED <<file, survivors, rejects, saved, asked, acked, faults>>

Line == Head(pass.lines)

NextLine == [pass EXCEPT !.lines = Tail(@)]

\* A line that cannot be read is rejected. save accepts an entry, refuses it for good, or
\* fails to take it for now; it may fail when the message log already has it.
SaveLine ==
    /\ pass.step = "saving"
    /\ pass.lines # <<>>
    /\ \/ /\ ~Readable(Line)
          /\ pass' = [NextLine EXCEPT !.rejected = Append(@, Line)]
          /\ UNCHANGED <<saved, faults>>
       \/ /\ Readable(Line)
          /\ saved' = saved \union {Line[1]}
          /\ pass' = NextLine
          /\ UNCHANGED faults
       \/ /\ Readable(Line)
          /\ Line[1] \notin saved
          /\ pass' = [NextLine EXCEPT !.rejected = Append(@, Line)]
          /\ UNCHANGED <<saved, faults>>
       \/ /\ Readable(Line)
          /\ Spend("save")
          /\ pass' = [NextLine EXCEPT !.kept = Append(@, Line)]
          /\ saved' \in {saved, saved \union {Line[1]}}
    /\ UNCHANGED <<file, survivors, rejects, turn, asked, acked>>

\* What is rejected is written down first, and then the file is left with what stays.
LinesDone ==
    /\ pass.step = "saving"
    /\ pass.lines = <<>>
    /\ \/ /\ pass.rejected # <<>>
          /\ pass' = [pass EXCEPT !.step = "rejecting"]
          /\ turn' = Append(turn, "pass")
       \/ /\ pass.rejected = <<>> /\ Len(pass.kept) < pass.size
          /\ pass' = [pass EXCEPT !.step = "keeping"]
          /\ turn' = Append(turn, "pass")
       \/ /\ pass.rejected = <<>> /\ Len(pass.kept) = pass.size
          /\ pass' = NoPass
          /\ UNCHANGED turn
    /\ UNCHANGED <<file, survivors, rejects, saved, asked, acked, faults>>

\* What a write of the rejected lines that does not get to its end may leave.
HalfRejected ==
    IF PassHasFile("rejecting")
        THEN {rejects \union EntriesOf(SubSeq(pass.rejected, 1, n)) :
                 n \in 0 .. Len(pass.rejected)}
        ELSE {rejects}

RejectLines ==
    /\ PassHasFile("rejecting")
    /\ rejects' = rejects \union EntriesOf(pass.rejected)
    /\ pass' = [pass EXCEPT !.step = "keeping"]
    /\ turn' = Append(Tail(turn), "pass")
    /\ UNCHANGED <<file, survivors, saved, asked, acked, faults>>

\* (slip) only what stays is written back.
Remaining_OnlyKept == pass.kept

\* What stays and what was appended since the pass read the file.
Remaining == pass.kept \o SubSeq(file.lines, pass.size + 1, Len(file.lines))

\* Nothing remains: the file is removed. The directory is not flushed.
RemoveFile ==
    /\ PassHasFile("keeping")
    /\ Remaining = <<>>
    /\ file' = NoFile
    /\ survivors' = survivors \union {file}
    /\ pass' = NoPass
    /\ turn' = Tail(turn)
    /\ UNCHANGED <<rejects, saved, asked, acked, faults>>

\* The temporary file is written, flushed and renamed ...
RenameFile ==
    /\ PassHasFile("keeping")
    /\ Remaining # <<>>
    /\ file' = [there |-> TRUE, lines |-> Remaining,
                cutShort |-> file.cutShort /\ Len(file.lines) > pass.size]
    /\ survivors' = survivors \union {file}
    /\ pass' = [pass EXCEPT !.step = "syncing"]
    /\ UNCHANGED <<rejects, saved, turn, asked, acked, faults>>

\* ... and the directory is flushed before the file's turn ends.
SyncDirectory ==
    /\ PassHasFile("syncing")
    /\ survivors' = {}
    /\ pass' = NoPass
    /\ turn' = Tail(turn)
    /\ UNCHANGED <<file, rejects, saved, asked, acked, faults>>

\* (slip) the turn of an operation that fails never ends.
PassFails_Blocks ==
    /\ PassHasFile("reading") \/ PassHasFile("rejecting") \/ PassHasFile("keeping")
    /\ Spend("operation")
    /\ rejects' \in HalfRejected
    /\ pass' = NoPass
    /\ turn' = <<"failed">> \o Tail(turn)
    /\ UNCHANGED <<file, survivors, saved, asked, acked>>

\* The file cannot be read, or one of the two cannot be written: the pass ends there and
\* the file stays as it was. Flushing the directory never fails the pass.
PassFails ==
    /\ PassHasFile("reading") \/ PassHasFile("rejecting") \/ PassHasFile("keeping")
    /\ Spend("operation")
    /\ rejects' \in HalfRejected
    /\ pass' = NoPass
    /\ turn' = Tail(turn)
    /\ UNCHANGED <<file, survivors, saved, asked, acked>>

---------------------------------------------------------------------------
\* The process is killed or the power goes, and the gateway starts again.

Forget == turn' = <<>> /\ pass' = NoPass

\* What the file holds if nothing is flushed any more.
Interrupted ==
    IF turn # <<>> /\ Head(turn) \in Entry THEN HalfAppended(Head(turn)) ELSE {file}

Kill ==
    /\ Spend("kill")
    /\ file' \in Interrupted
    /\ survivors' = (survivors \union Interrupted) \ {file'}
    /\ rejects' \in HalfRejected
    /\ Forget
    /\ UNCHANGED <<saved, asked, acked>>

PowerCut ==
    /\ Spend("power")
    /\ file' \in Interrupted \union survivors
    /\ survivors' = {}
    /\ rejects' \in HalfRejected
    /\ Forget
    /\ UNCHANGED <<saved, asked, acked>>

PassStep ==
    \/ Read
    \/ SaveLine
    \/ LinesDone
    \/ RejectLines
    \/ RemoveFile
    \/ RenameFile
    \/ SyncDirectory
    \/ PassFails

Next ==
    \/ \E e \in Entry : CallAppend(e)
    \/ AppendEnds
    \/ AppendFails
    \/ Replay
    \/ PassStep
    \/ Kill
    \/ PowerCut

Spec == Init /\ [][Next]_vars

\* The disk and save answer, and passes are called for again and again.
Fairness ==
    /\ WF_vars(AppendEnds \/ AppendFails)
    /\ WF_vars(Replay)
    /\ WF_vars(PassStep)

FairSpec == Spec /\ Fairness

---------------------------------------------------------------------------
\* Properties

Unsettled == acked \ (saved \union rejects)

\* Entry e is on a line of its own, a on one ahead of b's.
Holds(lines, e) == \E i \in DOMAIN lines : lines[i] = <<e>>

Ahead(lines, a, b) == \E i, j \in DOMAIN lines : i < j /\ lines[i] = <<a>> /\ lines[j] = <<b>>

FailedLog == INSTANCE FailedInboundLog WITH
    entries <- {e \in Unsettled : Holds(file.lines, e)},
    order <- {p \in Unsettled \X Unsettled : Ahead(file.lines, p[1], p[2])},
    appended <- acked

\* From when append resolves until save accepts the entry or it is written among the
\* rejects, it is in the file, in the order of the appends and on a line of its own:
\* across torn writes, appends during a pass, kills, power cuts and failing operations.
ImplementsFailedLog == FailedLog!Spec

\* Every entry append() resolved for is stored or rejected in the end: an operation that
\* fails gives up its turn on the file, and a pass that fails is followed by another.
EntriesGetOut == \A e \in Entry : e \in acked ~> e \in saved \union rejects
====
