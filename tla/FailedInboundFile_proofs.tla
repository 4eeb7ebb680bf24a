---- MODULE FailedInboundFile_proofs ----
(***************************************************************************)
(* Proofs about FailedInboundFile, for any entries and any number of       *)
(* faults: that the file, its torn writes, its kills and its power cuts    *)
(* implement the log of FailedInboundLog, where flushing a file makes its  *)
(* name stay.                                                              *)
(***************************************************************************)
EXTENDS FailedInboundFile, SequenceTheorems, TLAPS

---------------------------------------------------------------------------
\* The inductive invariant

LineType == Seq(Fragment)

Steps == {"none", "reading", "saving", "rejecting", "keeping", "syncing"}

PassType ==
    [step : Steps, lines : Seq(LineType), size : Nat, kept : Seq(LineType), rejected : Seq(LineType)]

TypeInv ==
    /\ file \in File /\ survivors \subseteq File
    /\ rejects \subseteq Entry /\ saved \subseteq Entry
    /\ turn \in Seq(Entry \union {"pass"})
    /\ pass \in PassType
    /\ asked \subseteq Entry /\ acked \subseteq asked

\* What an entry leaves once its append has had its turn, for better or worse.
Somewhere(e) ==
    \/ e \in saved \union rejects \union acked
    \/ Holds(pass.lines, e) \/ Holds(pass.kept, e) \/ Holds(pass.rejected, e)
    \/ \E f \in survivors \union {file} : Holds(f.lines, e)

\* An entry is appended once: while it waits there is nothing of it.
AskedInv ==
    /\ \A e \in Entry : Somewhere(e) => e \in asked /\ \A i \in DOMAIN turn : turn[i] # e
    /\ \A i \in DOMAIN turn : turn[i] \in Entry => turn[i] \in asked
    /\ \A i, j \in DOMAIN turn : turn[i] \in Entry /\ turn[i] = turn[j] => i = j

\* Lines that hold what waits, in the order of the file.
Agrees(lines) ==
    /\ \A a \in Unsettled : Holds(lines, a)
    /\ \A a, b \in Unsettled : Ahead(lines, a, b) <=> Ahead(file.lines, a, b)

\* Nothing that waits is lost or moved, whatever the path holds after a power cut.
DiskInv == \A f \in survivors \union {file} : Agrees(f.lines)

HoldsTo(lines, n, e) == \E i \in 1 .. n : lines[i] = <<e>>

AheadTo(lines, n, a, b) == \E i, j \in 1 .. n : i < j /\ lines[i] = <<a>> /\ lines[j] = <<b>>

\* How many of its lines the pass is done with.
Done == pass.size - Len(pass.lines)

\* What waits and has not been refused in this pass.
Open == Unsettled \ EntriesOf(pass.rejected)

\* It goes through the lines the file began with, and keeps those that stay in their order.
Halfway ==
    /\ pass.size <= Len(file.lines) /\ Len(pass.lines) <= pass.size
    /\ \A i \in DOMAIN pass.lines : pass.lines[i] = file.lines[Done + i]
    /\ \A a \in Open : Holds(pass.kept, a) <=> HoldsTo(file.lines, Done, a)
    /\ \A a, b \in Open : Ahead(pass.kept, a, b) <=> AheadTo(file.lines, Done, a, b)

PassInv ==
    /\ pass.step = "reading" => pass.kept = <<>>
    /\ pass.step \in {"saving", "rejecting", "keeping"} => Halfway
    /\ pass.step \in {"rejecting", "keeping"} => pass.lines = <<>>
    /\ pass.step = "keeping" => EntriesOf(pass.rejected) \subseteq rejects

FileInv == TypeInv /\ AskedInv /\ DiskInv /\ PassInv

---------------------------------------------------------------------------
\* Lines

LEMMA OneFragment ==
    \A a, b : <<a>> = <<b>> <=> a = b
OBVIOUS

\* A line that is read is an entry and nothing else.
LEMMA ReadableLine ==
    ASSUME FileAssumption
    PROVE  /\ \A line \in LineType : Readable(line) => line[1] \in Entry /\ line = <<line[1]>>
           /\ \A e \in Entry : <<e>> \in LineType /\ Readable(<<e>>) /\ <<e>>[1] = e
           /\ <<"torn">> \in LineType /\ \A e \in Entry : <<"torn">> # <<e>>
<1>1. \A line \in LineType : Readable(line) => line[1] \in Entry /\ line = <<line[1]>>
  BY DEF LineType, Readable
<1>2. \A e \in Entry : <<e>> \in LineType /\ Readable(<<e>>) /\ <<e>>[1] = e
  BY DEF LineType, Readable, Fragment
<1>3. <<"torn">> \in LineType /\ \A e \in Entry : <<"torn">> # <<e>>
  BY DEF LineType, Fragment, FileAssumption
<1> QED
  BY <1>1, <1>2, <1>3

LEMMA EntriesAreHeld ==
    ASSUME FileAssumption, NEW lines \in Seq(LineType)
    PROVE  /\ \A e \in Entry : e \in EntriesOf(lines) <=> Holds(lines, e)
           /\ EntriesOf(lines) \subseteq Entry
<1>1. \A i \in DOMAIN lines : lines[i] \in LineType
  OBVIOUS
<1> QED
  BY <1>1, ReadableLine DEF EntriesOf, Holds

LEMMA NoLines ==
    /\ \A a, b : ~Holds(<<>>, a) /\ ~Ahead(<<>>, a, b)
    /\ EntriesOf(<<>>) = {}
BY DEF Holds, Ahead, EntriesOf

\* Where a line is, and which is ahead, of any lines.
HasLine(s, x) == \E i \in 1 .. Len(s) : s[i] = x

LineAhead(s, x, y) == \E i, j \in 1 .. Len(s) : i < j /\ s[i] = x /\ s[j] = y

LEMMA HoldsLine ==
    ASSUME NEW s \in Seq(LineType)
    PROVE  /\ \A a : Holds(s, a) <=> HasLine(s, <<a>>)
           /\ \A a, b : Ahead(s, a, b) <=> LineAhead(s, <<a>>, <<b>>)
<1>1. DOMAIN s = 1 .. Len(s)
  OBVIOUS
<1> QED
  BY <1>1, Zenon DEF Holds, Ahead, HasLine, LineAhead

LEMMA Together ==
    ASSUME NEW s \in Seq(LineType), NEW t \in Seq(LineType), NEW x, NEW y
    PROVE  /\ HasLine(s \o t, x) <=> (HasLine(s, x) \/ HasLine(t, x))
           /\ LineAhead(s \o t, x, y) <=>
                  (LineAhead(s, x, y) \/ LineAhead(t, x, y) \/ (HasLine(s, x) /\ HasLine(t, y)))
<1> DEFINE both == s \o t
<1>1. /\ Len(both) = Len(s) + Len(t) /\ Len(s) \in Nat /\ Len(t) \in Nat
      /\ \A i \in 1 .. Len(s) : both[i] = s[i]
      /\ \A i \in 1 .. Len(both) : i \notin 1 .. Len(s) => i - Len(s) \in 1 .. Len(t) /\ both[i] = t[i - Len(s)]
      /\ \A i \in 1 .. Len(t) : i + Len(s) \in 1 .. Len(both) /\ both[i + Len(s)] = t[i]
  OBVIOUS
<1> HIDE DEF both
<1>2. HasLine(both, x) <=> (HasLine(s, x) \/ HasLine(t, x))
  <2>1. ASSUME HasLine(both, x) PROVE HasLine(s, x) \/ HasLine(t, x)
    <3>1. PICK i \in 1 .. Len(both) : both[i] = x
      BY <2>1 DEF HasLine
    <3>2. CASE i \in 1 .. Len(s)
      BY <1>1, <3>1, <3>2 DEF HasLine
    <3>3. CASE i \notin 1 .. Len(s)
      BY <1>1, <3>1, <3>3 DEF HasLine
    <3> QED
      BY <3>2, <3>3
  <2>2. ASSUME HasLine(s, x) PROVE HasLine(both, x)
    <3>1. PICK i \in 1 .. Len(s) : s[i] = x
      BY <2>2 DEF HasLine
    <3>2. i \in 1 .. Len(both) /\ both[i] = x
      BY <1>1, <3>1
    <3> QED
      BY <3>2 DEF HasLine
  <2>3. ASSUME HasLine(t, x) PROVE HasLine(both, x)
    <3>1. PICK i \in 1 .. Len(t) : t[i] = x
      BY <2>3 DEF HasLine
    <3>2. i + Len(s) \in 1 .. Len(both) /\ both[i + Len(s)] = x
      BY <1>1, <3>1
    <3> QED
      BY <3>2 DEF HasLine
  <2> QED
    BY <2>1, <2>2, <2>3
<1>3. ASSUME LineAhead(both, x, y) PROVE LineAhead(s, x, y) \/ LineAhead(t, x, y) \/ (HasLine(s, x) /\ HasLine(t, y))
  <2>1. PICK i, j \in 1 .. Len(both) : i < j /\ both[i] = x /\ both[j] = y
    BY <1>3 DEF LineAhead
  <2>2. CASE j \in 1 .. Len(s)
    BY <1>1, <2>1, <2>2 DEF LineAhead
  <2>3. CASE i \in 1 .. Len(s) /\ j \notin 1 .. Len(s)
    BY <1>1, <2>1, <2>3 DEF HasLine
  <2>4. CASE i \notin 1 .. Len(s) /\ j \notin 1 .. Len(s)
    <3>1. i - Len(s) \in 1 .. Len(t) /\ j - Len(s) \in 1 .. Len(t) /\ i - Len(s) < j - Len(s)
          /\ t[i - Len(s)] = x /\ t[j - Len(s)] = y
      BY <1>1, <2>1, <2>4
    <3> QED
      BY <3>1 DEF LineAhead
  <2> QED
    BY <1>1, <2>1, <2>2, <2>3, <2>4
<1>4. LineAhead(s, x, y) => LineAhead(both, x, y)
  BY <1>1 DEF LineAhead
<1>5. LineAhead(t, x, y) => LineAhead(both, x, y)
  <2> SUFFICES ASSUME LineAhead(t, x, y) PROVE LineAhead(both, x, y)
    OBVIOUS
  <2>1. PICK i, j \in 1 .. Len(t) : i < j /\ t[i] = x /\ t[j] = y
    BY DEF LineAhead
  <2>2. i + Len(s) < j + Len(s) /\ both[i + Len(s)] = x /\ both[j + Len(s)] = y
        /\ i + Len(s) \in 1 .. Len(both) /\ j + Len(s) \in 1 .. Len(both)
    BY <1>1, <2>1
  <2> QED
    BY <2>2 DEF LineAhead
<1>6. HasLine(s, x) /\ HasLine(t, y) => LineAhead(both, x, y)
  <2> SUFFICES ASSUME HasLine(s, x), HasLine(t, y) PROVE LineAhead(both, x, y)
    OBVIOUS
  <2>1. PICK i \in 1 .. Len(s), j \in 1 .. Len(t) : s[i] = x /\ t[j] = y
    BY DEF HasLine
  <2>2. i < j + Len(s) /\ both[i] = x /\ both[j + Len(s)] = y
        /\ i \in 1 .. Len(both) /\ j + Len(s) \in 1 .. Len(both)
    BY <1>1, <2>1
  <2> QED
    BY <2>2 DEF LineAhead
<1> QED
  BY <1>2, <1>3, <1>4, <1>5, <1>6 DEF both

LEMMA LinesBehind ==
    ASSUME NEW s \in Seq(LineType), NEW t \in Seq(LineType)
    PROVE  /\ \A a : Holds(s \o t, a) <=> (Holds(s, a) \/ Holds(t, a))
           /\ \A a, b : Ahead(s \o t, a, b) <=>
                            (Ahead(s, a, b) \/ Ahead(t, a, b) \/ (Holds(s, a) /\ Holds(t, b)))
<1>1. s \o t \in Seq(LineType)
  OBVIOUS
<1> QED
  BY <1>1, Together, HoldsLine, Zenon

LEMMA OneMoreLine ==
    ASSUME NEW lines \in Seq(LineType), NEW line \in LineType
    PROVE  /\ \A a : Holds(Append(lines, line), a) <=> (Holds(lines, a) \/ line = <<a>>)
           /\ \A a, b : Ahead(Append(lines, line), a, b) <=>
                            (Ahead(lines, a, b) \/ (Holds(lines, a) /\ line = <<b>>))
<1>1. <<line>> \in Seq(LineType) /\ Append(lines, line) = lines \o <<line>>
  OBVIOUS
<1>2. \A x : HasLine(<<line>>, x) <=> line = x
  BY DEF HasLine
<1>3. \A x, y : ~LineAhead(<<line>>, x, y)
  BY DEF LineAhead
<1>4. \A a, b : (Holds(<<line>>, a) <=> line = <<a>>) /\ ~Ahead(<<line>>, a, b)
  BY <1>1, <1>2, <1>3, HoldsLine, Zenon
<1> DEFINE one == <<line>>
<1>5. /\ \A a : Holds(lines \o one, a) <=> (Holds(lines, a) \/ Holds(one, a))
      /\ \A a, b : Ahead(lines \o one, a, b) <=>
                       (Ahead(lines, a, b) \/ Ahead(one, a, b) \/ (Holds(lines, a) /\ Holds(one, b)))
  BY <1>1, LinesBehind
<1>6. one = <<line>>
  OBVIOUS
<1> HIDE DEF one
<1>7. \A a, b : (Holds(one, a) <=> line = <<a>>) /\ ~Ahead(one, a, b)
  BY <1>4, <1>6, Zenon
<1>8. Append(lines, line) = lines \o one
  BY <1>1, <1>6
<1> QED
  BY <1>5, <1>7, <1>8, Zenon

\* Of the first n lines of a file, and of those behind them.
LEMMA Beginning ==
    ASSUME NEW s \in Seq(LineType), NEW n \in 0 .. Len(s)
    PROVE  /\ SubSeq(s, 1, n) \in Seq(LineType) /\ SubSeq(s, n + 1, Len(s)) \in Seq(LineType)
           /\ s = SubSeq(s, 1, n) \o SubSeq(s, n + 1, Len(s))
           /\ \A a : HoldsTo(s, n, a) <=> Holds(SubSeq(s, 1, n), a)
           /\ \A a, b : AheadTo(s, n, a, b) <=> Ahead(SubSeq(s, 1, n), a, b)
<1> DEFINE t == SubSeq(s, 1, n)
<1>1. t \in Seq(LineType) /\ SubSeq(s, n + 1, Len(s)) \in Seq(LineType)
  OBVIOUS
<1>2. DOMAIN t = 1 .. n /\ \A i \in 1 .. n : t[i] = s[i]
  OBVIOUS
<1>3. s = t \o SubSeq(s, n + 1, Len(s))
  <2> DEFINE u == SubSeq(s, n + 1, Len(s))
  <2>1. Len(t) = n /\ Len(u) = Len(s) - n /\ u \in Seq(LineType) /\ t \in Seq(LineType)
    OBVIOUS
  <2>2. \A i \in 1 .. Len(s) - n : u[i] = s[n + i]
    OBVIOUS
  <2> HIDE DEF t, u
  <2> DEFINE both == t \o u
  <2>3. Len(both) = Len(s) /\ both \in Seq(LineType)
    BY <2>1
  <2>4. \A i \in 1 .. n : both[i] = s[i]
    BY <1>2, <2>1
  <2>5. \A i \in 1 .. Len(s) : i \notin 1 .. n => both[i] = s[i]
    <3> SUFFICES ASSUME NEW i \in 1 .. Len(s), i \notin 1 .. n PROVE both[i] = s[i]
      OBVIOUS
    <3>1. i - n \in 1 .. Len(s) - n /\ both[i] = u[i - n] /\ n + (i - n) = i
      BY <2>1
    <3> HIDE DEF both
    <3> QED
      BY <2>2, <3>1
  <2>6. \A i \in 1 .. Len(s) : both[i] = s[i]
    BY <2>4, <2>5
  <2> HIDE DEF both
  <2>7. both = s
    BY <2>3, <2>6, SeqEqual
  <2> QED
    BY <2>7 DEF both, u
<1> HIDE DEF t
<1>4. \A a : HoldsTo(s, n, a) <=> Holds(t, a)
  BY <1>2, Zenon DEF HoldsTo, Holds
<1>5. \A a, b : AheadTo(s, n, a, b) <=> Ahead(t, a, b)
  BY <1>2, Zenon DEF AheadTo, Ahead
<1> QED
  BY <1>1, <1>3, <1>4, <1>5 DEF t

LEMMA HeldBehind ==
    ASSUME NEW s \in Seq(LineType), NEW n \in Nat
    PROVE  \A a : Holds(SubSeq(s, n + 1, Len(s)), a) => Holds(s, a)
<1>1. CASE n \in 0 .. Len(s)
  <2> DEFINE t == SubSeq(s, 1, n)
             u == SubSeq(s, n + 1, Len(s))
  <2>1. t \in Seq(LineType) /\ u \in Seq(LineType) /\ s = t \o u
    BY <1>1, Beginning
  <2> HIDE DEF t, u
  <2>2. \A a : Holds(u, a) => Holds(t \o u, a)
    BY <2>1, LinesBehind
  <2>3. \A a : Holds(u, a) => Holds(s, a)
    BY <2>1, <2>2
  <2> QED
    BY <2>3 DEF u
<1>2. CASE n \notin 0 .. Len(s)
  <2>1. SubSeq(s, n + 1, Len(s)) = <<>>
    BY <1>2
  <2> QED
    BY <2>1, NoLines
<1> QED
  BY <1>1, <1>2

\* The pass is done with one more.
LEMMA OneMoreDone ==
    ASSUME NEW s \in Seq(LineType), NEW n \in Nat, n < Len(s)
    PROVE  /\ \A a : HoldsTo(s, n + 1, a) <=> (HoldsTo(s, n, a) \/ s[n + 1] = <<a>>)
           /\ \A a, b : AheadTo(s, n + 1, a, b) <=> (AheadTo(s, n, a, b) \/ (HoldsTo(s, n, a) /\ s[n + 1] = <<b>>))
<1>1. 1 .. n + 1 = (1 .. n) \union {n + 1} /\ n + 1 \notin 1 .. n
  OBVIOUS
<1>2. \A a : HoldsTo(s, n + 1, a) <=> (HoldsTo(s, n, a) \/ s[n + 1] = <<a>>)
  BY <1>1, Zenon DEF HoldsTo
<1>3. ASSUME NEW a, NEW b
      PROVE  AheadTo(s, n + 1, a, b) <=> (AheadTo(s, n, a, b) \/ (HoldsTo(s, n, a) /\ s[n + 1] = <<b>>))
  <2>1. \A i \in 1 .. n : i < n + 1
    OBVIOUS
  <2>2. \A j \in 1 .. n + 1 : ~(n + 1 < j)
    OBVIOUS
  <2> QED
    BY <1>1, <2>1, <2>2, Zenon DEF AheadTo, HoldsTo
<1> QED
  BY <1>2, <1>3

---------------------------------------------------------------------------
\* Types

LEMMA InitHolds ==
    ASSUME FileAssumption, Init PROVE FileInv
<1>1. NoFile \in File /\ NoPass \in PassType
  BY DEF NoFile, File, NoPass, PassType, Steps, LineType
<1>2. TypeInv
  BY <1>1 DEF Init, TypeInv
<1>3. pass.lines = <<>> /\ pass.kept = <<>> /\ pass.rejected = <<>> /\ file.lines = <<>> /\ pass.step = "none"
  BY DEF Init, NoPass, NoFile
<1>4. AskedInv
  BY <1>3, NoLines DEF Init, AskedInv, Somewhere
<1>5. DiskInv
  BY DEF Init, DiskInv, Agrees, Unsettled
<1>6. PassInv
  BY <1>3 DEF PassInv
<1> QED
  BY <1>2, <1>4, <1>5, <1>6 DEF FileInv

\* The turns, the first apart from the others.
LEMMA Turns ==
    ASSUME TypeInv, turn # <<>>
    PROVE  /\ Head(turn) \in Entry \union {"pass"} /\ 1 \in DOMAIN turn /\ turn[1] = Head(turn)
           /\ Tail(turn) \in Seq(Entry \union {"pass"})
           /\ \A i \in DOMAIN Tail(turn) : i + 1 \in DOMAIN turn /\ Tail(turn)[i] = turn[i + 1] /\ i + 1 # 1
BY DEF TypeInv

\* What may be in the place of the file, or come back there: its lines, and at most one more.
Extends(f) ==
    /\ f \in File
    /\ Len(file.lines) <= Len(f.lines)
    /\ \A i \in DOMAIN file.lines : f.lines[i] = file.lines[i]
    /\ \A a \in Unsettled : Holds(f.lines, a) <=> Holds(file.lines, a)
    /\ \A a, b \in Unsettled : Ahead(f.lines, a, b) <=> Ahead(file.lines, a, b)
    /\ \A e \in Entry : Holds(f.lines, e) => Holds(file.lines, e) \/ (turn # <<>> /\ e = Head(turn))

LEMMA TheFileItself ==
    ASSUME TypeInv PROVE Extends(file) /\ file.lines \in Seq(LineType) /\ file \in File
<1>1. file \in File /\ file.lines \in Seq(LineType)
  BY DEF TypeInv, File, LineType
<1> QED
  BY <1>1 DEF Extends

\* A waiting append has left nothing yet.
LEMMA NothingOfItYet ==
    ASSUME TypeInv, AskedInv, turn # <<>>, Head(turn) \in Entry
    PROVE  /\ ~Somewhere(Head(turn)) /\ Head(turn) \notin Unsettled
           /\ Head(turn) \in asked /\ \A i \in DOMAIN Tail(turn) : Tail(turn)[i] # Head(turn)
<1>1. 1 \in DOMAIN turn /\ turn[1] = Head(turn)
  BY Turns
<1>2. ~Somewhere(Head(turn)) /\ Head(turn) \in asked
  BY <1>1 DEF AskedInv
<1>3. Head(turn) \notin Unsettled
  BY <1>2 DEF Somewhere, Unsettled
<1>4. \A i \in DOMAIN Tail(turn) : Tail(turn)[i] # Head(turn)
  BY <1>1, Turns DEF AskedInv
<1> QED
  BY <1>2, <1>3, <1>4

LEMMA HalfAppends ==
    ASSUME FileAssumption, TypeInv, AskedInv, turn # <<>>, Head(turn) \in Entry, NEW h \in HalfAppended(Head(turn))
    PROVE  Extends(h)
<1> DEFINE e == Head(turn)
           F == file.lines
<1>1. F \in Seq(LineType) /\ file \in File
  BY TheFileItself
<1>2. <<e>> \in LineType /\ <<"torn">> \in LineType /\ \A a \in Entry : <<"torn">> # <<a>>
  BY ReadableLine
<1>3. e \notin Unsettled /\ Unsettled \subseteq Entry
  BY NothingOfItYet DEF Unsettled, TypeInv
<1>4. /\ \A f \in File : f = [there |-> f.there, lines |-> f.lines, cutShort |-> f.cutShort]
      /\ \A b, c \in BOOLEAN, l \in Seq(LineType) : [there |-> b, lines |-> l, cutShort |-> c] \in File
  BY DEF File, LineType
<1>5. h \in File /\ (h.lines = F \/ h.lines = Append(F, <<"torn">>) \/ h.lines = Append(F, <<e>>))
  <2>1. Append(F, <<"torn">>) \in Seq(LineType) /\ Append(F, <<e>>) \in Seq(LineType)
    BY <1>1, <1>2
  <2>2. [file EXCEPT !.there = TRUE, !.cutShort = FALSE] \in File
        /\ [file EXCEPT !.there = TRUE, !.cutShort = FALSE].lines = F
    BY <1>1 DEF File
  <2> QED
    BY <1>1, <1>4, <2>1, <2>2 DEF HalfAppended, Extended, Appended
<1>6. CASE h.lines = F
  BY <1>5, <1>6, <1>1 DEF Extends
<1>7. ASSUME NEW x \in {e, "torn"}, h.lines = Append(F, <<x>>) PROVE Extends(h)
  <2>1. <<x>> \in LineType /\ (\A a \in Unsettled : <<x>> # <<a>>) /\ \A a \in Entry : <<x>> = <<a>> => a = e
    BY <1>2, <1>3, OneFragment
  <2>2. /\ \A a : Holds(h.lines, a) <=> (Holds(F, a) \/ <<x>> = <<a>>)
        /\ \A a, b : Ahead(h.lines, a, b) <=> (Ahead(F, a, b) \/ (Holds(F, a) /\ <<x>> = <<b>>))
    BY <1>1, <1>7, <2>1, OneMoreLine
  <2>3. Len(F) <= Len(h.lines) /\ \A i \in DOMAIN F : h.lines[i] = F[i]
    BY <1>1, <1>7, <2>1
  <2>4. /\ \A a \in Unsettled : Holds(h.lines, a) <=> Holds(F, a)
        /\ \A a, b \in Unsettled : Ahead(h.lines, a, b) <=> Ahead(F, a, b)
        /\ \A a \in Entry : Holds(h.lines, a) => Holds(F, a) \/ a = e
    BY <2>1, <2>2, Zenon
  <2> QED
    BY <1>5, <2>3, <2>4, Zenon DEF Extends
<1> QED
  BY <1>5, <1>6, <1>7

LEMMA Interruptions ==
    ASSUME FileAssumption, TypeInv, AskedInv, NEW h \in Interrupted
    PROVE  Extends(h)
BY HalfAppends, TheFileItself DEF Interrupted

\* The rejects never gain but what the pass has refused, and keep what they have.
LEMMA HalfRejects ==
    ASSUME FileAssumption, TypeInv, NEW r \in HalfRejected
    PROVE  rejects \subseteq r /\ r \subseteq rejects \union EntriesOf(pass.rejected) /\ r \subseteq Entry
<1>1. pass.rejected \in Seq(LineType) /\ rejects \subseteq Entry
  BY DEF TypeInv, PassType
<1>2. ASSUME NEW n \in 0 .. Len(pass.rejected)
      PROVE  EntriesOf(SubSeq(pass.rejected, 1, n)) \subseteq EntriesOf(pass.rejected)
  <2> DEFINE s == pass.rejected
             t == SubSeq(s, 1, n)
             u == SubSeq(s, n + 1, Len(s))
  <2>1. t \in Seq(LineType) /\ u \in Seq(LineType) /\ s = t \o u
    BY <1>1, Beginning
  <2> HIDE DEF t, u
  <2>2. \A a : Holds(t, a) => Holds(t \o u, a)
    BY <2>1, LinesBehind
  <2>3. EntriesOf(t) \subseteq Entry /\ \A a \in Entry : (a \in EntriesOf(t) <=> Holds(t, a)) /\ (a \in EntriesOf(s) <=> Holds(s, a))
    BY <1>1, <2>1, EntriesAreHeld
  <2>4. EntriesOf(t) \subseteq EntriesOf(s)
    BY <2>1, <2>2, <2>3
  <2> QED
    BY <2>4 DEF t
<1>3. EntriesOf(pass.rejected) \subseteq Entry
  BY <1>1, EntriesAreHeld
<1> QED
  BY <1>1, <1>2, <1>3 DEF HalfRejected

LEMMA ThePass ==
    ASSUME TypeInv
    PROVE  /\ pass.step \in Steps /\ pass.size \in Nat
           /\ pass.lines \in Seq(LineType) /\ pass.kept \in Seq(LineType) /\ pass.rejected \in Seq(LineType)
           /\ pass = [step |-> pass.step, lines |-> pass.lines, size |-> pass.size,
                      kept |-> pass.kept, rejected |-> pass.rejected]
BY DEF TypeInv, PassType

LEMMA PassRecords ==
    /\ NoPass \in PassType /\ NoPass.step = "none"
    /\ NoPass.lines = <<>> /\ NoPass.kept = <<>> /\ NoPass.rejected = <<>>
BY DEF NoPass, PassType, Steps, LineType

LEMMA PassChanges ==
    ASSUME NEW p \in PassType
    PROVE  /\ \A st \in Steps : LET q == [p EXCEPT !.step = st] IN
                  /\ q \in PassType /\ q.step = st /\ q.size = p.size
                  /\ q.lines = p.lines /\ q.kept = p.kept /\ q.rejected = p.rejected
           /\ \A l \in Seq(LineType) : LET q == [p EXCEPT !.lines = l] IN
                  /\ q \in PassType /\ q.step = p.step /\ q.size = p.size
                  /\ q.lines = l /\ q.kept = p.kept /\ q.rejected = p.rejected
           /\ \A l \in Seq(LineType) : LET q == [p EXCEPT !.kept = l] IN
                  /\ q \in PassType /\ q.step = p.step /\ q.size = p.size
                  /\ q.lines = p.lines /\ q.kept = l /\ q.rejected = p.rejected
           /\ \A l \in Seq(LineType) : LET q == [p EXCEPT !.rejected = l] IN
                  /\ q \in PassType /\ q.step = p.step /\ q.size = p.size
                  /\ q.lines = p.lines /\ q.kept = p.kept /\ q.rejected = l
BY DEF PassType

\* What a line may do to the pass.
LEMMA TheLine ==
    ASSUME FileAssumption, TypeInv, SaveLine
    PROVE  /\ pass.step = "saving" /\ Line \in LineType /\ Line = pass.lines[1] /\ 1 \in DOMAIN pass.lines
           /\ Tail(pass.lines) \in Seq(LineType) /\ Len(Tail(pass.lines)) = Len(pass.lines) - 1
           /\ \A j \in DOMAIN Tail(pass.lines) : j + 1 \in DOMAIN pass.lines /\ Tail(pass.lines)[j] = pass.lines[j + 1]
           /\ pass'.step = "saving" /\ pass'.lines = Tail(pass.lines) /\ pass'.size = pass.size
           /\ \/ /\ ~Readable(Line) /\ saved' = saved
                 /\ pass'.kept = pass.kept /\ pass'.rejected = Append(pass.rejected, Line)
              \/ /\ Readable(Line) /\ saved' = saved \union {Line[1]}
                 /\ pass'.kept = pass.kept /\ pass'.rejected = pass.rejected
              \/ /\ Readable(Line) /\ saved' = saved
                 /\ pass'.kept = pass.kept /\ pass'.rejected = Append(pass.rejected, Line)
              \/ /\ Readable(Line) /\ saved' \in {saved, saved \union {Line[1]}}
                 /\ pass'.kept = Append(pass.kept, Line) /\ pass'.rejected = pass.rejected
           /\ saved \subseteq saved' /\ saved' \subseteq Entry /\ pass' \in PassType
<1>1. pass.step = "saving" /\ pass.lines # <<>> /\ pass.lines \in Seq(LineType)
  BY ThePass DEF SaveLine
<1>2. Line \in LineType /\ Line = pass.lines[1] /\ 1 \in DOMAIN pass.lines
      /\ Tail(pass.lines) \in Seq(LineType) /\ Len(Tail(pass.lines)) = Len(pass.lines) - 1
      /\ \A j \in DOMAIN Tail(pass.lines) : j + 1 \in DOMAIN pass.lines /\ Tail(pass.lines)[j] = pass.lines[j + 1]
  BY <1>1 DEF Line
<1>3. /\ NextLine \in PassType /\ NextLine.step = "saving" /\ NextLine.lines = Tail(pass.lines)
      /\ NextLine.size = pass.size /\ NextLine.kept = pass.kept /\ NextLine.rejected = pass.rejected
  BY <1>1, <1>2 DEF NextLine, TypeInv, PassType
<1>4. Append(NextLine.kept, Line) \in Seq(LineType) /\ Append(NextLine.rejected, Line) \in Seq(LineType)
  BY <1>2, <1>3, ThePass
<1> DEFINE After(k, r) ==
             /\ pass' \in PassType /\ pass'.step = "saving" /\ pass'.lines = Tail(pass.lines)
             /\ pass'.size = pass.size /\ pass'.kept = k /\ pass'.rejected = r
<1>5. /\ pass' = NextLine => After(pass.kept, pass.rejected)
      /\ pass' = [NextLine EXCEPT !.rejected = Append(@, Line)] => After(pass.kept, Append(pass.rejected, Line))
      /\ pass' = [NextLine EXCEPT !.kept = Append(@, Line)] => After(Append(pass.kept, Line), pass.rejected)
  <2> HIDE DEF After
  <2>1. pass' = NextLine => After(pass.kept, pass.rejected)
    BY <1>3 DEF After
  <2>2. ASSUME pass' = [NextLine EXCEPT !.rejected = Append(@, Line)]
        PROVE  After(pass.kept, Append(pass.rejected, Line))
    BY <1>3, <1>4, <2>2 DEF After, PassType
  <2>3. ASSUME pass' = [NextLine EXCEPT !.kept = Append(@, Line)]
        PROVE  After(Append(pass.kept, Line), pass.rejected)
    BY <1>3, <1>4, <2>3 DEF After, PassType
  <2> QED
    BY <2>1, <2>2, <2>3
<1> HIDE DEF After
<1>6. \/ ~Readable(Line) /\ saved' = saved /\ After(pass.kept, Append(pass.rejected, Line))
      \/ Readable(Line) /\ saved' = saved \union {Line[1]} /\ After(pass.kept, pass.rejected)
      \/ Readable(Line) /\ saved' = saved /\ After(pass.kept, Append(pass.rejected, Line))
      \/ Readable(Line) /\ saved' \in {saved, saved \union {Line[1]}} /\ After(Append(pass.kept, Line), pass.rejected)
  BY <1>5 DEF SaveLine
<1>7. Readable(Line) => Line[1] \in Entry
  BY <1>2, ReadableLine
<1>8. saved \subseteq saved' /\ saved' \subseteq Entry
  BY <1>6, <1>7 DEF TypeInv
<1> QED
  BY <1>1, <1>2, <1>6, <1>8 DEF After


LEMMA TheRemaining ==
    ASSUME TypeInv
    PROVE  /\ Remaining \in Seq(LineType)
           /\ Remaining = pass.kept \o SubSeq(file.lines, pass.size + 1, Len(file.lines))
           /\ SubSeq(file.lines, pass.size + 1, Len(file.lines)) \in Seq(LineType)
           /\ pass.step \in {"saving", "rejecting", "keeping"} /\ pass.size <= Len(file.lines) => pass.size \in 0 .. Len(file.lines)
<1>1. file.lines \in Seq(LineType) /\ pass.kept \in Seq(LineType) /\ pass.size \in Nat
  BY TheFileItself, ThePass
<1>2. SubSeq(file.lines, pass.size + 1, Len(file.lines)) \in Seq(LineType)
  BY <1>1
<1> QED
  BY <1>1, <1>2 DEF Remaining

LEMMA TypeStep ==
    ASSUME FileAssumption, TypeInv, AskedInv, Next PROVE TypeInv'
<1>1. ASSUME NEW e \in Entry, CallAppend(e) PROVE TypeInv'
  BY <1>1 DEF CallAppend, TypeInv
<1>2. CASE AppendEnds
  <2>1. Appended(Head(turn)) \in HalfAppended(Head(turn))
    BY DEF HalfAppended
  <2>2. file' \in File
    BY <1>2, <2>1, HalfAppends DEF AppendEnds, Extends
  <2>3. survivors' \subseteq File /\ Tail(turn) \in Seq(Entry \union {"pass"}) /\ acked' \subseteq asked
    <3>1. NoFile \in File
      BY DEF NoFile, File
    <3> QED
      BY <1>2, <3>1, Turns, NothingOfItYet DEF AppendEnds, TypeInv, FileAssumption
  <2> QED
    BY <1>2, <2>2, <2>3 DEF AppendEnds, TypeInv
<1>3. CASE AppendFails
  <2>1. HalfAppended(Head(turn)) \subseteq File
    BY <1>3, HalfAppends DEF AppendFails, Extends
  <2>2. turn' \in Seq(Entry \union {"pass"})
    BY <1>3, Turns DEF AppendFails
  <2> QED
    BY <1>3, <2>1, <2>2 DEF AppendFails, TypeInv
<1>4. CASE Replay
  <2>1. pass' \in PassType
    BY <1>4, PassRecords, PassChanges DEF Replay, Steps
  <2> QED
    BY <1>4, <2>1 DEF Replay, TypeInv
<1>5. CASE Read
  <2>1. pass' = [step |-> "saving", lines |-> file.lines, size |-> Len(file.lines), kept |-> pass.kept, rejected |-> pass.rejected]
    BY <1>5, ThePass DEF Read
  <2>2. pass' \in PassType
    BY <2>1, ThePass, TheFileItself DEF PassType, Steps
  <2> QED
    BY <1>5, <2>2, Turns DEF Read, PassHasFile, TypeInv
<1>6. CASE SaveLine
  BY <1>6, TheLine DEF SaveLine, TypeInv
<1>7. CASE LinesDone
  <2>1. pass' \in PassType
    <3>1. [pass EXCEPT !.step = "rejecting"] \in PassType /\ [pass EXCEPT !.step = "keeping"] \in PassType
      BY ThePass DEF PassType, Steps
    <3> QED
      BY <1>7, <3>1, PassRecords DEF LinesDone
  <2>2. turn' \in Seq(Entry \union {"pass"})
    <3>1. Append(turn, "pass") \in Seq(Entry \union {"pass"})
      BY DEF TypeInv
    <3> QED
      BY <1>7, <3>1 DEF LinesDone, TypeInv
  <2> QED
    BY <1>7, <2>1, <2>2 DEF LinesDone, TypeInv
<1>8. CASE RejectLines
  <2>1. pass' \in PassType
    BY <1>8, ThePass DEF RejectLines, PassType, Steps
  <2>2. turn' \in Seq(Entry \union {"pass"})
    BY <1>8, Turns DEF RejectLines, PassHasFile
  <2>3. rejects' \subseteq Entry
    BY <1>8, ThePass, EntriesAreHeld DEF RejectLines, TypeInv
  <2> QED
    BY <1>8, <2>1, <2>2, <2>3 DEF RejectLines, TypeInv
<1>9. CASE RemoveFile
  <2>1. NoFile \in File
    BY DEF NoFile, File
  <2> QED
    BY <1>9, <2>1, PassRecords, Turns DEF RemoveFile, PassHasFile, TypeInv
<1>10. CASE RenameFile
  <2>1. file' \in File
    <3>1. Remaining \in Seq(Seq(Fragment))
      BY TheRemaining DEF LineType
    <3>2. (file.cutShort /\ Len(file.lines) > pass.size) \in BOOLEAN
      OBVIOUS
    <3> QED
      BY <1>10, <3>1, <3>2 DEF RenameFile, File
  <2>2. pass' \in PassType
    BY <1>10, ThePass DEF RenameFile, PassType, Steps
  <2> QED
    BY <1>10, <2>1, <2>2 DEF RenameFile, TypeInv
<1>11. CASE SyncDirectory
  BY <1>11, PassRecords, Turns DEF SyncDirectory, PassHasFile, TypeInv
<1>12. CASE PassFails
  <2>1. turn # <<>>
    BY <1>12 DEF PassFails, PassHasFile
  <2> QED
    BY <1>12, <2>1, PassRecords, Turns, HalfRejects DEF PassFails, TypeInv
<1>13. CASE Kill
  <2>1. Interrupted \subseteq File
    BY Interruptions DEF Extends
  <2> QED
    BY <1>13, <2>1, PassRecords, HalfRejects DEF Kill, Forget, TypeInv
<1>14. CASE PowerCut
  <2>1. Interrupted \subseteq File
    BY Interruptions DEF Extends
  <2> QED
    BY <1>14, <2>1, PassRecords, HalfRejects DEF PowerCut, Forget, TypeInv
<1> QED
  BY <1>1, <1>2, <1>3, <1>4, <1>5, <1>6, <1>7, <1>8, <1>9, <1>10, <1>11, <1>12, <1>13, <1>14 DEF Next, PassStep

---------------------------------------------------------------------------
\* An entry is appended once

Waits(t, e) == \E i \in DOMAIN t : t[i] = e

Distinct(t) == \A i, j \in DOMAIN t : t[i] \in Entry /\ t[i] = t[j] => i = j

LEMMA MoreTurns ==
    ASSUME FileAssumption, NEW t \in Seq(Entry \union {"pass"}), Distinct(t)
    PROVE  Distinct(Append(t, "pass")) /\ \A e \in Entry : Waits(Append(t, "pass"), e) => Waits(t, e)
<1> DEFINE u == Append(t, "pass")
<1>1. /\ DOMAIN u = 1 .. Len(t) + 1 /\ DOMAIN t = 1 .. Len(t) /\ u[Len(t) + 1] = "pass" /\ Len(t) \in Nat
      /\ \A i \in 1 .. Len(t) : u[i] = t[i]
  OBVIOUS
<1>2. \A i \in DOMAIN u : i \in DOMAIN t \/ i = Len(t) + 1
  BY <1>1
<1> HIDE DEF u
<1>3. \A i \in DOMAIN u : u[i] \in Entry => i \in DOMAIN t /\ u[i] = t[i]
  BY <1>1, <1>2 DEF FileAssumption
<1> QED
  BY <1>3 DEF Distinct, Waits, u

LEMMA FewerTurns ==
    ASSUME TypeInv, turn # <<>>, Distinct(turn)
    PROVE  Distinct(Tail(turn)) /\ \A e \in Entry : Waits(Tail(turn), e) => Waits(turn, e)
<1>1. \A i \in DOMAIN Tail(turn) : i \in Int
  BY Turns
<1> QED
  BY <1>1, Turns DEF Distinct, Waits

LEMMA StillAsked ==
    ASSUME FileAssumption, TypeInv, AskedInv, asked' = asked,
           \/ turn' \in {turn, Append(turn, "pass"), <<>>}
           \/ turn # <<>> /\ turn' \in {Tail(turn), Append(Tail(turn), "pass")},
           \A e \in Entry : Somewhere(e)' =>
               Somewhere(e) \/ (turn # <<>> /\ e = Head(turn) /\ turn' \in {Tail(turn), <<>>})
    PROVE  AskedInv'
<1>1. turn \in Seq(Entry \union {"pass"}) /\ Distinct(turn)
  BY DEF TypeInv, AskedInv, Distinct
<1>2. \A e \in Entry : ~Waits(<<>>, e)
  BY DEF Waits
<1>3. Distinct(turn') /\ \A e \in Entry : Waits(turn', e) => Waits(turn, e)
  <2>1. Distinct(<<>>)
    BY DEF Distinct
  <2>2. CASE turn' \in {turn, Append(turn, "pass"), <<>>}
    <3>1. Distinct(Append(turn, "pass")) /\ \A e \in Entry : Waits(Append(turn, "pass"), e) => Waits(turn, e)
      BY <1>1, MoreTurns
    <3> QED
      BY <1>1, <1>2, <2>1, <2>2, <3>1
  <2>3. CASE turn # <<>> /\ turn' \in {Tail(turn), Append(Tail(turn), "pass")}
    <3>1. Tail(turn) \in Seq(Entry \union {"pass"})
      BY <2>3, Turns
    <3>2. Distinct(Tail(turn)) /\ \A e \in Entry : Waits(Tail(turn), e) => Waits(turn, e)
      BY <1>1, <2>3, FewerTurns
    <3>3. Distinct(Append(Tail(turn), "pass"))
          /\ \A e \in Entry : Waits(Append(Tail(turn), "pass"), e) => Waits(Tail(turn), e)
      BY <3>1, <3>2, MoreTurns
    <3> QED
      BY <2>3, <3>2, <3>3
  <2> QED
    BY <2>2, <2>3
<1>4. \A e \in Entry : Waits(turn, e) => e \in asked /\ ~Somewhere(e)
  BY DEF AskedInv, Waits
<1>5. ASSUME NEW e \in Entry, Somewhere(e)' PROVE e \in asked' /\ ~Waits(turn', e)
  <2>1. CASE Somewhere(e)
    BY <1>3, <1>4, <2>1 DEF AskedInv
  <2>2. CASE turn # <<>> /\ e = Head(turn) /\ turn' \in {Tail(turn), <<>>}
    <3>1. e \in asked /\ ~Waits(Tail(turn), e)
      BY <2>2, NothingOfItYet DEF Waits
    <3> QED
      BY <1>2, <2>2, <3>1
  <2> QED
    BY <1>5, <2>1, <2>2
<1>6. \A e \in Entry : Waits(turn', e) => e \in asked'
  BY <1>3, <1>4
<1> QED
  BY <1>3, <1>5, <1>6 DEF AskedInv, Waits, Distinct

\* A line that is refused or kept was one of the lines.
LEMMA ListedBefore ==
    ASSUME FileAssumption, TypeInv, SaveLine, NEW e \in Entry
    PROVE  /\ Holds(pass'.lines, e) => Holds(pass.lines, e)
           /\ Holds(pass'.kept, e) => Holds(pass.lines, e) \/ Holds(pass.kept, e)
           /\ Holds(pass'.rejected, e) => Holds(pass.lines, e) \/ Holds(pass.rejected, e)
           /\ e \in saved' => Holds(pass.lines, e) \/ e \in saved
<1>1. Line = <<e>> => Holds(pass.lines, e)
  BY TheLine DEF Holds
<1>2. Holds(pass'.lines, e) => Holds(pass.lines, e)
  BY TheLine DEF Holds
<1>3. Line \in LineType /\ pass.kept \in Seq(LineType) /\ pass.rejected \in Seq(LineType)
  BY TheLine, ThePass
<1>4. /\ Holds(Append(pass.kept, Line), e) <=> (Holds(pass.kept, e) \/ Line = <<e>>)
      /\ Holds(Append(pass.rejected, Line), e) <=> (Holds(pass.rejected, e) \/ Line = <<e>>)
  BY <1>3, OneMoreLine
<1>5. Readable(Line) /\ Line[1] = e => Line = <<e>>
  BY <1>3, ReadableLine
<1> QED
  BY <1>1, <1>2, <1>4, <1>5, TheLine

LEMMA AskedStep ==
    ASSUME FileAssumption, TypeInv, AskedInv, Next PROVE AskedInv'
<1>1. ASSUME NEW e \in Entry, CallAppend(e) PROVE AskedInv'
  <2>1. turn \in Seq(Entry \union {"pass"}) /\ turn' = Append(turn, e) /\ asked' = asked \union {e} /\ e \notin asked
    BY <1>1 DEF CallAppend, TypeInv
  <2>2. /\ DOMAIN turn' = 1 .. Len(turn) + 1 /\ DOMAIN turn = 1 .. Len(turn) /\ Len(turn) \in Nat
        /\ turn'[Len(turn) + 1] = e /\ \A i \in 1 .. Len(turn) : turn'[i] = turn[i]
    BY <2>1
  <2>3. \A i \in DOMAIN turn' : (i \in DOMAIN turn /\ turn'[i] = turn[i]) \/ (i = Len(turn) + 1 /\ turn'[i] = e)
    BY <2>2
  <2>4. \A x \in Entry : Somewhere(x)' => Somewhere(x)
    BY <1>1 DEF CallAppend, Somewhere
  <2>5. \A i \in DOMAIN turn : turn[i] # e
    BY <1>1, <2>1 DEF AskedInv
  <2>6. \A x \in Entry : Somewhere(x)' => x \in asked' /\ \A i \in DOMAIN turn' : turn'[i] # x
    BY <2>1, <2>3, <2>4 DEF AskedInv
  <2>7. \A i \in DOMAIN turn' : turn'[i] \in Entry => turn'[i] \in asked'
    BY <2>1, <2>3 DEF AskedInv
  <2>8. \A i, j \in DOMAIN turn' : turn'[i] \in Entry /\ turn'[i] = turn'[j] => i = j
    BY <2>3, <2>5 DEF AskedInv
  <2> QED
    BY <2>6, <2>7, <2>8 DEF AskedInv
<1>2. CASE AppendEnds
  <2>1. Appended(Head(turn)) \in HalfAppended(Head(turn)) /\ NoFile.lines = <<>>
    BY DEF HalfAppended, NoFile
  <2>2. Extends(file')
    BY <1>2, <2>1, HalfAppends DEF AppendEnds
  <2>3. \A f \in survivors' : f \in survivors \/ f.lines = <<>>
    BY <1>2, <2>1 DEF AppendEnds, FileAssumption
  <2>4. \A e \in Entry : Somewhere(e)' => Somewhere(e) \/ (turn # <<>> /\ e = Head(turn))
    BY <1>2, <2>2, <2>3, NoLines DEF AppendEnds, Somewhere, Extends
  <2> QED
    BY <1>2, <2>4, StillAsked DEF AppendEnds
<1>3. CASE AppendFails
  <2>1. \A h \in HalfAppended(Head(turn)) : Extends(h)
    BY <1>3, HalfAppends DEF AppendFails
  <2>2. \A f \in survivors' \union {file'} : f \in survivors \/ Extends(f)
    BY <1>3, <2>1 DEF AppendFails
  <2>3. \A e \in Entry : Somewhere(e)' => Somewhere(e) \/ (turn # <<>> /\ e = Head(turn))
    BY <1>3, <2>2 DEF AppendFails, Somewhere, Extends
  <2> QED
    BY <1>3, <2>3, StillAsked DEF AppendFails
<1>4. CASE Replay
  <2>1. pass'.lines = <<>> /\ pass'.kept = <<>> /\ pass'.rejected = <<>>
    BY <1>4 DEF Replay, NoPass
  <2>2. \A e \in Entry : Somewhere(e)' => Somewhere(e)
    BY <1>4, <2>1, NoLines DEF Replay, Somewhere
  <2> QED
    BY <1>4, <2>2, StillAsked DEF Replay
<1>5. CASE Read
  <2>1. pass'.lines = file.lines /\ pass'.kept = pass.kept /\ pass'.rejected = pass.rejected
    BY <1>5, ThePass DEF Read
  <2>2. \A e \in Entry : Somewhere(e)' => Somewhere(e)
    BY <1>5, <2>1 DEF Read, Somewhere
  <2> QED
    BY <1>5, <2>2, StillAsked DEF Read, PassHasFile
<1>6. CASE SaveLine
  <2>1. \A e \in Entry : Somewhere(e)' => Somewhere(e)
    BY <1>6, ListedBefore DEF SaveLine, Somewhere
  <2> QED
    BY <1>6, <2>1, StillAsked DEF SaveLine
<1>7. CASE LinesDone
  <2>1. (pass'.lines = pass.lines /\ pass'.kept = pass.kept /\ pass'.rejected = pass.rejected) \/ pass' = NoPass
    BY <1>7, ThePass DEF LinesDone
  <2>2. \A e \in Entry : Somewhere(e)' => Somewhere(e)
    BY <1>7, <2>1, PassRecords, NoLines DEF LinesDone, Somewhere
  <2> QED
    BY <1>7, <2>2, StillAsked DEF LinesDone
<1>8. CASE RejectLines
  <2>1. pass'.lines = pass.lines /\ pass'.kept = pass.kept /\ pass'.rejected = pass.rejected
    BY <1>8, ThePass DEF RejectLines
  <2>2. \A e \in Entry : e \in EntriesOf(pass.rejected) => Holds(pass.rejected, e)
    BY ThePass, EntriesAreHeld
  <2>3. \A e \in Entry : Somewhere(e)' => Somewhere(e)
    BY <1>8, <2>1, <2>2 DEF RejectLines, Somewhere
  <2> QED
    BY <1>8, <2>3, StillAsked DEF RejectLines, PassHasFile
<1>9. CASE RemoveFile
  <2>1. NoFile.lines = <<>>
    BY DEF NoFile
  <2>2. \A e \in Entry : Somewhere(e)' => Somewhere(e)
    BY <1>9, <2>1, PassRecords, NoLines DEF RemoveFile, Somewhere
  <2> QED
    BY <1>9, <2>2, StillAsked DEF RemoveFile, PassHasFile
<1>10. CASE RenameFile
  <2>1. pass'.lines = pass.lines /\ pass'.kept = pass.kept /\ pass'.rejected = pass.rejected /\ file'.lines = Remaining
    BY <1>10, ThePass DEF RenameFile
  <2>2. \A e \in Entry : Holds(Remaining, e) => Holds(pass.kept, e) \/ Holds(file.lines, e)
    <3> DEFINE rest == SubSeq(file.lines, pass.size + 1, Len(file.lines))
    <3>1. rest \in Seq(LineType) /\ Remaining = pass.kept \o rest /\ pass.kept \in Seq(LineType)
      BY TheRemaining, ThePass
    <3>2. \A e \in Entry : Holds(rest, e) => Holds(file.lines, e)
      <4>1. file.lines \in Seq(LineType) /\ pass.size \in Nat
        BY TheFileItself, ThePass
      <4> QED
        BY <4>1, HeldBehind
    <3> HIDE DEF rest
    <3>3. \A e : Holds(pass.kept \o rest, e) <=> (Holds(pass.kept, e) \/ Holds(rest, e))
      BY <3>1, LinesBehind
    <3> QED
      BY <3>1, <3>2, <3>3
  <2>3. \A e \in Entry : Somewhere(e)' => Somewhere(e)
    BY <1>10, <2>1, <2>2 DEF RenameFile, Somewhere
  <2> QED
    BY <1>10, <2>3, StillAsked DEF RenameFile
<1>11. CASE SyncDirectory
  <2>1. \A e \in Entry : Somewhere(e)' => Somewhere(e)
    BY <1>11, PassRecords, NoLines DEF SyncDirectory, Somewhere
  <2> QED
    BY <1>11, <2>1, StillAsked DEF SyncDirectory, PassHasFile
<1>12. \A e \in Entry : e \in EntriesOf(pass.rejected) => Holds(pass.rejected, e)
  BY ThePass, EntriesAreHeld
<1>13. CASE PassFails
  <2>1. rejects' \subseteq rejects \union EntriesOf(pass.rejected) /\ turn # <<>>
    BY <1>13, HalfRejects DEF PassFails, PassHasFile
  <2>2. \A e \in Entry : Somewhere(e)' => Somewhere(e)
    BY <1>12, <1>13, <2>1, PassRecords, NoLines DEF PassFails, Somewhere
  <2> QED
    BY <1>13, <2>1, <2>2, StillAsked DEF PassFails
<1>14. ASSUME Kill \/ PowerCut PROVE AskedInv'
  <2>1. rejects' \subseteq rejects \union EntriesOf(pass.rejected)
    BY <1>14, HalfRejects DEF Kill, PowerCut
  <2>2. \A f \in survivors' \union {file'} : f \in survivors \/ Extends(f)
    BY <1>14, Interruptions DEF Kill, PowerCut
  <2>3. \A e \in Entry : Somewhere(e)' => Somewhere(e) \/ (turn # <<>> /\ e = Head(turn))
    BY <1>12, <1>14, <2>1, <2>2, PassRecords, NoLines DEF Kill, PowerCut, Forget, Somewhere, Extends
  <2> QED
    BY <1>14, <2>3, StillAsked DEF Kill, PowerCut, Forget
<1> QED
  BY <1>1, <1>2, <1>3, <1>4, <1>5, <1>6, <1>7, <1>8, <1>9, <1>10, <1>11, <1>13, <1>14 DEF Next, PassStep

---------------------------------------------------------------------------
\* What the path holds

LEMMA ExtendsAgrees ==
    ASSUME DiskInv, NEW f, Extends(f) PROVE Agrees(f.lines)
BY DEF DiskInv, Extends, Agrees

LEMMA StillOnDisk ==
    ASSUME Unsettled' \subseteq Unsettled, \A f \in survivors' \union {file'} : Agrees(f.lines)
    PROVE  DiskInv'
<1>1. \A f \in survivors' \union {file'} : \A a \in Unsettled' : Holds(f.lines, a)
  BY DEF Agrees
<1>2. ASSUME NEW f \in survivors' \union {file'}, NEW a \in Unsettled', NEW b \in Unsettled'
      PROVE  Ahead(f.lines, a, b) <=> Ahead(file'.lines, a, b)
  BY DEF Agrees
<1> QED
  BY <1>1, <1>2 DEF DiskInv, Agrees

\* What the pass leaves is what waits.
LEMMA RemainingAgrees ==
    ASSUME FileAssumption, TypeInv, DiskInv, PassInv, pass.step = "keeping" PROVE Agrees(Remaining)
<1> DEFINE F == file.lines
           n == pass.size
           t == SubSeq(F, 1, n)
           u == SubSeq(F, n + 1, Len(F))
           k == pass.kept
<1>1. F \in Seq(LineType) /\ k \in Seq(LineType) /\ n \in Nat /\ pass.lines = <<>> /\ Halfway
  BY ThePass, TheFileItself DEF PassInv
<1>2. n \in 0 .. Len(F) /\ Done = n
  BY <1>1 DEF Halfway, Done
<1>3. /\ t \in Seq(LineType) /\ u \in Seq(LineType) /\ F = t \o u /\ Remaining = k \o u
      /\ \A a : HoldsTo(F, n, a) <=> Holds(t, a)
      /\ \A a, b : AheadTo(F, n, a, b) <=> Ahead(t, a, b)
  BY <1>1, <1>2, Beginning DEF Remaining
<1>4. \A a \in Unsettled : a \in Open
  BY DEF PassInv, Open, Unsettled
<1>5. /\ \A a \in Unsettled : Holds(k, a) <=> HoldsTo(F, n, a)
      /\ \A a, b \in Unsettled : Ahead(k, a, b) <=> AheadTo(F, n, a, b)
  BY <1>1, <1>2, <1>4 DEF Halfway
<1> HIDE DEF F, n, t, u, k
<1>6. /\ \A a : Holds(t \o u, a) <=> (Holds(t, a) \/ Holds(u, a))
      /\ \A a, b : Ahead(t \o u, a, b) <=> (Ahead(t, a, b) \/ Ahead(u, a, b) \/ (Holds(t, a) /\ Holds(u, b)))
  BY <1>3, LinesBehind
<1>7. /\ \A a : Holds(k \o u, a) <=> (Holds(k, a) \/ Holds(u, a))
      /\ \A a, b : Ahead(k \o u, a, b) <=> (Ahead(k, a, b) \/ Ahead(u, a, b) \/ (Holds(k, a) /\ Holds(u, b)))
  BY <1>1, <1>3, LinesBehind
<1>8. /\ \A a \in Unsettled : Holds(Remaining, a) <=> Holds(F, a)
      /\ \A a, b \in Unsettled : Ahead(Remaining, a, b) <=> Ahead(F, a, b)
  BY <1>3, <1>5, <1>6, <1>7, Zenon
<1>9. \A a \in Unsettled : Holds(F, a)
  BY DEF DiskInv, Agrees, F
<1> QED
  BY <1>8, <1>9 DEF Agrees, F

\* Entries get settled, and only a resolved append makes one unsettled.
LEMMA Settling ==
    ASSUME FileAssumption, TypeInv, AskedInv, Next
    PROVE  \/ AppendEnds /\ Unsettled' = Unsettled \union {Head(turn)} /\ saved' = saved /\ rejects' = rejects
           \/ /\ Unsettled' \subseteq Unsettled /\ acked' = acked
              /\ saved \subseteq saved' /\ rejects \subseteq rejects'
              /\ Unsettled' = Unsettled \ (saved' \union rejects')
<1>1. CASE AppendEnds
  <2>1. Head(turn) \notin saved \union rejects
    BY <1>1, NothingOfItYet DEF AppendEnds, Somewhere
  <2> QED
    BY <1>1, <2>1 DEF AppendEnds, Unsettled
<1>2. CASE ~AppendEnds
  <2>1. acked' = acked
    BY <1>2 DEF Next, PassStep, CallAppend, AppendFails, Replay, Read, SaveLine, LinesDone, RejectLines,
                RemoveFile, RenameFile, SyncDirectory, PassFails, Kill, PowerCut
  <2>2. saved \subseteq saved'
    <3>1. SaveLine => saved \subseteq saved'
      BY TheLine
    <3> QED
      BY <1>2, <3>1 DEF Next, PassStep, CallAppend, AppendFails, Replay, Read, LinesDone, RejectLines,
                        RemoveFile, RenameFile, SyncDirectory, PassFails, Kill, PowerCut
  <2>3. rejects \subseteq rejects'
    <3>1. \A r \in HalfRejected : rejects \subseteq r
      BY HalfRejects
    <3> QED
      BY <1>2, <3>1 DEF Next, PassStep, CallAppend, AppendFails, Replay, Read, SaveLine, LinesDone, RejectLines,
                        RemoveFile, RenameFile, SyncDirectory, PassFails, Kill, PowerCut
  <2> QED
    BY <2>1, <2>2, <2>3 DEF Unsettled
<1> QED
  BY <1>1, <1>2

\* Any step that ends no append leaves what waits where it is.
LEMMA FilesAgree ==
    ASSUME FileAssumption, FileInv, Next, ~AppendEnds
    PROVE  \A f \in survivors' \union {file'} : Agrees(f.lines)
<1> USE DEF FileInv
<1>1. \A f \in survivors \union {file} : Agrees(f.lines)
  BY DEF DiskInv
<1>2. CASE UNCHANGED <<file, survivors>>
  BY <1>1, <1>2
<1>3. CASE AppendFails
  <2>1. \A f \in survivors' \union {file'} : f \in survivors \/ Extends(f)
    BY <1>3, HalfAppends DEF AppendFails
  <2> QED
    BY <1>1, <2>1, ExtendsAgrees
<1>4. CASE Kill \/ PowerCut
  <2>1. \A f \in survivors' \union {file'} : f \in survivors \/ Extends(f)
    BY <1>4, Interruptions DEF Kill, PowerCut
  <2> QED
    BY <1>1, <2>1, ExtendsAgrees
<1>5. CASE RemoveFile \/ RenameFile
  <2>1. pass.step = "keeping" /\ file'.lines = Remaining /\ survivors' = survivors \union {file}
    BY <1>5 DEF RemoveFile, RenameFile, PassHasFile, NoFile
  <2>2. Agrees(file'.lines)
    BY <2>1, RemainingAgrees
  <2> QED
    BY <1>1, <2>1, <2>2
<1>6. CASE SyncDirectory
  BY <1>1, <1>6 DEF SyncDirectory
<1> QED
  BY <1>2, <1>3, <1>4, <1>5, <1>6
     DEF Next, PassStep, CallAppend, Replay, Read, SaveLine, LinesDone, RejectLines, PassFails

LEMMA DiskStep ==
    ASSUME FileAssumption, NamesStay, FileInv, Next PROVE DiskInv'
<1> USE DEF FileInv
<1>1. CASE AppendEnds
  <2> DEFINE e == Head(turn)
  <2>1. survivors' = {} /\ file'.lines = Append(file.lines, <<e>>) /\ e \in Entry /\ turn # <<>>
    BY <1>1 DEF AppendEnds, Appended, Extended
  <2>2. Unsettled' = Unsettled \union {e}
    BY <1>1, <2>1, Settling, NothingOfItYet DEF Unsettled, AppendEnds, Somewhere
  <2>3. <<e>> \in LineType /\ file.lines \in Seq(LineType)
    BY <2>1, ReadableLine, TheFileItself
  <2> HIDE DEF e
  <2>4. \A a : Holds(file'.lines, a) <=> (Holds(file.lines, a) \/ <<e>> = <<a>>)
    BY <2>1, <2>3, OneMoreLine
  <2>5. \A a \in Unsettled' : Holds(file'.lines, a)
    BY <2>2, <2>4 DEF DiskInv, Agrees
  <2> QED
    BY <2>1, <2>5 DEF DiskInv, Agrees
<1>2. CASE ~AppendEnds
  BY <1>2, Settling, FilesAgree, StillOnDisk
<1> QED
  BY <1>1, <1>2

---------------------------------------------------------------------------
\* How far the pass is

LEMMA SameBeginning ==
    ASSUME NEW s \in Seq(LineType), NEW t \in Seq(LineType), NEW n \in 0 .. Len(s), Len(s) <= Len(t),
           \A i \in DOMAIN s : t[i] = s[i]
    PROVE  /\ \A a : HoldsTo(t, n, a) <=> HoldsTo(s, n, a)
           /\ \A a, b : AheadTo(t, n, a, b) <=> AheadTo(s, n, a, b)
<1>1. \A i \in 1 .. n : i \in DOMAIN s /\ t[i] = s[i]
  OBVIOUS
<1> QED
  BY <1>1, Zenon DEF HoldsTo, AheadTo

\* An entry nothing is left of yet is not in any of its lines.
LEMMA Nowhere ==
    ASSUME TypeInv, Halfway, NEW e \in Entry, ~Somewhere(e)
    PROVE  /\ ~Holds(pass.kept, e) /\ ~HoldsTo(file.lines, Done, e)
           /\ \A a : ~Ahead(pass.kept, a, e) /\ ~Ahead(pass.kept, e, a)
           /\ \A a : ~AheadTo(file.lines, Done, a, e) /\ ~AheadTo(file.lines, Done, e, a)
<1>1. Done <= Len(file.lines) /\ Done \in Int /\ Len(file.lines) \in Nat
  BY ThePass, TheFileItself DEF Halfway, Done
<1>2. \A i \in 1 .. Done : i \in DOMAIN file.lines
  BY <1>1, TheFileItself
<1>3. ~Holds(pass.kept, e) /\ ~Holds(file.lines, e)
  BY DEF Somewhere
<1>4. ~HoldsTo(file.lines, Done, e)
  BY <1>2, <1>3, Zenon DEF Holds, HoldsTo
<1> QED
  BY <1>3, <1>4, Zenon DEF Holds, Ahead, HoldsTo, AheadTo

\* Whatever is appended, and whatever gets settled, the pass is as far as it was.
LEMMA StillHalfway ==
    ASSUME TypeInv, Halfway, Extends(file'),
           pass'.lines = pass.lines, pass'.size = pass.size,
           pass'.kept = pass.kept, pass'.rejected = pass.rejected,
           \A a \in Unsettled' : a \in Unsettled \/ (a \in Entry /\ ~Somewhere(a))
    PROVE  Halfway'
<1> DEFINE F == file.lines
           G == file'.lines
<1>1. /\ F \in Seq(LineType) /\ G \in Seq(LineType) /\ Len(F) <= Len(G) /\ \A i \in DOMAIN F : G[i] = F[i]
  BY TheFileItself DEF Extends, File, LineType
<1>2. /\ pass.size \in Nat /\ Len(pass.lines) \in Nat /\ pass.size <= Len(F) /\ Len(pass.lines) <= pass.size
      /\ Done \in 0 .. Len(F) /\ Done' = Done
  BY <1>1, ThePass DEF Halfway, Done
<1>3. \A i \in DOMAIN pass.lines : Done + i \in DOMAIN F
  BY <1>1, <1>2, ThePass DEF Done
<1>4. /\ \A a : HoldsTo(G, Done, a) <=> HoldsTo(F, Done, a)
      /\ \A a, b : AheadTo(G, Done, a, b) <=> AheadTo(F, Done, a, b)
  BY <1>1, <1>2, SameBeginning
<1>5. \A a \in Open' : a \in Open \/ (a \in Entry /\ ~Somewhere(a))
  BY DEF Open
<1>6. \A a \in Open' : Holds(pass.kept, a) <=> HoldsTo(F, Done, a)
  BY <1>5, Nowhere DEF Halfway
<1>7. \A a, b \in Open' : Ahead(pass.kept, a, b) <=> AheadTo(F, Done, a, b)
  <2> SUFFICES ASSUME NEW a \in Open', NEW b \in Open'
               PROVE  Ahead(pass.kept, a, b) <=> AheadTo(F, Done, a, b)
    OBVIOUS
  <2>1. CASE a \in Open /\ b \in Open
    BY <2>1 DEF Halfway
  <2>2. CASE a \in Entry /\ ~Somewhere(a)
    BY <2>2, Nowhere
  <2>3. CASE b \in Entry /\ ~Somewhere(b)
    BY <2>3, Nowhere
  <2> QED
    BY <1>5, <2>1, <2>2, <2>3
<1>8. pass'.size <= Len(G) /\ Len(pass'.lines) <= pass'.size
      /\ \A i \in DOMAIN pass'.lines : pass'.lines[i] = G[Done' + i]
  BY <1>1, <1>2, <1>3 DEF Halfway
<1>9. \A a \in Open' : Holds(pass'.kept, a) <=> HoldsTo(G, Done', a)
  BY <1>2, <1>4, <1>6
<1>10. \A a, b \in Open' : Ahead(pass'.kept, a, b) <=> AheadTo(G, Done', a, b)
  BY <1>2, <1>4, <1>7
<1> HIDE DEF F
<1> QED
  BY <1>8, <1>9, <1>10 DEF Halfway

\* A pass that begins has nothing behind it.
LEMMA BeginsHalfway ==
    ASSUME TypeInv, Read, pass.kept = <<>> PROVE Halfway'
<1>1. /\ pass'.lines = file.lines /\ pass'.size = Len(file.lines) /\ pass'.kept = <<>> /\ file' = file
  BY ThePass DEF Read
<1>2. file.lines \in Seq(LineType) /\ Len(file.lines) \in Nat
  BY TheFileItself
<1>3. Done' = 0
  BY <1>1, <1>2 DEF Done
<1>4. \A a, b : ~HoldsTo(file.lines, 0, a) /\ ~AheadTo(file.lines, 0, a, b)
  BY DEF HoldsTo, AheadTo
<1>5. \A i \in DOMAIN pass'.lines : pass'.lines[i] = file'.lines[Done' + i]
  BY <1>1, <1>2, <1>3
<1>6. \A a \in Open' : Holds(pass'.kept, a) <=> HoldsTo(file'.lines, Done', a)
  BY <1>1, <1>3, <1>4, NoLines
<1>7. \A a, b \in Open' : Ahead(pass'.kept, a, b) <=> AheadTo(file'.lines, Done', a, b)
  BY <1>1, <1>3, <1>4, NoLines
<1> QED
  BY <1>1, <1>2, <1>5, <1>6, <1>7 DEF Halfway

LEMMA OneMoreRefused ==
    ASSUME FileAssumption, TypeInv, NEW line \in LineType
    PROVE  EntriesOf(Append(pass.rejected, line)) =
               EntriesOf(pass.rejected) \union {e \in Entry : line = <<e>>}
<1>1. pass.rejected \in Seq(LineType) /\ Append(pass.rejected, line) \in Seq(LineType)
  BY ThePass
<1>2. \A a : Holds(Append(pass.rejected, line), a) <=> (Holds(pass.rejected, a) \/ line = <<a>>)
  BY <1>1, OneMoreLine
<1> QED
  BY <1>1, <1>2, EntriesAreHeld

\* A line that is done with is kept, or holds nothing that is open any more.
LEMMA LineDone ==
    ASSUME FileAssumption, TypeInv, SaveLine, Halfway PROVE Halfway'
<1> DEFINE F == file.lines
           n == Done
<1>1. /\ F \in Seq(LineType) /\ pass.size \in Nat /\ pass.size <= Len(F) /\ Len(pass.lines) <= pass.size
      /\ Len(pass.lines) \in Nat /\ Len(pass.lines) > 0 /\ Line = pass.lines[1] /\ Line \in LineType
      /\ \A i \in DOMAIN pass.lines : pass.lines[i] = F[n + i]
  BY ThePass, TheFileItself, TheLine DEF Halfway
<1>2. /\ pass'.lines = Tail(pass.lines) /\ pass'.size = pass.size /\ file' = file
      /\ Len(pass'.lines) = Len(pass.lines) - 1 /\ acked' = acked /\ rejects' = rejects
  BY TheLine DEF SaveLine
<1>3. n \in Nat /\ n < Len(F) /\ Done' = n + 1 /\ F[n + 1] = Line
  <2>1. n = pass.size - Len(pass.lines) /\ Done' = pass'.size - Len(pass'.lines)
    BY DEF Done
  <2>2. 1 \in DOMAIN pass.lines /\ pass.lines[1] = F[n + 1]
    BY <1>1, TheLine
  <2>3. Len(F) \in Nat /\ F[n + 1] = Line
    BY <1>1, <2>2
  <2> DEFINE l == Len(pass.lines)
             m == Len(F)
             d == Done'
  <2>4. /\ n = pass.size - l /\ d = pass.size - (l - 1)
        /\ l \in Nat /\ l > 0 /\ l <= pass.size /\ pass.size \in Nat /\ pass.size <= m /\ m \in Nat
    BY <1>1, <1>2, <2>1, <2>3
  <2> HIDE DEF F, n, l, m, d
  <2>5. n \in Nat /\ n < m /\ d = n + 1
    BY <2>4
  <2> QED
    BY <2>3, <2>5 DEF m, d
<1> HIDE DEF F, n
<1>4. /\ \A a : HoldsTo(F, n + 1, a) <=> (HoldsTo(F, n, a) \/ Line = <<a>>)
      /\ \A a, b : AheadTo(F, n + 1, a, b) <=> (AheadTo(F, n, a, b) \/ (HoldsTo(F, n, a) /\ Line = <<b>>))
  <2>1. /\ \A a : HoldsTo(F, n + 1, a) <=> (HoldsTo(F, n, a) \/ F[n + 1] = <<a>>)
        /\ \A a, b : AheadTo(F, n + 1, a, b) <=> (AheadTo(F, n, a, b) \/ (HoldsTo(F, n, a) /\ F[n + 1] = <<b>>))
    BY <1>1, <1>3, OneMoreDone
  <2> QED
    BY <1>3, <2>1
<1>5. \A j \in DOMAIN pass'.lines : pass'.lines[j] = F[Done' + j]
  <2> SUFFICES ASSUME NEW j \in DOMAIN Tail(pass.lines) PROVE Tail(pass.lines)[j] = F[n + 1 + j]
    BY <1>2, <1>3
  <2>1. j \in Nat /\ j + 1 \in DOMAIN pass.lines /\ Tail(pass.lines)[j] = pass.lines[j + 1]
    BY TheLine
  <2>2. \A i \in DOMAIN pass.lines : pass.lines[i] = F[n + i]
    BY <1>1
  <2>3. pass.lines[j + 1] = F[n + (j + 1)]
    BY <2>1, <2>2
  <2>4. n + (j + 1) = n + 1 + j
    BY <1>3, <2>1
  <2> QED
    BY <2>1, <2>3, <2>4
<1>6. EntriesOf(pass.rejected) \subseteq EntriesOf(pass'.rejected) /\ Unsettled' \subseteq Unsettled
  <2>1. EntriesOf(pass.rejected) \subseteq EntriesOf(Append(pass.rejected, Line))
    BY <1>1, OneMoreRefused
  <2> QED
    BY <1>2, <2>1, TheLine DEF Unsettled
<1>7. Open' \subseteq Open
  BY <1>6 DEF Open
<1>8. /\ \A a \in Open : Holds(pass.kept, a) <=> HoldsTo(F, n, a)
      /\ \A a, b \in Open : Ahead(pass.kept, a, b) <=> AheadTo(F, n, a, b)
  BY DEF Halfway, F, n
<1>9. CASE pass'.kept = Append(pass.kept, Line)
  <2>1. /\ \A a : Holds(pass'.kept, a) <=> (Holds(pass.kept, a) \/ Line = <<a>>)
        /\ \A a, b : Ahead(pass'.kept, a, b) <=> (Ahead(pass.kept, a, b) \/ (Holds(pass.kept, a) /\ Line = <<b>>))
    <3>1. pass.kept \in Seq(LineType)
      BY ThePass
    <3>2. /\ \A a : Holds(Append(pass.kept, Line), a) <=> (Holds(pass.kept, a) \/ Line = <<a>>)
          /\ \A a, b : Ahead(Append(pass.kept, Line), a, b) <=>
                           (Ahead(pass.kept, a, b) \/ (Holds(pass.kept, a) /\ Line = <<b>>))
      BY <1>1, <3>1, OneMoreLine
    <3> QED
      BY <1>9, <3>2
  <2>2. /\ \A a \in Open' : Holds(pass'.kept, a) <=> HoldsTo(F, n + 1, a)
        /\ \A a, b \in Open' : Ahead(pass'.kept, a, b) <=> AheadTo(F, n + 1, a, b)
    BY <1>4, <1>7, <1>8, <2>1, Zenon
  <2> QED
    BY <1>1, <1>2, <1>3, <1>5, <2>2 DEF Halfway, F
<1>10. CASE pass'.kept = pass.kept /\ \A a \in Open' : Line # <<a>>
  <2>1. /\ \A a \in Open' : Holds(pass'.kept, a) <=> HoldsTo(F, n + 1, a)
        /\ \A a, b \in Open' : Ahead(pass'.kept, a, b) <=> AheadTo(F, n + 1, a, b)
    BY <1>4, <1>7, <1>8, <1>10
  <2> QED
    BY <1>1, <1>2, <1>3, <1>5, <2>1 DEF Halfway, F
<1>11. pass'.kept = pass.kept => \A a \in Open' : Line # <<a>> \/ pass'.kept = Append(pass.kept, Line)
  <2> SUFFICES ASSUME NEW a \in Open', Line = <<a>>, pass'.kept # Append(pass.kept, Line) PROVE FALSE
    OBVIOUS
  <2>1. a \in Entry /\ a \notin saved' /\ a \notin EntriesOf(pass'.rejected)
    BY <1>2 DEF Open, Unsettled, TypeInv
  <2>2. Readable(Line) /\ Line[1] = a
    BY <2>1, ReadableLine
  <2>3. pass'.rejected = Append(pass.rejected, Line)
    BY <2>1, <2>2, TheLine
  <2>4. a \in EntriesOf(pass'.rejected)
    BY <1>1, <2>1, <2>3, OneMoreRefused
  <2> QED
    BY <2>1, <2>4
<1> QED
  BY <1>9, <1>10, <1>11, TheLine

LEMMA PassInvStep ==
    ASSUME FileAssumption, FileInv, Next PROVE PassInv'
<1> USE DEF FileInv
<1>1. \A a \in Unsettled' : a \in Unsettled \/ (a \in Entry /\ ~Somewhere(a))
  BY Settling, NothingOfItYet DEF AppendEnds
<1>2. rejects \subseteq rejects'
  BY Settling
<1>3. ASSUME pass' = pass, Extends(file') PROVE PassInv'
  <2>1. Halfway => Halfway'
    BY <1>1, <1>3, StillHalfway
  <2> QED
    BY <1>2, <1>3, <2>1 DEF PassInv
<1>4. ASSUME pass' = NoPass PROVE PassInv'
  BY <1>4, PassRecords DEF PassInv
<1>5. CASE \E e \in Entry : CallAppend(e)
  BY <1>3, <1>5, TheFileItself DEF CallAppend
<1>6. CASE AppendEnds
  <2>1. Appended(Head(turn)) \in HalfAppended(Head(turn))
    BY DEF HalfAppended
  <2>2. Extends(file')
    BY <1>6, <2>1, HalfAppends DEF AppendEnds
  <2> QED
    BY <1>3, <1>6, <2>2 DEF AppendEnds
<1>7. CASE AppendFails
  BY <1>3, <1>7, HalfAppends DEF AppendFails
<1>8. CASE Replay
  <2>1. pass'.step = "reading" /\ pass'.kept = <<>>
    BY <1>8 DEF Replay, NoPass
  <2> QED
    BY <2>1 DEF PassInv
<1>9. CASE Read
  <2>1. pass.kept = <<>> /\ pass'.step = "saving"
    BY <1>9, ThePass DEF PassInv, Read, PassHasFile
  <2>2. Halfway'
    BY <1>9, <2>1, BeginsHalfway
  <2> QED
    BY <2>1, <2>2 DEF PassInv
<1>10. CASE SaveLine
  <2>1. pass.step = "saving" /\ pass'.step = "saving"
    BY <1>10, TheLine
  <2>2. Halfway'
    BY <1>10, <2>1, LineDone DEF PassInv
  <2> QED
    BY <2>1, <2>2 DEF PassInv
<1>11. CASE LinesDone
  <2>1. CASE pass' = NoPass
    BY <1>4, <2>1
  <2>2. CASE pass' # NoPass
    <3>1. /\ pass.step = "saving" /\ pass.lines = <<>> /\ pass'.step \in {"rejecting", "keeping"}
          /\ pass'.lines = pass.lines /\ pass'.size = pass.size
          /\ pass'.kept = pass.kept /\ pass'.rejected = pass.rejected
          /\ pass'.step = "keeping" => pass.rejected = <<>>
      BY <1>11, <2>2, ThePass DEF LinesDone
    <3>2. file' = file
      BY <1>11 DEF LinesDone
    <3>3. Halfway'
      BY <1>1, <3>1, <3>2, StillHalfway, TheFileItself DEF PassInv
    <3> QED
      BY <3>1, <3>3, NoLines DEF PassInv
  <2> QED
    BY <2>1, <2>2
<1>12. CASE RejectLines
  <2>1. /\ pass.step = "rejecting" /\ pass'.step = "keeping"
        /\ pass'.lines = pass.lines /\ pass'.size = pass.size
        /\ pass'.kept = pass.kept /\ pass'.rejected = pass.rejected
        /\ file' = file /\ EntriesOf(pass.rejected) \subseteq rejects'
    BY <1>12, ThePass DEF RejectLines, PassHasFile
  <2>2. Halfway'
    BY <1>1, <2>1, StillHalfway, TheFileItself DEF PassInv
  <2> QED
    BY <2>1, <2>2 DEF PassInv
<1>13. CASE RenameFile
  <2>1. pass'.step = "syncing"
    BY <1>13, ThePass DEF RenameFile
  <2> QED
    BY <2>1 DEF PassInv
<1> QED
  BY <1>4, <1>5, <1>6, <1>7, <1>8, <1>9, <1>10, <1>11, <1>12, <1>13
     DEF Next, PassStep, RemoveFile, SyncDirectory, PassFails, Kill, PowerCut, Forget

LEMMA FileStep ==
    ASSUME FileAssumption, NamesStay, FileInv, [Next]_vars PROVE FileInv'
<1>1. CASE Next
  BY <1>1, TypeStep, AskedStep, DiskStep, PassInvStep DEF FileInv
<1>2. CASE UNCHANGED vars
  <2>1. TypeInv'
    BY <1>2 DEF FileInv, vars, TypeInv
  <2>2. AskedInv'
    BY <1>2 DEF FileInv, vars, AskedInv, Somewhere
  <2>3. DiskInv'
    BY <1>2 DEF FileInv, vars, DiskInv, Agrees, Unsettled
  <2>4. PassInv'
    BY <1>2 DEF FileInv, vars, PassInv, Halfway, Open, Unsettled, Done
  <2> QED
    BY <2>1, <2>2, <2>3, <2>4 DEF FileInv
<1> QED
  BY <1>1, <1>2

---------------------------------------------------------------------------
\* The log that is implemented

\* The entries of the log, and their order.
Waiting == {e \in Unsettled : Holds(file.lines, e)}

Order == {p \in Unsettled \X Unsettled : Ahead(file.lines, p[1], p[2])}

LEMMA Abstracted ==
    ASSUME FileInv PROVE Waiting = Unsettled
BY DEF FileInv, DiskInv, Agrees, Waiting

LEMMA AppendIsAbstract ==
    ASSUME FileAssumption, NamesStay, FileInv, AppendEnds PROVE FailedLog!AppendEntry(Head(turn))
<1> DEFINE e == Head(turn)
<1>1. e \in Entry /\ turn # <<>> /\ acked' = acked \union {e} /\ UNCHANGED <<saved, rejects>>
      /\ file'.lines = Append(file.lines, <<e>>)
  BY DEF AppendEnds, Appended, Extended
<1>2. ~Somewhere(e) /\ e \notin Unsettled
  BY <1>1, NothingOfItYet DEF FileInv
<1>3. e \notin acked \union (saved \union rejects)
  BY <1>2 DEF Somewhere
<1>4. Unsettled' = Unsettled \union {e}
  BY <1>1, <1>3 DEF Unsettled
<1>5. FileInv'
  BY FileStep DEF Next
<1>6. Waiting = Unsettled /\ Waiting' = Unsettled'
  BY <1>5, Abstracted DEF FileInv, DiskInv, Agrees, Waiting
<1>7. Order' = Order \union (Waiting \X {e})
  <2>1. <<e>> \in LineType /\ file.lines \in Seq(LineType)
    BY <1>1, ReadableLine, TheFileItself DEF FileInv
  <2>2. /\ \A a, b : Ahead(file'.lines, a, b) <=> (Ahead(file.lines, a, b) \/ (Holds(file.lines, a) /\ <<e>> = <<b>>))
    BY <1>1, <2>1, OneMoreLine
  <2>3. ~Holds(file.lines, e)
    BY <1>2 DEF Somewhere
  <2>4. \A a : ~Ahead(file.lines, a, e) /\ ~Ahead(file.lines, e, a)
    BY <2>3, Zenon DEF Ahead, Holds
  <2>5. \A a \in Unsettled : Holds(file.lines, a)
    BY DEF FileInv, DiskInv, Agrees
  <2> HIDE DEF e
  <2>6. \A a, b \in Unsettled' : Ahead(file'.lines, a, b) <=>
            ((a \in Unsettled /\ b \in Unsettled /\ Ahead(file.lines, a, b)) \/ (a \in Unsettled /\ b = e))
    BY <1>2, <1>4, <2>2, <2>3, <2>4, <2>5
  <2>7. \A a, b : <<a, b>> \in Order' <=> (<<a, b>> \in Order \/ <<a, b>> \in Waiting \X {e})
    BY <1>4, <1>6, <2>6 DEF Order
  <2> QED
    BY <1>4, <1>6, <2>7 DEF Order
<1> QED
  BY <1>1, <1>3, <1>4, <1>6, <1>7 DEF FailedLog!AppendEntry, FailedLog!Settled, Waiting, Order

LEMMA OthersSettle ==
    ASSUME FileAssumption, NamesStay, FileInv, Next, ~AppendEnds PROVE FailedLog!Settle
<1>1. FileInv'
  BY FileStep
<1>2. /\ Unsettled' \subseteq Unsettled /\ acked' = acked
      /\ saved \subseteq saved' /\ rejects \subseteq rejects'
      /\ Unsettled' = Unsettled \ (saved' \union rejects')
  BY Settling DEF FileInv
<1>3. saved' \subseteq Entry /\ rejects' \subseteq Entry
  BY <1>1 DEF FileInv, TypeInv
<1>4. Waiting = Unsettled /\ Waiting' = Unsettled'
  BY <1>1, Abstracted DEF FileInv, DiskInv, Agrees, Waiting
<1>5. \A a, b \in Unsettled' : Ahead(file'.lines, a, b) <=> Ahead(file.lines, a, b)
  BY <1>2, FilesAgree DEF Agrees
<1>6. Order' = Order \intersect (Waiting' \X Waiting')
  <2>1. \A a, b : <<a, b>> \in Order' <=> (<<a, b>> \in Order /\ <<a, b>> \in Waiting' \X Waiting')
    BY <1>2, <1>4, <1>5 DEF Order
  <2> QED
    BY <1>2, <1>4, <2>1 DEF Order
<1> QED
  BY <1>2, <1>3, <1>4, <1>6 DEF FailedLog!Settle, FailedLog!Settled, Waiting, Order

\* From when append resolves until save accepts the entry or it is written among the
\* rejects, it is in the file, in its place: across torn writes, appends during a pass,
\* kills, power cuts and failing operations, if what is flushed keeps its name.
THEOREM FileImplementsLog ==
    ASSUME NamesStay PROVE Spec => ImplementsFailedLog
<1>1. Init => FileInv
  BY InitHolds, FileAssumption
<1>2. FileInv /\ [Next]_vars => FileInv'
  BY FileStep, FileAssumption
<1>3. Init => FailedLog!Init
  <2> SUFFICES ASSUME Init PROVE FailedLog!Init
    OBVIOUS
  <2>1. Unsettled = {}
    BY DEF Init, Unsettled
  <2> QED
    BY <2>1 DEF Init, FailedLog!Init
<1>4. FileInv /\ [Next]_vars => [FailedLog!Next]_FailedLog!vars
  <2> SUFFICES ASSUME FileInv, [Next]_vars PROVE [FailedLog!Next]_FailedLog!vars
    OBVIOUS
  <2>1. CASE AppendEnds
    <3>1. Head(turn) \in Entry
      BY <2>1 DEF AppendEnds
    <3> QED
      BY <2>1, <3>1, AppendIsAbstract, FileAssumption DEF FailedLog!Next
  <2>2. CASE Next /\ ~AppendEnds
    BY <2>2, OthersSettle, FileAssumption DEF FailedLog!Next
  <2>3. CASE UNCHANGED vars
    BY <2>3 DEF vars, FailedLog!vars, Unsettled
  <2> QED
    BY <2>1, <2>2, <2>3
<1> QED
  BY <1>1, <1>2, <1>3, <1>4, PTL DEF Spec, ImplementsFailedLog, FailedLog!Spec
====
