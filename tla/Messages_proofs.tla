---- MODULE Messages_proofs ----
(***************************************************************************)
(* Proofs about the messages of the gateway: the upgrade of their table,   *)
(* the pages that are read of them, and the conversations they make.       *)
(***************************************************************************)
EXTENDS LogUpgrade, MessageReads, Conversations, FiniteSetTheorems, SequenceTheorems, WellFoundedInduction, TLAPS

---------------------------------------------------------------------------
(***************************************************************************)
(* Proofs about LogUpgrade, for any tables, scripts and gateways.          *)
(***************************************************************************)

\* What TablesFit says of a table.
Fit(T) ==
    /\ IsFiniteSet(T)
    /\ \A r \in T : /\ r.id \in Nat /\ r.account \in AccountId /\ r.createdAt \in Nat
                    /\ r.inbound \in BOOLEAN /\ r.placeholder \in BOOLEAN
    /\ \A r, s \in T : r.id = s.id => r = s

\* No script is skipped: a gateway that runs the scripts has the last one before it, until somebody
\* recorded it.
UpgradeType ==
    /\ legacy \in Tables /\ recorded \in SUBSET (1 .. Scripts)
    /\ \A s \in Starter : /\ starter[s].step \in {"idle", "running", "started"}
                          /\ starter[s].pending \in SUBSET (1 .. Scripts)
                          /\ starter[s].step # "idle" => Scripts \in starter[s].pending \union recorded
                          /\ starter[s].step = "started" => starter[s].pending = {}
    /\ starter = [s \in Starter |-> starter[s]]

\* What the script makes of a table.
Staying(T) == T \ Removed(T)

NumberedTable(T) == {Numbered(Staying(T), r) : r \in Staying(T)}

CountOf(tab, a) == Cardinality({n \in tab : n.row.account = a /\ n.row.inbound})

UpgradeInv ==
    /\ UpgradeType
    /\ IF Scripts \notin recorded
       THEN messages = legacy /\ archive = {}
       ELSE /\ messages = NumberedTable(legacy)
            /\ archive = {[row |-> r, keptId |-> Kept(legacy, r).id] : r \in Removed(legacy)}
            /\ accountCounters = [a \in AccountId |-> Cardinality({n \in messages : n.row.account = a /\ n.row.inbound})]
---------------------------------------------------------------------------
\* The order of the copies of a message

LEMMA UpgradeLeast ==
    ASSUME NEW T \in SUBSET Nat, T # {}
    PROVE  \E n \in T : \A m \in T : n <= m
<1>1. PICK n \in T : \A m \in T : <<m, n>> \notin OpToRel(<, Nat)
  BY WFMin, NatLessThanWellFounded, Zenon
<1>2. \A m \in T : m < n => <<m, n>> \in OpToRel(<, Nat)
  BY Zenon DEF OpToRel
<1>3. \A m \in T : ~(m < n)
  BY <1>1, <1>2, Zenon
<1> QED
  BY <1>3

LEMMA OlderIs ==
    ASSUME NEW T, Fit(T), NEW r \in T, NEW s \in T
    PROVE  /\ Older(r, s) => ~Older(s, r) /\ r # s
           /\ r = s \/ Older(r, s) \/ Older(s, r)
           /\ \A q \in T : Older(q, r) /\ Older(r, s) => Older(q, s)
BY DEF Fit, Older

LEMMA BetterIs ==
    ASSUME NEW T, Fit(T), NEW r \in T, NEW s \in T
    PROVE  Better(r, s) => ~Better(s, r) /\ r # s
BY OlderIs DEF Better, Fit

\* Of some rows one is better than all the others.
LEMMA BestIs ==
    ASSUME NEW T, Fit(T), NEW C \in SUBSET T, C # {}
    PROVE  \E k \in C : \A s \in C : s = k \/ Better(k, s)
<1>1. PICK D \in SUBSET C : /\ D # {}
                            /\ \A k \in D, s \in C \ D : ~k.placeholder /\ s.placeholder
                            /\ \A k, s \in D : k.placeholder = s.placeholder
  <2>1. CASE \A r \in C : r.placeholder
    BY <2>1 DEF Fit
  <2>2. CASE \E r \in C : ~r.placeholder
    <3> DEFINE D == {r \in C : ~r.placeholder}
    <3>1. D # {} /\ D \in SUBSET C
      BY <2>2
    <3>2. \A k, s \in D : k.placeholder = s.placeholder
      BY DEF Fit
    <3> QED
      BY <3>1, <3>2
  <2> QED
    BY <2>1, <2>2
<1>2. PICK t \in Nat : (\E r \in D : r.createdAt = t) /\ \A r \in D : t <= r.createdAt
  <2> DEFINE N == {r.createdAt : r \in D}
  <2>1. N \in SUBSET Nat /\ N # {}
    BY <1>1 DEF Fit
  <2>2. PICK t \in N : \A m \in N : t <= m
    BY <2>1, UpgradeLeast
  <2> QED
    BY <2>1, <2>2
<1>3. PICK k \in D : k.createdAt = t /\ \A r \in D : r.createdAt = t => k.id <= r.id
  <2> DEFINE E == {r \in D : r.createdAt = t}
             N == {r.id : r \in E}
  <2>1. N \in SUBSET Nat /\ N # {}
    BY <1>1, <1>2 DEF Fit
  <2>2. PICK i \in N : \A m \in N : i <= m
    BY <2>1, UpgradeLeast
  <2> QED
    BY <2>2
<1>4. ASSUME NEW s \in C PROVE s = k \/ Better(k, s)
  <2>1. CASE s \in D
    <3>1. k \in T /\ s \in T /\ k.placeholder = s.placeholder
      BY <1>1, <1>3, <2>1
    <3>2. CASE s.createdAt = t
      <4>1. k.id <= s.id /\ (k.id = s.id => k = s) /\ k.id \in Nat /\ s.id \in Nat
        BY <1>3, <2>1, <3>1, <3>2 DEF Fit
      <4> QED
        BY <1>3, <3>1, <3>2, <4>1 DEF Better, Older
    <3>3. CASE s.createdAt # t
      <4>1. t < s.createdAt
        BY <1>2, <2>1, <3>1, <3>3 DEF Fit
      <4> QED
        BY <1>3, <3>1, <4>1 DEF Better, Older
    <3> QED
      BY <3>2, <3>3
  <2>2. CASE s \notin D
    BY <1>1, <1>3, <2>2 DEF Better
  <2> QED
    BY <2>1, <2>2
<1> QED
  BY <1>1, <1>3, <1>4

\* The copy that stays for a row.
LEMMA KeptIs ==
    ASSUME NEW T, Fit(T), NEW r \in T
    PROVE  /\ Kept(T, r) \in T
           /\ Kept(T, r) = r \/ SameMessage(Kept(T, r), r)
           /\ \A s \in T : SameMessage(s, r) => s = Kept(T, r) \/ Better(Kept(T, r), s)
<1> DEFINE Fits(k) == /\ k = r \/ SameMessage(k, r)
                      /\ \A s \in T : SameMessage(s, r) => s = k \/ Better(k, s)
           C == {k \in T : k = r \/ SameMessage(k, r)}
<1>1. PICK k \in C : \A s \in C : s = k \/ Better(k, s)
  BY BestIs
<1>2. \E x \in T : Fits(x)
  BY <1>1
<1>3. Kept(T, r) = CHOOSE x \in T : Fits(x)
  BY DEF Kept
<1> HIDE DEF Fits
<1>4. Kept(T, r) \in T /\ Fits(Kept(T, r))
  BY <1>2, <1>3
<1> QED
  BY <1>4 DEF Fits

\* What stays for a row stays; no two rows that stay are of one message.
LEMMA StaysIs ==
    ASSUME NEW T, Fit(T)
    PROVE  /\ \A r \in T : Kept(T, r) \in T \ Removed(T)
           /\ \A r, s \in T \ Removed(T) : SameMessage(r, s) => r = s
<1>1. ASSUME NEW r \in T PROVE Kept(T, r) \in T \ Removed(T)
  <2>1. PICK k : k = Kept(T, r)
    OBVIOUS
  <2>2. /\ k \in T /\ (k = r \/ SameMessage(k, r))
        /\ \A s \in T : SameMessage(s, r) => s = k \/ Better(k, s)
    BY <2>1, KeptIs
  <2>3. PICK q : q = Kept(T, k)
    OBVIOUS
  <2>4. /\ q \in T /\ (q = k \/ SameMessage(q, k))
        /\ \A s \in T : SameMessage(s, k) => s = q \/ Better(q, s)
    BY <2>2, <2>3, KeptIs
  <2>5. ASSUME q # k PROVE FALSE
    <3>1. SameMessage(q, k) /\ SameMessage(q, r) /\ SameMessage(k, k)
      BY <2>2, <2>4, <2>5 DEF SameMessage
    <3>2. Better(k, q) /\ Better(q, k)
      BY <2>2, <2>4, <2>5, <3>1
    <3> QED
      BY <2>2, <2>4, <3>2, BetterIs
  <2> QED
    BY <2>1, <2>2, <2>3, <2>5 DEF Removed
<1>2. ASSUME NEW r \in T \ Removed(T), NEW s \in T \ Removed(T), SameMessage(r, s) PROVE r = s
  <2>1. Kept(T, r) = r /\ Kept(T, s) = s
    BY DEF Removed
  <2>2. SameMessage(s, r)
    BY <1>2 DEF SameMessage
  <2>3. s = r \/ Better(r, s)
    BY <2>1, <2>2, KeptIs
  <2>4. r = s \/ Better(s, r)
    BY <1>2, <2>1, KeptIs
  <2> QED
    BY <2>3, <2>4, BetterIs
<1> QED
  BY <1>1, <1>2

---------------------------------------------------------------------------
\* The numbers

InboundOf(R, a) == {s \in R : s.account = a /\ s.inbound}

OlderThan(R, r) == {s \in R : s.account = r.account /\ s.inbound /\ Older(s, r)}

LEMMA FitPart ==
    ASSUME NEW T, Fit(T), NEW R \in SUBSET T
    PROVE  Fit(R)
<1>1. IsFiniteSet(R)
  BY FS_Subset DEF Fit
<1> QED
  BY <1>1 DEF Fit

\* A row's number is 1 and how many are older.
LEMMA NumberIs ==
    ASSUME NEW R, Fit(R), NEW r \in R, r.inbound
    PROVE  /\ Numbered(R, r).row = r
           /\ Numbered(R, r).accountSeq = 1 + Cardinality(OlderThan(R, r))
           /\ IsFiniteSet(InboundOf(R, r.account)) /\ Cardinality(InboundOf(R, r.account)) \in Nat
           /\ Cardinality(OlderThan(R, r)) \in Nat
           /\ Cardinality(OlderThan(R, r)) < Cardinality(InboundOf(R, r.account))
<1>1. IsFiniteSet(InboundOf(R, r.account))
  BY FS_Subset DEF Fit, InboundOf
<1>2. /\ OlderThan(R, r) \in SUBSET InboundOf(R, r.account)
      /\ r \in InboundOf(R, r.account) /\ r \notin OlderThan(R, r)
  BY OlderIs DEF InboundOf, OlderThan
<1>3. /\ IsFiniteSet(OlderThan(R, r))
      /\ Cardinality(OlderThan(R, r)) <= Cardinality(InboundOf(R, r.account))
      /\ Cardinality(OlderThan(R, r)) # Cardinality(InboundOf(R, r.account))
  BY <1>1, <1>2, FS_Subset
<1>4. Cardinality(OlderThan(R, r)) \in Nat /\ Cardinality(InboundOf(R, r.account)) \in Nat
  BY <1>1, <1>3, FS_CardinalityType
<1> QED
  BY <1>1, <1>3, <1>4 DEF Numbered, OlderThan

\* An older row has a lower number.
LEMMA NumbersGrow ==
    ASSUME NEW R, Fit(R), NEW r \in R, r.inbound, NEW s \in R, s.inbound,
           r.account = s.account, Older(r, s)
    PROVE  Numbered(R, r).accountSeq < Numbered(R, s).accountSeq
<1>1. /\ OlderThan(R, r) \in SUBSET OlderThan(R, s)
      /\ r \in OlderThan(R, s) /\ r \notin OlderThan(R, r)
  BY OlderIs DEF OlderThan
<1>2. IsFiniteSet(OlderThan(R, s))
  BY FS_Subset DEF Fit, OlderThan
<1>3. /\ Cardinality(OlderThan(R, r)) <= Cardinality(OlderThan(R, s))
      /\ Cardinality(OlderThan(R, r)) # Cardinality(OlderThan(R, s))
  BY <1>1, <1>2, FS_Subset
<1> QED
  BY <1>3, NumberIs

\* Every number up to that of the youngest is somebody's.
LEMMA NumbersFill ==
    ASSUME NEW R, Fit(R), NEW a, NEW n \in 1 .. Cardinality(InboundOf(R, a))
    PROVE  \E r \in InboundOf(R, a) : Numbered(R, r).accountSeq = n
<1> DEFINE I == InboundOf(R, a)
           N == Cardinality(I)
           f == [r \in I |-> Numbered(R, r).accountSeq]
<1>1. IsFiniteSet(I)
  BY FS_Subset DEF Fit, InboundOf
<1>2. N \in Nat
  BY <1>1, FS_CardinalityType
<1>3. \A r \in I : r \in R /\ r.inbound /\ r.account = a
  BY DEF InboundOf
<1>4. ASSUME NEW r \in I PROVE f[r] \in 1 .. N
  <2>1. /\ Numbered(R, r).accountSeq = 1 + Cardinality(OlderThan(R, r))
        /\ Cardinality(OlderThan(R, r)) \in Nat
        /\ Cardinality(OlderThan(R, r)) < Cardinality(InboundOf(R, r.account))
    BY <1>3, NumberIs
  <2> QED
    BY <1>2, <1>3, <2>1
<1>5. ASSUME NEW r \in I, NEW s \in I, f[r] = f[s] PROVE r = s
  <2>1. CASE Older(r, s)
    <3>1. Numbered(R, r).accountSeq < Numbered(R, s).accountSeq
      BY <1>3, <2>1, NumbersGrow
    <3> QED
      BY <1>4, <1>5, <3>1
  <2>2. CASE Older(s, r)
    <3>1. Numbered(R, s).accountSeq < Numbered(R, r).accountSeq
      BY <1>3, <2>2, NumbersGrow
    <3> QED
      BY <1>4, <1>5, <3>1
  <2> QED
    BY <1>3, <2>1, <2>2, OlderIs
<1>6. n \in 1 .. N
  OBVIOUS
<1>7. \A r \in I : f[r] = Numbered(R, r).accountSeq
  OBVIOUS
<1> HIDE DEF N, f
<1>8. f \in Injection(I, 1 .. N)
  <2>1. f \in [I -> 1 .. N]
    BY <1>4 DEF f
  <2> QED
    BY <1>5, <2>1 DEF Injection, IsInjective
<1>9. IsFiniteSet(1 .. N) /\ Cardinality(1 .. N) = Cardinality(I)
  <2>1. IsFiniteSet(1 .. N) /\ Cardinality(1 .. N) = IF 1 > N THEN 0 ELSE N - 1 + 1
    BY <1>2, FS_Interval
  <2> QED
    BY <1>2, <2>1 DEF N
<1>10. f \in Surjection(I, 1 .. N)
  BY <1>8, <1>9, FS_Injection
<1> QED
  BY <1>6, <1>7, <1>10 DEF Surjection

\* How many rows of an account are numbered.
LEMMA CounterIs ==
    ASSUME NEW R, Fit(R), NEW numbered, numbered = {Numbered(R, r) : r \in R}, NEW a
    PROVE  Cardinality({n \in numbered : n.row.account = a /\ n.row.inbound}) = Cardinality(InboundOf(R, a))
<1> DEFINE I == InboundOf(R, a)
           M == {n \in numbered : n.row.account = a /\ n.row.inbound}
           f == [r \in I |-> Numbered(R, r)]
<1>1. IsFiniteSet(I)
  BY FS_Subset DEF Fit, InboundOf
<1>2. \A r \in R : Numbered(R, r).row = r
  BY DEF Numbered
<1>3. \A r \in I : f[r] \in M /\ f[r].row = r
  BY <1>2 DEF InboundOf
<1>4. \A m \in M : m.row \in I /\ f[m.row] = m
  BY <1>2 DEF InboundOf
<1> HIDE DEF I, M
<1>5. f \in Bijection(I, M)
  <2>1. f \in [I -> M]
    BY <1>3
  <2>2. \A r, s \in I : f[r] = f[s] => r = s
    BY <1>3, Zenon
  <2>3. \A m \in M : \E r \in I : f[r] = m
    BY <1>4
  <2> HIDE DEF f
  <2> QED
    BY <2>1, <2>2, <2>3 DEF Bijection, Injection, IsInjective, Surjection
<1>6. ExistsBijection(I, M)
  BY <1>5 DEF ExistsBijection
<1>7. Cardinality(M) = Cardinality(I)
  BY <1>1, <1>6, FS_Bijection
<1> QED
  BY <1>7 DEF I, M

---------------------------------------------------------------------------
\* What the script leaves is what the message log expects.

\* One row per message, in the order of age; nothing is lost.
LEMMA RowsAreKept ==
    ASSUME NEW T, Fit(T), NEW tab, tab = NumberedTable(T)
    PROVE  /\ {n.row : n \in tab} = Staying(T)
           /\ \A n \in tab : n.row \in Staying(T) /\ n = Numbered(Staying(T), n.row)
           /\ \A m, n \in tab : m.row.id = n.row.id \/ SameMessage(m.row, n.row) => m = n
           /\ \A m, n \in tab : /\ m.row.inbound /\ n.row.inbound /\ m.row.account = n.row.account
                                /\ Older(m.row, n.row)
                                => m.accountSeq < n.accountSeq
<1> DEFINE R == Staying(T)
<1>1. R \in SUBSET T /\ Fit(R)
  BY FitPart DEF Staying
<1>2. \A r \in R : Numbered(R, r).row = r
  BY DEF Numbered
<1>3. tab = {Numbered(R, r) : r \in R}
  BY DEF NumberedTable
<1>4. \A n \in tab : n.row \in R /\ n = Numbered(R, n.row)
  BY <1>2, <1>3
<1>5. {n.row : n \in tab} = R
  BY <1>2, <1>3
<1>6. ASSUME NEW m \in tab, NEW n \in tab, m.row.id = n.row.id \/ SameMessage(m.row, n.row)
      PROVE  m = n
  <2>1. m.row = n.row
    BY <1>1, <1>4, <1>6, StaysIs DEF Fit, Staying
  <2> QED
    BY <1>4, <2>1
<1>7. ASSUME NEW m \in tab, NEW n \in tab, m.row.inbound, n.row.inbound,
             m.row.account = n.row.account, Older(m.row, n.row)
      PROVE  m.accountSeq < n.accountSeq
  <2>1. Numbered(R, m.row).accountSeq < Numbered(R, n.row).accountSeq
    BY <1>1, <1>4, <1>7, NumbersGrow
  <2> QED
    BY <1>4, <2>1
<1> QED
  BY <1>4, <1>5, <1>6, <1>7

\* The numbers of an account are the first ones, up to its counter.
LEMMA RowsAreNumbered ==
    ASSUME NEW T, Fit(T), NEW tab, tab = NumberedTable(T), NEW a, NEW c,
           c = CountOf(tab, a)
    PROVE  /\ c \in Nat
           /\ \A n \in tab : n.row.inbound /\ n.row.account = a => n.accountSeq \in 1 .. c
           /\ \A k \in 1 .. c : \E n \in tab : n.row.inbound /\ n.row.account = a /\ n.accountSeq = k
<1> DEFINE R == Staying(T)
<1>1. Fit(R)
  BY FitPart DEF Staying
<1>2. tab = {Numbered(R, r) : r \in R}
  BY DEF NumberedTable
<1>3. c = Cardinality(InboundOf(R, a))
  BY <1>1, <1>2, CounterIs DEF CountOf
<1>4. IsFiniteSet(InboundOf(R, a))
  BY <1>1, FS_Subset DEF Fit, InboundOf
<1>5. c \in Nat
  BY <1>3, <1>4, FS_CardinalityType
<1>6. \A n \in tab : n.row \in R /\ n = Numbered(R, n.row)
  BY RowsAreKept
<1>7. ASSUME NEW n \in tab, n.row.inbound, n.row.account = a PROVE n.accountSeq \in 1 .. c
  <2>1. /\ Numbered(R, n.row).accountSeq = 1 + Cardinality(OlderThan(R, n.row))
        /\ Cardinality(OlderThan(R, n.row)) \in Nat
        /\ Cardinality(OlderThan(R, n.row)) < Cardinality(InboundOf(R, n.row.account))
    BY <1>1, <1>6, <1>7, NumberIs
  <2> QED
    BY <1>3, <1>5, <1>6, <1>7, <2>1
<1>8. ASSUME NEW k \in 1 .. c
      PROVE  \E n \in tab : n.row.inbound /\ n.row.account = a /\ n.accountSeq = k
  <2>1. PICK r \in InboundOf(R, a) : Numbered(R, r).accountSeq = k
    BY <1>1, <1>3, NumbersFill
  <2>2. r \in R /\ r.inbound /\ r.account = a
    BY DEF InboundOf
  <2>3. Numbered(R, r).row = r /\ Numbered(R, r) \in tab
    BY <1>2, <2>2 DEF Numbered
  <2> QED
    BY <2>1, <2>2, <2>3
<1> QED
  BY <1>5, <1>7, <1>8

\* Whoever was removed has its message in a row that stays.
LEMMA ArchiveNames ==
    ASSUME NEW T, Fit(T), NEW tab, tab = NumberedTable(T), NEW r \in Removed(T)
    PROVE  \E n \in tab : /\ n.row.id = Kept(T, r).id /\ SameMessage(n.row, r)
                          /\ n.row.placeholder => r.placeholder
<1>1. PICK k : k = Kept(T, r)
  OBVIOUS
<1>2. r \in T /\ k # r
  BY <1>1 DEF Removed
<1>3. k \in Staying(T) /\ SameMessage(k, r)
  BY <1>1, <1>2, StaysIs, KeptIs DEF Staying
<1>4. r = k \/ Better(k, r)
  <2>1. SameMessage(r, r)
    BY <1>3 DEF SameMessage
  <2> QED
    BY <1>1, <1>2, <2>1, KeptIs
<1>5. k.placeholder => r.placeholder
  BY <1>2, <1>4 DEF Better
<1>6. Numbered(Staying(T), k) \in tab /\ Numbered(Staying(T), k).row = k
  BY <1>3 DEF NumberedTable, Numbered
<1> QED
  BY <1>1, <1>3, <1>5, <1>6

LEMMA UpgradeInvIsSound ==
    ASSUME TablesFit, UpgradeInv
    PROVE  UpgradeIsSound
<1>1. Fit(legacy) /\ Scripts \in Nat \ {0}
  BY DEF TablesFit, Fit, UpgradeInv, UpgradeType
<1>2. CASE Scripts \notin recorded
  <2>1. \A s \in Starter : starter[s].step # "started"
    BY <1>2 DEF UpgradeInv, UpgradeType
  <2> QED
    BY <1>2, <2>1 DEF UpgradeInv, UpgradeIsSound
<1>3. CASE Scripts \in recorded
  <2>1. /\ messages = NumberedTable(legacy)
        /\ archive = {[row |-> r, keptId |-> Kept(legacy, r).id] : r \in Removed(legacy)}
        /\ accountCounters = [a \in AccountId |-> Cardinality({n \in messages : n.row.account = a /\ n.row.inbound})]
    BY <1>3 DEF UpgradeInv
  <2>2. /\ {n.row : n \in messages} = Staying(legacy)
        /\ \A n \in messages : n.row \in legacy
        /\ \A m, n \in messages : m.row.id = n.row.id \/ SameMessage(m.row, n.row) => m = n
        /\ \A m, n \in messages : /\ m.row.inbound /\ n.row.inbound /\ m.row.account = n.row.account
                               /\ Older(m.row, n.row)
                               => m.accountSeq < n.accountSeq
    BY <1>1, <2>1, RowsAreKept DEF Staying
  <2>3. \A a \in AccountId :
            /\ accountCounters[a] \in Nat
            /\ \A n \in messages : n.row.inbound /\ n.row.account = a => n.accountSeq \in 1 .. accountCounters[a]
            /\ \A k \in 1 .. accountCounters[a] :
                   \E n \in messages : n.row.inbound /\ n.row.account = a /\ n.accountSeq = k
    <3> TAKE a \in AccountId
    <3>1. PICK c : c = CountOf(messages, a)
      OBVIOUS
    <3>2. accountCounters[a] = c
      BY <2>1, <3>1 DEF CountOf
    <3>3. PICK tab, T : tab = messages /\ T = legacy
      OBVIOUS
    <3>4. Fit(T) /\ tab = NumberedTable(T) /\ c = CountOf(tab, a)
      BY <1>1, <2>1, <3>1, <3>3
    <3>5. c \in Nat
      BY <3>4, RowsAreNumbered
    <3>6. \A n \in tab : n.row.inbound /\ n.row.account = a => n.accountSeq \in 1 .. c
      BY <3>4, RowsAreNumbered
    <3>7. \A k \in 1 .. c : \E n \in tab : n.row.inbound /\ n.row.account = a /\ n.accountSeq = k
      BY <3>4, RowsAreNumbered
    <3> QED
      BY <3>2, <3>3, <3>5, <3>6, <3>7
  <2>4. \A r \in legacy : r.account \in AccountId
    BY <1>1 DEF Fit
  <2> DEFINE A == [i \in Ids(legacy) |-> (CHOOSE r \in legacy : r.id = i).account]
             W == [i \in Ids(legacy) |-> (CHOOSE r \in legacy : r.id = i).waId]
  <2>5. \A r \in legacy : A[r.id] = r.account /\ W[r.id] = r.waId
    <3> TAKE r \in legacy
    <3>1. r.id \in Ids(legacy) /\ (CHOOSE q \in legacy : q.id = r.id) = r
      BY <1>1 DEF Ids, Fit
    <3> QED
      BY <3>1
  <2>6. /\ \A lr \in LogRows : \E n \in messages : /\ n.row.inbound /\ lr.id = n.row.id
                                                /\ lr = [id |-> n.row.id, accountSeq |-> n.accountSeq, createdAt |-> 0]
                                                /\ lr.accountSeq = n.accountSeq
                                                /\ A[lr.id] = n.row.account /\ W[lr.id] = n.row.waId
        /\ \A n \in messages : n.row.inbound =>
               \E lr \in LogRows : lr.accountSeq = n.accountSeq /\ A[lr.id] = n.row.account
    <3> DEFINE asLog(n) == [id |-> n.row.id, accountSeq |-> n.accountSeq, createdAt |-> 0]
    <3>1. \A n : asLog(n).id = n.row.id /\ asLog(n).accountSeq = n.accountSeq
      OBVIOUS
    <3>2. \A lr : lr \in LogRows <=> \E n \in messages : n.row.inbound /\ lr = asLog(n)
      BY DEF LogRows, Inbound
    <3>3. \A n \in messages : A[n.row.id] = n.row.account /\ W[n.row.id] = n.row.waId
      BY <2>2, <2>5
    <3>4. ASSUME NEW lr \in LogRows
          PROVE  \E n \in messages : /\ n.row.inbound /\ lr.id = n.row.id
                                  /\ lr = asLog(n)
                                  /\ lr.accountSeq = n.accountSeq
                                  /\ A[lr.id] = n.row.account /\ W[lr.id] = n.row.waId
      <4>1. PICK n \in messages : n.row.inbound /\ lr = asLog(n)
        BY <3>2
      <4>2. lr.id = n.row.id /\ lr.accountSeq = n.accountSeq
        BY <3>1, <4>1
      <4> QED
        BY <3>3, <4>1, <4>2
    <3>5. ASSUME NEW n \in messages, n.row.inbound
          PROVE  \E lr \in LogRows : lr.accountSeq = n.accountSeq /\ A[lr.id] = n.row.account
      <4> HIDE DEF asLog, A, W
      <4>1. asLog(n) \in LogRows
        BY <3>2, <3>5
      <4> QED
        BY <3>1, <3>3, <4>1
    <3> QED
      BY <3>4, <3>5
  <2>7. \A a, k : AsLog!NumberTaken(LogRows, a, k) <=> \E lr \in LogRows : A[lr.id] = a /\ lr.accountSeq = k
    BY DEF AsLog!NumberTaken, AsLog!AccountRows
  <2>8. \A i, j : AsLog!SameWaMessage(i, j) <=> A[i] = A[j] /\ W[i] = W[j] /\ W[i] # NoWhatsAppId
    BY DEF AsLog!SameWaMessage
  <2>u. AsLog!UniqueRows(LogRows) = \A r, s \in LogRows :
        \/ r = s
        \/ /\ r.id # s.id
           /\ ~AsLog!SameWaMessage(r.id, s.id)
           /\ A[r.id] = A[s.id] => r.accountSeq # s.accountSeq
    BY DEF AsLog!UniqueRows
  <2>h. AsLog!NoHoles(LogRows) = \A r, s \in LogRows : A[r.id] = A[s.id] =>
        \A n \in r.accountSeq .. s.accountSeq : AsLog!NumberTaken(LogRows, A[r.id], n)
    BY DEF AsLog!NoHoles
  <2>c. AsLog!CountersCaughtUp = \A r \in LogRows :
        /\ r.accountSeq <= accountCounters[A[r.id]]
        /\ AsLog!NumberTaken(LogRows, A[r.id], accountCounters[A[r.id]])
    BY DEF AsLog!CountersCaughtUp
  <2> HIDE DEF A, W
  <2>9. AsLog!UniqueRows(LogRows)
    <3> SUFFICES ASSUME NEW r \in LogRows, NEW s \in LogRows, r # s
                 PROVE  /\ r.id # s.id
                        /\ ~AsLog!SameWaMessage(r.id, s.id)
                        /\ A[r.id] = A[s.id] => r.accountSeq # s.accountSeq
      BY <2>u
    <3>1. PICK m \in messages : /\ m.row.inbound /\ r.id = m.row.id
                             /\ r = [id |-> m.row.id, accountSeq |-> m.accountSeq, createdAt |-> 0]
                             /\ r.accountSeq = m.accountSeq
                             /\ A[r.id] = m.row.account /\ W[r.id] = m.row.waId
      BY <2>6
    <3>2. PICK n \in messages : /\ n.row.inbound /\ s.id = n.row.id
                             /\ s = [id |-> n.row.id, accountSeq |-> n.accountSeq, createdAt |-> 0]
                             /\ s.accountSeq = n.accountSeq
                             /\ A[s.id] = n.row.account /\ W[s.id] = n.row.waId
      BY <2>6
    <3>3. m # n
      BY <3>1, <3>2
    <3>4. r.id # s.id /\ ~SameMessage(m.row, n.row)
      BY <2>2, <3>1, <3>2, <3>3
    <3>5. ~AsLog!SameWaMessage(r.id, s.id)
      BY <2>8, <3>1, <3>2, <3>4 DEF SameMessage
    <3>6. ASSUME A[r.id] = A[s.id] PROVE r.accountSeq # s.accountSeq
      <4>1. m.row \in legacy /\ n.row \in legacy /\ m.row # n.row /\ m.row.account = n.row.account
        BY <2>2, <3>1, <3>2, <3>4, <3>6
      <4>2. Older(m.row, n.row) \/ Older(n.row, m.row)
        BY <1>1, <4>1, OlderIs
      <4>3. m.accountSeq < n.accountSeq \/ n.accountSeq < m.accountSeq
        BY <2>2, <3>1, <3>2, <4>1, <4>2
      <4>4. m.accountSeq \in Nat /\ n.accountSeq \in Nat
        BY <2>3, <2>4, <3>1, <3>2, <4>1
      <4> QED
        BY <3>1, <3>2, <4>3, <4>4
    <3> QED
      BY <3>4, <3>5, <3>6
  <2>10. \A r \in LogRows : /\ A[r.id] \in AccountId /\ r.accountSeq \in 1 .. accountCounters[A[r.id]]
                            /\ accountCounters[A[r.id]] \in Nat
    BY <2>2, <2>3, <2>4, <2>6
  <2>11. \A a \in AccountId : \A k \in 1 .. accountCounters[a] : AsLog!NumberTaken(LogRows, a, k)
    <3> TAKE a \in AccountId
    <3> TAKE k \in 1 .. accountCounters[a]
    <3>1. PICK n \in messages : n.row.inbound /\ n.row.account = a /\ n.accountSeq = k
      BY <2>3
    <3> QED
      BY <2>6, <2>7, <3>1
  <2>12. AsLog!NoHoles(LogRows)
    <3> SUFFICES ASSUME NEW r \in LogRows, NEW s \in LogRows, A[r.id] = A[s.id],
                        NEW n \in r.accountSeq .. s.accountSeq
                 PROVE  AsLog!NumberTaken(LogRows, A[r.id], n)
      BY <2>h
    <3>1. n \in 1 .. accountCounters[A[r.id]]
      BY <2>10
    <3> QED
      BY <2>10, <2>11, <3>1
  <2>13. AsLog!CountersCaughtUp
    <3> SUFFICES ASSUME NEW r \in LogRows
                 PROVE  /\ r.accountSeq <= accountCounters[A[r.id]]
                        /\ AsLog!NumberTaken(LogRows, A[r.id], accountCounters[A[r.id]])
      BY <2>c
    <3>1. r.accountSeq <= accountCounters[A[r.id]] /\ accountCounters[A[r.id]] \in 1 .. accountCounters[A[r.id]]
      BY <2>10
    <3> QED
      BY <2>10, <2>11, <3>1
  <2>14. {n.row : n \in messages} \union {d.row : d \in archive} = legacy
    <3>1. {d.row : d \in archive} = Removed(legacy) /\ Removed(legacy) \subseteq legacy
      <4>1. \A r \in Removed(legacy) : [row |-> r, keptId |-> Kept(legacy, r).id].row = r
        OBVIOUS
      <4> QED
        BY <2>1, <4>1 DEF Removed
    <3> QED
      BY <2>2, <3>1 DEF Staying
  <2>15. \A d \in archive : \E n \in messages :
                /\ n.row.id = d.keptId /\ SameMessage(n.row, d.row)
                /\ n.row.placeholder => d.row.placeholder
    <3> TAKE d \in archive
    <3>1. PICK r \in Removed(legacy) : d.row = r /\ d.keptId = Kept(legacy, r).id
      BY <2>1
    <3> QED
      BY <1>1, <2>1, <3>1, ArchiveNames
  <2>16. /\ \A m, n \in messages : m = n \/ ~SameMessage(m.row, n.row)
         /\ \A m, n \in Inbound : Older(m.row, n.row) /\ m.row.account = n.row.account => m.accountSeq < n.accountSeq
    BY <2>2 DEF Inbound
  <2> QED
    BY <1>3, <2>9, <2>12, <2>13, <2>14, <2>15, <2>16 DEF UpgradeIsSound
<1> QED
  BY <1>2, <1>3

---------------------------------------------------------------------------
\* The steps

\* The first of the scripts a gateway has before it.
LEMMA ScriptIs ==
    ASSUME TablesFit, NEW s, starter[s].pending \in SUBSET (1 .. Scripts), starter[s].pending # {}
    PROVE  Script(s) \in starter[s].pending
<1>1. starter[s].pending \in SUBSET Nat
  OBVIOUS
<1>2. \E n \in starter[s].pending : \A m \in starter[s].pending : n <= m
  BY <1>1, UpgradeLeast
<1> QED
  BY <1>2 DEF Script

\* A gateway goes on; the data stays as it is, or becomes what the last script makes of it.
LEMMA AppliedKeeps ==
    ASSUME TablesFit, UpgradeInv, NEW s \in Starter, Applied(s)
    PROVE  /\ legacy' = legacy
           /\ recorded' \in SUBSET (1 .. Scripts) /\ recorded \subseteq recorded'
           /\ Script(s) \in recorded'
           /\ IF Scripts \notin recorded'
              THEN messages' = legacy' /\ archive' = {}
              ELSE /\ messages' = NumberedTable(legacy')
                   /\ archive' = {[row |-> r, keptId |-> Kept(legacy', r).id] : r \in Removed(legacy')}
                   /\ accountCounters' = [a \in AccountId |->
                                      Cardinality({n \in messages' : n.row.account = a /\ n.row.inbound})]
<1>1. /\ starter[s].pending \in SUBSET (1 .. Scripts) /\ starter[s].pending # {}
      /\ Script(s) \notin recorded /\ recorded' = recorded \union {Script(s)} /\ legacy' = legacy
  BY DEF Applied, Applicable, UpgradeInv, UpgradeType
<1>2. Script(s) \in 1 .. Scripts
  BY <1>1, ScriptIs
<1>3. CASE Script(s) = Scripts
  <2>1. messages = legacy /\ Scripts \in recorded'
    BY <1>1, <1>3 DEF UpgradeInv
  <2>2. MessageLogScript
    BY <1>3 DEF Applied
  <2>3. messages' = NumberedTable(legacy)
    BY <2>1, <2>2 DEF MessageLogScript, NumberedTable, Staying
  <2>4. archive' = {[row |-> r, keptId |-> Kept(legacy, r).id] : r \in Removed(legacy)}
    BY <2>1, <2>2 DEF MessageLogScript
  <2>5. accountCounters' = [a \in AccountId |-> Cardinality({n \in messages' : n.row.account = a /\ n.row.inbound})]
    BY <2>2 DEF MessageLogScript
  <2> QED
    BY <1>1, <1>2, <2>1, <2>3, <2>4, <2>5 DEF UpgradeInv, UpgradeType
<1>4. CASE Script(s) # Scripts
  <2>1. UNCHANGED <<messages, archive, accountCounters>> /\ (Scripts \in recorded' <=> Scripts \in recorded)
    BY <1>1, <1>4 DEF Applied
  <2> QED
    BY <1>1, <1>2, <2>1 DEF UpgradeInv, UpgradeType
<1> QED
  BY <1>3, <1>4

\* One gateway is in another state.
LEMMA MovesKeeps ==
    ASSUME TablesFit, UpgradeInv, NEW s \in Starter, NEW state, Moves(s, state),
           state.step \in {"idle", "running", "started"}, state.pending \in SUBSET (1 .. Scripts),
           state.step # "idle" => Scripts \in state.pending \union recorded',
           state.step = "started" => state.pending = {},
           legacy' = legacy, recorded' \in SUBSET (1 .. Scripts), recorded \subseteq recorded',
           IF Scripts \notin recorded'
              THEN messages' = legacy' /\ archive' = {}
              ELSE /\ messages' = NumberedTable(legacy')
                   /\ archive' = {[row |-> r, keptId |-> Kept(legacy', r).id] : r \in Removed(legacy')}
                   /\ accountCounters' = [a \in AccountId |->
                                      Cardinality({n \in messages' : n.row.account = a /\ n.row.inbound})]
    PROVE  UpgradeInv'
<1>1. /\ starter = [q \in Starter |-> starter[q]] /\ starter' = [starter EXCEPT ![s] = state]
  BY DEF UpgradeInv, UpgradeType, Moves
<1>2. /\ \A q \in Starter : starter'[q] = IF q = s THEN state ELSE starter[q]
      /\ starter' = [q \in Starter |-> starter'[q]]
  BY <1>1
<1>3. UpgradeType'
  BY <1>2 DEF UpgradeInv, UpgradeType
<1> QED
  BY <1>3 DEF UpgradeInv

\* Nothing changes but a gateway.
LEMMA DataStays ==
    ASSUME UpgradeInv, UNCHANGED <<legacy, messages, archive, accountCounters, recorded>>
    PROVE  /\ legacy' = legacy
           /\ recorded' \in SUBSET (1 .. Scripts) /\ recorded \subseteq recorded'
           /\ IF Scripts \notin recorded'
              THEN messages' = legacy' /\ archive' = {}
              ELSE /\ messages' = NumberedTable(legacy')
                   /\ archive' = {[row |-> r, keptId |-> Kept(legacy', r).id] : r \in Removed(legacy')}
                   /\ accountCounters' = [a \in AccountId |->
                                      Cardinality({n \in messages' : n.row.account = a /\ n.row.inbound})]
BY DEF UpgradeInv, UpgradeType

LEMMA UpgradeKeeps == TablesFit /\ UpgradeInv /\ [UpgradeNext]_upgradeVars => UpgradeInv'
<1> SUFFICES ASSUME TablesFit, UpgradeInv, [UpgradeNext]_upgradeVars PROVE UpgradeInv'
  OBVIOUS
<1>1. CASE UNCHANGED upgradeVars
  BY <1>1 DEF upgradeVars, UpgradeInv, UpgradeType
<1>2. ASSUME NEW s \in Starter,
             CallRun(s) \/ ApplyMigration(s) \/ ScriptFails(s) \/ Ends(s) \/ Started(s)
      PROVE  UpgradeInv'
  <2>1. /\ starter[s].pending \in SUBSET (1 .. Scripts) /\ recorded \in SUBSET (1 .. Scripts)
        /\ starter[s].step # "idle" => Scripts \in starter[s].pending \union recorded
        /\ Scripts \in 1 .. Scripts
    BY DEF UpgradeInv, UpgradeType, TablesFit
  <2>2. CASE CallRun(s)
    <3>1. PICK state : state = Runner((1 .. Scripts) \ recorded)
      OBVIOUS
    <3>2. /\ state.step = "running" /\ state.pending \in SUBSET (1 .. Scripts)
          /\ Scripts \in state.pending \union recorded
      BY <2>1, <3>1 DEF Runner
    <3>3. Moves(s, state) /\ UNCHANGED <<legacy, messages, archive, accountCounters, recorded>>
      BY <2>2, <3>1 DEF CallRun
    <3> QED
      BY <3>2, <3>3, DataStays, MovesKeeps
  <2>3. CASE ApplyMigration(s)
    <3>1. PICK state : state = [starter[s] EXCEPT !.pending = @ \ {Script(s)}]
      OBVIOUS
    <3>2. Moves(s, state) /\ Applied(s)
      BY <2>3, <3>1 DEF ApplyMigration
    <3>3. recorded \subseteq recorded' /\ Script(s) \in recorded'
      BY <3>2, AppliedKeeps
    <3>4. /\ state.step = "running" /\ state.pending \in SUBSET (1 .. Scripts)
          /\ Scripts \in state.pending \union recorded'
      BY <2>1, <2>3, <3>1, <3>3 DEF ApplyMigration, Applied, Applicable
    <3> QED
      BY <3>2, <3>4, AppliedKeeps, MovesKeeps
  <2>4. CASE ScriptFails(s)
    <3>1. Moves(s, NotStarted) /\ UNCHANGED <<legacy, messages, archive, accountCounters, recorded>>
      BY <2>4 DEF ScriptFails
    <3>2. NotStarted.step = "idle" /\ NotStarted.pending = {}
      BY DEF NotStarted
    <3> QED
      BY <3>1, <3>2, DataStays, MovesKeeps
  <2>5. CASE Ends(s)
    <3>1. /\ Moves(s, NotStarted)
          /\ UNCHANGED <<legacy, messages, archive, accountCounters, recorded>> \/ Applied(s)
      BY <2>5 DEF Ends
    <3>2. NotStarted.step = "idle" /\ NotStarted.pending = {}
      BY DEF NotStarted
    <3> QED
      BY <3>1, <3>2, AppliedKeeps, DataStays, MovesKeeps
  <2>6. CASE Started(s)
    <3>1. PICK state : state = [step |-> "started", pending |-> {}]
      OBVIOUS
    <3>2. /\ Moves(s, state) /\ UNCHANGED <<legacy, messages, archive, accountCounters, recorded>>
          /\ starter[s].step = "running" /\ starter[s].pending = {}
      BY <2>6, <3>1 DEF Started
    <3>3. state.step = "started" /\ state.pending = {} /\ Scripts \in recorded'
      BY <2>1, <3>1, <3>2
    <3> QED
      BY <3>2, <3>3, DataStays, MovesKeeps
  <2> QED
    BY <1>2, <2>2, <2>3, <2>4, <2>5, <2>6
<1> QED
  BY <1>1, <1>2 DEF UpgradeNext

LEMMA UpgradeStarts == TablesFit /\ UpgradeInit => UpgradeInv
<1> SUFFICES ASSUME TablesFit, UpgradeInit PROVE UpgradeInv
  OBVIOUS
<1>1. PICK n \in 0 .. Scripts - 1 : recorded = 1 .. n
  BY DEF UpgradeInit
<1>2. Scripts \notin recorded /\ recorded \in SUBSET (1 .. Scripts)
  BY <1>1 DEF TablesFit
<1>3. \A s \in Starter : starter[s].step = "idle" /\ starter[s].pending = {}
  BY DEF UpgradeInit, NotStarted
<1>4. starter = [s \in Starter |-> starter[s]]
  BY DEF UpgradeInit
<1> QED
  BY <1>2, <1>3, <1>4 DEF UpgradeInit, UpgradeInv, UpgradeType

\* Whatever tables and scripts there are, however many gateways start on the database at once and
\* wherever each of them ends: the table is as it was, or has one row per message, numbered from 1
\* without holes in the order of age, with every counter at the last number, and each row that went is
\* in the archive with the row that stayed for it. (message_log, runMigrations.)
THEOREM UpgradeSound == TablesFit /\ UpgradeSpec => []UpgradeIsSound
<1> SUFFICES ASSUME TablesFit PROVE UpgradeSpec => []UpgradeIsSound
  OBVIOUS
<1>1. UpgradeInit => UpgradeInv
  BY UpgradeStarts
<1>2. UpgradeInv /\ [UpgradeNext]_upgradeVars => UpgradeInv'
  BY UpgradeKeeps
<1>3. UpgradeInv => UpgradeIsSound
  BY UpgradeInvIsSound
<1> QED
  BY <1>1, <1>2, <1>3, PTL DEF UpgradeSpec

---------------------------------------------------------------------------
(***************************************************************************)
(* Proofs about MessageReads, for any number of messages and any pages:    *)
(* what a client has not got yet, and nothing moved to the front, has at   *)
(* least as many newer messages before it as the pages went past, so no    *)
(* page starts behind it.                                                  *)
(***************************************************************************)

\* In every answer one message comes before another.
Newer(r, s) == r.timestamp > s.timestamp

NewerOf(R, r) == {s \in R : Newer(s, r)}

AskedAccount == {Everyone} \union {OwnerOf[m] : m \in 1 .. LastMessage}

Exports == [step : {"count", "rows", "done"}, account : AskedAccount, from : 0 .. 1, limit : Int,
            offset : Nat, total : Nat]

ReadType ==
    /\ last \in Nat /\ instant \in Nat
    /\ IsFiniteSet(stored)
    /\ \A r \in stored : r.id \in 1 .. last /\ r.timestamp \in Nat
    /\ \A r, s \in stored : r.id = s.id => r = s
    /\ export = NoExport \/ export \in Exports

\* What the client is to have and has not got yet comes after the offset.
AfterOffset ==
    /\ since \subseteq {r.id : r \in Matching(export)}
    /\ \A r \in Matching(export) :
           r.id \in since \ (got \union moved) => export.offset <= Cardinality(NewerOf(Matching(export), r))

ReadInv ==
    /\ ReadType
    /\ ExportsAll
    /\ export.step \in {"count", "rows"} => AfterOffset
---------------------------------------------------------------------------
LEMMA MatchingIs ==
    ASSUME ReadType, NEW e
    PROVE  Matching(e) \in SUBSET stored /\ IsFiniteSet(Matching(e))
BY FS_Subset DEF Matching, ReadType

\* In the answer to a query a message has the newer ones before it; and where all the first ones are
\* newer, there are at least as many.
LEMMA PlaceIs ==
    ASSUME ReadType, NEW R \in SUBSET stored, NEW ranked \in Orders(R), NEW r \in R
    PROVE  /\ ranked \in Seq(R) /\ Cardinality(NewerOf(R, r)) \in Nat
           /\ \A i, j \in DOMAIN ranked : i < j => ranked[i].timestamp >= ranked[j].timestamp
           /\ \E i \in 1 .. Len(ranked) : ranked[i] = r /\ Cardinality(NewerOf(R, r)) <= i - 1
           /\ \A k \in 0 .. Len(ranked) :
                  (\A j \in 1 .. k : Newer(ranked[j], r)) => k <= Cardinality(NewerOf(R, r))
<1>1. IsFiniteSet(R) /\ IsFiniteSet(NewerOf(R, r))
  <2>1. NewerOf(R, r) \in SUBSET R
    BY DEF NewerOf
  <2> QED
    BY <2>1, FS_Subset DEF ReadType
<1>2. PICK n \in Nat : n = Cardinality(R)
  BY <1>1, FS_CardinalityType
<1>3. /\ ranked \in [1 .. n -> R]
      /\ \A i, j \in 1 .. n : i # j => ranked[i] # ranked[j]
      /\ \A i, j \in 1 .. n : i < j => ranked[i].timestamp >= ranked[j].timestamp
  BY <1>2 DEF Orders, SetToSeqs, InOrder
<1>4. ranked \in Seq(R) /\ Len(ranked) = n /\ DOMAIN ranked = 1 .. n
  BY <1>3
<1>5. \A k \in 0 .. n : IsFiniteSet(1 .. k) /\ Cardinality(1 .. k) = k
  <2> TAKE k \in 0 .. n
  <2>1. IsFiniteSet(1 .. k) /\ Cardinality(1 .. k) = IF 1 > k THEN 0 ELSE k - 1 + 1
    BY FS_Interval
  <2> QED
    BY <2>1
<1>6. ranked \in Surjection(1 .. n, R)
  <2>1. ranked \in Injection(1 .. n, R)
    BY <1>3 DEF Injection, IsInjective
  <2> QED
    BY <1>1, <1>2, <1>5, <2>1, FS_Injection
<1>7. PICK i \in 1 .. n : ranked[i] = r
  BY <1>6 DEF Surjection
<1>8. \A s \in R : s.timestamp \in Nat
  BY DEF ReadType
<1>9. Cardinality(NewerOf(R, r)) \in Nat
  BY <1>1, FS_CardinalityType
<1>10. Cardinality(NewerOf(R, r)) <= i - 1
  <2> DEFINE J == 1 .. (i - 1)
             f == [s \in NewerOf(R, r) |-> CHOOSE j \in J : ranked[j] = s]
  <2>1. IsFiniteSet(J) /\ Cardinality(J) = i - 1
    BY <1>5
  <2>2. \A s \in NewerOf(R, r) : \E j \in J : ranked[j] = s
    <3> TAKE s \in NewerOf(R, r)
    <3>1. s \in R /\ s.timestamp > r.timestamp
      BY DEF NewerOf, Newer
    <3>2. PICK j \in 1 .. n : ranked[j] = s
      BY <1>6, <3>1 DEF Surjection
    <3>3. ~(i <= j)
      BY <1>3, <1>7, <1>8, <3>1, <3>2
    <3> QED
      BY <3>2, <3>3
  <2>3. f \in Injection(NewerOf(R, r), J)
    <3>1. \A s \in NewerOf(R, r) : f[s] \in J /\ ranked[f[s]] = s
      BY <2>2
    <3> QED
      BY <3>1 DEF Injection, IsInjective
  <2> HIDE DEF J, f
  <2> QED
    BY <2>1, <2>3, FS_Injection
<1>11. ASSUME NEW k \in 0 .. n, \A j \in 1 .. k : Newer(ranked[j], r)
       PROVE  k <= Cardinality(NewerOf(R, r))
  <2> DEFINE f == [j \in 1 .. k |-> ranked[j]]
  <2>1. f \in Injection(1 .. k, NewerOf(R, r))
    BY <1>3, <1>11 DEF Injection, IsInjective, NewerOf
  <2> HIDE DEF f
  <2> QED
    BY <1>1, <1>5, <2>1, FS_Injection
<1> QED
  BY <1>3, <1>4, <1>7, <1>9, <1>10, <1>11

---------------------------------------------------------------------------
\* The steps

\* Neither the filters nor the place of the export changes, and no message it may still get has
\* fewer before it.
LEMMA ExportStays ==
    ASSUME ReadInv, ReadType', export' = export, got' = got, since' \subseteq since, moved \subseteq moved',
           \A r \in stored' : r.id \in since' /\ export.step \in {"count", "rows"} => r \in stored,
           export.step \in {"count", "rows"} => since' \subseteq {r.id : r \in Matching(export)'},
           \A r \in stored' : r.id \in since' \ moved' =>
               NewerOf(Matching(export), r) \subseteq NewerOf(Matching(export)', r)
    PROVE  ReadInv'
<1>1. ExportsAll'
  BY DEF ReadInv, ExportsAll
<1>2. ASSUME export.step \in {"count", "rows"} PROVE AfterOffset'
  <2>1. ASSUME NEW r \in Matching(export)', r.id \in since' \ (got \union moved')
        PROVE  export.offset <= Cardinality(NewerOf(Matching(export)', r))
    <3>1. r \in stored /\ r \in stored' /\ r \in Matching(export) /\ r.id \in since \ (got \union moved)
      BY <1>2, <2>1 DEF Matching, Where
    <3>2. export.offset <= Cardinality(NewerOf(Matching(export), r))
      BY <1>2, <3>1 DEF ReadInv, AfterOffset
    <3>3. PICK A, B : A = NewerOf(Matching(export), r) /\ B = NewerOf(Matching(export)', r)
      OBVIOUS
    <3>4. IsFiniteSet(B)
      <4>1. IsFiniteSet(stored')
        BY DEF ReadType
      <4>2. B \in SUBSET stored'
        BY <3>3 DEF NewerOf, Matching
      <4> QED
        BY <4>1, <4>2, FS_Subset
    <3>5. A \in SUBSET B
      BY <2>1, <3>1, <3>3
    <3>6. Cardinality(A) <= Cardinality(B) /\ Cardinality(A) \in Nat /\ Cardinality(B) \in Nat
      BY <3>4, <3>5, FS_Subset, FS_CardinalityType
    <3>7. export.offset \in Nat
      BY <1>2 DEF ReadInv, ReadType, NoExport, Exports
    <3> QED
      BY <3>2, <3>3, <3>6, <3>7
  <2> QED
    BY <1>2, <2>1 DEF AfterOffset
<1> QED
  BY <1>1, <1>2 DEF ReadInv

LEMMA StoringKeeps ==
    ASSUME ReadsFit, ReadInv, StoreMessage
    PROVE  ReadInv'
<1>1. PICK t \in 0 .. instant : stored' = stored \union {[id |-> last', timestamp |-> t, createdAt |-> instant]}
  BY DEF StoreMessage
<1>0. instant \in Nat
  BY DEF ReadInv, ReadType
<1>2. PICK m : m = [id |-> last', timestamp |-> t, createdAt |-> instant]
  OBVIOUS
<1>3. /\ stored' = stored \union {m} /\ m.id = last + 1 /\ m.timestamp \in Nat /\ last' = last + 1
      /\ UNCHANGED <<instant, export, got, since, moved>>
  BY <1>0, <1>1, <1>2 DEF StoreMessage
<1>4. ReadType'
  <2>1. IsFiniteSet(stored')
    BY <1>3, FS_AddElement DEF ReadInv, ReadType
  <2> QED
    BY <1>3, <2>1 DEF ReadInv, ReadType
<1>5. Matching(export) \subseteq Matching(export)'
  BY <1>3 DEF Matching, Where
<1>6. \A r \in stored' : NewerOf(Matching(export), r) \subseteq NewerOf(Matching(export)', r)
  BY <1>5 DEF NewerOf
<1>7. \A r \in stored' : r.id \in since /\ export.step \in {"count", "rows"} => r \in stored
  BY <1>3 DEF ReadInv, ReadType, AfterOffset, Matching
<1>8. export.step \in {"count", "rows"} => since' \subseteq {r.id : r \in Matching(export)'}
  BY <1>3, <1>5 DEF ReadInv, AfterOffset
<1> QED
  BY <1>3, <1>4, <1>6, <1>7, <1>8, ExportStays

LEMMA DeleteKeeps ==
    ASSUME ReadsFit, ReadInv, NEW cutoff, DeleteOld(cutoff)
    PROVE  ReadInv'
<1>1. PICK stays \in SUBSET stored :
          /\ stored' = stays /\ since' = since \intersect {r.id : r \in stays}
          /\ moved' = moved \union {i \in since' : \E q \in stays, s \in stored \ stays :
                                                     q.id = i /\ s.timestamp > q.timestamp}
          /\ UNCHANGED <<last, instant, export, got>>
  BY DEF DeleteOld
<1>2. ReadType'
  <2>1. IsFiniteSet(stored')
    BY <1>1, FS_Subset DEF ReadInv, ReadType
  <2> QED
    BY <1>1, <2>1 DEF ReadInv, ReadType
<1>3. ASSUME NEW r \in stored', r.id \in since' \ moved'
      PROVE  NewerOf(Matching(export), r) \subseteq NewerOf(Matching(export)', r)
  <2> SUFFICES ASSUME NEW s \in Matching(export), Newer(s, r) PROVE s \in Matching(export)'
    BY DEF NewerOf
  <2>1. s \in stored /\ r \in stored /\ s.timestamp \in Nat /\ r.timestamp \in Nat
    BY <1>1, <1>3 DEF ReadInv, ReadType, Matching
  <2>2. s \in stays
    BY <1>1, <1>3, <2>1 DEF Newer
  <2> QED
    BY <1>1, <2>2 DEF Matching, Where
<1>4. ASSUME export.step \in {"count", "rows"}, NEW i \in since'
      PROVE  i \in {r.id : r \in Matching(export)'}
  <2>1. PICK r \in stays : i = r.id
    BY <1>1, <1>4
  <2>2. PICK q \in Matching(export) : i = q.id
    BY <1>1, <1>4 DEF ReadInv, AfterOffset
  <2>3. q = r
    BY <2>1, <2>2 DEF ReadInv, ReadType, Matching
  <2> QED
    BY <1>1, <2>1, <2>2, <2>3 DEF Matching, Where
<1> QED
  BY <1>1, <1>2, <1>3, <1>4, ExportStays

LEMMA ExportKeeps ==
    ASSUME ReadsFit, ReadInv, Export
    PROVE  ReadInv'
<1>1. PICK account \in {Everyone} \union {OwnerOf[m] : m \in 1 .. LastMessage} : \E from \in 0 .. 1, limit \in Asked :
           LET e == [step |-> "count", account |-> account, from |-> from, limit |-> limit, offset |-> 0, total |-> 0]
           IN export' = e /\ since' = {r.id : r \in Matching(e)} /\ moved' = {}
  BY DEF Export
<1>2. PICK from \in 0 .. 1, limit \in Asked :
           LET e == [step |-> "count", account |-> account, from |-> from, limit |-> limit, offset |-> 0, total |-> 0]
           IN export' = e /\ since' = {r.id : r \in Matching(e)} /\ moved' = {}
  BY <1>1
<1>3. PICK e : e = [step |-> "count", account |-> account, from |-> from, limit |-> limit, offset |-> 0, total |-> 0]
  OBVIOUS
<1>4. /\ export' = e /\ since' = {r.id : r \in Matching(e)} /\ moved' = {} /\ UNCHANGED <<stored, last, instant, got>>
      /\ e.step = "count" /\ e.offset = 0
      /\ e \in Exports
  BY <1>2, <1>3 DEF Export, ReadsFit, Exports, AskedAccount
<1>5. ReadType'
  BY <1>4 DEF ReadInv, ReadType
<1>6. Matching(export)' = Matching(e)
  BY <1>4 DEF Matching
<1>7. \A r \in Matching(e) : 0 <= Cardinality(NewerOf(Matching(e), r))
  <2> TAKE r \in Matching(e)
  <2>1. IsFiniteSet(NewerOf(Matching(e), r))
    BY MatchingIs, FS_Subset DEF NewerOf, ReadInv
  <2> QED
    BY <2>1, FS_CardinalityType
<1>8. AfterOffset'
  BY <1>4, <1>6, <1>7 DEF AfterOffset
<1> QED
  BY <1>4, <1>5, <1>8 DEF ReadInv, ExportsAll

LEMMA CountKeeps ==
    ASSUME ReadsFit, ReadInv, CountRows
    PROVE  ReadInv'
<1>1. PICK n : n = Cardinality(Matching(export))
  OBVIOUS
<1>2. n \in Nat
  BY <1>1, MatchingIs, FS_CardinalityType DEF ReadInv
<1>3. /\ export.step = "count" /\ export' = [export EXCEPT !.step = "rows", !.total = n]
      /\ UNCHANGED <<stored, last, instant, got, since, moved>>
  BY <1>1 DEF CountRows
<1>4. /\ export' \in Exports
      /\ export'.step = "rows" /\ export'.account = export.account /\ export'.from = export.from
      /\ export'.offset = export.offset
  <2>1. PICK e, f : e = export /\ f = export'
    OBVIOUS
  <2>2. e \in Exports /\ f = [e EXCEPT !.step = "rows", !.total = n]
    BY <1>3, <2>1 DEF ReadInv, ReadType, NoExport
  <2>3. f \in Exports /\ f.step = "rows" /\ f.account = e.account /\ f.from = e.from /\ f.offset = e.offset
    BY <1>2, <2>2 DEF Exports
  <2> QED
    BY <2>1, <2>3
<1>5. Matching(export)' = Matching(export)
  BY <1>3, <1>4 DEF Matching, Where
<1>6. ReadType'
  BY <1>3, <1>4 DEF ReadInv, ReadType
<1>7. AfterOffset'
  BY <1>3, <1>4, <1>5 DEF ReadInv, AfterOffset
<1> QED
  BY <1>4, <1>6, <1>7 DEF ReadInv, ExportsAll

\* What follows the offset, up to a place in the sequence.
LEMMA PageIs ==
    ASSUME NEW S, NEW seq \in Seq(S), NEW start \in Nat, NEW end \in Nat, end <= Len(seq)
    PROVE  LET page == SubSeq(seq, start + 1, end)
           IN /\ Len(page) = IF start + 1 <= end THEN end - start ELSE 0
              /\ \A k \in 1 .. Len(page) : page[k] = seq[start + k]
              /\ DOMAIN page = 1 .. Len(page)
  OBVIOUS

LEMMA RowsKeeps ==
    ASSUME ReadsFit, ReadInv, ReadRows
    PROVE  ReadInv'
<1>1. /\ export.step = "rows" /\ AfterOffset
      /\ export \in Exports
      /\ UNCHANGED <<stored, last, instant, since>>
  BY DEF ReadRows, ReadInv, ReadType, NoExport, Exports
<1>2. PICK limit : limit = Clamp(export.limit)
  OBVIOUS
<1>3. limit \in Nat \ {0}
  BY <1>1, <1>2 DEF Clamp, ReadsFit, Exports
<1>4. PICK M, offset : M = Matching(export) /\ offset = export.offset
  OBVIOUS
<1>5. M \in SUBSET stored /\ offset \in Nat
  BY <1>1, <1>4, MatchingIs DEF ReadInv, Exports
<1>6. PICK ranked \in Orders(M) :
          LET end == offset + limit
              page == SubSeq(ranked, offset + 1, IF end < Len(ranked) THEN end ELSE Len(ranked))
          IN /\ got' = got \union {r.id : r \in ToSet(page)}
             /\ export' = IF Len(page) < limit THEN [export EXCEPT !.step = "done"]
                          ELSE [export EXCEPT !.step = "count", !.offset = @ + limit]
             /\ moved' = IF end < Len(ranked) THEN moved \union {r.id : r \in TiedWithLast(page, M)}
                         ELSE moved
  BY <1>2, <1>4 DEF ReadRows
<1>7. ASSUME M # {}
      PROVE  /\ ranked \in Seq(M) /\ Len(ranked) \in Nat
             /\ \A i, j \in DOMAIN ranked : i < j => ranked[i].timestamp >= ranked[j].timestamp
  <2>1. PICK r \in M : TRUE
    BY <1>7
  <2>2. ranked \in Seq(M) /\ \A i, j \in DOMAIN ranked : i < j => ranked[i].timestamp >= ranked[j].timestamp
    BY <1>5, <2>1, PlaceIs DEF ReadInv
  <2> QED
    BY <2>2
<1>8. PICK last1 : last1 = IF offset + limit < Len(ranked) THEN offset + limit ELSE Len(ranked)
  OBVIOUS
<1>9. PICK page : page = SubSeq(ranked, offset + 1, last1)
  OBVIOUS
<1>10. /\ got' = got \union {r.id : r \in ToSet(page)}
       /\ export' = IF Len(page) < limit THEN [export EXCEPT !.step = "done"]
                    ELSE [export EXCEPT !.step = "count", !.offset = @ + limit]
       /\ moved' = IF offset + limit < Len(ranked) THEN moved \union {r.id : r \in TiedWithLast(page, M)}
                   ELSE moved
  BY <1>6, <1>8, <1>9
<1>11. /\ export' \in Exports
       /\ export'.account = export.account /\ export'.from = export.from
       /\ Len(page) < limit => export'.step = "done"
       /\ ~(Len(page) < limit) => export'.step = "count" /\ export'.offset = offset + limit
  <2>1. PICK e, f, n : e = export /\ f = export' /\ n = offset + limit
    OBVIOUS
  <2>2. /\ e \in Exports /\ n \in Nat
        /\ Len(page) < limit => f = [e EXCEPT !.step = "done"]
        /\ ~(Len(page) < limit) => f = [e EXCEPT !.step = "count", !.offset = n]
    BY <1>1, <1>3, <1>4, <1>5, <1>10, <2>1
  <2>3. CASE Len(page) < limit
    <3>1. f \in Exports /\ f.step = "done" /\ f.account = e.account /\ f.from = e.from
      BY <2>2, <2>3 DEF Exports
    <3> QED
      BY <2>1, <2>3, <3>1
  <2>4. CASE ~(Len(page) < limit)
    <3>1. f \in Exports /\ f.step = "count" /\ f.account = e.account /\ f.from = e.from /\ f.offset = n
      BY <2>2, <2>4 DEF Exports
    <3> QED
      BY <2>1, <2>4, <3>1
  <2> QED
    BY <2>3, <2>4
<1>12. Matching(export)' = M
  BY <1>1, <1>4, <1>11 DEF Matching, Where
<1>13. ReadType'
  BY <1>1, <1>11 DEF ReadInv, ReadType
\* What is not on the page comes after it, and only a full page has something after it.
<1>14. ASSUME NEW r \in M, r.id \in since \ (got' \union moved')
       PROVE  offset + limit <= Cardinality(NewerOf(M, r)) /\ ~(Len(page) < limit)
  <2>1. ranked \in Seq(M) /\ Len(ranked) \in Nat
    BY <1>7, <1>14
  <2>2. PICK i \in 1 .. Len(ranked) : ranked[i] = r /\ Cardinality(NewerOf(M, r)) <= i - 1
    BY <1>5, PlaceIs DEF ReadInv
  <2>3. Cardinality(NewerOf(M, r)) \in Nat
    BY <1>5, PlaceIs DEF ReadInv
  <2>4. r.id \notin moved
    BY <1>10, <1>14
  <2>5. offset <= Cardinality(NewerOf(M, r))
    BY <1>1, <1>4, <1>10, <1>14, <2>4 DEF AfterOffset
  <2>6. offset + 1 <= i /\ i \in Nat /\ i <= Len(ranked)
    BY <1>5, <2>1, <2>2, <2>3, <2>5
  <2>7. last1 \in Nat /\ last1 <= Len(ranked) /\ (last1 = Len(ranked) \/ (last1 = offset + limit /\ last1 < Len(ranked)))
    BY <1>3, <1>5, <1>8, <2>1
  <2>8. /\ Len(page) = IF offset + 1 <= last1 THEN last1 - offset ELSE 0
        /\ \A k \in 1 .. Len(page) : page[k] = ranked[offset + k]
        /\ DOMAIN page = 1 .. Len(page)
    BY <1>5, <1>9, <2>1, <2>7, PageIs
  <2>9. ASSUME i <= last1 PROVE FALSE
    <3>1. i - offset \in DOMAIN page /\ page[i - offset] = r
      BY <1>5, <2>2, <2>6, <2>7, <2>8, <2>9
    <3>2. r \in ToSet(page)
      BY <3>1 DEF ToSet
    <3> QED
      BY <1>10, <1>14, <3>2
  <2>10. last1 = offset + limit /\ last1 < i /\ last1 < Len(ranked) /\ Len(page) = limit
    BY <1>3, <1>5, <2>6, <2>7, <2>8, <2>9
  <2>11. page # <<>> /\ page[Len(page)] = ranked[last1] /\ last1 \in 1 .. Len(ranked)
    BY <1>3, <1>5, <2>7, <2>8, <2>10
  <2>12. r \notin TiedWithLast(page, M)
    BY <1>10, <1>14, <2>10
  <2>13. ranked[last1].timestamp # r.timestamp
    BY <1>14, <2>11, <2>12 DEF TiedWithLast
  <2>14. \A j \in 1 .. Len(ranked) : ranked[j].timestamp \in Nat
    <3>1. \A q \in M : q.timestamp \in Nat
      BY <1>5 DEF ReadInv, ReadType
    <3> QED
      BY <2>1, <3>1
  <2>15. \A j \in 1 .. last1 : Newer(ranked[j], r)
    <3>1. \A j, k \in 1 .. Len(ranked) : j < k => ranked[j].timestamp >= ranked[k].timestamp
      BY <1>7, <1>14, <2>1
    <3>2. ranked[last1].timestamp > r.timestamp
      BY <2>2, <2>10, <2>11, <2>13, <2>14, <3>1
    <3> QED
      BY <2>2, <2>7, <2>11, <2>14, <3>1, <3>2 DEF Newer
  <2>16. last1 <= Cardinality(NewerOf(M, r))
    <3>1. last1 \in 0 .. Len(ranked)
      BY <2>1, <2>7
    <3> QED
      BY <1>5, <2>15, <3>1, PlaceIs DEF ReadInv
  <2> QED
    BY <1>3, <2>10, <2>16
<1>15. since \subseteq {r.id : r \in M}
  BY <1>1, <1>4 DEF AfterOffset
<1>16. CASE Len(page) < limit
  <2>1. since' \ moved' \subseteq got'
    BY <1>1, <1>14, <1>15, <1>16
  <2> QED
    BY <1>11, <1>13, <1>16, <2>1 DEF ReadInv, ExportsAll
<1>17. CASE ~(Len(page) < limit)
  <2>1. AfterOffset'
    BY <1>1, <1>11, <1>12, <1>14, <1>15, <1>17 DEF AfterOffset
  <2> QED
    BY <1>11, <1>13, <1>17, <2>1 DEF ReadInv, ExportsAll
<1> QED
  BY <1>16, <1>17

LEMMA ReadsKeep == ReadsFit /\ ReadInv /\ [ReadNext]_readVars => ReadInv'
<1> SUFFICES ASSUME ReadsFit, ReadInv, [ReadNext]_readVars PROVE ReadInv'
  OBVIOUS
<1>1. CASE UNCHANGED readVars
  <2>1. ReadType' /\ ExportsAll'
    BY <1>1 DEF readVars, ReadInv, ReadType, ExportsAll
  <2>2. AfterOffset' = AfterOffset
    BY <1>1 DEF readVars, AfterOffset, Matching
  <2> QED
    BY <1>1, <2>1, <2>2 DEF ReadInv, readVars
<1>2. CASE Passes
  <2>1. UNCHANGED <<stored, last, export, got, since, moved>> /\ instant' \in Nat
    BY <1>2 DEF Passes, ReadInv, ReadType
  <2>2. ReadType' /\ ExportsAll'
    BY <2>1 DEF ReadInv, ReadType, ExportsAll
  <2>3. AfterOffset' = AfterOffset
    BY <2>1 DEF AfterOffset, Matching
  <2> QED
    BY <2>1, <2>2, <2>3 DEF ReadInv
<1> QED
  BY <1>1, <1>2, StoringKeeps, DeleteKeeps, ExportKeeps, CountKeeps, RowsKeeps DEF ReadNext

LEMMA ReadsStart == ReadsFit /\ ReadInit => ReadInv
<1> SUFFICES ASSUME ReadsFit, ReadInit PROVE ReadInv
  OBVIOUS
<1>1. export.step = "none" /\ export = NoExport
  BY DEF ReadInit, NoExport
<1>2. ReadType
  BY <1>1, FS_EmptySet DEF ReadInit, ReadType
<1> QED
  BY <1>1, <1>2 DEF ReadInv, ExportsAll

\* However many messages there are, of whatever accounts and timestamps, whatever limit and filters the
\* client asks for, and whatever is stored or deleted between its pages: an export that followed the
\* offset to its end has every message that was there all along, but for those a purge of newer ones
\* moved to the front and those tied with the last of a page. (query, /messages/export.)
THEOREM ExportComplete == ReadsFit /\ ReadSpec => []ExportsAll
<1> SUFFICES ASSUME ReadsFit PROVE ReadSpec => []ExportsAll
  OBVIOUS
<1>1. ReadInit => ReadInv
  BY ReadsStart
<1>2. ReadInv /\ [ReadNext]_readVars => ReadInv'
  BY ReadsKeep
<1>3. ReadInv => ExportsAll
  BY DEF ReadInv
<1> QED
  BY <1>1, <1>2, <1>3, PTL DEF ReadSpec

---------------------------------------------------------------------------
(***************************************************************************)
(* Proofs about Conversations, for any messages, chats, accounts, requests *)
(* and faults. Each row of the log says where in what happened its message *)
(* has its place, and the queue has, of every message that is not logged   *)
(* yet, a copy that comes after those of all earlier ones.                 *)
(***************************************************************************)

Senders == ToSet(Accounts) \union {From[q] : q \in Request}

Envelopes ==
    [message : Received, waId : Received, direction : {"inbound"}, account : {Receiver},
     conversation : {Chat[m] : m \in Received} \union {"phone"}, at : Nat,
     content : {Content(Mapped(Body[m])) : m \in Received}]

OutboundRows ==
    [message : Request, waId : Request \union {0}, direction : {"outbound"}, account : Senders,
     conversation : {To[q] : q \in Request}, at : Nat, content : {OutboundContent(Body[q]) : q \in Request}]

AfterSending ==
    [step : {"sent", "saved"}, account : Senders, at : Nat, raw : BOOLEAN,
     asked : {AskedOf(a, Body[q]) : a \in Senders, q \in Request}]

TalkType ==
    /\ queue \in Seq(Envelopes)
    /\ saved \in Seq(Envelopes \union OutboundRows)
    /\ happened \in Seq(Received \union Request)
    /\ step \in {"idle", "lid", "group", "log"} /\ (step # "idle" => queue # <<>>)
    /\ request = [q \in Request |-> request[q]]
    /\ \A q \in Request :
           /\ request[q].step \in {"new", "sending", "sent", "saved", "over"}
           /\ request[q].step = "sending" => request[q].account \in Senders
           /\ request[q].step \in {"sent", "saved"} => request[q] \in AfterSending

\* Everything has one place in what happened.
PlaceInv ==
    /\ \A p, n \in DOMAIN happened : happened[p] = happened[n] => p = n
    /\ \A q \in Request :
           /\ request[q].step \in {"new", "sending"} => \A p \in DOMAIN happened : happened[p] # q
           /\ request[q].step \in {"sent", "saved"} =>
                  /\ request[q].at \in DOMAIN happened /\ happened[request[q].at] = q
                  /\ request[q].asked = AskedOf(request[q].account, Body[q])

HasRow(m) == \E i \in DOMAIN saved : saved[i].message = m

\* A row is of what happened, as it happened.
RowInv ==
    /\ \A i \in DOMAIN saved : saved[i].message \in Received =>
           /\ saved[i].waId = saved[i].message
           /\ saved[i].at \in DOMAIN happened /\ happened[saved[i].at] = saved[i].message
           /\ saved[i].content = Content(Mapped(Body[saved[i].message]))
           /\ saved[i].conversation = ChatOf(saved[i].message)
           /\ \A p \in DOMAIN happened : p < saved[i].at /\ happened[p] \in Received => HasRow(happened[p])
    /\ \A i, k \in DOMAIN saved :
           saved[i].message \in Received /\ saved[k].message \in Received /\ i < k => saved[i].at < saved[k].at
    /\ \A i \in DOMAIN saved : saved[i].message \in Request =>
           Saved(saved[i].message) /\ saved[i] = OutboundRow(saved[i].message)
    /\ \A q \in Request : Saved(q) => HasRow(q)

\* The first copy of a message in the queue.
IsFirst(i) == ~HasRow(queue[i].message) /\ \A j \in DOMAIN queue : j < i => queue[j].message # queue[i].message

QueueInv ==
    /\ \A i \in DOMAIN queue :
           /\ queue[i].waId = queue[i].message
           /\ queue[i].content = Content(Mapped(Body[queue[i].message]))
           /\ \E p \in DOMAIN happened : happened[p] = queue[i].message
           /\ IsFirst(i) => queue[i].at \in DOMAIN happened /\ happened[queue[i].at] = queue[i].message
           /\ i # 1 \/ step # "log" => queue[i].conversation = Chat[queue[i].message]
           /\ i = 1 /\ ~HasRow(queue[i].message) /\ step = "log" => queue[i].conversation = ChatOf(queue[i].message)
    /\ \A m \in lookedUp : m \in Received /\ (HasRow(m) \/ (step = "log" /\ queue[1].message = m))
    /\ \A p \in DOMAIN happened : happened[p] \in Received =>
           HasRow(happened[p]) \/ \E i \in DOMAIN queue : queue[i].message = happened[p]
    /\ \A p, n \in DOMAIN happened :
           p < n /\ happened[p] \in Received /\ happened[n] \in Received /\ ~HasRow(happened[p]) =>
               \A i \in DOMAIN queue : queue[i].message = happened[n] =>
                   \E j \in DOMAIN queue : j < i /\ queue[j].message = happened[p]

WaitsInv ==
    /\ waits \in Nat /\ waits <= 1
    /\ step # "group" /\ groupName = "unknown" => waits = 0
    /\ step = "group" => groupName = "unknown"

TalkInv == TalkType /\ PlaceInv /\ RowInv /\ QueueInv /\ WaitsInv
---------------------------------------------------------------------------
LEMMA LoggedIs ==
    ASSUME TalkType, RowInv, IdsDiffer, NEW m \in Received
    PROVE  /\ Logged(m) <=> HasRow(m)
           /\ \A i \in Holds(Receiver, m) : i \in DOMAIN saved /\ saved[i].message = m
<1>1. \A i \in DOMAIN saved : saved[i] \in Envelopes \/ saved[i] \in OutboundRows
  BY ElementOfSeq DEF TalkType
<1>2. ASSUME NEW i \in Holds(Receiver, m) PROVE i \in DOMAIN saved /\ saved[i].message = m
  BY <1>1 DEF Holds, Envelopes, OutboundRows, RowInv, IdsDiffer
<1>3. ASSUME NEW i \in DOMAIN saved, saved[i].message = m PROVE i \in Holds(Receiver, m)
  BY <1>1, <1>3 DEF Holds, Envelopes, OutboundRows, RowInv, IdsDiffer
<1> QED
  BY <1>2, <1>3 DEF Logged, HasRow

LEMMA TalkStarts == TalkInit => TalkInv
<1> SUFFICES ASSUME TalkInit PROVE TalkInv
  OBVIOUS
<1>1. queue = <<>> /\ saved = <<>> /\ happened = <<>> /\ lookedUp = {} /\ step = "idle" /\ waits = 0
  BY DEF TalkInit
<1>2. \A q \in Request : request[q] = [step |-> "new"] /\ request[q].step = "new"
  BY DEF TalkInit
<1>3. request = [q \in Request |-> request[q]]
  BY DEF TalkInit
<1>4. TalkType
  BY <1>1, <1>2, <1>3 DEF TalkType
<1> QED
  BY <1>1, <1>2, <1>4 DEF TalkInv, PlaceInv, RowInv, QueueInv, WaitsInv, Saved
---------------------------------------------------------------------------
\* Steps that move no message

\* The head goes on to the lookup that it needs, or to the log.
LEMMA TurnsKeep ==
    ASSUME TalkInv, IdsDiffer, TakeTurn \/ GroupAnswers \/ GroupRunsOut \/ \E a \in ToSet(Accounts) : Change(a)
    PROVE  TalkInv'
<1>1. UNCHANGED <<queue, saved, happened, request, lookedUp>>
  BY DEF TakeTurn, GroupAnswers, GroupRunsOut, Change, HeadGoesOn
<1>2. step' = step \/ (step' \in {"lid", "group", "log"} /\ queue # <<>> /\ step \in {"idle", "group"})
  BY DEF TakeTurn, GroupAnswers, GroupRunsOut, Change, HeadGoesOn, TalkInv, QueueInv, TalkType
<1>3. TalkType' /\ PlaceInv' /\ RowInv'
  BY <1>1, <1>2 DEF TalkInv, TalkType, PlaceInv, RowInv, HasRow, Saved, ChatOf, OutboundRow
<1>4. QueueInv'
  <2>1. \A m : HasRow(m)' <=> HasRow(m)
    BY <1>1 DEF HasRow
  <2>2. \A i : IsFirst(i)' <=> IsFirst(i)
    BY <1>1, <2>1 DEF IsFirst
  <2>3. \A m : ChatOf(m)' = ChatOf(m)
    BY <1>1 DEF ChatOf
  <2>4. ASSUME NEW i \in DOMAIN queue, i # 1 \/ step' # "log"
        PROVE  queue[i].conversation = Chat[queue[i].message]
    BY <1>2, <2>4 DEF TalkInv, QueueInv
  <2>5. ASSUME 1 \in DOMAIN queue, ~HasRow(queue[1].message), step' = "log"
        PROVE  queue[1].conversation = ChatOf(queue[1].message)
    <3>1. CASE step = "log"
      BY <2>5, <3>1 DEF TalkInv, QueueInv
    <3>2. CASE step # "log"
      <4>1. queue[1].message \notin lookedUp /\ queue[1].conversation = Chat[queue[1].message]
        BY <2>5, <3>2 DEF TalkInv, QueueInv
      <4>2. queue[1] \in Envelopes
        BY <2>5, ElementOfSeq DEF TalkInv, TalkType
      <4>3. queue[1].message \notin Request
        BY <4>2 DEF Envelopes, IdsDiffer
      <4> QED
        BY <4>1, <4>3 DEF ChatOf
    <3> QED
      BY <3>1, <3>2
  <2>6. \A m \in lookedUp : m \in Received /\ (HasRow(m) \/ (step' = "log" /\ queue[1].message = m))
    BY <1>2 DEF TalkInv, QueueInv
  <2> QED
    BY <1>1, <2>1, <2>2, <2>3, <2>4, <2>5, <2>6 DEF TalkInv, QueueInv
<1>5. WaitsInv'
  <2>1. CASE TakeTurn
    BY <2>1 DEF TakeTurn, HeadGoesOn, TalkInv, WaitsInv
  <2>2. CASE GroupAnswers
    BY <2>2 DEF GroupAnswers, HeadGoesOn, TalkInv, WaitsInv
  <2>3. CASE GroupRunsOut
    BY <2>3 DEF GroupRunsOut, TalkInv, WaitsInv
  <2>4. ASSUME NEW a \in ToSet(Accounts), Change(a) PROVE WaitsInv'
    BY <2>4 DEF Change, TalkInv, WaitsInv
  <2> QED
    BY <2>1, <2>2, <2>3, <2>4
<1> QED
  BY <1>3, <1>4, <1>5 DEF TalkInv

\* The phone takes the place of the LID for good, if this copy is the one that will be logged.
LEMMA LookupKeeps ==
    ASSUME TalkInv, IdsDiffer, LidAnswers
    PROVE  TalkInv'
<1>1. UNCHANGED <<saved, happened, request, groupName, waits>> /\ step = "lid" /\ step' = "log" /\ queue # <<>>
  BY DEF LidAnswers, HeadGoesOn, TalkInv, TalkType
<1>2. queue \in Seq(Envelopes) /\ 1 \in DOMAIN queue /\ Head(queue) = queue[1] /\ queue[1] \in Envelopes
  BY <1>1 DEF TalkInv, TalkType
<1>3. PICK m \in Received : m = queue[1].message
  BY <1>2 DEF Envelopes
<1>4. Logged(m) <=> HasRow(m)
  BY <1>3, LoggedIs DEF TalkInv
<1>5. \/ /\ queue' = [queue EXCEPT ![1] = [@ EXCEPT !.conversation = "phone"]]
         /\ lookedUp' = IF HasRow(m) THEN lookedUp ELSE lookedUp \union {m}
      \/ queue' = queue /\ lookedUp' = lookedUp
  BY <1>2, <1>3, <1>4 DEF LidAnswers, Logged
<1>6. /\ queue' \in Seq(Envelopes) /\ DOMAIN queue' = DOMAIN queue
      /\ \A i \in DOMAIN queue : /\ queue'[i].message = queue[i].message /\ queue'[i].waId = queue[i].waId
                                 /\ queue'[i].at = queue[i].at /\ queue'[i].content = queue[i].content
                                 /\ i # 1 => queue'[i] = queue[i]
  <2>1. CASE queue' = queue
    BY <1>2, <2>1
  <2>2. CASE queue' = [queue EXCEPT ![1] = [@ EXCEPT !.conversation = "phone"]]
    <3>1. [queue[1] EXCEPT !.conversation = "phone"] \in Envelopes
      BY <1>2 DEF Envelopes
    <3> QED
      BY <1>2, <2>2, <3>1, ExceptSeq DEF Envelopes
  <2> QED
    BY <1>5, <2>1, <2>2
<1>7. \A n : HasRow(n)' <=> HasRow(n)
  BY <1>1 DEF HasRow
<1>8. lookedUp' \in {lookedUp, lookedUp \union {m}} /\ (lookedUp' # lookedUp => ~HasRow(m))
  BY <1>5
<1>9. \A n : n # m \/ HasRow(m) => ChatOf(n)' = ChatOf(n)
  BY <1>8 DEF ChatOf
<1>10. TalkType'
  BY <1>1, <1>2, <1>6 DEF TalkInv, TalkType
<1>11. PlaceInv'
  BY <1>1 DEF TalkInv, PlaceInv
<1>12. RowInv'
  <2>1. \A i \in DOMAIN saved : ChatOf(saved[i].message)' = ChatOf(saved[i].message)
    <3> SUFFICES ASSUME NEW i \in DOMAIN saved PROVE ChatOf(saved[i].message)' = ChatOf(saved[i].message)
      OBVIOUS
    <3>1. HasRow(saved[i].message)
      BY DEF HasRow
    <3>2. PICK n : n = saved[i].message
      OBVIOUS
    <3>3. ChatOf(n)' = ChatOf(n)
      BY <1>9, <3>1, <3>2
    <3> QED
      BY <1>1, <3>2, <3>3 DEF ChatOf
  <2>2. \A q \in Request : Saved(q)' <=> Saved(q)
    BY <1>1 DEF Saved
  <2>3. \A q : OutboundRow(q)' = OutboundRow(q)
    BY <1>1 DEF OutboundRow
  <2> QED
    BY <1>1, <1>7, <2>1, <2>2, <2>3 DEF TalkInv, RowInv
<1>13. QueueInv'
  <2>1. \A i \in DOMAIN queue : IsFirst(i)' <=> IsFirst(i)
    BY <1>6, <1>7 DEF IsFirst
  <2>2. ASSUME ~HasRow(m)
        PROVE  queue'[1].conversation = ChatOf(m)'
    <3>1. m \notin lookedUp /\ queue[1].conversation = Chat[m]
      BY <1>1, <1>2, <1>3, <2>2 DEF TalkInv, QueueInv
    <3>2. m \notin Request
      BY DEF IdsDiffer
    <3>3. CASE /\ queue' = [queue EXCEPT ![1] = [@ EXCEPT !.conversation = "phone"]]
               /\ lookedUp' = lookedUp \union {m}
      <4>1. queue'[1].conversation = "phone"
        BY <1>2, <3>3 DEF Envelopes
      <4> QED
        BY <3>2, <3>3, <4>1 DEF ChatOf
    <3>4. CASE queue' = queue /\ lookedUp' = lookedUp
      BY <3>1, <3>2, <3>4 DEF ChatOf
    <3> QED
      BY <1>5, <2>2, <3>3, <3>4
  <2>3. \A n \in lookedUp' : n \in Received /\ (HasRow(n) \/ queue'[1].message = n)
    BY <1>1, <1>2, <1>3, <1>6, <1>8 DEF TalkInv, QueueInv
  <2>4. ASSUME NEW i \in DOMAIN queue
        PROVE  /\ queue'[i].waId = queue'[i].message
               /\ queue'[i].content = Content(Mapped(Body[queue'[i].message]))
               /\ \E p \in DOMAIN happened : happened[p] = queue'[i].message
               /\ IsFirst(i)' => queue'[i].at \in DOMAIN happened /\ happened[queue'[i].at] = queue'[i].message
               /\ i # 1 => queue'[i].conversation = Chat[queue'[i].message]
    BY <1>6, <2>1 DEF TalkInv, QueueInv
  <2>5. \A p \in DOMAIN happened : happened[p] \in Received =>
            HasRow(happened[p]) \/ \E i \in DOMAIN queue : queue'[i].message = happened[p]
    BY <1>6 DEF TalkInv, QueueInv
  <2>6. \A p, n \in DOMAIN happened :
            p < n /\ happened[p] \in Received /\ happened[n] \in Received /\ ~HasRow(happened[p]) =>
                \A i \in DOMAIN queue : queue'[i].message = happened[n] =>
                    \E j \in DOMAIN queue : j < i /\ queue'[j].message = happened[p]
    <3> SUFFICES ASSUME NEW p \in DOMAIN happened, NEW n \in DOMAIN happened, p < n, happened[p] \in Received,
                        happened[n] \in Received, ~HasRow(happened[p]),
                        NEW i \in DOMAIN queue, queue'[i].message = happened[n]
                 PROVE  \E j \in DOMAIN queue : j < i /\ queue'[j].message = happened[p]
      OBVIOUS
    <3>1. \E j \in DOMAIN queue : j < i /\ queue[j].message = happened[p]
      BY <1>6 DEF TalkInv, QueueInv
    <3> QED
      BY <1>6, <3>1
  <2>7. 1 \in DOMAIN queue /\ queue'[1].message = m
    BY <1>2, <1>3, <1>6
  <2> QED
    BY <1>1, <1>6, <2>2, <2>3, <2>4, <2>5, <2>6, <2>7 DEF QueueInv, HasRow
<1>14. WaitsInv'
  BY <1>1 DEF TalkInv, WaitsInv
<1> QED
  BY <1>10, <1>11, <1>12, <1>13, <1>14 DEF TalkInv
---------------------------------------------------------------------------
\* Receiving

\* What is logged comes first of what is left, and is not logged again.
LEMMA StoreKeeps ==
    ASSUME TalkInv, IdsDiffer, StoreHead
    PROVE  TalkInv'
<1>1. UNCHANGED <<happened, request, groupName, waits, lookedUp>> /\ step = "log" /\ step' = "idle" /\ queue # <<>>
  BY DEF StoreHead, TalkInv, TalkType
<1>2. queue \in Seq(Envelopes) /\ saved \in Seq(Envelopes \union OutboundRows) /\ 1 \in DOMAIN queue
  BY <1>1 DEF TalkInv, TalkType
<1>3. PICK r \in Envelopes : r = queue[1] /\ r = Head(queue) /\ r.waId = r.message /\ r.account = Receiver
  <2>1. queue[1] \in Envelopes /\ Head(queue) = queue[1] /\ queue[1].waId = queue[1].message
    BY <1>2 DEF TalkInv, QueueInv
  <2> QED
    BY <2>1 DEF Envelopes
<1>4. r.message \in Received /\ r.message \notin Request
  BY DEF Envelopes, IdsDiffer
<1>5. Logged(r.message) <=> HasRow(r.message)
  BY <1>4, LoggedIs DEF TalkInv
<1>6. saved' = IF HasRow(r.message) THEN saved ELSE Append(saved, r)
  BY <1>3, <1>5 DEF StoreHead, Logged
<1>7. \A x : HasRow(x)' <=> HasRow(x) \/ x = r.message
  <2>1. CASE HasRow(r.message)
    BY <1>6, <2>1 DEF HasRow
  <2>2. CASE ~HasRow(r.message)
    <3>1. saved' = Append(saved, r)
      BY <1>6, <2>2
    <3>2. /\ DOMAIN saved' = DOMAIN saved \union {Len(saved) + 1} /\ saved'[Len(saved) + 1] = r
          /\ \A i \in DOMAIN saved : saved'[i] = saved[i]
      BY <1>2, <3>1
    <3> QED
      BY <3>2 DEF HasRow
  <2> QED
    BY <2>1, <2>2
<1>8. queue' = Tail(queue) /\ queue' \in Seq(Envelopes)
      /\ (\A i \in DOMAIN queue' : i + 1 \in DOMAIN queue /\ queue'[i] = queue[i + 1])
      /\ (\A i \in DOMAIN queue : i = 1 \/ (i - 1 \in DOMAIN queue' /\ queue'[i - 1] = queue[i]))
  BY <1>1, <1>2 DEF StoreHead
<1>9. TalkType'
  <2>1. saved' \in Seq(Envelopes \union OutboundRows)
    BY <1>2, <1>3, <1>6
  <2> QED
    BY <1>1, <1>8, <2>1 DEF TalkInv, TalkType
<1>10. PlaceInv'
  BY <1>1 DEF TalkInv, PlaceInv
<1>11. RowInv'
  <2>1. \A x : ChatOf(x)' = ChatOf(x)
    BY <1>1 DEF ChatOf
  <2>2. \A q : (Saved(q)' <=> Saved(q)) /\ OutboundRow(q)' = OutboundRow(q)
    BY <1>1 DEF Saved, OutboundRow
  <2>3. CASE HasRow(r.message)
    <3>1. saved' = saved /\ \A x : HasRow(x)' <=> HasRow(x)
      BY <1>6, <1>7, <2>3
    <3> QED
      BY <1>1, <3>1, <2>1, <2>2 DEF TalkInv, RowInv
  <2>4. CASE ~HasRow(r.message)
    <3>1. /\ DOMAIN saved' = DOMAIN saved \union {Len(saved) + 1} /\ saved'[Len(saved) + 1] = r
          /\ \A i \in DOMAIN saved : saved'[i] = saved[i] /\ i < Len(saved) + 1 /\ i \in Nat
      BY <1>2, <1>6, <2>4
    <3>2. /\ r.at \in DOMAIN happened /\ happened[r.at] = r.message
          /\ r.content = Content(Mapped(Body[r.message])) /\ r.conversation = ChatOf(r.message)
      <4>1. IsFirst(1)
        BY <1>2, <1>3, <2>4 DEF IsFirst
      <4> QED
        BY <1>1, <1>2, <1>3, <2>4, <4>1 DEF TalkInv, QueueInv
    <3>3. \A p \in DOMAIN happened : p < r.at /\ happened[p] \in Received => HasRow(happened[p])
      <4> SUFFICES ASSUME NEW p \in DOMAIN happened, p < r.at, happened[p] \in Received, ~HasRow(happened[p])
                   PROVE  FALSE
        OBVIOUS
      <4>1. \E j \in DOMAIN queue : j < 1 /\ queue[j].message = happened[p]
        BY <1>2, <1>3, <1>4, <3>2 DEF TalkInv, QueueInv
      <4> QED
        BY <1>2, <4>1
    <3>4. ASSUME NEW i \in DOMAIN saved, saved[i].message \in Received
          PROVE  saved[i].at < r.at
      <4>1. saved[i].message # r.message /\ saved[i].at \in DOMAIN happened /\ happened[saved[i].at] = saved[i].message
        BY <2>4, <3>4 DEF TalkInv, RowInv, HasRow
      <4>2. saved[i].at \in Nat /\ r.at \in Nat
        BY <3>2, <4>1 DEF TalkInv, TalkType
      <4>3. CASE r.at < saved[i].at
        BY <1>4, <2>4, <3>2, <3>4, <4>3 DEF TalkInv, RowInv
      <4> QED
        BY <3>2, <4>1, <4>2, <4>3
    <3> DEFINE RowOf(s) ==
                  /\ s.waId = s.message
                  /\ s.at \in DOMAIN happened /\ happened[s.at] = s.message
                  /\ s.content = Content(Mapped(Body[s.message]))
                  /\ s.conversation = ChatOf(s.message)
                  /\ \A p \in DOMAIN happened : p < s.at /\ happened[p] \in Received => HasRow(happened[p])
    <3>5. \A i \in DOMAIN saved : saved[i].message \in Received => RowOf(saved[i])
      BY DEF TalkInv, RowInv
    <3>6. RowOf(r)
      BY <1>3, <3>2, <3>3
    <3>7. \A i \in DOMAIN saved' : saved'[i].message \in Received => RowOf(saved'[i])
      <4> HIDE DEF RowOf
      <4> QED
        BY <3>1, <3>5, <3>6
    <3>8. \A i, k \in DOMAIN saved' :
              saved'[i].message \in Received /\ saved'[k].message \in Received /\ i < k => saved'[i].at < saved'[k].at
      <4> SUFFICES ASSUME NEW i \in DOMAIN saved', NEW k \in DOMAIN saved', i < k,
                          saved'[i].message \in Received, saved'[k].message \in Received
                   PROVE  saved'[i].at < saved'[k].at
        OBVIOUS
      <4>1. i \in DOMAIN saved
        BY <1>2, <3>1
      <4>2. CASE k \in DOMAIN saved
        BY <3>1, <4>1, <4>2 DEF TalkInv, RowInv
      <4>3. CASE k = Len(saved) + 1
        BY <3>1, <3>4, <4>1, <4>3
      <4> QED
        BY <3>1, <4>2, <4>3
    <3>9. \A i \in DOMAIN saved' : saved'[i].message \in Request =>
              Saved(saved'[i].message) /\ saved'[i] = OutboundRow(saved'[i].message)
      BY <1>4, <3>1 DEF TalkInv, RowInv
    <3>10. \A q \in Request : Saved(q) => HasRow(q)'
      BY <1>7 DEF TalkInv, RowInv
    <3> QED
      BY <1>1, <1>7, <2>1, <2>2, <3>7, <3>8, <3>9, <3>10 DEF RowInv
  <2> QED
    BY <2>3, <2>4
<1>12. QueueInv'
  <2>1. ASSUME NEW i \in DOMAIN queue', IsFirst(i)' PROVE IsFirst(i + 1)
    <3>1. /\ i + 1 \in DOMAIN queue /\ queue'[i] = queue[i + 1] /\ ~HasRow(queue[i + 1].message)
          /\ queue[i + 1].message # r.message
      BY <1>7, <1>8, <2>1 DEF IsFirst
    <3>2. ASSUME NEW j \in DOMAIN queue, j < i + 1 PROVE queue[j].message # queue[i + 1].message
      <4>1. CASE j = 1
        BY <1>3, <3>1, <4>1
      <4>2. CASE j # 1
        <5>1. j - 1 \in DOMAIN queue' /\ queue'[j - 1] = queue[j] /\ j - 1 < i
          BY <1>2, <1>8, <3>2, <4>2
        <5> QED
          BY <2>1, <3>1, <5>1 DEF IsFirst
      <4> QED
        BY <4>1, <4>2
    <3> QED
      BY <3>1, <3>2 DEF IsFirst
  <2>2. \A x : ChatOf(x)' = ChatOf(x)
    BY <1>1 DEF ChatOf
  <2>3. ASSUME NEW i \in DOMAIN queue'
        PROVE  /\ queue'[i].waId = queue'[i].message
               /\ queue'[i].content = Content(Mapped(Body[queue'[i].message]))
               /\ \E p \in DOMAIN happened : happened[p] = queue'[i].message
               /\ IsFirst(i)' => queue'[i].at \in DOMAIN happened /\ happened[queue'[i].at] = queue'[i].message
               /\ queue'[i].conversation = Chat[queue'[i].message]
    <3>1. i + 1 \in DOMAIN queue /\ queue'[i] = queue[i + 1] /\ i + 1 # 1
      BY <1>8
    <3> QED
      BY <2>1, <3>1 DEF TalkInv, QueueInv
  <2>4. \A n \in lookedUp : n \in Received /\ HasRow(n)'
    BY <1>3, <1>7 DEF TalkInv, QueueInv
  <2>5. ASSUME NEW p \in DOMAIN happened, happened[p] \in Received, ~(HasRow(happened[p]) \/ happened[p] = r.message)
        PROVE  \E i \in DOMAIN queue' : queue'[i].message = happened[p]
    <3>1. PICK i \in DOMAIN queue : queue[i].message = happened[p]
      BY <2>5 DEF TalkInv, QueueInv
    <3>2. i # 1
      BY <1>3, <2>5, <3>1
    <3> QED
      BY <1>8, <3>1, <3>2
  <2>6. ASSUME NEW p \in DOMAIN happened, NEW n \in DOMAIN happened, p < n, happened[p] \in Received,
               happened[n] \in Received, ~(HasRow(happened[p]) \/ happened[p] = r.message),
               NEW i \in DOMAIN queue', queue'[i].message = happened[n]
        PROVE  \E j \in DOMAIN queue' : j < i /\ queue'[j].message = happened[p]
    <3>1. i + 1 \in DOMAIN queue /\ queue[i + 1].message = happened[n] /\ ~HasRow(happened[p]) /\ happened[p] # r.message
      BY <1>8, <2>6
    <3>2. PICK j \in DOMAIN queue : j < i + 1 /\ queue[j].message = happened[p]
      BY <2>6, <3>1 DEF TalkInv, QueueInv
    <3>3. j - 1 \in DOMAIN queue' /\ queue'[j - 1].message = happened[p] /\ j - 1 < i
      BY <1>2, <1>3, <1>8, <3>1, <3>2
    <3> QED
      BY <3>3
  <2> QED
    <3> DEFINE Has(x) == \E i \in DOMAIN saved' : saved'[i].message = x
    <3>1. \A x : HasRow(x) \/ x = r.message <=> Has(x)
      BY <1>7 DEF HasRow
    <3> HIDE DEF Has
    <3>2. \A p \in DOMAIN happened : happened[p] \in Received =>
              Has(happened[p]) \/ \E i \in DOMAIN queue' : queue'[i].message = happened[p]
      BY <2>5, <3>1
    <3>3. \A p, n \in DOMAIN happened :
              p < n /\ happened[p] \in Received /\ happened[n] \in Received /\ ~Has(happened[p]) =>
                  \A i \in DOMAIN queue' : queue'[i].message = happened[n] =>
                      \E j \in DOMAIN queue' : j < i /\ queue'[j].message = happened[p]
      BY <2>6, <3>1
    <3>4. \A n \in lookedUp : n \in Received /\ Has(n)
      BY <2>4 DEF HasRow, Has
    <3> QED
      BY <1>1, <2>2, <2>3, <3>2, <3>3, <3>4 DEF QueueInv, HasRow, Has
<1>13. WaitsInv'
  BY <1>1 DEF TalkInv, WaitsInv
<1> QED
  BY <1>9, <1>10, <1>11, <1>12, <1>13 DEF TalkInv

\* What is taken into the queue comes behind all that happened before it.
LEMMA UpsertKeeps ==
    ASSUME TalkInv, IdsDiffer, NEW m \in Received, NEW type, NEW shape \in {"stub", "empty", "content"},
           Upsert(m, type, shape)
    PROVE  TalkInv'
<1>1. UNCHANGED <<step, saved, groupName, request, lookedUp, waits>> /\ m \notin Request
  BY DEF Upsert, IdsDiffer
<1>2. queue \in Seq(Envelopes) /\ happened \in Seq(Received \union Request) /\ (step # "idle" => queue # <<>>)
  BY DEF TalkInv, TalkType
<1>3. PICK e : e = InboundEnvelope(m, shape)
  OBVIOUS
<1>4. /\ e \in Envelopes /\ e.message = m /\ e.waId = m /\ e.conversation = Chat[m] /\ e.at = Len(happened) + 1
      /\ e.content = Content(Mapped(Body[m]))
  BY <1>2, <1>3 DEF Upsert, Skipped, InboundEnvelope, Envelopes, Now
<1>5. queue' = Append(queue, e)
  BY <1>3 DEF Upsert
<1>6. /\ queue' \in Seq(Envelopes) /\ DOMAIN queue' = DOMAIN queue \union {Len(queue) + 1}
      /\ queue'[Len(queue) + 1] = e /\ \A i \in DOMAIN queue : queue'[i] = queue[i] /\ i < Len(queue) + 1
  BY <1>2, <1>4, <1>5
<1>7. \/ happened' = happened /\ \E p \in DOMAIN happened : happened[p] = m
      \/ /\ \A p \in DOMAIN happened : happened[p] # m
         /\ happened' = Append(happened, m)
  BY <1>2 DEF Upsert, Contains
<1>8. /\ happened' \in Seq(Received \union Request) /\ DOMAIN happened \subseteq DOMAIN happened'
      /\ \A p \in DOMAIN happened : happened'[p] = happened[p]
      /\ \A p \in DOMAIN happened' : p \in Nat /\ (p \notin DOMAIN happened =>
             /\ p = Len(happened) + 1 /\ happened'[p] = m /\ \A n \in DOMAIN happened : n < p /\ happened[n] # m)
      /\ \E p \in DOMAIN happened' : happened'[p] = m
  <2>1. CASE happened' = happened /\ \E p \in DOMAIN happened : happened[p] = m
    BY <1>2, <2>1
  <2>2. CASE (\A p \in DOMAIN happened : happened[p] # m) /\ happened' = Append(happened, m)
    <3>1. /\ happened' \in Seq(Received \union Request) /\ Len(happened) \in Nat
          /\ DOMAIN happened' = DOMAIN happened \union {Len(happened) + 1} /\ happened'[Len(happened) + 1] = m
          /\ \A p \in DOMAIN happened : happened'[p] = happened[p] /\ p \in Nat /\ p < Len(happened) + 1
      BY <1>2, <2>2
    <3> QED
      BY <2>2, <3>1
  <2> QED
    BY <1>7, <2>1, <2>2
<1>9. \A x : HasRow(x)' <=> HasRow(x)
  BY <1>1 DEF HasRow
<1>10. TalkType'
  BY <1>1, <1>2, <1>6, <1>8 DEF TalkInv, TalkType
<1>11. PlaceInv'
  <2>1. \A p, n \in DOMAIN happened' : happened'[p] = happened'[n] => p = n
    BY <1>8 DEF TalkInv, PlaceInv
  <2>2. \A q \in Request : \A p \in DOMAIN happened' : happened'[p] = q => p \in DOMAIN happened /\ happened[p] = q
    BY <1>1, <1>8
  <2> QED
    BY <1>1, <1>8, <2>1, <2>2 DEF TalkInv, PlaceInv
<1>12. RowInv'
  <2>1. \A i \in DOMAIN saved : saved[i].message \in Received =>
            \A p \in DOMAIN happened' : p < saved[i].at /\ happened'[p] \in Received => HasRow(happened'[p])
    <3> SUFFICES ASSUME NEW i \in DOMAIN saved, saved[i].message \in Received, NEW p \in DOMAIN happened',
                        p < saved[i].at, happened'[p] \in Received
                 PROVE  HasRow(happened'[p])
      OBVIOUS
    <3>1. saved[i].at \in DOMAIN happened
      BY DEF TalkInv, RowInv
    <3>2. p \in DOMAIN happened /\ happened'[p] = happened[p]
      BY <1>2, <1>8, <3>1
    <3> QED
      BY <3>2 DEF TalkInv, RowInv
  <2>2. \A x : ChatOf(x)' = ChatOf(x)
    BY <1>1 DEF ChatOf
  <2>3. \A q : (Saved(q)' <=> Saved(q)) /\ OutboundRow(q)' = OutboundRow(q)
    BY <1>1 DEF Saved, OutboundRow
  <2> QED
    BY <1>1, <1>8, <1>9, <2>1, <2>2, <2>3 DEF TalkInv, RowInv
<1>13. QueueInv'
  <2>1. \A x : ChatOf(x)' = ChatOf(x)
    BY <1>1 DEF ChatOf
  <2>2. \A i \in DOMAIN queue : IsFirst(i)' => IsFirst(i)
    BY <1>6, <1>9 DEF IsFirst
  <2>3. ASSUME NEW i \in DOMAIN queue
        PROVE  /\ queue'[i].waId = queue'[i].message
               /\ queue'[i].content = Content(Mapped(Body[queue'[i].message]))
               /\ \E p \in DOMAIN happened' : happened'[p] = queue'[i].message
               /\ IsFirst(i)' => queue'[i].at \in DOMAIN happened' /\ happened'[queue'[i].at] = queue'[i].message
               /\ i # 1 \/ step # "log" => queue'[i].conversation = Chat[queue'[i].message]
               /\ i = 1 /\ ~HasRow(queue'[i].message) /\ step = "log" => queue'[i].conversation = ChatOf(queue'[i].message)
    BY <1>6, <1>8, <2>2 DEF TalkInv, QueueInv
  <2>9. PICK behind \in Nat : behind = Len(queue) + 1
    BY <1>2
  <2>4. ASSUME IsFirst(behind)'
        PROVE  e.at \in DOMAIN happened' /\ happened'[e.at] = m
    <3>1. ~HasRow(m) /\ \A j \in DOMAIN queue : queue[j].message # m
      <4>1. behind \in DOMAIN queue' /\ queue'[behind].message = m /\ ~HasRow(m)'
        BY <1>4, <1>6, <1>9, <2>9, <2>4 DEF IsFirst, HasRow
      <4> QED
        BY <1>4, <1>6, <1>9, <2>9, <2>4, <4>1 DEF IsFirst
    <3>2. \A p \in DOMAIN happened : happened[p] # m
      BY <3>1 DEF TalkInv, QueueInv
    <3>3. happened' = Append(happened, m)
      BY <1>7, <3>2
    <3> QED
      BY <1>2, <1>4, <3>3
  <2>5. behind # 1 \/ step # "log"
    BY <1>2, <2>9
  <2>6. \A n \in lookedUp : n \in Received /\ (HasRow(n) \/ (step = "log" /\ queue'[1].message = n))
    <3>1. step = "log" => queue'[1] = queue[1]
      BY <1>2, <1>6
    <3> QED
      BY <3>1 DEF TalkInv, QueueInv
  <2>7. ASSUME NEW p \in DOMAIN happened', happened'[p] \in Received, ~HasRow(happened'[p])
        PROVE  \E i \in DOMAIN queue' : queue'[i].message = happened'[p]
    <3>1. CASE happened'[p] = m
      BY <1>4, <1>6, <3>1
    <3>2. CASE happened'[p] # m
      <4>1. p \in DOMAIN happened /\ happened'[p] = happened[p]
        BY <1>8, <3>2
      <4> QED
        BY <1>6, <2>7, <4>1 DEF TalkInv, QueueInv
    <3> QED
      BY <3>1, <3>2
  <2>8. ASSUME NEW p \in DOMAIN happened', NEW n \in DOMAIN happened', p < n, happened'[p] \in Received,
               happened'[n] \in Received, ~HasRow(happened'[p]),
               NEW i \in DOMAIN queue', queue'[i].message = happened'[n]
        PROVE  \E j \in DOMAIN queue' : j < i /\ queue'[j].message = happened'[p]
    <3>1. p \in DOMAIN happened /\ happened'[p] = happened[p]
      BY <1>2, <1>8, <2>8
    <3>2. CASE i \in DOMAIN queue
      <4>1. n \in DOMAIN happened /\ happened'[n] = happened[n] /\ queue[i].message = happened[n]
        <5>1. queue[i].message = happened'[n] /\ \E k \in DOMAIN happened : happened[k] = queue[i].message
          BY <1>6, <2>8, <3>2 DEF TalkInv, QueueInv
        <5> QED
          BY <1>8, <5>1
      <4>2. PICK j \in DOMAIN queue : j < i /\ queue[j].message = happened[p]
        BY <2>8, <3>1, <3>2, <4>1 DEF TalkInv, QueueInv
      <4> QED
        BY <1>6, <3>1, <4>2
    <3>3. CASE i = Len(queue) + 1
      <4>1. PICK j \in DOMAIN queue : queue[j].message = happened[p]
        BY <2>8, <3>1 DEF TalkInv, QueueInv
      <4> QED
        BY <1>6, <3>1, <3>3, <4>1
    <3> QED
      BY <1>6, <3>2, <3>3
  <2> QED
    <3>1. DOMAIN queue' = DOMAIN queue \union {behind} /\ queue'[behind] = e
      BY <1>6, <2>9
    <3>2. /\ e.waId = e.message /\ e.content = Content(Mapped(Body[e.message])) /\ e.conversation = Chat[e.message]
          /\ \E p \in DOMAIN happened' : happened'[p] = e.message
      BY <1>4, <1>8
    <3>3. behind # 1 \/ step' # "log"
      BY <1>1, <2>5
    <3>4. \A i \in DOMAIN queue' :
              /\ queue'[i].waId = queue'[i].message
              /\ queue'[i].content = Content(Mapped(Body[queue'[i].message]))
              /\ \E p \in DOMAIN happened' : happened'[p] = queue'[i].message
              /\ IsFirst(i)' => queue'[i].at \in DOMAIN happened' /\ happened'[queue'[i].at] = queue'[i].message
              /\ i # 1 \/ step' # "log" => queue'[i].conversation = Chat[queue'[i].message]
              /\ i = 1 /\ ~HasRow(queue'[i].message) /\ step' = "log" =>
                     queue'[i].conversation = ChatOf(queue'[i].message)
      BY <1>1, <1>4, <2>3, <2>4, <3>1, <3>2, <3>3
    <3> QED
      BY <1>1, <2>6, <2>7, <2>8, <3>4 DEF QueueInv, HasRow, ChatOf
<1>14. WaitsInv'
  BY <1>1 DEF TalkInv, WaitsInv
<1> QED
  BY <1>10, <1>11, <1>12, <1>13, <1>14 DEF TalkInv
---------------------------------------------------------------------------
\* Sending

\* What is sent, saved or given up leaves the queue alone, and has no place before it is sent.
LEMMA SendingKeepsQueue ==
    ASSUME TalkInv, UNCHANGED <<queue, step, groupName, lookedUp, waits>>,
           NEW q \in Request, Received \intersect Request = {},
           \A x \in Received : HasRow(x)' <=> HasRow(x),
           happened' = happened \/ happened' = Append(happened, q)
    PROVE  QueueInv' /\ WaitsInv'
<1>1. queue \in Seq(Envelopes) /\ happened \in Seq(Received \union Request) /\ q \notin Received
  BY DEF TalkInv, TalkType
<1>2. /\ DOMAIN happened \subseteq DOMAIN happened' /\ \A p \in DOMAIN happened : happened'[p] = happened[p]
      /\ \A p \in DOMAIN happened' : happened'[p] \in Received => p \in DOMAIN happened
  BY <1>1
<1>3. \A x : ChatOf(x)' = ChatOf(x)
  BY DEF ChatOf
<1>4. \A i \in DOMAIN queue : queue[i].message \in Received
  <2>1. \A i \in DOMAIN queue : queue[i] \in Envelopes
    BY <1>1
  <2> QED
    BY <2>1 DEF Envelopes
<1>5. \A i \in DOMAIN queue : IsFirst(i)' => IsFirst(i)
  <2> SUFFICES ASSUME NEW i \in DOMAIN queue, IsFirst(i)' PROVE IsFirst(i)
    OBVIOUS
  <2>1. PICK x : x = queue[i].message
    OBVIOUS
  <2>2. x \in Received /\ ~HasRow(x)'
    BY <1>4, <2>1 DEF IsFirst, HasRow
  <2> QED
    BY <2>1, <2>2 DEF IsFirst
<1> DEFINE Has(x) == \E i \in DOMAIN saved' : saved'[i].message = x
<1>6. \A x \in Received : HasRow(x) <=> Has(x)
  BY DEF HasRow
<1> HIDE DEF Has
<1>7. \A i \in DOMAIN queue :
          /\ queue[i].waId = queue[i].message
          /\ queue[i].content = Content(Mapped(Body[queue[i].message]))
          /\ \E p \in DOMAIN happened' : happened'[p] = queue[i].message
          /\ IsFirst(i)' => queue[i].at \in DOMAIN happened' /\ happened'[queue[i].at] = queue[i].message
          /\ i # 1 \/ step # "log" => queue[i].conversation = Chat[queue[i].message]
          /\ i = 1 /\ ~Has(queue[i].message) /\ step = "log" => queue[i].conversation = ChatOf(queue[i].message)
  BY <1>2, <1>4, <1>5, <1>6 DEF TalkInv, QueueInv
<1>8. \A m \in lookedUp : m \in Received /\ (Has(m) \/ (step = "log" /\ queue[1].message = m))
  BY <1>6 DEF TalkInv, QueueInv
<1>9. \A p \in DOMAIN happened' : happened'[p] \in Received =>
          Has(happened'[p]) \/ \E i \in DOMAIN queue : queue[i].message = happened'[p]
  BY <1>2, <1>6 DEF TalkInv, QueueInv
<1>10. \A p, n \in DOMAIN happened' :
           p < n /\ happened'[p] \in Received /\ happened'[n] \in Received /\ ~Has(happened'[p]) =>
               \A i \in DOMAIN queue : queue[i].message = happened'[n] =>
                   \E j \in DOMAIN queue : j < i /\ queue[j].message = happened'[p]
  BY <1>2, <1>6 DEF TalkInv, QueueInv
<1>11. QueueInv'
  BY <1>3, <1>7, <1>8, <1>9, <1>10 DEF QueueInv, HasRow, Has
<1>12. WaitsInv'
  BY DEF TalkInv, WaitsInv
<1> QED
  BY <1>11, <1>12

\* A request is about to be sent, or is over.
LEMMA ChosenKeeps ==
    ASSUME TalkInv, IdsDiffer, NEW q \in Request, Send(q) \/ SendFails(q) \/ SaveFails(q)
    PROVE  TalkInv'
<1>1. UNCHANGED <<queue, step, groupName, lookedUp, waits, saved, happened>>
  BY DEF Send, SendFails, SaveFails, Sending
<1>2. request[q].step \in {"new", "sending", "sent"} /\ request = [r \in Request |-> request[r]]
  BY DEF Send, SendFails, SaveFails, TalkInv, TalkType
<1>3. /\ request' = [r \in Request |-> request'[r]] /\ \A r \in Request : r # q => request'[r] = request[r]
      /\ \/ request'[q].step = "over"
         \/ request'[q].step = "sending" /\ request'[q].account \in Senders /\ request[q].step = "new"
  <2>1. ASSUME NEW s, request' = [request EXCEPT ![q] = s]
        PROVE  /\ request' = [r \in Request |-> request'[r]] /\ \A r \in Request : r # q => request'[r] = request[r]
               /\ request'[q] = s
    BY <1>2, <2>1
  <2>2. CASE request' = [request EXCEPT ![q] = [step |-> "over"]]
    BY <2>1, <2>2
  <2>3. ASSUME NEW a \in Chosen(q), request' = [request EXCEPT ![q] = [step |-> "sending", account |-> a]],
               request[q].step = "new"
        PROVE  /\ request' = [r \in Request |-> request'[r]] /\ \A r \in Request : r # q => request'[r] = request[r]
               /\ request'[q].step = "sending" /\ request'[q].account \in Senders /\ request[q].step = "new"
    <3>1. a \in Senders
      BY DEF Chosen, Senders, ToSet
    <3> QED
      BY <2>1, <2>3, <3>1
  <2> QED
    BY <2>2, <2>3 DEF Send, SendFails, SaveFails, Sending
<1>4. TalkType'
  BY <1>1, <1>3 DEF TalkInv, TalkType
<1>5. PlaceInv'
  BY <1>1, <1>3 DEF TalkInv, PlaceInv
<1>6. RowInv'
  <2>1. \A r \in Request : (Saved(r)' <=> Saved(r)) /\ (r # q => OutboundRow(r)' = OutboundRow(r))
    BY <1>2, <1>3 DEF Saved, OutboundRow
  <2>2. ~Saved(q) /\ \A x : ChatOf(x)' = ChatOf(x)
    BY <1>1, <1>2 DEF Saved, ChatOf
  <2>3. \A x : HasRow(x)' <=> HasRow(x)
    BY <1>1 DEF HasRow
  <2>4. \A i \in DOMAIN saved : saved[i].message # q
    BY <2>2 DEF TalkInv, RowInv
  <2>5. ASSUME NEW i \in DOMAIN saved, saved[i].message \in Request
        PROVE  (Saved(saved[i].message) /\ saved[i] = OutboundRow(saved[i].message))'
    <3>1. PICK r : r = saved[i].message
      OBVIOUS
    <3>2. Saved(r)' /\ OutboundRow(r)' = saved[i]
      BY <2>1, <2>4, <2>5, <3>1 DEF TalkInv, RowInv
    <3> QED
      BY <1>1, <3>1, <3>2 DEF Saved, OutboundRow
  <2> QED
    BY <1>1, <2>1, <2>2, <2>3, <2>5 DEF TalkInv, RowInv
<1>7. QueueInv' /\ WaitsInv'
  <2>1. \A x \in Received : HasRow(x)' <=> HasRow(x)
    BY <1>1 DEF HasRow
  <2> QED
    BY <1>1, <2>1, SendingKeepsQueue DEF IdsDiffer
<1> QED
  BY <1>4, <1>5, <1>6, <1>7 DEF TalkInv

\* What was sent has its place, the last one.
LEMMA SentKeeps ==
    ASSUME TalkInv, IdsDiffer, NEW q \in Request, Sent(q)
    PROVE  TalkInv'
<1>1. UNCHANGED <<queue, step, groupName, lookedUp, waits, saved>> /\ request[q].step = "sending"
      /\ happened' = Append(happened, q)
  BY DEF Sent, Sending
<1>2. request = [r \in Request |-> request[r]] /\ request[q].account \in Senders
      /\ happened \in Seq(Received \union Request) /\ q \notin Received
  BY <1>1 DEF TalkInv, TalkType, IdsDiffer
<1>3. PICK raw \in BOOLEAN :
          request' = [request EXCEPT ![q] = [step |-> "sent", account |-> request[q].account, at |-> Now, raw |-> raw,
                                             asked |-> AskedOf(request[q].account, Body[q])]]
  BY DEF Sent, Sending
<1>4. /\ request' = [r \in Request |-> request'[r]] /\ \A r \in Request : r # q => request'[r] = request[r]
      /\ request'[q].step = "sent" /\ request'[q].account = request[q].account /\ request'[q].at = Len(happened) + 1
      /\ request'[q].asked = AskedOf(request[q].account, Body[q]) /\ request'[q] \in AfterSending
  <2>1. /\ request' = [r \in Request |-> request'[r]] /\ \A r \in Request : r # q => request'[r] = request[r]
        /\ request'[q] = [step |-> "sent", account |-> request[q].account, at |-> Len(happened) + 1, raw |-> raw,
                          asked |-> AskedOf(request[q].account, Body[q])]
    BY <1>2, <1>3 DEF Now
  <2>2. Len(happened) + 1 \in Nat /\ AskedOf(request[q].account, Body[q]) \in {AskedOf(a, Body[r]) : a \in Senders, r \in Request}
    BY <1>2
  <2>3. request'[q] \in AfterSending
    BY <1>2, <2>1, <2>2 DEF AfterSending
  <2> QED
    BY <2>1, <2>3
<1>5. /\ happened' \in Seq(Received \union Request) /\ Len(happened) \in Nat
      /\ DOMAIN happened' = DOMAIN happened \union {Len(happened) + 1} /\ happened'[Len(happened) + 1] = q
      /\ \A p \in DOMAIN happened : happened'[p] = happened[p] /\ p \in Nat /\ p < Len(happened) + 1
  BY <1>1, <1>2
<1>6. \A p \in DOMAIN happened : happened[p] # q
  BY <1>1 DEF TalkInv, PlaceInv
<1>7. TalkType'
  BY <1>1, <1>4, <1>5 DEF TalkInv, TalkType
<1>8. PlaceInv'
  <2>1. \A p, n \in DOMAIN happened' : happened'[p] = happened'[n] => p = n
    BY <1>5, <1>6 DEF TalkInv, PlaceInv
  <2>2. ASSUME NEW r \in Request, r # q
        PROVE  /\ request'[r].step \in {"new", "sending"} => \A p \in DOMAIN happened' : happened'[p] # r
               /\ request'[r].step \in {"sent", "saved"} =>
                      /\ request'[r].at \in DOMAIN happened' /\ happened'[request'[r].at] = r
                      /\ request'[r].asked = AskedOf(request'[r].account, Body[r])
    BY <1>4, <1>5, <2>2 DEF TalkInv, PlaceInv
  <2> QED
    BY <1>4, <1>5, <2>1, <2>2 DEF PlaceInv
<1>9. RowInv'
  <2>1. \A r \in Request : (Saved(r)' <=> Saved(r)) /\ (r # q => OutboundRow(r)' = OutboundRow(r))
    BY <1>1, <1>4 DEF Saved, OutboundRow
  <2>2. ~Saved(q) /\ \A x : ChatOf(x)' = ChatOf(x)
    BY <1>1 DEF Saved, ChatOf
  <2>3. \A x : HasRow(x)' <=> HasRow(x)
    BY <1>1 DEF HasRow
  <2>4. \A i \in DOMAIN saved : saved[i].message # q
    BY <2>2 DEF TalkInv, RowInv
  <2>5. ASSUME NEW i \in DOMAIN saved, saved[i].message \in Request
        PROVE  (Saved(saved[i].message) /\ saved[i] = OutboundRow(saved[i].message))'
    <3>1. PICK r : r = saved[i].message
      OBVIOUS
    <3>2. Saved(r)' /\ OutboundRow(r)' = saved[i]
      BY <2>1, <2>4, <2>5, <3>1 DEF TalkInv, RowInv
    <3> QED
      BY <1>1, <3>1, <3>2 DEF Saved, OutboundRow
  <2>6. \A i \in DOMAIN saved : saved[i].message \in Received =>
            /\ saved[i].at \in DOMAIN happened' /\ happened'[saved[i].at] = saved[i].message
            /\ \A p \in DOMAIN happened' : p < saved[i].at /\ happened'[p] \in Received => HasRow(happened'[p])
    <3> SUFFICES ASSUME NEW i \in DOMAIN saved, saved[i].message \in Received
                 PROVE  /\ saved[i].at \in DOMAIN happened' /\ happened'[saved[i].at] = saved[i].message
                        /\ \A p \in DOMAIN happened' : p < saved[i].at /\ happened'[p] \in Received => HasRow(happened'[p])
      OBVIOUS
    <3>1. saved[i].at \in DOMAIN happened /\ happened[saved[i].at] = saved[i].message
      BY DEF TalkInv, RowInv
    <3>2. ASSUME NEW p \in DOMAIN happened', p < saved[i].at, happened'[p] \in Received PROVE HasRow(happened'[p])
      <4>1. p \in DOMAIN happened /\ happened'[p] = happened[p]
        BY <1>2, <1>5, <3>2
      <4> QED
        BY <3>2, <4>1 DEF TalkInv, RowInv
    <3> QED
      BY <1>5, <3>1, <3>2
  <2>7. \A i, k \in DOMAIN saved :
            saved[i].message \in Received /\ saved[k].message \in Received /\ i < k => saved[i].at < saved[k].at
    BY DEF TalkInv, RowInv
  <2>8. \A i \in DOMAIN saved : saved[i].message \in Received =>
            /\ saved[i].waId = saved[i].message /\ saved[i].content = Content(Mapped(Body[saved[i].message]))
            /\ saved[i].conversation = ChatOf(saved[i].message)
    BY DEF TalkInv, RowInv
  <2>9. \A r \in Request : Saved(r) => HasRow(r)
    BY DEF TalkInv, RowInv
  <2> QED
    BY <1>1, <2>1, <2>2, <2>3, <2>5, <2>6, <2>7, <2>8, <2>9 DEF RowInv, HasRow, ChatOf
<1>10. QueueInv' /\ WaitsInv'
  <2>1. \A x \in Received : HasRow(x)' <=> HasRow(x)
    BY <1>1 DEF HasRow
  <2> QED
    BY <1>1, <2>1, SendingKeepsQueue DEF IdsDiffer
<1> QED
  BY <1>7, <1>8, <1>9, <1>10 DEF TalkInv

\* What is saved has its row, which no received message has.
LEMMA SaveKeeps ==
    ASSUME TalkInv, IdsDiffer, NEW q \in Request, Save(q)
    PROVE  TalkInv'
<1>1. UNCHANGED <<queue, step, groupName, lookedUp, waits, happened>> /\ request[q].step = "sent"
  BY DEF Save, Sending
<1>2. request = [r \in Request |-> request[r]] /\ request[q] \in AfterSending /\ q \notin Received
      /\ saved \in Seq(Envelopes \union OutboundRows)
  BY <1>1 DEF TalkInv, TalkType, IdsDiffer
<1>3. request' = [request EXCEPT ![q] = [request[q] EXCEPT !.step = "saved"]]
  BY DEF Save, Sending
<1>4. /\ request' = [r \in Request |-> request'[r]] /\ \A r \in Request : r # q => request'[r] = request[r]
      /\ request'[q].step = "saved" /\ request'[q].account = request[q].account /\ request'[q].at = request[q].at
      /\ request'[q].asked = request[q].asked /\ request'[q].raw = request[q].raw /\ request'[q] \in AfterSending
  <2>1. /\ request' = [r \in Request |-> request'[r]] /\ \A r \in Request : r # q => request'[r] = request[r]
        /\ request'[q] = [request[q] EXCEPT !.step = "saved"]
    BY <1>2, <1>3
  <2>2. ASSUME NEW s \in AfterSending
        PROVE  LET u == [s EXCEPT !.step = "saved"]
               IN  u.step = "saved" /\ u.account = s.account /\ u.at = s.at /\ u.asked = s.asked /\ u.raw = s.raw
    BY DEF AfterSending
  <2>3. ASSUME NEW s \in AfterSending
        PROVE  [s EXCEPT !.step = "saved"] \in AfterSending
    BY DEF AfterSending
  <2> QED
    BY <1>2, <2>1, <2>2, <2>3
<1>5. PICK row : row = OutboundRow(q)
  OBVIOUS
<1>6. row \in OutboundRows /\ row.message = q
  BY <1>2, <1>5 DEF OutboundRow, OutboundRows, AfterSending
<1>7. /\ saved' \in Seq(Envelopes \union OutboundRows)
      /\ DOMAIN saved' = DOMAIN saved \union {Len(saved) + 1} /\ saved'[Len(saved) + 1] = row
      /\ \A i \in DOMAIN saved : saved'[i] = saved[i]
  BY <1>2, <1>5, <1>6 DEF Save
<1>8. TalkType'
  BY <1>1, <1>4, <1>7 DEF TalkInv, TalkType
<1>9. PlaceInv'
  BY <1>1, <1>4 DEF TalkInv, PlaceInv
<1>10. \A x : HasRow(x)' <=> HasRow(x) \/ x = q
  BY <1>6, <1>7 DEF HasRow
<1>11. RowInv'
  <2>1. \A r \in Request : (Saved(r)' <=> Saved(r) \/ r = q) /\ OutboundRow(r)' = OutboundRow(r)
    BY <1>4 DEF Saved, OutboundRow
  <2>2. \A x : ChatOf(x)' = ChatOf(x)
    BY <1>1 DEF ChatOf
  <2>3. \A i \in DOMAIN saved' : saved'[i].message \in Received => i \in DOMAIN saved /\ saved'[i] = saved[i]
    BY <1>2, <1>6, <1>7
  <2>4. \A i \in DOMAIN saved : saved[i].message \in Received =>
            /\ saved[i].waId = saved[i].message
            /\ saved[i].at \in DOMAIN happened /\ happened[saved[i].at] = saved[i].message
            /\ saved[i].content = Content(Mapped(Body[saved[i].message]))
            /\ saved[i].conversation = ChatOf(saved[i].message)
            /\ \A p \in DOMAIN happened : p < saved[i].at /\ happened[p] \in Received => HasRow(happened[p])
    BY DEF TalkInv, RowInv
  <2> DEFINE Has(x) == \E i \in DOMAIN saved' : saved'[i].message = x
  <2>5. \A x : HasRow(x) \/ x = q <=> Has(x)
    BY <1>10 DEF HasRow
  <2> HIDE DEF Has
  <2>6. \A i \in DOMAIN saved' : saved'[i].message \in Received =>
            /\ saved'[i].waId = saved'[i].message
            /\ saved'[i].at \in DOMAIN happened /\ happened[saved'[i].at] = saved'[i].message
            /\ saved'[i].content = Content(Mapped(Body[saved'[i].message]))
            /\ saved'[i].conversation = ChatOf(saved'[i].message)
            /\ \A p \in DOMAIN happened : p < saved'[i].at /\ happened[p] \in Received => Has(happened[p])
    BY <2>3, <2>4, <2>5
  <2>7. \A i, k \in DOMAIN saved' :
            saved'[i].message \in Received /\ saved'[k].message \in Received /\ i < k => saved'[i].at < saved'[k].at
    BY <2>3 DEF TalkInv, RowInv
  <2>8. ASSUME NEW i \in DOMAIN saved', saved'[i].message \in Request
        PROVE  (Saved(saved[i].message) /\ saved[i] = OutboundRow(saved[i].message))'
    <3>1. PICK r \in Request : r = saved'[i].message
      BY <2>8
    <3>2. Saved(r)' /\ OutboundRow(r)' = saved'[i]
      <4>1. CASE i \in DOMAIN saved
        BY <1>7, <2>1, <3>1, <4>1 DEF TalkInv, RowInv
      <4>2. CASE i = Len(saved) + 1
        BY <1>5, <1>6, <1>7, <2>1, <3>1, <4>2
      <4> QED
        BY <1>7, <4>1, <4>2
    <3> QED
      BY <3>1, <3>2 DEF Saved, OutboundRow
  <2>9. \A r \in Request : Saved(r)' => Has(r)
    BY <2>1, <2>5 DEF TalkInv, RowInv
  <2> QED
    BY <1>1, <2>6, <2>7, <2>8, <2>9 DEF RowInv, HasRow, ChatOf, Has
<1>12. QueueInv' /\ WaitsInv'
  <2>1. \A x \in Received : HasRow(x)' <=> HasRow(x)
    BY <1>2, <1>10
  <2> QED
    BY <1>1, <2>1, SendingKeepsQueue DEF IdsDiffer
<1> QED
  BY <1>8, <1>9, <1>11, <1>12 DEF TalkInv
---------------------------------------------------------------------------

LEMMA TalkStepKeeps == TalkInv /\ IdsDiffer /\ [TalkNext]_talkVars => TalkInv'
<1> SUFFICES ASSUME TalkInv, IdsDiffer, [TalkNext]_talkVars PROVE TalkInv'
  OBVIOUS
<1>1. ASSUME NEW m \in Received, NEW type \in {"notify", "append", "other"}, NEW shape \in {"stub", "empty", "content"},
             Upsert(m, type, shape)
      PROVE  TalkInv'
  BY <1>1, UpsertKeeps
<1>2. CASE TakeTurn \/ GroupAnswers \/ GroupRunsOut \/ \E a \in ToSet(Accounts) : Change(a)
  BY <1>2, TurnsKeep
<1>3. CASE LidAnswers
  BY <1>3, LookupKeeps
<1>4. CASE StoreHead
  BY <1>4, StoreKeeps
<1>5. ASSUME NEW q \in Request, Send(q) \/ SendFails(q) \/ SaveFails(q) PROVE TalkInv'
  BY <1>5, ChosenKeeps
<1>6. ASSUME NEW q \in Request, Sent(q) PROVE TalkInv'
  BY <1>6, SentKeeps
<1>7. ASSUME NEW q \in Request, Save(q) PROVE TalkInv'
  BY <1>7, SaveKeeps
<1>8. CASE UNCHANGED talkVars
  <2>1. UNCHANGED <<queue, step, saved, groupName, request, happened, lookedUp, waits>>
    BY <1>8 DEF talkVars
  <2> QED
    BY <2>1 DEF TalkInv, TalkType, PlaceInv, RowInv, QueueInv, WaitsInv, HasRow, IsFirst, Saved, ChatOf, OutboundRow
<1> QED
  BY <1>1, <1>2, <1>3, <1>4, <1>5, <1>6, <1>7, <1>8 DEF TalkNext

---------------------------------------------------------------------------
\* What the invariant says of the log and its reads

LEMMA InTurn == TalkInv /\ IdsDiffer => LoggedInTurn
<1> SUFFICES ASSUME TalkInv, IdsDiffer PROVE LoggedInTurn
  OBVIOUS
<1>1. \A m \in Received : Logged(m) <=> HasRow(m)
  BY LoggedIs DEF TalkInv
<1>2. ASSUME NEW i \in ReceivedRows
      PROVE  /\ saved[i].at \in DOMAIN happened /\ happened[saved[i].at] = saved[i].message
             /\ saved[i].content = Content(Mapped(Body[saved[i].message]))
             /\ \A p \in 1 .. saved[i].at : happened[p] \in Received => Logged(happened[p])
  <2>1. /\ saved[i].at \in DOMAIN happened /\ happened[saved[i].at] = saved[i].message
        /\ saved[i].content = Content(Mapped(Body[saved[i].message]))
        /\ \A p \in DOMAIN happened : p < saved[i].at /\ happened[p] \in Received => HasRow(happened[p])
        /\ HasRow(saved[i].message)
    BY DEF TalkInv, RowInv, ReceivedRows, HasRow
  <2>2. \A p \in 1 .. saved[i].at : p \in DOMAIN happened /\ (p < saved[i].at \/ p = saved[i].at)
    BY <2>1 DEF TalkInv, TalkType
  <2> QED
    BY <1>1, <2>1, <2>2
<1>3. \A i, k \in ReceivedRows : i < k => saved[i].at < saved[k].at
  BY DEF TalkInv, RowInv, ReceivedRows
<1>4. queue = <<>> => \A p \in DOMAIN happened : happened[p] \in Received => Logged(happened[p])
  BY <1>1 DEF TalkInv, QueueInv
<1> QED
  BY <1>2, <1>3, <1>4 DEF LoggedInTurn

\* The providers are asked for what outboundContentToMessageContent makes of the content, a
\* reaction apart.
LEMMA SentAsLogged ==
    ASSUME NEW account, NEW type
    PROVE  \/ OutboundContent(type).type = AskedOf(account, type)
           \/ AskedOf(account, type) = "reaction"
           \/ AskedOf(account, type) = "media" /\ OutboundContent(type).media # "none"
<1>1. CASE Provider[account] = "baileys"
  <2>1. AskedOf(account, type) = BaileysMessage(type)
    BY <1>1 DEF AskedOf
  <2> QED
    BY <2>1 DEF BaileysMessage, OutboundContent, Downloadable
<1>2. CASE Provider[account] = "wwebjs-api"
  <2>1. AskedOf(account, type) = WwebjsBody(type)
    BY <1>2 DEF AskedOf
  <2> QED
    BY <2>1 DEF WwebjsBody, OutboundContent, Downloadable
<1>3. CASE Provider[account] \notin {"baileys", "wwebjs-api"}
  <2>1. AskedOf(account, type) = TelegramCall(type)
    BY <1>3 DEF AskedOf
  <2> QED
    BY <2>1 DEF TelegramCall, OutboundContent, Downloadable
<1> QED
  BY <1>1, <1>2, <1>3

LEMMA AsSent == TalkInv => LoggedAsSent
<1> SUFFICES ASSUME TalkInv, NEW i \in DOMAIN saved, NEW q \in Request, q = saved[i].message
             PROVE  \/ saved[i].content.type = request[q].asked
                    \/ request[q].asked = "reaction"
                    \/ request[q].asked = "media" /\ saved[i].content.media # "none"
  BY DEF LoggedAsSent
<1>1. Saved(q) /\ saved[i] = OutboundRow(q)
  BY DEF TalkInv, RowInv
<1>2. saved[i].content = OutboundContent(Body[q])
  BY <1>1 DEF OutboundRow
<1>3. request[q].asked = AskedOf(request[q].account, Body[q])
  BY <1>1 DEF TalkInv, PlaceInv, Saved
<1> QED
  BY <1>2, <1>3, SentAsLogged

\* With nothing in the queue the rows of a conversation are what happened in it.
LEMMA ThreadOfRows ==
    ASSUME TalkInv, IdsDiffer, queue = <<>>, NEW c
    PROVE  {AIMessage(saved[i]) : i \in History(c)} = Thread(c)
<1> DEFINE Entry(m, p) == [message |-> m, at |-> p, role |-> IF m \in Request THEN "assistant" ELSE "user"]
           Places == {n \in DOMAIN happened : InThread(happened[n], c)}
<1>1. Thread(c) = {Entry(happened[p], p) : p \in Places}
  BY DEF Thread
<1>2. ASSUME NEW i \in DOMAIN saved
      PROVE  /\ saved[i].at \in DOMAIN happened /\ happened[saved[i].at] = saved[i].message
             /\ AIMessage(saved[i]) = Entry(saved[i].message, saved[i].at)
             /\ i \in History(c) <=> InThread(saved[i].message, c)
  <2>1. saved[i] \in Envelopes \/ saved[i] \in OutboundRows
    BY ElementOfSeq DEF TalkInv, TalkType
  <2>2. CASE saved[i] \in Envelopes
    <3>1. saved[i].message \in Received /\ saved[i].direction = "inbound" /\ saved[i].account = Receiver
          /\ saved[i].message \notin Request
      BY <2>2 DEF Envelopes, IdsDiffer
    <3>2. /\ saved[i].at \in DOMAIN happened /\ happened[saved[i].at] = saved[i].message
          /\ saved[i].conversation = ChatOf(saved[i].message)
      BY <3>1 DEF TalkInv, RowInv
    <3> QED
      BY <3>1, <3>2 DEF AIMessage, History, InThread
  <2>3. CASE saved[i] \in OutboundRows
    <3>1. PICK q \in Request : q = saved[i].message
      BY <2>3 DEF OutboundRows
    <3>2. Saved(q) /\ saved[i] = OutboundRow(q) /\ q \notin Received
      BY <3>1 DEF TalkInv, RowInv, IdsDiffer
    <3>3. /\ saved[i].direction = "outbound" /\ saved[i].account = request[q].account /\ saved[i].conversation = To[q]
          /\ saved[i].at = request[q].at
      BY <3>2 DEF OutboundRow
    <3>4. request[q].at \in DOMAIN happened /\ happened[request[q].at] = q
      BY <3>2 DEF TalkInv, PlaceInv, Saved
    <3>5. ChatOf(q) = To[q]
      BY DEF ChatOf
    <3> QED
      BY <3>1, <3>2, <3>3, <3>4, <3>5 DEF AIMessage, History, InThread
  <2> QED
    BY <2>1, <2>2, <2>3
<1>3. ASSUME NEW p \in Places
      PROVE  \E i \in DOMAIN saved : saved[i].message = happened[p]
  <2>1. CASE happened[p] \in Received
    BY <2>1 DEF TalkInv, QueueInv, HasRow
  <2>2. CASE happened[p] \notin Received
    BY <2>2 DEF InThread, TalkInv, RowInv, HasRow, Saved
  <2> QED
    BY <2>1, <2>2
<1>4. ASSUME NEW p \in Places
      PROVE  \E i \in History(c) : AIMessage(saved[i]) = Entry(happened[p], p)
  <2>1. PICK i \in DOMAIN saved : saved[i].message = happened[p]
    BY <1>3
  <2>2. saved[i].at = p
    BY <1>2, <2>1 DEF TalkInv, PlaceInv
  <2>3. InThread(saved[i].message, c)
    BY <2>1
  <2> HIDE DEF Entry
  <2> QED
    BY <1>2, <2>1, <2>2, <2>3
<1>5. ASSUME NEW i \in History(c)
      PROVE  \E p \in Places : AIMessage(saved[i]) = Entry(happened[p], p)
  <2>1. i \in DOMAIN saved
    BY DEF History
  <2> HIDE DEF Entry
  <2> QED
    BY <1>2, <2>1
<1> HIDE DEF Entry, Places
<1> QED
  BY <1>1, <1>4, <1>5

\* What went out with its payload is found under its id, and nothing else is.
LEMMA FoundAgain ==
    ASSUME TalkInv, IdsDiffer, NEW q \in Request, Saved(q), request[q].raw
    PROVE  Lookup(request[q].account, q) = {q}
<1>1. ASSUME NEW i \in DOMAIN saved, saved[i].waId = q PROVE saved[i].message = q
  <2>1. saved[i] \in Envelopes \/ saved[i] \in OutboundRows
    BY ElementOfSeq DEF TalkInv, TalkType
  <2>2. saved[i] \notin Envelopes
    BY <1>1 DEF Envelopes, IdsDiffer
  <2>3. PICK r \in Request : r = saved[i].message
    BY <2>1, <2>2 DEF OutboundRows
  <2>4. saved[i] = OutboundRow(r)
    BY <2>3 DEF TalkInv, RowInv
  <2>5. saved[i].waId \in {r, 0}
    BY <2>4 DEF OutboundRow
  <2> QED
    BY <1>1, <2>3, <2>5 DEF IdsDiffer
<1>2. PICK i \in DOMAIN saved : saved[i].message = q
  BY DEF TalkInv, RowInv, HasRow
<1>3. saved[i].waId = q /\ saved[i].account = request[q].account
  <2>1. saved[i] = OutboundRow(q)
    BY <1>2 DEF TalkInv, RowInv
  <2> QED
    BY <2>1 DEF OutboundRow
<1>4. i \in Holds(request[q].account, q)
  BY <1>2, <1>3 DEF Holds
<1>5. \A k \in Holds(request[q].account, q) : saved[k].message = q
  BY <1>1 DEF Holds
<1> QED
  BY <1>2, <1>4, <1>5 DEF Lookup

LEMMA WholeThread == TalkInv /\ IdsDiffer => ThreadIsWhole
<1> SUFFICES ASSUME TalkInv, IdsDiffer PROVE ThreadIsWhole
  OBVIOUS
<1>1. LoggedInTurn /\ LoggedAsSent
  BY InTurn, AsSent
<1>2. ASSUME queue = <<>>, NEW c, NEW limit PROVE Context(c, limit) = Newest(Thread(c), limit)
  BY <1>2, ThreadOfRows DEF Context
<1>3. ASSUME NEW q \in Request, Saved(q), request[q].raw PROVE Lookup(request[q].account, q) = {q}
  BY <1>3, FoundAgain
<1>4. waits <= 1
  BY DEF TalkInv, WaitsInv
<1> QED
  BY <1>1, <1>2, <1>3, <1>4 DEF ThreadIsWhole

\* Once the queue is empty the history of a conversation is what happened in it, in that
\* order and each in its role, whatever came again, late or undecrypted; what is logged is
\* what was sent, and can be looked up to be sent again. (handleMessagesUpsert and
\* enrichEnvelope, baileys/index.ts; emitOutbound, message-router.service.ts.)
THEOREM HistoryIsWhole == IdsDiffer /\ TalkSpec => []ThreadIsWhole
<1> SUFFICES ASSUME IdsDiffer PROVE TalkSpec => []ThreadIsWhole
  OBVIOUS
<1>1. TalkInit => TalkInv
  BY TalkStarts
<1>2. TalkInv /\ [TalkNext]_talkVars => TalkInv'
  BY TalkStepKeeps
<1>3. TalkInv => ThreadIsWhole
  BY WholeThread
<1> QED
  BY <1>1, <1>2, <1>3, PTL DEF TalkSpec

====
