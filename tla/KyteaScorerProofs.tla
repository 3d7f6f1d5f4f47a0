------------------------- MODULE KyteaScorerProofs ---------------------------
(***************************************************************************)
(* Proofs about KyteaScorer, for every set of files and texts and every    *)
(* number of calls.                                                        *)
(*                                                                         *)
(* ScratchIsRestored: SeenClear is not an invariant of the code, which a   *)
(* run shows; what is one is that a mark that threw is the only way to     *)
(* break it.  Between prepare and the end of the words the flags set are   *)
(* those remembered; at any other point none is.                           *)
(*                                                                         *)
(* IndicesAreInBounds: what load checks of a model (SoundModel) and what a *)
(* decoded text reports (SoundSentence) keep every index of the scorer in  *)
(* its array.  It rests on what the recursive helpers return for every     *)
(* input: FlattenSeq (FlattenType) and Characters (CharactersChained).     *)
(*                                                                         *)
(* WordsPartitionTheText: what decode accepts is what encode writes        *)
(* (DecodedIsEncoding), the characters of a text and the words between its *)
(* cuts are pieces that follow on each other (OffsetsGrow, BeforeNth), and *)
(* such pieces join up to the text (PiecesCover).  The invariant says only *)
(* that a call keeps the sentence of its text until it is cut (TextInv).   *)
(*                                                                         *)
(* ScoresAreExact: sums over finite sets (SumOfMore), what a match adds    *)
(* through its clipped window (MatchAdds), and which features the marks of *)
(* a word are (MarksAreFeatures), no two of which share a flag             *)
(* (SlotUnique), give what every score is made of at each step (XInv).     *)
(*                                                                         *)
(* IdsAreRanks: while ids last, the table of the first k characters of a   *)
(* map gives each the number of different ones up to it (RankedTo).        *)
(***************************************************************************)
EXTENDS KyteaScorer, FiniteSetTheorems, SequenceTheorems, WellFoundedInduction, TLAPS

-----------------------------------------------------------------------------
(* The scratch between calls *)

Flagged == {s \in DOMAIN seen : seen[s] # 0}
Remembered == {touched[k] : k \in DOMAIN touched}

ScratchInv ==
    /\ touched \in Seq(Remembered)
    /\ thrown \in BOOLEAN
    /\ ~thrown => Flagged \subseteq (IF step = "words" THEN Remembered ELSE {})

-----------------------------------------------------------------------------
\* Growing the flags (vector::resize) sets none.
LEMMA GrownSetsNone ==
    ASSUME NEW need, Flagged = {}
    PROVE  {s \in DOMAIN Grown(need) : Grown(need)[s] # 0} = {}
BY DEF Flagged, Grown

\* What push_back remembers is remembered beside what was.
LEMMA AppendRemembers ==
    ASSUME NEW slot, touched \in Seq(Remembered)
    PROVE  LET longer == Append(touched, slot)
               all == {longer[k] : k \in DOMAIN longer}
           IN  longer \in Seq(all) /\ all = Remembered \union {slot}
<1> DEFINE longer == Append(touched, slot)
           all == {longer[k] : k \in DOMAIN longer}
           n == Len(touched)
<1>1. /\ n \in Nat /\ DOMAIN touched = 1 .. n
      /\ touched \in Seq(Remembered \union {slot})
  BY DEF Remembered
<1>2. /\ longer \in Seq(Remembered \union {slot})
      /\ Len(longer) = n + 1 /\ DOMAIN longer = 1 .. n + 1
      /\ longer[n + 1] = slot
      /\ \A k \in 1 .. n : longer[k] = touched[k]
  BY <1>1
<1>3. all = Remembered \union {slot}
  BY <1>1, <1>2 DEF Remembered
<1> QED
  BY <1>2, <1>3

LEMMA ScratchInit == Init => ScratchInv
<1> SUFFICES ASSUME Init
             PROVE  ScratchInv
  OBVIOUS
<1>1. touched = <<>> /\ thrown = FALSE /\ DOMAIN seen = {}
  BY DEF Init
<1>2. touched \in Seq(Remembered)
  BY <1>1
<1>3. Flagged = {}
  BY <1>1 DEF Flagged
<1> QED
  BY <1>1, <1>2, <1>3 DEF ScratchInv

LEMMA ScratchStep == ScratchInv /\ [Next]_vars => ScratchInv'
<1> SUFFICES ASSUME ScratchInv, [Next]_vars
             PROVE  ScratchInv'
  OBVIOUS
\* The steps that leave the scratch alone.
<1>1. ASSUME UNCHANGED <<scratch, thrown>>,
             step' = step \/ (step # "words" /\ step' # "words")
      PROVE  ScratchInv'
  BY <1>1 DEF ScratchInv, Flagged, Remembered, scratch
<1>2. CASE LoadModel \/ EncodeFails
  BY <1>1, <1>2 DEF LoadModel, EncodeFails
<1>3. CASE Call
  BY <1>1, <1>3 DEF Call
<1>4. CASE CharMatch \/ TypeMatch
  BY <1>1, <1>4 DEF CharMatch, TypeMatch, NgramMatch
<1>5. CASE CharsDone \/ TypesDone
  BY <1>1, <1>5 DEF CharsDone, TypesDone, NgramsDone
<1>6. CASE SkipDictionary \/ AllocationThrows \/ CutWords
  BY <1>1, <1>6 DEF SkipDictionary, AllocationThrows, CutWords
<1>7. CASE WordMatch \/ MarkSeen
  BY <1>1, <1>7 DEF WordMatch, MarkSeen
\* prepare grows the flags and forgets what was remembered, none of it set.
<1>8. CASE Prepare
  <2>1. touched' \in Seq(Remembered') /\ thrown' = thrown
    BY <1>8 DEF Prepare, Remembered
  <2>2. ~thrown => Flagged' = {}
    <3>1. ~thrown => Flagged = {}
      BY <1>8 DEF Prepare, ScratchInv
    <3>2. seen' = Grown(model.numDicts * dictLen)
      BY <1>8 DEF Prepare
    <3> QED
      BY <3>1, <3>2, GrownSetsNone DEF Flagged
  <2> QED
    BY <2>1, <2>2 DEF ScratchInv
\* mark sets a flag and remembers it.
<1>9. CASE MarkNew
  <2> DEFINE slot == Head(pending).slot
  <2>1. /\ step = "words" /\ step' = "words" /\ thrown' = thrown
        /\ seen' = [seen EXCEPT ![slot] = 1]
        /\ touched' = Append(touched, slot)
    BY <1>9 DEF MarkNew, Marking
  <2>2. touched' \in Seq(Remembered') /\ Remembered' = Remembered \union {slot}
    BY <2>1, AppendRemembers DEF ScratchInv, Remembered
  <2>3. Flagged' \subseteq Flagged \union {slot}
    BY <2>1 DEF Flagged
  <2> QED
    BY <2>1, <2>2, <2>3 DEF ScratchInv
<1>10. CASE MarkThrows
  BY <1>10 DEF MarkThrows, ScratchInv, Remembered
\* The end of the words clears what is remembered.
<1>11. CASE WordsDone
  <2>1. touched' = touched /\ thrown' = thrown /\ step = "words" /\ step' = "cut" /\ seen' = Restored
    BY <1>11 DEF WordsDone
  <2>2. Flagged' = Flagged \ Remembered
    BY <2>1 DEF Flagged, Remembered, Restored
  <2> QED
    BY <2>1, <2>2 DEF ScratchInv, Remembered
<1>12. CASE UNCHANGED vars
  BY <1>1, <1>12 DEF vars
<1> QED
  BY <1>2, <1>3, <1>4, <1>5, <1>6, <1>7, <1>8, <1>9, <1>10, <1>11, <1>12 DEF Next

(***************************************************************************)
(* The scratch's "all-zero between calls" (scorer.h) holds on a thread     *)
(* until push_back throws in the middle of a mark, whatever models it      *)
(* loads, texts it tokenizes, and calls that fail to decode or to allocate *)
(* anywhere else: a call that is refused, throws in prepare or throws at   *)
(* the cuts leaves every flag clear for the next one.                      *)
(***************************************************************************)
THEOREM ScratchIsRestored == Spec => [](~thrown => SeenClear)
<1>1. ScratchInv => (~thrown => SeenClear)
  BY DEF ScratchInv, Flagged, SeenClear
<1> QED
  BY <1>1, ScratchInit, ScratchStep, PTL DEF Spec

-----------------------------------------------------------------------------
(* Induction over the naturals, and the recursive helpers *)

LEMMA LeastNat ==
    ASSUME NEW T, T \subseteq Nat, T # {}
    PROVE  \E n \in T : \A m \in T : n <= m
<1> DEFINE R == {ss \in Nat \X Nat : ss[1] < ss[2]}
<1>1. IsWellFoundedOn(R, Nat)
  BY NatLessThanWellFounded DEF OpToRel
<1> HIDE DEF R
<1>2. \E n \in T : \A m \in T : ~ (<<m, n>> \in R)
  BY <1>1, WFMin
<1>3. PICK n \in T : \A m \in T : ~ (<<m, n>> \in R)
  BY <1>2
<1>4. \A m \in T : <<m, n>> \in R <=> m < n
  BY DEF R
<1>5. \A m \in T : n <= m
  <2> TAKE m \in T
  <2>1. n \in Nat /\ m \in Nat
    OBVIOUS
  <2>2. ~ (m < n)
    BY <1>3, <1>4
  <2> QED
    BY <2>1, <2>2
<1> QED
  BY <1>5

LEMMA Induct ==
    ASSUME NEW S \in SUBSET Nat, 0 \in S, \A n \in S : n + 1 \in S
    PROVE  S = Nat
<1>1. SUFFICES ASSUME Nat \ S # {} PROVE FALSE
  OBVIOUS
<1>2. PICK n \in Nat \ S : \A m \in Nat \ S : n <= m
  BY <1>1, LeastNat
<1>3. n - 1 \in S
  BY <1>2
<1> QED
  BY <1>2, <1>3

\* The function that FlattenSeq recurs by.
Flattens(seqs, n, f) == f = [i \in 1 .. n |-> IF i = 1 THEN seqs[i] ELSE f[i - 1] \o seqs[i]]

LEMMA FlattensExists ==
    ASSUME NEW seqs
    PROVE  \A n \in Nat : \E f : Flattens(seqs, n, f)
<1> DEFINE S == {n \in Nat : \E f : Flattens(seqs, n, f)}
<1>1. 0 \in S
  <2> DEFINE f == [i \in 1 .. 0 |-> <<>>]
  <2>1. f = [i \in 1 .. 0 |-> IF i = 1 THEN seqs[i] ELSE f[i - 1] \o seqs[i]]
    OBVIOUS
  <2> QED
    BY <2>1 DEF Flattens
<1>2. ASSUME NEW n \in S PROVE n + 1 \in S
  <2>1. PICK g : Flattens(seqs, n, g)
    OBVIOUS
  <2> DEFINE f == [i \in 1 .. n + 1 |-> IF i <= n THEN g[i] ELSE IF i = 1 THEN seqs[i] ELSE g[n] \o seqs[i]]
  <2>2. \A i \in 1 .. n : g[i] = IF i = 1 THEN seqs[i] ELSE g[i - 1] \o seqs[i]
    BY <2>1 DEF Flattens
  <2>3. \A i \in 1 .. n : f[i] = g[i]
    OBVIOUS
  <2>4. f[n + 1] = IF n + 1 = 1 THEN seqs[n + 1] ELSE g[n] \o seqs[n + 1]
    OBVIOUS
  <2>5. \A i \in 1 .. n + 1 : f[i] = IF i = 1 THEN seqs[i] ELSE f[i - 1] \o seqs[i]
    BY <2>2, <2>3, <2>4
  <2> HIDE DEF f
  <2>6. f = [i \in 1 .. n + 1 |-> f[i]]
    BY DEF f
  <2>7. Flattens(seqs, n + 1, f)
    BY <2>5, <2>6 DEF Flattens
  <2> QED
    BY <2>7
<1> HIDE DEF S
<1>3. S \subseteq Nat
  BY DEF S
<1>4. S = Nat
  BY <1>1, <1>2, <1>3, Induct
<1> QED
  BY <1>4 DEF S

\* A flattened sequence has the elements of its parts.
LEMMA FlattenType ==
    ASSUME NEW S, NEW seqs \in Seq(Seq(S))
    PROVE  FlattenSeq(seqs) \in Seq(S)
<1> DEFINE n == Len(seqs)
           f == CHOOSE g : g = [i \in 1 .. n |-> IF i = 1 THEN seqs[i] ELSE g[i - 1] \o seqs[i]]
<1>1. n \in Nat /\ DOMAIN seqs = 1 .. n
  OBVIOUS
<1>2. CASE n = 0
  <2>1. FlattenSeq(seqs) = <<>>
    BY <1>2 DEF FlattenSeq
  <2> QED
    BY <2>1
<1>3. CASE n # 0
  <2>1. FlattenSeq(seqs) = f[n]
    BY <1>3 DEF FlattenSeq
  <2>2. f = [i \in 1 .. n |-> IF i = 1 THEN seqs[i] ELSE f[i - 1] \o seqs[i]]
    BY <1>1, FlattensExists DEF Flattens
  <2> HIDE DEF f
  <2>3. \A i \in 1 .. n : f[i] = IF i = 1 THEN seqs[i] ELSE f[i - 1] \o seqs[i]
    BY <2>2
  <2> DEFINE T == {k \in Nat : k + 1 \in 1 .. n => f[k + 1] \in Seq(S)}
  <2>4. 0 \in T
    BY <2>3
  <2>5. ASSUME NEW k \in T PROVE k + 1 \in T
    <3> SUFFICES ASSUME k + 2 \in 1 .. n PROVE f[k + 2] \in Seq(S)
      OBVIOUS
    <3>1. f[k + 1] \in Seq(S)
      OBVIOUS
    <3>2. f[k + 2] = f[k + 1] \o seqs[k + 2]
      <4>1. (k + 2) - 1 = k + 1 /\ k + 2 # 1
        OBVIOUS
      <4> QED
        BY <2>3, <4>1
    <3> QED
      BY <3>1, <3>2, ConcatProperties
  <2> HIDE DEF T
  <2>6. T = Nat
    <3>1. T \subseteq Nat
      BY DEF T
    <3> QED
      BY <2>4, <2>5, <3>1, Induct
  <2>7. n - 1 \in T /\ (n - 1) + 1 = n
    BY <1>1, <1>3, <2>6
  <2>8. f[n] \in Seq(S)
    BY <1>1, <1>3, <2>7 DEF T
  <2> QED
    BY <2>1, <2>8
<1> QED
  BY <1>2, <1>3

\* Max and Min of two.
LEMMA OfTwo ==
    ASSUME NEW a \in Int, NEW b \in Int
    PROVE  /\ Max({a, b}) = IF a >= b THEN a ELSE b
           /\ Min({a, b}) = IF a <= b THEN a ELSE b
BY DEF Max, Min

-----------------------------------------------------------------------------
(* The characters of a text *)

Char(s, p) ==
    LET d == Decode(SubSeq(s, p, Len(s))) IN [codepoint |-> d.codepoint, length |-> d.length, at |-> p - 1]
CharsOf(s) == {Char(s, p) : p \in 1 .. Len(s)}

LEMMA CharFields ==
    ASSUME NEW s \in Seq(Bytes), NEW p \in 1 .. Len(s)
    PROVE  /\ Char(s, p).at = p - 1
           /\ Char(s, p).length = Decode(SubSeq(s, p, Len(s))).length
           /\ Char(s, p).codepoint = Decode(SubSeq(s, p, Len(s))).codepoint
           /\ Char(s, p).length \in 0 .. 4
           /\ p + Char(s, p).length <= Len(s) + 1
<1> DEFINE t == SubSeq(s, p, Len(s))
           d == Decode(t)
           len == SequenceLength(t[1])
<1>1. Len(s) \in Nat /\ p \in Nat /\ Len(t) = Len(s) - p + 1
  BY SubSeqProperties
<1>2. t[1] \in Bytes
  <2>1. t \in Seq(Bytes) /\ 1 \in 1 .. Len(t)
    BY <1>1, SubSeqProperties
  <2> QED
    BY <2>1
<1>3. len \in 0 .. 4
  BY <1>2 DEF SequenceLength, Bytes
<1>4. d.length = 0 \/ (d.length = len /\ len <= Len(t))
  BY DEF Decode
<1> HIDE DEF len, d, t
<1>7. Char(s, p).at = p - 1 /\ Char(s, p).length = d.length /\ Char(s, p).codepoint = d.codepoint
  BY DEF Char, d, t
<1> QED
  BY <1>1, <1>3, <1>4, <1>7 DEF d, t

\* The function that Characters recurs by, right from position Len(s) + 1 - m on.
CharsFrom(s, f, p) == IF p > Len(s) THEN <<>>
                      ELSE LET d == Decode(SubSeq(s, p, Len(s)))
                               c == [codepoint |-> d.codepoint, length |-> d.length, at |-> p - 1]
                           IN  <<c>> \o (IF d.length = 0 THEN <<>> ELSE f[p + d.length])

LEMMA CharsFromExists ==
    ASSUME NEW s \in Seq(Bytes)
    PROVE  \E f : f = [p \in 1 .. Len(s) + 1 |-> CharsFrom(s, f, p)]
<1> DEFINE n == Len(s)
           right(f, m) == \A p \in 1 .. n + 1 : p + m > n => f[p] = CharsFrom(s, f, p)
           T == {m \in Nat : \E f : f = [p \in 1 .. n + 1 |-> f[p]] /\ right(f, m)}
<1>1. n \in Nat
  OBVIOUS
\* Past a character only later positions are looked at.
<1>2. ASSUME NEW f, NEW g, NEW p \in 1 .. n + 1, \A q \in 1 .. n + 1 : q > p => f[q] = g[q]
      PROVE  CharsFrom(s, f, p) = CharsFrom(s, g, p)
  <2>1. CASE p > n
    BY <2>1 DEF CharsFrom
  <2>2. CASE p <= n
    <3> DEFINE len == Decode(SubSeq(s, p, n)).length
    <3>1. p \in 1 .. Len(s)
      BY <1>1, <2>2
    <3>2. len \in 0 .. 4 /\ p + len <= n + 1
      BY <3>1, CharFields
    <3>3. len # 0 => p + len \in 1 .. n + 1 /\ p + len > p
      BY <1>1, <3>1, <3>2
    <3>4. len # 0 => f[p + len] = g[p + len]
      BY <1>2, <3>3
    <3> QED
      BY <3>4 DEF CharsFrom
  <2> QED
    BY <1>1, <2>1, <2>2
<1>3. 0 \in T
  <2> DEFINE f == [p \in 1 .. n + 1 |-> <<>>]
  <2>1. \A p \in 1 .. n + 1 : p + 0 > n => CharsFrom(s, f, p) = <<>>
    BY <1>1 DEF CharsFrom
  <2>2. right(f, 0)
    BY <2>1
  <2> QED
    BY <2>2
<1>4. ASSUME NEW m \in T PROVE m + 1 \in T
  <2>1. PICK g : right(g, m)
    OBVIOUS
  <2> DEFINE h == n - m
             f == [p \in 1 .. n + 1 |-> IF p = h THEN CharsFrom(s, g, p) ELSE g[p]]
  <2>2. right(f, m + 1)
    <3> TAKE p \in 1 .. n + 1
    <3> HAVE p + (m + 1) > n
    <3>1. p >= h
      BY <1>1
    <3>2. \A q \in 1 .. n + 1 : q > p => f[q] = g[q]
      BY <3>1, <1>1
    <3>3. CharsFrom(s, f, p) = CharsFrom(s, g, p)
      BY <1>2, <3>2
    <3>4. CASE p = h
      BY <3>3, <3>4
    <3>5. CASE p # h
      <4>1. p + m > n
        BY <1>1, <3>1, <3>5
      <4>2. g[p] = CharsFrom(s, g, p)
        BY <2>1, <4>1
      <4> QED
        BY <3>3, <3>5, <4>2
    <3> QED
      BY <3>4, <3>5
  <2>3. f = [p \in 1 .. n + 1 |-> f[p]]
    OBVIOUS
  <2> HIDE DEF f, right
  <2> QED
    BY <2>2, <2>3
<1>5. T = Nat
  <2>1. T \subseteq Nat
    OBVIOUS
  <2> HIDE DEF T
  <2> QED
    BY <1>3, <1>4, <2>1, Induct
<1>6. PICK f : f = [p \in 1 .. n + 1 |-> f[p]] /\ right(f, n)
  BY <1>1, <1>5
<1>7. \A p \in 1 .. n + 1 : f[p] = CharsFrom(s, f, p)
  BY <1>1, <1>6
<1>8. f = [p \in 1 .. n + 1 |-> CharsFrom(s, f, p)]
  BY <1>6, <1>7
<1> QED
  BY <1>8

\* The characters of s from position p on: each begins where the one before it ends.
Chained(s, p, c) ==
    /\ c \in Seq(CharsOf(s))
    /\ c = <<>> <=> p > Len(s)
    /\ c # <<>> => c[1] = Char(s, p)
    /\ \A k \in 1 .. Len(c) - 1 :
          /\ c[k].length # 0 /\ c[k].at + c[k].length < Len(s)
          /\ c[k + 1] = Char(s, c[k].at + c[k].length + 1)
    /\ c # <<>> => c[Len(c)].length = 0 \/ c[Len(c)].at + c[Len(c)].length = Len(s)

LEMMA CharactersChained ==
    ASSUME NEW s \in Seq(Bytes)
    PROVE  Chained(s, 1, Characters(s))
<1> DEFINE n == Len(s)
           f == CHOOSE g : g = [p \in 1 .. n + 1 |-> CharsFrom(s, g, p)]
           T == {m \in Nat : \A p \in 1 .. n + 1 : p + m = n + 1 => Chained(s, p, f[p])}
<1>1. n \in Nat
  OBVIOUS
<1>2. Characters(s) = f[1]
  BY DEF Characters, CharsFrom
<1>3. f = [p \in 1 .. n + 1 |-> CharsFrom(s, f, p)]
  BY CharsFromExists
<1> HIDE DEF f
<1>4. f[n + 1] = <<>>
  BY <1>1, <1>3 DEF CharsFrom
<1>5. ASSUME NEW p \in 1 .. n
      PROVE  /\ Char(s, p).length = 0 => f[p] = <<Char(s, p)>>
             /\ Char(s, p).length # 0 => f[p] = <<Char(s, p)>> \o f[p + Char(s, p).length]
  <2> DEFINE len == Char(s, p).length
  <2>1. p \in 1 .. n + 1 /\ ~ (p > n)
    BY <1>1
  <2>2. f[p] = CharsFrom(s, f, p)
    BY <1>3, <2>1
  <2>3. len = Decode(SubSeq(s, p, n)).length
    BY CharFields
  <2>4. CharsFrom(s, f, p) = <<Char(s, p)>> \o (IF len = 0 THEN <<>> ELSE f[p + len])
    BY <2>1, <2>3 DEF CharsFrom, Char
  <2>5. <<Char(s, p)>> \o <<>> = <<Char(s, p)>>
    BY ConcatEmptySeq
  <2> QED
    BY <2>2, <2>4, <2>5
<1>6. \A m \in Nat : (\A k \in 0 .. m - 1 : k \in T) => m \in T
  <2> SUFFICES ASSUME NEW m \in Nat, \A k \in 0 .. m - 1 : k \in T, NEW p \in 1 .. n + 1, p + m = n + 1
               PROVE  Chained(s, p, f[p])
    OBVIOUS
  <2>1. CASE m = 0
    <3>1. p = n + 1 /\ f[p] = <<>>
      BY <1>1, <1>4, <2>1
    <3> QED
      BY <1>1, <3>1 DEF Chained
  <2>2. CASE m > 0
    <3> DEFINE c == Char(s, p)
    <3>1. p \in 1 .. n
      BY <1>1, <2>2
    <3>2. c \in CharsOf(s) /\ c.at = p - 1 /\ c.length \in 0 .. 4 /\ p + c.length <= n + 1
      BY <3>1, CharFields DEF CharsOf
    <3> HIDE DEF c
    <3>3. CASE c.length = 0
      <4>1. f[p] = <<c>>
        BY <1>5, <3>1, <3>3 DEF c
      <4>2. <<c>> \in Seq(CharsOf(s)) /\ Len(<<c>>) = 1 /\ <<c>>[1] = c /\ <<c>> # <<>>
        BY <3>2
      <4> QED
        BY <1>1, <3>1, <3>3, <4>1, <4>2 DEF Chained, c
    <3>4. CASE c.length # 0
      <4> DEFINE q == p + c.length
                 t == f[q]
      <4>1. f[p] = <<c>> \o t
        BY <1>5, <3>1, <3>4 DEF c
      <4>2. q \in 1 .. n + 1 /\ (n + 1) - q \in 0 .. m - 1 /\ q + ((n + 1) - q) = n + 1 /\ q > p
        BY <1>1, <3>1, <3>2, <3>4
      <4>3. Chained(s, q, t)
        BY <2>2, <4>2
      <4> HIDE DEF t, q, T
      <4>4. t \in Seq(CharsOf(s)) /\ <<c>> \in Seq(CharsOf(s)) /\ Len(<<c>>) = 1 /\ <<c>>[1] = c
        BY <3>2, <4>3 DEF Chained
      <4>5. Len(t) \in Nat
        BY <4>4
      <4>6. /\ f[p] \in Seq(CharsOf(s)) /\ Len(f[p]) = Len(t) + 1
            /\ f[p][1] = c /\ \A k \in 1 .. Len(t) : f[p][k + 1] = t[k]
        <5>1. /\ <<c>> \o t \in Seq(CharsOf(s)) /\ Len(<<c>> \o t) = 1 + Len(t)
              /\ \A k \in 1 .. 1 + Len(t) : (<<c>> \o t)[k] = IF k <= 1 THEN <<c>>[k] ELSE t[k - 1]
          BY <4>4, ConcatProperties
        <5>2. \A k \in 1 .. Len(t) : k + 1 \in 1 .. 1 + Len(t) /\ ~ (k + 1 <= 1) /\ (k + 1) - 1 = k
          BY <4>5
        <5>3. 1 \in 1 .. 1 + Len(t)
          BY <4>5
        <5> QED
          BY <4>1, <4>4, <4>5, <5>1, <5>2, <5>3
      <4>7. c.at + c.length + 1 = q /\ q \in Nat
        BY <1>1, <3>1, <3>2 DEF q
      <4>8. t = <<>> <=> Len(t) = 0
        BY <4>4
      <4>9. CASE t = <<>>
        <5>1. Len(f[p]) = 1 /\ f[p] # <<>> /\ f[p][1] = c
          BY <4>6, <4>8, <4>9
        <5>2. q > n
          BY <4>3, <4>9 DEF Chained
        <5>3. c.at + c.length = n
          BY <1>1, <4>2, <4>7, <5>2, <3>2
        <5> QED
          BY <1>1, <3>1, <4>6, <5>1, <5>3 DEF Chained, c
      <4>10. CASE t # <<>>
        <5>1. Len(t) \in Nat \ {0}
          BY <4>5, <4>8, <4>10
        <5>2. /\ ~ (q > n) /\ t[1] = Char(s, q)
              /\ \A k \in 1 .. Len(t) - 1 :
                    /\ t[k].length # 0 /\ t[k].at + t[k].length < n
                    /\ t[k + 1] = Char(s, t[k].at + t[k].length + 1)
              /\ t[Len(t)].length = 0 \/ t[Len(t)].at + t[Len(t)].length = n
          BY <4>3, <4>10 DEF Chained
        <5>3. f[p] # <<>> /\ f[p][Len(f[p])] = t[Len(t)]
          BY <4>6, <5>1
        <5>4. c.at + c.length < n /\ f[p][2] = Char(s, c.at + c.length + 1)
          <6>1. f[p][1 + 1] = t[1]
            <7>1. 1 \in 1 .. Len(t)
              BY <5>1
            <7> QED
              BY <4>6, <7>1
          <6>2. f[p][2] = Char(s, q)
            BY <5>2, <6>1
          <6>3. c.at \in Int /\ c.length \in Int
            BY <3>1, <3>2
          <6>4. c.at + c.length < n
            BY <1>1, <4>7, <5>2, <6>3
          <6> QED
            BY <4>7, <6>2, <6>4
        <5>5. ASSUME NEW k \in 1 .. Len(f[p]) - 1
              PROVE  /\ f[p][k].length # 0 /\ f[p][k].at + f[p][k].length < n
                     /\ f[p][k + 1] = Char(s, f[p][k].at + f[p][k].length + 1)
          <6>1. CASE k = 1
            BY <3>4, <4>6, <5>4, <6>1
          <6>2. CASE k # 1
            <7> DEFINE j == k - 1
            <7>1. j \in 1 .. Len(t) - 1 /\ j + 1 = k /\ j \in 1 .. Len(t) /\ k \in 1 .. Len(t)
              BY <4>6, <5>1, <6>2
            <7>2. f[p][k] = t[j] /\ f[p][k + 1] = t[j + 1]
              <8>1. \A i \in 1 .. Len(t) : f[p][i + 1] = t[i]
                BY <4>6
              <8>2. f[p][j + 1] = t[j] /\ f[p][k + 1] = t[k]
                BY <7>1, <8>1
              <8> HIDE DEF j
              <8> QED
                BY <7>1, <8>2
            <7> QED
              BY <5>2, <7>1, <7>2
          <6> QED
            BY <6>1, <6>2
        <5> QED
          BY <1>1, <3>1, <4>6, <5>2, <5>3, <5>5 DEF Chained, c
      <4> QED
        BY <4>9, <4>10
    <3> QED
      BY <3>3, <3>4
  <2> QED
    BY <2>1, <2>2
<1>7. n \in T
  <2> SUFFICES ASSUME Nat \ T # {} PROVE FALSE
    BY <1>1
  <2> HIDE DEF T
  <2>1. PICK m \in Nat \ T : \A k \in Nat \ T : m <= k
    <3>1. Nat \ T \subseteq Nat
      OBVIOUS
    <3> QED
      BY <3>1, LeastNat
  <2>2. \A k \in 0 .. m - 1 : k \in T
    BY <2>1
  <2> QED
    BY <1>6, <2>1, <2>2
<1>8. Chained(s, 1, f[1])
  BY <1>1, <1>7
<1> QED
  BY <1>2, <1>8

-----------------------------------------------------------------------------
(* What load verified *)

\* An array of numbers: its indices are those from 0.
IsVector(v) == \E n \in Int : v \in [0 .. n - 1 -> Int]

IsGraph(states) == states = NoStates \/ \E g \in DOMAIN Graphs : states = Graphs[g]

SoundNgrams(dict, window) ==
    /\ IsGraph(dict.states)
    /\ \A p \in DOMAIN dict.payloads : IsVector(dict.payloads[p])
    /\ \A o \in Outputs(dict) :
          o[2] \in DOMAIN dict.payloads /\ Cardinality(DOMAIN dict.payloads[o[2]]) >= 2 * window

SoundWords(dict) ==
    /\ IsGraph(dict.states)
    /\ \A p \in DOMAIN dict.payloads : dict.payloads[p].char_length \in Int
    /\ \A o \in Outputs(dict) :
          /\ o[2] \in DOMAIN dict.payloads
          /\ dict.payloads[o[2]].char_length >= 1 /\ dict.payloads[o[2]].char_length <= Len(o[1])

SoundModel(m) ==
    /\ m.charWindow \in Nat /\ m.typeWindow \in Nat /\ m.dictN \in Nat
    /\ m.numDicts \in Int
    /\ IsVector(m.dictVector) /\ m.bias \in Int
    /\ SoundNgrams(m.charDict, m.charWindow) /\ SoundNgrams(m.typeDict, m.typeWindow)
    /\ SoundWords(m.wordDict)
    /\ m.wordDict.states # NoStates /\ m.dictVector # <<>> =>
          m.dictN # 0 /\ Cardinality(DOMAIN m.dictVector) >= m.numDicts * 3 * m.dictN

LEMMA UnitType ==
    ASSUME NEW f \in Seq(Int)
    PROVE  \A at : Unit(f, at) \in Int
BY DEF Unit

LEMMA VectorIsVector ==
    ASSUME NEW f \in Seq(Int), NEW at
    PROVE  IsVector(Vector(f, at))
<1>1. Unit(f, at) \in Int /\ Vector(f, at) \in [0 .. Unit(f, at) - 1 -> Int]
  BY UnitType DEF Vector
<1> QED
  BY <1>1 DEF IsVector

\* The first of an array, if it has any.
LEMMA FirstIsInt ==
    ASSUME NEW v, IsVector(v)
    PROVE  (IF v = <<>> THEN 0 ELSE v[0]) \in Int
<1>1. PICK n \in Int : v \in [0 .. n - 1 -> Int]
  BY DEF IsVector
<1>2. CASE n > 0
  BY <1>1, <1>2
<1>3. CASE n <= 0
  <2>1. 0 .. n - 1 = {}
    BY <1>3
  <2>2. v = <<>>
    BY <1>1, <2>1
  <2> QED
    BY <2>2
<1> QED
  BY <1>2, <1>3

LEMMA GraphOfDictionary ==
    ASSUME NEW f \in Seq(Int), NEW at, NEW num_tags
    PROVE  /\ IsGraph(FeatureDictionary(f, at).states)
           /\ \A p \in DOMAIN FeatureDictionary(f, at).payloads :
                 IsVector(FeatureDictionary(f, at).payloads[p])
           /\ IsGraph(WordDictionary(f, at, num_tags).states)
           /\ \A p \in DOMAIN WordDictionary(f, at, num_tags).payloads :
                 WordDictionary(f, at, num_tags).payloads[p].char_length \in Int
           /\ WordDictionary(f, at, num_tags).num_dicts = Unit(f, at)
<1>1. IsGraph(FeatureDictionary(f, at).states)
  BY DEF IsGraph, FeatureDictionary, Dictionary
<1>2. \A p \in DOMAIN FeatureDictionary(f, at).payloads : IsVector(FeatureDictionary(f, at).payloads[p])
  <2>1. CASE HasStates(f, at)
    BY <2>1, VectorIsVector DEF FeatureDictionary, Dictionary
  <2>2. CASE ~HasStates(f, at)
    BY <2>2 DEF FeatureDictionary, Dictionary
  <2> QED
    BY <2>1, <2>2
<1>3. IsGraph(WordDictionary(f, at, num_tags).states)
  BY DEF IsGraph, WordDictionary, Dictionary
<1>4. \A p \in DOMAIN WordDictionary(f, at, num_tags).payloads :
         WordDictionary(f, at, num_tags).payloads[p].char_length \in Int
  <2>1. CASE HasStates(f, at)
    BY <2>1, UnitType DEF WordDictionary, Dictionary, WordEntry
  <2>2. CASE ~HasStates(f, at)
    BY <2>2 DEF WordDictionary, Dictionary
  <2> QED
    BY <2>1, <2>2
<1>5. WordDictionary(f, at, num_tags).num_dicts = Unit(f, at)
  BY DEF WordDictionary, Dictionary
<1> QED
  BY <1>1, <1>2, <1>3, <1>4, <1>5

\* Whatever is in the file, a model that load returned is sound.
LEMMA LoadIsSound ==
    ASSUME NEW f \in Seq(Int), \A k \in DOMAIN f : k <= 13 => f[k] \in Nat
    PROVE  Load(f).status = "ok" => SoundModel(Load(f).model)
<1> DEFINE l == Layout(f)
           m == ModelAt(f, l)
<1> SUFFICES ASSUME Load(f).status = "ok"
             PROVE  SoundModel(Load(f).model)
  OBVIOUS
<1>1. ModelOk(m) /\ Load(f).model = m
  BY DEF Load
<1> HIDE DEF l
<1>2. /\ m.charWindow = Unit(f, 5) /\ m.typeWindow = Unit(f, 7) /\ m.dictN = Unit(f, 9)
      /\ m.charDict = FeatureDictionary(f, l["chars"]) /\ m.typeDict = FeatureDictionary(f, l["types"])
      /\ m.dictVector = Vector(f, l["dictVector"])
      /\ m.bias = IF Vector(f, l["biases"]) = <<>> THEN 0 ELSE Vector(f, l["biases"])[0]
      /\ m.wordDict = WordDictionary(f, l["words"], NumTags(f)) /\ m.numDicts = Unit(f, l["words"])
  BY DEF ModelAt
<1> HIDE DEF m
<1>3. /\ \A o \in Outputs(m.charDict) : o[2] \in DOMAIN m.charDict.payloads /\ NgramVectorCheck(m.charDict.payloads[o[2]], m.charWindow)
      /\ \A o \in Outputs(m.typeDict) : o[2] \in DOMAIN m.typeDict.payloads /\ NgramVectorCheck(m.typeDict.payloads[o[2]], m.typeWindow)
      /\ \A o \in Outputs(m.wordDict) : o[2] \in DOMAIN m.wordDict.payloads /\ WordEntryCheck(m.wordDict.payloads[o[2]], Len(o[1]))
      /\ CheckDictionaryFeatures(m)
  BY <1>1 DEF ModelOk, IsSound
<1>4. m.charWindow \in Nat /\ m.typeWindow \in Nat /\ m.dictN \in Nat /\ m.numDicts \in Int
  BY <1>2, UnitType DEF Unit
<1>5. IsVector(m.dictVector) /\ m.bias \in Int
  BY <1>2, VectorIsVector, FirstIsInt
<1>6. SoundNgrams(m.charDict, m.charWindow) /\ SoundNgrams(m.typeDict, m.typeWindow)
  BY <1>2, <1>3, GraphOfDictionary DEF SoundNgrams, NgramVectorCheck
<1>7. SoundWords(m.wordDict) /\ m.wordDict.num_dicts = m.numDicts
  BY <1>2, <1>3, GraphOfDictionary DEF SoundWords, WordEntryCheck
<1>8. m.wordDict.states # NoStates /\ m.dictVector # <<>> =>
         m.dictN # 0 /\ Cardinality(DOMAIN m.dictVector) >= m.numDicts * 3 * m.dictN
  BY <1>3, <1>7 DEF CheckDictionaryFeatures
<1> QED
  BY <1>1, <1>4, <1>5, <1>6, <1>7, <1>8 DEF SoundModel

-----------------------------------------------------------------------------
(* What the automata report on a text *)

\* What may be reported on n characters: at the end of e of them, an output of a state whose
\* string is no longer.
Sightings(dict, n) ==
    {[end |-> eo[1] - 1, payload |-> dict.payloads[eo[2][2]]] :
        eo \in {x \in (1 .. n) \X Outputs(dict) : Len(x[2][1]) <= x[1]}}

LEMMA ReportedAreSightings ==
    ASSUME NEW dict, IsGraph(dict.states), NEW S, NEW ids \in Seq(S)
    PROVE  Reported(dict, ids) \in Seq(Sightings(dict, Len(ids)))
<1> DEFINE stateAt(e) ==
               LET suffixes == {p \in 1 .. e + 1 : SubSeq(ids, p, e) \in DOMAIN dict.states}
               IN  SubSeq(ids, Min(suffixes), e)
           at(e) == LET out == dict.states[stateAt(e)]
                    IN  [k \in DOMAIN out |-> [end |-> e - 1, payload |-> dict.payloads[out[k]]]]
           all == [e \in DOMAIN ids |-> at(e)]
           n == Len(ids)
<1>1. n \in Nat /\ DOMAIN ids = 1 .. n
  OBVIOUS
<1>2. CASE dict.states = NoStates
  <2>1. Reported(dict, ids) = <<>>
    BY <1>2 DEF Reported
  <2> QED
    BY <2>1
<1>3. CASE dict.states # NoStates
  <2>1. Reported(dict, ids) = FlattenSeq(all)
    BY <1>3 DEF Reported
  <2>2. PICK g \in DOMAIN Graphs : dict.states = Graphs[g]
    BY <1>3 DEF IsGraph
  <2>3. ASSUME NEW e \in 1 .. n
        PROVE  at(e) \in Seq(Sightings(dict, n))
    <3> DEFINE suffixes == {p \in 1 .. e + 1 : SubSeq(ids, p, e) \in DOMAIN dict.states}
               p == Min(suffixes)
               s == SubSeq(ids, p, e)
               out == dict.states[s]
    <3>1. SubSeq(ids, e + 1, e) = <<>>
      BY <1>1
    <3>2. e + 1 \in suffixes
      <4>1. <<>> \in DOMAIN dict.states
        BY <2>2, GraphsAssumption
      <4>2. e + 1 \in 1 .. e + 1
        BY <1>1
      <4> QED
        BY <3>1, <4>1, <4>2
    <3>3. suffixes \subseteq Nat /\ suffixes # {}
      BY <3>2
    <3> HIDE DEF suffixes
    <3>4. p \in suffixes
      <4>1. \E q \in suffixes : \A r \in suffixes : q <= r
        BY <3>3, LeastNat
      <4> QED
        BY <4>1 DEF Min
    <3> HIDE DEF p
    <3>5. p \in 1 .. e + 1 /\ s \in DOMAIN dict.states
      BY <3>4 DEF suffixes
    <3>6. Len(s) <= e /\ s = stateAt(e)
      <4>1. Len(s) = IF p <= e THEN e - p + 1 ELSE 0
        BY <1>1, <3>5, SubSeqProperties
      <4> QED
        BY <3>5, <4>1 DEF p, suffixes
    <3>7. out \in Seq(Nat)
      BY <2>2, <3>5, GraphsAssumption
    <3> HIDE DEF s
    <3>8. at(e) = [k \in DOMAIN out |-> [end |-> e - 1, payload |-> dict.payloads[out[k]]]]
      BY <3>6
    <3>9. \A k \in DOMAIN out : [end |-> e - 1, payload |-> dict.payloads[out[k]]] \in Sightings(dict, n)
      <4> TAKE k \in DOMAIN out
      <4>1. <<s, out[k]>> \in Outputs(dict)
        BY <3>5 DEF Outputs
      <4> DEFINE x == <<e, <<s, out[k]>>>>
      <4>2. x \in (1 .. n) \X Outputs(dict) /\ Len(x[2][1]) <= x[1] /\ x[1] = e /\ x[2][2] = out[k]
        BY <3>6, <4>1
      <4> HIDE DEF x
      <4> QED
        BY <4>2 DEF Sightings
    <3> HIDE DEF at, out
    <3> DEFINE r == [k \in DOMAIN out |-> [end |-> e - 1, payload |-> dict.payloads[out[k]]]]
    <3>10. DOMAIN out = 1 .. Len(out) /\ Len(out) \in Nat
      BY <3>7
    <3>11. r \in Seq(Sightings(dict, n))
      BY <3>9, <3>10
    <3> QED
      BY <3>8, <3>11
  <2> HIDE DEF at
  <2>4. all \in Seq(Seq(Sightings(dict, n)))
    BY <1>1, <2>3
  <2> HIDE DEF all
  <2> QED
    BY <2>1, <2>4, FlattenType
<1> QED
  BY <1>2, <1>3

-----------------------------------------------------------------------------
(* What a call keeps of its text *)

FitsWindow(match, n, window) ==
    /\ match.end \in 0 .. n - 1
    /\ \E size \in Int : match.vec \in [0 .. size - 1 -> Int] /\ size >= 2 * window

FitsText(w, n, m) ==
    /\ w.end \in 0 .. n - 1 /\ w.wlen \in 1 .. w.end + 1
    /\ w.in_dict \subseteq 0 .. m.numDicts - 1
    /\ m.wordDict.states # NoStates

IsList(s) == Len(s) \in Nat /\ DOMAIN s = 1 .. Len(s)

SoundSentence(m, s) ==
    /\ s.n \in Nat
    /\ IsList(s.chars) /\ \A k \in DOMAIN s.chars : FitsWindow(s.chars[k], s.n, m.charWindow)
    /\ IsList(s.types) /\ \A k \in DOMAIN s.types : FitsWindow(s.types[k], s.n, m.typeWindow)
    /\ IsList(s.words) /\ \A k \in DOMAIN s.words : FitsText(s.words[k], s.n, m)

LEMMA NgramsFit ==
    ASSUME NEW dict, NEW window \in Nat, SoundNgrams(dict, window), NEW S, NEW ids \in Seq(S)
    PROVE  LET r == Reported(dict, ids)
               matches == [k \in DOMAIN r |-> [end |-> r[k].end, vec |-> r[k].payload]]
           IN  IsList(matches) /\ \A k \in DOMAIN matches : FitsWindow(matches[k], Len(ids), window)
<1> DEFINE r == Reported(dict, ids)
           n == Len(ids)
           matches == [k \in DOMAIN r |-> [end |-> r[k].end, vec |-> r[k].payload]]
<1>1. r \in Seq(Sightings(dict, n)) /\ n \in Nat
  BY ReportedAreSightings DEF SoundNgrams
<1> HIDE DEF r, n
<1>2. DOMAIN r = 1 .. Len(r) /\ Len(r) \in Nat
  BY <1>1
<1>3. Len(matches) = Len(r) /\ DOMAIN matches = 1 .. Len(r)
  BY <1>2
<1>4. ASSUME NEW k \in 1 .. Len(r)
      PROVE  FitsWindow(matches[k], n, window)
  <2>1. r[k] \in Sightings(dict, n)
    BY <1>1, <1>2
  <2>2. PICK x \in (1 .. n) \X Outputs(dict) : r[k] = [end |-> x[1] - 1, payload |-> dict.payloads[x[2][2]]]
    BY <2>1 DEF Sightings
  <2>3. x[1] \in 1 .. n /\ x[2] \in Outputs(dict)
    BY <2>2
  <2>4. matches[k].end = x[1] - 1 /\ matches[k].vec = dict.payloads[x[2][2]]
    BY <1>2, <2>2
  <2>5. matches[k].end \in 0 .. n - 1
    BY <1>1, <2>3, <2>4
  <2> DEFINE v == dict.payloads[x[2][2]]
  <2>6. IsVector(v) /\ Cardinality(DOMAIN v) >= 2 * window
    BY <2>3 DEF SoundNgrams
  <2> HIDE DEF v
  <2>7. PICK size \in Int : v \in [0 .. size - 1 -> Int]
    BY <2>6 DEF IsVector
  <2>8. Cardinality(0 .. size - 1) = IF 0 > size - 1 THEN 0 ELSE size
    BY FS_Interval
  <2>9. \E larger \in Int : v \in [0 .. larger - 1 -> Int] /\ larger >= 2 * window
    <3>0. DOMAIN v = 0 .. size - 1
      BY <2>7
    <3>1. CASE size >= 1
      BY <2>6, <2>7, <2>8, <3>0, <3>1
    <3>2. CASE size < 1
      <4>1. 0 .. size - 1 = 0 .. 0 - 1 /\ 0 >= 2 * window
        BY <2>6, <2>8, <3>0, <3>2
      <4>2. v \in [0 .. 0 - 1 -> Int]
        BY <2>7, <4>1
      <4> QED
        BY <4>1, <4>2
    <3> QED
      BY <3>1, <3>2
  <2>10. matches[k].vec = v
    BY <2>4 DEF v
  <2> HIDE DEF matches
  <2> QED
    BY <2>5, <2>9, <2>10 DEF FitsWindow
<1> QED
  BY <1>2, <1>3, <1>4 DEF r, n, IsList

LEMMA WordsFit ==
    ASSUME NEW m, SoundModel(m), NEW S, NEW ids \in Seq(S)
    PROVE  LET r == Reported(m.wordDict, ids)
               words == [k \in DOMAIN r |-> [end |-> r[k].end, wlen |-> r[k].payload.char_length,
                                             in_dict |-> DictsIn(m, r[k].payload.in_dict)]]
           IN  IsList(words) /\ \A k \in DOMAIN words : FitsText(words[k], Len(ids), m)
<1> DEFINE dict == m.wordDict
           r == Reported(dict, ids)
           n == Len(ids)
           words == [k \in DOMAIN r |-> [end |-> r[k].end, wlen |-> r[k].payload.char_length,
                                         in_dict |-> DictsIn(m, r[k].payload.in_dict)]]
<1>0. SoundWords(dict) /\ m.numDicts \in Int
  BY DEF SoundModel
<1>1. r \in Seq(Sightings(dict, n)) /\ n \in Nat
  BY <1>0, ReportedAreSightings DEF SoundWords
<1>2. DOMAIN r = 1 .. Len(r) /\ Len(r) \in Nat
  <2> HIDE DEF r
  <2> QED
    BY <1>1
<1>3. Len(words) = Len(r) /\ DOMAIN words = 1 .. Len(r)
  BY <1>2
<1>4. r # <<>> => dict.states # NoStates
  BY DEF Reported
<1> HIDE DEF r, n, dict
<1>5. ASSUME NEW k \in 1 .. Len(r)
      PROVE  FitsText(words[k], n, m)
  <2>1. r[k] \in Sightings(dict, n)
    BY <1>1, <1>2
  <2>2. PICK x \in (1 .. n) \X Outputs(dict) :
           r[k] = [end |-> x[1] - 1, payload |-> dict.payloads[x[2][2]]] /\ Len(x[2][1]) <= x[1]
    BY <2>1 DEF Sightings
  <2>3. x[1] \in 1 .. n /\ x[2] \in Outputs(dict)
    BY <2>2
  <2> DEFINE e == dict.payloads[x[2][2]]
  <2>4. /\ words[k].end = x[1] - 1 /\ words[k].wlen = e.char_length
        /\ words[k].in_dict = DictsIn(m, e.in_dict)
    BY <1>2, <2>2
  <2>5. /\ e.char_length \in Int /\ e.char_length >= 1 /\ e.char_length <= Len(x[2][1])
    BY <1>0, <2>3 DEF SoundWords
  <2> HIDE DEF e, words
  <2>6. Len(x[2][1]) \in Int
    <3>1. PICK g \in DOMAIN Graphs : dict.states = Graphs[g]
      <4>1. r # <<>>
        BY <1>1, <1>2
      <4> QED
        BY <1>0, <1>4, <4>1 DEF SoundWords, IsGraph
    <3>2. x[2][1] \in DOMAIN dict.states
      BY <2>3 DEF Outputs
    <3>3. x[2][1] \in Seq(Nat)
      BY <3>1, <3>2, GraphsAssumption
    <3> QED
      BY <3>3
  <2>7. words[k].end \in 0 .. n - 1 /\ words[k].wlen \in 1 .. words[k].end + 1
    BY <1>1, <2>2, <2>3, <2>4, <2>5, <2>6
  <2>8. words[k].in_dict \subseteq 0 .. m.numDicts - 1
    BY <2>4 DEF DictsIn
  <2>9. dict.states # NoStates
    BY <1>1, <1>2, <1>4
  <2> QED
    BY <2>7, <2>8, <2>9 DEF FitsText, dict
<1> QED
  BY <1>2, <1>3, <1>5 DEF r, n, dict, IsList

LEMMA SentenceIsSound ==
    ASSUME NEW m, SoundModel(m), NEW t \in Seq(Bytes)
    PROVE  SoundSentence(m, SentenceOf(m, t))
<1> DEFINE chars == Characters(t)
           enc == EncodeInto(m.table, t)
           norm == [k \in DOMAIN chars |-> Normalize(chars[k].codepoint)]
           cids == [k \in DOMAIN chars |-> IdOf(m.table.ids, norm[k])]
           tids == [k \in DOMAIN chars |-> m.table.type_ids[Classify(norm[k])]]
           words == Reported(m.wordDict, enc.char_ids)
<1>1. DOMAIN chars = 1 .. Len(chars) /\ Len(chars) \in Nat
  BY CharactersChained DEF Chained
<1>2. enc.char_ids = cids /\ enc.type_ids = tids
  BY DEF EncodeInto
<1>3. cids \in Seq({cids[k] : k \in DOMAIN chars}) /\ Len(cids) = Len(chars)
  BY <1>1
<1>4. tids \in Seq({tids[k] : k \in DOMAIN chars}) /\ Len(tids) = Len(chars)
  BY <1>1
<1> HIDE DEF cids, tids
<1>5. /\ SentenceOf(m, t).n = Len(chars)
      /\ LET r == Reported(m.charDict, cids)
         IN  SentenceOf(m, t).chars = [k \in DOMAIN r |-> [end |-> r[k].end, vec |-> r[k].payload]]
      /\ LET r == Reported(m.typeDict, tids)
         IN  SentenceOf(m, t).types = [k \in DOMAIN r |-> [end |-> r[k].end, vec |-> r[k].payload]]
      /\ LET r == Reported(m.wordDict, cids)
         IN  SentenceOf(m, t).words =
                 [k \in DOMAIN r |-> [end |-> r[k].end, wlen |-> r[k].payload.char_length,
                                      in_dict |-> DictsIn(m, r[k].payload.in_dict)]]
  BY <1>2, <1>3 DEF SentenceOf
<1>6. /\ IsList(SentenceOf(m, t).chars)
      /\ \A k \in DOMAIN SentenceOf(m, t).chars :
            FitsWindow(SentenceOf(m, t).chars[k], Len(chars), m.charWindow)
  <2>1. SoundNgrams(m.charDict, m.charWindow) /\ m.charWindow \in Nat
    BY DEF SoundModel
  <2> DEFINE r == Reported(m.charDict, cids)
             matches == [k \in DOMAIN r |-> [end |-> r[k].end, vec |-> r[k].payload]]
  <2>2. IsList(matches) /\ \A k \in DOMAIN matches : FitsWindow(matches[k], Len(cids), m.charWindow)
    BY <2>1, <1>3, NgramsFit
  <2>3. SentenceOf(m, t).chars = matches
    BY <1>5
  <2> HIDE DEF matches, r
  <2> QED
    BY <1>3, <2>2, <2>3
<1>7. /\ IsList(SentenceOf(m, t).types)
      /\ \A k \in DOMAIN SentenceOf(m, t).types :
            FitsWindow(SentenceOf(m, t).types[k], Len(chars), m.typeWindow)
  <2>1. SoundNgrams(m.typeDict, m.typeWindow) /\ m.typeWindow \in Nat
    BY DEF SoundModel
  <2> DEFINE r == Reported(m.typeDict, tids)
             matches == [k \in DOMAIN r |-> [end |-> r[k].end, vec |-> r[k].payload]]
  <2>2. IsList(matches) /\ \A k \in DOMAIN matches : FitsWindow(matches[k], Len(tids), m.typeWindow)
    BY <2>1, <1>4, NgramsFit
  <2>3. SentenceOf(m, t).types = matches
    BY <1>5
  <2> HIDE DEF matches, r
  <2> QED
    BY <1>4, <2>2, <2>3
<1>8. /\ IsList(SentenceOf(m, t).words)
      /\ \A k \in DOMAIN SentenceOf(m, t).words : FitsText(SentenceOf(m, t).words[k], Len(chars), m)
  <2> DEFINE r == Reported(m.wordDict, cids)
             found == [k \in DOMAIN r |-> [end |-> r[k].end, wlen |-> r[k].payload.char_length,
                                           in_dict |-> DictsIn(m, r[k].payload.in_dict)]]
  <2>1. IsList(found) /\ \A k \in DOMAIN found : FitsText(found[k], Len(cids), m)
    BY <1>3, WordsFit
  <2>2. SentenceOf(m, t).words = found
    BY <1>5
  <2> HIDE DEF found, r
  <2> QED
    BY <1>3, <2>1, <2>2
<1> QED
  BY <1>1, <1>5, <1>6, <1>7, <1>8 DEF SoundSentence

-----------------------------------------------------------------------------
(* The marks of a match *)

LEMMA RowMajor ==
    ASSUME NEW A \in Int, NEW B \in Int, NEW a \in 0 .. A - 1, NEW b \in 0 .. B - 1
    PROVE  a * B + b \in 0 .. A * B - 1
<1>1. a \in Nat /\ b \in Nat /\ A - 1 - a \in Nat /\ B \in Nat
  OBVIOUS
<1>2. (A - 1 - a) * B \in Nat /\ a * B \in Nat
  BY <1>1
<1>3. (A - 1 - a) * B = A * B - B - a * B
  BY <1>1
<1>4. A * B \in Int
  OBVIOUS
<1> QED
  BY <1>1, <1>2, <1>3, <1>4

\* The marks there can be of the sentence at hand.
MarkSet ==
    {MarkOf(x[1], x[2], x[3]) : x \in (0 .. model.numDicts - 1) \X Boundaries \X (0 .. stride - 1)}

InSet(di, pos, col) == di \in 0 .. model.numDicts - 1 /\ pos \in Boundaries /\ col \in 0 .. stride - 1

LEMMA InMarkSet ==
    ASSUME NEW di, NEW pos, NEW col, InSet(di, pos, col)
    PROVE  MarkOf(di, pos, col) \in MarkSet
<1> DEFINE x == <<di, pos, col>>
<1>1. /\ x \in (0 .. model.numDicts - 1) \X Boundaries \X (0 .. stride - 1)
      /\ x[1] = di /\ x[2] = pos /\ x[3] = col
  BY DEF InSet
<1> HIDE DEF x
<1> QED
  BY <1>1 DEF MarkSet

\* The boundaries a word of the text meets.
LEMMA EdgesFit ==
    ASSUME NEW n \in Nat, NEW end \in 0 .. n - 1, NEW wlen \in 1 .. end + 1
    PROVE  /\ end >= wlen => end - wlen \in 0 .. n - 2
           /\ \A k \in 1 .. wlen - 1 : end - wlen + k \in 0 .. n - 2
           /\ end # n - 1 => end \in 0 .. n - 2
OBVIOUS

\* The parts of the marks of a match in one dictionary.
Label(w) == 3 * (Min({w.wlen, model.dictN}) - 1)
LeftOf(di, w) == IF w.end >= w.wlen THEN <<MarkOf(di, w.end - w.wlen, Label(w))>> ELSE <<>>
InsideOf(di, w) == [k \in 1 .. w.wlen - 1 |-> MarkOf(di, w.end - w.wlen + k, Label(w) + 1)]
RightOf(di, w) == IF RightEdge(w.end) THEN <<MarkOf(di, w.end, Label(w) + 2)>> ELSE <<>>

LEMMA LabelColumns ==
    ASSUME model.dictN \in Nat \ {0}, NEW w, w.wlen \in Nat \ {0}
    PROVE  /\ Min({w.wlen, model.dictN}) \in 1 .. model.dictN
           /\ Label(w) \in 0 .. stride - 1 /\ Label(w) + 1 \in 0 .. stride - 1 /\ Label(w) + 2 \in 0 .. stride - 1
<1> DEFINE label == Label(w)
           least == Min({w.wlen, model.dictN})
<1>1. 0 \in 0 .. 2 /\ 1 \in 0 .. 2 /\ 2 \in 0 .. 2
  OBVIOUS
<1>2. least \in 1 .. model.dictN
  <2>1. w.wlen \in Int /\ model.dictN \in Int
    OBVIOUS
  <2>2. least = IF w.wlen <= model.dictN THEN w.wlen ELSE model.dictN
    BY <2>1, OfTwo
  <2> HIDE DEF least
  <2> QED
    BY <2>1, <2>2
<1>3. label = 3 * (least - 1)
  BY DEF Label
<1> HIDE DEF least, label
<1>4. label \in Int
  BY <1>2, <1>3
<1>5. stride = 3 * model.dictN
  BY DEF stride
<1>6. label \in 0 .. stride - 1 /\ label + 1 \in 0 .. stride - 1 /\ label + 2 \in 0 .. stride - 1
  BY <1>2, <1>3, <1>5
<1> QED
  BY <1>2, <1>6 DEF least, label

LEMMA PartsAreInSet ==
    ASSUME SoundModel(model), sentence.n \in Nat, NEW w, FitsText(w, sentence.n, model), model.dictN # 0,
           NEW di \in w.in_dict
    PROVE  /\ LeftOf(di, w) \in Seq(MarkSet) /\ InsideOf(di, w) \in Seq(MarkSet) /\ RightOf(di, w) \in Seq(MarkSet)
           /\ MarksIn(di, w) = LeftOf(di, w) \o InsideOf(di, w) \o RightOf(di, w)
<1>1. /\ model.dictN \in Nat \ {0} /\ model.numDicts \in Int
      /\ w.end \in 0 .. sentence.n - 1 /\ w.wlen \in 1 .. w.end + 1
      /\ w.in_dict \subseteq 0 .. model.numDicts - 1
      /\ Boundaries = 0 .. sentence.n - 2 /\ Len1 = sentence.n - 1
  BY DEF SoundModel, FitsText, Boundaries, Len1
<1> DEFINE label == Label(w)
           left == LeftOf(di, w)
           inside == InsideOf(di, w)
           right == RightOf(di, w)
<1>2. di \in 0 .. model.numDicts - 1
  BY <1>1
<1>3. label \in 0 .. stride - 1 /\ label + 1 \in 0 .. stride - 1 /\ label + 2 \in 0 .. stride - 1
  <2>1. w.wlen \in Nat \ {0}
    BY <1>1
  <2> QED
    BY <1>1, <2>1, LabelColumns
<1> HIDE DEF label
<1>4. left \in Seq(MarkSet)
  <2>1. w.end >= w.wlen => w.end - w.wlen \in Boundaries
    BY <1>1, EdgesFit
  <2>2. w.end >= w.wlen => InSet(di, w.end - w.wlen, label)
    BY <1>2, <1>3, <2>1 DEF InSet
  <2> QED
    BY <2>2, InMarkSet DEF LeftOf, label
<1>5. inside \in Seq(MarkSet)
  <2>1. \A k \in 1 .. w.wlen - 1 : w.end - w.wlen + k \in Boundaries
    BY <1>1, EdgesFit
  <2>2. \A k \in 1 .. w.wlen - 1 : InSet(di, w.end - w.wlen + k, label + 1)
    BY <1>2, <1>3, <2>1 DEF InSet
  <2>3. \A k \in 1 .. w.wlen - 1 : inside[k] \in MarkSet
    BY <2>2, InMarkSet DEF InsideOf, label
  <2>4. w.wlen - 1 \in Nat
    BY <1>1
  <2> HIDE DEF MarkSet
  <2> QED
    BY <2>3, <2>4 DEF InsideOf
<1>6. right \in Seq(MarkSet)
  <2>1. RightEdge(w.end) => w.end \in Boundaries
    BY <1>1, EdgesFit DEF RightEdge
  <2>2. RightEdge(w.end) => InSet(di, w.end, label + 2)
    BY <1>2, <1>3, <2>1 DEF InSet
  <2> QED
    BY <2>2, InMarkSet DEF RightOf, label
<1>7. MarksIn(di, w) = left \o inside \o right
  BY DEF MarksIn, Label, LeftOf, InsideOf, RightOf
<1> QED
  BY <1>4, <1>5, <1>6, <1>7

\* The marks of a match, dictionary by dictionary.
ByDict(w) == [d \in 1 .. model.numDicts |-> IF d - 1 \in w.in_dict THEN MarksIn(d - 1, w) ELSE <<>>]

LEMMA ByDictType ==
    ASSUME SoundModel(model), sentence.n \in Nat, NEW w, FitsText(w, sentence.n, model), model.dictN # 0
    PROVE  ByDict(w) \in Seq(Seq(MarkSet)) /\ Marks(w) = FlattenSeq(ByDict(w))
<1> DEFINE S == Seq(MarkSet)
           size == IF model.numDicts >= 0 THEN model.numDicts ELSE 0
           all == ByDict(w)
<1>1. ASSUME NEW di \in w.in_dict
      PROVE  MarksIn(di, w) \in S
  <2> DEFINE left == LeftOf(di, w)
             inside == InsideOf(di, w)
             right == RightOf(di, w)
  <2>1. left \in S /\ inside \in S /\ right \in S /\ MarksIn(di, w) = left \o inside \o right
    BY PartsAreInSet
  <2> HIDE DEF left, inside, right, MarkSet
  <2>2. left \o inside \in S
    BY <2>1, ConcatProperties
  <2> QED
    BY <2>1, <2>2, ConcatProperties
<1>2. <<>> \in S
  <2> HIDE DEF MarkSet
  <2> QED
    OBVIOUS
<1> HIDE DEF S
<1>3. ASSUME NEW d \in 1 .. model.numDicts PROVE all[d] \in S
  <2>1. all[d] = IF d - 1 \in w.in_dict THEN MarksIn(d - 1, w) ELSE <<>>
    BY DEF ByDict
  <2>2. d - 1 \in w.in_dict => MarksIn(d - 1, w) \in S
    BY <1>1
  <2> QED
    BY <1>2, <2>1, <2>2
<1>4. size \in Nat /\ 1 .. size = 1 .. model.numDicts
  BY DEF SoundModel
<1> HIDE DEF size
<1>5. DOMAIN all = 1 .. size /\ \A d \in 1 .. size : all[d] \in S
  BY <1>3, <1>4 DEF ByDict
<1>6. all = [d \in 1 .. size |-> all[d]]
  BY <1>4 DEF ByDict
<1> HIDE DEF all
<1>7. all \in Seq(S)
  BY <1>4, <1>5, <1>6
<1>8. Marks(w) = FlattenSeq(ByDict(w))
  BY DEF Marks, ByDict
<1> QED
  BY <1>7, <1>8 DEF S, all

LEMMA MarksAreInSet ==
    ASSUME SoundModel(model), sentence.n \in Nat, NEW w, FitsText(w, sentence.n, model), model.dictN # 0
    PROVE  Marks(w) \in Seq(MarkSet)
BY ByDictType, FlattenType

-----------------------------------------------------------------------------
(* The invariant *)

Steps == {"idle", "chars", "types", "prepare", "words", "cut"}

ModelInv == status = "ok" => SoundModel(model)

\* The flags cover the sentence at hand while its words are gone through.
SeenInv ==
    \E size \in Nat :
        /\ DOMAIN seen = 0 .. size - 1
        /\ step = "words" => model.numDicts * dictLen <= size

CallInv ==
    /\ step \in Steps
    /\ next \in Nat \ {0}
    /\ step # "idle" => status = "ok" /\ SoundSentence(model, sentence)
    /\ step = "words" => ~NoFeatures /\ pending \in Seq(MarkSet)
    /\ step # "words" => pending = <<>>
    /\ pending # <<>> => model.wordDict.states # NoStates

BInv == ModelInv /\ SeenInv /\ CallInv

LEMMA InitBInv == Init => BInv
<1> SUFFICES ASSUME Init PROVE BInv
  OBVIOUS
<1>1. ModelInv
  BY DEF Init, ModelInv
<1>2. SeenInv
  <2>1. DOMAIN seen = 0 .. 0 - 1 /\ step # "words" /\ 0 \in Nat
    BY DEF Init
  <2> QED
    BY <2>1 DEF SeenInv
<1>3. CallInv
  BY DEF Init, CallInv, Steps
<1> QED
  BY <1>1, <1>2, <1>3 DEF BInv

\* The result of a load is found in the table of all.
LEMMA LoadsIsLoad ==
    ASSUME NEW f \in DOMAIN Disk
    PROVE  Loads[f] = Load(Disk[f].fields)
<1> DEFINE all == [g \in DOMAIN Disk |-> Load(Disk[g].fields)]
           S == {Load(Disk[g].fields) : g \in DOMAIN Disk}
<1>1. Len(Disk) \in Nat /\ DOMAIN Disk = 1 .. Len(Disk)
  BY ScorerAssumption
<1>2. all \in Seq(S)
  BY <1>1
<1>3. <<>> \o all = all
  BY <1>2, ConcatEmptySeq
<1> QED
  BY <1>3 DEF Loads

LEMMA LoadKeeps == BInv /\ LoadModel => BInv'
<1> SUFFICES ASSUME BInv, LoadModel PROVE BInv'
  OBVIOUS
<1>1. PICK f \in DOMAIN Disk : status' = Loads[f].status /\ model' = Loads[f].model
  BY DEF LoadModel
<1>2. Loads[f] = Load(Disk[f].fields)
  BY LoadsIsLoad
<1>3. Disk[f].fields \in Seq(Int) /\ \A k \in DOMAIN Disk[f].fields : k <= 13 => Disk[f].fields[k] \in Nat
  BY ScorerAssumption
<1>4. ModelInv'
  BY <1>1, <1>2, <1>3, LoadIsSound DEF ModelInv
<1>5. step = "idle" /\ step' = "idle" /\ seen' = seen /\ pending' = pending /\ next' = next
  BY DEF LoadModel, scratch
<1>6. SeenInv'
  BY <1>5 DEF SeenInv, BInv
<1>7. CallInv'
  BY <1>5 DEF CallInv, BInv
<1> QED
  BY <1>4, <1>6, <1>7 DEF BInv

LEMMA CallKeeps == BInv /\ Call => BInv'
<1> SUFFICES ASSUME BInv, Call PROVE BInv'
  OBVIOUS
<1>1. /\ step = "idle" /\ status = "ok" /\ status' = status /\ model' = model /\ next' = 1
      /\ seen' = seen /\ pending' = pending /\ step' \in Steps \ {"words"}
  BY DEF Call, loaded, scratch, Steps
<1>2. PICK t \in Decodable : sentence' = SentenceOf(model, t)
  BY DEF Call
<1>3. t \in Seq(Bytes)
  BY ScorerAssumption DEF Decodable
<1>4. SoundModel(model)
  BY <1>1 DEF BInv, ModelInv
<1>5. SoundSentence(model, sentence')
  BY <1>2, <1>3, <1>4, SentenceIsSound
<1>6. SoundSentence(model, sentence)'
  BY <1>1, <1>5
<1>7. ModelInv' /\ SeenInv'
  BY <1>1 DEF BInv, ModelInv, SeenInv
<1>8. CallInv'
  BY <1>1, <1>6 DEF BInv, CallInv
<1> QED
  BY <1>7, <1>8 DEF BInv

LEMMA PrepareKeeps == BInv /\ Prepare => BInv'
<1> SUFFICES ASSUME BInv, Prepare PROVE BInv'
  OBVIOUS
<1> DEFINE need == model.numDicts * dictLen
<1>1. /\ step = "prepare" /\ ~NoFeatures /\ step' = "words" /\ seen' = Grown(need)
      /\ status' = status /\ model' = model /\ sentence' = sentence /\ pending' = pending /\ next' = next
  BY DEF Prepare, loaded
<1>2. status = "ok" /\ SoundModel(model) /\ SoundSentence(model, sentence)
  BY <1>1 DEF BInv, CallInv, ModelInv
<1>3. need \in Int
  <2>1. model.numDicts \in Int /\ model.dictN \in Int /\ sentence.n \in Int
    BY <1>2 DEF SoundModel, SoundSentence
  <2> QED
    BY <2>1 DEF dictLen, stride, Len1
<1>4. need' = need
  BY <1>1 DEF dictLen, stride, Len1
<1>5. PICK size \in Nat : DOMAIN seen = 0 .. size - 1
  BY DEF BInv, SeenInv
<1>6. Cardinality(DOMAIN seen) = size
  BY <1>5, FS_Interval
<1> HIDE DEF need
<1>7. DOMAIN seen' = 0 .. Max({need, size}) - 1
  BY <1>1, <1>6 DEF Grown
<1>8. Max({need, size}) \in Nat /\ need <= Max({need, size})
  BY <1>3, OfTwo
<1>9. SeenInv'
  BY <1>4, <1>7, <1>8 DEF SeenInv, need
<1>10. pending = <<>> /\ pending' \in Seq(MarkSet')
  BY <1>1 DEF BInv, CallInv
<1>11. CallInv'
  BY <1>1, <1>2, <1>10 DEF BInv, CallInv, Steps, NoFeatures
<1> QED
  BY <1>1, <1>9, <1>11 DEF BInv, ModelInv

LEMMA WordKeeps == BInv /\ (WordMatch \/ MarkSeen \/ MarkNew \/ MarkThrows \/ WordsDone) => BInv'
<1> SUFFICES ASSUME BInv, WordMatch \/ MarkSeen \/ MarkNew \/ MarkThrows \/ WordsDone PROVE BInv'
  OBVIOUS
<1>1. /\ step = "words"
      /\ status' = status /\ model' = model /\ sentence' = sentence
  BY DEF WordMatch, MarkSeen, MarkNew, MarkThrows, WordsDone, Marking, loaded
<1>2. /\ status = "ok" /\ SoundModel(model) /\ SoundSentence(model, sentence)
      /\ ~NoFeatures /\ pending \in Seq(MarkSet) /\ next \in Nat \ {0}
      /\ pending # <<>> => model.wordDict.states # NoStates
  BY <1>1 DEF BInv, CallInv, ModelInv
<1>3. MarkSet' = MarkSet /\ (model.numDicts * dictLen)' = model.numDicts * dictLen /\ NoFeatures' = NoFeatures
      /\ SoundSentence(model, sentence)' /\ ModelInv'
  BY <1>1, <1>2 DEF MarkSet, MarkOf, dictLen, stride, Len1, Boundaries, NoFeatures, ModelInv
<1>4. DOMAIN seen' = DOMAIN seen
  BY DEF WordMatch, MarkSeen, MarkNew, MarkThrows, WordsDone, Restored, scratch
<1>5. SeenInv'
  BY <1>1, <1>3, <1>4 DEF BInv, SeenInv
<1>6. CASE WordMatch
  <2> DEFINE w == sentence.words[next]
  <2>1. pending' = Marks(w) /\ next' = next + 1 /\ step' = step /\ next <= Len(sentence.words)
    BY <1>6 DEF WordMatch
  <2>2. FitsText(w, sentence.n, model) /\ sentence.n \in Nat
    BY <1>2, <2>1 DEF SoundSentence, IsList
  <2>3. model.dictN # 0 /\ model.wordDict.states # NoStates
    BY <1>2, <2>2 DEF SoundModel, NoFeatures, FitsText
  <2>4. pending' \in Seq(MarkSet)
    BY <1>2, <2>1, <2>2, <2>3, MarksAreInSet
  <2> HIDE DEF w
  <2> QED
    BY <1>1, <1>2, <1>3, <1>5, <2>1, <2>3, <2>4 DEF BInv, CallInv
<1>7. CASE MarkSeen \/ MarkNew
  <2>1. pending # <<>> /\ pending' = Tail(pending) /\ step' = step /\ next' = next
    BY <1>7 DEF MarkSeen, MarkNew, Marking
  <2>2. pending' \in Seq(MarkSet)
    BY <1>2, <2>1
  <2> QED
    BY <1>1, <1>2, <1>3, <1>5, <2>1, <2>2 DEF BInv, CallInv
<1>8. CASE MarkThrows
  <2>1. pending' = <<>> /\ step' = "idle" /\ next' = next
    BY <1>8 DEF MarkThrows
  <2> QED
    BY <1>2, <1>3, <1>5, <2>1 DEF BInv, CallInv, Steps
<1>9. CASE WordsDone
  <2>1. pending = <<>> /\ pending' = pending /\ step' = "cut" /\ next' = 1
    BY <1>9 DEF WordsDone
  <2> QED
    BY <1>1, <1>2, <1>3, <1>5, <2>1 DEF BInv, CallInv, Steps
<1> QED
  BY <1>6, <1>7, <1>8, <1>9

LEMMA NextBInv == BInv /\ [Next]_vars => BInv'
<1> SUFFICES ASSUME BInv, [Next]_vars PROVE BInv'
  OBVIOUS
\* The steps that leave the model, the sentence and the flags alone.
<1>1. ASSUME UNCHANGED <<status, model, seen, pending>>, next' \in Nat \ {0},
             step # "words", step' \in Steps \ {"words"},
             step' # "idle" => step # "idle" /\ sentence' = sentence
      PROVE  BInv'
  <2>1. ModelInv' /\ SeenInv'
    BY <1>1 DEF BInv, ModelInv, SeenInv
  <2>2. CallInv'
    BY <1>1 DEF BInv, CallInv
  <2> QED
    BY <2>1, <2>2 DEF BInv
<1>2. next \in Nat \ {0} /\ next + 1 \in Nat \ {0} /\ step \in Steps
  BY DEF BInv, CallInv
<1>3. CASE EncodeFails \/ AllocationThrows \/ CutWords
  BY <1>1, <1>2, <1>3 DEF EncodeFails, AllocationThrows, CutWords, loaded, scratch, Steps
<1>4. CASE CharMatch \/ TypeMatch
  BY <1>1, <1>2, <1>4 DEF CharMatch, TypeMatch, NgramMatch, loaded, scratch, Steps
<1>5. CASE CharsDone \/ TypesDone
  BY <1>1, <1>2, <1>5 DEF CharsDone, TypesDone, NgramsDone, loaded, scratch, Steps
<1>6. CASE SkipDictionary
  BY <1>1, <1>2, <1>6 DEF SkipDictionary, loaded, scratch, Steps
<1>7. CASE UNCHANGED vars
  <2>1. /\ status' = status /\ model' = model /\ seen' = seen /\ pending' = pending /\ next' = next
        /\ step' = step /\ sentence' = sentence
    BY <1>7 DEF vars, loaded, scratch
  <2>2. ModelInv' /\ SeenInv'
    BY <2>1 DEF BInv, ModelInv, SeenInv, dictLen, stride, Len1
  <2>3. CallInv'
    BY <2>1 DEF BInv, CallInv, NoFeatures, MarkSet, MarkOf, Boundaries, dictLen, stride, Len1
  <2> QED
    BY <2>2, <2>3 DEF BInv
<1> QED
  BY <1>3, <1>4, <1>5, <1>6, <1>7, LoadKeeps, CallKeeps, PrepareKeeps, WordKeeps DEF Next

-----------------------------------------------------------------------------
LEMMA ProductIsInt ==
    ASSUME NEW a \in Int, NEW b \in Int
    PROVE  a * b \in Int
OBVIOUS

LEMMA TimesThree ==
    ASSUME NEW a \in Int, NEW b \in Int
    PROVE  a * 3 * b = a * (3 * b)
OBVIOUS

LEMMA BoundsHold == BInv => IndicesInBounds
<1> SUFFICES ASSUME BInv PROVE IndicesInBounds
  OBVIOUS
<1>1. ASSUME NEW k \in DOMAIN pending
      PROVE  /\ pending[k].slot \in DOMAIN seen
             /\ pending[k].pos \in Boundaries
             /\ pending[k].weight \in DOMAIN model.dictVector
  <2>1. pending # <<>>
    OBVIOUS
  <2>2. /\ step = "words" /\ pending \in Seq(MarkSet) /\ status = "ok" /\ SoundModel(model) /\ ~NoFeatures
        /\ SoundSentence(model, sentence) /\ model.wordDict.states # NoStates
    BY <2>1 DEF BInv, CallInv, ModelInv
  <2>3. PICK x \in (0 .. model.numDicts - 1) \X Boundaries \X (0 .. stride - 1) :
           pending[k] = MarkOf(x[1], x[2], x[3])
    <3>1. pending[k] \in MarkSet
      BY <2>2
    <3> QED
      BY <3>1 DEF MarkSet
  <2> DEFINE di == x[1]
             pos == x[2]
             col == x[3]
  <2>4. di \in 0 .. model.numDicts - 1 /\ pos \in Boundaries /\ col \in 0 .. stride - 1
    BY <2>3
  <2>5. /\ pending[k].slot = di * dictLen + pos * stride + col
        /\ pending[k].pos = pos /\ pending[k].weight = di * stride + col
    BY <2>3 DEF MarkOf
  <2> HIDE DEF di, pos, col
  <2>6. model.numDicts \in Int /\ model.dictN \in Int /\ sentence.n \in Int
    BY <2>2 DEF SoundModel, SoundSentence
  <2>7. /\ stride \in Int /\ Len1 \in Int /\ dictLen \in Int /\ Boundaries = 0 .. Len1 - 1
        /\ dictLen = Len1 * stride /\ stride = 3 * model.dictN
    <3>1. stride = 3 * model.dictN /\ stride \in Int
      BY <2>6 DEF stride
    <3>2. Len1 = sentence.n - 1 /\ Len1 \in Int
      BY <2>6 DEF Len1
    <3>3. Boundaries = 0 .. Len1 - 1
      BY <2>6, <3>2 DEF Boundaries
    <3>4. dictLen = Len1 * stride
      BY DEF dictLen
    <3>5. Len1 * stride \in Int
      BY <3>1, <3>2
    <3> QED
      BY <3>1, <3>2, <3>3, <3>4, <3>5
  <2>8. pos * stride + col \in 0 .. dictLen - 1
    BY <2>4, <2>7, RowMajor
  <2>9. di * dictLen + (pos * stride + col) \in 0 .. model.numDicts * dictLen - 1
    BY <2>4, <2>6, <2>7, <2>8, RowMajor
  <2>10. PICK size \in Nat : DOMAIN seen = 0 .. size - 1 /\ model.numDicts * dictLen <= size
    BY <2>2 DEF BInv, SeenInv
  <2>11. pending[k].slot \in DOMAIN seen
    <3>1. di \in Int /\ pos \in Int /\ col \in Int
      BY <2>4, <2>7
    <3>2. di * dictLen \in Int /\ pos * stride \in Int /\ model.numDicts * dictLen \in Int
      BY <2>6, <2>7, <3>1, ProductIsInt
    <3>3. pending[k].slot = di * dictLen + (pos * stride + col)
      BY <2>5, <3>1, <3>2
    <3> QED
      BY <2>9, <2>10, <3>2, <3>3
  <2>12. pending[k].weight \in DOMAIN model.dictVector
    <3>1. di * stride + col \in 0 .. model.numDicts * stride - 1
      BY <2>4, <2>6, <2>7, RowMajor
    <3>2. model.dictVector # <<>>
      BY <2>2 DEF NoFeatures
    <3>3. Cardinality(DOMAIN model.dictVector) >= model.numDicts * 3 * model.dictN
      BY <2>2, <3>2 DEF SoundModel
    <3>4. model.numDicts * 3 * model.dictN = model.numDicts * stride
      BY <2>6, <2>7, TimesThree
    <3>5. PICK size2 \in Int : DOMAIN model.dictVector = 0 .. size2 - 1
      BY <2>2 DEF SoundModel, IsVector
    <3>6. Cardinality(DOMAIN model.dictVector) = IF 0 > size2 - 1 THEN 0 ELSE size2
      BY <3>5, FS_Interval
    <3>7. model.numDicts * stride \in Int
      BY <2>6, <2>7, ProductIsInt
    <3> QED
      BY <2>5, <3>1, <3>3, <3>4, <3>5, <3>6, <3>7
  <2> QED
    BY <2>4, <2>5, <2>11, <2>12
<1>2. ASSUME NEW matches, NEW window \in Nat, Len(matches) \in Nat, next <= Len(matches), step # "idle",
             \A k \in 1 .. Len(matches) : FitsWindow(matches[k], sentence.n, window)
      PROVE  \A j \in Clipped(matches[next].end, window) :
                matches[next].end - window + j \in Boundaries /\ j \in DOMAIN matches[next].vec
  <2> DEFINE end == matches[next].end
             from == end - window
  <2>1. next \in 1 .. Len(matches) /\ sentence.n \in Nat
    BY <1>2 DEF BInv, CallInv, SoundSentence, IsList
  <2>2. FitsWindow(matches[next], sentence.n, window)
    BY <1>2, <2>1
  <2>3. PICK size \in Int : DOMAIN matches[next].vec = 0 .. size - 1 /\ size >= 2 * window
    BY <2>2 DEF FitsWindow
  <2>4. end \in 0 .. sentence.n - 1
    BY <2>2 DEF FitsWindow
  <2> HIDE DEF end
  <2>5. from \in Int /\ -from \in Int /\ 2 * window \in Int /\ Len1 - from \in Int /\ Len1 = sentence.n - 1
    BY <2>1, <2>4 DEF Len1
  <2>6. Clipped(end, window) = Max({0, -from}) .. Min({2 * window, Len1 - from}) - 1
    BY DEF Clipped
  <2>7. /\ Max({0, -from}) = IF 0 >= -from THEN 0 ELSE -from
        /\ Min({2 * window, Len1 - from}) = IF 2 * window <= Len1 - from THEN 2 * window ELSE Len1 - from
    <3> HIDE DEF from
    <3>1. 0 \in Int
      OBVIOUS
    <3>2. Max({0, -from}) = IF 0 >= -from THEN 0 ELSE -from
      BY <2>5, <3>1, OfTwo, Zenon
    <3>3. Min({2 * window, Len1 - from}) = IF 2 * window <= Len1 - from THEN 2 * window ELSE Len1 - from
      BY <2>5, OfTwo, Zenon
    <3> QED
      BY <3>2, <3>3, Zenon
  <2> SUFFICES ASSUME NEW j \in Clipped(end, window)
               PROVE  from + j \in Boundaries /\ j \in DOMAIN matches[next].vec
    BY DEF end
  <2>8. j \in Int /\ j >= 0 /\ j >= -from /\ j < 2 * window /\ j < Len1 - from
    BY <2>5, <2>6, <2>7
  <2>9. from + j \in 0 .. sentence.n - 2
    BY <2>1, <2>5, <2>8
  <2>10. j \in 0 .. size - 1
    BY <2>3, <2>8
  <2> QED
    BY <2>3, <2>9, <2>10 DEF Boundaries
<1>3. step # "idle" => SoundModel(model) /\ SoundSentence(model, sentence)
  BY DEF BInv, CallInv, ModelInv
<1>4. CASE step = "chars" /\ next <= Len(sentence.chars)
  <2>1. \A j \in Clipped(sentence.chars[next].end, model.charWindow) :
           /\ sentence.chars[next].end - model.charWindow + j \in Boundaries
           /\ j \in DOMAIN sentence.chars[next].vec
    BY <1>2, <1>3, <1>4 DEF SoundModel, SoundSentence, IsList
  <2> QED
    BY <1>1, <1>4, <2>1 DEF IndicesInBounds
<1>5. CASE step = "types" /\ next <= Len(sentence.types)
  <2>1. \A j \in Clipped(sentence.types[next].end, model.typeWindow) :
           /\ sentence.types[next].end - model.typeWindow + j \in Boundaries
           /\ j \in DOMAIN sentence.types[next].vec
    BY <1>2, <1>3, <1>5 DEF SoundModel, SoundSentence, IsList
  <2> QED
    BY <1>1, <1>5, <2>1 DEF IndicesInBounds
<1> QED
  BY <1>1, <1>4, <1>5 DEF IndicesInBounds

(***************************************************************************)
(* "What the scorer assumes of the vectors and dictionaries it reads       *)
(* unchecked on the hot path" holds of whatever file load accepts, however *)
(* large the windows, the dictionaries, the texts and the number of calls, *)
(* and whatever the thread's scratch has grown to.                         *)
(***************************************************************************)
THEOREM IndicesAreInBounds == Spec => []IndicesInBounds
<1> QED
  BY InitBInv, NextBInv, BoundsHold, PTL DEF Spec

-----------------------------------------------------------------------------
(* What a sequence that decodes is the encoding of *)

\* What a subsequence is, from what it holds.
LEMMA SubSeqIs ==
    ASSUME NEW X, NEW s \in Seq(X), NEW t \in Seq(X), NEW a \in Nat, a + Len(t) <= Len(s),
           \A i \in 1 .. Len(t) : s[a + i] = t[i]
    PROVE  SubSeq(s, a + 1, a + Len(t)) = t
<1> DEFINE len == Len(t)
           u == SubSeq(s, a + 1, a + len)
<1>1. len \in Nat /\ Len(s) \in Nat /\ a + 1 \in Int /\ a + len \in Int
  OBVIOUS
<1>2. \A i \in a + 1 .. a + len : s[i] \in X
  <2>1. \A i \in a + 1 .. a + len : i \in 1 .. Len(s)
    BY <1>1
  <2> QED
    BY <2>1
<1>3. /\ u \in Seq(X) /\ Len(u) = (IF a + 1 <= a + len THEN a + len - (a + 1) + 1 ELSE 0)
      /\ \A i \in 1 .. a + len - (a + 1) + 1 : u[i] = s[a + 1 + i - 1]
  <2> HIDE DEF len
  <2> QED
    BY <1>1, <1>2, SubSeqProperties
<1> HIDE DEF len, u
<1>4. a + len - (a + 1) + 1 = len /\ (a + 1 <= a + len <=> len # 0)
  BY <1>1
<1>5. Len(u) = len
  BY <1>1, <1>3, <1>4
<1>6. \A i \in 1 .. len : u[i] = t[i]
  <2>1. \A i \in 1 .. len : a + 1 + i - 1 = a + i
    BY <1>1
  <2> QED
    BY <1>3, <1>4, <2>1 DEF len
<1> QED
  BY <1>3, <1>5, <1>6, SeqEqual DEF len, u

\* What the length a lead byte gives tells of it.
LEMMA LeadTells ==
    ASSUME NEW x \in Bytes
    PROVE  LET len == SequenceLength(x)
           IN  /\ len \in 0 .. 4
               /\ len = 1 => x < 128
               /\ len = 2 => x \div 32 = 6
               /\ len = 3 => x \div 16 = 14
               /\ len = 4 => x \div 8 = 30
<1>0. x \in Int /\ 0 <= x /\ x <= 255
  BY DEF Bytes
<1> QED
  BY <1>0 DEF SequenceLength

\* The bytes that encode writes, by their number; the code points decode puts together.
Bytes2(cp) == <<192 + (cp \div 64), 128 + (cp % 64)>>
Bytes3(cp) == <<224 + (cp \div 4096), 128 + ((cp \div 64) % 64), 128 + (cp % 64)>>
Bytes4(cp) ==
    <<240 + (cp \div 262144), 128 + ((cp \div 4096) % 64), 128 + ((cp \div 64) % 64), 128 + (cp % 64)>>

Joined2(a, b) == a * 64 + b
Joined3(a, b, c) == Joined2(a, b) * 64 + c
Joined4(a, b, c, d) == Joined3(a, b, c) * 64 + d

LEMMA EncodeIs ==
    ASSUME NEW cp \in Nat
    PROVE  /\ cp < 128 => Encode(cp) = <<cp>>
           /\ 128 <= cp /\ cp < 2048 => Encode(cp) = Bytes2(cp)
           /\ 2048 <= cp /\ cp < 65536 => Encode(cp) = Bytes3(cp)
           /\ 65536 <= cp => Encode(cp) = Bytes4(cp)
<1> DEFINE small == cp < 128
           two == 128 <= cp /\ cp < 2048
           three == 2048 <= cp /\ cp < 65536
<1>1. Encode(cp) = CASE small -> <<cp>> [] two -> Bytes2(cp) [] three -> Bytes3(cp) [] OTHER -> Bytes4(cp)
  BY DEF Encode, Bytes2, Bytes3, Bytes4
<1>2. /\ cp < 128 => small /\ ~two /\ ~three
      /\ 128 <= cp /\ cp < 2048 => ~small /\ two /\ ~three
      /\ 2048 <= cp /\ cp < 65536 => ~small /\ ~two /\ three
      /\ 65536 <= cp => ~small /\ ~two /\ ~three
  OBVIOUS
<1> HIDE DEF small, two, three
<1>3. small /\ ~two /\ ~three => Encode(cp) = <<cp>>
  BY <1>1
<1>4. ~small /\ two /\ ~three => Encode(cp) = Bytes2(cp)
  BY <1>1
<1>5. ~small /\ ~two /\ three => Encode(cp) = Bytes3(cp)
  BY <1>1
<1>6. ~small /\ ~two /\ ~three => Encode(cp) = Bytes4(cp)
  BY <1>1
<1> QED
  BY <1>2, <1>3, <1>4, <1>5, <1>6

\* The bytes from the first on.
LEMMA FirstBytes ==
    ASSUME NEW s \in Seq(Bytes)
    PROVE  /\ Len(s) >= 1 => SubSeq(s, 1, 1) = <<s[1]>>
           /\ Len(s) >= 2 => SubSeq(s, 1, 2) = <<s[1], s[2]>>
           /\ Len(s) >= 3 => SubSeq(s, 1, 3) = <<s[1], s[2], s[3]>>
           /\ Len(s) >= 4 => SubSeq(s, 1, 4) = <<s[1], s[2], s[3], s[4]>>
<1>0. Len(s) \in Nat /\ \A i \in 1 .. Len(s) : s[i] \in Bytes
  OBVIOUS
<1>1. Len(s) >= 1 => SubSeq(s, 1, 1) = <<s[1]>>
  <2> SUFFICES ASSUME Len(s) >= 1 PROVE SubSeq(s, 1, 1) = <<s[1]>>
    OBVIOUS
  <2> DEFINE t == <<s[1]>>
  <2>1. s[1] \in Bytes
    BY <1>0
  <2>2. t \in Seq(Bytes) /\ Len(t) = 1 /\ \A i \in 1 .. 1 : s[0 + i] = t[i]
    BY <2>1
  <2> HIDE DEF t
  <2>3. SubSeq(s, 0 + 1, 0 + Len(t)) = t
    BY <1>0, <2>2, SubSeqIs
  <2> QED
    BY <2>2, <2>3 DEF t
<1>2. Len(s) >= 2 => SubSeq(s, 1, 2) = <<s[1], s[2]>>
  <2> SUFFICES ASSUME Len(s) >= 2 PROVE SubSeq(s, 1, 2) = <<s[1], s[2]>>
    OBVIOUS
  <2> DEFINE t == <<s[1], s[2]>>
  <2>1. s[1] \in Bytes /\ s[2] \in Bytes
    BY <1>0
  <2>2. t \in Seq(Bytes) /\ Len(t) = 2 /\ \A i \in 1 .. 2 : s[0 + i] = t[i]
    BY <2>1
  <2> HIDE DEF t
  <2>3. SubSeq(s, 0 + 1, 0 + Len(t)) = t
    BY <1>0, <2>2, SubSeqIs
  <2> QED
    BY <2>2, <2>3 DEF t
<1>3. Len(s) >= 3 => SubSeq(s, 1, 3) = <<s[1], s[2], s[3]>>
  <2> SUFFICES ASSUME Len(s) >= 3 PROVE SubSeq(s, 1, 3) = <<s[1], s[2], s[3]>>
    OBVIOUS
  <2> DEFINE t == <<s[1], s[2], s[3]>>
  <2>1. s[1] \in Bytes /\ s[2] \in Bytes /\ s[3] \in Bytes
    BY <1>0
  <2>2. t \in Seq(Bytes) /\ Len(t) = 3 /\ \A i \in 1 .. 3 : s[0 + i] = t[i]
    BY <2>1
  <2> HIDE DEF t
  <2>3. SubSeq(s, 0 + 1, 0 + Len(t)) = t
    BY <1>0, <2>2, SubSeqIs
  <2> QED
    BY <2>2, <2>3 DEF t
<1>4. Len(s) >= 4 => SubSeq(s, 1, 4) = <<s[1], s[2], s[3], s[4]>>
  <2> SUFFICES ASSUME Len(s) >= 4 PROVE SubSeq(s, 1, 4) = <<s[1], s[2], s[3], s[4]>>
    OBVIOUS
  <2> DEFINE t == <<s[1], s[2], s[3], s[4]>>
  <2>1. s[1] \in Bytes /\ s[2] \in Bytes /\ s[3] \in Bytes /\ s[4] \in Bytes
    BY <1>0
  <2>2. t \in Seq(Bytes) /\ Len(t) = 4 /\ \A i \in 1 .. 4 : s[0 + i] = t[i]
    BY <2>1
  <2> HIDE DEF t
  <2>3. SubSeq(s, 0 + 1, 0 + Len(t)) = t
    BY <1>0, <2>2, SubSeqIs
  <2> QED
    BY <2>2, <2>3 DEF t
<1> QED
  BY <1>1, <1>2, <1>3, <1>4

\* The bits that a sequence spells, one byte after the other.
LEMMA PayloadIs ==
    ASSUME NEW s, NEW len \in 1 .. 4
    PROVE  LET v1 == s[1] % LeadBits[len]
               v2 == v1 * 64 + (s[2] % 64)
               v3 == v2 * 64 + (s[3] % 64)
               v4 == v3 * 64 + (s[4] % 64)
           IN  Payload(s, len) = CASE len = 1 -> v1 [] len = 2 -> v2 [] len = 3 -> v3 [] OTHER -> v4
<1> DEFINE v1 == s[1] % LeadBits[len]
           v2 == v1 * 64 + (s[2] % 64)
           v3 == v2 * 64 + (s[3] % 64)
           v4 == v3 * 64 + (s[4] % 64)
           body(f, i) == IF i = 1 THEN s[1] % LeadBits[len] ELSE f[i - 1] * 64 + (s[i] % 64)
           w == [i \in 1 .. len |-> CASE i = 1 -> v1 [] i = 2 -> v2 [] i = 3 -> v3 [] OTHER -> v4]
           g == CHOOSE f : f = [i \in 1 .. len |-> body(f, i)]
<1>1. \A i \in 1 .. len : w[i] = body(w, i)
  <2> TAKE i \in 1 .. len
  <2>1. i \in {1, 2, 3, 4}
    OBVIOUS
  <2>2. CASE i = 1
    BY <2>2
  <2>3. CASE i = 2
    <3>1. w[2 - 1] = v1
      OBVIOUS
    <3> QED
      BY <2>3, <3>1
  <2>4. CASE i = 3
    <3>1. w[3 - 1] = v2
      BY <2>4
    <3> QED
      BY <2>4, <3>1
  <2>5. CASE i = 4
    <3>1. w[4 - 1] = v3
      BY <2>5
    <3> QED
      BY <2>5, <3>1
  <2> QED
    BY <2>1, <2>2, <2>3, <2>4, <2>5
<1>2. w = [i \in 1 .. len |-> body(w, i)]
  <2>1. w = [i \in 1 .. len |-> w[i]]
    OBVIOUS
  <2> HIDE DEF w
  <2> QED
    BY <1>1, <2>1
<1>3. g = [i \in 1 .. len |-> body(g, i)]
  <2> HIDE DEF w
  <2> QED
    BY <1>2
<1>4. Payload(s, len) = g[len]
  BY DEF Payload
<1> HIDE DEF g, w
<1>5. \A i \in 1 .. len : g[i] = body(g, i)
  BY <1>3
<1>6. g[1] = v1
  BY <1>5
<1>7. len >= 2 => g[2] = v2
  <2> SUFFICES ASSUME len >= 2 PROVE g[2] = v2
    OBVIOUS
  <2>1. g[2] = g[2 - 1] * 64 + (s[2] % 64)
    BY <1>5
  <2> QED
    BY <1>6, <2>1
<1>8. len >= 3 => g[3] = v3
  <2> SUFFICES ASSUME len >= 3 PROVE g[3] = v3
    OBVIOUS
  <2>1. g[3] = g[3 - 1] * 64 + (s[3] % 64)
    BY <1>5
  <2> QED
    BY <1>7, <2>1
<1>9. len >= 4 => g[4] = v4
  <2> SUFFICES ASSUME len >= 4 PROVE g[4] = v4
    OBVIOUS
  <2>1. g[4] = g[4 - 1] * 64 + (s[4] % 64)
    BY <1>5
  <2> QED
    BY <1>8, <2>1
<1>10. len = 1 \/ len = 2 \/ len = 3 \/ len = 4
  OBVIOUS
<1> HIDE DEF v1, v2, v3, v4, body
<1>11. g[len] = CASE len = 1 -> v1 [] len = 2 -> v2 [] len = 3 -> v3 [] OTHER -> v4
  BY <1>6, <1>7, <1>8, <1>9, <1>10
<1> QED
  BY <1>4, <1>11 DEF v1, v2, v3, v4

\* What encode gives for what decode puts together.
Spelt2(a, b) ==
    128 <= Joined2(a, b) /\ Joined2(a, b) < 2048 => Encode(Joined2(a, b)) = <<192 + a, 128 + b>>
Spelt3(a, b, c) ==
    2048 <= Joined3(a, b, c) /\ Joined3(a, b, c) < 65536 =>
        Encode(Joined3(a, b, c)) = <<224 + a, 128 + b, 128 + c>>
Spelt4(a, b, c, d) ==
    65536 <= Joined4(a, b, c, d) => Encode(Joined4(a, b, c, d)) = <<240 + a, 128 + b, 128 + c, 128 + d>>

LEMMA SpeltInTwo ==
    ASSUME NEW a \in Nat, NEW b \in 0 .. 63
    PROVE  Spelt2(a, b)
<1> SUFFICES ASSUME 128 <= Joined2(a, b), Joined2(a, b) < 2048
             PROVE  Encode(Joined2(a, b)) = <<192 + a, 128 + b>>
  BY DEF Spelt2
<1> DEFINE cp == Joined2(a, b)
<1>1. cp \in Nat /\ cp \div 64 = a /\ cp % 64 = b
  BY DEF Joined2
<1>2. 128 <= cp /\ cp < 2048
  OBVIOUS
<1> HIDE DEF cp
<1>3. Encode(cp) = Bytes2(cp)
  BY <1>1, <1>2, EncodeIs
<1>4. Encode(cp) = <<192 + a, 128 + b>>
  BY <1>1, <1>3 DEF Bytes2
<1> QED
  BY <1>4 DEF cp

LEMMA SpeltInThree ==
    ASSUME NEW a \in Nat, NEW b \in 0 .. 63, NEW c \in 0 .. 63
    PROVE  Spelt3(a, b, c)
<1> SUFFICES ASSUME 2048 <= Joined3(a, b, c), Joined3(a, b, c) < 65536
             PROVE  Encode(Joined3(a, b, c)) = <<224 + a, 128 + b, 128 + c>>
  BY DEF Spelt3
<1> DEFINE q == Joined2(a, b)
           cp == Joined3(a, b, c)
<1>1. q \in Nat /\ q \div 64 = a /\ q % 64 = b
  BY DEF Joined2
<1>2. 2048 <= cp /\ cp < 65536
  OBVIOUS
<1>3. cp = q * 64 + c
  BY DEF Joined3
<1> HIDE DEF q, cp
<1>4. cp \in Nat /\ cp \div 64 = q /\ cp % 64 = c
  BY <1>1, <1>3
<1>5. cp \div 4096 = (cp \div 64) \div 64
  BY <1>4
<1>6. Encode(cp) = Bytes3(cp)
  BY <1>2, <1>4, EncodeIs
<1>7. Encode(cp) = <<224 + a, 128 + b, 128 + c>>
  BY <1>1, <1>4, <1>5, <1>6 DEF Bytes3
<1> QED
  BY <1>7 DEF cp

LEMMA SpeltInFour ==
    ASSUME NEW a \in Nat, NEW b \in 0 .. 63, NEW c \in 0 .. 63, NEW d \in 0 .. 63
    PROVE  Spelt4(a, b, c, d)
<1> SUFFICES ASSUME 65536 <= Joined4(a, b, c, d)
             PROVE  Encode(Joined4(a, b, c, d)) = <<240 + a, 128 + b, 128 + c, 128 + d>>
  BY DEF Spelt4
<1> DEFINE q == Joined2(a, b)
           p == Joined3(a, b, c)
           cp == Joined4(a, b, c, d)
<1>1. q \in Nat /\ q \div 64 = a /\ q % 64 = b
  BY DEF Joined2
<1>2. 65536 <= cp
  OBVIOUS
<1>3. p = q * 64 + c /\ cp = p * 64 + d
  BY DEF Joined3, Joined4
<1> HIDE DEF q, p, cp
<1>4. p \in Nat /\ p \div 64 = q /\ p % 64 = c
  BY <1>1, <1>3
<1>5. cp \in Nat /\ cp \div 64 = p /\ cp % 64 = d
  <2>1. p \in Nat /\ cp = p * 64 + d
    BY <1>3, <1>4
  <2> QED
    BY <2>1
<1>6. cp \div 4096 = (cp \div 64) \div 64
  BY <1>5
<1>7. cp \div 262144 = (cp \div 4096) \div 64
  BY <1>5
<1>8. Encode(cp) = Bytes4(cp)
  BY <1>2, <1>5, EncodeIs
<1>9. Encode(cp) = <<240 + a, 128 + b, 128 + c, 128 + d>>
  BY <1>1, <1>4, <1>5, <1>6, <1>7, <1>8 DEF Bytes4
<1> QED
  BY <1>9 DEF cp

\* The lead byte, from the bits it carries; a continuation byte, from its.
LEMMA LeadCarries ==
    ASSUME NEW x \in Bytes, NEW len \in 1 .. 4, len = SequenceLength(x)
    PROVE  LET a == x % LeadBits[len]
           IN  /\ a \in Nat
               /\ len = 1 => a = x /\ x < 128
               /\ len = 2 => x = 192 + a /\ a < 32
               /\ len = 3 => x = 224 + a /\ a < 16
               /\ len = 4 => x = 240 + a
<1>0. x \in Int /\ 0 <= x /\ x <= 255
  BY DEF Bytes
<1>1. CASE len = 1
  <2>1. x < 128
    BY <1>1, LeadTells
  <2>2. x % 128 = x
    BY <1>0, <2>1
  <2> QED
    BY <1>0, <1>1, <2>1, <2>2 DEF LeadBits
<1>2. CASE len = 2
  <2>1. x \div 32 = 6
    BY <1>2, LeadTells
  <2>2. x % 32 \in 0 .. 31 /\ x = 192 + (x % 32)
    BY <1>0, <2>1
  <2> QED
    BY <1>0, <1>2, <2>2 DEF LeadBits
<1>3. CASE len = 3
  <2>1. x \div 16 = 14
    BY <1>3, LeadTells
  <2>2. x % 16 \in 0 .. 15 /\ x = 224 + (x % 16)
    BY <1>0, <2>1
  <2> QED
    BY <1>0, <1>3, <2>2 DEF LeadBits
<1>4. CASE len = 4
  <2>1. x \div 8 = 30
    BY <1>4, LeadTells
  <2>2. x % 8 \in 0 .. 7 /\ x = 240 + (x % 8)
    BY <1>0, <2>1
  <2> QED
    BY <1>0, <1>4, <2>2 DEF LeadBits
<1>5. len = 1 \/ len = 2 \/ len = 3 \/ len = 4
  OBVIOUS
<1> QED
  BY <1>1, <1>2, <1>3, <1>4, <1>5

LEMMA ContinuationCarries ==
    ASSUME NEW x \in Bytes, x \div 64 = 2
    PROVE  x % 64 \in 0 .. 63 /\ x = 128 + (x % 64)
<1>0. x \in Int /\ 0 <= x /\ x <= 255
  BY DEF Bytes
<1> QED
  BY <1>0

\* decode accepts a character only in the bytes that encode gives for it: overlong forms are refused.
LEMMA DecodedIsEncoding ==
    ASSUME NEW s \in Seq(Bytes), s # <<>>, Decode(s).length # 0
    PROVE  Encode(Decode(s).codepoint) = SubSeq(s, 1, Decode(s).length)
<1> DEFINE len == SequenceLength(s[1])
           cp == Payload(s, len)
           a == s[1] % LeadBits[len]
           b == s[2] % 64
           c == s[3] % 64
           d == s[4] % 64
<1>1. Len(s) \in Nat /\ s[1] \in Bytes /\ \A i \in 1 .. Len(s) : s[i] \in Bytes
  OBVIOUS
<1>2. len \in 0 .. 4
  BY <1>1, LeadTells
<1>3. /\ Decode(s).length = len /\ Decode(s).codepoint = cp /\ len # 0 /\ len <= Len(s)
      /\ \A i \in 2 .. len : IsContinuation(s[i])
      /\ InRange(cp, len)
  BY DEF Decode
<1>4. len \in 1 .. 4
  BY <1>2, <1>3
<1>5. /\ a \in Nat
      /\ len = 1 => a = s[1] /\ s[1] < 128
      /\ len = 2 => s[1] = 192 + a /\ a < 32
      /\ len = 3 => s[1] = 224 + a /\ a < 16
      /\ len = 4 => s[1] = 240 + a
  <2> DEFINE x == s[1]
  <2> HIDE DEF x
  <2>1. x \in Bytes /\ len = SequenceLength(x) /\ a = x % LeadBits[len]
    BY <1>1 DEF x
  <2> HIDE DEF len, a
  <2>2. /\ x % LeadBits[len] \in Nat
        /\ len = 1 => x % LeadBits[len] = x /\ x < 128
        /\ len = 2 => x = 192 + (x % LeadBits[len]) /\ (x % LeadBits[len]) < 32
        /\ len = 3 => x = 224 + (x % LeadBits[len]) /\ (x % LeadBits[len]) < 16
        /\ len = 4 => x = 240 + (x % LeadBits[len])
    BY <1>4, <2>1, LeadCarries
  <2> QED
    BY <2>1, <2>2 DEF x
<1>6. cp = CASE len = 1 -> a
             [] len = 2 -> a * 64 + b
             [] len = 3 -> (a * 64 + b) * 64 + c
             [] OTHER -> ((a * 64 + b) * 64 + c) * 64 + d
  <2> HIDE DEF len
  <2> QED
    BY <1>4, PayloadIs
<1>7. cp >= kMinCodepoint[len]
  BY <1>3 DEF InRange
<1> HIDE DEF len, cp, a, b, c, d
<1>8. /\ len >= 2 => b \in 0 .. 63 /\ s[2] = 128 + b
      /\ len >= 3 => c \in 0 .. 63 /\ s[3] = 128 + c
      /\ len >= 4 => d \in 0 .. 63 /\ s[4] = 128 + d
  <2>1. \A i \in 2 .. len : s[i] % 64 \in 0 .. 63 /\ s[i] = 128 + (s[i] % 64)
    <3> TAKE i \in 2 .. len
    <3> DEFINE x == s[i]
    <3>1. x \in Bytes /\ x \div 64 = 2
      BY <1>1, <1>3, <1>4 DEF IsContinuation
    <3> HIDE DEF x
    <3>2. x % 64 \in 0 .. 63 /\ x = 128 + (x % 64)
      BY <3>1, ContinuationCarries
    <3> QED
      BY <3>2 DEF x
  <2>2. len >= 2 => s[2] % 64 \in 0 .. 63 /\ s[2] = 128 + (s[2] % 64)
    BY <1>4, <2>1
  <2>3. len >= 3 => s[3] % 64 \in 0 .. 63 /\ s[3] = 128 + (s[3] % 64)
    BY <1>4, <2>1
  <2>4. len >= 4 => s[4] % 64 \in 0 .. 63 /\ s[4] = 128 + (s[4] % 64)
    BY <1>4, <2>1
  <2> QED
    BY <2>2, <2>3, <2>4 DEF b, c, d
<1>9. CASE len = 1
  <2>1. cp = s[1] /\ s[1] < 128 /\ s[1] \in Nat
    BY <1>5, <1>6, <1>9
  <2>2. Encode(cp) = <<s[1]>>
    BY <2>1, EncodeIs
  <2>3. SubSeq(s, 1, 1) = <<s[1]>>
    BY <1>1, <1>3, <1>9, FirstBytes
  <2> QED
    BY <1>3, <1>9, <2>2, <2>3
<1>10. CASE len = 2
  <2>1. b \in 0 .. 63 /\ s[2] = 128 + b
    BY <1>8, <1>10
  <2>2. s[1] = 192 + a /\ a < 32 /\ a \in Nat
    BY <1>5, <1>10
  <2>3. cp = Joined2(a, b)
    BY <1>6, <1>10 DEF Joined2, Joined3, Joined4
  <2>4. 128 <= Joined2(a, b) /\ Joined2(a, b) < 2048
    BY <1>7, <1>10, <2>1, <2>2, <2>3 DEF kMinCodepoint, Joined2, Joined3, Joined4
  <2>5. Encode(Joined2(a, b)) = <<192 + a, 128 + b>>
    <3>1. Spelt2(a, b)
      BY <2>1, <2>2, SpeltInTwo
    <3> QED
      BY <2>4, <3>1 DEF Spelt2
  <2>6. SubSeq(s, 1, 2) = <<s[1], s[2]>>
    BY <1>1, <1>3, <1>10, FirstBytes
  <2> QED
    BY <1>3, <1>10, <2>1, <2>2, <2>3, <2>5, <2>6
<1>11. CASE len = 3
  <2>1. b \in 0 .. 63 /\ s[2] = 128 + b /\ c \in 0 .. 63 /\ s[3] = 128 + c
    BY <1>8, <1>11
  <2>2. s[1] = 224 + a /\ a < 16 /\ a \in Nat
    BY <1>5, <1>11
  <2>3. cp = Joined3(a, b, c)
    BY <1>6, <1>11 DEF Joined2, Joined3, Joined4
  <2>4. 2048 <= Joined3(a, b, c) /\ Joined3(a, b, c) < 65536
    BY <1>7, <1>11, <2>1, <2>2, <2>3 DEF kMinCodepoint, Joined2, Joined3, Joined4
  <2>5. Encode(Joined3(a, b, c)) = <<224 + a, 128 + b, 128 + c>>
    <3>1. a \in Nat /\ b \in 0 .. 63 /\ c \in 0 .. 63
      BY <2>1, <2>2
    <3>2. Spelt3(a, b, c)
      BY <3>1, SpeltInThree
    <3> QED
      BY <2>4, <3>2 DEF Spelt3
  <2>6. SubSeq(s, 1, 3) = <<s[1], s[2], s[3]>>
    BY <1>1, <1>3, <1>11, FirstBytes
  <2> QED
    BY <1>3, <1>11, <2>1, <2>2, <2>3, <2>5, <2>6
<1>12. CASE len = 4
  <2>1. b \in 0 .. 63 /\ s[2] = 128 + b /\ c \in 0 .. 63 /\ s[3] = 128 + c /\ d \in 0 .. 63 /\ s[4] = 128 + d
    BY <1>8, <1>12
  <2>2. s[1] = 240 + a /\ a \in Nat
    BY <1>5, <1>12
  <2>3. cp = Joined4(a, b, c, d)
    BY <1>6, <1>12 DEF Joined2, Joined3, Joined4
  <2>4. 65536 <= Joined4(a, b, c, d)
    BY <1>7, <1>12, <2>1, <2>2, <2>3 DEF kMinCodepoint, Joined2, Joined3, Joined4
  <2>5. Encode(Joined4(a, b, c, d)) = <<240 + a, 128 + b, 128 + c, 128 + d>>
    <3>1. a \in Nat /\ b \in 0 .. 63 /\ c \in 0 .. 63 /\ d \in 0 .. 63
      BY <2>1, <2>2
    <3>2. Spelt4(a, b, c, d)
      BY <3>1, SpeltInFour
    <3> QED
      BY <2>4, <3>2 DEF Spelt4
  <2>6. SubSeq(s, 1, 4) = <<s[1], s[2], s[3], s[4]>>
    BY <1>1, <1>3, <1>12, FirstBytes
  <2> QED
    BY <1>3, <1>12, <2>1, <2>2, <2>3, <2>5, <2>6
<1>13. len = 1 \/ len = 2 \/ len = 3 \/ len = 4
  BY <1>4
<1> QED
  BY <1>9, <1>10, <1>11, <1>12, <1>13

-----------------------------------------------------------------------------
(* What is cut into pieces is the pieces, one after the other *)

\* A sequence up to a, and on from there up to b.
LEMMA PiecesJoin ==
    ASSUME NEW X, NEW t \in Seq(X), NEW a \in Nat, NEW b \in Nat, a <= b, b <= Len(t)
    PROVE  /\ SubSeq(t, a + 1, b) \in Seq(X)
           /\ SubSeq(t, 1, a) \o SubSeq(t, a + 1, b) = SubSeq(t, 1, b)
<1> DEFINE u == SubSeq(t, 1, a)
           v == SubSeq(t, a + 1, b)
           w == u \o v
<1>0. Len(t) \in Nat /\ \A i \in 1 .. Len(t) : t[i] \in X
  OBVIOUS
<1>1. u \in Seq(X) /\ Len(u) = a /\ \A i \in 1 .. a : u[i] = t[i]
  <2>1. \A i \in 1 .. a : t[i] \in X
    BY <1>0
  <2>2. u \in Seq(X) /\ Len(u) = (IF 1 <= a THEN a - 1 + 1 ELSE 0) /\ \A i \in 1 .. a - 1 + 1 : u[i] = t[1 + i - 1]
    BY <2>1, SubSeqProperties
  <2> HIDE DEF u
  <2>3. (IF 1 <= a THEN a - 1 + 1 ELSE 0) = a /\ a - 1 + 1 = a
    OBVIOUS
  <2>4. \A i \in 1 .. a : 1 + i - 1 = i
    OBVIOUS
  <2> QED
    BY <2>2, <2>3, <2>4
<1>2. v \in Seq(X) /\ Len(v) = b - a /\ \A i \in 1 .. b - a : v[i] = t[a + i]
  <2>1. \A i \in a + 1 .. b : t[i] \in X
    BY <1>0
  <2>2. /\ v \in Seq(X) /\ Len(v) = (IF a + 1 <= b THEN b - (a + 1) + 1 ELSE 0)
        /\ \A i \in 1 .. b - (a + 1) + 1 : v[i] = t[a + 1 + i - 1]
    BY <2>1, SubSeqProperties
  <2> HIDE DEF v
  <2>3. (IF a + 1 <= b THEN b - (a + 1) + 1 ELSE 0) = b - a /\ b - (a + 1) + 1 = b - a
    OBVIOUS
  <2>4. \A i \in 1 .. b - a : a + 1 + i - 1 = a + i
    OBVIOUS
  <2> QED
    BY <2>2, <2>3, <2>4
<1> HIDE DEF u, v
<1>3. /\ w \in Seq(X) /\ Len(w) = Len(u) + Len(v)
      /\ \A k \in 1 .. Len(u) + Len(v) : w[k] = IF k <= Len(u) THEN u[k] ELSE v[k - Len(u)]
  BY <1>1, <1>2, ConcatProperties
<1> HIDE DEF w
<1>4. Len(w) = b /\ \A k \in 1 .. b : w[k] = IF k <= a THEN u[k] ELSE v[k - a]
  BY <1>1, <1>2, <1>3
<1>5. \A k \in 1 .. Len(w) : t[0 + k] = w[k]
  <2> TAKE k \in 1 .. Len(w)
  <2>1. CASE k <= a
    BY <1>1, <1>4, <2>1
  <2>2. CASE k > a
    <3>1. k - a \in 1 .. b - a /\ a + (k - a) = k
      BY <1>4, <2>2
    <3> QED
      BY <1>2, <1>4, <2>2, <3>1
  <2> QED
    BY <1>4, <2>1, <2>2
<1>6. SubSeq(t, 0 + 1, 0 + Len(w)) = w
  <2>1. w \in Seq(X) /\ 0 + Len(w) <= Len(t)
    BY <1>0, <1>3, <1>4
  <2> QED
    BY <1>5, <2>1, SubSeqIs
<1>7. SubSeq(t, 1, b) = w
  BY <1>4, <1>6
<1> QED
  BY <1>2, <1>7 DEF u, v, w

\* o is where the pieces end: they leave nothing of t out.
LEMMA PiecesCover ==
    ASSUME NEW X, NEW t \in Seq(X), NEW n \in Nat, NEW o, NEW pieces,
           \A k \in 0 .. n : o[k] \in Nat,
           o[0] = 0, o[n] = Len(t),
           \A k \in 1 .. n : o[k - 1] <= o[k],
           \A k \in 0 .. n : o[k] <= Len(t),
           pieces = [k \in 1 .. n |-> SubSeq(t, o[k - 1] + 1, o[k])]
    PROVE  FlattenSeq(pieces) = t
<1> DEFINE f == CHOOSE g : g = [i \in 1 .. n |-> IF i = 1 THEN pieces[i] ELSE g[i - 1] \o pieces[i]]
<1>1. Len(pieces) = n /\ Len(t) \in Nat
  <2> DEFINE R == {SubSeq(t, o[j - 1] + 1, o[j]) : j \in 1 .. n}
  <2>1. \A k \in 1 .. n : SubSeq(t, o[k - 1] + 1, o[k]) \in R
    OBVIOUS
  <2> HIDE DEF R
  <2>2. pieces \in Seq(R)
    BY <2>1
  <2>3. DOMAIN pieces = 1 .. n /\ DOMAIN pieces = 1 .. Len(pieces) /\ Len(pieces) \in Nat
    BY <2>2
  <2> QED
    BY <2>3
<1>2. \A k \in 1 .. n : pieces[k] = SubSeq(t, o[k - 1] + 1, o[k])
  OBVIOUS
<1>3. CASE n = 0
  <2>1. t = <<>>
    BY <1>3
  <2>2. pieces = <<>>
    BY <1>3
  <2>3. FlattenSeq(pieces) = pieces
    BY <1>1, <1>3 DEF FlattenSeq
  <2> QED
    BY <2>1, <2>2, <2>3
<1>4. CASE n # 0
  <2>1. FlattenSeq(pieces) = f[n]
    BY <1>1, <1>4 DEF FlattenSeq
  <2>2. f = [i \in 1 .. n |-> IF i = 1 THEN pieces[i] ELSE f[i - 1] \o pieces[i]]
    <3>1. \E g : g = [i \in 1 .. n |-> IF i = 1 THEN pieces[i] ELSE g[i - 1] \o pieces[i]]
      <4>1. \E g : Flattens(pieces, n, g)
        BY FlattensExists, Zenon
      <4> QED
        BY <4>1, Zenon DEF Flattens
    <3> QED
      BY <3>1, Zenon
  <2> HIDE DEF f
  <2>3. \A i \in 1 .. n : f[i] = IF i = 1 THEN pieces[i] ELSE f[i - 1] \o pieces[i]
    BY <2>2
  <2> DEFINE T == {k \in Nat : k + 1 \in 1 .. n => f[k + 1] = SubSeq(t, 1, o[k + 1])}
  <2>4. 0 \in T
    <3>1. 1 \in 1 .. n /\ 1 - 1 = 0 /\ 0 + 1 = 1
      BY <1>4
    <3>2. f[1] = SubSeq(t, o[0] + 1, o[1])
      BY <1>2, <2>3, <3>1
    <3>3. f[1] = SubSeq(t, 1, o[1])
      BY <3>2
    <3> QED
      BY <3>3
  <2>5. ASSUME NEW k \in T PROVE k + 1 \in T
    <3> SUFFICES ASSUME k + 2 \in 1 .. n PROVE f[k + 2] = SubSeq(t, 1, o[k + 2])
      OBVIOUS
    <3>1. k \in Nat /\ k + 1 \in 1 .. n /\ k + 1 \in 0 .. n /\ k + 2 \in 0 .. n /\ (k + 2) - 1 = k + 1 /\ k + 2 # 1
      OBVIOUS
    <3>2. f[k + 1] = SubSeq(t, 1, o[k + 1])
      BY <3>1
    <3>3. f[k + 2] = f[k + 1] \o pieces[k + 2]
      BY <2>3, <3>1
    <3>4. pieces[k + 2] = SubSeq(t, o[k + 1] + 1, o[k + 2])
      BY <1>2, <3>1
    <3>5. o[k + 1] \in Nat /\ o[k + 2] \in Nat /\ o[k + 1] <= o[k + 2] /\ o[k + 2] <= Len(t)
      BY <3>1
    <3>6. SubSeq(t, 1, o[k + 1]) \o SubSeq(t, o[k + 1] + 1, o[k + 2]) = SubSeq(t, 1, o[k + 2])
      BY <3>5, PiecesJoin
    <3> QED
      BY <3>2, <3>3, <3>4, <3>6
  <2> HIDE DEF T
  <2>6. T = Nat
    <3>1. T \subseteq Nat
      BY DEF T
    <3> QED
      BY <2>4, <2>5, <3>1, Induct
  <2>7. n - 1 \in T /\ (n - 1) + 1 = n /\ n \in 1 .. n
    BY <1>4, <2>6
  <2>8. f[n] = SubSeq(t, 1, o[n])
    BY <2>7 DEF T
  <2>9. SubSeq(t, 0 + 1, 0 + Len(t)) = t
    <3>1. \A i \in 1 .. Len(t) : t[0 + i] = t[i]
      OBVIOUS
    <3> QED
      BY <1>1, <3>1, SubSeqIs
  <2>10. f[n] = t
    BY <1>1, <2>8, <2>9
  <2> QED
    BY <2>1, <2>10
<1> QED
  BY <1>3, <1>4

-----------------------------------------------------------------------------
(* The cuts of a sentence *)

\* How many cuts there are up to character k, the character of cut r, and the cut before k.
UpTo(S, k) == Cardinality({c \in S : c <= k})
Nth(S, r) == CHOOSE k \in S : Cardinality({c \in S : c <= k}) = r
Before(S, k) == IF \E c \in S : c < k THEN Max({c \in S : c < k}) ELSE 0

LEMMA UpToBounds ==
    ASSUME NEW n \in Nat, NEW S \in SUBSET (1 .. n)
    PROVE  /\ IsFiniteSet(S) /\ Cardinality(S) \in Nat
           /\ \A k : UpTo(S, k) \in Nat /\ IsFiniteSet({c \in S : c <= k})
           /\ UpTo(S, 0) = 0 /\ UpTo(S, n) = Cardinality(S)
<1>1. IsFiniteSet(1 .. n)
  BY FS_Interval
<1>2. IsFiniteSet(S)
  BY <1>1, FS_Subset
<1>3. ASSUME NEW k
      PROVE  UpTo(S, k) \in Nat /\ IsFiniteSet({c \in S : c <= k})
  <2>1. {c \in S : c <= k} \in SUBSET S
    OBVIOUS
  <2> QED
    BY <1>2, <2>1, FS_Subset, FS_CardinalityType DEF UpTo
<1>4. {c \in S : c <= 0} = {} /\ {c \in S : c <= n} = S
  <2>1. \A c \in S : c \in Int /\ ~ (c <= 0) /\ c <= n
    OBVIOUS
  <2> QED
    BY <2>1
<1>5. UpTo(S, 0) = 0 /\ UpTo(S, n) = Cardinality(S)
  BY <1>4, FS_EmptySet DEF UpTo
<1> QED
  BY <1>2, <1>3, <1>5, FS_CardinalityType

\* One more, if there is a cut.
LEMMA UpToNext ==
    ASSUME NEW n \in Nat, NEW S \in SUBSET (1 .. n), NEW k \in Int
    PROVE  UpTo(S, k) = IF k \in S THEN UpTo(S, k - 1) + 1 ELSE UpTo(S, k - 1)
<1> DEFINE below == {c \in S : c <= k - 1}
<1>0. \A c \in S : c <= k <=> c <= k - 1 \/ c = k
  <2>1. \A c \in S : c \in Int
    OBVIOUS
  <2> QED
    BY <2>1
<1>1. IsFiniteSet(below)
  BY UpToBounds
<1>2. CASE k \in S
  <2>1. {c \in S : c <= k} = below \union {k} /\ k \notin below
    <3>1. k \notin below
      OBVIOUS
    <3>2. \A c : c \in S /\ c <= k <=> c \in below \union {k}
      BY <1>0, <1>2
    <3> QED
      BY <3>1, <3>2, Zenon
  <2> HIDE DEF below
  <2>2. Cardinality(below \union {k}) = Cardinality(below) + 1
    BY <1>1, <2>1, FS_AddElement
  <2> QED
    BY <1>2, <2>1, <2>2 DEF UpTo, below
<1>3. CASE k \notin S
  <2>1. {c \in S : c <= k} = below
    BY <1>0, <1>3
  <2> QED
    BY <1>3, <2>1 DEF UpTo
<1> QED
  BY <1>2, <1>3

LEMMA UpToGrows ==
    ASSUME NEW n \in Nat, NEW S \in SUBSET (1 .. n), NEW a \in Int, NEW b \in S, a < b
    PROVE  UpTo(S, a) < UpTo(S, b)
<1>0. b \in Int
  OBVIOUS
<1>1. UpTo(S, b) = UpTo(S, b - 1) + 1
  BY <1>0, UpToNext
<1>2. \A c \in S : c <= a => c <= b - 1
  <2>1. \A c \in S : c \in Int
    OBVIOUS
  <2> QED
    BY <1>0, <2>1
<1>3. {c \in S : c <= a} \in SUBSET {c \in S : c <= b - 1}
  BY <1>2, Zenon
<1>4. IsFiniteSet({c \in S : c <= b - 1})
  BY UpToBounds
<1>5. UpTo(S, a) <= UpTo(S, b - 1)
  BY <1>3, <1>4, FS_Subset DEF UpTo
<1>6. UpTo(S, a) \in Nat /\ UpTo(S, b - 1) \in Nat
  BY UpToBounds
<1> QED
  BY <1>1, <1>5, <1>6

\* There is a cut of every number.
LEMMA NthIs ==
    ASSUME NEW n \in Nat, NEW S \in SUBSET (1 .. n), NEW r \in 1 .. Cardinality(S)
    PROVE  Nth(S, r) \in S /\ UpTo(S, Nth(S, r)) = r
<1> DEFINE T == {k \in Nat : r <= UpTo(S, k)}
<1>1. Cardinality(S) \in Nat /\ UpTo(S, 0) = 0 /\ UpTo(S, n) = Cardinality(S) /\ \A k : UpTo(S, k) \in Nat
  BY UpToBounds
<1>2. n \in T
  BY <1>1
<1>3. PICK k \in T : \A d \in T : k <= d
  BY <1>2, LeastNat
<1>4. k \in Nat /\ r <= UpTo(S, k) /\ k # 0
  BY <1>1
<1>5. UpTo(S, k - 1) < r
  <2>1. k - 1 \in Nat /\ k - 1 \notin T
    BY <1>3, <1>4
  <2> QED
    BY <1>1, <2>1
<1>6. UpTo(S, k) = IF k \in S THEN UpTo(S, k - 1) + 1 ELSE UpTo(S, k - 1)
  <2>1. k \in Int
    BY <1>4
  <2> HIDE DEF T
  <2> QED
    BY <2>1, UpToNext
<1>7. k \in S /\ UpTo(S, k) = r
  BY <1>1, <1>4, <1>5, <1>6
<1>8. \E c \in S : Cardinality({d \in S : d <= c}) = r
  BY <1>7 DEF UpTo
<1>9. Nth(S, r) \in S /\ Cardinality({d \in S : d <= Nth(S, r)}) = r
  BY <1>8 DEF Nth
<1> QED
  BY <1>9 DEF UpTo

LEMMA NthOf ==
    ASSUME NEW n \in Nat, NEW S \in SUBSET (1 .. n), NEW k \in S
    PROVE  UpTo(S, k) \in 1 .. Cardinality(S) /\ Nth(S, UpTo(S, k)) = k
<1> DEFINE r == UpTo(S, k)
           m == Nth(S, r)
<1>0. k \in Int /\ 0 < k /\ k <= n /\ n \in Int
  OBVIOUS
<1>1. Cardinality(S) \in Nat /\ UpTo(S, 0) = 0 /\ UpTo(S, n) = Cardinality(S) /\ \A c : UpTo(S, c) \in Nat
  BY UpToBounds
<1>2. UpTo(S, 0) < r
  BY <1>0, UpToGrows
<1>3. r <= Cardinality(S)
  <2>1. {c \in S : c <= k} \in SUBSET S /\ IsFiniteSet(S)
    BY UpToBounds
  <2> QED
    BY <2>1, FS_Subset DEF UpTo
<1>4. r \in 1 .. Cardinality(S)
  BY <1>1, <1>2, <1>3
<1> HIDE DEF r
<1>5. m \in S /\ UpTo(S, m) = r
  BY <1>4, NthIs
<1> HIDE DEF m
<1>6. m \in Int
  BY <1>5
<1>7. m < k => UpTo(S, m) < UpTo(S, k)
  BY <1>6, UpToGrows
<1>8. k < m => UpTo(S, k) < UpTo(S, m)
  BY <1>0, <1>5, UpToGrows
<1>9. ~ (m < k) /\ ~ (k < m)
  BY <1>1, <1>5, <1>7, <1>8 DEF r
<1>10. m = k
  BY <1>0, <1>6, <1>9
<1> QED
  BY <1>4, <1>10 DEF m, r

LEMMA MaxIs ==
    ASSUME NEW n \in Nat, NEW S \in SUBSET (1 .. n), S # {}
    PROVE  Max(S) \in S /\ \A c \in S : c <= Max(S)
<1> DEFINE T == {n - c : c \in S}
<1>0. \A c \in S : c \in Int /\ c <= n
  OBVIOUS
<1>1. T \subseteq Nat /\ T # {}
  <2>1. \A c \in S : n - c \in Nat
    BY <1>0
  <2>2. PICK x \in S : TRUE
    OBVIOUS
  <2>3. n - x \in T
    BY <2>2
  <2> QED
    BY <2>1, <2>3
<1>2. PICK d \in T : \A e \in T : d <= e
  <2> HIDE DEF T
  <2> QED
    BY <1>1, LeastNat
<1>3. PICK x \in S : d = n - x
  OBVIOUS
<1>4. \A c \in S : x >= c
  <2> TAKE c \in S
  <2>1. n - c \in T
    OBVIOUS
  <2>2. n - x <= n - c
    BY <1>2, <1>3, <2>1
  <2> QED
    BY <1>0, <2>2
<1>5. Max(S) \in S /\ \A c \in S : Max(S) >= c
  BY <1>4 DEF Max
<1>6. \A c \in S : c <= Max(S)
  BY <1>0, <1>5
<1> QED
  BY <1>5, <1>6

\* Before cut r is cut r - 1, or the beginning of the text.
LEMMA BeforeNth ==
    ASSUME NEW n \in Nat, NEW S \in SUBSET (1 .. n), NEW r \in 1 .. Cardinality(S)
    PROVE  Before(S, Nth(S, r)) = IF r = 1 THEN 0 ELSE Nth(S, r - 1)
<1> DEFINE k == Nth(S, r)
           below == {c \in S : c < k}
<1>1. k \in S /\ UpTo(S, k) = r
  BY NthIs
<1> HIDE DEF k
<1>2. k \in Int /\ \A c \in S : c \in Int
  BY <1>1
<1>3. {c \in S : c <= k - 1} = below
  <2>1. \A c \in S : c <= k - 1 <=> c < k
    BY <1>2
  <2> QED
    BY <2>1, Zenon
<1>4. UpTo(S, k - 1) = r - 1 /\ IsFiniteSet(below)
  <2>1. UpTo(S, k) = UpTo(S, k - 1) + 1
    BY <1>1, <1>2, UpToNext
  <2>2. UpTo(S, k - 1) \in Nat /\ IsFiniteSet({c \in S : c <= k - 1})
    BY UpToBounds
  <2> QED
    BY <1>1, <1>3, <2>1, <2>2
<1>5. Cardinality(below) = r - 1
  BY <1>3, <1>4 DEF UpTo
<1> HIDE DEF below
<1>6. CASE r = 1
  <2>1. below = {}
    BY <1>4, <1>5, <1>6, FS_EmptySet
  <2>2. ~ \E c \in S : c < k
    BY <2>1 DEF below
  <2> QED
    BY <1>6, <2>2 DEF Before, k
<1>7. CASE r # 1
  <2>1. below # {}
    BY <1>5, <1>7, FS_EmptySet
  <2>2. Before(S, k) = Max(below)
    <3>1. \E c \in S : c < k
      BY <2>1 DEF below
    <3> QED
      BY <3>1 DEF Before, below
  <2>3. below \in SUBSET (1 .. n)
    BY DEF below
  <2> DEFINE b == Max(below)
  <2>4. b \in below /\ \A c \in below : c <= b
    BY <2>1, <2>3, MaxIs
  <2> HIDE DEF b
  <2>5. b \in S /\ b < k /\ b \in Int
    BY <1>2, <2>4 DEF below
  <2>6. {c \in S : c <= b} = below
    <3>1. \A c \in S : c <= b => c < k
      BY <1>2, <2>5
    <3>2. \A c \in S : c < k => c <= b
      BY <2>4 DEF below
    <3> QED
      BY <3>1, <3>2, Zenon DEF below
  <2>7. UpTo(S, b) = r - 1
    BY <1>5, <2>6 DEF UpTo
  <2>8. Nth(S, r - 1) = b
    BY <2>5, <2>7, NthOf
  <2> QED
    BY <1>7, <2>2, <2>8 DEF b, k
<1> QED
  BY <1>6, <1>7

-----------------------------------------------------------------------------
(* The characters of a text that decodes, and where they begin *)

\* Where character k + 1 of t begins, or where t ends.
OffsetAt(t, k) == LET c == Characters(t) IN IF k = Len(c) THEN Len(t) ELSE c[k + 1].at

LEMMA CharactersAre ==
    ASSUME NEW t \in Seq(Bytes), Decodes(t)
    PROVE  LET c == Characters(t)
           IN  /\ Len(c) \in Nat /\ DOMAIN c = 1 .. Len(c)
               /\ \A k \in 1 .. Len(c) :
                     /\ c[k].at \in Nat /\ c[k].length \in 1 .. 4
                     /\ c[k].at + c[k].length <= Len(t)
                     /\ OffsetAt(t, k) = c[k].at + c[k].length
                     /\ Encode(c[k].codepoint) = SubSeq(t, c[k].at + 1, c[k].at + c[k].length)
               /\ OffsetAt(t, 0) = 0
<1> DEFINE c == Characters(t)
           n == Len(c)
<1>1. Chained(t, 1, c)
  BY CharactersChained
<1>2. \A k \in DOMAIN c : c[k].length > 0
  BY DEF Decodes
<1> HIDE DEF c
<1>3. c \in Seq(CharsOf(t)) /\ n \in Nat /\ DOMAIN c = 1 .. n /\ Len(t) \in Nat /\ (c = <<>> <=> n = 0)
  BY <1>1 DEF Chained
<1> HIDE DEF n
<1>4. ASSUME NEW k \in 1 .. n
      PROVE  /\ c[k].at \in Nat /\ c[k].length \in 1 .. 4 /\ c[k].at + c[k].length <= Len(t)
             /\ Encode(c[k].codepoint) = SubSeq(t, c[k].at + 1, c[k].at + c[k].length)
  <2>1. PICK p \in 1 .. Len(t) : c[k] = Char(t, p)
    BY <1>3 DEF CharsOf
  <2>2. /\ c[k].at = p - 1 /\ c[k].length = Decode(SubSeq(t, p, Len(t))).length
        /\ c[k].codepoint = Decode(SubSeq(t, p, Len(t))).codepoint
        /\ c[k].length \in 0 .. 4 /\ p + c[k].length <= Len(t) + 1
    BY <2>1, CharFields
  <2>3. c[k].length \in 1 .. 4
    BY <1>2, <1>3, <2>2
  <2> DEFINE rest == SubSeq(t, p, Len(t))
             len == c[k].length
  <2>4. rest \in Seq(Bytes) /\ Len(rest) = Len(t) - p + 1 /\ \A i \in 1 .. Len(rest) : rest[i] = t[p + i - 1]
    <3>1. p \in Int /\ Len(t) \in Int /\ p <= Len(t) /\ \A i \in p .. Len(t) : t[i] \in Bytes
      <4>1. p \in Int /\ Len(t) \in Int /\ p <= Len(t)
        BY <1>3
      <4>2. \A i \in p .. Len(t) : i \in 1 .. Len(t)
        BY <1>3
      <4> QED
        BY <4>1, <4>2
    <3>2. /\ rest \in Seq(Bytes) /\ Len(rest) = (IF p <= Len(t) THEN Len(t) - p + 1 ELSE 0)
          /\ \A i \in 1 .. Len(t) - p + 1 : rest[i] = t[p + i - 1]
      BY <3>1, SubSeqProperties
    <3> HIDE DEF rest
    <3> QED
      BY <3>1, <3>2
  <2> HIDE DEF rest, len
  <2>5. rest # <<>> /\ Decode(rest).length # 0
    <3>1. Decode(rest).length # 0
      BY <2>2, <2>3 DEF rest
    <3>2. Len(rest) # 0
      BY <1>3, <2>4
    <3>3. Len(<<>>) = 0
      OBVIOUS
    <3> QED
      BY <3>1, <3>2, <3>3
  <2>6. Encode(c[k].codepoint) = SubSeq(rest, 1, len)
    BY <2>2, <2>4, <2>5, DecodedIsEncoding DEF rest, len
  <2>7. len \in Nat /\ len <= Len(rest) /\ len \in 1 .. 4 /\ p + len <= Len(t) + 1
    BY <1>3, <2>2, <2>3, <2>4 DEF len
  <2>8. SubSeq(rest, 1, len) = SubSeq(t, (p - 1) + 1, (p - 1) + len)
    <3> DEFINE u == SubSeq(rest, 1, len)
    <3>1. \A i \in 1 .. len : rest[i] \in Bytes
      BY <2>4, <2>7
    <3>2. /\ u \in Seq(Bytes) /\ Len(u) = (IF 1 <= len THEN len - 1 + 1 ELSE 0)
          /\ \A i \in 1 .. len - 1 + 1 : u[i] = rest[1 + i - 1]
      BY <2>7, <3>1, SubSeqProperties
    <3> HIDE DEF u
    <3>3. Len(u) = len
      BY <2>7, <3>2
    <3>4. \A i \in 1 .. Len(u) : t[(p - 1) + i] = u[i]
      <4> TAKE i \in 1 .. Len(u)
      <4>1. i \in 1 .. len /\ 1 + i - 1 = i /\ i \in 1 .. len - 1 + 1 /\ i \in 1 .. Len(rest) /\ p + i - 1 = (p - 1) + i
        BY <2>7, <3>3
      <4> QED
        BY <2>4, <3>2, <4>1
    <3>5. p - 1 \in Nat /\ (p - 1) + Len(u) <= Len(t)
      BY <1>3, <2>7, <3>3
    <3>6. SubSeq(t, (p - 1) + 1, (p - 1) + Len(u)) = u
      BY <3>2, <3>4, <3>5, SubSeqIs
    <3> QED
      BY <3>3, <3>6 DEF u
  <2>9. Encode(c[k].codepoint) = SubSeq(t, c[k].at + 1, c[k].at + c[k].length)
    BY <2>2, <2>6, <2>8 DEF len
  <2>10. c[k].at \in Nat /\ c[k].at + c[k].length <= Len(t)
    BY <1>3, <2>2, <2>3
  <2> QED
    BY <2>3, <2>9, <2>10
<1>5. ASSUME NEW k \in 1 .. n
      PROVE  OffsetAt(t, k) = c[k].at + c[k].length
  <2>1. CASE k = n
    <3>1. c # <<>>
      BY <1>3, <2>1
    <3>2. c[n].length = 0 \/ c[n].at + c[n].length = Len(t)
      BY <1>1, <3>1 DEF Chained, n
    <3>3. c[k].length \in 1 .. 4
      BY <1>4
    <3>4. c[n].at + c[n].length = Len(t)
      BY <2>1, <3>2, <3>3
    <3> QED
      BY <2>1, <3>4 DEF OffsetAt, c, n
  <2>2. CASE k # n
    <3>1. k \in 1 .. n - 1 /\ k + 1 \in 1 .. n
      BY <1>3, <2>2
    <3>2. c[k + 1] = Char(t, c[k].at + c[k].length + 1) /\ c[k].at + c[k].length < Len(t)
      BY <1>1, <3>1 DEF Chained, n
    <3> DEFINE p == c[k].at + c[k].length + 1
    <3>3. p \in 1 .. Len(t) /\ p - 1 = c[k].at + c[k].length
      <4> DEFINE q == c[k].at + c[k].length
      <4>1. c[k].at \in Nat /\ c[k].length \in 1 .. 4
        BY <1>4
      <4>2. q \in Nat /\ q < Len(t) /\ Len(t) \in Nat
        BY <1>3, <3>2, <4>1
      <4> HIDE DEF q
      <4>3. q + 1 \in 1 .. Len(t) /\ (q + 1) - 1 = q
        BY <4>2
      <4> QED
        BY <4>3 DEF q
    <3>4. Char(t, p).at = p - 1
      BY <3>3, CharFields
    <3>5. c[k + 1].at = c[k].at + c[k].length
      BY <3>2, <3>3, <3>4
    <3> QED
      BY <2>2, <3>5 DEF OffsetAt, c, n
  <2> QED
    BY <2>1, <2>2
<1>6. OffsetAt(t, 0) = 0
  <2>1. CASE n = 0
    <3>1. 1 > Len(t)
      BY <1>1, <1>3, <2>1 DEF Chained
    <3>2. Len(t) = 0
      BY <1>3, <3>1
    <3> QED
      BY <2>1, <3>2 DEF OffsetAt, c, n
  <2>2. CASE n # 0
    <3>1. c[1] = Char(t, 1) /\ ~ (1 > Len(t))
      BY <1>1, <1>3, <2>2 DEF Chained
    <3>2. 1 \in 1 .. Len(t)
      BY <1>3, <3>1
    <3>3. Char(t, 1).at = 1 - 1
      BY <3>2, CharFields
    <3>4. c[0 + 1].at = 0
      BY <3>1, <3>3
    <3> QED
      BY <2>2, <3>4 DEF OffsetAt, c, n
  <2> QED
    BY <2>1, <2>2
<1> QED
  BY <1>3, <1>4, <1>5, <1>6 DEF c, n

\* The offsets: from 0 to the end of the text, each past the one before.
LEMMA OffsetsGrow ==
    ASSUME NEW t \in Seq(Bytes), Decodes(t)
    PROVE  LET n == Len(Characters(t))
           IN  /\ n \in Nat /\ OffsetAt(t, 0) = 0 /\ OffsetAt(t, n) = Len(t)
               /\ \A k \in 0 .. n : OffsetAt(t, k) \in Nat
               /\ \A j, k \in 0 .. n : j < k => OffsetAt(t, j) < OffsetAt(t, k)
               /\ \A k \in 0 .. n : OffsetAt(t, k) <= Len(t)
               /\ \A k \in 1 .. n : Characters(t)[k].at = OffsetAt(t, k - 1)
<1> DEFINE c == Characters(t)
           n == Len(c)
<1>1. /\ n \in Nat /\ OffsetAt(t, 0) = 0 /\ Len(t) \in Nat
      /\ \A k \in 1 .. n : /\ c[k].at \in Nat /\ c[k].length \in 1 .. 4
                           /\ c[k].at + c[k].length <= Len(t)
                           /\ OffsetAt(t, k) = c[k].at + c[k].length
  BY CharactersAre
<1>2. OffsetAt(t, n) = Len(t)
  BY DEF OffsetAt
<1>3. \A k \in 1 .. n : c[k].at = OffsetAt(t, k - 1)
  <2> TAKE k \in 1 .. n
  <2>1. k - 1 # n /\ (k - 1) + 1 = k
    BY <1>1
  <2> QED
    BY <2>1 DEF OffsetAt
<1> HIDE DEF c, n
<1>4. \A k \in 0 .. n : OffsetAt(t, k) \in Nat /\ OffsetAt(t, k) <= Len(t)
  <2> TAKE k \in 0 .. n
  <2>1. CASE k = 0
    BY <1>1, <2>1
  <2>2. CASE k # 0
    <3>1. k \in 1 .. n
      BY <1>1, <2>2
    <3> QED
      BY <1>1, <3>1
  <2> QED
    BY <2>1, <2>2
<1>5. \A k \in 1 .. n : OffsetAt(t, k - 1) < OffsetAt(t, k)
  <2> TAKE k \in 1 .. n
  <2>1. c[k].at \in Nat /\ c[k].length \in 1 .. 4 /\ OffsetAt(t, k) = c[k].at + c[k].length
    BY <1>1
  <2>2. c[k].at = OffsetAt(t, k - 1)
    BY <1>3
  <2> QED
    BY <2>1, <2>2
<1> DEFINE T == {m \in Nat : \A j \in 0 .. n : j + m + 1 \in 0 .. n => OffsetAt(t, j) < OffsetAt(t, j + m + 1)}
<1>6. 0 \in T
  <2> SUFFICES ASSUME NEW j \in 0 .. n, j + 0 + 1 \in 0 .. n
               PROVE  OffsetAt(t, j) < OffsetAt(t, j + 0 + 1)
    OBVIOUS
  <2>1. j + 0 + 1 = j + 1 /\ j + 1 \in 1 .. n /\ (j + 1) - 1 = j
    BY <1>1
  <2> QED
    BY <1>5, <2>1
<1>7. ASSUME NEW m \in T PROVE m + 1 \in T
  <2> SUFFICES ASSUME NEW j \in 0 .. n, j + (m + 1) + 1 \in 0 .. n
               PROVE  OffsetAt(t, j) < OffsetAt(t, j + (m + 1) + 1)
    OBVIOUS
  <2> DEFINE k == j + m + 1
  <2>1. k \in 0 .. n /\ k + 1 \in 1 .. n /\ k + 1 \in 0 .. n /\ (k + 1) - 1 = k /\ j + (m + 1) + 1 = k + 1
    BY <1>1
  <2>2. OffsetAt(t, j) < OffsetAt(t, k)
    BY <2>1
  <2> HIDE DEF k
  <2>3. OffsetAt(t, k) < OffsetAt(t, k + 1)
    BY <1>5, <2>1
  <2>4. OffsetAt(t, j) \in Nat /\ OffsetAt(t, k) \in Nat /\ OffsetAt(t, k + 1) \in Nat
    BY <1>4, <2>1
  <2>5. OffsetAt(t, j) < OffsetAt(t, k + 1)
    BY <2>2, <2>3, <2>4
  <2>6. j + (m + 1) + 1 = k + 1
    BY <2>1
  <2> QED
    BY <2>5, <2>6
<1>8. T = Nat
  <2>1. T \subseteq Nat
    OBVIOUS
  <2> HIDE DEF T
  <2> QED
    BY <1>6, <1>7, <2>1, Induct
<1>9. \A j, k \in 0 .. n : j < k => OffsetAt(t, j) < OffsetAt(t, k)
  <2> SUFFICES ASSUME NEW j \in 0 .. n, NEW k \in 0 .. n, j < k
               PROVE  OffsetAt(t, j) < OffsetAt(t, k)
    OBVIOUS
  <2> HIDE DEF T
  <2>1. k - j - 1 \in Nat /\ j + (k - j - 1) + 1 = k
    BY <1>1
  <2>2. k - j - 1 \in T
    BY <1>8, <2>1
  <2> QED
    BY <2>1, <2>2 DEF T
<1> QED
  BY <1>1, <1>2, <1>3, <1>4, <1>9 DEF c, n

\* A text that decodes is the encoding of its characters.
LEMMA TextIsEncoded ==
    ASSUME NEW t \in Seq(Bytes), Decodes(t)
    PROVE  t = FlattenSeq([k \in DOMAIN Characters(t) |-> Encode(Characters(t)[k].codepoint)])
<1> DEFINE c == Characters(t)
           n == Len(c)
           o == [k \in 0 .. n |-> OffsetAt(t, k)]
           pieces == [k \in 1 .. n |-> SubSeq(t, o[k - 1] + 1, o[k])]
<1>1. /\ n \in Nat /\ DOMAIN c = 1 .. n
      /\ \A k \in 1 .. n : /\ c[k].at \in Nat /\ c[k].length \in 1 .. 4
                           /\ OffsetAt(t, k) = c[k].at + c[k].length
                           /\ Encode(c[k].codepoint) = SubSeq(t, c[k].at + 1, c[k].at + c[k].length)
  BY CharactersAre
<1>2. /\ OffsetAt(t, 0) = 0 /\ OffsetAt(t, n) = Len(t)
      /\ \A k \in 0 .. n : OffsetAt(t, k) \in Nat
      /\ \A j, k \in 0 .. n : j < k => OffsetAt(t, j) < OffsetAt(t, k)
      /\ \A k \in 0 .. n : OffsetAt(t, k) <= Len(t)
      /\ \A k \in 1 .. n : c[k].at = OffsetAt(t, k - 1)
  BY OffsetsGrow
<1> HIDE DEF c, n
<1>3. \A k \in 0 .. n : o[k] = OffsetAt(t, k)
  OBVIOUS
<1>4. 0 \in 0 .. n /\ n \in 0 .. n /\ \A k \in 1 .. n : k - 1 \in 0 .. n /\ k \in 0 .. n /\ k - 1 < k
  BY <1>1
<1> HIDE DEF o
<1>5. \A k \in 1 .. n : Encode(c[k].codepoint) = SubSeq(t, o[k - 1] + 1, o[k])
  BY <1>1, <1>2, <1>3, <1>4
<1>6. [k \in 1 .. n |-> Encode(c[k].codepoint)] = pieces
  BY <1>5
<1>7. /\ \A k \in 0 .. n : o[k] \in Nat
      /\ o[0] = 0 /\ o[n] = Len(t)
      /\ \A k \in 0 .. n : o[k] <= Len(t)
  BY <1>2, <1>3, <1>4
<1>8. \A k \in 1 .. n : o[k - 1] <= o[k]
  <2> TAKE k \in 1 .. n
  <2>1. o[k - 1] < o[k] /\ o[k - 1] \in Nat /\ o[k] \in Nat
    BY <1>2, <1>3, <1>4, <1>7
  <2> QED
    BY <2>1
<1>9. FlattenSeq(pieces) = t
  BY <1>1, <1>7, <1>8, PiecesCover
<1> HIDE DEF pieces
<1>10. FlattenSeq([k \in DOMAIN c |-> Encode(c[k].codepoint)]) = t
  BY <1>1, <1>6, <1>9
<1> QED
  BY <1>10 DEF c

-----------------------------------------------------------------------------
(* What the cuts make of a text *)

LEMMA SentenceOffsets ==
    ASSUME NEW m, NEW t \in Seq(Bytes), Decodes(t)
    PROVE  /\ SentenceOf(m, t).n = Len(Characters(t))
           /\ \A k \in 0 .. Len(Characters(t)) : SentenceOf(m, t).offsets[k + 1] = OffsetAt(t, k)
<1> DEFINE c == Characters(t)
           n == Len(c)
           norm == [k \in DOMAIN c |-> Normalize(c[k].codepoint)]
           cids == [k \in DOMAIN c |-> IdOf(m.table.ids, norm[k])]
           ats == [k \in DOMAIN c |-> c[k].at]
<1>1. n \in Nat /\ DOMAIN c = 1 .. n /\ \A k \in 1 .. n : c[k].at \in Nat
  BY CharactersAre
<1>2. SentenceOf(m, t).n = Len(cids) /\ SentenceOf(m, t).offsets = ats \o <<Len(t)>>
  BY DEF SentenceOf, EncodeInto
<1>3. Len(cids) = n
  <2> HIDE DEF norm
  <2>1. cids \in Seq({cids[k] : k \in DOMAIN c}) /\ Len(cids) = n
    BY <1>1
  <2> QED
    BY <2>1
<1>4. ats \in Seq(Nat) /\ Len(ats) = n /\ \A k \in 1 .. n : ats[k] = c[k].at
  BY <1>1
<1>5. <<Len(t)>> \in Seq(Nat) /\ Len(<<Len(t)>>) = 1 /\ <<Len(t)>>[1] = Len(t)
  OBVIOUS
<1> DEFINE last == <<Len(t)>>
           all == ats \o last
<1> HIDE DEF ats, cids, last
<1>6. \A k \in 1 .. n + 1 : all[k] = IF k <= n THEN ats[k] ELSE last[k - n]
  BY <1>1, <1>4, <1>5, ConcatProperties DEF last
<1> HIDE DEF all
<1>7. \A k \in 0 .. n : all[k + 1] = OffsetAt(t, k)
  <2> TAKE k \in 0 .. n
  <2>1. CASE k = n
    <3>1. k + 1 \in 1 .. n + 1 /\ ~ (k + 1 <= n) /\ (k + 1) - n = 1
      BY <1>1, <2>1
    <3>2. all[k + 1] = last[1]
      BY <1>6, <3>1
    <3> QED
      BY <1>5, <2>1, <3>2 DEF last, OffsetAt
  <2>2. CASE k # n
    <3>1. k + 1 \in 1 .. n + 1 /\ k + 1 <= n /\ k + 1 \in 1 .. n
      <4>1. n \in Nat /\ k \in 0 .. n /\ k # n
        BY <1>1, <2>2
      <4> HIDE DEF n
      <4> QED
        BY <4>1
    <3>2. all[k + 1] = c[k + 1].at
      BY <1>4, <1>6, <3>1
    <3> QED
      BY <2>2, <3>2 DEF OffsetAt
  <2> QED
    BY <2>1, <2>2
<1> QED
  BY <1>2, <1>3, <1>7 DEF all, last

LEMMA NthGrows ==
    ASSUME NEW n \in Nat, NEW S \in SUBSET (1 .. n), NEW r \in 1 .. Cardinality(S), r # 1
    PROVE  r - 1 \in 1 .. Cardinality(S) /\ Nth(S, r - 1) < Nth(S, r)
<1>0. Cardinality(S) \in Nat
  BY UpToBounds
<1>1. r - 1 \in 1 .. Cardinality(S)
  BY <1>0
<1>2. Nth(S, r) \in S /\ UpTo(S, Nth(S, r)) = r /\ Nth(S, r - 1) \in S /\ UpTo(S, Nth(S, r - 1)) = r - 1
  BY <1>1, NthIs
<1>3. Nth(S, r) \in Int /\ Nth(S, r - 1) \in Int
  <2>1. \A k \in S : k \in Int
    OBVIOUS
  <2> QED
    BY <1>2, <2>1
<1>4. Nth(S, r) < Nth(S, r - 1) => UpTo(S, Nth(S, r)) < UpTo(S, Nth(S, r - 1))
  BY <1>2, <1>3, UpToGrows
<1>5. ~ (Nth(S, r) < Nth(S, r - 1)) /\ Nth(S, r) # Nth(S, r - 1)
  BY <1>0, <1>2, <1>4
<1> QED
  BY <1>1, <1>3, <1>5

\* Where word r ends; 0 for no word.
EndOf(t, S, r) == IF r = 0 THEN 0 ELSE OffsetAt(t, Nth(S, r))

\* The words between cuts.
WordsOf(t, S) == [r \in 1 .. Cardinality(S) |-> <<EndOf(t, S, r - 1), EndOf(t, S, r)>>]

LEMMA WordsCover ==
    ASSUME NEW t \in Seq(Bytes), Decodes(t), NEW S \in SUBSET (1 .. Len(Characters(t))),
           Len(Characters(t)) # 0, Len(Characters(t)) \in S
    PROVE  LET chars == Characters(t)
               words == WordsOf(t, S)
           IN  /\ t = FlattenSeq([k \in DOMAIN words |-> SubSeq(t, words[k][1] + 1, words[k][2])])
               /\ \A k \in DOMAIN words : words[k][1] < words[k][2]
               /\ {words[k][1] : k \in DOMAIN words} \subseteq {chars[k].at : k \in DOMAIN chars}
               /\ \A b \in 0 .. Len(chars) - 2 :
                     (\E k \in DOMAIN words : words[k][2] = chars[b + 2].at) <=> b + 1 \in S
<1> DEFINE c == Characters(t)
           n == Len(c)
           m == Cardinality(S)
           words == WordsOf(t, S)
<1>1. /\ n \in Nat /\ OffsetAt(t, 0) = 0 /\ OffsetAt(t, n) = Len(t)
      /\ \A k \in 0 .. n : OffsetAt(t, k) \in Nat
      /\ \A j, k \in 0 .. n : j < k => OffsetAt(t, j) < OffsetAt(t, k)
      /\ \A k \in 0 .. n : OffsetAt(t, k) <= Len(t)
      /\ \A k \in 1 .. n : c[k].at = OffsetAt(t, k - 1)
  BY OffsetsGrow
<1>2. DOMAIN c = 1 .. n
  BY CharactersAre
<1>3. S \in SUBSET (1 .. n) /\ n # 0 /\ n \in S
  OBVIOUS
<1> HIDE DEF c, n
<1>4. m \in Nat /\ UpTo(S, n) = m
  BY <1>1, <1>3, UpToBounds
<1>5. m \in 1 .. m /\ Nth(S, m) = n
  BY <1>1, <1>3, <1>4, NthOf
<1>6. \A r \in 1 .. m : Nth(S, r) \in S /\ Nth(S, r) \in 1 .. n /\ Nth(S, r) \in 0 .. n
  <2> TAKE r \in 1 .. m
  <2>1. Nth(S, r) \in S
    BY <1>1, <1>3, NthIs
  <2> QED
    BY <1>1, <1>3, <2>1
\* Where a word begins is where a character does.
<1>7. ASSUME NEW r \in 1 .. m
      PROVE  \E k \in 0 .. n - 1 : k < Nth(S, r) /\ EndOf(t, S, r - 1) = OffsetAt(t, k)
  <2>1. CASE r = 1
    <3>1. 0 \in 0 .. n - 1 /\ 0 < Nth(S, r) /\ EndOf(t, S, r - 1) = OffsetAt(t, 0)
      BY <1>1, <1>3, <1>6, <2>1 DEF EndOf
    <3> QED
      BY <3>1
  <2>2. CASE r # 1
    <3>1. r - 1 \in 1 .. m /\ Nth(S, r - 1) < Nth(S, r)
      BY <1>1, <1>3, <2>2, NthGrows
    <3>2. Nth(S, r - 1) \in 1 .. n /\ Nth(S, r) \in 1 .. n
      BY <1>6, <3>1
    <3>3. Nth(S, r - 1) \in 0 .. n - 1
      <4>1. n \in Nat
        BY <1>1
      <4> DEFINE a == Nth(S, r - 1)
                 b == Nth(S, r)
      <4>2. a \in 1 .. n /\ b \in 1 .. n /\ a < b
        BY <3>1, <3>2
      <4> HIDE DEF a, b
      <4>3. a \in 0 .. n - 1
        BY <4>1, <4>2
      <4> QED
        BY <4>3 DEF a
    <3>4. EndOf(t, S, r - 1) = OffsetAt(t, Nth(S, r - 1))
      <4>1. r - 1 # 0
        BY <3>1
      <4> QED
        BY <4>1 DEF EndOf
    <3> QED
      BY <3>1, <3>3, <3>4
  <2> QED
    BY <2>1, <2>2
<1>8. \A r \in 1 .. m : EndOf(t, S, r) = OffsetAt(t, Nth(S, r))
  BY <1>4 DEF EndOf
<1>9. \A r \in 1 .. m : EndOf(t, S, r - 1) \in Nat /\ EndOf(t, S, r) \in Nat /\ EndOf(t, S, r - 1) < EndOf(t, S, r)
  <2> TAKE r \in 1 .. m
  <2>1. PICK k \in 0 .. n - 1 : k < Nth(S, r) /\ EndOf(t, S, r - 1) = OffsetAt(t, k)
    BY <1>7
  <2>2. k \in 0 .. n /\ Nth(S, r) \in 0 .. n
    BY <1>1, <1>6
  <2> QED
    BY <1>1, <1>8, <2>1, <2>2
<1>10. DOMAIN words = 1 .. m /\ \A r \in 1 .. m : words[r][1] = EndOf(t, S, r - 1) /\ words[r][2] = EndOf(t, S, r)
  BY DEF WordsOf
<1> HIDE DEF words
<1>11. t = FlattenSeq([k \in DOMAIN words |-> SubSeq(t, words[k][1] + 1, words[k][2])])
  <2> DEFINE o == [r \in 0 .. m |-> EndOf(t, S, r)]
             pieces == [r \in 1 .. m |-> SubSeq(t, o[r - 1] + 1, o[r])]
  <2>1. \A r \in 0 .. m : o[r] = EndOf(t, S, r)
    OBVIOUS
  <2>2. \A r \in 1 .. m : r \in 0 .. m /\ r - 1 \in 0 .. m
    BY <1>4
  <2>3. \A r \in 1 .. m : o[r - 1] = EndOf(t, S, r - 1) /\ o[r] = EndOf(t, S, r)
    BY <2>1, <2>2
  <2>4. o[0] = 0
    BY <1>4, <2>1 DEF EndOf
  <2>5. o[m] = Len(t)
    BY <1>1, <1>5, <1>8, <2>3
  <2> HIDE DEF o
  <2>6. \A r \in 0 .. m : o[r] \in Nat /\ o[r] <= Len(t)
    <3> TAKE r \in 0 .. m
    <3>1. CASE r = 0
      BY <2>4, <3>1
    <3>2. CASE r # 0
      <4>1. r \in 1 .. m
        BY <1>4, <3>2
      <4> QED
        BY <1>1, <1>6, <1>8, <2>3, <4>1
    <3> QED
      BY <3>1, <3>2
  <2>7. \A r \in 1 .. m : o[r - 1] <= o[r]
    BY <1>9, <2>3
  <2>8. FlattenSeq(pieces) = t
    BY <1>4, <2>4, <2>5, <2>6, <2>7, PiecesCover
  <2>9. [k \in DOMAIN words |-> SubSeq(t, words[k][1] + 1, words[k][2])] = pieces
    BY <1>10, <2>3
  <2> HIDE DEF pieces
  <2> QED
    BY <2>8, <2>9
<1>12. \A k \in DOMAIN words : words[k][1] < words[k][2]
  BY <1>9, <1>10
<1>13. {words[k][1] : k \in DOMAIN words} \subseteq {c[k].at : k \in DOMAIN c}
  <2> SUFFICES ASSUME NEW r \in 1 .. m
               PROVE  EndOf(t, S, r - 1) \in {c[k].at : k \in DOMAIN c}
    BY <1>10
  <2>1. PICK k \in 0 .. n - 1 : EndOf(t, S, r - 1) = OffsetAt(t, k)
    BY <1>7
  <2>2. k + 1 \in 1 .. n /\ (k + 1) - 1 = k
    BY <1>1
  <2>3. c[k + 1].at = OffsetAt(t, k)
    BY <1>1, <2>2
  <2> QED
    BY <1>2, <2>1, <2>2, <2>3
<1>14. ASSUME NEW b \in 0 .. n - 2
       PROVE  (\E k \in DOMAIN words : words[k][2] = c[b + 2].at) <=> b + 1 \in S
  <2>1. b + 2 \in 1 .. n /\ (b + 2) - 1 = b + 1 /\ b + 1 \in 0 .. n
    BY <1>1
  <2>2. c[b + 2].at = OffsetAt(t, b + 1)
    BY <1>1, <2>1
  <2>3. ASSUME NEW k \in DOMAIN words, words[k][2] = c[b + 2].at PROVE b + 1 \in S
    <3>1. k \in 1 .. m /\ OffsetAt(t, Nth(S, k)) = OffsetAt(t, b + 1)
      BY <1>8, <1>10, <2>2, <2>3
    <3> DEFINE x == Nth(S, k)
               y == b + 1
    <3>2. x \in S /\ x \in 0 .. n /\ y \in 0 .. n
      BY <1>6, <2>1, <3>1
    <3> HIDE DEF x, y
    <3>3. OffsetAt(t, x) = OffsetAt(t, y) /\ OffsetAt(t, x) \in Nat /\ OffsetAt(t, y) \in Nat
      BY <1>1, <3>1, <3>2 DEF x, y
    <3>4. ~ (x < y) /\ ~ (y < x)
      BY <1>1, <3>2, <3>3
    <3>5. x = y
      BY <3>2, <3>4
    <3> QED
      BY <3>2, <3>5 DEF y
  <2>4. ASSUME b + 1 \in S PROVE \E k \in DOMAIN words : words[k][2] = c[b + 2].at
    <3> DEFINE k == UpTo(S, b + 1)
    <3>1. k \in 1 .. m /\ Nth(S, k) = b + 1
      BY <1>1, <1>3, <2>4, NthOf
    <3> HIDE DEF k
    <3>2. words[k][2] = OffsetAt(t, b + 1)
      BY <1>8, <1>10, <3>1
    <3> QED
      BY <1>10, <2>2, <3>1, <3>2
  <2> QED
    BY <2>3, <2>4
<1> QED
  BY <1>11, <1>12, <1>13, <1>14 DEF c, n, words

-----------------------------------------------------------------------------
(* The words partition the text *)

\* What is kept of the text of a call, until the words are made and afterwards.
TextInv ==
    /\ step # "idle" \/ outcome = "ok" => text \in Decodable /\ sentence = SentenceOf(model, text)
    /\ step # "idle" => sentence.n # 0

WInv == TextInv /\ WordsPartition

LEMMA DecodableIs == \A t \in Decodable : t \in Seq(Bytes) /\ Decodes(t)
BY ScorerAssumption DEF Decodable

LEMMA InitWInv == Init => WInv
BY DEF Init, WInv, TextInv, WordsPartition

LEMMA CutWordsKeeps == TextInv /\ CutWords => WInv'
<1> SUFFICES ASSUME TextInv, CutWords PROVE WInv'
  OBVIOUS
<1> DEFINE c == Characters(text)
           n == Len(c)
           S == {k \in 1 .. sentence.n : IsCut(k)}
<1>1. /\ step' = "idle" /\ outcome' = "ok" /\ step = "cut"
      /\ text' = text /\ sentence' = sentence /\ model' = model /\ scores' = scores
  BY DEF CutWords, loaded
<1>2. text \in Decodable /\ sentence = SentenceOf(model, text) /\ sentence.n # 0
  BY <1>1 DEF TextInv
<1>3. text \in Seq(Bytes) /\ Decodes(text)
  BY <1>2, DecodableIs
<1>4. sentence.n = n /\ \A k \in 0 .. n : sentence.offsets[k + 1] = OffsetAt(text, k)
  BY <1>2, <1>3, SentenceOffsets
<1>5. n \in Nat /\ n # 0 /\ S \in SUBSET (1 .. n)
  BY <1>2, <1>3, <1>4, CharactersAre
<1>6. n \in S
  <2>1. n \in 1 .. sentence.n /\ ~ (n < sentence.n)
    BY <1>4, <1>5
  <2> QED
    BY <2>1 DEF IsCut
<1>7. segments' = [r \in 1 .. Cardinality(S) |->
                      <<sentence.offsets[Before(S, Nth(S, r)) + 1], sentence.offsets[Nth(S, r) + 1]>>]
  BY DEF CutWords, Before, Nth
<1>8. \A b \in 0 .. n - 2 : b + 1 \in S <=> scores[b] * model.multiplier > 0
  <2> TAKE b \in 0 .. n - 2
  <2>1. b + 1 \in 1 .. sentence.n /\ b + 1 < sentence.n /\ (b + 1) - 1 = b
    BY <1>4, <1>5
  <2> QED
    BY <2>1 DEF IsCut
<1> HIDE DEF S
<1>9. segments' = WordsOf(text, S)
  <2>0. \A k \in S : k \in 0 .. n
    <3>1. n \in Nat /\ S \in SUBSET (1 .. n)
      BY <1>5
    <3> HIDE DEF n
    <3> QED
      BY <3>1
  <2>1. ASSUME NEW r \in 1 .. Cardinality(S)
        PROVE  /\ sentence.offsets[Nth(S, r) + 1] = EndOf(text, S, r)
               /\ sentence.offsets[Before(S, Nth(S, r)) + 1] = EndOf(text, S, r - 1)
    <3>0. Cardinality(S) \in Nat
      BY <1>5, UpToBounds
    <3>1. Nth(S, r) \in S /\ Before(S, Nth(S, r)) = IF r = 1 THEN 0 ELSE Nth(S, r - 1)
      BY <1>5, NthIs, BeforeNth
    <3>2. Nth(S, r) \in 0 .. n
      BY <2>0, <3>1
    <3>3. sentence.offsets[Nth(S, r) + 1] = EndOf(text, S, r)
      <4>1. r # 0
        BY <3>0
      <4> QED
        BY <1>4, <3>2, <4>1 DEF EndOf
    <3>4. CASE r = 1
      <4>1. 0 \in 0 .. n /\ r - 1 = 0
        BY <1>5, <3>4
      <4>2. OffsetAt(text, 0) = 0
        BY <1>3, CharactersAre
      <4>3. sentence.offsets[0 + 1] = 0
        BY <1>4, <4>1, <4>2
      <4> QED
        BY <3>1, <3>3, <3>4, <4>1, <4>3 DEF EndOf
    <3>5. CASE r # 1
      <4>1. r - 1 \in 1 .. Cardinality(S) /\ r - 1 # 0
        BY <3>0, <3>5
      <4>2. Nth(S, r - 1) \in S
        BY <1>5, <4>1, NthIs
      <4>3. Nth(S, r - 1) \in 0 .. n
        BY <2>0, <4>2
      <4>4. sentence.offsets[Nth(S, r - 1) + 1] = OffsetAt(text, Nth(S, r - 1))
        BY <1>4, <4>3
      <4> QED
        BY <3>1, <3>3, <3>5, <4>1, <4>4 DEF EndOf
    <3> QED
      BY <3>4, <3>5
  <2> QED
    BY <1>7, <2>1 DEF WordsOf
<1>10. LET words == WordsOf(text, S)
       IN  /\ text = FlattenSeq([k \in DOMAIN words |-> SubSeq(text, words[k][1] + 1, words[k][2])])
           /\ \A k \in DOMAIN words : words[k][1] < words[k][2]
           /\ {words[k][1] : k \in DOMAIN words} \subseteq {c[k].at : k \in DOMAIN c}
           /\ \A b \in 0 .. n - 2 : (\E k \in DOMAIN words : words[k][2] = c[b + 2].at) <=> b + 1 \in S
  BY <1>3, <1>5, <1>6, WordsCover
<1>11. text = FlattenSeq([k \in DOMAIN c |-> Encode(c[k].codepoint)])
  BY <1>3, TextIsEncoded
<1> DEFINE W == segments'
<1>12. /\ text = FlattenSeq([k \in DOMAIN W |-> SubSeq(text, W[k][1] + 1, W[k][2])])
       /\ \A k \in DOMAIN W : W[k][1] < W[k][2]
       /\ {W[k][1] : k \in DOMAIN W} \subseteq {c[k].at : k \in DOMAIN c}
       /\ \A b \in 0 .. n - 2 : (\E k \in DOMAIN W : W[k][2] = c[b + 2].at) <=> scores[b] * model.multiplier > 0
  BY <1>8, <1>9, <1>10
<1>13. Boundaries' = 0 .. n - 2
  BY <1>1, <1>4 DEF Boundaries
<1>14. WordsPartition'
  BY <1>1, <1>11, <1>12, <1>13 DEF WordsPartition
<1>15. TextInv'
  BY <1>1, <1>2 DEF TextInv
<1> QED
  BY <1>14, <1>15 DEF WInv

LEMMA CallMakesWords == Call => WInv'
<1> SUFFICES ASSUME Call PROVE WInv'
  OBVIOUS
<1>1. PICK t \in Decodable :
         /\ text' = t /\ sentence' = SentenceOf(model, t)
         /\ step' = IF sentence'.n = 0 THEN "idle" ELSE IF sentence'.n = 1 THEN "cut" ELSE "chars"
         /\ outcome' = IF sentence'.n = 0 THEN "ok" ELSE "none"
  BY DEF Call
<1>2. model' = model /\ segments' = <<>>
  BY DEF Call, loaded
<1>3. TextInv'
  BY <1>1, <1>2 DEF TextInv
<1>4. t \in Seq(Bytes) /\ Decodes(t)
  BY DecodableIs
<1>5. WordsPartition'
  <2>1. CASE sentence'.n # 0
    BY <1>1, <2>1 DEF WordsPartition
  <2>2. CASE sentence'.n = 0
    <3> DEFINE c == Characters(t)
    <3>1. Len(c) = 0 /\ DOMAIN c = 1 .. 0
      BY <1>1, <1>4, <2>2, SentenceOffsets, CharactersAre
    <3>2. t = FlattenSeq([k \in DOMAIN c |-> Encode(c[k].codepoint)])
      BY <1>4, TextIsEncoded
    <3>3. Len(t) = 0
      <4>1. OffsetAt(t, 0) = 0 /\ OffsetAt(t, Len(c)) = Len(t)
        BY <1>4, OffsetsGrow
      <4> QED
        BY <3>1, <4>1
    <3>4. t = <<>>
      BY <1>4, <3>3
    <3>5. DOMAIN <<>> = {}
      OBVIOUS
    <3> DEFINE W == segments'
    <3>6. DOMAIN W = {}
      BY <1>2, <3>5
    <3>7. [k \in DOMAIN W |-> SubSeq(t, W[k][1] + 1, W[k][2])] = <<>>
      BY <3>6
    <3>8. FlattenSeq(<<>>) = <<>>
      BY DEF FlattenSeq
    <3>9. t = FlattenSeq([k \in DOMAIN W |-> SubSeq(t, W[k][1] + 1, W[k][2])])
      BY <3>4, <3>7, <3>8
    <3>10. Boundaries' = {}
      BY <2>2 DEF Boundaries
    <3> HIDE DEF c
    <3>11. /\ text' = FlattenSeq([k \in DOMAIN c |-> Encode(c[k].codepoint)])
           /\ text' = FlattenSeq([k \in DOMAIN W |-> SubSeq(text', W[k][1] + 1, W[k][2])])
           /\ \A k \in DOMAIN W : W[k][1] < W[k][2]
           /\ {W[k][1] : k \in DOMAIN W} \subseteq {c[k].at : k \in DOMAIN c}
      BY <1>1, <3>2, <3>6, <3>9
    <3> QED
      BY <1>1, <3>10, <3>11 DEF WordsPartition, c
  <2> QED
    BY <2>1, <2>2
<1> QED
  BY <1>3, <1>5 DEF WInv

LEMMA NextWInv == WInv /\ [Next]_vars => WInv'
<1> SUFFICES ASSUME WInv, [Next]_vars PROVE WInv'
  OBVIOUS
<1>1. CASE LoadModel \/ EncodeFails \/ AllocationThrows \/ MarkThrows
  <2>1. step' = "idle" /\ outcome' # "ok"
    BY <1>1 DEF LoadModel, EncodeFails, AllocationThrows, MarkThrows
  <2> QED
    BY <2>1 DEF WInv, TextInv, WordsPartition
<1>2. CASE CharMatch \/ CharsDone \/ TypeMatch \/ TypesDone \/ SkipDictionary \/ Prepare
           \/ WordMatch \/ MarkSeen \/ MarkNew \/ WordsDone
  <2>1. step # "idle" /\ step' # "idle" /\ UNCHANGED <<text, sentence, model>>
    BY <1>2 DEF CharMatch, CharsDone, TypeMatch, TypesDone, NgramMatch, NgramsDone, SkipDictionary, Prepare,
                WordMatch, Marking, MarkSeen, MarkNew, WordsDone, loaded
  <2> QED
    BY <2>1 DEF WInv, TextInv, WordsPartition
<1>3. CASE UNCHANGED vars
  <2>1. UNCHANGED <<step, outcome, text, sentence, model, segments, scores>>
    BY <1>3 DEF vars, loaded
  <2> QED
    BY <2>1 DEF WInv, TextInv, WordsPartition, Boundaries
<1> QED
  BY <1>1, <1>2, <1>3, CutWordsKeeps, CallMakesWords DEF Next, WInv

(***************************************************************************)
(* Whatever bytes the text is made of, however the scores fall and the     *)
(* multiplier is signed: the words tokenize returns are the text from its  *)
(* first byte to its last, in order, none of them empty and none begun     *)
(* inside a character, cut where the score says so and only there; and a   *)
(* text is taken only when every character of it is in its shortest form.  *)
(***************************************************************************)
THEOREM WordsPartitionTheText == Spec => []WordsPartition
<1>1. WInv => WordsPartition
  BY DEF WInv
<1> QED
  BY <1>1, InitWInv, NextWInv, PTL DEF Spec

-----------------------------------------------------------------------------
(* Sums *)

\* The function that MapThenSumSet recurs by, for the terms f.
Sums(g, f, S) ==
    g = [s \in SUBSET S |-> IF s = {} THEN 0 ELSE f[CHOOSE x \in s : TRUE] + g[s \ {CHOOSE x \in s : TRUE}]]

Sum(f, S) == (CHOOSE g : Sums(g, f, S))[S]

\* One element less.
LEMMA WithoutOne ==
    ASSUME NEW s, IsFiniteSet(s), NEW m \in Nat, Cardinality(s) = m + 1, NEW x \in s
    PROVE  IsFiniteSet(s \ {x}) /\ Cardinality(s \ {x}) = m
<1>1. IsFiniteSet(s \ {x}) /\ Cardinality(s \ {x}) = Cardinality(s) - 1
  BY FS_RemoveElement
<1> QED
  BY <1>1

\* Sums up to a size.
SumsTo(g, f, S, m) ==
    /\ DOMAIN g = SUBSET S
    /\ \A s \in SUBSET S :
          Cardinality(s) <= m =>
              g[s] = IF s = {} THEN 0 ELSE f[CHOOSE x \in s : TRUE] + g[s \ {CHOOSE x \in s : TRUE}]

LEMMA SumsToNext ==
    ASSUME NEW f, NEW S, IsFiniteSet(S), NEW m \in Nat, NEW g, SumsTo(g, f, S, m)
    PROVE  \E h : SumsTo(h, f, S, m + 1)
<1> DEFINE c(s) == CHOOSE x \in s : TRUE
           h == [s \in SUBSET S |-> IF Cardinality(s) <= m THEN g[s] ELSE f[c(s)] + g[s \ {c(s)}]]
<1>1. ASSUME NEW s \in SUBSET S, Cardinality(s) <= m + 1
      PROVE  h[s] = IF s = {} THEN 0 ELSE f[c(s)] + h[s \ {c(s)}]
  <2>1. IsFiniteSet(s) /\ Cardinality(s) \in Nat
    BY FS_Subset, FS_CardinalityType
  <2>2. CASE s = {}
    <3>1. Cardinality(s) <= m
      BY <2>2, FS_EmptySet
    <3> QED
      BY <2>2, <3>1 DEF SumsTo
  <2>3. CASE s # {}
    <3>1. c(s) \in s
      BY <2>3
    <3> DEFINE r == s \ {c(s)}
    <3>2. r \in SUBSET S
      OBVIOUS
    <3>3. Cardinality(r) = Cardinality(s) - 1
      BY <2>1, <3>1, FS_RemoveElement
    <3>4. Cardinality(r) <= m
      BY <1>1, <2>1, <3>3
    <3>5. h[r] = g[r]
      BY <3>2, <3>4
    <3>6. h[s] = f[c(s)] + g[r]
      <4>1. CASE Cardinality(s) <= m
        <5>1. g[s] = f[c(s)] + g[r]
          BY <2>3, <4>1 DEF SumsTo
        <5>2. h[s] = g[s]
          BY <4>1
        <5> QED
          BY <5>1, <5>2
      <4>2. CASE ~(Cardinality(s) <= m)
        BY <4>2
      <4> QED
        BY <4>1, <4>2
    <3> QED
      BY <2>3, <3>5, <3>6
  <2> QED
    BY <2>2, <2>3
<1>2. DOMAIN h = SUBSET S
  OBVIOUS
<1> HIDE DEF h
<1>3. SumsTo(h, f, S, m + 1)
  BY <1>1, <1>2 DEF SumsTo
<1> QED
  BY <1>3

LEMMA SumsExist ==
    ASSUME NEW f, NEW S, IsFiniteSet(S)
    PROVE  \E g : Sums(g, f, S)
<1> DEFINE T == {m \in Nat : \E g : SumsTo(g, f, S, m)}
<1>1. 0 \in T
  <2> DEFINE g == [s \in SUBSET S |-> 0]
  <2>1. \A s \in SUBSET S : Cardinality(s) <= 0 => s = {}
    <3> TAKE s \in SUBSET S
    <3> QED
      BY FS_Subset, FS_CardinalityType, FS_EmptySet
  <2>2. SumsTo(g, f, S, 0)
    BY <2>1 DEF SumsTo
  <2> QED
    BY <2>2
<1>2. ASSUME NEW m \in T PROVE m + 1 \in T
  BY SumsToNext
<1> HIDE DEF T
<1>3. T \subseteq Nat
  BY DEF T
<1>4. T = Nat
  BY <1>1, <1>2, <1>3, Induct
<1>5. Cardinality(S) \in T
  BY <1>4, FS_CardinalityType
<1>6. PICK g : SumsTo(g, f, S, Cardinality(S))
  BY <1>5 DEF T
<1>7. \A s \in SUBSET S : Cardinality(s) <= Cardinality(S)
  BY FS_Subset
<1> DEFINE h == [s \in SUBSET S |-> g[s]]
<1>8. \A s \in SUBSET S : h[s] = IF s = {} THEN 0 ELSE f[CHOOSE x \in s : TRUE] + h[s \ {CHOOSE x \in s : TRUE}]
  BY <1>6, <1>7 DEF SumsTo
<1>9. h = [s \in SUBSET S |-> IF s = {} THEN 0 ELSE f[CHOOSE x \in s : TRUE] + h[s \ {CHOOSE x \in s : TRUE}]]
  BY <1>8
<1> HIDE DEF h
<1> QED
  BY <1>9 DEF Sums

\* A sum does not depend on what else could be summed, nor on other terms.
LEMMA SumsAgree ==
    ASSUME NEW f, NEW S, NEW g, Sums(g, f, S), NEW h, NEW e, NEW T, Sums(h, e, T),
           NEW s, s \subseteq S, s \subseteq T, IsFiniteSet(s), \A x \in s : f[x] = e[x]
    PROVE  g[s] = h[s]
<1> DEFINE c(r) == CHOOSE x \in r : TRUE
           M == {m \in Nat : \A r \in SUBSET s : Cardinality(r) = m => g[r] = h[r]}
<1>1. \A r \in SUBSET s : /\ g[r] = IF r = {} THEN 0 ELSE f[c(r)] + g[r \ {c(r)}]
                          /\ h[r] = IF r = {} THEN 0 ELSE e[c(r)] + h[r \ {c(r)}]
  <2> TAKE r \in SUBSET s
  <2>1. r \in SUBSET S /\ r \in SUBSET T
    OBVIOUS
  <2> QED
    BY <2>1 DEF Sums
<1>0. \A r : r # {} => c(r) \in r
  OBVIOUS
<1> HIDE DEF c
<1>2. 0 \in M
  <2> SUFFICES ASSUME NEW r \in SUBSET s, Cardinality(r) = 0 PROVE g[r] = h[r]
    OBVIOUS
  <2>1. r = {}
    BY FS_Subset, FS_EmptySet
  <2> QED
    BY <1>1, <2>1
<1>3. ASSUME NEW m \in M PROVE m + 1 \in M
  <2> SUFFICES ASSUME NEW r \in SUBSET s, Cardinality(r) = m + 1 PROVE g[r] = h[r]
    OBVIOUS
  <2>1. IsFiniteSet(r)
    BY FS_Subset
  <2>2. r # {}
    <3>1. m \in Nat
      OBVIOUS
    <3> QED
      BY <2>1, <3>1, FS_EmptySet
  <2>3. c(r) \in r
    BY <1>0, <2>2
  <2>4. Cardinality(r \ {c(r)}) = m
    BY <2>1, <2>3, WithoutOne
  <2>5. g[r \ {c(r)}] = h[r \ {c(r)}]
    <3>1. r \ {c(r)} \in SUBSET s
      OBVIOUS
    <3> QED
      BY <2>4, <3>1
  <2>6. f[c(r)] = e[c(r)]
    BY <2>3
  <2> QED
    BY <1>1, <2>2, <2>5, <2>6
<1>4. M \subseteq Nat
  OBVIOUS
<1> HIDE DEF M
<1>5. M = Nat
  BY <1>2, <1>3, <1>4, Induct
<1>6. Cardinality(s) \in M
  BY <1>5, FS_CardinalityType
<1> QED
  BY <1>6 DEF M

LEMMA SumsAreInt ==
    ASSUME NEW f, NEW S, NEW g, Sums(g, f, S), IsFiniteSet(S), \A x \in S : f[x] \in Int
    PROVE  \A s \in SUBSET S : g[s] \in Int
<1> DEFINE c(r) == CHOOSE x \in r : TRUE
           M == {m \in Nat : \A r \in SUBSET S : Cardinality(r) = m => g[r] \in Int}
<1>1. \A r \in SUBSET S : g[r] = IF r = {} THEN 0 ELSE f[c(r)] + g[r \ {c(r)}]
  BY DEF Sums
<1>0. \A r : r # {} => c(r) \in r
  OBVIOUS
<1> HIDE DEF c
<1>2. 0 \in M
  <2> SUFFICES ASSUME NEW r \in SUBSET S, Cardinality(r) = 0 PROVE g[r] \in Int
    OBVIOUS
  <2>1. r = {}
    BY FS_Subset, FS_EmptySet
  <2>2. g[r] = 0
    BY <1>1, <2>1
  <2> QED
    BY <2>2
<1>3. ASSUME NEW m \in M PROVE m + 1 \in M
  <2> SUFFICES ASSUME NEW r \in SUBSET S, Cardinality(r) = m + 1 PROVE g[r] \in Int
    OBVIOUS
  <2>1. IsFiniteSet(r)
    BY FS_Subset
  <2>2. r # {}
    <3>1. m \in Nat
      OBVIOUS
    <3> QED
      BY <2>1, <3>1, FS_EmptySet
  <2>3. c(r) \in r /\ r \ {c(r)} \in SUBSET S
    BY <1>0, <2>2
  <2>4. Cardinality(r \ {c(r)}) = m
    BY <2>1, <2>3, WithoutOne
  <2>5. g[r \ {c(r)}] \in Int /\ f[c(r)] \in Int
    BY <2>3, <2>4
  <2>6. g[r] = f[c(r)] + g[r \ {c(r)}]
    BY <1>1, <2>2
  <2> QED
    BY <2>5, <2>6
<1>4. M \subseteq Nat
  OBVIOUS
<1> HIDE DEF M
<1>5. M = Nat
  BY <1>2, <1>3, <1>4, Induct
<1> QED
  <2> TAKE s \in SUBSET S
  <2>1. Cardinality(s) \in M
    BY <1>5, FS_Subset, FS_CardinalityType
  <2> QED
    BY <2>1 DEF M

\* A sum can be taken apart at any element.
LEMMA SumsTakeApart ==
    ASSUME NEW f, NEW S, NEW g, Sums(g, f, S), IsFiniteSet(S), \A x \in S : f[x] \in Int
    PROVE  \A s \in SUBSET S : \A x \in s : g[s] = f[x] + g[s \ {x}]
<1> DEFINE c(r) == CHOOSE x \in r : TRUE
           M == {m \in Nat : \A r \in SUBSET S : Cardinality(r) = m => \A x \in r : g[r] = f[x] + g[r \ {x}]}
<1>1. \A r \in SUBSET S : g[r] \in Int /\ g[r] = IF r = {} THEN 0 ELSE f[c(r)] + g[r \ {c(r)}]
  BY SumsAreInt DEF Sums
<1>0. \A r : r # {} => c(r) \in r
  OBVIOUS
<1> HIDE DEF c
<1>2. 0 \in M
  <2> SUFFICES ASSUME NEW r \in SUBSET S, Cardinality(r) = 0, NEW x \in r PROVE FALSE
    OBVIOUS
  <2>1. r = {}
    BY FS_Subset, FS_EmptySet
  <2> QED
    BY <2>1
<1>3. ASSUME NEW m \in M PROVE m + 1 \in M
  <2> SUFFICES ASSUME NEW r \in SUBSET S, Cardinality(r) = m + 1, NEW x \in r PROVE g[r] = f[x] + g[r \ {x}]
    OBVIOUS
  <2>1. IsFiniteSet(r)
    BY FS_Subset
  <2> DEFINE y == c(r)
  <2>2. y \in r /\ g[r] = f[y] + g[r \ {y}]
    BY <1>0, <1>1
  <2> HIDE DEF y
  <2>3. CASE x = y
    BY <2>2, <2>3
  <2>4. CASE x # y
    <3>1. x \in r \ {y} /\ y \in r \ {x}
      BY <2>2, <2>4
    <3>2. (r \ {y}) \ {x} = (r \ {x}) \ {y}
      OBVIOUS
    <3>3. Cardinality(r \ {y}) = m /\ Cardinality(r \ {x}) = m
      BY <2>1, <2>2, WithoutOne
    <3>4. r \ {y} \in SUBSET S /\ r \ {x} \in SUBSET S /\ (r \ {x}) \ {y} \in SUBSET S
      OBVIOUS
    <3>5. g[r \ {y}] = f[x] + g[(r \ {y}) \ {x}] /\ g[r \ {x}] = f[y] + g[(r \ {x}) \ {y}]
      BY <3>1, <3>3, <3>4
    <3>6. g[(r \ {x}) \ {y}] \in Int /\ f[x] \in Int /\ f[y] \in Int
      BY <1>1, <2>2, <3>4
    <3> DEFINE z == g[(r \ {x}) \ {y}]
    <3>7. g[r \ {y}] = f[x] + z /\ g[r \ {x}] = f[y] + z /\ z \in Int
      BY <3>2, <3>5, <3>6
    <3> HIDE DEF z
    <3>8. f[y] + (f[x] + z) = f[x] + (f[y] + z)
      BY <3>6, <3>7
    <3> QED
      BY <2>2, <3>7, <3>8
  <2> QED
    BY <2>3, <2>4
<1>4. M \subseteq Nat
  OBVIOUS
<1> HIDE DEF M
<1>5. M = Nat
  BY <1>2, <1>3, <1>4, Induct
<1> QED
  <2> TAKE s \in SUBSET S
  <2>1. Cardinality(s) \in M
    BY <1>5, FS_Subset, FS_CardinalityType
  <2> QED
    BY <2>1 DEF M

LEMMA SumIs ==
    ASSUME NEW f, NEW S, IsFiniteSet(S)
    PROVE  \E g : Sums(g, f, S) /\ Sum(f, S) = g[S]
<1>1. Sums((CHOOSE g : Sums(g, f, S)), f, S)
  BY SumsExist
<1> QED
  BY <1>1 DEF Sum

LEMMA SumOfNone ==
    ASSUME NEW f
    PROVE  Sum(f, {}) = 0
<1>1. PICK g : Sums(g, f, {}) /\ Sum(f, {}) = g[{}]
  BY SumIs, FS_EmptySet
<1> QED
  BY <1>1 DEF Sums

LEMMA SumIsInt ==
    ASSUME NEW f, NEW S, IsFiniteSet(S), \A x \in S : f[x] \in Int
    PROVE  Sum(f, S) \in Int
<1>1. PICK g : Sums(g, f, S) /\ Sum(f, S) = g[S]
  BY SumIs
<1> QED
  BY <1>1, SumsAreInt

LEMMA SumOfSame ==
    ASSUME NEW f, NEW e, NEW S, IsFiniteSet(S), \A x \in S : f[x] = e[x]
    PROVE  Sum(f, S) = Sum(e, S)
<1>1. PICK g : Sums(g, f, S) /\ Sum(f, S) = g[S]
  BY SumIs
<1>2. PICK h : Sums(h, e, S) /\ Sum(e, S) = h[S]
  BY SumIs
<1>3. g[S] = h[S]
  BY <1>1, <1>2, SumsAgree
<1> QED
  BY <1>1, <1>2, <1>3

\* One term more.
LEMMA SumOfMore ==
    ASSUME NEW f, NEW S, IsFiniteSet(S), NEW x, x \notin S, \A y \in S \cup {x} : f[y] \in Int
    PROVE  Sum(f, S \cup {x}) = Sum(f, S) + f[x]
<1> DEFINE R == S \cup {x}
<1>1. IsFiniteSet(R)
  BY FS_AddElement
<1>2. R \ {x} = S /\ S \in SUBSET R /\ x \in R
  OBVIOUS
<1>3. PICK g : Sums(g, f, R) /\ Sum(f, R) = g[R]
  BY <1>1, SumIs
<1>4. PICK h : Sums(h, f, S) /\ Sum(f, S) = h[S]
  BY SumIs
<1>5. g[S] = h[S]
  BY <1>2, <1>3, <1>4, SumsAgree
<1> HIDE DEF R
<1>6. g[R] = f[x] + g[S]
  BY <1>1, <1>2, <1>3, SumsTakeApart DEF R
<1>7. f[x] \in Int /\ g[S] \in Int
  BY <1>1, <1>2, <1>3, SumsAreInt DEF R
<1> QED
  BY <1>3, <1>4, <1>5, <1>6, <1>7 DEF R

\* What MapThenSumSet returns.
LEMMA SumIsTheSum ==
    ASSUME NEW f, NEW S, IsFiniteSet(S), NEW g, Sums(g, f, S)
    PROVE  g[S] = Sum(f, S)
<1>1. PICK h : Sums(h, f, S) /\ Sum(f, S) = h[S]
  BY SumIs
<1> QED
  BY <1>1, SumsAgree

-----------------------------------------------------------------------------
(* The n-grams *)

NgramTerms(matches, window, b) ==
    [k \in DOMAIN matches |-> LET j == b - matches[k].end + window
                              IN  IF j \in 0 .. 2 * window - 1 THEN matches[k].vec[j] ELSE 0]

LEMMA NgramSumIs ==
    ASSUME NEW matches, NEW window, NEW b, IsFiniteSet(DOMAIN matches)
    PROVE  NgramSum(matches, window, b) = Sum(NgramTerms(matches, window, b), DOMAIN matches)
<1> DEFINE S == DOMAIN matches
           f == NgramTerms(matches, window, b)
           term(k) == LET j == b - matches[k].end + window
                      IN  IF j \in 0 .. 2 * window - 1 THEN matches[k].vec[j] ELSE 0
           Recurs(g) == g = [s \in SUBSET S |-> IF s = {} THEN 0 ELSE term(CHOOSE x \in s : TRUE)
                                                                      + g[s \ {CHOOSE x \in s : TRUE}]]
           total == CHOOSE g : Recurs(g)
<1>1. NgramSum(matches, window, b) = total[S]
  BY DEF NgramSum, MapThenSumSet, MapThenFoldSet
<1>2. \A k \in S : f[k] = term(k)
  BY DEF NgramTerms
<1> HIDE DEF term, f
<1>3. \A s \in SUBSET S : s # {} => f[CHOOSE x \in s : TRUE] = term(CHOOSE x \in s : TRUE)
  BY <1>2
<1>4. \A g : [s \in SUBSET S |-> IF s = {} THEN 0 ELSE f[CHOOSE x \in s : TRUE] + g[s \ {CHOOSE x \in s : TRUE}]]
             = [s \in SUBSET S |-> IF s = {} THEN 0 ELSE term(CHOOSE x \in s : TRUE) + g[s \ {CHOOSE x \in s : TRUE}]]
  BY <1>3
<1>5. \A g : Sums(g, f, S) <=> Recurs(g)
  <2> TAKE g
  <2> DEFINE A == [s \in SUBSET S |-> IF s = {} THEN 0 ELSE f[CHOOSE x \in s : TRUE] + g[s \ {CHOOSE x \in s : TRUE}]]
             B == [s \in SUBSET S |-> IF s = {} THEN 0 ELSE term(CHOOSE x \in s : TRUE)
                                                             + g[s \ {CHOOSE x \in s : TRUE}]]
  <2>1. A = B
    BY <1>4, Zenon
  <2>2. Sums(g, f, S) <=> g = A
    BY DEF Sums
  <2>3. Recurs(g) <=> g = B
    OBVIOUS
  <2> HIDE DEF A, B, Recurs
  <2> QED
    BY <2>1, <2>2, <2>3
<1>6. Recurs(total)
  <2>1. \E g : Sums(g, f, S)
    BY SumsExist
  <2> HIDE DEF Recurs
  <2>2. \E g : Recurs(g)
    BY <1>5, <2>1
  <2> QED
    BY <2>2, Zenon
<1> HIDE DEF Recurs, total
<1> QED
  BY <1>1, <1>5, <1>6, SumIsTheSum DEF f

LEMMA TermIsInt ==
    ASSUME NEW matches, NEW n \in Nat, NEW window \in Nat, NEW k \in DOMAIN matches,
           FitsWindow(matches[k], n, window), NEW b
    PROVE  NgramTerms(matches, window, b)[k] \in Int
<1> DEFINE j == b - matches[k].end + window
<1>1. PICK size \in Int : matches[k].vec \in [0 .. size - 1 -> Int] /\ size >= 2 * window
  BY DEF FitsWindow
<1>2. NgramTerms(matches, window, b)[k] = IF j \in 0 .. 2 * window - 1 THEN matches[k].vec[j] ELSE 0
  BY DEF NgramTerms
<1> HIDE DEF j
<1>3. CASE j \in 0 .. 2 * window - 1
  <2>1. j \in 0 .. size - 1
    BY <1>1, <1>3
  <2> QED
    BY <1>1, <1>2, <1>3, <2>1
<1>4. CASE j \notin 0 .. 2 * window - 1
  BY <1>2, <1>4
<1> QED
  BY <1>3, <1>4

\* The clipped window leaves no boundary of the sentence out.
LEMMA ClippedIsWindow ==
    ASSUME sentence.n \in Nat, NEW window \in Nat, NEW end \in 0 .. sentence.n - 1, NEW b \in Boundaries
    PROVE  /\ b - (end - window) = b - end + window
           /\ b - (end - window) \in Clipped(end, window) <=> b - end + window \in 0 .. 2 * window - 1
<1> DEFINE from == end - window
           j == b - from
<1>1. from \in Int /\ -from \in Int /\ 2 * window \in Int /\ Len1 - from \in Int /\ Len1 = sentence.n - 1
  BY DEF Len1
<1>2. Clipped(end, window) = Max({0, -from}) .. Min({2 * window, Len1 - from}) - 1
  BY DEF Clipped
<1>3. b \in Int /\ 0 <= b /\ b < Len1
  BY <1>1 DEF Boundaries
<1>4. j = b - end + window
  BY <1>3
<1>10. j \in Int /\ from + j = b
  BY <1>1, <1>3
<1> HIDE DEF from, j
<1>5. 0 \in Int
  OBVIOUS
<1>6. Max({0, -from}) = IF 0 >= -from THEN 0 ELSE -from
  BY <1>1, <1>5, OfTwo, Zenon
<1>7. Min({2 * window, Len1 - from}) = IF 2 * window <= Len1 - from THEN 2 * window ELSE Len1 - from
  BY <1>1, OfTwo, Zenon
<1>8. j \in Clipped(end, window) <=> j \in 0 .. 2 * window - 1
  <2> DEFINE lo == Max({0, -from})
             hi == Min({2 * window, Len1 - from})
  <2>1. lo = (IF 0 >= -from THEN 0 ELSE -from) /\ hi = IF 2 * window <= Len1 - from THEN 2 * window ELSE Len1 - from
    BY <1>6, <1>7
  <2>2. Clipped(end, window) = lo .. hi - 1
    BY <1>2
  <2> HIDE DEF lo, hi
  <2>3. lo \in Int /\ hi \in Int
    BY <1>1, <2>1
  <2>4. lo <= j <=> 0 <= j
    BY <1>1, <1>3, <1>10, <2>1
  <2>5. j <= hi - 1 <=> j <= 2 * window - 1
    BY <1>1, <1>3, <1>10, <2>1
  <2> QED
    BY <1>1, <1>10, <2>2, <2>3, <2>4, <2>5
<1> QED
  BY <1>4, <1>8 DEF from, j

LEMMA PrefixIsFinite ==
    ASSUME NEW n \in Int
    PROVE  IsFiniteSet(1 .. n)
BY FS_Interval

\* A match adds its term to every boundary.
LEMMA MatchAdds ==
    ASSUME sentence.n \in Nat, NEW matches, NEW window \in Nat, IsList(matches),
           \A k \in DOMAIN matches : FitsWindow(matches[k], sentence.n, window),
           next \in 1 .. Len(matches), AddNgram(matches[next], window), NEW b \in Boundaries, NEW base \in Int,
           scores[b] = base + Sum(NgramTerms(matches, window, b), 1 .. next - 1)
    PROVE  scores'[b] = base + Sum(NgramTerms(matches, window, b), 1 .. next)
<1> DEFINE f == NgramTerms(matches, window, b)
           end == matches[next].end
<1>1. \A k \in 1 .. next : k \in DOMAIN matches
  BY DEF IsList
<1>2. \A k \in 1 .. next : f[k] \in Int
  BY <1>1, TermIsInt
<1>3. 1 .. next = (1 .. next - 1) \cup {next} /\ next \notin 1 .. next - 1 /\ IsFiniteSet(1 .. next - 1)
  BY PrefixIsFinite
<1>4. end \in 0 .. sentence.n - 1
  BY <1>1 DEF FitsWindow
<1>5. scores'[b] = scores[b] + (IF b - (end - window) \in Clipped(end, window)
                                THEN matches[next].vec[b - (end - window)] ELSE 0)
  BY DEF AddNgram
<1>6. f[next] = IF b - end + window \in 0 .. 2 * window - 1 THEN matches[next].vec[b - end + window] ELSE 0
  BY <1>1 DEF NgramTerms
<1> HIDE DEF f, end
<1>7. scores'[b] = scores[b] + f[next]
  BY <1>4, <1>5, <1>6, ClippedIsWindow
<1>8. Sum(f, 1 .. next) = Sum(f, 1 .. next - 1) + f[next]
  BY <1>2, <1>3, SumOfMore
<1>9. Sum(f, 1 .. next - 1) \in Int /\ f[next] \in Int
  <2>1. \A k \in 1 .. next - 1 : f[k] \in Int
    BY <1>2, <1>3
  <2> QED
    BY <1>2, <1>3, <2>1, SumIsInt
<1> QED
  BY <1>7, <1>8, <1>9 DEF f

-----------------------------------------------------------------------------
(* The features of the dictionary and their flags *)

\* Of a dictionary, for words of a length, of a kind; where its label is in a row.
Features == (0 .. model.numDicts - 1) \X (1 .. model.dictN) \X (0 .. 2)
Column(f) == 3 * (f[2] - 1) + f[3]
MarkFor(f, b) == MarkOf(f[1], b, Column(f))

LEMMA ColumnOf ==
    ASSUME NEW N \in Nat, NEW col \in 0 .. 3 * N - 1
    PROVE  \E len \in 1 .. N, kind \in 0 .. 2 : col = 3 * (len - 1) + kind
<1> DEFINE q == col \div 3
           r == col % 3
<1>1. col = 3 * q + r /\ q \in Int /\ r \in 0 .. 2
  OBVIOUS
<1> HIDE DEF q, r
<1>2. q + 1 \in 1 .. N /\ col = 3 * ((q + 1) - 1) + r
  BY <1>1
<1> QED
  BY <1>1, <1>2

LEMMA ColumnUnique ==
    ASSUME NEW a \in Int, NEW c \in Int, NEW i \in 0 .. 2, NEW j \in 0 .. 2, 3 * (a - 1) + i = 3 * (c - 1) + j
    PROVE  a = c /\ i = j
OBVIOUS

SamePlace(B, a, b, c, d) == a * B + b = c * B + d

LEMMA RowUnique ==
    ASSUME NEW B \in Int, NEW a \in Int, NEW c \in Int, NEW b \in 0 .. B - 1, NEW d \in 0 .. B - 1,
           SamePlace(B, a, b, c, d)
    PROVE  a = c /\ b = d
<1>0. a * B + b = c * B + d
  BY DEF SamePlace
<1>1. ASSUME NEW x \in Int, NEW y \in Int, NEW p \in 0 .. B - 1, NEW q \in 0 .. B - 1,
             x * B + p = y * B + q, x < y
      PROVE  FALSE
  <2>1. y - x - 1 \in Nat /\ B \in Nat
    BY <1>1
  <2>2. (y - x - 1) * B \in Nat
    BY <2>1
  <2>3. (y - x - 1) * B = y * B - x * B - B
    BY <1>1
  <2>4. x * B \in Int /\ y * B \in Int
    BY <1>1
  <2> QED
    BY <1>1, <2>2, <2>3, <2>4
<1>2. ~(a < c)
  BY <1>0, <1>1
<1>3. ~(c < a)
  BY <1>0, <1>1
<1>4. a = c
  BY <1>2, <1>3
<1>5. a * B \in Int
  OBVIOUS
<1> QED
  BY <1>0, <1>4, <1>5

\* A label's column is one of the row's.
LEMMA ColumnFits ==
    ASSUME NEW f \in Features, model.dictN \in Nat, model.numDicts \in Int
    PROVE  /\ f[1] \in 0 .. model.numDicts - 1 /\ f[2] \in 1 .. model.dictN /\ f[3] \in 0 .. 2
           /\ Column(f) \in 0 .. stride - 1 /\ f = <<f[1], f[2], f[3]>>
<1>1. f[1] \in 0 .. model.numDicts - 1 /\ f[2] \in 1 .. model.dictN /\ f[3] \in 0 .. 2 /\ f = <<f[1], f[2], f[3]>>
  BY DEF Features
<1>2. 3 * (f[2] - 1) + f[3] \in 0 .. 3 * model.dictN - 1
  BY <1>1
<1> QED
  BY <1>1, <1>2 DEF Column, stride

\* What the sizes of the scratch are.
LEMMA SizesAre ==
    ASSUME model.dictN \in Nat, sentence.n \in Nat
    PROVE  /\ stride \in Int /\ Len1 \in Int /\ dictLen \in Int /\ Boundaries = 0 .. Len1 - 1
           /\ dictLen = Len1 * stride /\ stride = 3 * model.dictN
<1>1. stride = 3 * model.dictN /\ stride \in Int
  BY DEF stride
<1>2. Len1 = sentence.n - 1 /\ Len1 \in Int
  BY DEF Len1
<1>3. Boundaries = 0 .. Len1 - 1
  BY <1>2 DEF Boundaries
<1>4. dictLen = Len1 * stride
  BY DEF dictLen
<1>5. Len1 * stride \in Int
  BY <1>1, <1>2
<1> QED
  BY <1>1, <1>2, <1>3, <1>4, <1>5

\* A slot is a place in the row of a boundary, which is a place in the rows of a dictionary.
LEMMA SlotIs ==
    ASSUME model.dictN \in Nat, model.numDicts \in Int, sentence.n \in Nat,
           NEW di, NEW pos, NEW col, InSet(di, pos, col)
    PROVE  /\ MarkOf(di, pos, col).slot = di * dictLen + (pos * stride + col)
           /\ pos * stride + col \in 0 .. dictLen - 1
           /\ MarkOf(di, pos, col).slot \in 0 .. model.numDicts * dictLen - 1
           /\ MarkOf(di, pos, col).pos = pos /\ MarkOf(di, pos, col).weight = di * stride + col
<1>1. /\ stride \in Int /\ Len1 \in Int /\ dictLen \in Int /\ Boundaries = 0 .. Len1 - 1
      /\ dictLen = Len1 * stride
  BY SizesAre
<1>2. di \in 0 .. model.numDicts - 1 /\ pos \in 0 .. Len1 - 1 /\ col \in 0 .. stride - 1
  BY <1>1 DEF InSet
<1>3. pos * stride + col \in 0 .. dictLen - 1
  BY <1>1, <1>2, RowMajor
<1>4. di * dictLen + (pos * stride + col) \in 0 .. model.numDicts * dictLen - 1
  BY <1>1, <1>2, <1>3, RowMajor
<1>5. /\ MarkOf(di, pos, col).slot = di * dictLen + pos * stride + col
      /\ MarkOf(di, pos, col).pos = pos /\ MarkOf(di, pos, col).weight = di * stride + col
  BY DEF MarkOf
<1>6. di \in Int /\ pos \in Int /\ col \in Int
  BY <1>2
<1>7. di * dictLen \in Int /\ pos * stride \in Int
  BY <1>1, <1>6, ProductIsInt
<1>8. di * dictLen + pos * stride + col = di * dictLen + (pos * stride + col)
  BY <1>6, <1>7
<1> QED
  BY <1>3, <1>4, <1>5, <1>8

LEMMA FeatureInSet ==
    ASSUME model.dictN \in Nat, model.numDicts \in Int, NEW f \in Features, NEW b \in Boundaries
    PROVE  InSet(f[1], b, Column(f))
BY ColumnFits DEF InSet

\* No two features, and no two boundaries, share a flag.
LEMMA SlotUnique ==
    ASSUME model.dictN \in Nat, model.numDicts \in Int, sentence.n \in Nat,
           NEW f \in Features, NEW g \in Features, NEW b \in Boundaries, NEW c \in Boundaries,
           MarkFor(f, b).slot = MarkFor(g, c).slot
    PROVE  f = g /\ b = c
<1>1. /\ stride \in Int /\ Len1 \in Int /\ dictLen \in Int /\ Boundaries = 0 .. Len1 - 1
  BY SizesAre
<1>2. /\ f[1] \in Int /\ f[2] \in Int /\ f[3] \in 0 .. 2 /\ Column(f) \in 0 .. stride - 1 /\ f = <<f[1], f[2], f[3]>>
      /\ g[1] \in Int /\ g[2] \in Int /\ g[3] \in 0 .. 2 /\ Column(g) \in 0 .. stride - 1 /\ g = <<g[1], g[2], g[3]>>
      /\ b \in Int /\ c \in Int
  BY <1>1, ColumnFits
<1>3. /\ MarkFor(f, b).slot = f[1] * dictLen + (b * stride + Column(f))
      /\ b * stride + Column(f) \in 0 .. dictLen - 1
  BY FeatureInSet, SlotIs DEF MarkFor
<1>4. /\ MarkFor(g, c).slot = g[1] * dictLen + (c * stride + Column(g))
      /\ c * stride + Column(g) \in 0 .. dictLen - 1
  BY FeatureInSet, SlotIs DEF MarkFor
<1>5. f[1] = g[1] /\ b * stride + Column(f) = c * stride + Column(g)
  <2> DEFINE p == b * stride + Column(f)
             q == c * stride + Column(g)
             x == f[1]
             y == g[1]
  <2>1. /\ p \in 0 .. dictLen - 1 /\ q \in 0 .. dictLen - 1 /\ x \in Int /\ y \in Int /\ dictLen \in Int
        /\ SamePlace(dictLen, x, p, y, q)
    BY <1>1, <1>2, <1>3, <1>4 DEF SamePlace
  <2> HIDE DEF p, q, x, y
  <2>2. x = y /\ p = q
    BY <2>1, RowUnique
  <2> QED
    BY <2>2 DEF p, q, x, y
<1>6. b = c /\ Column(f) = Column(g)
  BY <1>1, <1>2, <1>5, RowUnique DEF SamePlace
<1>7. f[2] = g[2] /\ f[3] = g[3]
  BY <1>2, <1>6, ColumnUnique DEF Column
<1> QED
  BY <1>2, <1>5, <1>6, <1>7

\* The weight of a feature.
Weights == [f \in Features |-> model.dictVector[f[1] * stride + 3 * (f[2] - 1) + f[3]]]

LEMMA WeightIs ==
    ASSUME SoundModel(model), sentence.n \in Nat, model.wordDict.states # NoStates, model.dictVector # <<>>,
           NEW f \in Features, NEW b \in Boundaries
    PROVE  Weights[f] = model.dictVector[MarkFor(f, b).weight] /\ Weights[f] \in Int
<1>1. /\ model.dictN \in Nat /\ model.numDicts \in Int /\ IsVector(model.dictVector)
      /\ Cardinality(DOMAIN model.dictVector) >= model.numDicts * 3 * model.dictN
  BY DEF SoundModel
<1>2. stride \in Int /\ stride = 3 * model.dictN
  BY <1>1, SizesAre
<1>3. /\ f[1] \in 0 .. model.numDicts - 1 /\ f[2] \in Int /\ f[3] \in Int /\ Column(f) \in 0 .. stride - 1
  BY <1>1, ColumnFits
<1> DEFINE k == f[1] * stride + Column(f)
<1>4. k \in 0 .. model.numDicts * stride - 1
  BY <1>1, <1>2, <1>3, RowMajor
<1>5. model.numDicts * 3 * model.dictN = model.numDicts * stride /\ model.numDicts * stride \in Int
  BY <1>1, <1>2, TimesThree, ProductIsInt
<1>6. PICK size \in Int : model.dictVector \in [0 .. size - 1 -> Int]
  BY <1>1 DEF IsVector
<1>7. Cardinality(0 .. size - 1) = IF 0 > size - 1 THEN 0 ELSE size
  BY FS_Interval
<1>8. DOMAIN model.dictVector = 0 .. size - 1
  BY <1>6
<1>9. MarkFor(f, b).weight = k
  BY DEF MarkFor, MarkOf
<1>10. Weights[f] = model.dictVector[k]
  <2>1. f[1] * stride \in Int
    BY <1>2, <1>3, ProductIsInt
  <2>2. f[1] * stride + 3 * (f[2] - 1) + f[3] = k
    BY <1>3, <2>1 DEF Column
  <2> HIDE DEF k
  <2> QED
    BY <2>2 DEF Weights
<1> HIDE DEF k
<1>11. k \in 0 .. size - 1
  BY <1>1, <1>4, <1>5, <1>7, <1>8
<1> QED
  BY <1>6, <1>9, <1>10, <1>11

-----------------------------------------------------------------------------
(* The marks of a match are the features it has *)

LEMMA RangeJoins ==
    ASSUME NEW S, NEW p \in Seq(S), NEW q \in Seq(S)
    PROVE  Range(p \o q) = Range(p) \cup Range(q)
<1>1. /\ Len(p) \in Nat /\ Len(q) \in Nat /\ DOMAIN p = 1 .. Len(p) /\ DOMAIN q = 1 .. Len(q)
      /\ DOMAIN (p \o q) = 1 .. Len(p) + Len(q)
      /\ \A k \in 1 .. Len(p) + Len(q) : (p \o q)[k] = IF k <= Len(p) THEN p[k] ELSE q[k - Len(p)]
  BY ConcatProperties
<1> DEFINE m == Len(p)
           n == Len(q)
           r == p \o q
<1>2. /\ m \in Nat /\ n \in Nat /\ DOMAIN p = 1 .. m /\ DOMAIN q = 1 .. n /\ DOMAIN r = 1 .. m + n
      /\ \A k \in 1 .. m + n : r[k] = IF k <= m THEN p[k] ELSE q[k - m]
  BY <1>1
<1> HIDE DEF m, n, r
<1>3. ASSUME NEW k \in DOMAIN r PROVE r[k] \in Range(p) \cup Range(q)
  <2>1. CASE k <= m
    <3>1. k \in DOMAIN p /\ r[k] = p[k]
      BY <1>2, <2>1
    <3> QED
      BY <3>1 DEF Range
  <2>2. CASE ~(k <= m)
    <3>1. k - m \in DOMAIN q /\ r[k] = q[k - m]
      BY <1>2, <2>2
    <3> QED
      BY <3>1 DEF Range
  <2> QED
    BY <2>1, <2>2
<1>4. ASSUME NEW k \in DOMAIN p PROVE p[k] \in Range(r)
  <2>1. k \in DOMAIN r /\ r[k] = p[k]
    BY <1>2
  <2> QED
    BY <2>1 DEF Range
<1>5. ASSUME NEW k \in DOMAIN q PROVE q[k] \in Range(r)
  <2>1. m + k \in DOMAIN r /\ r[m + k] = q[k]
    <3>1. (m + k) - m = k /\ m + k \in 1 .. m + n /\ ~(m + k <= m)
      BY <1>2
    <3> QED
      BY <1>2, <3>1
  <2> QED
    BY <2>1 DEF Range
<1>6. Range(r) \subseteq Range(p) \cup Range(q)
  BY <1>3 DEF Range
<1>7. Range(p) \subseteq Range(r) /\ Range(q) \subseteq Range(r)
  BY <1>4, <1>5 DEF Range
<1> QED
  BY <1>6, <1>7 DEF r

\* What a flattened sequence holds.
LEMMA RangeFlattens ==
    ASSUME NEW S, NEW seqs \in Seq(Seq(S))
    PROVE  Range(FlattenSeq(seqs)) = UNION {Range(seqs[i]) : i \in DOMAIN seqs}
<1> DEFINE n == Len(seqs)
           f == CHOOSE g : g = [i \in 1 .. n |-> IF i = 1 THEN seqs[i] ELSE g[i - 1] \o seqs[i]]
           upTo(k) == UNION {Range(seqs[i]) : i \in 1 .. k}
<1>1. n \in Nat /\ DOMAIN seqs = 1 .. n /\ \A i \in 1 .. n : seqs[i] \in Seq(S)
  OBVIOUS
<1>2. CASE n = 0
  <2>1. FlattenSeq(seqs) = <<>> /\ DOMAIN seqs = {}
    BY <1>1, <1>2 DEF FlattenSeq
  <2> QED
    BY <2>1 DEF Range
<1>3. CASE n # 0
  <2>1. FlattenSeq(seqs) = f[n]
    BY <1>3 DEF FlattenSeq
  <2>2. f = [i \in 1 .. n |-> IF i = 1 THEN seqs[i] ELSE f[i - 1] \o seqs[i]]
    BY <1>1, FlattensExists DEF Flattens
  <2> HIDE DEF f
  <2>3. \A i \in 1 .. n : f[i] = IF i = 1 THEN seqs[i] ELSE f[i - 1] \o seqs[i]
    BY <2>2
  <2> HIDE DEF n, upTo
  <2> DEFINE Good(k) == k \in 1 .. n => f[k] \in Seq(S) /\ Range(f[k]) = upTo(k)
             T == {k \in Nat : Good(k + 1)}
  <2>4. Good(0 + 1)
    <3> SUFFICES ASSUME 1 \in 1 .. n PROVE f[1] \in Seq(S) /\ Range(f[1]) = upTo(1)
      OBVIOUS
    <3>1. f[1] = seqs[1] /\ seqs[1] \in Seq(S)
      BY <1>1, <2>3
    <3>2. upTo(1) = Range(seqs[1])
      BY DEF upTo
    <3> QED
      BY <3>1, <3>2
  <2>5. ASSUME NEW k \in Nat, Good(k + 1) PROVE Good((k + 1) + 1)
    <3> SUFFICES ASSUME (k + 1) + 1 \in 1 .. n
                 PROVE  f[(k + 1) + 1] \in Seq(S) /\ Range(f[(k + 1) + 1]) = upTo((k + 1) + 1)
      OBVIOUS
    <3> DEFINE i == (k + 1) + 1
    <3>1. i \in 1 .. n /\ i # 1 /\ i - 1 = k + 1 /\ k + 1 \in 1 .. n /\ 1 .. i = (1 .. k + 1) \cup {i}
      BY <1>1
    <3> HIDE DEF i
    <3>2. f[k + 1] \in Seq(S) /\ Range(f[k + 1]) = upTo(k + 1)
      BY <2>5, <3>1
    <3>3. f[i] = f[k + 1] \o seqs[i] /\ seqs[i] \in Seq(S)
      BY <1>1, <2>3, <3>1
    <3>4. f[i] \in Seq(S) /\ Range(f[i]) = upTo(k + 1) \cup Range(seqs[i])
      BY <3>2, <3>3, RangeJoins, ConcatProperties
    <3>5. upTo(i) = upTo(k + 1) \cup Range(seqs[i])
      BY <3>1 DEF upTo
    <3> QED
      BY <3>4, <3>5 DEF i
  <2> HIDE DEF Good
  <2>6. T = Nat
    <3>1. 0 \in T /\ \A k \in T : k + 1 \in T
      BY <2>4, <2>5
    <3>2. T \subseteq Nat
      OBVIOUS
    <3> HIDE DEF T
    <3> QED
      BY <3>1, <3>2, Induct
  <2>7. Good(n)
    <3>1. n - 1 \in Nat /\ (n - 1) + 1 = n
      BY <1>1, <1>3 DEF n
    <3>2. \A k \in Nat : Good(k + 1)
      BY <2>6
    <3>3. Good((n - 1) + 1)
      BY <3>1, <3>2
    <3> QED
      BY <3>1, <3>3
  <2>8. Range(f[n]) = upTo(n)
    BY <1>1, <1>3, <2>7 DEF Good
  <2> QED
    BY <1>1, <2>1, <2>8 DEF upTo
<1> QED
  BY <1>2, <1>3

\* The mark that a word makes of a kind.
HasMark(di, w, kind, m) == \E b \in Boundaries : kind \in KindsAt(w, b) /\ m = MarkOf(di, b, Label(w) + kind)

LEMMA KindsAre ==
    ASSUME NEW w, NEW b
    PROVE  /\ KindsAt(w, b) \subseteq 0 .. 2
           /\ 0 \in KindsAt(w, b) <=> b = w.end - w.wlen
           /\ 1 \in KindsAt(w, b) <=> b > w.end - w.wlen /\ b < w.end
           /\ 2 \in KindsAt(w, b) <=> b = w.end
<1>1. 0 # 1 /\ 0 # 2 /\ 1 # 2 /\ 0 \in 0 .. 2 /\ 1 \in 0 .. 2 /\ 2 \in 0 .. 2
  OBVIOUS
<1> QED
  BY <1>1 DEF KindsAt

LEMMA MarksInAre ==
    ASSUME SoundModel(model), sentence.n \in Nat, NEW w, FitsText(w, sentence.n, model), model.dictN # 0,
           NEW di \in w.in_dict, NEW m
    PROVE  m \in Range(MarksIn(di, w)) <=> \E kind \in 0 .. 2 : HasMark(di, w, kind, m)
<1> DEFINE left == LeftOf(di, w)
           inside == InsideOf(di, w)
           right == RightOf(di, w)
           n == sentence.n
           end == w.end
           wlen == w.wlen
           label == Label(w)
<1>1. /\ n \in Nat /\ end \in 0 .. n - 1 /\ wlen \in 1 .. end + 1 /\ Boundaries = 0 .. n - 2 /\ Len1 = n - 1
      /\ label \in Int
  <2>1. /\ n \in Nat /\ end \in 0 .. n - 1 /\ wlen \in 1 .. end + 1 /\ model.dictN \in Nat \ {0}
    BY DEF SoundModel, FitsText
  <2>2. wlen \in Nat \ {0} /\ stride = 3 * model.dictN
    BY <2>1 DEF stride
  <2>3. label \in 0 .. stride - 1
    BY <2>1, <2>2, LabelColumns
  <2>4. stride \in Int
    BY <2>1, <2>2
  <2> QED
    BY <2>1, <2>3, <2>4 DEF Boundaries, Len1
<1>2. \A b : /\ 0 \in KindsAt(w, b) <=> b = end - wlen
             /\ 1 \in KindsAt(w, b) <=> b > end - wlen /\ b < end
             /\ 2 \in KindsAt(w, b) <=> b = end
  BY KindsAre
<1>3. /\ left = IF end >= wlen THEN <<MarkOf(di, end - wlen, label)>> ELSE <<>>
      /\ inside = [k \in 1 .. wlen - 1 |-> MarkOf(di, end - wlen + k, label + 1)]
      /\ right = IF end # Len1 THEN <<MarkOf(di, end, label + 2)>> ELSE <<>>
  BY DEF LeftOf, InsideOf, RightOf, RightEdge
<1>4. \A kind : HasMark(di, w, kind, m) <=> \E b \in Boundaries : kind \in KindsAt(w, b) /\ m = MarkOf(di, b, label + kind)
  BY DEF HasMark
<1>5. label + 0 = label
  BY <1>1
<1> HIDE DEF left, inside, right, n, end, wlen, label
<1>6. m \in Range(left) <=> HasMark(di, w, 0, m)
  <2>1. end >= wlen <=> end - wlen \in Boundaries
    BY <1>1
  <2>2. HasMark(di, w, 0, m) <=> end - wlen \in Boundaries /\ m = MarkOf(di, end - wlen, label)
    BY <1>2, <1>4, <1>5
  <2>3. Range(left) = IF end >= wlen THEN {MarkOf(di, end - wlen, label)} ELSE {}
    BY <1>3 DEF Range
  <2> QED
    BY <2>1, <2>2, <2>3
<1>7. m \in Range(right) <=> HasMark(di, w, 2, m)
  <2>1. end # Len1 <=> end \in Boundaries
    BY <1>1
  <2>2. HasMark(di, w, 2, m) <=> end \in Boundaries /\ m = MarkOf(di, end, label + 2)
    BY <1>2, <1>4
  <2>3. Range(right) = IF end # Len1 THEN {MarkOf(di, end, label + 2)} ELSE {}
    BY <1>3 DEF Range
  <2> QED
    BY <2>1, <2>2, <2>3
<1>8. m \in Range(inside) <=> HasMark(di, w, 1, m)
  <2>1. ASSUME NEW k \in 1 .. wlen - 1, m = MarkOf(di, end - wlen + k, label + 1)
        PROVE  HasMark(di, w, 1, m)
    <3> DEFINE b == end - wlen + k
    <3>1. b \in Boundaries /\ b > end - wlen /\ b < end /\ m = MarkOf(di, b, label + 1)
      BY <1>1, <2>1
    <3> HIDE DEF b
    <3> QED
      BY <1>2, <1>4, <3>1
  <2>2. ASSUME NEW b \in Boundaries, b > end - wlen, b < end, m = MarkOf(di, b, label + 1)
        PROVE  m \in Range(inside)
    <3> DEFINE k == b - (end - wlen)
    <3>1. k \in 1 .. wlen - 1 /\ end - wlen + k = b
      BY <1>1, <2>2
    <3> HIDE DEF k
    <3>2. k \in DOMAIN inside /\ inside[k] = m
      BY <1>3, <2>2, <3>1
    <3> QED
      BY <3>2 DEF Range
  <2>3. m \in Range(inside) => \E k \in 1 .. wlen - 1 : m = MarkOf(di, end - wlen + k, label + 1)
    BY <1>3 DEF Range
  <2>4. HasMark(di, w, 1, m) => \E b \in Boundaries : b > end - wlen /\ b < end /\ m = MarkOf(di, b, label + 1)
    BY <1>2, <1>4
  <2> QED
    BY <2>1, <2>2, <2>3, <2>4
<1>9. Range(MarksIn(di, w)) = Range(left) \cup Range(inside) \cup Range(right)
  <2>1. left \in Seq(MarkSet) /\ inside \in Seq(MarkSet) /\ right \in Seq(MarkSet)
        /\ MarksIn(di, w) = left \o inside \o right
    BY PartsAreInSet DEF left, inside, right
  <2> HIDE DEF MarkSet
  <2> DEFINE most == left \o inside
  <2>2. most \in Seq(MarkSet) /\ Range(most) = Range(left) \cup Range(inside)
    BY <2>1, RangeJoins, ConcatProperties
  <2>3. MarksIn(di, w) = most \o right
    BY <2>1
  <2> HIDE DEF most
  <2>4. Range(most \o right) = Range(most) \cup Range(right)
    BY <2>1, <2>2, RangeJoins
  <2> QED
    BY <2>2, <2>3, <2>4
<1>10. \A kind \in 0 .. 2 : kind = 0 \/ kind = 1 \/ kind = 2
  OBVIOUS
<1>11. 0 \in 0 .. 2 /\ 1 \in 0 .. 2 /\ 2 \in 0 .. 2
  OBVIOUS
<1> HIDE DEF HasMark
<1>12. (\E kind \in 0 .. 2 : HasMark(di, w, kind, m)) <=>
          HasMark(di, w, 0, m) \/ HasMark(di, w, 1, m) \/ HasMark(di, w, 2, m)
  BY <1>10, <1>11
<1> QED
  BY <1>6, <1>7, <1>8, <1>9, <1>12

\* The features that a word has at a boundary.
FeaturesOf(w, b) == {<<d, Min({w.wlen, model.dictN}), kind>> : d \in w.in_dict, kind \in KindsAt(w, b)}

LEMMA FeatureOf ==
    ASSUME SoundModel(model), NEW w, FitsText(w, sentence.n, model), sentence.n \in Nat, model.dictN # 0,
           NEW b, NEW f
    PROVE  f \in FeaturesOf(w, b) <=> /\ f \in Features /\ f[1] \in w.in_dict
                                      /\ f[3] \in KindsAt(w, b) /\ Column(f) = Label(w) + f[3]
<1> DEFINE least == Min({w.wlen, model.dictN})
<1>1. /\ model.dictN \in Nat \ {0} /\ w.wlen \in Nat \ {0} /\ model.numDicts \in Int
      /\ w.in_dict \subseteq 0 .. model.numDicts - 1
  BY DEF SoundModel, FitsText
<1>2. least \in 1 .. model.dictN
  BY <1>1, LabelColumns
<1>3. Label(w) = 3 * (least - 1)
  BY DEF Label
<1>4. f \in FeaturesOf(w, b) <=> \E d \in w.in_dict, kind \in KindsAt(w, b) : f = <<d, least, kind>>
  BY DEF FeaturesOf
<1> HIDE DEF least
<1>5. KindsAt(w, b) \subseteq 0 .. 2
  BY KindsAre
<1>6. ASSUME f \in FeaturesOf(w, b)
      PROVE  /\ f \in Features /\ f[1] \in w.in_dict
             /\ f[3] \in KindsAt(w, b) /\ Column(f) = Label(w) + f[3]
  <2>1. PICK d \in w.in_dict, kind \in KindsAt(w, b) : f = <<d, least, kind>>
    BY <1>4, <1>6
  <2>2. f[1] = d /\ f[2] = least /\ f[3] = kind
    BY <2>1
  <2>3. f \in Features
    BY <1>1, <1>2, <1>5, <2>1 DEF Features
  <2> QED
    BY <1>3, <2>2, <2>3 DEF Column
<1>7. ASSUME f \in Features, f[1] \in w.in_dict, f[3] \in KindsAt(w, b), Column(f) = Label(w) + f[3]
      PROVE  f \in FeaturesOf(w, b)
  <2>1. f[2] \in 1 .. model.dictN /\ f[3] \in 0 .. 2 /\ f = <<f[1], f[2], f[3]>>
    BY <1>1, <1>7, ColumnFits
  <2>2. 3 * (f[2] - 1) + f[3] = 3 * (least - 1) + f[3]
    BY <1>3, <1>7 DEF Column
  <2>3. f[2] = least
    <3> DEFINE x == f[2]
               k == f[3]
    <3>1. x \in Int /\ least \in Int /\ k \in 0 .. 2 /\ 3 * (x - 1) + k = 3 * (least - 1) + k
      BY <1>2, <2>1, <2>2
    <3> HIDE DEF x, k
    <3> QED
      BY <3>1, ColumnUnique DEF x
  <2> QED
    BY <1>4, <1>7, <2>1, <2>3
<1> QED
  BY <1>6, <1>7

\* A match marks the features it has, and no others.
LEMMA MarksAreFeatures ==
    ASSUME SoundModel(model), sentence.n \in Nat, NEW w, FitsText(w, sentence.n, model), model.dictN # 0,
           NEW b \in Boundaries, NEW f \in Features
    PROVE  MarkFor(f, b) \in Range(Marks(w)) <=> f \in FeaturesOf(w, b)
<1>1. /\ model.dictN \in Nat /\ model.numDicts \in Int /\ w.in_dict \subseteq 0 .. model.numDicts - 1
      /\ w.wlen \in Nat \ {0} /\ model.dictN \in Nat \ {0}
  BY DEF SoundModel, FitsText
<1>2. Range(Marks(w)) = UNION {Range(ByDict(w)[d]) : d \in 1 .. model.numDicts}
  <2>1. DOMAIN ByDict(w) = 1 .. model.numDicts
    BY DEF ByDict
  <2> HIDE DEF MarkSet
  <2> QED
    BY <2>1, ByDictType, RangeFlattens
<1>3. \A d \in 1 .. model.numDicts :
         ByDict(w)[d] = IF d - 1 \in w.in_dict THEN MarksIn(d - 1, w) ELSE <<>>
  BY DEF ByDict
<1>4. Range(<<>>) = {}
  BY DEF Range
<1> DEFINE m == MarkFor(f, b)
<1>5. m \in Range(Marks(w)) <=> \E di \in w.in_dict : m \in Range(MarksIn(di, w))
  <2>1. ASSUME m \in Range(Marks(w)) PROVE \E di \in w.in_dict : m \in Range(MarksIn(di, w))
    <3>1. PICK d \in 1 .. model.numDicts : m \in Range(ByDict(w)[d])
      BY <1>2, <2>1
    <3>2. d - 1 \in w.in_dict
      BY <1>3, <1>4, <3>1
    <3> QED
      BY <1>3, <3>1, <3>2
  <2>2. ASSUME NEW di \in w.in_dict, m \in Range(MarksIn(di, w)) PROVE m \in Range(Marks(w))
    <3>1. di + 1 \in 1 .. model.numDicts /\ (di + 1) - 1 = di
      BY <1>1
    <3>2. ByDict(w)[di + 1] = MarksIn(di, w)
      BY <1>3, <3>1
    <3> QED
      BY <1>2, <2>2, <3>1, <3>2
  <2> QED
    BY <2>1, <2>2
<1>6. \A di \in w.in_dict : m \in Range(MarksIn(di, w)) <=> \E kind \in 0 .. 2 : HasMark(di, w, kind, m)
  BY MarksInAre
<1>7. ASSUME f \in FeaturesOf(w, b) PROVE m \in Range(Marks(w))
  <2>1. f[1] \in w.in_dict /\ f[3] \in KindsAt(w, b) /\ Column(f) = Label(w) + f[3] /\ f[3] \in 0 .. 2
    BY <1>1, <1>7, FeatureOf, ColumnFits
  <2>2. HasMark(f[1], w, f[3], m)
    BY <2>1 DEF HasMark, MarkFor
  <2> HIDE DEF m
  <2> QED
    BY <1>5, <1>6, <2>1, <2>2
<1>8. ASSUME m \in Range(Marks(w)) PROVE f \in FeaturesOf(w, b)
  <2>1. PICK di \in w.in_dict, kind \in 0 .. 2 : HasMark(di, w, kind, m)
    <3> HIDE DEF m
    <3> QED
      BY <1>5, <1>6, <1>8
  <2>2. PICK c \in Boundaries : kind \in KindsAt(w, c) /\ m = MarkOf(di, c, Label(w) + kind)
    BY <2>1 DEF HasMark
  <2> DEFINE g == <<di, Min({w.wlen, model.dictN}), kind>>
  <2>3. g \in FeaturesOf(w, c)
    BY <2>2 DEF FeaturesOf
  <2>4. g[1] = di /\ g[3] = kind
    OBVIOUS
  <2> HIDE DEF g
  <2>5. g \in Features /\ Column(g) = Label(w) + kind
    BY <2>3, <2>4, FeatureOf
  <2>6. MarkFor(g, c) = MarkFor(f, b)
    BY <2>2, <2>4, <2>5 DEF MarkFor
  <2>7. g = f /\ c = b
    BY <1>1, <2>5, <2>6, SlotUnique
  <2> QED
    BY <2>3, <2>7
<1> QED
  BY <1>7, <1>8

-----------------------------------------------------------------------------
(* The sums of the features *)

FeatureSum(vector, width, S) == MapThenSumSet(LAMBDA f : vector[f[1] * width + 3 * (f[2] - 1) + f[3]], S)

LEMMA FeatureSumIs ==
    ASSUME NEW S, IsFiniteSet(S), S \subseteq Features
    PROVE  FeatureSum(model.dictVector, stride, S) = Sum(Weights, S)
<1> DEFINE f == Weights
           term(x) == model.dictVector[x[1] * stride + 3 * (x[2] - 1) + x[3]]
           Recurs(g) == g = [s \in SUBSET S |-> IF s = {} THEN 0 ELSE term(CHOOSE x \in s : TRUE)
                                                                      + g[s \ {CHOOSE x \in s : TRUE}]]
           total == CHOOSE g : Recurs(g)
<1>1. FeatureSum(model.dictVector, stride, S) = total[S]
  BY DEF FeatureSum, MapThenSumSet, MapThenFoldSet
<1>2. \A x \in S : f[x] = term(x)
  BY DEF Weights
<1> HIDE DEF term, f
<1>3. \A s \in SUBSET S : s # {} => f[CHOOSE x \in s : TRUE] = term(CHOOSE x \in s : TRUE)
  BY <1>2
<1>4. \A g : [s \in SUBSET S |-> IF s = {} THEN 0 ELSE f[CHOOSE x \in s : TRUE] + g[s \ {CHOOSE x \in s : TRUE}]]
             = [s \in SUBSET S |-> IF s = {} THEN 0 ELSE term(CHOOSE x \in s : TRUE) + g[s \ {CHOOSE x \in s : TRUE}]]
  BY <1>3
<1>5. \A g : Sums(g, f, S) <=> Recurs(g)
  <2> TAKE g
  <2> DEFINE A == [s \in SUBSET S |-> IF s = {} THEN 0 ELSE f[CHOOSE x \in s : TRUE] + g[s \ {CHOOSE x \in s : TRUE}]]
             B == [s \in SUBSET S |-> IF s = {} THEN 0 ELSE term(CHOOSE x \in s : TRUE)
                                                             + g[s \ {CHOOSE x \in s : TRUE}]]
  <2>1. A = B
    BY <1>4, Zenon
  <2>2. Sums(g, f, S) <=> g = A
    BY DEF Sums
  <2>3. Recurs(g) <=> g = B
    OBVIOUS
  <2> HIDE DEF A, B, Recurs
  <2> QED
    BY <2>1, <2>2, <2>3
<1>6. Recurs(total)
  <2>1. \E g : Sums(g, f, S)
    BY SumsExist
  <2> HIDE DEF Recurs
  <2>2. \E g : Recurs(g)
    BY <1>5, <2>1
  <2> QED
    BY <2>2, Zenon
<1> HIDE DEF Recurs, total
<1> QED
  BY <1>1, <1>5, <1>6, SumIsTheSum DEF f

LEMMA FeaturesAreFinite ==
    ASSUME model.dictN \in Nat, model.numDicts \in Int, NEW S, S \subseteq Features
    PROVE  IsFiniteSet(S)
<1> DEFINE A == 0 .. model.numDicts - 1
           B == 1 .. model.dictN
           C == 0 .. 2
<1>1. IsFiniteSet(A) /\ IsFiniteSet(B) /\ IsFiniteSet(C)
  <2>1. 0 \in Int /\ 1 \in Int /\ 2 \in Int /\ model.numDicts - 1 \in Int /\ model.dictN \in Int
    OBVIOUS
  <2> QED
    BY <2>1, FS_Interval
<1> HIDE DEF A, B, C
<1>2. IsFiniteSet((A \X B) \X C)
  BY <1>1, FS_Product
<1> DEFINE F == [x \in Features |-> <<<<x[1], x[2]>>, x[3]>>]
<1>3. Features = A \X B \X C
  BY DEF Features, A, B, C
<1>4. F \in Injection(Features, (A \X B) \X C)
  <2>1. \A x \in Features : x[1] \in A /\ x[2] \in B /\ x[3] \in C /\ x = <<x[1], x[2], x[3]>>
    BY <1>3
  <2>2. F \in [Features -> (A \X B) \X C]
    BY <2>1
  <2>3. ASSUME NEW x \in Features, NEW y \in Features, F[x] = F[y] PROVE x = y
    <3>1. x[1] = y[1] /\ x[2] = y[2] /\ x[3] = y[3]
      <4>1. F[x] = <<<<x[1], x[2]>>, x[3]>> /\ F[y] = <<<<y[1], y[2]>>, y[3]>>
        OBVIOUS
      <4> HIDE DEF F
      <4>2. <<<<x[1], x[2]>>, x[3]>> = <<<<y[1], y[2]>>, y[3]>>
        BY <2>3, <4>1
      <4> QED
        BY <4>2
    <3> QED
      BY <2>1, <3>1
  <2> HIDE DEF F
  <2>4. IsInjective(F)
    BY <2>2, <2>3 DEF IsInjective
  <2> QED
    BY <2>2, <2>4 DEF Injection
<1>5. IsFiniteSet(Features)
  BY <1>2, <1>4, FS_Injection
<1> QED
  BY <1>5, FS_Subset

-----------------------------------------------------------------------------
(* What a score is made of so far *)

CharsUpTo(b, n) == Sum(NgramTerms(sentence.chars, model.charWindow, b), 1 .. n)
TypesUpTo(b, n) == Sum(NgramTerms(sentence.types, model.typeWindow, b), 1 .. n)
WithChars(b) == model.bias + NgramSum(sentence.chars, model.charWindow, b)
WithNgrams(b) == WithChars(b) + NgramSum(sentence.types, model.typeWindow, b)
MarkedAt(b) == {f \in Features : seen[MarkFor(f, b).slot] = 1}
PendingAt(b) == {f \in Features : MarkFor(f, b) \in Range(pending)}
FoundAt(b, n) == UNION {FeaturesOf(sentence.words[j], b) : j \in 1 .. n}

CharScores == \A b \in Boundaries : scores[b] = model.bias + CharsUpTo(b, next - 1)
TypeScores == \A b \in Boundaries : scores[b] = WithChars(b) + TypesUpTo(b, next - 1)
NgramScores == \A b \in Boundaries : scores[b] = WithNgrams(b)
WordScores == \A b \in Boundaries : /\ scores[b] = WithNgrams(b) + Sum(Weights, MarkedAt(b))
                                    /\ MarkedAt(b) \cup PendingAt(b) = FoundAt(b, next - 1)

\* At each step, what the scores have in them so far.  Of the features, those
\* flagged are in, and those flagged or about to be marked are those that the
\* words gone through have.
XInv ==
    /\ step \in {"chars", "types", "prepare", "words"} => DOMAIN scores = Boundaries
    /\ step = "chars" => next <= Len(sentence.chars) + 1 /\ CharScores
    /\ step = "types" => next <= Len(sentence.types) + 1 /\ TypeScores
    /\ step = "prepare" => next = 1 /\ NgramScores
    /\ step = "words" /\ ~thrown => next <= Len(sentence.words) + 1 /\ WordScores
    /\ ScoresExact

LEMMA ContextKept ==
    ASSUME model' = model, sentence' = sentence
    PROVE  /\ Boundaries' = Boundaries /\ Features' = Features /\ stride' = stride /\ dictLen' = dictLen
           /\ NoFeatures' = NoFeatures /\ Weights' = Weights
           /\ \A b, n : CharsUpTo(b, n)' = CharsUpTo(b, n) /\ TypesUpTo(b, n)' = TypesUpTo(b, n)
           /\ \A b : WithChars(b)' = WithChars(b) /\ WithNgrams(b)' = WithNgrams(b)
           /\ \A f, b : MarkFor(f, b)' = MarkFor(f, b)
           /\ \A b, n : FoundAt(b, n)' = FoundAt(b, n)
           /\ \A b : FeaturesAt(b)' = FeaturesAt(b)
<1>1. /\ Boundaries' = Boundaries /\ Features' = Features /\ stride' = stride /\ dictLen' = dictLen
      /\ NoFeatures' = NoFeatures
  BY DEF Boundaries, Features, stride, dictLen, NoFeatures, Len1
<1>2. Weights' = Weights
  BY <1>1 DEF Weights
<1>3. \A b, n : CharsUpTo(b, n)' = CharsUpTo(b, n) /\ TypesUpTo(b, n)' = TypesUpTo(b, n)
  BY DEF CharsUpTo, TypesUpTo
<1>4. \A b : WithChars(b)' = WithChars(b) /\ WithNgrams(b)' = WithNgrams(b)
  BY DEF WithChars, WithNgrams
<1>5. \A f, b : MarkFor(f, b)' = MarkFor(f, b)
  BY <1>1 DEF MarkFor, MarkOf
<1>6. \A b, n : FoundAt(b, n)' = FoundAt(b, n)
  BY DEF FoundAt, FeaturesOf
<1>7. \A b : FeaturesAt(b)' = FeaturesAt(b)
  BY DEF FeaturesAt
<1> QED
  BY <1>1, <1>2, <1>3, <1>4, <1>5, <1>6, <1>7

-----------------------------------------------------------------------------
(* The steps of a call *)

\* The parts of the score expected.
LEMMA ExpectedIs ==
    \A b : Expected(b) = WithNgrams(b) + IF NoFeatures THEN 0
                                         ELSE FeatureSum(model.dictVector, stride, FeaturesAt(b))
BY DEF Expected, WithNgrams, WithChars, FeatureSum

LEMMA ExpectedKept ==
    ASSUME model' = model, sentence' = sentence
    PROVE  \A b : Expected(b)' = Expected(b)
<1>1. \A b : Expected(b) = WithNgrams(b) + IF NoFeatures THEN 0
                                           ELSE FeatureSum(model.dictVector, stride, FeaturesAt(b))
  BY ExpectedIs
<1>2. (\A b : Expected(b) = WithNgrams(b) + IF NoFeatures THEN 0
                                            ELSE FeatureSum(model.dictVector, stride, FeaturesAt(b)))'
  BY ExpectedIs, PTL
<1> QED
  BY <1>1, <1>2, ContextKept

LEMMA ExactKept ==
    ASSUME model' = model, sentence' = sentence, scores' = scores, thrown' = thrown, ScoresExact,
           step = "cut" \/ step' = step, outcome' = outcome \/ step = "cut"
    PROVE  ScoresExact'
BY ExpectedKept, ContextKept DEF ScoresExact

LEMMA ExactVacuous ==
    ASSUME step' # "cut", step' # "idle" \/ outcome' # "ok"
    PROVE  ScoresExact'
BY DEF ScoresExact

LEMMA NgramSumFacts ==
    ASSUME NEW n \in Nat, NEW matches, NEW window \in Nat, IsList(matches),
           \A k \in DOMAIN matches : FitsWindow(matches[k], n, window), NEW b
    PROVE  /\ Sum(NgramTerms(matches, window, b), 1 .. 0) = 0
           /\ Sum(NgramTerms(matches, window, b), 1 .. Len(matches)) = NgramSum(matches, window, b)
           /\ NgramSum(matches, window, b) \in Int
<1>1. DOMAIN matches = 1 .. Len(matches) /\ Len(matches) \in Int
  BY DEF IsList
<1>2. IsFiniteSet(DOMAIN matches)
  BY <1>1, PrefixIsFinite
<1>3. NgramSum(matches, window, b) = Sum(NgramTerms(matches, window, b), DOMAIN matches)
  BY <1>2, NgramSumIs
<1>4. \A k \in DOMAIN matches : NgramTerms(matches, window, b)[k] \in Int
  BY TermIsInt
<1>5. Sum(NgramTerms(matches, window, b), DOMAIN matches) \in Int
  BY <1>2, <1>4, SumIsInt
<1>6. 1 .. 0 = {}
  OBVIOUS
<1> QED
  BY <1>1, <1>3, <1>5, <1>6, SumOfNone

\* What the loader and the call before have made sure of.
LEMMA Context ==
    ASSUME BInv, step # "idle"
    PROVE  /\ SoundModel(model) /\ model.bias \in Int /\ model.charWindow \in Nat /\ model.typeWindow \in Nat
           /\ model.dictN \in Nat /\ model.numDicts \in Int
           /\ sentence.n \in Nat /\ next \in Nat \ {0}
           /\ IsList(sentence.chars) /\ \A k \in DOMAIN sentence.chars : FitsWindow(sentence.chars[k], sentence.n, model.charWindow)
           /\ IsList(sentence.types) /\ \A k \in DOMAIN sentence.types : FitsWindow(sentence.types[k], sentence.n, model.typeWindow)
           /\ IsList(sentence.words) /\ \A k \in DOMAIN sentence.words : FitsText(sentence.words[k], sentence.n, model)
BY DEF BInv, CallInv, ModelInv, SoundSentence, SoundModel

LEMMA WithAreInt ==
    ASSUME BInv, step # "idle", NEW b
    PROVE  /\ WithChars(b) \in Int /\ WithNgrams(b) \in Int
           /\ CharsUpTo(b, 0) = 0 /\ TypesUpTo(b, 0) = 0
           /\ model.bias + CharsUpTo(b, Len(sentence.chars)) = WithChars(b)
           /\ WithChars(b) + TypesUpTo(b, Len(sentence.types)) = WithNgrams(b)
<1>1. model.bias \in Int
  BY Context
<1>2. /\ CharsUpTo(b, 0) = 0 /\ CharsUpTo(b, Len(sentence.chars)) = NgramSum(sentence.chars, model.charWindow, b)
      /\ NgramSum(sentence.chars, model.charWindow, b) \in Int
  <2>1. /\ sentence.n \in Nat /\ model.charWindow \in Nat /\ IsList(sentence.chars)
        /\ \A k \in DOMAIN sentence.chars : FitsWindow(sentence.chars[k], sentence.n, model.charWindow)
    BY Context
  <2> QED
    BY <2>1, NgramSumFacts DEF CharsUpTo
<1>3. /\ TypesUpTo(b, 0) = 0 /\ TypesUpTo(b, Len(sentence.types)) = NgramSum(sentence.types, model.typeWindow, b)
      /\ NgramSum(sentence.types, model.typeWindow, b) \in Int
  <2>1. /\ sentence.n \in Nat /\ model.typeWindow \in Nat /\ IsList(sentence.types)
        /\ \A k \in DOMAIN sentence.types : FitsWindow(sentence.types[k], sentence.n, model.typeWindow)
    BY Context
  <2> QED
    BY <2>1, NgramSumFacts DEF TypesUpTo
<1> QED
  BY <1>1, <1>2, <1>3 DEF WithChars, WithNgrams

\* Before the first match of a sentence.
LEMMA Start ==
    BInv /\ step # "idle" => \A b : CharsUpTo(b, 0) = 0 /\ model.bias \in Int /\ Len(sentence.chars) \in Nat
BY WithAreInt, Context DEF IsList

LEMMA InitXInv == Init => XInv
BY DEF Init, XInv, ScoresExact

LEMMA CallMakesScores == BInv /\ Call => XInv'
<1> SUFFICES ASSUME BInv, Call PROVE XInv'
  OBVIOUS
<1>1. /\ step = "idle" /\ status = "ok" /\ model' = model /\ next' = 1
      /\ scores' = [b \in BoundariesOf(sentence'.n) |-> model.bias]
      /\ step' = IF sentence'.n = 0 THEN "idle" ELSE IF sentence'.n = 1 THEN "cut" ELSE "chars"
      /\ outcome' = IF sentence'.n = 0 THEN "ok" ELSE "none"
  BY DEF Call, loaded
<1>2. BInv'
  BY CallKeeps
<1>3. Boundaries' = BoundariesOf(sentence'.n)
  BY DEF Boundaries, BoundariesOf
<1>4. CASE sentence'.n \in {0, 1}
  <2>1. Boundaries' = {}
    BY <1>3, <1>4 DEF BoundariesOf
  <2>2. ScoresExact'
    BY <2>1 DEF ScoresExact
  <2>3. step' \in {"idle", "cut"}
    BY <1>1, <1>4
  <2> QED
    BY <2>2, <2>3 DEF XInv
<1>5. CASE sentence'.n \notin {0, 1}
  <2>1. step' = "chars"
    BY <1>1, <1>5
  <2>2. ScoresExact'
    BY <2>1 DEF ScoresExact
  <2>3. (BInv /\ step # "idle" => \A b : CharsUpTo(b, 0) = 0 /\ model.bias \in Int
                                         /\ Len(sentence.chars) \in Nat)'
    BY Start, PTL
  <2>4. (\A b : CharsUpTo(b, 0) = 0 /\ model.bias \in Int /\ Len(sentence.chars) \in Nat)'
    BY <1>2, <2>1, <2>3
  <2>5. next' - 1 = 0 /\ next' <= Len(sentence'.chars) + 1
    BY <1>1, <2>4
  <2>6. CharScores'
    BY <1>1, <1>3, <2>4, <2>5 DEF CharScores
  <2>7. DOMAIN scores' = Boundaries'
    BY <1>1, <1>3
  <2> QED
    BY <2>1, <2>2, <2>5, <2>6, <2>7 DEF XInv
<1> QED
  BY <1>4, <1>5

LEMMA CharMatchKeeps == BInv /\ XInv /\ CharMatch => XInv'
<1> SUFFICES ASSUME BInv, XInv, CharMatch PROVE XInv'
  OBVIOUS
<1>1. /\ step = "chars" /\ step' = "chars" /\ next <= Len(sentence.chars) /\ next' = next + 1
      /\ AddNgram(sentence.chars[next], model.charWindow) /\ model' = model /\ sentence' = sentence
  BY DEF CharMatch, NgramMatch, loaded
<1>2. CharScores
  BY <1>1 DEF XInv
<1>3. next \in 1 .. Len(sentence.chars) /\ next' - 1 = next /\ next' <= Len(sentence.chars) + 1
  BY <1>1, Context DEF IsList
<1>4. \A b \in Boundaries : scores'[b] = model.bias + CharsUpTo(b, next)
  <2> TAKE b \in Boundaries
  <2>1. scores[b] = model.bias + Sum(NgramTerms(sentence.chars, model.charWindow, b), 1 .. next - 1)
    BY <1>2 DEF CharScores, CharsUpTo
  <2> QED
    BY <1>1, <1>3, <2>1, Context, MatchAdds DEF CharsUpTo
<1>5. CharScores'
  BY <1>1, <1>3, <1>4, ContextKept DEF CharScores
<1>6. DOMAIN scores' = Boundaries'
  BY <1>1, ContextKept DEF AddNgram
<1>7. ScoresExact'
  BY <1>1 DEF ScoresExact
<1> QED
  BY <1>1, <1>3, <1>5, <1>6, <1>7 DEF XInv

LEMMA TypeMatchKeeps == BInv /\ XInv /\ TypeMatch => XInv'
<1> SUFFICES ASSUME BInv, XInv, TypeMatch PROVE XInv'
  OBVIOUS
<1>1. /\ step = "types" /\ step' = "types" /\ next <= Len(sentence.types) /\ next' = next + 1
      /\ AddNgram(sentence.types[next], model.typeWindow) /\ model' = model /\ sentence' = sentence
  BY DEF TypeMatch, NgramMatch, loaded
<1>2. TypeScores
  BY <1>1 DEF XInv
<1>3. next \in 1 .. Len(sentence.types) /\ next' - 1 = next /\ next' <= Len(sentence.types) + 1
  BY <1>1, Context DEF IsList
<1>4. \A b \in Boundaries : scores'[b] = WithChars(b) + TypesUpTo(b, next)
  <2> TAKE b \in Boundaries
  <2>1. scores[b] = WithChars(b) + Sum(NgramTerms(sentence.types, model.typeWindow, b), 1 .. next - 1)
    BY <1>2 DEF TypeScores, TypesUpTo
  <2>2. WithChars(b) \in Int
    BY <1>1, WithAreInt
  <2> QED
    BY <1>1, <1>3, <2>1, <2>2, Context, MatchAdds DEF TypesUpTo
<1>5. TypeScores'
  BY <1>1, <1>3, <1>4, ContextKept DEF TypeScores
<1>6. DOMAIN scores' = Boundaries'
  BY <1>1, ContextKept DEF AddNgram
<1>7. ScoresExact'
  BY <1>1 DEF ScoresExact
<1> QED
  BY <1>1, <1>3, <1>5, <1>6, <1>7 DEF XInv

LEMMA NgramsDoneKeeps == BInv /\ XInv /\ (CharsDone \/ TypesDone) => XInv'
<1> SUFFICES ASSUME BInv, XInv, CharsDone \/ TypesDone PROVE XInv'
  OBVIOUS
<1>1. model' = model /\ sentence' = sentence /\ scores' = scores /\ next' = 1
  BY DEF CharsDone, TypesDone, NgramsDone, loaded
<1>2. next' - 1 = 0
  BY <1>1
<1>3. CASE CharsDone
  <2>1. step = "chars" /\ step' = "types" /\ next > Len(sentence.chars)
    BY <1>3 DEF CharsDone, NgramsDone
  <2>2. /\ next - 1 = Len(sentence.chars) /\ CharScores /\ DOMAIN scores = Boundaries
        /\ next' <= Len(sentence.types) + 1
    BY <1>1, <2>1, Context DEF XInv, IsList
  <2>3. \A b \in Boundaries : scores[b] = WithChars(b)
    BY <2>1, <2>2, WithAreInt DEF CharScores
  <2>4. \A b \in Boundaries : scores[b] = WithChars(b) + TypesUpTo(b, 0)
    BY <2>1, <2>3, WithAreInt
  <2>5. TypeScores'
    BY <1>1, <1>2, <2>4, ContextKept DEF TypeScores
  <2>6. ScoresExact'
    BY <2>1 DEF ScoresExact
  <2> QED
    BY <1>1, <2>1, <2>2, <2>5, <2>6, ContextKept DEF XInv
<1>4. CASE TypesDone
  <2>1. step = "types" /\ step' = "prepare" /\ next > Len(sentence.types)
    BY <1>4 DEF TypesDone, NgramsDone
  <2>2. next - 1 = Len(sentence.types) /\ TypeScores /\ DOMAIN scores = Boundaries
    BY <1>1, <2>1, Context DEF XInv, IsList
  <2>3. NgramScores
    BY <2>1, <2>2, WithAreInt DEF TypeScores, NgramScores
  <2>4. NgramScores'
    BY <1>1, <2>3, ContextKept DEF NgramScores
  <2>5. ScoresExact'
    BY <2>1 DEF ScoresExact
  <2> QED
    BY <1>1, <2>1, <2>2, <2>4, <2>5, ContextKept DEF XInv
<1> QED
  BY <1>3, <1>4

LEMMA SkipKeeps == BInv /\ XInv /\ SkipDictionary => XInv'
<1> SUFFICES ASSUME BInv, XInv, SkipDictionary PROVE XInv'
  OBVIOUS
<1>1. /\ step = "prepare" /\ NoFeatures /\ step' = "cut" /\ model' = model /\ sentence' = sentence
      /\ scores' = scores
  BY DEF SkipDictionary, loaded
<1>2. \A b \in Boundaries : scores[b] = Expected(b)
  <2> TAKE b \in Boundaries
  <2>1. scores[b] = WithNgrams(b) /\ WithNgrams(b) \in Int
    BY <1>1, WithAreInt DEF XInv, NgramScores
  <2>2. Expected(b) = WithNgrams(b) + 0
    BY <1>1, ExpectedIs
  <2> QED
    BY <2>1, <2>2
<1>3. \A b \in Boundaries' : scores'[b] = Expected(b)'
  BY <1>1, <1>2, ContextKept, ExpectedKept
<1>4. ScoresExact'
  BY <1>3 DEF ScoresExact
<1> QED
  BY <1>1, <1>4 DEF XInv

LEMMA GrownIsClear ==
    ASSUME NEW need, \A s \in DOMAIN seen : seen[s] = 0
    PROVE  \A s \in DOMAIN Grown(need) : Grown(need)[s] = 0
BY DEF Grown

LEMMA PrepareClears == ScratchInv /\ BInv /\ XInv /\ Prepare => XInv'
<1> SUFFICES ASSUME ScratchInv, BInv, XInv, Prepare PROVE XInv'
  OBVIOUS
<1>1. /\ step = "prepare" /\ step' = "words" /\ model' = model /\ sentence' = sentence /\ next' = next
      /\ scores' = scores /\ thrown' = thrown /\ pending' = pending /\ seen' = Grown(model.numDicts * dictLen)
  BY DEF Prepare, loaded
<1>2. /\ next = 1 /\ NgramScores /\ DOMAIN scores = Boundaries /\ pending = <<>>
  BY <1>1 DEF XInv, BInv, CallInv
<1>3. ScoresExact'
  BY <1>1 DEF ScoresExact
<1>4. next' <= Len(sentence'.words) + 1
  BY <1>1, <1>2, Context DEF IsList
<1>5. ASSUME ~thrown PROVE WordScores'
  <2>1. \A s \in DOMAIN seen : seen[s] = 0
    BY <1>1, <1>5 DEF ScratchInv, Flagged
  <2>2. \A s \in DOMAIN seen' : seen'[s] = 0
    BY <1>1, <2>1, GrownIsClear
  <2>3. BInv'
    BY PrepareKeeps
  <2>4. PICK size \in Nat : DOMAIN seen' = 0 .. size - 1 /\ (model.numDicts * dictLen)' <= size
    BY <1>1, <2>3 DEF BInv, SeenInv
  <2>5. (model.numDicts * dictLen)' = model.numDicts * dictLen
    BY <1>1, ContextKept
  <2>6. /\ model.dictN \in Nat /\ model.numDicts \in Int /\ sentence.n \in Nat
    BY <1>1, Context
  <2>7. model.numDicts * dictLen \in Int
    BY <2>6, SizesAre, ProductIsInt
  <2> SUFFICES ASSUME NEW b \in Boundaries
               PROVE  /\ scores[b] = WithNgrams(b) + Sum(Weights, MarkedAt(b)')
                      /\ MarkedAt(b)' \cup PendingAt(b)' = FoundAt(b, next - 1)
    BY <1>1, ContextKept DEF WordScores
  <2>8. MarkedAt(b)' = {}
    <3>1. ASSUME NEW f \in Features PROVE seen'[MarkFor(f, b).slot] # 1
      <4>1. MarkFor(f, b).slot \in 0 .. model.numDicts * dictLen - 1
        BY <2>6, FeatureInSet, SlotIs DEF MarkFor
      <4>2. MarkFor(f, b).slot \in DOMAIN seen'
        BY <2>4, <2>5, <2>7, <4>1
      <4> QED
        BY <2>2, <4>2
    <3> QED
      BY <1>1, <3>1, ContextKept DEF MarkedAt
  <2>9. PendingAt(b)' = {}
    BY <1>1, <1>2 DEF PendingAt, Range
  <2>10. FoundAt(b, next - 1) = {}
    <3>1. 1 .. next - 1 = {}
      BY <1>2
    <3> QED
      BY <3>1 DEF FoundAt
  <2>11. scores[b] = WithNgrams(b) /\ WithNgrams(b) \in Int
    BY <1>1, <1>2, WithAreInt DEF NgramScores
  <2> QED
    BY <2>8, <2>9, <2>10, <2>11, SumOfNone
<1> QED
  BY <1>1, <1>2, <1>3, <1>4, <1>5, ContextKept DEF XInv

LEMMA WordMatchKeeps == BInv /\ XInv /\ WordMatch => XInv'
<1> SUFFICES ASSUME BInv, XInv, WordMatch PROVE XInv'
  OBVIOUS
<1> DEFINE w == sentence.words[next]
<1>1. /\ step = "words" /\ step' = "words" /\ model' = model /\ sentence' = sentence /\ next' = next + 1
      /\ scores' = scores /\ thrown' = thrown /\ seen' = seen
      /\ pending = <<>> /\ pending' = Marks(w) /\ next <= Len(sentence.words)
  BY DEF WordMatch, loaded, scratch
<1>2. next \in DOMAIN sentence.words /\ next' <= Len(sentence'.words) + 1 /\ next' - 1 = next
  BY <1>1, Context DEF IsList
<1>3. FitsText(w, sentence.n, model) /\ SoundModel(model) /\ sentence.n \in Nat /\ model.dictN # 0
  <2>1. FitsText(w, sentence.n, model) /\ SoundModel(model) /\ sentence.n \in Nat
    BY <1>1, <1>2, Context
  <2>2. ~NoFeatures
    BY <1>1 DEF BInv, CallInv
  <2> QED
    BY <2>1, <2>2 DEF SoundModel, NoFeatures, FitsText
<1>4. DOMAIN scores = Boundaries
  BY <1>1 DEF XInv
<1>5. ScoresExact'
  BY <1>1 DEF ScoresExact
<1>6. ASSUME ~thrown PROVE WordScores'
  <2>1. WordScores
    BY <1>1, <1>6 DEF XInv
  <2> SUFFICES ASSUME NEW b \in Boundaries
               PROVE  /\ scores[b] = WithNgrams(b) + Sum(Weights, MarkedAt(b)')
                      /\ MarkedAt(b)' \cup PendingAt(b)' = FoundAt(b, next)
    BY <1>1, <1>2, ContextKept DEF WordScores
  <2>2. MarkedAt(b)' = MarkedAt(b)
    BY <1>1, ContextKept DEF MarkedAt
  <2>3. PendingAt(b) = {}
    BY <1>1 DEF PendingAt, Range
  <2> HIDE DEF w
  <2>4. PendingAt(b)' = FeaturesOf(w, b)
    <3>1. PendingAt(b)' = {f \in Features : MarkFor(f, b) \in Range(Marks(w))}
      BY <1>1, ContextKept DEF PendingAt
    <3>2. \A f \in Features : MarkFor(f, b) \in Range(Marks(w)) <=> f \in FeaturesOf(w, b)
      BY <1>3, MarksAreFeatures
    <3>3. FeaturesOf(w, b) \subseteq Features
      BY <1>3, FeatureOf
    <3> QED
      BY <3>1, <3>2, <3>3
  <2>5. FoundAt(b, next) = FoundAt(b, next - 1) \cup FeaturesOf(w, b)
    <3>1. 1 .. next = (1 .. next - 1) \cup {next}
      BY <1>1, Context
    <3> QED
      BY <3>1 DEF FoundAt, w
  <2>6. scores[b] = WithNgrams(b) + Sum(Weights, MarkedAt(b)) /\ MarkedAt(b) \cup PendingAt(b) = FoundAt(b, next - 1)
    BY <2>1 DEF WordScores
  <2> QED
    BY <2>2, <2>3, <2>4, <2>5, <2>6
<1> QED
  BY <1>1, <1>2, <1>4, <1>5, <1>6, ContextKept DEF XInv

LEMMA HeadAndTail ==
    ASSUME NEW S, NEW s \in Seq(S), s # <<>>
    PROVE  Head(s) \in S /\ Range(s) = {Head(s)} \cup Range(Tail(s))
<1>1. /\ Len(s) \in Nat \ {0} /\ DOMAIN s = 1 .. Len(s) /\ Head(s) = s[1] /\ s[1] \in S
      /\ DOMAIN Tail(s) = 1 .. Len(s) - 1 /\ \A k \in 1 .. Len(s) - 1 : Tail(s)[k] = s[k + 1]
  BY HeadTailProperties
<1>2. ASSUME NEW k \in DOMAIN s PROVE s[k] \in {Head(s)} \cup Range(Tail(s))
  <2>1. CASE k = 1
    BY <1>1, <2>1
  <2>2. CASE k # 1
    <3>1. k - 1 \in DOMAIN Tail(s) /\ Tail(s)[k - 1] = s[k]
      BY <1>1, <2>2
    <3> QED
      BY <3>1 DEF Range
  <2> QED
    BY <2>1, <2>2
<1>3. ASSUME NEW k \in DOMAIN Tail(s) PROVE Tail(s)[k] \in Range(s)
  <2>1. k + 1 \in DOMAIN s /\ s[k + 1] = Tail(s)[k]
    BY <1>1
  <2> QED
    BY <2>1 DEF Range
<1>4. Head(s) \in Range(s)
  <2>1. 1 \in DOMAIN s
    BY <1>1
  <2> QED
    BY <1>1, <2>1 DEF Range
<1> QED
  BY <1>1, <1>2, <1>3, <1>4 DEF Range

\* The mark to make is a feature's at a boundary.
LEMMA HeadIsFeature ==
    ASSUME BInv, Marking
    PROVE  \E g \in Features, c \in Boundaries :
               /\ Head(pending) = MarkFor(g, c) /\ Head(pending).pos = c
               /\ Head(pending).slot \in DOMAIN seen
               /\ model.dictVector[Head(pending).weight] = Weights[g]
<1>1. /\ step = "words" /\ pending # <<>> /\ pending \in Seq(MarkSet) /\ ~NoFeatures
      /\ model.wordDict.states # NoStates
  BY DEF Marking, BInv, CallInv
<1>2. /\ SoundModel(model) /\ model.dictN \in Nat /\ model.numDicts \in Int /\ sentence.n \in Nat
  BY <1>1, Context
<1>3. Head(pending) \in MarkSet
  BY <1>1, HeadAndTail
<1>4. PICK x \in (0 .. model.numDicts - 1) \X Boundaries \X (0 .. stride - 1) : Head(pending) = MarkOf(x[1], x[2], x[3])
  BY <1>3 DEF MarkSet
<1>5. x[1] \in 0 .. model.numDicts - 1 /\ x[2] \in Boundaries /\ x[3] \in 0 .. 3 * model.dictN - 1
  BY <1>4 DEF stride
<1>6. PICK len \in 1 .. model.dictN, kind \in 0 .. 2 : x[3] = 3 * (len - 1) + kind
  BY <1>2, <1>5, ColumnOf
<1> DEFINE g == <<x[1], len, kind>>
           c == x[2]
<1>7. g \in Features /\ g[1] = x[1] /\ Column(g) = x[3] /\ c \in Boundaries
  BY <1>5, <1>6 DEF Features, Column
<1> HIDE DEF g, c
<1>8. Head(pending) = MarkFor(g, c)
  BY <1>4, <1>7 DEF MarkFor, c
<1>9. Head(pending).pos = c /\ Head(pending).slot \in 0 .. model.numDicts * dictLen - 1
  BY <1>2, <1>7, <1>8, FeatureInSet, SlotIs DEF MarkFor
<1>10. Head(pending).slot \in DOMAIN seen
  <2>1. PICK size \in Nat : DOMAIN seen = 0 .. size - 1 /\ model.numDicts * dictLen <= size
    BY <1>1 DEF BInv, SeenInv
  <2>2. model.numDicts * dictLen \in Int
    BY <1>2, SizesAre, ProductIsInt
  <2> QED
    BY <1>9, <2>1, <2>2
<1>11. model.dictVector[Head(pending).weight] = Weights[g]
  BY <1>1, <1>2, <1>7, <1>8, WeightIs DEF NoFeatures
<1> QED
  BY <1>7, <1>8, <1>9, <1>10, <1>11

\* What is pending after a mark.
LEMMA PendingAfter ==
    ASSUME BInv, Marking, pending' = Tail(pending), model' = model, sentence' = sentence,
           NEW g \in Features, NEW c \in Boundaries, Head(pending) = MarkFor(g, c), NEW b \in Boundaries
    PROVE  PendingAt(b) = PendingAt(b)' \cup (IF b = c THEN {g} ELSE {})
<1>1. step = "words" /\ pending # <<>> /\ pending \in Seq(MarkSet)
  BY DEF Marking, BInv, CallInv
<1>2. Range(pending) = {MarkFor(g, c)} \cup Range(Tail(pending))
  BY <1>1, HeadAndTail
<1>3. model.dictN \in Nat /\ model.numDicts \in Int /\ sentence.n \in Nat
  BY <1>1, Context
<1>4. \A f \in Features : MarkFor(f, b) = MarkFor(g, c) <=> f = g /\ b = c
  BY <1>3, SlotUnique
<1>5. PendingAt(b)' = {f \in Features : MarkFor(f, b) \in Range(Tail(pending))}
  BY ContextKept DEF PendingAt
<1> QED
  BY <1>2, <1>4, <1>5 DEF PendingAt

LEMMA MarkSeenKeeps == BInv /\ XInv /\ MarkSeen => XInv'
<1> SUFFICES ASSUME BInv, XInv, MarkSeen PROVE XInv'
  OBVIOUS
<1>1. /\ Marking /\ step = "words" /\ step' = "words" /\ model' = model /\ sentence' = sentence /\ next' = next
      /\ scores' = scores /\ thrown' = thrown /\ seen' = seen
      /\ pending' = Tail(pending) /\ seen[Head(pending).slot] = 1
  BY DEF MarkSeen, Marking, loaded, scratch
<1>2. PICK g \in Features, c \in Boundaries : Head(pending) = MarkFor(g, c)
  BY <1>1, HeadIsFeature
<1>3. ScoresExact'
  BY <1>1 DEF ScoresExact
<1>4. ASSUME ~thrown PROVE WordScores'
  <2>1. WordScores
    BY <1>1, <1>4 DEF XInv
  <2> SUFFICES ASSUME NEW b \in Boundaries
               PROVE  /\ scores[b] = WithNgrams(b) + Sum(Weights, MarkedAt(b)')
                      /\ MarkedAt(b)' \cup PendingAt(b)' = FoundAt(b, next - 1)
    BY <1>1, ContextKept DEF WordScores
  <2>2. MarkedAt(b)' = MarkedAt(b)
    BY <1>1, ContextKept DEF MarkedAt
  <2>3. PendingAt(b) = PendingAt(b)' \cup (IF b = c THEN {g} ELSE {})
    BY <1>1, <1>2, PendingAfter
  <2>4. b = c => g \in MarkedAt(b)
    BY <1>1, <1>2 DEF MarkedAt
  <2>5. scores[b] = WithNgrams(b) + Sum(Weights, MarkedAt(b)) /\ MarkedAt(b) \cup PendingAt(b) = FoundAt(b, next - 1)
    BY <2>1 DEF WordScores
  <2> QED
    BY <2>2, <2>3, <2>4, <2>5
<1> QED
  BY <1>1, <1>3, <1>4, ContextKept DEF XInv

LEMMA MarkNewKeeps == BInv /\ XInv /\ MarkNew => XInv'
<1> SUFFICES ASSUME BInv, XInv, MarkNew PROVE XInv'
  OBVIOUS
<1> DEFINE m == Head(pending)
<1>1. /\ Marking /\ step = "words" /\ step' = "words" /\ model' = model /\ sentence' = sentence /\ next' = next
      /\ thrown' = thrown /\ pending' = Tail(pending) /\ seen[m.slot] = 0
      /\ seen' = [seen EXCEPT ![m.slot] = 1]
      /\ scores' = [scores EXCEPT ![m.pos] = @ + model.dictVector[m.weight]]
  BY DEF MarkNew, Marking, loaded
<1>2. PICK g \in Features, c \in Boundaries :
         /\ m = MarkFor(g, c) /\ m.pos = c /\ m.slot \in DOMAIN seen /\ model.dictVector[m.weight] = Weights[g]
  BY <1>1, HeadIsFeature
<1>3. /\ SoundModel(model) /\ model.dictN \in Nat /\ model.numDicts \in Int /\ sentence.n \in Nat
  BY <1>1, Context
<1>4. model.dictVector # <<>> /\ model.wordDict.states # NoStates
  BY <1>1 DEF BInv, CallInv, NoFeatures, Marking
<1>5. ScoresExact'
  BY <1>1 DEF ScoresExact
<1>6. DOMAIN scores = Boundaries /\ DOMAIN scores' = Boundaries
  BY <1>1 DEF XInv
<1>7. ASSUME ~thrown PROVE WordScores'
  <2>1. WordScores
    BY <1>1, <1>7 DEF XInv
  <2> SUFFICES ASSUME NEW b \in Boundaries
               PROVE  /\ scores'[b] = WithNgrams(b) + Sum(Weights, MarkedAt(b)')
                      /\ MarkedAt(b)' \cup PendingAt(b)' = FoundAt(b, next - 1)
    BY <1>1, ContextKept DEF WordScores
  <2>2. PendingAt(b) = PendingAt(b)' \cup (IF b = c THEN {g} ELSE {})
    BY <1>1, <1>2, PendingAfter
  <2>3. scores[b] = WithNgrams(b) + Sum(Weights, MarkedAt(b)) /\ MarkedAt(b) \cup PendingAt(b) = FoundAt(b, next - 1)
    BY <2>1 DEF WordScores
  <2>4. ASSUME NEW f \in Features
        PROVE  seen'[MarkFor(f, b).slot] = IF f = g /\ b = c THEN 1 ELSE seen[MarkFor(f, b).slot]
    <3>1. MarkFor(f, b).slot = m.slot <=> f = g /\ b = c
      BY <1>2, <1>3, SlotUnique
    <3> HIDE DEF m
    <3> QED
      BY <1>1, <1>2, <3>1
  <2>5. MarkedAt(b)' = {f \in Features : seen'[MarkFor(f, b).slot] = 1}
    BY <1>1, ContextKept DEF MarkedAt
  <2>6. MarkedAt(b)' = MarkedAt(b) \cup (IF b = c THEN {g} ELSE {})
    BY <2>4, <2>5 DEF MarkedAt
  <2>7. g \notin MarkedAt(c)
    BY <1>1, <1>2 DEF MarkedAt
  <2>8. scores'[b] = IF b = c THEN scores[b] + Weights[g] ELSE scores[b]
    <3> HIDE DEF m
    <3> QED
      BY <1>1, <1>2, <1>6
  <2>9. CASE b # c
    BY <2>2, <2>3, <2>6, <2>8, <2>9
  <2>10. CASE b = c
    <3>1. IsFiniteSet(MarkedAt(b)) /\ MarkedAt(b) \subseteq Features
      BY <1>3, FeaturesAreFinite DEF MarkedAt
    <3>2. \A f \in Features : Weights[f] \in Int
      BY <1>3, <1>4, WeightIs
    <3>3. Sum(Weights, MarkedAt(b) \cup {g}) = Sum(Weights, MarkedAt(b)) + Weights[g]
      <4>1. \A f \in MarkedAt(b) \cup {g} : Weights[f] \in Int
        BY <3>1, <3>2
      <4> QED
        BY <2>7, <2>10, <3>1, <4>1, SumOfMore
    <3>4. Sum(Weights, MarkedAt(b)) \in Int /\ Weights[g] \in Int /\ WithNgrams(b) \in Int
      BY <1>1, <3>1, <3>2, SumIsInt, WithAreInt
    <3>5. scores'[b] = WithNgrams(b) + Sum(Weights, MarkedAt(b)')
      BY <2>3, <2>6, <2>8, <2>10, <3>3, <3>4
    <3>6. MarkedAt(b)' \cup PendingAt(b)' = FoundAt(b, next - 1)
      BY <2>2, <2>3, <2>6, <2>10
    <3> QED
      BY <3>5, <3>6
  <2> QED
    BY <2>9, <2>10
<1> QED
  BY <1>1, <1>5, <1>6, <1>7, ContextKept DEF XInv

LEMMA WordsDoneIsExact == BInv /\ XInv /\ WordsDone => XInv'
<1> SUFFICES ASSUME BInv, XInv, WordsDone PROVE XInv'
  OBVIOUS
<1>1. /\ step = "words" /\ step' = "cut" /\ model' = model /\ sentence' = sentence
      /\ scores' = scores /\ thrown' = thrown /\ pending = <<>> /\ next > Len(sentence.words)
  BY DEF WordsDone, loaded
<1>2. model.dictN \in Nat /\ model.numDicts \in Int /\ ~NoFeatures
  BY <1>1, Context DEF BInv, CallInv
<1>3. ASSUME ~thrown, NEW b \in Boundaries PROVE scores[b] = Expected(b)
  <2>1. WordScores /\ next - 1 = Len(sentence.words)
    BY <1>1, <1>3, Context DEF XInv, IsList
  <2>2. PendingAt(b) = {}
    BY <1>1 DEF PendingAt, Range
  <2>3. scores[b] = WithNgrams(b) + Sum(Weights, MarkedAt(b)) /\ MarkedAt(b) = FoundAt(b, Len(sentence.words))
    BY <2>1, <2>2 DEF WordScores
  <2>4. FoundAt(b, Len(sentence.words)) = FeaturesAt(b)
    <3>1. DOMAIN sentence.words = 1 .. Len(sentence.words)
      BY <1>1, Context DEF IsList
    <3>2. FeaturesAt(b) = UNION {FeaturesOf(x, b) : x \in {sentence.words[k] : k \in DOMAIN sentence.words}}
      BY DEF FeaturesAt, FeaturesOf
    <3>3. UNION {FeaturesOf(x, b) : x \in {sentence.words[k] : k \in DOMAIN sentence.words}}
            = UNION {FeaturesOf(sentence.words[j], b) : j \in DOMAIN sentence.words}
      BY Zenon
    <3> QED
      BY <3>1, <3>2, <3>3 DEF FoundAt
  <2>5. FeaturesAt(b) \subseteq Features /\ IsFiniteSet(FeaturesAt(b))
    BY <1>2, <2>3, <2>4, FeaturesAreFinite DEF MarkedAt
  <2>6. FeatureSum(model.dictVector, stride, FeaturesAt(b)) = Sum(Weights, FeaturesAt(b))
    BY <2>5, FeatureSumIs
  <2> QED
    BY <1>2, <2>3, <2>4, <2>6, ExpectedIs
<1>4. ScoresExact'
  <2> SUFFICES ASSUME ~thrown', NEW b \in Boundaries' PROVE scores'[b] = Expected(b)'
    BY DEF ScoresExact
  <2> QED
    BY <1>1, <1>3, ContextKept, ExpectedKept
<1> QED
  BY <1>1, <1>4 DEF XInv

\* The other steps end the call or leave it where it is.
LEMMA OthersKeep == XInv /\ (LoadModel \/ EncodeFails \/ AllocationThrows \/ MarkThrows \/ CutWords \/ UNCHANGED vars) => XInv'
<1> SUFFICES ASSUME XInv, LoadModel \/ EncodeFails \/ AllocationThrows \/ MarkThrows \/ CutWords \/ UNCHANGED vars PROVE XInv'
  OBVIOUS
<1>1. CASE LoadModel
  BY <1>1 DEF LoadModel, XInv, ScoresExact
<1>2. CASE EncodeFails
  BY <1>2 DEF EncodeFails, XInv, ScoresExact
<1>3. CASE AllocationThrows
  BY <1>3 DEF AllocationThrows, XInv, ScoresExact
<1>4. CASE MarkThrows
  BY <1>4 DEF MarkThrows, XInv, ScoresExact
<1>5. CASE CutWords
  <2>1. /\ step = "cut" /\ step' = "idle" /\ model' = model /\ sentence' = sentence /\ scores' = scores
        /\ thrown' = thrown
    BY <1>5 DEF CutWords, loaded
  <2>2. ScoresExact'
    BY <2>1, ExactKept DEF XInv
  <2> QED
    BY <2>1, <2>2 DEF XInv
<1>6. CASE UNCHANGED vars
  <2>1. /\ step' = step /\ model' = model /\ sentence' = sentence /\ scores' = scores /\ next' = next
        /\ thrown' = thrown /\ outcome' = outcome /\ seen' = seen /\ pending' = pending
    BY <1>6 DEF vars, loaded, scratch
  <2>2. ScoresExact'
    BY <2>1, ExactKept DEF XInv
  <2>3. \A b : MarkedAt(b)' = MarkedAt(b) /\ PendingAt(b)' = PendingAt(b)
    BY <2>1, ContextKept DEF MarkedAt, PendingAt
  <2>4. /\ CharScores' = CharScores /\ TypeScores' = TypeScores /\ NgramScores' = NgramScores
        /\ WordScores' = WordScores
    BY <2>1, <2>3, ContextKept DEF CharScores, TypeScores, NgramScores, WordScores
  <2> QED
    BY <2>1, <2>2, <2>4, ContextKept DEF XInv
<1> QED
  BY <1>1, <1>2, <1>3, <1>4, <1>5, <1>6

LEMMA NextXInv == ScratchInv /\ BInv /\ XInv /\ [Next]_vars => XInv'
BY CallMakesScores, CharMatchKeeps, TypeMatchKeeps, NgramsDoneKeeps, SkipKeeps, PrepareClears, WordMatchKeeps,
   MarkSeenKeeps, MarkNewKeeps, WordsDoneIsExact, OthersKeep DEF Next

(***************************************************************************)
(* The scores are those the model means, for every model load accepts,     *)
(* every text and whatever the thread scored before, until a mark throws:  *)
(* when a call gets to its cuts each boundary has the bias, the weight of  *)
(* every n-gram whose window covers it, clipped windows included, and each *)
(* dictionary feature present there once, however many words have it.      *)
(***************************************************************************)
THEOREM ScoresAreExact == Spec => []ScoresExact
<1>1. XInv => ScoresExact
  BY DEF XInv
<1> QED
  BY <1>1, ScratchInit, ScratchStep, InitBInv, NextBInv, InitXInv, NextXInv, PTL DEF Spec

-----------------------------------------------------------------------------
(* The ids of a character table *)

\* The code points of the first k characters.
Spelt(c, k) == {c[i].codepoint : i \in 1 .. k}

Capacity == 2 ^ IdBits

\* What Interned computes, up to character n.
TableAfter(c, t, k) ==
    [ids |-> Emplaced(t.ids, c[k].codepoint, t.next_id),
     next_id |-> IF c[k].codepoint \in DOMAIN t.ids THEN t.next_id ELSE (t.next_id + 1) % 2 ^ IdBits]
FirstTable == [ids |-> [cp \in {} |-> 0], next_id |-> 1]
Tables(c, n, f) == f = [k \in 0 .. n |-> IF k = 0 THEN FirstTable ELSE TableAfter(c, f[k - 1], k)]

LEMMA TablesExist ==
    ASSUME NEW c
    PROVE  \A n \in Nat : \E f : Tables(c, n, f)
<1> DEFINE S == {n \in Nat : \E f : Tables(c, n, f)}
<1>1. 0 \in S
  <2> DEFINE f == [k \in 0 .. 0 |-> FirstTable]
  <2>1. f = [k \in 0 .. 0 |-> IF k = 0 THEN FirstTable ELSE TableAfter(c, f[k - 1], k)]
    OBVIOUS
  <2> QED
    BY <2>1 DEF Tables
<1>2. ASSUME NEW n \in S PROVE n + 1 \in S
  <2>1. PICK g : Tables(c, n, g)
    OBVIOUS
  <2> DEFINE f == [k \in 0 .. n + 1 |-> IF k <= n THEN g[k] ELSE TableAfter(c, g[n], k)]
  <2>2. \A k \in 0 .. n : g[k] = IF k = 0 THEN FirstTable ELSE TableAfter(c, g[k - 1], k)
    BY <2>1 DEF Tables
  <2>3. \A k \in 0 .. n : f[k] = g[k]
    OBVIOUS
  <2>4. f[n + 1] = TableAfter(c, g[n], n + 1)
    OBVIOUS
  <2>5. \A k \in 0 .. n + 1 : f[k] = IF k = 0 THEN FirstTable ELSE TableAfter(c, f[k - 1], k)
    BY <2>2, <2>3, <2>4
  <2> HIDE DEF f
  <2>6. f = [k \in 0 .. n + 1 |-> f[k]]
    BY DEF f
  <2>7. Tables(c, n + 1, f)
    BY <2>5, <2>6 DEF Tables
  <2> QED
    BY <2>7
<1> HIDE DEF S
<1>3. S \subseteq Nat
  BY DEF S
<1>4. S = Nat
  BY <1>1, <1>2, <1>3, Induct
<1> QED
  BY <1>4 DEF S

LEMMA InternedIs ==
    ASSUME NEW c, Len(c) \in Nat
    PROVE  \E f : Tables(c, Len(c), f) /\ Interned(c) = f[Len(c)].ids
<1> DEFINE f == CHOOSE g : Tables(c, Len(c), g)
<1>1. Tables(c, Len(c), f)
  BY TablesExist
<1>2. Interned(c) = f[Len(c)].ids
  BY DEF Interned, Tables, TableAfter, FirstTable
<1> QED
  BY <1>1, <1>2

\* One character more: a new code point, or one there is.
LEMMA SpeltNext ==
    ASSUME NEW c, NEW k \in Nat
    PROVE  /\ Spelt(c, 0) = {}
           /\ Spelt(c, k + 1) = Spelt(c, k) \cup {c[k + 1].codepoint}
           /\ IsFiniteSet(Spelt(c, k)) /\ Cardinality(Spelt(c, k)) \in Nat
           /\ c[k + 1].codepoint \in Spelt(c, k) => Spelt(c, k + 1) = Spelt(c, k)
           /\ c[k + 1].codepoint \notin Spelt(c, k) => Cardinality(Spelt(c, k + 1)) = Cardinality(Spelt(c, k)) + 1
<1>1. \A m \in Nat : Spelt(c, m + 1) = Spelt(c, m) \cup {c[m + 1].codepoint}
  <2> TAKE m \in Nat
  <2>1. 1 .. m + 1 = (1 .. m) \cup {m + 1}
    OBVIOUS
  <2> QED
    BY <2>1, Zenon DEF Spelt
<1>2. Spelt(c, 0) = {}
  BY DEF Spelt
<1> DEFINE M == {m \in Nat : IsFiniteSet(Spelt(c, m))}
<1>3. 0 \in M
  BY <1>2, FS_EmptySet
<1>4. ASSUME NEW m \in M PROVE m + 1 \in M
  <2>1. m \in Nat /\ m + 1 \in Nat /\ IsFiniteSet(Spelt(c, m))
    BY DEF M
  <2>2. IsFiniteSet(Spelt(c, m) \cup {c[m + 1].codepoint})
    BY <2>1, FS_AddElement
  <2> QED
    BY <1>1, <2>1, <2>2 DEF M
<1> HIDE DEF M
<1>5. M \subseteq Nat
  BY DEF M
<1>6. M = Nat
  BY <1>3, <1>4, <1>5, Induct
<1>7. IsFiniteSet(Spelt(c, k))
  BY <1>6 DEF M
<1> DEFINE s == Spelt(c, k)
           x == c[k + 1].codepoint
<1>8. Spelt(c, k + 1) = s \cup {x}
  BY <1>1
<1> HIDE DEF s, x
<1>9. x \in s => s \cup {x} = s
  OBVIOUS
<1>10. IsFiniteSet(s)
  BY <1>7 DEF s
<1>11. x \notin s => Cardinality(s \cup {x}) = Cardinality(s) + 1
  BY <1>10, FS_AddElement
<1>12. Cardinality(s) \in Nat
  BY <1>10, FS_CardinalityType
<1> QED
  BY <1>2, <1>8, <1>9, <1>10, <1>11, <1>12 DEF s, x

\* A text spells no more code points before its end than up to it.
LEMMA SpeltGrows ==
    ASSUME NEW c, NEW n \in Nat, NEW k \in 0 .. n
    PROVE  Spelt(c, k) \subseteq Spelt(c, n) /\ Cardinality(Spelt(c, k)) <= Cardinality(Spelt(c, n))
<1>1. Spelt(c, k) \subseteq Spelt(c, n)
  <2>1. 1 .. k \subseteq 1 .. n
    OBVIOUS
  <2> QED
    BY <2>1, Zenon DEF Spelt
<1>2. IsFiniteSet(Spelt(c, n))
  BY SpeltNext
<1> QED
  BY <1>1, <1>2, FS_Subset

\* A table of the first k characters: an id for each, in the order they first appear in.
RankedTo(c, t, k) ==
    /\ DOMAIN t.ids = Spelt(c, k)
    /\ Cardinality(Spelt(c, k)) + 1 < Capacity => t.next_id = Cardinality(Spelt(c, k)) + 1
    /\ \A i \in 1 .. k : c[i].codepoint \notin Spelt(c, i - 1) => t.ids[c[i].codepoint] = Cardinality(Spelt(c, i))

LEMMA FirstIsRanked ==
    ASSUME NEW c
    PROVE  RankedTo(c, FirstTable, 0)
<1>1. Spelt(c, 0) = {} /\ Cardinality({}) = 0
  BY SpeltNext, FS_EmptySet
<1>2. DOMAIN FirstTable.ids = {} /\ FirstTable.next_id = 1
  BY DEF FirstTable
<1>3. 1 .. 0 = {}
  OBVIOUS
<1> QED
  BY <1>1, <1>2, <1>3 DEF RankedTo

LEMMA NextIsRanked ==
    ASSUME NEW c, NEW k \in Nat, NEW t, RankedTo(c, t, k), Cardinality(Spelt(c, k + 1)) < Capacity
    PROVE  RankedTo(c, TableAfter(c, t, k + 1), k + 1)
<1> DEFINE x == c[k + 1].codepoint
           u == TableAfter(c, t, k + 1)
           size == Cardinality(Spelt(c, k))
<1>0. Capacity \in Int
  <2>1. IdBits \in Nat
    BY MapsAssumption
  <2> QED
    BY <2>1 DEF Capacity
<1>1. DOMAIN t.ids = Spelt(c, k) /\ size \in Nat
  BY SpeltNext DEF RankedTo
<1>2. /\ DOMAIN u.ids = Spelt(c, k) \cup {x}
      /\ \A y \in Spelt(c, k) : u.ids[y] = t.ids[y]
      /\ x \notin Spelt(c, k) => u.ids[x] = t.next_id
      /\ u.next_id = IF x \in Spelt(c, k) THEN t.next_id ELSE (t.next_id + 1) % Capacity
  BY <1>1 DEF TableAfter, Emplaced, Capacity
<1>3. Spelt(c, k + 1) = Spelt(c, k) \cup {x}
  BY SpeltNext
<1>4. \A i \in 1 .. k : c[i].codepoint \in Spelt(c, k)
  BY DEF Spelt
<1>5. \A i \in 1 .. k : c[i].codepoint \notin Spelt(c, i - 1) => u.ids[c[i].codepoint] = Cardinality(Spelt(c, i))
  BY <1>2, <1>4 DEF RankedTo
<1>6. \A i \in 1 .. k + 1 : i \in 1 .. k \/ i = k + 1
  OBVIOUS
<1>7. (k + 1) - 1 = k
  OBVIOUS
<1> HIDE DEF u, x
<1>8. CASE x \in Spelt(c, k)
  <2>1. Spelt(c, k + 1) = Spelt(c, k)
    BY <1>3, <1>8
  <2>2. u.next_id = t.next_id
    BY <1>2, <1>8
  <2>3. \A i \in 1 .. k + 1 : c[i].codepoint \notin Spelt(c, i - 1) => u.ids[c[i].codepoint] = Cardinality(Spelt(c, i))
    BY <1>5, <1>6, <1>7, <1>8 DEF x
  <2> QED
    BY <1>2, <1>3, <2>1, <2>2, <2>3 DEF RankedTo, u
<1>9. CASE x \notin Spelt(c, k)
  <2>1. Cardinality(Spelt(c, k + 1)) = size + 1
    BY <1>9, SpeltNext DEF x
  <2>2. t.next_id = size + 1
    BY <2>1 DEF RankedTo
  <2>3. u.ids[x] = Cardinality(Spelt(c, k + 1))
    BY <1>2, <1>9, <2>1, <2>2
  <2>4. Cardinality(Spelt(c, k + 1)) + 1 < Capacity => u.next_id = Cardinality(Spelt(c, k + 1)) + 1
    <3>1. u.next_id = (size + 2) % Capacity
      <4>1. t.next_id + 1 = size + 2
        BY <1>1, <2>2
      <4> QED
        BY <1>2, <1>9, <4>1
    <3> HIDE DEF size
    <3>2. size + 2 < Capacity => (size + 2) % Capacity = size + 2
      BY <1>0, <1>1
    <3> QED
      BY <1>1, <2>1, <3>1, <3>2
  <2>5. \A i \in 1 .. k + 1 : c[i].codepoint \notin Spelt(c, i - 1) => u.ids[c[i].codepoint] = Cardinality(Spelt(c, i))
    BY <1>5, <1>6, <2>3 DEF x
  <2> QED
    BY <1>2, <1>3, <2>4, <2>5 DEF RankedTo, u
<1> QED
  BY <1>8, <1>9

\* As long as there are ids, every character has its rank.
LEMMA InternedRanks ==
    ASSUME NEW c, Len(c) \in Nat, Cardinality(Spelt(c, Len(c))) < 2 ^ IdBits
    PROVE  /\ DOMAIN Interned(c) = Spelt(c, Len(c))
           /\ \A k \in 1 .. Len(c) :
                 c[k].codepoint \notin Spelt(c, k - 1) =>
                     IdOf(Interned(c), c[k].codepoint) = Cardinality(Spelt(c, k))
<1> DEFINE n == Len(c)
<1>1. PICK f : Tables(c, n, f) /\ Interned(c) = f[n].ids
  BY InternedIs
<1>2. \A k \in 0 .. n : f[k] = IF k = 0 THEN FirstTable ELSE TableAfter(c, f[k - 1], k)
  BY <1>1 DEF Tables
<1> HIDE DEF n
<1>3. n \in Nat /\ Cardinality(Spelt(c, n)) < Capacity /\ Capacity \in Int
  <2>1. IdBits \in Nat
    BY MapsAssumption
  <2>2. Capacity \in Int
    BY <2>1 DEF Capacity
  <2> QED
    BY <2>2 DEF Capacity, n
<1> DEFINE T == {k \in Nat : k <= n => RankedTo(c, f[k], k)}
<1>4. 0 \in T
  BY <1>2, <1>3, FirstIsRanked
<1>5. ASSUME NEW k \in T PROVE k + 1 \in T
  <2> SUFFICES ASSUME k + 1 <= n PROVE RankedTo(c, f[k + 1], k + 1)
    OBVIOUS
  <2>1. k \in Nat /\ k + 1 \in 0 .. n /\ RankedTo(c, f[k], k) /\ k + 1 # 0 /\ (k + 1) - 1 = k
    BY <1>3
  <2>2. f[k + 1] = TableAfter(c, f[k], k + 1)
    BY <1>2, <2>1
  <2> HIDE DEF T
  <2>3. Cardinality(Spelt(c, k + 1)) < Capacity
    <3>1. Cardinality(Spelt(c, k + 1)) <= Cardinality(Spelt(c, n))
      BY <1>3, <2>1, SpeltGrows
    <3>2. Cardinality(Spelt(c, k + 1)) \in Nat /\ Cardinality(Spelt(c, n)) \in Nat
      BY <1>3, <2>1, SpeltNext
    <3> QED
      BY <1>3, <3>1, <3>2
  <2>4. RankedTo(c, TableAfter(c, f[k], k + 1), k + 1)
    BY <2>1, <2>3, NextIsRanked
  <2> QED
    BY <2>2, <2>4
<1> HIDE DEF T
<1>6. T \subseteq Nat
  BY DEF T
<1>7. T = Nat
  BY <1>4, <1>5, <1>6, Induct
<1>8. RankedTo(c, f[n], n)
  <2>1. n \in T
    BY <1>3, <1>7
  <2> QED
    BY <1>3, <2>1 DEF T
<1>9. \A k \in 1 .. n : c[k].codepoint \in Spelt(c, n)
  BY DEF Spelt
<1> QED
  BY <1>1, <1>8, <1>9 DEF RankedTo, IdOf, n

\* The map of a file that loads is one of Maps, and its ids are those of the model's table.
LEMMA LoadedTable ==
    ASSUME NEW f \in Seq(Int), Load(f).status = "ok"
    PROVE  /\ Unit(f, 13) = f[13] /\ Maps[f[13]] \in Seq(Bytes)
           /\ Load(f).model.table.ids = Interned(Characters(Maps[f[13]]))
<1> DEFINE l == Layout(f)
           m == ModelAt(f, l)
<1>1. ConfigOk(f) /\ Load(f).model = m
  BY DEF Load
<1> HIDE DEF l
<1>2. m.table = CharTable(Maps[Unit(f, 13)])
  BY DEF ModelAt
<1> HIDE DEF m
<1>3. Unit(f, 13) \in DOMAIN Maps
  BY <1>1 DEF ConfigOk
<1>4. Maps \in Seq(Seq(Bytes))
  BY MapsAssumption
<1>5. Unit(f, 13) # 0
  BY <1>3, <1>4
<1>6. Unit(f, 13) = f[13]
  BY <1>5 DEF Unit
<1>7. Maps[f[13]] \in Seq(Bytes)
  BY <1>3, <1>4, <1>6
<1>8. CharTable(Maps[f[13]]).ids = Interned(Characters(Maps[f[13]]))
  BY DEF CharTable
<1> QED
  BY <1>1, <1>2, <1>6, <1>7, <1>8

\* The model at hand is what its file loads as.
LoadedInv ==
    status = "ok" => file \in DOMAIN Disk /\ Load(Disk[file].fields).status = "ok" /\ model = Load(Disk[file].fields).model

LEMMA NextLoadedInv == LoadedInv /\ [Next]_vars => LoadedInv'
<1> SUFFICES ASSUME LoadedInv, [Next]_vars PROVE LoadedInv'
  OBVIOUS
<1>1. CASE LoadModel
  <2>1. PICK f \in DOMAIN Disk : file' = f /\ status' = Loads[f].status /\ model' = Loads[f].model
    BY <1>1 DEF LoadModel
  <2>2. Loads[f] = Load(Disk[f].fields)
    BY LoadsIsLoad
  <2> QED
    BY <2>1, <2>2 DEF LoadedInv
<1>2. CASE ~LoadModel
  <2>1. UNCHANGED loaded
    <3>1. CASE EncodeFails \/ Call
      BY <3>1 DEF EncodeFails, Call
    <3>2. CASE CharMatch \/ CharsDone \/ TypeMatch \/ TypesDone
      BY <3>2 DEF CharMatch, CharsDone, TypeMatch, TypesDone, NgramMatch, NgramsDone
    <3>3. CASE SkipDictionary \/ Prepare \/ AllocationThrows
      BY <3>3 DEF SkipDictionary, Prepare, AllocationThrows
    <3>4. CASE WordMatch \/ MarkSeen \/ MarkNew \/ MarkThrows \/ WordsDone
      BY <3>4 DEF WordMatch, MarkSeen, MarkNew, MarkThrows, WordsDone
    <3>5. CASE CutWords
      BY <3>5 DEF CutWords
    <3>6. CASE UNCHANGED vars
      BY <3>6 DEF vars
    <3> QED
      BY <1>2, <3>1, <3>2, <3>3, <3>4, <3>5, <3>6 DEF Next
  <2> QED
    BY <2>1 DEF LoadedInv, loaded
<1> QED
  BY <1>1, <1>2

LEMMA RanksHold == LoadedInv => IdsByFirstAppearance
<1> SUFFICES ASSUME LoadedInv, step = "idle", outcome = "none", status = "ok"
             PROVE  IdsByFirstAppearance
  BY DEF IdsByFirstAppearance
<1> DEFINE f == Disk[file].fields
           c == Characters(Maps[f[13]])
<1>1. file \in DOMAIN Disk /\ Load(f).status = "ok" /\ model = Load(f).model
  BY DEF LoadedInv
<1>2. f \in Seq(Int)
  BY <1>1, ScorerAssumption
<1> HIDE DEF f
<1>3. Maps[f[13]] \in Seq(Bytes) /\ model.table.ids = Interned(c)
  BY <1>1, <1>2, LoadedTable
<1>4. c \in Seq(CharsOf(Maps[f[13]]))
  BY <1>3, CharactersChained DEF Chained
<1>5. Len(c) \in Nat /\ DOMAIN c = 1 .. Len(c)
  BY <1>4
<1> HIDE DEF c
<1>6. Cardinality(Spelt(c, Len(c))) < 2 ^ IdBits =>
         /\ DOMAIN model.table.ids = Spelt(c, Len(c))
         /\ \A k \in DOMAIN c :
               c[k].codepoint \notin Spelt(c, k - 1) =>
                   IdOf(model.table.ids, c[k].codepoint) = Cardinality(Spelt(c, k))
  BY <1>3, <1>5, InternedRanks
<1> QED
  BY <1>6 DEF IdsByFirstAppearance, Spelt, c, f

\* As long as its map has fewer characters than there are ids, the table of a model that loads gives
\* every character its rank of first appearance, and nothing else an id.
THEOREM IdsAreRanks == Spec => []IdsByFirstAppearance
<1>1. Init => LoadedInv
  BY DEF Init, LoadedInv
<1> QED
  BY <1>1, NextLoadedInv, RanksHold, PTL DEF Spec
=============================================================================
