------------------------- MODULE MlpTokenizerProofs -------------------------
(***************************************************************************)
(* The MLP and EDLA backends for any files, texts, models and tables.      *)
(*                                                                         *)
(* First GraphemeBreaker against the rules, for texts of any length over   *)
(* any property table, and a run counter of any even modulus: the state is *)
(* a faithful summary of the text, so the decision is the rules'.  Then    *)
(* MlpTokenizer, which cuts by those rules: the words of a text partition  *)
(* it (WordsInv), and no index leads out of its array (BoundsInv), from    *)
(* what the parser of a model's file has checked on to the last block the  *)
(* scorer gathers.                                                         *)
(***************************************************************************)
EXTENDS MlpTokenizer, GraphemeBreaker, FiniteSetTheorems, SequenceTheorems, WellFoundedInduction, TLAPS

-----------------------------------------------------------------------------
(* GraphemeBreaker: one code point more, on the declarative side. *)

LEMMA AppendFacts ==
    ASSUME NEW S, NEW p \in Seq(S), NEW c \in S
    PROVE  /\ Append(p, c) \in Seq(S)
           /\ Len(Append(p, c)) = Len(p) + 1
           /\ Append(p, c)[Len(p) + 1] = c
           /\ \A i \in 1 .. Len(p) : Append(p, c)[i] = p[i]
           /\ Append(p, c) # <<>>
           /\ Before(Append(p, c)) = p
<1>1. Before(Append(p, c)) = p
  <2>1. Append(p, c) \in Seq(S) /\ Len(Append(p, c)) = Len(p) + 1 /\ Len(p) \in Nat
      BY AppendProperties
  <2>2. \A i \in 1 .. Len(p) : Append(p, c)[i] = p[i]
      BY AppendProperties
  <2>3. Before(Append(p, c)) \in Seq(S) /\ Len(Before(Append(p, c))) = Len(p)
      BY <2>1, SubSeqProperties DEF Before
  <2>4. \A i \in 1 .. Len(p) : Before(Append(p, c))[i] = p[i]
      BY <2>1, <2>2, SubSeqProperties DEF Before
  <2> QED
      BY <2>3, <2>4, SeqEqual
<1> QED
    BY <1>1, AppendProperties

LEMMA LinkedAppend ==
    ASSUME NEW p \in Seq(Props), NEW c \in Props
    PROVE  EndsLinked(Append(p, c)) <=> (c.incb = "Linker" \/ (EndsLinked(p) /\ c.incb = "Extend"))
<1> DEFINE s == Append(p, c)
<1> HIDE DEF s
<1>1. Len(s) = Len(p) + 1 /\ s[Len(p) + 1] = c /\ (\A i \in 1 .. Len(p) : s[i] = p[i]) /\ Len(p) \in Nat
    BY AppendFacts DEF s
<1>2. ASSUME EndsLinked(s) PROVE c.incb = "Linker" \/ (EndsLinked(p) /\ c.incb = "Extend")
  <2>1. PICK j \in 1 .. Len(s) : s[j].incb = "Linker" /\ \A k \in j + 1 .. Len(s) : s[k].incb = "Extend"
      BY <1>2 DEF EndsLinked
  <2>2. CASE j = Len(s)
      BY <1>1, <2>1, <2>2
  <2>3. CASE j # Len(s)
    <3>1. j \in 1 .. Len(p) /\ c.incb = "Extend"
        BY <1>1, <2>1, <2>3
    <3>2. p[j].incb = "Linker" /\ \A k \in j + 1 .. Len(p) : p[k].incb = "Extend"
        BY <1>1, <2>1, <3>1
    <3> QED
        BY <3>1, <3>2 DEF EndsLinked
  <2> QED
      BY <2>2, <2>3
<1>3. ASSUME c.incb = "Linker" PROVE EndsLinked(s)
  <2>1. \A k \in Len(s) + 1 .. Len(s) : s[k].incb = "Extend"
      BY <1>1
  <2> QED
      BY <1>1, <1>3, <2>1 DEF EndsLinked
<1>4. ASSUME EndsLinked(p), c.incb = "Extend" PROVE EndsLinked(s)
  <2>1. PICK j \in 1 .. Len(p) : p[j].incb = "Linker" /\ \A k \in j + 1 .. Len(p) : p[k].incb = "Extend"
      BY <1>4 DEF EndsLinked
  <2>2. j \in 1 .. Len(s) /\ s[j].incb = "Linker" /\ \A k \in j + 1 .. Len(s) : s[k].incb = "Extend"
      BY <1>1, <1>4, <2>1
  <2> QED
      BY <2>2 DEF EndsLinked
<1> QED
    BY <1>2, <1>3, <1>4 DEF s

LEMMA PictographicAppend ==
    ASSUME NEW p \in Seq(Props), NEW c \in Props
    PROVE  EndsPictographic(Append(p, c)) <=> (c.pict \/ (EndsPictographic(p) /\ c.gcb = "Extend"))
<1> DEFINE s == Append(p, c)
<1> HIDE DEF s
<1>1. Len(s) = Len(p) + 1 /\ s[Len(p) + 1] = c /\ (\A i \in 1 .. Len(p) : s[i] = p[i]) /\ Len(p) \in Nat
    BY AppendFacts DEF s
<1>2. ASSUME EndsPictographic(s) PROVE c.pict \/ (EndsPictographic(p) /\ c.gcb = "Extend")
  <2>1. PICK j \in 1 .. Len(s) : s[j].pict /\ \A k \in j + 1 .. Len(s) : s[k].gcb = "Extend"
      BY <1>2 DEF EndsPictographic
  <2>2. CASE j = Len(s)
      BY <1>1, <2>1, <2>2
  <2>3. CASE j # Len(s)
    <3>1. j \in 1 .. Len(p) /\ c.gcb = "Extend"
        BY <1>1, <2>1, <2>3
    <3>2. p[j].pict /\ \A k \in j + 1 .. Len(p) : p[k].gcb = "Extend"
        BY <1>1, <2>1, <3>1
    <3> QED
        BY <3>1, <3>2 DEF EndsPictographic
  <2> QED
      BY <2>2, <2>3
<1>3. ASSUME c.pict PROVE EndsPictographic(s)
  <2>1. \A k \in Len(s) + 1 .. Len(s) : s[k].gcb = "Extend"
      BY <1>1
  <2> QED
      BY <1>1, <1>3, <2>1 DEF EndsPictographic
<1>4. ASSUME EndsPictographic(p), c.gcb = "Extend" PROVE EndsPictographic(s)
  <2>1. PICK j \in 1 .. Len(p) : p[j].pict /\ \A k \in j + 1 .. Len(p) : p[k].gcb = "Extend"
      BY <1>4 DEF EndsPictographic
  <2>2. j \in 1 .. Len(s) /\ s[j].pict /\ \A k \in j + 1 .. Len(s) : s[k].gcb = "Extend"
      BY <1>1, <1>4, <2>1
  <2> QED
      BY <2>2 DEF EndsPictographic
<1> QED
    BY <1>2, <1>3, <1>4 DEF s

\* A text has at most one maximal run of regional indicators at its end.
LEMMA RunUnique ==
    ASSUME NEW p \in Seq(Props), NEW j, NEW k, IsRIRun(p, j), IsRIRun(p, k)
    PROVE  j = k
<1>1. j \in 1 .. Len(p) + 1 /\ k \in 1 .. Len(p) + 1 /\ Len(p) \in Nat
    BY DEF IsRIRun
<1>2. CASE j < k
    BY <1>1, <1>2, k - 1 \in j .. Len(p) DEF IsRIRun
<1>3. CASE k < j
    BY <1>1, <1>3, j - 1 \in k .. Len(p) DEF IsRIRun
<1> QED
    BY <1>1, <1>2, <1>3

\* The run at the end grows by a regional indicator and is cut by anything else.
LEMMA RunAppend ==
    ASSUME NEW p \in Seq(Props), NEW c \in Props, NEW j, IsRIRun(p, j)
    PROVE  IsRIRun(Append(p, c), IF c.gcb = "RegionalIndicator" THEN j ELSE Len(p) + 2)
<1> DEFINE s == Append(p, c)
<1> HIDE DEF s
<1>1. Len(s) = Len(p) + 1 /\ s[Len(p) + 1] = c /\ (\A i \in 1 .. Len(p) : s[i] = p[i]) /\ Len(p) \in Nat
    BY AppendFacts DEF s
<1>2. CASE c.gcb = "RegionalIndicator"
  <2>1. j \in 1 .. Len(s) + 1 /\ j \in 1 .. Len(p) + 1
      BY <1>1 DEF IsRIRun
  <2>2. \A k \in j .. Len(s) : s[k].gcb = "RegionalIndicator"
      BY <1>1, <1>2, <2>1 DEF IsRIRun
  <2>3. j = 1 \/ s[j - 1].gcb # "RegionalIndicator"
      BY <1>1, <2>1 DEF IsRIRun
  <2> QED
      BY <1>2, <2>1, <2>2, <2>3 DEF IsRIRun, s
<1>3. CASE c.gcb # "RegionalIndicator"
    BY <1>1, <1>3 DEF IsRIRun, s
<1> QED
    BY <1>2, <1>3

-----------------------------------------------------------------------------
(* The state summarises the text. *)

\* The counter and the run at the end of the text have the same parity.
RunInv == \E j : IsRIRun(fed, j) /\ (Len(fed) + 1 - j) % 2 = ri_run % 2

BreakerInv == BreakerTypeOK /\ RunInv /\ StateMatchesText /\ BreaksByTheRules

\* Counting modulo an even number keeps the parity.
LEMMA ParityOfNext ==
    ASSUME NEW r \in Nat
    PROVE  /\ (r + 1) % Modulus \in 0 .. Modulus - 1
           /\ ((r + 1) % Modulus) % 2 = (r + 1) % 2
<1>1. PICK h \in Nat : Modulus = 2 * h /\ h > 0
  <2>1. Modulus = 2 * (Modulus \div 2) /\ Modulus \div 2 \in Nat /\ Modulus \div 2 > 0
      BY BreakerAssumption
  <2> QED
      BY <2>1
<1>2. (r + 1) % Modulus \in 0 .. Modulus - 1
    BY BreakerAssumption
<1>3. (r + 1) = (2 * h) * ((r + 1) \div (2 * h)) + ((r + 1) % (2 * h))
    BY <1>1
<1>4. PICK u \in Nat : r + 1 = 2 * u + ((r + 1) % Modulus)
  <2>1. (r + 1) \div (2 * h) \in Nat
      BY <1>1
  <2>2. h * ((r + 1) \div (2 * h)) \in Nat
      BY <1>1, <2>1
  <2> QED
      BY <1>1, <1>3, <2>1, <2>2
<1> QED
    BY <1>2, <1>4

LEMMA RunParity ==
    ASSUME NEW p \in Seq(Props), NEW r \in Nat,
           \E j : IsRIRun(p, j) /\ (Len(p) + 1 - j) % 2 = r % 2
    PROVE  /\ r % 2 = 1 <=> EndsOddRI(p)
           /\ EndsOddRI(p) => p # <<>> /\ p[Len(p)].gcb = "RegionalIndicator"
<1>1. PICK j : IsRIRun(p, j) /\ (Len(p) + 1 - j) % 2 = r % 2
    OBVIOUS
<1>2. j \in 1 .. Len(p) + 1 /\ Len(p) \in Nat
    BY <1>1 DEF IsRIRun
<1>3. ASSUME EndsOddRI(p) PROVE r % 2 = 1
    BY <1>1, <1>3, RunUnique DEF EndsOddRI
<1>4. ASSUME r % 2 = 1 PROVE EndsOddRI(p)
  <2>1. j # Len(p) + 1
      BY <1>1, <1>2, <1>4
  <2> QED
      BY <1>1, <1>2, <1>4, <2>1 DEF EndsOddRI
<1>5. ASSUME EndsOddRI(p) PROVE p # <<>> /\ p[Len(p)].gcb = "RegionalIndicator"
  <2>1. PICK k \in 1 .. Len(p) : IsRIRun(p, k)
      BY <1>5 DEF EndsOddRI
  <2> QED
      BY <1>2, <2>1, Len(p) \in k .. Len(p) DEF IsRIRun
<1> QED
    BY <1>3, <1>4, <1>5

\* next(cp): the decision is the rules', and the state still summarises the text.
LEMMA FeedStep ==
    ASSUME BreakerInv, NEW c \in Props, Feed(c)
    PROVE  BreakerInv'
<1> USE DEF BreakerInv
<1>1. fed \in Seq(Props) /\ fed' = Append(fed, c) /\ fed' \in Seq(Props) /\ Len(fed) \in Nat
      /\ Len(fed') = Len(fed) + 1 /\ fed'[Len(fed')] = c /\ fed' # <<>> /\ Before(fed') = fed
      /\ \A i \in 1 .. Len(fed) : fed'[i] = fed[i]
    BY AppendFacts DEF Feed, BreakerTypeOK
<1>2. c.gcb \in GraphemeBreaks /\ c.incb \in IndicConjunctBreaks /\ c.pict \in BOOLEAN
    BY BreakerAssumption DEF GraphemeProps
<1>3. BreakerTypeOK'
  <2>1. ri_run' \in 0 .. Modulus - 1
      BY ParityOfNext, BreakerAssumption DEF Feed, NextRun, BreakerTypeOK
  <2>2. gb11' \in {"None", "Pictographic", "PictographicZwj"} /\ gb9c_linker' \in BOOLEAN /\ is_break' \in BOOLEAN
    <3>1. gb11' \in {"None", "Pictographic", "PictographicZwj"}
        BY DEF Feed, NextGb11, BreakerTypeOK
    <3> QED
        BY <3>1 DEF Feed, NextLinker, Decide, BreakerTypeOK
  <2> QED
      BY <1>1, <1>2, <2>1, <2>2 DEF Feed, BreakerTypeOK
<1>4. RunInv'
  <2>1. PICK j : IsRIRun(fed, j) /\ (Len(fed) + 1 - j) % 2 = ri_run % 2
      BY DEF RunInv
  <2>2. j \in 1 .. Len(fed) + 1 /\ ri_run \in Nat
      BY <2>1 DEF IsRIRun, BreakerTypeOK
  <2>3. CASE c.gcb = "RegionalIndicator"
    <3>1. IsRIRun(fed', j)
        BY <1>1, <2>1, <2>3, RunAppend
    <3>2. ri_run' % 2 = (ri_run + 1) % 2
        BY <2>2, <2>3, ParityOfNext DEF Feed, NextRun
    <3>3. (Len(fed') + 1 - j) % 2 = (ri_run + 1) % 2
        BY <1>1, <2>1, <2>2
    <3> QED
        BY <3>1, <3>2, <3>3 DEF RunInv
  <2>4. CASE c.gcb # "RegionalIndicator"
    <3>1. IsRIRun(fed', Len(fed) + 2)
        BY <1>1, <2>1, <2>4, RunAppend
    <3>2. ri_run' = 0 /\ Len(fed') + 1 - (Len(fed) + 2) = 0
        BY <1>1, <2>4 DEF Feed, NextRun
    <3> QED
        BY <3>1, <3>2 DEF RunInv
  <2> QED
      BY <2>3, <2>4
<1>5. StateMatchesText'
  <2>1. (at_start <=> fed = <<>>)' /\ (fed # <<>> => prev = fed[Len(fed)].gcb)'
      BY <1>1 DEF Feed
  <2>2. (gb9c_linker <=> EndsLinked(fed))'
    <3>1. EndsLinked(fed') <=> (c.incb = "Linker" \/ (EndsLinked(fed) /\ c.incb = "Extend"))
        BY <1>1, LinkedAppend
    <3> QED
        BY <3>1 DEF Feed, NextLinker, StateMatchesText
  <2>3. (gb11 = "Pictographic" <=> EndsPictographic(fed))'
    <3>1. EndsPictographic(fed') <=> (c.pict \/ (EndsPictographic(fed) /\ c.gcb = "Extend"))
        BY <1>1, PictographicAppend
    <3>2. c.pict => c.gcb # "ZWJ"
        BY BreakerAssumption
    <3>3. gb11' = "Pictographic" <=> (c.pict \/ (gb11 = "Pictographic" /\ c.gcb = "Extend"))
        BY <1>2, <3>2 DEF Feed, NextGb11, BreakerTypeOK
    <3> QED
        BY <3>1, <3>3 DEF StateMatchesText
  <2>4. (gb11 = "PictographicZwj" <=>
            fed # <<>> /\ fed[Len(fed)].gcb = "ZWJ" /\ EndsPictographic(Before(fed)))'
    <3>1. gb11' = "PictographicZwj" <=> (gb11 = "Pictographic" /\ c.gcb = "ZWJ")
        BY <1>2 DEF Feed, NextGb11, BreakerTypeOK
    <3> QED
        BY <1>1, <3>1 DEF StateMatchesText
  <2>5. (ri_run % 2 = 1 <=> EndsOddRI(fed))'
    <3>1. fed' \in Seq(Props) /\ ri_run' \in Nat
        BY <1>3 DEF BreakerTypeOK
    <3> QED
        BY <1>4, <3>1, RunParity DEF RunInv
  <2> QED
      BY <2>1, <2>2, <2>3, <2>4, <2>5 DEF StateMatchesText
<1>6. BreaksByTheRules'
  <2>1. CASE fed = <<>>
    <3>1. at_start /\ Len(fed') = 1
        BY <1>1, <2>1 DEF StateMatchesText
    <3> QED
        BY <1>1, <3>1 DEF BreaksByTheRules, Boundary, Feed, Decide
  <2>2. CASE fed # <<>>
    <3>1. Len(fed) > 0 /\ Len(fed') # 1
        BY <1>1, <2>2
    <3>2. PrevBreak(fed') = prev /\ Cur(fed') = c /\ CurBreak(fed') = c.gcb
        BY <1>1, <2>2, <3>1 DEF PrevBreak, Cur, CurBreak, StateMatchesText
    <3>3. GB9c(fed') <=> gb9c_linker /\ c.incb = "Consonant"
        BY <1>1, <3>2 DEF GB9c, StateMatchesText
    <3>4. GB11(fed') <=> gb11 = "PictographicZwj" /\ c.pict
        BY <1>1, <2>2, <3>2 DEF GB11, StateMatchesText
    <3>5. GB12(fed') <=> RIJoin(c.gcb)
      <4>1. fed \in Seq(Props) /\ ri_run \in Nat
          BY DEF BreakerTypeOK
      <4>2. EndsOddRI(fed) => prev = "RegionalIndicator"
          BY <2>2, <4>1, RunParity DEF RunInv, StateMatchesText
      <4> QED
          BY <1>1, <3>2, <4>2 DEF GB12, RIJoin, StateMatchesText
    <3>6. Joined(c) <=> \/ GB6(fed') \/ GB7(fed') \/ GB8(fed') \/ GB9(fed') \/ GB9a(fed')
                        \/ GB9b(fed') \/ GB9c(fed') \/ GB11(fed') \/ GB12(fed')
        BY <3>2, <3>3, <3>4, <3>5 DEF Joined, HangulJoin, GB6, GB7, GB8, GB9, GB9a, GB9b
    <3>7. Decide(c) <=> Boundary(fed')
      <4>1. ~at_start
          BY <2>2 DEF StateMatchesText
      <4> QED
          BY <3>1, <3>2, <3>6, <4>1 DEF Decide, Boundary, GB3, GB4, GB5
    <3> QED
        BY <3>7 DEF BreaksByTheRules, Feed
  <2> QED
      BY <2>1, <2>2
<1> QED
    BY <1>3, <1>4, <1>5, <1>6

\* The start of a text, after construction and after reset().
Fresh ==
    /\ fed = <<>>
    /\ at_start = TRUE /\ prev = "Other" /\ gb11 = "None" /\ gb9c_linker = FALSE /\ ri_run = 0
    /\ is_break \in BOOLEAN

LEMMA FreshState == Fresh => BreakerInv
<1> SUFFICES ASSUME Fresh PROVE BreakerInv
    OBVIOUS
<1> USE DEF Fresh
<1>1. BreakerTypeOK
  <2>1. fed \in Seq(Props)
      BY EmptySeq
  <2>2. ri_run \in 0 .. Modulus - 1
      BY BreakerAssumption
  <2> QED
      BY <2>1, <2>2 DEF BreakerTypeOK, GraphemeBreaks
<1>2. Len(fed) = 0 /\ ~EndsLinked(fed) /\ ~EndsPictographic(fed) /\ ~EndsOddRI(fed)
    BY DEF EndsLinked, EndsPictographic, EndsOddRI
<1>3. RunInv
    BY <1>2, IsRIRun(fed, 1), (0 + 1 - 1) % 2 = 0 % 2 DEF RunInv, IsRIRun
<1>4. StateMatchesText
    BY <1>2 DEF StateMatchesText
<1> QED
    BY <1>1, <1>3, <1>4 DEF BreakerInv, BreaksByTheRules

\* The inductive invariant: the state is the text's summary, in every reachable state.
THEOREM Invariance == BreakerSpec => []BreakerInv
<1>1. BreakerInit => BreakerInv
  <2>1. BreakerInit => Fresh
      BY DEF BreakerInit, Fresh
  <2> QED
      BY <2>1, FreshState
<1>2. BreakerInv /\ [BreakerNext]_breakerVars => BreakerInv'
  <2>1. BreakerInv /\ Reset => Fresh'
      BY DEF BreakerInv, BreakerTypeOK, Reset, Fresh
  <2>2. BreakerInv /\ Reset => BreakerInv'
      BY <2>1, FreshState, PTL
  <2>3. BreakerInv /\ (\E c \in Props : Feed(c)) => BreakerInv'
      BY FeedStep
  <2>4. BreakerInv /\ UNCHANGED breakerVars => BreakerInv'
      BY DEF BreakerInv, breakerVars, memberVars, BreakerTypeOK, RunInv, StateMatchesText, BreaksByTheRules
  <2> QED
      BY <2>2, <2>3, <2>4 DEF BreakerNext
<1> QED
    BY <1>1, <1>2, PTL DEF BreakerSpec

\* Every member keeps its type; the run counter never leaves its width.
THEOREM TypeCorrect == BreakerSpec => []BreakerTypeOK
BY Invariance, PTL DEF BreakerInv

\* GraphemeBreaker::next implements the rules of UAX #29 on every text.
THEOREM ImplementsUAX29 == BreakerSpec => []BreaksByTheRules
BY Invariance, PTL DEF BreakerInv

\* Each member of the breaker is the summary of the text its rule needs.
THEOREM StateIsSummary == BreakerSpec => []StateMatchesText
BY Invariance, PTL DEF BreakerInv

-----------------------------------------------------------------------------
(* Numbers, sets of numbers and sequences. *)

\* A set of numbers has a least one.
LEMMA LeastNat ==
    ASSUME NEW T, T \subseteq Nat, T # {}
    PROVE  \E n \in T : \A k \in T : n <= k
<1> DEFINE R == {ss \in Nat \X Nat : ss[1] < ss[2]}
<1>1. IsWellFoundedOn(R, Nat)
  BY NatLessThanWellFounded DEF OpToRel
<1> HIDE DEF R
<1>2. \E n \in T : \A k \in T : ~ (<<k, n>> \in R)
  BY <1>1, WFMin
<1>3. PICK n \in T : \A k \in T : ~ (<<k, n>> \in R)
  BY <1>2
<1>4. \A k \in T : <<k, n>> \in R <=> k < n
  BY DEF R
<1>5. \A k \in T : n <= k
  <2> TAKE k \in T
  <2>1. n \in Nat /\ k \in Nat
    OBVIOUS
  <2>2. ~ (k < n)
    BY <1>3, <1>4
  <2> QED
    BY <2>1, <2>2
<1> QED
  BY <1>5

\* Induction, as sets of numbers.
LEMMA Induct ==
    ASSUME NEW S \in SUBSET Nat, 0 \in S, \A n \in S : n + 1 \in S
    PROVE  S = Nat
<1>1. SUFFICES ASSUME Nat \ S # {} PROVE FALSE
  OBVIOUS
<1>2. PICK n \in Nat \ S : \A k \in Nat \ S : n <= k
  BY <1>1, LeastNat
<1>3. n - 1 \in S
  BY <1>2
<1> QED
  BY <1>2, <1>3

\* insert at the end: what was there stays, what is new follows.
LEMMA Appended ==
    ASSUME NEW X, NEW s \in Seq(X), NEW t \in Seq(X)
    PROVE  /\ s \o t \in Seq(X) /\ Len(s) \in Nat /\ Len(t) \in Nat
           /\ Len(s \o t) = Len(s) + Len(t)
           /\ DOMAIN (s \o t) = 1 .. Len(s) + Len(t)
           /\ \A k \in 1 .. Len(s) : (s \o t)[k] = s[k]
           /\ \A k \in 1 .. Len(t) : (s \o t)[Len(s) + k] = t[k]
<1> DEFINE u == s \o t
<1>1. /\ u \in Seq(X) /\ Len(u) = Len(s) + Len(t)
      /\ \A k \in 1 .. Len(s) + Len(t) : u[k] = IF k <= Len(s) THEN s[k] ELSE t[k - Len(s)]
  BY ConcatProperties
<1>2. Len(s) \in Nat /\ Len(t) \in Nat
  OBVIOUS
<1> HIDE DEF u
<1>3. DOMAIN u = 1 .. Len(s) + Len(t)
  BY <1>1, <1>2
<1>4. \A k \in 1 .. Len(s) : u[k] = s[k]
  BY <1>1, <1>2
<1>5. \A k \in 1 .. Len(t) : u[Len(s) + k] = t[k]
  <2> TAKE k \in 1 .. Len(t)
  <2>1. Len(s) + k \in 1 .. Len(s) + Len(t) /\ ~ (Len(s) + k <= Len(s)) /\ (Len(s) + k) - Len(s) = k
    BY <1>2
  <2> QED
    BY <1>1, <2>1
<1> QED
  BY <1>1, <1>2, <1>3, <1>4, <1>5 DEF u

Rank(S, c) == Cardinality({t \in S : t < c})

\* A rank is a number, up to all there are.
LEMMA RankBounds ==
    ASSUME NEW n \in Nat, NEW S \in SUBSET (0 .. n - 1)
    PROVE  /\ IsFiniteSet(S) /\ Cardinality(S) \in Nat
           /\ \A c : Rank(S, c) \in Nat /\ Rank(S, c) <= Cardinality(S) /\ IsFiniteSet({t \in S : t < c})
           /\ Rank(S, 0) = 0 /\ Rank(S, n) = Cardinality(S)
<1>1. IsFiniteSet(0 .. n - 1)
  BY FS_Interval
<1>2. IsFiniteSet(S)
  BY <1>1, FS_Subset
<1>3. ASSUME NEW c
      PROVE  Rank(S, c) \in Nat /\ Rank(S, c) <= Cardinality(S) /\ IsFiniteSet({t \in S : t < c})
  <2>1. {t \in S : t < c} \in SUBSET S
    OBVIOUS
  <2> QED
    BY <1>2, <2>1, FS_Subset, FS_CardinalityType DEF Rank
<1>4. {t \in S : t < 0} = {} /\ {t \in S : t < n} = S
  <2>1. \A t \in S : t \in Int /\ ~ (t < 0) /\ t < n
    OBVIOUS
  <2> QED
    BY <2>1
<1>5. Rank(S, 0) = 0 /\ Rank(S, n) = Cardinality(S)
  BY <1>4, FS_EmptySet DEF Rank
<1> QED
  BY <1>2, <1>3, <1>5, FS_CardinalityType

\* One more, if a cluster starts there.
LEMMA RankNext ==
    ASSUME NEW n \in Nat, NEW S \in SUBSET (0 .. n - 1), NEW c \in Int
    PROVE  Rank(S, c + 1) = IF c \in S THEN Rank(S, c) + 1 ELSE Rank(S, c)
<1> DEFINE below == {t \in S : t < c}
<1>0. \A t \in S : t < c + 1 <=> t < c \/ t = c
  <2>1. \A t \in S : t \in Int
    OBVIOUS
  <2> QED
    BY <2>1
<1>1. IsFiniteSet(below)
  BY RankBounds
<1>2. CASE c \in S
  <2>1. {t \in S : t < c + 1} = below \union {c} /\ c \notin below
    <3>1. c \notin below
      OBVIOUS
    <3>2. \A t : t \in S /\ t < c + 1 <=> t \in below \union {c}
      BY <1>0, <1>2
    <3> QED
      BY <3>1, <3>2, Zenon
  <2> HIDE DEF below
  <2>2. Cardinality(below \union {c}) = Cardinality(below) + 1
    BY <1>1, <2>1, FS_AddElement
  <2> QED
    BY <1>2, <2>1, <2>2 DEF Rank, below
<1>3. CASE c \notin S
  <2>1. {t \in S : t < c + 1} = below
    BY <1>0, <1>3
  <2> QED
    BY <1>3, <2>1 DEF Rank
<1> QED
  BY <1>2, <1>3

\* Ranks grow with the code points.
LEMMA RankGrows ==
    ASSUME NEW n \in Nat, NEW S \in SUBSET (0 .. n - 1), NEW a \in Int, NEW b \in Int, a <= b
    PROVE  /\ Rank(S, a) <= Rank(S, b)
           /\ a \in S /\ a < b => Rank(S, a) < Rank(S, b)
<1>1. \A p, r \in Int : p <= r => Rank(S, p) <= Rank(S, r)
  <2> SUFFICES ASSUME NEW p \in Int, NEW r \in Int, p <= r PROVE Rank(S, p) <= Rank(S, r)
    OBVIOUS
  <2>0. \A t \in S : t < p => t < r
    <3>1. \A t \in S : t \in Int
      OBVIOUS
    <3> QED
      BY <3>1
  <2>1. {t \in S : t < p} \in SUBSET {t \in S : t < r}
    BY <2>0, Zenon
  <2>2. IsFiniteSet({t \in S : t < r})
    BY RankBounds
  <2> QED
    BY <2>1, <2>2, FS_Subset DEF Rank
<1>2. ASSUME a \in S, a < b PROVE Rank(S, a) < Rank(S, b)
  <2>1. Rank(S, a + 1) = Rank(S, a) + 1
    BY <1>2, RankNext
  <2>2. Rank(S, a + 1) <= Rank(S, b)
    BY <1>1, <1>2
  <2>3. Rank(S, a) \in Nat /\ Rank(S, b) \in Nat
    BY RankBounds
  <2> QED
    BY <2>1, <2>2, <2>3
<1> QED
  BY <1>1, <1>2

\* Every number of a cluster is the rank of where it starts.
LEMMA RankExists ==
    ASSUME NEW n \in Nat, NEW S \in SUBSET (0 .. n - 1), NEW e \in 0 .. Cardinality(S) - 1
    PROVE  \E s \in S : Rank(S, s) = e
<1> DEFINE T == {c \in Nat : e < Rank(S, c + 1)}
<1>1. Cardinality(S) \in Nat /\ Rank(S, 0) = 0 /\ Rank(S, n) = Cardinality(S) /\ \A c : Rank(S, c) \in Nat
  BY RankBounds
<1>2. n # 0
  BY <1>1
<1>3. n - 1 \in T
  BY <1>1, <1>2
<1>4. PICK c \in T : \A d \in T : c <= d
  BY <1>3, LeastNat
<1>5. c \in Nat /\ e < Rank(S, c + 1)
  OBVIOUS
<1>6. Rank(S, c) <= e
  <2>1. CASE c = 0
    BY <1>1, <2>1
  <2>2. CASE c # 0
    <3>1. c - 1 \in Nat /\ c - 1 \notin T /\ (c - 1) + 1 = c
      BY <1>4, <1>5, <2>2
    <3> QED
      BY <1>1, <3>1
  <2> QED
    BY <2>1, <2>2
<1>7. Rank(S, c + 1) = IF c \in S THEN Rank(S, c) + 1 ELSE Rank(S, c)
  <2>1. c \in Int
    BY <1>5
  <2> HIDE DEF T
  <2> QED
    BY <2>1, RankNext
<1>8. c \in S /\ Rank(S, c) = e
  BY <1>1, <1>5, <1>6, <1>7
<1> QED
  BY <1>8

\* Where cluster e of S starts.
Start(S, e) == CHOOSE s \in S : Cardinality({t \in S : t < s}) = e

\* Every rank below the number of them is some start's.
LEMMA StartHasRank ==
    ASSUME NEW n \in Nat, NEW S \in SUBSET (0 .. n - 1), NEW e \in 0 .. Cardinality(S) - 1
    PROVE  Start(S, e) \in S /\ Rank(S, Start(S, e)) = e /\ Start(S, e) \in 0 .. n - 1
<1>1. \E s \in S : Cardinality({t \in S : t < s}) = e
  BY RankExists DEF Rank
<1>2. Start(S, e) \in S /\ Cardinality({t \in S : t < Start(S, e)}) = e
  BY <1>1 DEF Start
<1> QED
  BY <1>2 DEF Rank

\* A start is the one of its rank.
LEMMA StartOfRank ==
    ASSUME NEW n \in Nat, NEW S \in SUBSET (0 .. n - 1), NEW c \in S
    PROVE  Start(S, Rank(S, c)) = c /\ Rank(S, c) \in 0 .. Cardinality(S) - 1
<1> DEFINE e == Rank(S, c)
           s == Start(S, e)
<1>1. c \in Int /\ n \in Int /\ c < n /\ c <= n
  OBVIOUS
<1>2. Rank(S, c) < Rank(S, n) /\ Rank(S, n) = Cardinality(S) /\ Rank(S, c) \in Nat /\ Cardinality(S) \in Nat
  BY <1>1, RankGrows, RankBounds
<1>3. e \in 0 .. Cardinality(S) - 1
  BY <1>2
<1> HIDE DEF e
<1>4. s \in S /\ Rank(S, s) = e
  BY <1>3, StartHasRank
<1> HIDE DEF s
<1>5. s \in Int
  BY <1>4
<1>6. s < c => Rank(S, s) < Rank(S, c)
  <2>1. s < c => s <= c
    BY <1>1, <1>5
  <2> QED
    BY <1>1, <1>4, <1>5, <2>1, RankGrows
<1>7. c < s => Rank(S, c) < Rank(S, s)
  <2>1. c < s => c <= s
    BY <1>1, <1>5
  <2> QED
    BY <1>1, <1>5, <2>1, RankGrows
<1>8. s = c
  <2>1. ~ (s < c) /\ ~ (c < s)
    BY <1>2, <1>4, <1>6, <1>7 DEF e
  <2> QED
    BY <1>1, <1>5, <2>1
<1> QED
  BY <1>3, <1>8 DEF e, s

\* The function that FlattenSeq recurs by.
Flattens(seqs, n, f) == f = [i \in 1 .. n |-> IF i = 1 THEN seqs[i] ELSE f[i - 1] \o seqs[i]]

\* It exists, for any number of sequences.
LEMMA FlattensExists ==
    ASSUME NEW seqs
    PROVE  \A n \in Nat : \E f : Flattens(seqs, n, f)
<1> DEFINE S == {n \in Nat : \E f : Flattens(seqs, n, f)}
<1>1. 0 \in S
  <2> DEFINE f == [i \in 1 .. 0 |-> <<>>]
  <2>1. f = [i \in 1 .. 0 |-> IF i = 1 THEN seqs[i] ELSE f[i - 1] \o seqs[i]]
    OBVIOUS
  <2> QED
    BY <2>1 DEF Flattens
<1>2. ASSUME NEW n \in S PROVE n + 1 \in S
  <2>1. PICK g : Flattens(seqs, n, g)
    OBVIOUS
  <2> DEFINE f == [i \in 1 .. n + 1 |-> IF i <= n THEN g[i] ELSE IF i = 1 THEN seqs[i] ELSE g[n] \o seqs[i]]
  <2>2. \A i \in 1 .. n : g[i] = IF i = 1 THEN seqs[i] ELSE g[i - 1] \o seqs[i]
    BY <2>1 DEF Flattens
  <2>3. \A i \in 1 .. n : f[i] = g[i]
    OBVIOUS
  <2>4. f[n + 1] = IF n + 1 = 1 THEN seqs[n + 1] ELSE g[n] \o seqs[n + 1]
    OBVIOUS
  <2>5. \A i \in 1 .. n + 1 : f[i] = IF i = 1 THEN seqs[i] ELSE f[i - 1] \o seqs[i]
    BY <2>2, <2>3, <2>4
  <2> HIDE DEF f
  <2>6. f = [i \in 1 .. n + 1 |-> f[i]]
    BY DEF f
  <2>7. Flattens(seqs, n + 1, f)
    BY <2>5, <2>6 DEF Flattens
  <2> QED
    BY <2>7
<1> HIDE DEF S
<1>3. S \subseteq Nat
  BY DEF S
<1>4. S = Nat
  BY <1>1, <1>2, <1>3, Induct
<1> QED
  BY <1>4 DEF S

\* A flattened sequence has the elements of its parts.
LEMMA FlattenType ==
    ASSUME NEW S, NEW seqs \in Seq(Seq(S))
    PROVE  FlattenSeq(seqs) \in Seq(S)
<1> DEFINE n == Len(seqs)
           f == CHOOSE g : g = [i \in 1 .. n |-> IF i = 1 THEN seqs[i] ELSE g[i - 1] \o seqs[i]]
<1>1. n \in Nat /\ DOMAIN seqs = 1 .. n
  OBVIOUS
<1>2. CASE n = 0
  <2>1. FlattenSeq(seqs) = <<>>
    BY <1>2 DEF FlattenSeq
  <2> QED
    BY <2>1
<1>3. CASE n # 0
  <2>1. FlattenSeq(seqs) = f[n]
    BY <1>3 DEF FlattenSeq
  <2>2. f = [i \in 1 .. n |-> IF i = 1 THEN seqs[i] ELSE f[i - 1] \o seqs[i]]
    BY <1>1, FlattensExists DEF Flattens
  <2> HIDE DEF f
  <2>3. \A i \in 1 .. n : f[i] = IF i = 1 THEN seqs[i] ELSE f[i - 1] \o seqs[i]
    BY <2>2
  <2> DEFINE T == {k \in Nat : k + 1 \in 1 .. n => f[k + 1] \in Seq(S)}
  <2>4. 0 \in T
    BY <2>3
  <2>5. ASSUME NEW k \in T PROVE k + 1 \in T
    <3> SUFFICES ASSUME k + 2 \in 1 .. n PROVE f[k + 2] \in Seq(S)
      OBVIOUS
    <3>1. f[k + 1] \in Seq(S)
      OBVIOUS
    <3>2. f[k + 2] = f[k + 1] \o seqs[k + 2]
      <4>1. (k + 2) - 1 = k + 1 /\ k + 2 # 1
        OBVIOUS
      <4> QED
        BY <2>3, <4>1
    <3> QED
      BY <3>1, <3>2, ConcatProperties
  <2> HIDE DEF T
  <2>6. T = Nat
    <3>1. T \subseteq Nat
      BY DEF T
    <3> QED
      BY <2>4, <2>5, <3>1, Induct
  <2>7. n - 1 \in T /\ (n - 1) + 1 = n
    BY <1>1, <1>3, <2>6
  <2>8. f[n] \in Seq(S)
    BY <1>1, <1>3, <2>7 DEF T
  <2> QED
    BY <2>1, <2>8
<1> QED
  BY <1>2, <1>3

\* Max and Min of two.
LEMMA OfTwo ==
    ASSUME NEW a \in Int, NEW b \in Int
    PROVE  /\ Max({a, b}) = IF a >= b THEN a ELSE b
           /\ Min({a, b}) = IF a <= b THEN a ELSE b
BY DEF Max, Min

\* A finite sequence, of whatever it holds.
IsSeq(s) == s \in Seq({s[k] : k \in DOMAIN s})

\* What reset or clear leaves.
LEMMA EmptyIsSeq == IsSeq(<<>>)
BY DEF IsSeq

\* What push_back leaves is one longer and holds what it held.
LEMMA AppendIsSeq ==
    ASSUME NEW s, IsSeq(s), NEW e
    PROVE  LET t == Append(s, e)
           IN  /\ IsSeq(t) /\ t # <<>>
               /\ Len(s) \in Nat /\ Len(t) = Len(s) + 1
               /\ DOMAIN t = 1 .. Len(s) + 1
               /\ DOMAIN s = 1 .. Len(s)
               /\ t[Len(s) + 1] = e /\ \A k \in DOMAIN s : t[k] = s[k]
<1> DEFINE t == Append(s, e)
           held == {s[k] : k \in DOMAIN s}
<1>1. s \in Seq(held \union {e}) /\ Len(s) \in Nat /\ DOMAIN s = 1 .. Len(s)
  BY DEF IsSeq
<1>2. /\ t \in Seq(held \union {e}) /\ Len(t) = Len(s) + 1 /\ DOMAIN t = 1 .. Len(s) + 1
      /\ t[Len(s) + 1] = e /\ \A k \in 1 .. Len(s) : t[k] = s[k]
  BY <1>1
<1>3. t # <<>>
  BY <1>1, <1>2
<1>4. held \union {e} = {t[k] : k \in DOMAIN t}
  BY <1>1, <1>2
<1> QED
  BY <1>1, <1>2, <1>3, <1>4 DEF IsSeq

-----------------------------------------------------------------------------
(* Numbers in order. *)

\* Sorting a set of numbers: each at its rank.
LEMMA AscendingIs ==
    ASSUME NEW n \in Nat, NEW S \in SUBSET (0 .. n - 1)
    PROVE  LET a == Ascending(S)
           IN  /\ Cardinality(S) \in Nat /\ a \in Seq(S) /\ Len(a) = Cardinality(S)
               /\ \A k \in 1 .. Len(a) : a[k] \in S /\ Rank(S, a[k]) = k - 1
               /\ \A x \in S : Rank(S, x) + 1 \in 1 .. Len(a) /\ a[Rank(S, x) + 1] = x
               /\ \A j, k \in 1 .. Len(a) : j < k => a[j] < a[k]
<1> DEFINE a == Ascending(S)
           c == Cardinality(S)
<1>1. c \in Nat /\ \A x : Rank(S, x) \in Nat
  BY RankBounds
<1>2. a = [k \in 1 .. c |-> Start(S, k - 1)]
  BY DEF Ascending, Start
<1>3. \A k \in 1 .. c : Start(S, k - 1) \in S /\ Rank(S, Start(S, k - 1)) = k - 1
  <2> TAKE k \in 1 .. c
  <2>1. k - 1 \in 0 .. c - 1
    BY <1>1
  <2> QED
    BY <2>1, StartHasRank
<1> HIDE DEF a, c
<1>4. a \in Seq(S) /\ Len(a) = c /\ \A k \in 1 .. c : a[k] = Start(S, k - 1)
  BY <1>1, <1>2, <1>3
<1>5. \A k \in 1 .. c : a[k] \in S /\ Rank(S, a[k]) = k - 1
  BY <1>3, <1>4
<1>6. ASSUME NEW x \in S PROVE Rank(S, x) + 1 \in 1 .. c /\ a[Rank(S, x) + 1] = x
  <2> DEFINE r == Rank(S, x)
  <2>1. Start(S, r) = x /\ r \in 0 .. c - 1
    BY StartOfRank DEF c
  <2> HIDE DEF r
  <2>2. r + 1 \in 1 .. c /\ (r + 1) - 1 = r
    BY <1>1, <2>1
  <2>3. a[r + 1] = x
    BY <1>4, <2>1, <2>2
  <2> QED
    BY <2>2, <2>3 DEF r
<1>7. ASSUME NEW j \in 1 .. c, NEW k \in 1 .. c, j < k PROVE a[j] < a[k]
  <2> DEFINE x == a[j]
             y == a[k]
  <2>1. x \in S /\ y \in S /\ Rank(S, x) = j - 1 /\ Rank(S, y) = k - 1
    BY <1>5
  <2> HIDE DEF x, y
  <2>2. x \in Int /\ y \in Int
    BY <2>1
  <2>3. y <= x => Rank(S, y) <= Rank(S, x)
    BY <2>2, RankGrows
  <2>4. x < y
    BY <1>1, <1>7, <2>1, <2>2, <2>3
  <2> QED
    BY <2>4 DEF x, y
<1> QED
  BY <1>1, <1>4, <1>5, <1>6, <1>7 DEF a, c

-----------------------------------------------------------------------------
(* How long texts are in bytes. *)

\* Flattening one part more.
LEMMA FlattenPrefix ==
    ASSUME NEW X, NEW seqs \in Seq(Seq(X))
    PROVE  /\ FlattenSeq(SubSeq(seqs, 1, 0)) = <<>>
           /\ FlattenSeq(SubSeq(seqs, 1, Len(seqs))) = FlattenSeq(seqs)
           /\ \A k \in 0 .. Len(seqs) : FlattenSeq(SubSeq(seqs, 1, k)) \in Seq(X)
           /\ \A k \in 0 .. Len(seqs) - 1 :
                 FlattenSeq(SubSeq(seqs, 1, k + 1)) = FlattenSeq(SubSeq(seqs, 1, k)) \o seqs[k + 1]
<1> DEFINE n == Len(seqs)
           f == CHOOSE g : Flattens(seqs, n, g)
           flat(k) == FlattenSeq(SubSeq(seqs, 1, k))
<1>1. n \in Nat
  OBVIOUS
<1>2. Flattens(seqs, n, f)
  BY <1>1, FlattensExists
<1> HIDE DEF f
<1>3. \A i \in 1 .. n : f[i] = IF i = 1 THEN seqs[i] ELSE f[i - 1] \o seqs[i]
  BY <1>2 DEF Flattens
<1>4. ASSUME NEW k \in 1 .. n PROVE flat(k) = f[k]
  <2> DEFINE p == SubSeq(seqs, 1, k)
             g == CHOOSE h : Flattens(p, k, h)
             T == {j \in Nat : j + 1 <= k => g[j + 1] = f[j + 1]}
  <2>1. k \in Nat /\ k # 0 /\ Len(p) = k /\ \A j \in 1 .. k : p[j] = seqs[j] /\ j \in 1 .. n
    BY <1>1
  <2>2. Flattens(p, k, g)
    BY <2>1, FlattensExists
  <2>3. FlattenSeq(p) = g[k]
    BY <2>1 DEF FlattenSeq, Flattens
  <2> HIDE DEF p, g
  <2>4. \A i \in 1 .. k : g[i] = IF i = 1 THEN p[i] ELSE g[i - 1] \o p[i]
    BY <2>2 DEF Flattens
  <2>5. 0 \in T
    <3>1. 1 \in 1 .. k
      BY <2>1
    <3>2. g[1] = p[1] /\ f[1] = seqs[1] /\ p[1] = seqs[1]
      BY <1>3, <2>1, <2>4, <3>1
    <3> QED
      BY <3>2
  <2>6. ASSUME NEW j \in T PROVE j + 1 \in T
    <3> SUFFICES ASSUME (j + 1) + 1 <= k PROVE g[(j + 1) + 1] = f[(j + 1) + 1]
      OBVIOUS
    <3> DEFINE i == (j + 1) + 1
    <3>1. i \in 1 .. k /\ i # 1 /\ i - 1 = j + 1 /\ g[j + 1] = f[j + 1]
      BY <2>1
    <3> HIDE DEF i
    <3>2. g[i] = f[i]
      BY <1>3, <2>1, <2>4, <3>1
    <3> QED
      BY <3>2 DEF i
  <2> HIDE DEF T
  <2>7. T \subseteq Nat
    BY DEF T
  <2>8. T = Nat
    BY <2>5, <2>6, <2>7, Induct
  <2>9. k - 1 \in T /\ (k - 1) + 1 = k
    BY <2>1, <2>8
  <2>10. g[k] = f[k]
    BY <2>1, <2>9 DEF T
  <2> QED
    BY <2>3, <2>10 DEF p
<1>5. flat(0) = <<>>
  <2>1. Len(SubSeq(seqs, 1, 0)) = 0
    OBVIOUS
  <2> QED
    BY <2>1 DEF FlattenSeq
<1>6. SubSeq(seqs, 1, n) = seqs
  OBVIOUS
<1>7. \A k \in 0 .. n : flat(k) \in Seq(X)
  <2> TAKE k \in 0 .. n
  <2>1. SubSeq(seqs, 1, k) \in Seq(Seq(X))
    BY <1>1
  <2> QED
    BY <2>1, FlattenType
<1> HIDE DEF flat
<1>8. \A k \in 0 .. n - 1 : flat(k + 1) = flat(k) \o seqs[k + 1]
  <2> TAKE k \in 0 .. n - 1
  <2>1. k + 1 \in 1 .. n /\ (k + 1) - 1 = k /\ seqs[k + 1] \in Seq(X)
    BY <1>1
  <2>2. CASE k = 0
    <3>1. f[k + 1] = seqs[k + 1] /\ <<>> \o seqs[k + 1] = seqs[k + 1]
      BY <1>3, <2>1, <2>2
    <3> QED
      BY <1>4, <1>5, <2>1, <2>2, <3>1
  <2>3. CASE k # 0
    <3> DEFINE i == k + 1
    <3>1. k \in 1 .. n /\ i \in 1 .. n /\ i # 1 /\ i - 1 = k
      BY <1>1, <2>1, <2>3
    <3> HIDE DEF i
    <3>2. f[i] = f[k] \o seqs[i]
      BY <1>3, <3>1
    <3>3. flat(i) = f[i] /\ flat(k) = f[k]
      BY <1>4, <3>1
    <3> QED
      BY <3>2, <3>3 DEF i
  <2> QED
    BY <2>2, <2>3
<1> QED
  BY <1>5, <1>6, <1>7, <1>8 DEF flat

\* The bytes before code point k of a text.
BytesBeforeCp(t, k) == ByteLength(SubSeq(t, 1, k - 1))

\* What normalization leaves has bytes, and so has what it is given.
LEMMA NormalIsUtf8 == \A t \in Seq(DOMAIN Normal) : t \in Seq(DOMAIN Utf8) /\ NormalText(t) \in Seq(DOMAIN Utf8)
<1> TAKE t \in Seq(DOMAIN Normal)
<1>1. \A c \in DOMAIN Normal : c \in DOMAIN Utf8 /\ Normal[c] \in DOMAIN Utf8
  BY DictionaryAssumption
<1>2. DOMAIN t = 1 .. Len(t) /\ Len(t) \in Nat /\ \A k \in 1 .. Len(t) : t[k] \in DOMAIN Normal
  OBVIOUS
<1>3. \A k \in 1 .. Len(t) : t[k] \in DOMAIN Utf8 /\ Normal[t[k]] \in DOMAIN Utf8
  BY <1>1, <1>2
<1>4. t \in Seq(DOMAIN Utf8)
  BY <1>3, <1>2
<1> QED
  BY <1>3, <1>2, <1>4 DEF NormalText

\* Every code point has bytes.
LEMMA ByteLengthGrows ==
    ASSUME NEW t \in Seq(DOMAIN Utf8)
    PROVE  /\ BytesBeforeCp(t, 1) = 0
           /\ ByteLength(t) = BytesBeforeCp(t, Len(t) + 1)
           /\ \A k \in 1 .. Len(t) + 1 : BytesBeforeCp(t, k) \in Nat
           /\ \A j, k \in 1 .. Len(t) + 1 : j < k => BytesBeforeCp(t, j) < BytesBeforeCp(t, k)
<1> DEFINE n == Len(t)
           u == [k \in 1 .. n |-> Utf8[t[k]]]
           b(k) == Len(FlattenSeq(SubSeq(u, 1, k)))
<1>1. n \in Nat /\ DOMAIN t = 1 .. n
  OBVIOUS
<1>2. \A k \in 1 .. n : Utf8[t[k]] \in Seq(Nat) /\ Utf8[t[k]] # <<>>
  BY DictionaryAssumption
<1>3. u \in Seq(Seq(Nat)) /\ Len(u) = n /\ \A k \in 1 .. n : u[k] # <<>>
  BY <1>1, <1>2
<1>4. \A k \in 0 .. n : ByteLength(SubSeq(t, 1, k)) = b(k)
  <2> TAKE k \in 0 .. n
  <2>1. DOMAIN SubSeq(t, 1, k) = 1 .. k /\ \A i \in 1 .. k : SubSeq(t, 1, k)[i] = t[i]
    BY <1>1
  <2>2. SubSeq(u, 1, k) = [i \in 1 .. k |-> u[i]] /\ \A i \in 1 .. k : u[i] = Utf8[t[i]]
    BY <1>1, <1>3
  <2>3. SubSeq(u, 1, k) = [i \in DOMAIN SubSeq(t, 1, k) |-> Utf8[SubSeq(t, 1, k)[i]]]
    BY <2>1, <2>2
  <2> QED
    BY <2>3 DEF ByteLength
<1> HIDE DEF u
<1>5. /\ FlattenSeq(SubSeq(u, 1, 0)) = <<>>
      /\ \A k \in 0 .. n : FlattenSeq(SubSeq(u, 1, k)) \in Seq(Nat)
      /\ \A k \in 0 .. n - 1 : FlattenSeq(SubSeq(u, 1, k + 1)) = FlattenSeq(SubSeq(u, 1, k)) \o u[k + 1]
  BY <1>3, FlattenPrefix
<1>6. b(0) = 0 /\ \A k \in 0 .. n : b(k) \in Nat
  BY <1>5
<1>7. \A k \in 0 .. n - 1 : b(k) < b(k + 1)
  <2> TAKE k \in 0 .. n - 1
  <2> DEFINE f == FlattenSeq(SubSeq(u, 1, k))
             w == u[k + 1]
  <2>1. k \in 0 .. n /\ k + 1 \in 1 .. n
    BY <1>1
  <2>2. f \in Seq(Nat) /\ w \in Seq(Nat) /\ w # <<>>
    BY <1>3, <1>5, <2>1
  <2>3. FlattenSeq(SubSeq(u, 1, k + 1)) = f \o w
    BY <1>5
  <2> HIDE DEF f, w
  <2>4. Len(f \o w) = Len(f) + Len(w) /\ Len(f) \in Nat /\ Len(w) \in Nat /\ Len(w) # 0
    BY <2>2
  <2> QED
    BY <2>3, <2>4 DEF f
<1> HIDE DEF b
<1>8. ASSUME NEW j \in 0 .. n, NEW k \in 0 .. n, j < k PROVE b(j) < b(k)
  <2> DEFINE T == {d \in Nat : j + (d + 1) <= n => b(j) < b(j + (d + 1))}
  <2>1. 0 \in T
    <3>1. j + 1 <= n => b(j) < b(j + 1)
      BY <1>1, <1>7
    <3> QED
      BY <3>1
  <2>2. ASSUME NEW d \in T PROVE d + 1 \in T
    <3> SUFFICES ASSUME j + ((d + 1) + 1) <= n PROVE b(j) < b(j + ((d + 1) + 1))
      OBVIOUS
    <3> DEFINE i == j + (d + 1)
    <3>1. i \in 0 .. n - 1 /\ i + 1 = j + ((d + 1) + 1) /\ i <= n /\ i \in 0 .. n /\ i + 1 \in 0 .. n
      BY <1>1
    <3>2. b(j) < b(i)
      BY <3>1
    <3> HIDE DEF i
    <3>3. b(i) < b(i + 1) /\ b(j) \in Nat /\ b(i) \in Nat /\ b(i + 1) \in Nat
      BY <1>6, <1>7, <3>1
    <3> QED
      BY <3>1, <3>2, <3>3
  <2> HIDE DEF T
  <2>3. T \subseteq Nat
    BY DEF T
  <2>4. T = Nat
    BY <2>1, <2>2, <2>3, Induct
  <2>5. (k - j) - 1 \in T /\ j + (((k - j) - 1) + 1) = k
    BY <1>8, <2>4
  <2> QED
    BY <2>5 DEF T
<1>9. \A k \in 1 .. n + 1 : BytesBeforeCp(t, k) = b(k - 1) /\ k - 1 \in 0 .. n
  BY <1>1, <1>4 DEF BytesBeforeCp
<1>10. BytesBeforeCp(t, 1) = 0 /\ ByteLength(t) = BytesBeforeCp(t, n + 1)
  <2>1. SubSeq(t, 1, n) = t /\ (n + 1) - 1 = n /\ 1 \in 1 .. n + 1 /\ 1 - 1 = 0
    BY <1>1
  <2>2. ByteLength(t) = BytesBeforeCp(t, n + 1)
    BY <2>1 DEF BytesBeforeCp
  <2>3. BytesBeforeCp(t, 1) = b(1 - 1)
    BY <1>9, <2>1
  <2> QED
    BY <1>6, <2>1, <2>2, <2>3
<1>11. \A k \in 1 .. n + 1 : BytesBeforeCp(t, k) \in Nat
  BY <1>6, <1>9
<1>12. \A j, k \in 1 .. n + 1 : j < k => BytesBeforeCp(t, j) < BytesBeforeCp(t, k)
  <2> TAKE j, k \in 1 .. n + 1
  <2>1. j < k => j - 1 < k - 1
    OBVIOUS
  <2> QED
    BY <1>8, <1>9, <2>1
<1> QED
  BY <1>10, <1>11, <1>12 DEF n

-----------------------------------------------------------------------------
(* The words of a text. *)

\* Of numbers that grow, those below one are the ones before it.
LEMMA CountBelow ==
    ASSUME NEW n \in Nat, NEW f \in [1 .. n -> Nat],
           \A j, k \in 1 .. n : j < k => f[j] < f[k],
           NEW i \in 1 .. n
    PROVE  Cardinality({p \in {f[k] : k \in 1 .. n} : p < f[i]}) = i - 1
<1> DEFINE S == {p \in {f[k] : k \in 1 .. n} : p < f[i]}
           g == [k \in 1 .. i - 1 |-> f[k]]
<1>1. \A k \in 1 .. n : f[k] < f[i] <=> k < i
  <2> TAKE k \in 1 .. n
  <2>1. f[k] \in Nat /\ f[i] \in Nat /\ k \in Nat /\ i \in Nat
    OBVIOUS
  <2>2. k < i => f[k] < f[i]
    OBVIOUS
  <2>3. i < k => f[i] < f[k]
    OBVIOUS
  <2>4. i = k => f[i] = f[k]
    OBVIOUS
  <2> QED
    BY <2>1, <2>2, <2>3, <2>4
<1>2. \A k \in 1 .. i - 1 : k \in 1 .. n /\ k < i
  OBVIOUS
<1>3. g \in [1 .. i - 1 -> S]
  BY <1>1, <1>2
<1>4. \A j, k \in 1 .. i - 1 : g[j] = g[k] => j = k
  <2> TAKE j, k \in 1 .. i - 1
  <2>1. j < k => f[j] < f[k]
    BY <1>2
  <2>2. k < j => f[k] < f[j]
    BY <1>2
  <2>3. f[j] \in Nat /\ f[k] \in Nat
    BY <1>2
  <2> QED
    BY <2>1, <2>2, <2>3
<1>5. \A p \in S : \E k \in 1 .. i - 1 : g[k] = p
  <2> TAKE p \in S
  <2>1. PICK k \in 1 .. n : p = f[k] /\ p < f[i]
    OBVIOUS
  <2>2. k < i
    BY <1>1, <2>1
  <2>3. k \in 1 .. i - 1
    BY <2>2
  <2> QED
    BY <2>1, <2>3
<1> HIDE DEF S, g
<1>6. g \in Bijection(1 .. i - 1, S)
  <2>1. g \in Injection(1 .. i - 1, S)
    BY <1>3, <1>4 DEF Injection, IsInjective
  <2>2. g \in Surjection(1 .. i - 1, S)
    BY <1>3, <1>5 DEF Surjection
  <2> QED
    BY <2>1, <2>2 DEF Bijection
<1>7. ExistsBijection(1 .. i - 1, S)
  BY <1>6 DEF ExistsBijection
<1>8. i - 1 \in Nat
  OBVIOUS
<1>9. Cardinality(S) = i - 1
  BY <1>7, <1>8, FS_CountingElements
<1> QED
  BY <1>9 DEF S

\* Where the clusters of t start in its bytes, and where the last one ends.
OffsetsOf(t) ==
    Append([i \in DOMAIN Ascending(ClusterSet(t)) |-> ClusterOffset(t, Ascending(ClusterSet(t))[i])], ByteLength(t))

\* A text begins with a cluster, and clusters start further on one after the other.
LEMMA OffsetsGrow ==
    ASSUME NEW t \in Seq(DOMAIN Normal)
    PROVE  LET n == Cardinality(ClusterSet(t))
               o == OffsetsOf(t)
           IN  /\ n \in Nat /\ Len(Ascending(ClusterSet(t))) = n
               /\ o \in [1 .. n + 1 -> Nat]
               /\ o[n + 1] = ByteLength(t)
               /\ \A j, k \in 1 .. n + 1 : j < k => o[j] < o[k]
               /\ {ByteLength(SubSeq(t, 1, k - 1)) : k \in ClusterSet(t)} = {o[i] : i \in 1 .. n}
               /\ t # <<>> => n # 0 /\ o[1] = 0
<1> DEFINE C == ClusterSet(t)
           n == Cardinality(C)
           a == Ascending(C)
           o == OffsetsOf(t)
           len == Len(t)
<1>1. len \in Nat /\ DOMAIN t = 1 .. len /\ len + 1 \in Nat
  OBVIOUS
<1>2. C \subseteq 1 .. len
  BY <1>1 DEF ClusterSet
<1>3. C \in SUBSET (0 .. (len + 1) - 1)
  BY <1>1, <1>2
<1>4. t # <<>> => 1 \in C
  <2> SUFFICES ASSUME t # <<>> PROVE 1 \in C
    OBVIOUS
  <2>1. 1 \in DOMAIN t
    BY <1>1
  <2>2. Len([i \in 1 .. 1 |-> PropsOf[Normal[t[i]]]]) = 1
    OBVIOUS
  <2>3. BreaksBefore(t, 1)
    BY <2>2 DEF BreaksBefore, Boundary
  <2> QED
    BY <2>1, <2>3 DEF ClusterSet
<1> HIDE DEF C
<1>5. /\ n \in Nat /\ a \in Seq(C) /\ Len(a) = n
      /\ \A k \in 1 .. Len(a) : a[k] \in C /\ Rank(C, a[k]) = k - 1
      /\ \A x \in C : Rank(C, x) + 1 \in 1 .. Len(a) /\ a[Rank(C, x) + 1] = x
      /\ \A j, k \in 1 .. Len(a) : j < k => a[j] < a[k]
  BY <1>1, <1>3, AscendingIs
<1>6. /\ BytesBeforeCp(t, 1) = 0
      /\ ByteLength(t) = BytesBeforeCp(t, len + 1)
      /\ \A k \in 1 .. len + 1 : BytesBeforeCp(t, k) \in Nat
      /\ \A j, k \in 1 .. len + 1 : j < k => BytesBeforeCp(t, j) < BytesBeforeCp(t, k)
  BY ByteLengthGrows, NormalIsUtf8
<1> DEFINE s == [i \in DOMAIN a |-> ClusterOffset(t, a[i])]
<1>7. o = Append(s, ByteLength(t))
  BY DEF OffsetsOf, C
<1> HIDE DEF n, a, len, o
<1>8. DOMAIN a = 1 .. n /\ \A i \in 1 .. n : a[i] \in 1 .. len
  <2>1. DOMAIN a = 1 .. n
    BY <1>5
  <2>2. \A i \in 1 .. n : a[i] \in C
    BY <1>5
  <2> QED
    BY <1>2, <2>1, <2>2
<1>9. \A i \in 1 .. n : s[i] = BytesBeforeCp(t, a[i])
  BY <1>8 DEF ClusterOffset, BytesBeforeCp
<1>10. s \in Seq(Nat) /\ Len(s) = n
  <2>1. \A i \in 1 .. n : s[i] \in Nat
    BY <1>1, <1>6, <1>8, <1>9
  <2> QED
    BY <1>5, <1>8, <2>1
<1>11. ByteLength(t) \in Nat
  BY <1>1, <1>6
<1> HIDE DEF s
<1>12. /\ o \in Seq(Nat) /\ Len(o) = n + 1 /\ o[n + 1] = ByteLength(t)
       /\ \A i \in 1 .. n : o[i] = s[i]
  BY <1>5, <1>7, <1>10, <1>11
<1>13. o \in [1 .. n + 1 -> Nat] /\ \A i \in 1 .. n : o[i] = BytesBeforeCp(t, a[i])
  BY <1>9, <1>12
<1>14. ASSUME NEW j \in 1 .. n + 1, NEW k \in 1 .. n + 1, j < k PROVE o[j] < o[k]
  <2>1. j \in 1 .. n /\ a[j] \in 1 .. len /\ o[j] = BytesBeforeCp(t, a[j])
    BY <1>5, <1>8, <1>13, <1>14
  <2>2. CASE k = n + 1
    <3>1. o[k] = BytesBeforeCp(t, len + 1)
      BY <1>6, <1>12, <2>2
    <3>2. a[j] < len + 1 /\ a[j] \in 1 .. len + 1 /\ len + 1 \in 1 .. len + 1
      BY <1>1, <2>1
    <3> QED
      BY <1>6, <2>1, <3>1, <3>2
  <2>3. CASE k # n + 1
    <3>1. k \in 1 .. n
      BY <1>5, <2>3
    <3>2. a[j] < a[k] /\ o[k] = BytesBeforeCp(t, a[k]) /\ a[k] \in 1 .. len
      BY <1>5, <1>8, <1>13, <1>14, <2>1, <3>1
    <3>3. a[j] \in 1 .. len + 1 /\ a[k] \in 1 .. len + 1
      BY <1>1, <2>1, <3>2
    <3> QED
      BY <1>6, <2>1, <3>2, <3>3
  <2> QED
    BY <2>2, <2>3
<1>15. {ByteLength(SubSeq(t, 1, k - 1)) : k \in C} = {o[i] : i \in 1 .. n}
  <2>1. \A k \in C : ByteLength(SubSeq(t, 1, k - 1)) = BytesBeforeCp(t, k)
    BY DEF BytesBeforeCp
  <2>2. \A k \in C : \E i \in 1 .. n : a[i] = k
    BY <1>5
  <2>3. \A i \in 1 .. n : a[i] \in C
    BY <1>5
  <2> HIDE DEF C
  <2>4. ASSUME NEW k \in C PROVE \E i \in 1 .. n : o[i] = ByteLength(SubSeq(t, 1, k - 1))
    <3>1. PICK i \in 1 .. n : a[i] = k
      BY <2>2
    <3>2. o[i] = ByteLength(SubSeq(t, 1, k - 1))
      BY <1>13, <2>1, <3>1
    <3> QED
      BY <3>2
  <2>5. ASSUME NEW i \in 1 .. n PROVE \E k \in C : o[i] = ByteLength(SubSeq(t, 1, k - 1))
    BY <1>13, <2>1, <2>3
  <2> QED
    BY <2>4, <2>5
<1>16. t # <<>> => n # 0 /\ o[1] = 0
  <2> SUFFICES ASSUME t # <<>> PROVE n # 0 /\ o[1] = 0
    OBVIOUS
  <2>1. PICK i \in 1 .. n : a[i] = 1
    BY <1>4, <1>5
  <2>2. n # 0 /\ 1 \in 1 .. n
    BY <1>5, <2>1
  <2>3. a[1] = 1
    <3>1. 1 < i => a[1] < a[i]
      BY <1>5, <2>1, <2>2
    <3>2. a[1] \in Nat /\ a[1] >= 1
      BY <1>8, <2>2
    <3>3. 1 = i \/ 1 < i
      BY <1>5, <2>1
    <3> QED
      BY <2>1, <3>1, <3>2, <3>3
  <2> QED
    BY <1>6, <1>13, <2>2, <2>3
<1> QED
  BY <1>5, <1>12, <1>13, <1>14, <1>15, <1>16 DEF C, n, o, a

\* What encode_into leaves does not depend on the model, as to where clusters lie.
LEMMA EncodedIs ==
    ASSUME NEW t \in Seq(DOMAIN Normal)
    PROVE  /\ Encoded(t).offsets = OffsetsOf(t)
           /\ EgcCount(Encoded(t)) = Cardinality(ClusterSet(t))
<1> DEFINE C == ClusterSet(t)
           a == Ascending(C)
           e == EncodedPrefix(t)
           s == [i \in DOMAIN a |-> a[i] - 1]
           n == Len(a)
<1>1. Len(t) \in Nat /\ DOMAIN t = 1 .. Len(t)
  OBVIOUS
<1>2. C \in SUBSET (0 .. (Len(t) + 1) - 1) /\ Len(t) + 1 \in Nat
  BY <1>1 DEF ClusterSet
<1>3. n \in Nat /\ n = Cardinality(C) /\ DOMAIN a = 1 .. n /\ \A i \in 1 .. n : a[i] \in Int
  <2>1. Cardinality(C) \in Nat /\ a \in Seq(C) /\ Len(a) = Cardinality(C)
    BY <1>2, AscendingIs
  <2>2. DOMAIN a = 1 .. n
    BY <2>1
  <2>3. \A i \in 1 .. n : a[i] \in C
    BY <2>1
  <2>4. C \subseteq Int
    BY <1>2
  <2> QED
    BY <2>1, <2>2, <2>3, <2>4
<1>4. /\ e = [cps |-> NormalText(t),
              rows |-> [k \in DOMAIN t |-> RowOf(model.vocab, Normal[t[k]])],
              egc_starts |-> s,
              offsets |-> [i \in DOMAIN a |-> ClusterOffset(t, a[i])]]
  BY DEF EncodedPrefix, ClusterSet
<1> HIDE DEF a, C
<1>5. Encoded(t) = [e EXCEPT !.egc_starts = Append(@, Len(t)), !.offsets = Append(@, ByteLength(t))]
  BY DEF Encoded
<1>6. /\ Encoded(t).egc_starts = Append(s, Len(t))
      /\ Encoded(t).offsets = Append([i \in DOMAIN a |-> ClusterOffset(t, a[i])], ByteLength(t))
  BY <1>4, <1>5
<1>7. s \in Seq(Int) /\ Len(s) = n
  BY <1>3
<1> HIDE DEF s
<1>8. Len(Append(s, Len(t))) = n + 1
  BY <1>1, <1>3, <1>7
<1>9. Max({n, 0}) = n
  BY <1>3, OfTwo
<1>10. (n + 1) - 1 = n
  BY <1>3
<1> QED
  BY <1>3, <1>6, <1>8, <1>9, <1>10 DEF EgcCount, OffsetsOf, a, C

CutsOf(s) == Ascending({i \in 1 .. Len(s) + 1 : i > Len(s) \/ s[i] > 0})
EndOf(t, s, k) ==
    IF k = 0 THEN 0 ELSE IF CutsOf(s)[k] > Len(s) THEN ByteLength(t) ELSE OffsetsOf(t)[CutsOf(s)[k] + 1]

\* What WordsPartition says of words w and scores s for a text t.
Partitions(t, w, s) ==
    LET starts == {ByteLength(SubSeq(t, 1, k - 1)) : k \in ClusterSet(t)}
    IN  IF t = <<>> THEN w = <<>>
        ELSE /\ w # <<>> /\ w[1][1] = 0 /\ w[Len(w)][2] = ByteLength(t)
             /\ \A k \in 2 .. Len(w) : w[k][1] = w[k - 1][2]
             /\ {w[k][1] : k \in DOMAIN w}
                    = {0} \cup {o \in starts : LET i == Cardinality({p \in starts : p < o})
                                               IN  i > 0 /\ s[i] > 0}

\* What the cuts leave: words one after the other, from the first byte to the last,
\* that start where a score is positive.
LEMMA CutsPartition ==
    ASSUME NEW t \in Seq(DOMAIN Normal), t # <<>>,
           NEW s, IsSeq(s), Len(s) = Cardinality(ClusterSet(t)) - 1
    PROVE  Partitions(t, [k \in DOMAIN CutsOf(s) |-> <<EndOf(t, s, k - 1), EndOf(t, s, k)>>], s)
<1> DEFINE n == Len(s)
           D == {i \in 1 .. n + 1 : i > n \/ s[i] > 0}
           a == CutsOf(s)
           c == Len(a)
           o == OffsetsOf(t)
           end(k) == EndOf(t, s, k)
           words == [k \in DOMAIN a |-> <<end(k - 1), end(k)>>]
           starts == {ByteLength(SubSeq(t, 1, k - 1)) : k \in ClusterSet(t)}
           below(x) == Cardinality({p \in starts : p < x})
<1>1. n \in Nat /\ n + 1 = Cardinality(ClusterSet(t))
  <2>1. Cardinality(ClusterSet(t)) \in Nat
    BY OffsetsGrow
  <2>2. n \in Nat
    BY DEF IsSeq
  <2> QED
    BY <2>1, <2>2
<1>2. /\ o \in [1 .. (n + 1) + 1 -> Nat]
      /\ \A j, k \in 1 .. (n + 1) + 1 : j < k => o[j] < o[k]
      /\ starts = {o[i] : i \in 1 .. n + 1}
      /\ o[1] = 0
  BY <1>1, OffsetsGrow
<1> HIDE DEF o, starts
<1>3. ASSUME NEW i \in 1 .. n + 1 PROVE below(o[i]) = i - 1
  <2> DEFINE f == [k \in 1 .. n + 1 |-> o[k]]
  <2>1. \A k \in 1 .. n + 1 : k \in 1 .. (n + 1) + 1 /\ f[k] = o[k]
    BY <1>1
  <2>2. f \in [1 .. n + 1 -> Nat] /\ \A j, k \in 1 .. n + 1 : j < k => f[j] < f[k]
    BY <1>2, <2>1
  <2>3. starts = {f[k] : k \in 1 .. n + 1} /\ f[i] = o[i]
    BY <1>2, <2>1
  <2>4. n + 1 \in Nat
    BY <1>1
  <2> HIDE DEF f
  <2>5. Cardinality({p \in {f[k] : k \in 1 .. n + 1} : p < f[i]}) = i - 1
    BY <2>2, <2>4, CountBelow
  <2> QED
    BY <2>3, <2>5
<1>4. /\ a \in Seq(D)
      /\ \A k \in 1 .. c : a[k] \in D
      /\ \A x \in D : \E k \in 1 .. c : a[k] = x
      /\ \A j, k \in 1 .. c : j < k => a[j] < a[k]
  <2>1. D \in SUBSET (0 .. (n + 2) - 1) /\ n + 2 \in Nat
    BY <1>1
  <2>2. a = Ascending(D)
    BY DEF CutsOf
  <2> HIDE DEF D
  <2>3. LET b == Ascending(D)
        IN  /\ b \in Seq(D)
            /\ \A k \in 1 .. Len(b) : b[k] \in D /\ Rank(D, b[k]) = k - 1
            /\ \A x \in D : Rank(D, x) + 1 \in 1 .. Len(b) /\ b[Rank(D, x) + 1] = x
            /\ \A j, k \in 1 .. Len(b) : j < k => b[j] < b[k]
    BY <2>1, AscendingIs
  <2> HIDE DEF a
  <2> QED
    BY <2>2, <2>3
<1> HIDE DEF a
<1>5. c \in Nat /\ DOMAIN a = 1 .. c /\ Len(words) = c /\ DOMAIN words = 1 .. c
  BY <1>4
<1> HIDE DEF c
<1>6. D \subseteq 1 .. n + 1 /\ n + 1 \in D /\ \A d \in 1 .. n : d \in D <=> s[d] > 0
  BY <1>1
<1>7. end(0) = 0
  BY DEF EndOf
<1>8. \A k \in 1 .. c : end(k) = IF a[k] > n THEN ByteLength(t) ELSE o[a[k] + 1]
  <2> TAKE k \in 1 .. c
  <2>1. k # 0
    BY <1>5
  <2> QED
    BY <2>1 DEF EndOf, a, o
<1>9. \A k \in 1 .. c : words[k][1] = end(k - 1) /\ words[k][2] = end(k)
  BY <1>5
<1> HIDE DEF D, end
<1>10. c >= 1 /\ a[c] = n + 1
  <2>1. PICK k \in 1 .. c : a[k] = n + 1
    BY <1>4, <1>6
  <2>0. c \in 1 .. c
    BY <1>5, <2>1
  <2>2. c \in 1 .. c /\ a[c] \in 1 .. n + 1
    BY <1>4, <1>6, <2>0
  <2>3. k < c => a[k] < a[c]
    BY <1>4, <2>2
  <2>4. k = c
    BY <1>1, <1>5, <2>1, <2>2, <2>3
  <2> QED
    BY <1>5, <2>1, <2>4
<1>11. end(c) = ByteLength(t) /\ \A k \in 1 .. c - 1 : a[k] \in 1 .. n /\ end(k) = o[a[k] + 1]
  <2>1. end(c) = ByteLength(t)
    <3>1. c \in 1 .. c /\ a[c] > n
      BY <1>1, <1>5, <1>10
    <3> QED
      BY <1>8, <3>1
  <2>2. ASSUME NEW k \in 1 .. c - 1 PROVE a[k] \in 1 .. n /\ end(k) = o[a[k] + 1]
    <3>1. k \in 1 .. c /\ c \in 1 .. c /\ k < c
      BY <1>5, <1>10
    <3>2. a[k] < n + 1 /\ a[k] \in 1 .. n + 1
      BY <1>4, <1>6, <1>10, <3>1
    <3>3. a[k] \in 1 .. n /\ ~ (a[k] > n)
      BY <1>1, <3>2
    <3> QED
      BY <1>8, <3>1, <3>3
  <2> QED
    BY <2>1, <2>2
<1>12. words # <<>> /\ words[1][1] = 0 /\ words[Len(words)][2] = ByteLength(t)
  <2>1. 1 \in 1 .. c /\ c \in 1 .. c /\ 1 - 1 = 0
    BY <1>5, <1>10
  <2>2. words[1][1] = end(1 - 1) /\ words[c][2] = end(c)
    BY <1>9, <2>1
  <2>3. words # <<>>
    BY <1>5, <2>1
  <2> QED
    BY <1>5, <1>7, <1>11, <2>1, <2>2, <2>3
<1>13. \A k \in 2 .. Len(words) : words[k][1] = words[k - 1][2]
  <2> TAKE k \in 2 .. Len(words)
  <2>1. k \in 1 .. c /\ k - 1 \in 1 .. c
    BY <1>5
  <2> QED
    BY <1>9, <2>1
<1> HIDE DEF words
<1>14. ASSUME NEW k \in 1 .. c
       PROVE  end(k - 1) = 0 \/ end(k - 1) \in {x \in starts : below(x) > 0 /\ s[below(x)] > 0}
  <2>1. CASE k = 1
    BY <1>7, <2>1
  <2>2. CASE k # 1
    <3> DEFINE j == k - 1
               d == a[j]
               i == d + 1
    <3>1. j \in 1 .. c - 1 /\ j \in 1 .. c
      BY <1>5, <2>2
    <3>2. d \in 1 .. n /\ d \in D /\ end(j) = o[i]
      BY <1>4, <1>11, <3>1
    <3>3. s[d] > 0
      BY <1>6, <3>2
    <3> HIDE DEF d, j
    <3>4. i \in 1 .. n + 1 /\ i - 1 = d /\ d > 0
      BY <1>1, <3>2
    <3>5. below(o[i]) = d
      BY <1>3, <3>4
    <3>6. o[i] \in starts
      BY <1>2, <3>4
    <3>7. end(j) \in {x \in starts : below(x) > 0 /\ s[below(x)] > 0}
      BY <3>2, <3>3, <3>4, <3>5, <3>6
    <3> QED
      BY <3>7 DEF j
  <2> QED
    BY <2>1, <2>2
<1>15. ASSUME NEW x \in starts, below(x) > 0, s[below(x)] > 0
       PROVE  \E k \in 1 .. c : end(k - 1) = x
  <2>1. PICK i \in 1 .. n + 1 : x = o[i]
    BY <1>2
  <2> DEFINE d == i - 1
  <2>2. below(x) = d
    BY <1>3, <2>1
  <2>3. d \in 1 .. n /\ d + 1 = i /\ s[d] > 0
    BY <1>1, <1>15, <2>2
  <2> HIDE DEF d
  <2>4. d \in D
    BY <1>6, <2>3
  <2>5. PICK j \in 1 .. c : a[j] = d
    BY <1>4, <2>4
  <2>6. j # c
    BY <1>1, <1>10, <2>3, <2>5
  <2>7. j \in 1 .. c - 1 /\ j + 1 \in 1 .. c /\ (j + 1) - 1 = j
    BY <1>5, <2>6
  <2>8. end(j) = x
    BY <1>11, <2>1, <2>3, <2>5, <2>7
  <2> QED
    BY <2>7, <2>8
<1>16. {words[k][1] : k \in DOMAIN words}
            = {0} \cup {x \in starts : below(x) > 0 /\ s[below(x)] > 0}
  <2>1. \A k \in 1 .. c : words[k][1] \in {0} \cup {x \in starts : below(x) > 0 /\ s[below(x)] > 0}
    BY <1>9, <1>14
  <2>2. \A x \in starts : below(x) > 0 /\ s[below(x)] > 0 => \E k \in 1 .. c : words[k][1] = x
    BY <1>9, <1>15
  <2>3. 1 \in 1 .. c /\ words[1][1] = 0
    BY <1>5, <1>10, <1>12
  <2> HIDE DEF below
  <2> DEFINE P(x) == below(x) > 0 /\ s[below(x)] > 0
  <2>4. \A k \in 1 .. c : words[k][1] \in {0} \cup {x \in starts : P(x)}
    BY <2>1
  <2>5. \A x \in starts : P(x) => \E k \in 1 .. c : words[k][1] = x
    BY <2>2
  <2> HIDE DEF P
  <2>6. {words[k][1] : k \in 1 .. c} = {0} \cup {x \in starts : P(x)}
    BY <2>3, <2>4, <2>5
  <2> QED
    BY <1>5, <2>6 DEF P
<1> QED
  BY <1>12, <1>13, <1>16 DEF Partitions, words, starts, a, end

-----------------------------------------------------------------------------
(* The words of a text: the invariant. *)

Working == step \in {"features", "search", "mark", "score", "fuse", "cut"}

\* While a call works, its text decodes and has clusters, the encoder has where
\* they lie, and there is a score for each boundary done.
CallIsSound ==
    /\ text \in Seq(DOMAIN Normal) /\ text # <<>>
    /\ enc.offsets = OffsetsOf(text)
    /\ m = Cardinality(ClusterSet(text))
    /\ Len(scores) <= m - 1
    /\ step = "cut" => Len(scores) = m - 1
    /\ step = "fuse" => Len(scores) < m - 1

\* WordsPartition, now and after a step, of the words and scores.
LEMMA PartitionIs ==
    /\ WordsPartition <=> (step = "idle" /\ outcome = "ok" => Partitions(text, segments, scores))
    /\ WordsPartition' <=> (step' = "idle" /\ outcome' = "ok" => Partitions(text', segments', scores'))
<1>1. WordsPartition <=> (step = "idle" /\ outcome = "ok" => Partitions(text, segments, scores))
  BY Zenon DEF WordsPartition, Partitions
<1>2. WordsPartition' <=> (step' = "idle" /\ outcome' = "ok" => Partitions(text', segments', scores'))
  BY Zenon DEF WordsPartition, Partitions
<1> QED
  BY <1>1, <1>2

WordsInv ==
    /\ IsSeq(scores)
    /\ step # "idle" => segments = <<>>
    /\ Working => CallIsSound
    /\ WordsPartition

\* No text has been encoded.
LEMMA WordsInvInit == Init => WordsInv
<1> SUFFICES ASSUME Init PROVE WordsInv
  OBVIOUS
<1>1. IsSeq(<<>>)
  BY EmptyIsSeq
<1>2. step = "idle" /\ outcome = "none" /\ scores = <<>>
  BY DEF Init
<1> QED
  BY <1>1, <1>2 DEF WordsInv, Working, WordsPartition

\* The call goes on, or a round has not begun; nothing is cut yet.
LEMMA WordsGoOn ==
    ASSUME WordsInv, Working, UNCHANGED <<text, enc, scores, segments>>,
           step' \in {"features", "search", "mark", "score", "cut"},
           step' = "cut" => Len(scores) = m - 1
    PROVE  WordsInv'
<1>1. m' = m
  BY DEF m
<1>2. step' # "idle" /\ step' # "fuse" /\ step # "idle"
  BY DEF Working
<1>3. CallIsSound'
  <2> USE DEF CallIsSound
  <2>1. CallIsSound
    BY DEF WordsInv
  <2>2. text' \in Seq(DOMAIN Normal) /\ text' # <<>> /\ enc'.offsets = OffsetsOf(text')
    BY <2>1
  <2>3. m' = Cardinality(ClusterSet(text')) /\ Len(scores') <= m' - 1
    BY <1>1, <2>1
  <2>4. step' = "cut" => Len(scores') = m' - 1
    BY <1>1
  <2> QED
    BY <1>2, <2>2, <2>3, <2>4
<1> QED
  BY <1>2, <1>3 DEF WordsInv, WordsPartition

\* The next boundary has its score.
LEMMA WordsScored ==
    ASSUME WordsInv, Working, Len(scores) < m - 1, NEW y,
           scores' = Append(scores, y), step' = "score", UNCHANGED <<text, enc, segments>>
    PROVE  WordsInv'
<1>1. m' = m
  BY DEF m
<1>2. IsSeq(scores') /\ Len(scores') = Len(scores) + 1 /\ Len(scores) \in Nat
  BY AppendIsSeq DEF WordsInv
<1>3. CallIsSound /\ step # "idle"
  BY DEF WordsInv, Working
<1>4. m \in Nat
  BY <1>3, OffsetsGrow DEF CallIsSound
<1>5. Len(scores') <= m' - 1
  BY <1>1, <1>2, <1>4
<1>6. CallIsSound'
  BY <1>1, <1>3, <1>5 DEF CallIsSound
<1> QED
  BY <1>2, <1>3, <1>6 DEF WordsInv, WordsPartition, Working

\* A call that has ended, not well.
LEMMA WordsEnded ==
    ASSUME IsSeq(scores), step' = "idle", outcome' # "ok", scores' = scores
    PROVE  WordsInv'
BY DEF WordsInv, Working, WordsPartition

\* A text without a bad byte is one of code points.
LEMMA TextDecodes ==
    ASSUME NEW t \in Texts, Bad \notin {t[i] : i \in DOMAIN t}
    PROVE  t \in Seq(DOMAIN Normal)
<1>1. t \in Seq(DOMAIN Normal \cup {Bad})
  BY TokenizerAssumption
<1>2. \A i \in 1 .. Len(t) : t[i] \in DOMAIN Normal
  BY <1>1
<1> QED
  BY <1>1, <1>2

\* Every step of a call keeps it.
LEMMA WordsInvNext == WordsInv /\ [Next]_vars => WordsInv'
<1> SUFFICES ASSUME WordsInv, [Next]_vars PROVE WordsInv'
  OBVIOUS
<1>0. IsSeq(scores)
  BY DEF WordsInv
<1>1. CASE LoadModel
  <2>1. IsSeq(scores') /\ segments' = <<>> /\ outcome' = "none"
    BY <1>0, <1>1 DEF LoadModel, scratch
  <2>2. step' \in {"loaded", "idle"}
    BY <1>1 DEF LoadModel
  <2> QED
    BY <2>1, <2>2 DEF WordsInv, Working, WordsPartition
<1>2. CASE EncodeFails
  <2>1. step' = "idle" /\ outcome' # "ok" /\ scores' = scores
    BY <1>2 DEF EncodeFails, EndCall
  <2> QED
    BY <1>0, <2>1, WordsEnded
<1>3. CASE Encode
  <2>1. PICK t \in Texts :
          /\ Bad \notin {t[i] : i \in DOMAIN t}
          /\ text' = t /\ enc' = Encoded(t)
          /\ IF t = <<>> THEN EndCall("ok") /\ UNCHANGED scores
             ELSE /\ scores' = <<>>
                  /\ step' = IF EgcCount(Encoded(t)) < 2 THEN "cut" ELSE "features"
                  /\ UNCHANGED <<rounds, outcome>>
    BY <1>3 DEF Encode
  <2>2. segments' = <<>>
    BY <1>3 DEF Encode, WordsInv
  <2>3. CASE t = <<>>
    <3>1. step' = "idle" /\ scores' = scores /\ text' = <<>>
      BY <2>1, <2>3 DEF EndCall
    <3> QED
      BY <1>0, <2>2, <3>1 DEF WordsInv, Working, WordsPartition
  <2>4. CASE t # <<>>
    <3>1. t \in Seq(DOMAIN Normal)
      BY <2>1, TextDecodes
    <3>2. enc'.offsets = OffsetsOf(t) /\ m' = Cardinality(ClusterSet(t))
      BY <2>1, <3>1, EncodedIs DEF m
    <3>3. m' \in Nat /\ m' # 0
      BY <2>4, <3>1, <3>2, OffsetsGrow
    <3>4. EgcCount(Encoded(t)) = m'
      BY <2>1 DEF m
    <3>5. scores' = <<>> /\ step' = IF m' < 2 THEN "cut" ELSE "features"
      BY <2>1, <2>4, <3>4
    <3>6. Len(scores') = 0 /\ IsSeq(scores')
      BY <3>5, EmptyIsSeq
    <3>7. step' = "cut" => Len(scores') = m' - 1
      BY <3>3, <3>5, <3>6
    <3>8. CallIsSound'
      BY <2>1, <2>4, <3>1, <3>2, <3>3, <3>5, <3>6, <3>7 DEF CallIsSound
    <3> QED
      BY <2>2, <3>5, <3>6, <3>8 DEF WordsInv, WordsPartition
  <2> QED
    BY <2>3, <2>4
<1>4. CASE SkipFeatures \/ Reencode \/ Search \/ Mark \/ Emit
  <2>1. step \in {"features", "search", "mark"}
    BY <1>4 DEF SkipFeatures, Reencode, Search, Mark, Emit
  <2>2. step' \in {"search", "mark", "score"}
    BY <1>4 DEF SkipFeatures, Reencode, Search, Mark, Emit
  <2>3. UNCHANGED <<text, enc, scores, segments>>
    BY <1>4 DEF SkipFeatures, Reencode, Search, Mark, Emit, scratch
  <2> QED
    BY <2>1, <2>2, <2>3, WordsGoOn DEF Working
<1>5. CASE ScoreI32
  <2>1. step = "score" /\ Len(scores) < m - 1 /\ step' = "score" /\ UNCHANGED <<text, enc, segments>>
    BY <1>5 DEF ScoreI32
  <2>2. \E y : scores' = Append(scores, y)
    BY <1>5 DEF ScoreI32
  <2> QED
    BY <2>1, <2>2, WordsScored DEF Working
<1>6. CASE Gather
  <2>1. /\ step = "score" /\ Len(scores) < m - 1 /\ step' = "fuse"
        /\ UNCHANGED <<text, enc, scores, segments>>
    BY <1>6 DEF Gather
  <2>2. m' = m
    BY <2>1 DEF m
  <2>3. CallIsSound'
    BY <2>1, <2>2 DEF CallIsSound, WordsInv, Working
  <2> QED
    BY <2>1, <2>3 DEF WordsInv, WordsPartition, Working
<1>7. CASE Fuse
  <2>1. step = "fuse" /\ step' = "score" /\ UNCHANGED <<text, enc, segments>>
    BY <1>7 DEF Fuse
  <2>2. \E y : scores' = Append(scores, y)
    BY <1>7 DEF Fuse
  <2>3. Len(scores) < m - 1
    BY <2>1 DEF WordsInv, Working, CallIsSound
  <2> QED
    BY <2>1, <2>2, <2>3, WordsScored DEF Working
<1>8. CASE ScoresDone
  <2>1. /\ step = "score" /\ Len(scores) = m - 1 /\ step' = "cut"
        /\ UNCHANGED <<text, enc, scores, segments>>
    BY <1>8 DEF ScoresDone, scratch
  <2> QED
    BY <2>1, WordsGoOn DEF Working
<1>9. CASE Cut
  <2>1. step = "cut" /\ step' = "idle" /\ UNCHANGED <<text, enc, scores>>
    BY <1>9 DEF Cut, EndCall, scratch
  <2>2. /\ text \in Seq(DOMAIN Normal) /\ text # <<>> /\ enc.offsets = OffsetsOf(text)
        /\ Len(scores) = Cardinality(ClusterSet(text)) - 1
    BY <2>1 DEF WordsInv, Working, CallIsSound
  <2>3. segments' = [k \in DOMAIN CutsOf(scores) |-> <<EndOf(text, scores, k - 1), EndOf(text, scores, k)>>]
    <3> DEFINE cuts == Ascending({i \in 1 .. Len(scores) + 1 : i > Len(scores) \/ scores[i] > 0})
               at(k) == IF k = 0 THEN 0
                        ELSE IF cuts[k] > Len(scores) THEN ByteLength(text) ELSE enc.offsets[cuts[k] + 1]
    <3>1. segments' = [k \in DOMAIN cuts |-> <<at(k - 1), at(k)>>]
      BY <1>9 DEF Cut
    <3>2. cuts = CutsOf(scores)
      BY DEF CutsOf
    <3> HIDE DEF cuts
    <3>3. \A k : at(k) = EndOf(text, scores, k)
      BY <2>2, <3>2 DEF EndOf
    <3> HIDE DEF at
    <3> QED
      BY <3>1, <3>2, <3>3
  <2>4. Partitions(text, segments', scores)
    BY <1>0, <2>2, <2>3, CutsPartition
  <2>5. WordsPartition'
    BY <2>1, <2>4, PartitionIs
  <2> QED
    BY <1>0, <2>1, <2>5 DEF WordsInv, Working
<1>10. CASE AllocationThrows
  <2>1. step' = "idle" /\ outcome' # "ok" /\ scores' = scores
    BY <1>10 DEF AllocationThrows, EndCall, scratch
  <2> QED
    BY <1>0, <2>1, WordsEnded
<1>11. CASE UNCHANGED vars
  <2>1. UNCHANGED <<step, text, enc, scores, segments, outcome>>
    BY <1>11 DEF vars, scratch
  <2>2. m' = m
    BY <2>1 DEF m
  <2>3. WordsPartition'
    BY <2>1, PartitionIs DEF WordsInv
  <2>4. CallIsSound' <=> CallIsSound
    BY <2>1, <2>2 DEF CallIsSound
  <2>5. Working' <=> Working
    BY <2>1 DEF Working
  <2> QED
    BY <1>0, <2>1, <2>3, <2>4, <2>5 DEF WordsInv
<1> QED
  BY <1>1, <1>2, <1>3, <1>4, <1>5, <1>6, <1>7, <1>8, <1>9, <1>10, <1>11 DEF Next

\* The words of a text partition its bytes, and are cut apart exactly between
\* clusters, where the score of the boundary is positive (tokenize_with).
THEOREM WordsPartitionTheText == Spec => []WordsPartition
<1>1. WordsInv => WordsPartition
  BY DEF WordsInv
<1> QED
  BY <1>1, WordsInvInit, WordsInvNext, PTL DEF Spec

-----------------------------------------------------------------------------
(* What parse has read. *)

\* The fields of a file, by their place in it.
LEMMA FieldsAre ==
    /\ Len(Fields) = 15 /\ DOMAIN Fields = 1 .. 15
    /\ Fields[1] = "config" /\ Fields[2] = "scales" /\ Fields[3] = "vocab_size" /\ Fields[4] = "vocab"
    /\ Fields[5] = "embedding" /\ Fields[6] = "w1" /\ Fields[7] = "wdict" /\ Fields[8] = "b1" /\ Fields[9] = "w2"
    /\ Fields[10] = "b2" /\ Fields[11] = "fst_size" /\ Fields[12] = "fst" /\ Fields[13] = "sets"
    /\ Fields[14] = "offsets" /\ Fields[15] = "dicts"
BY DEF Fields

\* No field is read twice.
LEMMA FieldsDiffer == \A i, j \in 1 .. 15 : i < j => Fields[i] # Fields[j]
BY FieldsAre

\* The function that Reads recurs by.
ParseStep(bytes, p, k) ==
    IF k = 0 THEN [ok |-> TRUE, at |-> 3, got |-> [field \in ToSet(Fields) |-> <<>>]]
    ELSE IF p[k - 1].ok THEN ReadField(bytes, p[k - 1], Fields[k]) ELSE p[k - 1]
Parses(bytes, n, p) == p = [k \in 0 .. n |-> ParseStep(bytes, p, k)]

\* The parse after each number of fields exists.
LEMMA ParsesExists ==
    ASSUME NEW bytes
    PROVE  \A n \in Nat : \E p : Parses(bytes, n, p)
<1> DEFINE S == {n \in Nat : \E p : Parses(bytes, n, p)}
<1>1. 0 \in S
  <2> DEFINE p == [k \in 0 .. 0 |-> ParseStep(bytes, <<>>, 0)]
  <2>1. p = [k \in 0 .. 0 |-> ParseStep(bytes, p, k)]
    BY DEF ParseStep
  <2> QED
    BY <2>1 DEF Parses
<1>2. ASSUME NEW n \in S PROVE n + 1 \in S
  <2>1. PICK g : Parses(bytes, n, g)
    OBVIOUS
  <2> DEFINE p == [k \in 0 .. n + 1 |-> IF k <= n THEN g[k] ELSE ParseStep(bytes, g, k)]
  <2>2. \A k \in 0 .. n : g[k] = ParseStep(bytes, g, k)
    BY <2>1 DEF Parses
  <2>3. \A k \in 0 .. n : p[k] = g[k]
    OBVIOUS
  <2>4. p[n + 1] = ParseStep(bytes, g, n + 1)
    OBVIOUS
  <2>5. \A k \in 0 .. n + 1 : ParseStep(bytes, p, k) = ParseStep(bytes, g, k)
    <3> TAKE k \in 0 .. n + 1
    <3>1. CASE k = 0
      BY <3>1 DEF ParseStep
    <3>2. CASE k # 0
      <4>1. k - 1 \in 0 .. n
        BY <3>2
      <4>2. p[k - 1] = g[k - 1]
        BY <2>3, <4>1
      <4> HIDE DEF p
      <4> QED
        BY <3>2, <4>2 DEF ParseStep
    <3> QED
      BY <3>1, <3>2
  <2> HIDE DEF p
  <2>6. \A k \in 0 .. n + 1 : p[k] = ParseStep(bytes, p, k)
    <3> TAKE k \in 0 .. n + 1
    <3>1. k \in 0 .. n \/ k = n + 1
      OBVIOUS
    <3> QED
      BY <2>2, <2>3, <2>4, <2>5, <3>1
  <2>7. p = [k \in 0 .. n + 1 |-> p[k]]
    BY DEF p
  <2>8. Parses(bytes, n + 1, p)
    BY <2>6, <2>7 DEF Parses
  <2> QED
    BY <2>8
<1> HIDE DEF S
<1>3. S \subseteq Nat
  BY DEF S
<1>4. S = Nat
  BY <1>1, <1>2, <1>3, Induct
<1> QED
  BY <1>4 DEF S

\* A parse has its three members and every field.
IsParse(p) == p = [ok |-> p.ok, at |-> p.at, got |-> p.got] /\ p.got = [field \in ToSet(Fields) |-> p.got[field]]

\* Where field k of bytes lies.
FieldAt(bytes, k) == Reads(bytes)[k - 1].at
FieldLength(bytes, k) == Length(Reads(bytes)[k - 1].got, Fields[k])
FieldRead(bytes, k) == SubSeq(bytes, FieldAt(bytes, k), (FieldAt(bytes, k) + FieldLength(bytes, k)) - 1)

\* A parse that succeeds has read every field, each where the one before it ends.
LEMMA ParseIs ==
    ASSUME NEW bytes, Parse(bytes).ok
    PROVE  LET p == Reads(bytes)
               got == Parse(bytes).got
           IN  /\ p[0].at = 3
               /\ \A k \in 1 .. 15 :
                     /\ (FieldAt(bytes, k) + FieldLength(bytes, k)) - 1 <= Len(bytes)
                     /\ WellFormed(p[k - 1].got, Fields[k], FieldRead(bytes, k))
                     /\ p[k].at = FieldAt(bytes, k) + FieldLength(bytes, k)
                     /\ got[Fields[k]] = FieldRead(bytes, k)
               /\ \A j, k \in 1 .. 15 : j < k => p[k - 1].got[Fields[j]] = got[Fields[j]]
<1> DEFINE p == Reads(bytes)
           got == Parse(bytes).got
<1>1. \A k \in 0 .. 15 : p[k] = ParseStep(bytes, p, k)
  <2> DEFINE r == CHOOSE g : g = [k \in 0 .. Len(Fields) |-> ParseStep(bytes, g, k)]
  <2>1. p = r
    BY DEF Reads, ParseStep
  <2>2. \E g : Parses(bytes, 15, g)
    BY ParsesExists
  <2>3. r = [k \in 0 .. 15 |-> ParseStep(bytes, r, k)]
    BY <2>2, FieldsAre DEF Parses
  <2> HIDE DEF r, p
  <2> QED
    BY <2>1, <2>3
<1>2. Parse(bytes) = [p[15] EXCEPT !.ok = p[15].ok /\ Ended(bytes, p[15].at)]
  BY FieldsAre DEF Parse
<1> HIDE DEF p
<1>3. p[0] = [ok |-> TRUE, at |-> 3, got |-> [field \in ToSet(Fields) |-> <<>>]]
  BY <1>1 DEF ParseStep
<1>4. \A k \in 1 .. 15 : p[k] = IF p[k - 1].ok THEN ReadField(bytes, p[k - 1], Fields[k]) ELSE p[k - 1]
  <2> TAKE k \in 1 .. 15
  <2>1. k \in 0 .. 15 /\ k # 0
    OBVIOUS
  <2> QED
    BY <1>1, <2>1 DEF ParseStep
<1>5. \A k \in 0 .. 15 : IsParse(p[k])
  <2> DEFINE T == {k \in Nat : k <= 15 => IsParse(p[k])}
  <2>1. 0 \in T
    BY <1>3 DEF IsParse
  <2>2. ASSUME NEW k \in T PROVE k + 1 \in T
    <3> SUFFICES ASSUME k + 1 <= 15 PROVE IsParse(p[k + 1])
      OBVIOUS
    <3> DEFINE i == k + 1
               b == p[k]
               field == Fields[i]
               past == b.at + Length(b.got, field)
               read == SubSeq(bytes, b.at, past - 1)
    <3>1. i \in 1 .. 15 /\ i - 1 = k
      OBVIOUS
    <3>2. IsParse(b)
      OBVIOUS
    <3>3. p[i] = IF b.ok THEN ReadField(bytes, b, field) ELSE b
      BY <1>4, <3>1
    <3>4. p[i] = b \/ p[i] = [b EXCEPT !.ok = FALSE]
               \/ p[i] = [ok |-> TRUE, at |-> past, got |-> [b.got EXCEPT ![field] = read]]
      BY <3>3 DEF ReadField
    <3> HIDE DEF b, field, past, read, i
    <3>5. IsParse(p[i])
      <4>1. CASE p[i] = b
        BY <3>2, <4>1
      <4>2. CASE p[i] = [b EXCEPT !.ok = FALSE]
        <5>1. p[i] = [ok |-> FALSE, at |-> b.at, got |-> b.got]
          BY <3>2, <4>2 DEF IsParse
        <5> QED
          BY <3>2, <5>1 DEF IsParse
      <4>3. CASE p[i] = [ok |-> TRUE, at |-> past, got |-> [b.got EXCEPT ![field] = read]]
        <5>1. p[i].got = [b.got EXCEPT ![field] = read] /\ p[i] = [ok |-> p[i].ok, at |-> p[i].at, got |-> p[i].got]
          BY <4>3
        <5>2. b.got = [x \in ToSet(Fields) |-> b.got[x]]
          BY <3>2 DEF IsParse
        <5> DEFINE new == p[i].got
        <5>3. new = [x \in ToSet(Fields) |-> new[x]]
          BY <5>1, <5>2
        <5> QED
          BY <5>1, <5>3 DEF IsParse
      <4> QED
        BY <3>4, <4>1, <4>2, <4>3
    <3> QED
      BY <3>5 DEF i
  <2> HIDE DEF T
  <2>3. T \subseteq Nat
    BY DEF T
  <2>4. T = Nat
    BY <2>1, <2>2, <2>3, Induct
  <2> QED
    BY <2>4 DEF T
<1>6. p[15].ok /\ got = p[15].got
  <2>1. p[15] = [ok |-> p[15].ok, at |-> p[15].at, got |-> p[15].got]
    BY <1>5 DEF IsParse
  <2> DEFINE e == p[15].ok /\ Ended(bytes, p[15].at)
             l == p[15]
  <2>2. l = [ok |-> l.ok, at |-> l.at, got |-> l.got] /\ Parse(bytes) = [l EXCEPT !.ok = e]
    BY <1>2, <2>1
  <2> HIDE DEF e, l
  <2>3. Parse(bytes).ok = e /\ Parse(bytes).got = l.got
    BY <2>2
  <2> QED
    BY <2>3 DEF e, l
<1> HIDE DEF got
<1>7. \A k \in 0 .. 15 : p[k].ok
  <2> DEFINE T == {k \in Nat : k <= 15 => p[15 - k].ok}
  <2>1. 0 \in T
    BY <1>6
  <2>2. ASSUME NEW k \in T PROVE k + 1 \in T
    <3> SUFFICES ASSUME k + 1 <= 15 PROVE p[15 - (k + 1)].ok
      OBVIOUS
    <3> DEFINE i == 15 - k
    <3>1. i \in 1 .. 15 /\ i - 1 = 15 - (k + 1) /\ p[i].ok
      OBVIOUS
    <3> HIDE DEF i
    <3>2. p[i] = IF p[i - 1].ok THEN ReadField(bytes, p[i - 1], Fields[i]) ELSE p[i - 1]
      BY <1>4, <3>1
    <3> QED
      BY <3>1, <3>2
  <2> HIDE DEF T
  <2>3. T \subseteq Nat
    BY DEF T
  <2>4. T = Nat
    BY <2>1, <2>2, <2>3, Induct
  <2> TAKE k \in 0 .. 15
  <2>5. 15 - k \in T /\ 15 - k <= 15 /\ 15 - (15 - k) = k
    BY <2>4
  <2> QED
    BY <2>5 DEF T
<1>8. ASSUME NEW k \in 1 .. 15
      PROVE  /\ (FieldAt(bytes, k) + FieldLength(bytes, k)) - 1 <= Len(bytes)
             /\ WellFormed(p[k - 1].got, Fields[k], FieldRead(bytes, k))
             /\ p[k].at = FieldAt(bytes, k) + FieldLength(bytes, k)
             /\ p[k].got = [p[k - 1].got EXCEPT ![Fields[k]] = FieldRead(bytes, k)]
  <2> DEFINE b == p[k - 1]
             field == Fields[k]
             past == b.at + Length(b.got, field)
             read == SubSeq(bytes, b.at, past - 1)
             C == past - 1 <= Len(bytes) /\ WellFormed(b.got, field, read)
  <2>1. k - 1 \in 0 .. 15 /\ k \in 0 .. 15
    OBVIOUS
  <2>2. b.ok /\ p[k].ok /\ IsParse(b)
    BY <1>5, <1>7, <2>1
  <2>3. p[k] = ReadField(bytes, b, field)
    BY <1>4, <2>2
  <2>4. p[k] = IF C THEN [ok |-> TRUE, at |-> past, got |-> [b.got EXCEPT ![field] = read]] ELSE [b EXCEPT !.ok = FALSE]
    BY <2>3 DEF ReadField
  <2>11. FieldAt(bytes, k) = b.at /\ FieldLength(bytes, k) = Length(b.got, field)
    BY DEF FieldAt, FieldLength, p
  <2>6. past = FieldAt(bytes, k) + FieldLength(bytes, k)
    BY <2>11
  <2> HIDE DEF past
  <2>12. past - 1 = (FieldAt(bytes, k) + FieldLength(bytes, k)) - 1
    BY <2>6
  <2>5. FieldRead(bytes, k) = read
    <3> HIDE DEF b
    <3> QED
      BY <2>11, <2>12 DEF FieldRead
  <2> HIDE DEF C, read, field
  <2>7. C
    <3> SUFFICES ASSUME ~C PROVE FALSE
      OBVIOUS
    <3> HIDE DEF b
    <3>1. p[k] = [b EXCEPT !.ok = FALSE]
      BY <2>4
    <3>2. p[k] = [ok |-> FALSE, at |-> b.at, got |-> b.got]
      BY <2>2, <3>1 DEF IsParse
    <3> QED
      BY <2>2, <3>2
  <2>8. p[k].at = past /\ p[k].got = [b.got EXCEPT ![field] = read]
    BY <2>4, <2>7
  <2>9. past - 1 <= Len(bytes) /\ WellFormed(b.got, Fields[k], FieldRead(bytes, k))
    BY <2>5, <2>7 DEF C, field
  <2>10. p[k].got = [b.got EXCEPT ![Fields[k]] = FieldRead(bytes, k)]
    BY <2>5, <2>8 DEF field
  <2>13. (FieldAt(bytes, k) + FieldLength(bytes, k)) - 1 <= Len(bytes)
    BY <2>9, <2>12
  <2>14. p[k].at = FieldAt(bytes, k) + FieldLength(bytes, k)
    BY <2>6, <2>8
  <2> QED
    BY <2>9, <2>10, <2>13, <2>14
<1>9. ASSUME NEW k \in 1 .. 15
      PROVE  /\ p[k].got[Fields[k]] = FieldRead(bytes, k)
             /\ \A i \in 1 .. 15 : i # k => p[k].got[Fields[i]] = p[k - 1].got[Fields[i]]
  <2> DEFINE b == p[k - 1].got
  <2>1. k - 1 \in 0 .. 15
    OBVIOUS
  <2>2. b = [x \in ToSet(Fields) |-> b[x]]
    BY <1>5, <2>1 DEF IsParse
  <2>3. \A i \in 1 .. 15 : Fields[i] \in ToSet(Fields)
    BY FieldsAre DEF ToSet
  <2>4. \A i \in 1 .. 15 : i # k => Fields[i] # Fields[k]
    BY FieldsDiffer
  <2>5. p[k].got = [b EXCEPT ![Fields[k]] = FieldRead(bytes, k)]
    BY <1>8
  <2> HIDE DEF b
  <2>6. p[k].got[Fields[k]] = FieldRead(bytes, k)
    BY <2>2, <2>3, <2>5
  <2>7. \A i \in 1 .. 15 : i # k => p[k].got[Fields[i]] = b[Fields[i]]
    BY <2>2, <2>3, <2>4, <2>5
  <2> QED
    BY <2>6, <2>7 DEF b
<1>10. ASSUME NEW j \in 1 .. 15 PROVE \A k \in j .. 15 : p[k].got[Fields[j]] = FieldRead(bytes, j)
  <2> DEFINE T == {d \in Nat : j + d <= 15 => p[j + d].got[Fields[j]] = FieldRead(bytes, j)}
  <2>1. 0 \in T
    <3>1. j + 0 = j
      OBVIOUS
    <3> QED
      BY <1>9, <3>1
  <2>2. ASSUME NEW d \in T PROVE d + 1 \in T
    <3> SUFFICES ASSUME j + (d + 1) <= 15 PROVE p[j + (d + 1)].got[Fields[j]] = FieldRead(bytes, j)
      OBVIOUS
    <3> DEFINE i == j + (d + 1)
    <3>1. i \in 1 .. 15 /\ i - 1 = j + d /\ i # j /\ p[j + d].got[Fields[j]] = FieldRead(bytes, j)
      OBVIOUS
    <3> HIDE DEF i
    <3>2. p[i].got[Fields[j]] = p[i - 1].got[Fields[j]]
      BY <1>9, <3>1
    <3>3. p[i].got[Fields[j]] = FieldRead(bytes, j)
      BY <3>1, <3>2
    <3> QED
      BY <3>3 DEF i
  <2> HIDE DEF T
  <2>3. T \subseteq Nat
    BY DEF T
  <2>4. T = Nat
    BY <2>1, <2>2, <2>3, Induct
  <2> TAKE k \in j .. 15
  <2>5. k - j \in T /\ j + (k - j) = k /\ k <= 15
    BY <2>4
  <2> QED
    BY <2>5 DEF T
<1>11. \A j \in 1 .. 15 : got[Fields[j]] = FieldRead(bytes, j)
  <2> TAKE j \in 1 .. 15
  <2>1. 15 \in j .. 15
    OBVIOUS
  <2> QED
    BY <1>6, <1>10, <2>1
<1>12. \A j, k \in 1 .. 15 : j < k => p[k - 1].got[Fields[j]] = got[Fields[j]]
  <2> TAKE j, k \in 1 .. 15
  <2>1. j < k => k - 1 \in j .. 15
    OBVIOUS
  <2> QED
    BY <1>10, <1>11, <2>1
<1>13. p[0].at = 3
  BY <1>3
<1> QED
  BY <1>8, <1>11, <1>12, <1>13, Zenon DEF p, got

\* A part of a sequence.
LEMMA PartIs ==
    ASSUME NEW s, IsSeq(s), NEW a \in Nat \ {0}, NEW n \in Nat, (a + n) - 1 <= Len(s)
    PROVE  /\ IsSeq(SubSeq(s, a, (a + n) - 1)) /\ Len(SubSeq(s, a, (a + n) - 1)) = n
           /\ DOMAIN SubSeq(s, a, (a + n) - 1) = 1 .. n
<1> DEFINE held == {s[k] : k \in DOMAIN s}
           t == SubSeq(s, a, (a + n) - 1)
<1>1. s \in Seq(held) /\ Len(s) \in Nat /\ DOMAIN s = 1 .. Len(s)
  BY DEF IsSeq
<1>2. t = [k \in 1 .. n |-> s[(k + a) - 1]]
  BY <1>1
<1>3. DOMAIN t = 1 .. n
  BY <1>2
<1>4. t = [k \in 1 .. n |-> t[k]]
  BY <1>2
<1> HIDE DEF t
<1> DEFINE new == {t[k] : k \in 1 .. n}
<1>5. t \in [1 .. n -> new]
  BY <1>4
<1> HIDE DEF new
<1>6. t \in Seq(new)
  BY <1>5
<1>7. Len(t) = n
  BY <1>3, <1>6
<1>8. new = {t[k] : k \in DOMAIN t}
  BY <1>3 DEF new
<1> QED
  BY <1>3, <1>6, <1>7, <1>8 DEF IsSeq, t

\* How long each field is.
LEMMA LengthIs ==
    ASSUME NEW g
    PROVE  LET c == Config(g)
           IN  /\ Length(g, "config") = 5
               /\ Length(g, "scales") = 4 + (IF c.num_dicts > 0 THEN 1 ELSE 0)
               /\ Length(g, "vocab_size") = 1
               /\ Length(g, "vocab") = g["vocab_size"][1] - 2
               /\ Length(g, "embedding") = g["vocab_size"][1] * c.embed_dim
               /\ Length(g, "w1") = c.hidden * 2 * c.window * c.embed_dim
               /\ Length(g, "wdict") = c.hidden * c.num_dicts * FeaturesPerDict
               /\ Length(g, "b1") = c.hidden
               /\ Length(g, "w2") = c.hidden
               /\ Length(g, "b2") = 1
               /\ Length(g, "fst_size") = IF c.num_dicts > 0 THEN 1 ELSE 0
               /\ Length(g, "fst") = IF c.num_dicts > 0 THEN g["fst_size"][1] ELSE 0
               /\ Length(g, "sets") = IF c.num_dicts > 0 THEN 1 ELSE 0
               /\ Length(g, "offsets") = IF c.num_dicts > 0 THEN g["sets"][1] + 1 ELSE 0
               /\ Length(g, "dicts") = IF c.num_dicts > 0 THEN Last(g["offsets"]) ELSE 0
BY DEF Length

\* What the checks of the parser ensure, as far as indices go.
LEMMA ChecksAre ==
    ASSUME NEW g, NEW read
    PROVE  LET c == Config(g)
           IN  /\ WellFormed(g, "config", read) => read[1] >= 1 /\ read[3] >= 1
               /\ WellFormed(g, "vocab_size", read) => read[1] >= 2
               /\ WellFormed(g, "offsets", read) /\ read # <<>> =>
                     read[1] = 0 /\ \A i \in 2 .. Len(read) : read[i - 1] <= read[i]
               /\ WellFormed(g, "dicts", read) => \A i \in DOMAIN read : read[i] < c.num_dicts
BY DEF WellFormed, ChannelsInRange

\* The fields of a file that was parsed, as far as indices go.
LEMMA GotIs ==
    ASSUME NEW f \in DOMAIN Files, Parse(Files[f].bytes).ok
    PROVE  LET got == Parse(Files[f].bytes).got
               c == Config(got)
           IN  /\ c.window \in Nat \ {0} /\ c.hidden \in Nat \ {0} /\ c.num_dicts \in Nat
               /\ got["vocab_size"][1] \in Nat /\ got["vocab_size"][1] >= 2
               /\ got["vocab"] \in Seq(Nat) /\ Len(got["vocab"]) = got["vocab_size"][1] - 2
               /\ \A k \in DOMAIN got["fst"] :
                     \A key \in DOMAIN got["fst"][k].of : got["fst"][k].of[key] \in Nat
               /\ c.num_dicts > 0 =>
                     /\ IsSeq(got["fst"])
                     /\ got["offsets"] \in Seq(Nat) /\ got["offsets"] # <<>>
                     /\ \A i \in 2 .. Len(got["offsets"]) : got["offsets"][i - 1] <= got["offsets"][i]
                     /\ got["dicts"] \in Seq(0 .. c.num_dicts - 1)
                     /\ Len(got["dicts"]) = Last(got["offsets"])
<1> DEFINE bytes == Files[f].bytes
           p == Reads(bytes)
           got == Parse(bytes).got
           c == Config(got)
           at(k) == FieldAt(bytes, k)
           length(k) == FieldLength(bytes, k)
           before(k) == p[k - 1].got
<1>1. IsSeq(bytes)
  <2>1. Len(bytes) \in Nat /\ bytes = [k \in 1 .. Len(bytes) |-> bytes[k]]
    BY FilesAssumption
  <2> HIDE DEF bytes
  <2> DEFINE held == {bytes[k] : k \in 1 .. Len(bytes)}
             n == Len(bytes)
  <2>2. bytes \in [1 .. n -> held] /\ DOMAIN bytes = 1 .. n
    BY <2>1
  <2>3. held = {bytes[k] : k \in DOMAIN bytes}
    BY <2>2
  <2> HIDE DEF held
  <2>4. bytes \in Seq(held)
    BY <2>1, <2>2
  <2> QED
    BY <2>3, <2>4 DEF IsSeq
<1>2. /\ \A field \in {"config", "vocab_size", "vocab", "fst_size", "sets", "offsets", "dicts"} :
            \A k \in DOMAIN got[field] : got[field][k] \in Nat
      /\ \A k \in DOMAIN got["fst"] : \A key \in DOMAIN got["fst"][k].of : got["fst"][k].of[key] \in Nat
  BY FilesAssumption
<1>3. /\ p[0].at = 3
      /\ \A k \in 1 .. 15 :
            /\ (at(k) + length(k)) - 1 <= Len(bytes)
            /\ WellFormed(before(k), Fields[k], FieldRead(bytes, k))
            /\ p[k].at = at(k) + length(k)
            /\ got[Fields[k]] = FieldRead(bytes, k)
      /\ \A j, k \in 1 .. 15 : j < k => before(k)[Fields[j]] = got[Fields[j]]
  BY ParseIs
<1> HIDE DEF bytes, got
<1>4. ASSUME NEW k \in 1 .. 15, at(k) \in Nat \ {0}, length(k) \in Nat
      PROVE  /\ p[k].at \in Nat \ {0}
             /\ IsSeq(got[Fields[k]]) /\ Len(got[Fields[k]]) = length(k) /\ DOMAIN got[Fields[k]] = 1 .. length(k)
  <2>1. FieldRead(bytes, k) = SubSeq(bytes, at(k), (at(k) + length(k)) - 1)
    BY DEF FieldRead
  <2>3. (at(k) + length(k)) - 1 <= Len(bytes) /\ got[Fields[k]] = FieldRead(bytes, k)
        /\ p[k].at = at(k) + length(k)
    BY <1>3
  <2> HIDE DEF at, length
  <2>2. p[k].at \in Nat \ {0}
    BY <1>4, <2>3
  <2>4. LET t == SubSeq(bytes, at(k), (at(k) + length(k)) - 1)
        IN  IsSeq(t) /\ Len(t) = length(k) /\ DOMAIN t = 1 .. length(k)
    <3> DEFINE a == at(k)
               n == length(k)
    <3>1. a \in Nat \ {0}
      BY <1>4
    <3>2. n \in Nat
      BY <1>4
    <3>3. (a + n) - 1 <= Len(bytes)
      BY <2>3
    <3> HIDE DEF a, n
    <3>4. \A x \in Nat \ {0}, y \in Nat : (x + y) - 1 <= Len(bytes) =>
              /\ IsSeq(SubSeq(bytes, x, (x + y) - 1)) /\ Len(SubSeq(bytes, x, (x + y) - 1)) = y
              /\ DOMAIN SubSeq(bytes, x, (x + y) - 1) = 1 .. y
      BY <1>1, PartIs
    <3>5. /\ IsSeq(SubSeq(bytes, a, (a + n) - 1)) /\ Len(SubSeq(bytes, a, (a + n) - 1)) = n
          /\ DOMAIN SubSeq(bytes, a, (a + n) - 1) = 1 .. n
      BY <3>1, <3>2, <3>3, <3>4
    <3> QED
      BY <3>5 DEF a, n
  <2> QED
    BY <2>1, <2>2, <2>3, <2>4
<1>5. \A k \in 0 .. 14 : at(k + 1) = p[k].at
  <2> TAKE k \in 0 .. 14
  <2>1. (k + 1) - 1 = k
    OBVIOUS
  <2> QED
    BY <2>1 DEF FieldAt
<1>6. \A k \in 1 .. 15 : length(k) = Length(before(k), Fields[k])
  BY DEF FieldLength
<1> HIDE DEF at, length, before
\* One field after the other.
<1>7. /\ p[1].at \in Nat \ {0}
      /\ IsSeq(got["config"]) /\ Len(got["config"]) = 5 /\ DOMAIN got["config"] = 1 .. 5
  <2>1. at(1) = 3
    <3>1. 0 \in 0 .. 14 /\ 0 + 1 = 1
      OBVIOUS
    <3> QED
      BY <1>3, <1>5, <3>1
  <2>2. length(1) = 5
    BY <1>6, FieldsAre, LengthIs
  <2>3. 1 \in 1 .. 15 /\ at(1) \in Nat \ {0} /\ length(1) \in Nat
    BY <2>1, <2>2
  <2>4. /\ p[1].at \in Nat \ {0}
        /\ IsSeq(got[Fields[1]]) /\ Len(got[Fields[1]]) = length(1) /\ DOMAIN got[Fields[1]] = 1 .. length(1)
    BY <1>4, <2>3
  <2> QED
    BY <2>2, <2>4, FieldsAre
<1>8. /\ c.window \in Nat \ {0} /\ c.hidden \in Nat \ {0} /\ c.num_dicts \in Nat /\ c.embed_dim \in Nat
  <2>1. \A k \in 1 .. 5 : got["config"][k] \in Nat
    BY <1>2, <1>7
  <2>2. WellFormed(before(1), "config", got["config"])
    BY <1>3, FieldsAre
  <2>3. got["config"][1] >= 1 /\ got["config"][3] >= 1
    BY <2>2, ChecksAre
  <2> QED
    BY <2>1, <2>3 DEF Config
<1>9. \A k \in 2 .. 15 : Config(before(k)) = c
  <2> TAKE k \in 2 .. 15
  <2>1. 1 \in 1 .. 15 /\ k \in 1 .. 15 /\ 1 < k
    OBVIOUS
  <2>2. before(k)["config"] = got["config"]
    BY <1>3, <2>1, FieldsAre
  <2> QED
    BY <2>2 DEF Config
<1> HIDE DEF c
<1>10. ASSUME NEW k \in 1 .. 14, p[k].at \in Nat \ {0}, length(k + 1) \in Nat
       PROVE  LET g == got[Fields[k + 1]]
              IN  /\ p[k + 1].at \in Nat \ {0}
                  /\ IsSeq(g) /\ Len(g) = length(k + 1) /\ DOMAIN g = 1 .. length(k + 1)
  <2>1. k + 1 \in 1 .. 15 /\ k \in 0 .. 14
    OBVIOUS
  <2>2. at(k + 1) \in Nat \ {0}
    BY <1>5, <1>10, <2>1
  <2> QED
    BY <1>4, <1>10, <2>1, <2>2
<1>11. p[2].at \in Nat \ {0}
  <2>1. 1 \in 1 .. 14 /\ 1 + 1 = 2 /\ 2 \in 1 .. 15 /\ 2 \in 2 .. 15
    OBVIOUS
  <2>2. length(2) = 4 + (IF c.num_dicts > 0 THEN 1 ELSE 0)
    BY <1>6, <1>9, <2>1, FieldsAre, LengthIs
  <2>3. length(2) \in Nat
    BY <1>8, <2>2
  <2> QED
    BY <1>7, <1>10, <2>1, <2>3
<1>12. /\ p[3].at \in Nat \ {0} /\ got["vocab_size"][1] \in Nat /\ got["vocab_size"][1] >= 2
  <2>1. 2 \in 1 .. 14 /\ 2 + 1 = 3 /\ 3 \in 1 .. 15 /\ 3 \in 2 .. 15
    OBVIOUS
  <2>2. length(3) = 1
    BY <1>6, <1>9, <2>1, FieldsAre, LengthIs
  <2>3. p[3].at \in Nat \ {0} /\ DOMAIN got["vocab_size"] = 1 .. 1
    <3>1. length(3) \in Nat
      BY <2>2
    <3>2. p[3].at \in Nat \ {0} /\ DOMAIN got[Fields[3]] = 1 .. length(3)
      BY <1>10, <1>11, <2>1, <3>1
    <3> QED
      BY <2>2, <3>2, FieldsAre
  <2>4. WellFormed(before(3), "vocab_size", got["vocab_size"])
    BY <1>3, <2>1, FieldsAre
  <2>5. got["vocab_size"][1] >= 2
    BY <2>4, ChecksAre
  <2>6. 1 \in DOMAIN got["vocab_size"]
    BY <2>3
  <2>7. got["vocab_size"][1] \in Nat
    BY <1>2, <2>6
  <2> QED
    BY <2>3, <2>5, <2>7
<1>13. \A k \in 4 .. 15 : before(k)["vocab_size"] = got["vocab_size"]
  <2> TAKE k \in 4 .. 15
  <2>1. 3 \in 1 .. 15 /\ k \in 1 .. 15 /\ 3 < k
    OBVIOUS
  <2> QED
    BY <1>3, <2>1, FieldsAre
<1>14. /\ p[4].at \in Nat \ {0}
       /\ got["vocab"] \in Seq(Nat) /\ Len(got["vocab"]) = got["vocab_size"][1] - 2
  <2>1. 3 \in 1 .. 14 /\ 3 + 1 = 4 /\ 4 \in 1 .. 15 /\ 4 \in 4 .. 15
    OBVIOUS
  <2>2. length(4) = got["vocab_size"][1] - 2
    BY <1>6, <1>13, <2>1, FieldsAre, LengthIs
  <2>3. length(4) \in Nat
    BY <1>12, <2>2
  <2>4. p[4].at \in Nat \ {0} /\ IsSeq(got["vocab"]) /\ Len(got["vocab"]) = length(4)
    BY <1>10, <1>12, <2>1, <2>3, FieldsAre
  <2>5. \A k \in DOMAIN got["vocab"] : got["vocab"][k] \in Nat
    BY <1>2
  <2>6. got["vocab"] \in Seq(Nat)
    BY <2>4, <2>5 DEF IsSeq
  <2> QED
    BY <2>2, <2>4, <2>6
<1>15. ASSUME NEW i \in Nat, NEW j \in Nat PROVE i * j \in Nat
  OBVIOUS
<1>16. p[10].at \in Nat \ {0}
  <2> DEFINE v == got["vocab_size"][1]
  <2>1. /\ 4 \in 1 .. 14 /\ 4 + 1 = 5 /\ 5 \in 1 .. 15 /\ 5 \in 4 .. 15 /\ 5 \in 2 .. 15
        /\ 5 \in 1 .. 14 /\ 5 + 1 = 6 /\ 6 \in 1 .. 15 /\ 6 \in 2 .. 15
        /\ 6 \in 1 .. 14 /\ 6 + 1 = 7 /\ 7 \in 1 .. 15 /\ 7 \in 2 .. 15
        /\ 7 \in 1 .. 14 /\ 7 + 1 = 8 /\ 8 \in 1 .. 15 /\ 8 \in 2 .. 15
        /\ 8 \in 1 .. 14 /\ 8 + 1 = 9 /\ 9 \in 1 .. 15 /\ 9 \in 2 .. 15
        /\ 9 \in 1 .. 14 /\ 9 + 1 = 10 /\ 10 \in 1 .. 15
    OBVIOUS
  <2>2. length(5) = v * c.embed_dim
    BY <1>6, <1>9, <1>13, <2>1, FieldsAre, LengthIs
  <2>3. length(6) = c.hidden * 2 * c.window * c.embed_dim
    BY <1>6, <1>9, <2>1, FieldsAre, LengthIs
  <2>4. length(7) = c.hidden * c.num_dicts * FeaturesPerDict
    BY <1>6, <1>9, <2>1, FieldsAre, LengthIs
  <2>5. length(8) = c.hidden /\ length(9) = c.hidden /\ length(10) = 1
    BY <1>6, <1>9, <2>1, FieldsAre, LengthIs
  <2>6. FeaturesPerDict \in Nat
    BY DictionaryAssumption DEF FeaturesPerDict
  <2> HIDE DEF v
  <2>7. length(5) \in Nat
    BY <1>8, <1>12, <1>15, <2>2 DEF v
  <2>8. length(6) \in Nat
    BY <1>8, <1>15, <2>3
  <2>9. length(7) \in Nat
    BY <1>8, <1>15, <2>4, <2>6
  <2>10. p[5].at \in Nat \ {0}
    BY <1>10, <1>14, <2>1, <2>7
  <2>11. p[6].at \in Nat \ {0}
    BY <1>10, <2>1, <2>8, <2>10
  <2>12. p[7].at \in Nat \ {0}
    BY <1>10, <2>1, <2>9, <2>11
  <2>13. p[8].at \in Nat \ {0}
    BY <1>8, <1>10, <2>1, <2>5, <2>12
  <2>14. p[9].at \in Nat \ {0}
    BY <1>8, <1>10, <2>1, <2>5, <2>13
  <2> QED
    BY <1>10, <2>1, <2>5, <2>14
<1>17. c.num_dicts > 0 =>
           /\ IsSeq(got["fst"])
           /\ got["offsets"] \in Seq(Nat) /\ got["offsets"] # <<>>
           /\ \A i \in 2 .. Len(got["offsets"]) : got["offsets"][i - 1] <= got["offsets"][i]
           /\ got["dicts"] \in Seq(0 .. c.num_dicts - 1)
           /\ Len(got["dicts"]) = Last(got["offsets"])
  <2> SUFFICES ASSUME c.num_dicts > 0
               PROVE  /\ IsSeq(got["fst"])
                      /\ got["offsets"] \in Seq(Nat) /\ got["offsets"] # <<>>
                      /\ \A i \in 2 .. Len(got["offsets"]) : got["offsets"][i - 1] <= got["offsets"][i]
                      /\ got["dicts"] \in Seq(0 .. c.num_dicts - 1)
                      /\ Len(got["dicts"]) = Last(got["offsets"])
    OBVIOUS
  <2>1. /\ 10 \in 1 .. 14 /\ 10 + 1 = 11 /\ 11 \in 1 .. 15 /\ 11 \in 2 .. 15
        /\ 11 \in 1 .. 14 /\ 11 + 1 = 12 /\ 12 \in 1 .. 15 /\ 12 \in 2 .. 15 /\ 11 < 12
        /\ 12 \in 1 .. 14 /\ 12 + 1 = 13 /\ 13 \in 1 .. 15 /\ 13 \in 2 .. 15
        /\ 13 \in 1 .. 14 /\ 13 + 1 = 14 /\ 14 \in 1 .. 15 /\ 14 \in 2 .. 15 /\ 13 < 14
        /\ 14 \in 1 .. 14 /\ 14 + 1 = 15 /\ 15 \in 1 .. 15 /\ 15 \in 2 .. 15 /\ 14 < 15
    OBVIOUS
  <2>2. length(11) = 1
    BY <1>6, <1>9, <2>1, FieldsAre, LengthIs
  <2>3. p[11].at \in Nat \ {0} /\ DOMAIN got["fst_size"] = 1 .. 1
    <3>1. length(11) \in Nat
      BY <2>2
    <3>2. p[11].at \in Nat \ {0} /\ DOMAIN got[Fields[11]] = 1 .. length(11)
      BY <1>10, <1>16, <2>1, <3>1
    <3> QED
      BY <2>2, <3>2, FieldsAre
  <2>4. got["fst_size"][1] \in Nat
    BY <1>2, <2>3
  <2>5. before(12)["fst_size"] = got["fst_size"]
    BY <1>3, <2>1, FieldsAre
  <2>6. length(12) = got["fst_size"][1]
    BY <1>6, <1>9, <2>1, <2>5, FieldsAre, LengthIs
  <2>7. p[12].at \in Nat \ {0} /\ IsSeq(got["fst"])
    <3>1. p[12].at \in Nat \ {0} /\ IsSeq(got[Fields[12]])
      BY <1>10, <2>1, <2>3, <2>4, <2>6
    <3> QED
      BY <3>1, FieldsAre
  <2>8. length(13) = 1
    BY <1>6, <1>9, <2>1, FieldsAre, LengthIs
  <2>9. p[13].at \in Nat \ {0} /\ DOMAIN got["sets"] = 1 .. 1
    <3>1. length(13) \in Nat /\ p[12].at \in Nat \ {0}
      BY <2>7, <2>8
    <3>2. p[13].at \in Nat \ {0} /\ DOMAIN got[Fields[13]] = 1 .. length(13)
      BY <1>10, <2>1, <3>1
    <3> QED
      BY <2>8, <3>2, FieldsAre
  <2>10. got["sets"][1] \in Nat
    BY <1>2, <2>9
  <2>11. before(14)["sets"] = got["sets"]
    BY <1>3, <2>1, FieldsAre
  <2>12. length(14) = got["sets"][1] + 1
    BY <1>6, <1>9, <2>1, <2>11, FieldsAre, LengthIs
  <2>13. length(14) \in Nat /\ length(14) # 0
    BY <2>10, <2>12
  <2>14. p[14].at \in Nat \ {0} /\ IsSeq(got["offsets"]) /\ Len(got["offsets"]) = length(14)
    BY <1>10, <2>1, <2>9, <2>13, FieldsAre
  <2>15. \A k \in DOMAIN got["offsets"] : got["offsets"][k] \in Nat
    BY <1>2
  <2>16. got["offsets"] \in Seq(Nat) /\ got["offsets"] # <<>>
    BY <2>13, <2>14, <2>15 DEF IsSeq
  <2>17. \A i \in 2 .. Len(got["offsets"]) : got["offsets"][i - 1] <= got["offsets"][i]
    <3>1. WellFormed(before(14), "offsets", got["offsets"])
      BY <1>3, <2>1, FieldsAre
    <3> QED
      BY <2>16, <3>1, ChecksAre
  <2>18. before(15)["offsets"] = got["offsets"]
    BY <1>3, <2>1, FieldsAre
  <2>19. length(15) = Last(got["offsets"])
    BY <1>6, <1>9, <2>1, <2>18, FieldsAre, LengthIs
  <2>20. length(15) \in Nat
    BY <2>16, <2>19 DEF Last
  <2>21. IsSeq(got["dicts"]) /\ Len(got["dicts"]) = length(15)
    BY <1>10, <2>1, <2>14, <2>20, FieldsAre
  <2>22. \A k \in DOMAIN got["dicts"] : got["dicts"][k] \in Nat
    BY <1>2
  <2>23. \A k \in DOMAIN got["dicts"] : got["dicts"][k] < c.num_dicts
    <3>1. WellFormed(before(15), "dicts", got["dicts"])
      BY <1>3, <2>1, FieldsAre
    <3>2. Config(before(15)) = c
      BY <1>9, <2>1
    <3> QED
      BY <3>1, <3>2, ChecksAre
  <2>24. \A k \in DOMAIN got["dicts"] : got["dicts"][k] \in 0 .. c.num_dicts - 1
    BY <1>8, <2>22, <2>23
  <2>25. got["dicts"] \in Seq(0 .. c.num_dicts - 1)
    <3> DEFINE d == got["dicts"]
               T == 0 .. c.num_dicts - 1
    <3>1. IsSeq(d) /\ \A k \in DOMAIN d : d[k] \in T
      BY <2>21, <2>24
    <3> HIDE DEF d, T
    <3>2. d \in Seq(T)
      BY <3>1 DEF IsSeq
    <3> QED
      BY <3>2 DEF d, T
  <2> QED
    BY <2>7, <2>16, <2>17, <2>19, <2>21, <2>25
<1> QED
  BY <1>2, <1>8, <1>12, <1>14, <1>17 DEF c, got, bytes

-----------------------------------------------------------------------------
(* What the scorer and the matcher rely on. *)

\* The matcher's sets of channels lie one after the other in the array of channels,
\* which are dictionaries, and the FST holds numbers.
MatcherSound(matcher) ==
    /\ \A key \in DOMAIN matcher.fst[1].of : matcher.fst[1].of[key] \in Nat
    /\ \E last \in Nat :
          /\ matcher.offsets \in [0 .. last -> Nat]
          /\ \A i, j \in 0 .. last : i <= j => matcher.offsets[i] <= matcher.offsets[j]
          /\ matcher.dicts \in [0 .. matcher.offsets[last] - 1 -> 0 .. matcher.num_dicts - 1]

\* The arrays of a model have room for every row, slot and column.
ModelSound(mo) ==
    /\ mo.net.window \in Nat \ {0} /\ mo.net.hidden \in Nat \ {0}
    /\ mo.vocab \in Seq(Nat) /\ mo.matcher.num_dicts \in Nat
    /\ DOMAIN mo.table = 0 .. (Len(mo.vocab) + 2) * SlotCount(mo.net) * mo.net.hidden - 1
    /\ DOMAIN mo.dict_cols = 0 .. FeatureCount(mo.matcher) * mo.net.hidden - 1
    /\ mo.matcher.num_dicts # 0 /\ HasImpl(mo.matcher) => MatcherSound(mo.matcher)

\* Ascending one by one is ascending.
LEMMA AscendsThroughout ==
    ASSUME NEW last \in Nat, NEW o \in [0 .. last -> Nat], \A i \in 1 .. last : o[i - 1] <= o[i]
    PROVE  \A i, j \in 0 .. last : i <= j => o[i] <= o[j]
<1> SUFFICES ASSUME NEW i \in 0 .. last, NEW j \in 0 .. last, i <= j PROVE o[i] <= o[j]
  OBVIOUS
<1> DEFINE T == {d \in Nat : i + d <= last => o[i] <= o[i + d]}
<1>1. 0 \in T
  <2>1. i + 0 = i /\ o[i] <= o[i]
    OBVIOUS
  <2> QED
    BY <2>1
<1>2. ASSUME NEW d \in T PROVE d + 1 \in T
  <2> SUFFICES ASSUME i + (d + 1) <= last PROVE o[i] <= o[i + (d + 1)]
    OBVIOUS
  <2> DEFINE k == i + (d + 1)
  <2>1. k \in 1 .. last /\ k - 1 = i + d /\ o[i] <= o[i + d] /\ i + d \in 0 .. last /\ k \in 0 .. last
    OBVIOUS
  <2> HIDE DEF k
  <2>2. o[k - 1] <= o[k] /\ o[k] \in Nat /\ o[i + d] \in Nat /\ o[i] \in Nat
    BY <2>1
  <2>3. o[i] <= o[k]
    BY <2>1, <2>2
  <2> QED
    BY <2>3 DEF k
<1> HIDE DEF T
<1>3. T \subseteq Nat
  BY DEF T
<1>4. T = Nat
  BY <1>1, <1>2, <1>3, Induct
<1>5. j - i \in T /\ i + (j - i) = j
  BY <1>4
<1> QED
  BY <1>5 DEF T

\* A model that was parsed has its arrays, in either precision.
LEMMA ModelIsSound ==
    ASSUME NEW f \in DOMAIN Files, Parse(Files[f].bytes).ok, NEW precision
    PROVE  ModelSound(Derived(Parse(Files[f].bytes).got, precision))
<1> DEFINE got == Parse(Files[f].bytes).got
           c == Config(got)
           mo == Derived(got, precision)
<1>1. /\ c.window \in Nat \ {0} /\ c.hidden \in Nat \ {0} /\ c.num_dicts \in Nat
      /\ got["vocab_size"][1] \in Nat /\ got["vocab_size"][1] >= 2
      /\ got["vocab"] \in Seq(Nat) /\ Len(got["vocab"]) = got["vocab_size"][1] - 2
      /\ \A k \in DOMAIN got["fst"] :
            \A key \in DOMAIN got["fst"][k].of : got["fst"][k].of[key] \in Nat
      /\ c.num_dicts > 0 =>
            /\ IsSeq(got["fst"])
            /\ got["offsets"] \in Seq(Nat) /\ got["offsets"] # <<>>
            /\ \A i \in 2 .. Len(got["offsets"]) : got["offsets"][i - 1] <= got["offsets"][i]
            /\ got["dicts"] \in Seq(0 .. c.num_dicts - 1)
            /\ Len(got["dicts"]) = Last(got["offsets"])
  BY GotIs
<1>2. /\ mo.net = Network(got) /\ mo.vocab = got["vocab"] /\ mo.matcher = Matcher(got)
      /\ mo.table = Table(Network(got), got["vocab_size"][1], precision)
      /\ DOMAIN mo.dict_cols = DOMAIN DictCols(got)
  BY DEF Derived
<1>3. Network(got).window = c.window /\ Network(got).hidden = c.hidden
  BY DEF Network
<1> HIDE DEF got, mo, c
<1>4. mo.matcher.num_dicts = c.num_dicts
  BY <1>1, <1>2 DEF Matcher, c
<1>5. DOMAIN mo.table = 0 .. (Len(mo.vocab) + 2) * SlotCount(mo.net) * mo.net.hidden - 1
  <2> DEFINE v == got["vocab_size"][1]
             w == Len(mo.vocab) + 2
  <2>1. DOMAIN mo.table = 0 .. v * SlotCount(mo.net) * mo.net.hidden - 1
    BY <1>2 DEF Table
  <2>2. v = w
    BY <1>1, <1>2
  <2> HIDE DEF v, w
  <2>3. DOMAIN mo.table = 0 .. w * SlotCount(mo.net) * mo.net.hidden - 1
    BY <2>1, <2>2
  <2> QED
    BY <2>3 DEF w
<1>6. DOMAIN mo.dict_cols = 0 .. FeatureCount(mo.matcher) * mo.net.hidden - 1
  BY <1>2, <1>3, <1>4 DEF DictCols, FeatureCount, c
<1>7. ASSUME c.num_dicts # 0, HasImpl(mo.matcher) PROVE MatcherSound(mo.matcher)
  <2> DEFINE offsets == got["offsets"]
             dicts == got["dicts"]
             o == Array(offsets)
             d == Array(dicts)
             last == Len(offsets) - 1
  <2>1. mo.matcher = [num_dicts |-> c.num_dicts, fst |-> got["fst"], offsets |-> o, dicts |-> d]
    BY <1>2, <1>7 DEF Matcher, c
  <2>2. /\ offsets \in Seq(Nat) /\ offsets # <<>> /\ dicts \in Seq(0 .. c.num_dicts - 1)
        /\ Len(dicts) = Last(offsets)
        /\ \A i \in 2 .. Len(offsets) : offsets[i - 1] <= offsets[i]
        /\ IsSeq(got["fst"])
    <3>1. c.num_dicts > 0
      BY <1>1, <1>7
    <3> QED
      BY <1>1, <3>1
  <2> HIDE DEF offsets, dicts
  <2>3. last \in Nat /\ Len(offsets) = last + 1
    BY <2>2
  <2>4. o \in [0 .. last -> Nat] /\ \A i \in 0 .. last : o[i] = offsets[i + 1]
    BY <2>2, <2>3 DEF Array
  <2>5. d \in [0 .. Len(dicts) - 1 -> 0 .. c.num_dicts - 1]
    <3> DEFINE T == 0 .. c.num_dicts - 1
    <3>1. dicts \in Seq(T)
      BY <2>2
    <3> HIDE DEF T
    <3>2. \A i \in 0 .. Len(dicts) - 1 : dicts[i + 1] \in T
      BY <3>1
    <3>3. d \in [0 .. Len(dicts) - 1 -> T]
      BY <3>2 DEF Array
    <3> QED
      BY <3>3 DEF T
  <2>6. Len(dicts) = o[last]
    BY <2>2, <2>3, <2>4 DEF Last
  <2> HIDE DEF last, o, d
  <2>7. \A i \in 1 .. last : o[i - 1] <= o[i]
    <3> TAKE i \in 1 .. last
    <3>1. i - 1 \in 0 .. last /\ i \in 0 .. last /\ (i - 1) + 1 = i /\ i + 1 \in 2 .. Len(offsets) /\ (i + 1) - 1 = i
      BY <2>3
    <3>2. o[i - 1] = offsets[i] /\ o[i] = offsets[i + 1]
      BY <2>4, <3>1
    <3>3. offsets[(i + 1) - 1] <= offsets[i + 1]
      BY <2>2, <3>1
    <3> QED
      BY <3>1, <3>2, <3>3
  <2>8. \A i, j \in 0 .. last : i <= j => o[i] <= o[j]
    BY <2>3, <2>4, <2>7, AscendsThroughout
  <2>9. 1 \in DOMAIN got["fst"] => \A key \in DOMAIN mo.matcher.fst[1].of : mo.matcher.fst[1].of[key] \in Nat
    BY <1>1, <2>1
  <2>10. 1 \in DOMAIN got["fst"]
    <3>1. got["fst"] # <<>>
      BY <1>7, <2>1 DEF HasImpl
    <3> QED
      BY <2>2, <3>1 DEF IsSeq
  <2> QED
    BY <2>1, <2>3, <2>4, <2>5, <2>6, <2>8, <2>9, <2>10 DEF MatcherSound
<1> QED
  BY <1>1, <1>2, <1>3, <1>4, <1>5, <1>6, <1>7 DEF ModelSound, mo, got

-----------------------------------------------------------------------------
(* What the encoder leaves, for the dictionaries and the scorer. *)

\* An encoded text: rows of the embedding, and clusters that are not empty.
EncodingSound(mo, e) ==
    LET n == EgcCount(e)
        len == Len(e.cps)
    IN  /\ e.cps \in Seq(DOMAIN Utf8)
        /\ e.rows \in Seq(0 .. Len(mo.vocab) + 1) /\ Len(e.rows) = len
        /\ n \in Nat \ {0}
        /\ e.egc_starts \in [1 .. n + 1 -> 0 .. len]
        /\ \A i, j \in 1 .. n + 1 : i < j => e.egc_starts[i] < e.egc_starts[j]

\* Every code point has a row: its own, or UNK.
LEMMA RowIsThere ==
    ASSUME NEW codepoints \in Seq(Nat), NEW cp
    PROVE  RowOf(codepoints, cp) \in 0 .. Len(codepoints) + 1
<1>1. Len(codepoints) \in Nat /\ DOMAIN codepoints = 1 .. Len(codepoints)
  OBVIOUS
<1>2. 1 \in 0 .. Len(codepoints) + 1 /\ \A i \in 1 .. Len(codepoints) : i + 1 \in 0 .. Len(codepoints) + 1
  BY <1>1
<1>3. BmpRow(codepoints, cp) \in 0 .. Len(codepoints) + 1
  BY <1>1, <1>2 DEF BmpRow, UnkRow
<1>4. RowOfAstral(codepoints, cp) \in 0 .. Len(codepoints) + 1
  <2> DEFINE below == {i \in DOMAIN codepoints : codepoints[i] < cp}
             it == Cardinality(below) + 1
  <2>1. IsFiniteSet(1 .. Len(codepoints))
    BY <1>1, FS_Interval
  <2>2. IsFiniteSet(below)
    BY <1>1, <2>1, FS_Subset
  <2>3. Cardinality(below) \in Nat
    BY <2>2, FS_CardinalityType
  <2> HIDE DEF below
  <2>4. it \in Nat /\ it # 0
    BY <2>3
  <2>5. RowOfAstral(codepoints, cp) =
            IF it <= Len(codepoints) /\ codepoints[it] = cp THEN it + 1 ELSE UnkRow
    BY DEF RowOfAstral, below
  <2> HIDE DEF it
  <2>6. it <= Len(codepoints) => it \in 1 .. Len(codepoints)
    BY <1>1, <2>4
  <2> QED
    BY <1>2, <2>5, <2>6 DEF UnkRow
<1> QED
  BY <1>3, <1>4 DEF RowOf

\* The clusters of a text start one after the other, the first at the start.
LEMMA EncodingIsSound ==
    ASSUME NEW t \in Seq(DOMAIN Normal), t # <<>>, model.vocab \in Seq(Nat)
    PROVE  EncodingSound(model, Encoded(t))
<1> DEFINE C == ClusterSet(t)
           n == Cardinality(C)
           a == Ascending(C)
           e == EncodedPrefix(t)
           s == [i \in DOMAIN a |-> a[i] - 1]
           len == Len(t)
           cps == NormalText(t)
           rows == [k \in DOMAIN t |-> RowOf(model.vocab, Normal[t[k]])]
           starts == Append(s, len)
<1>1. len \in Nat /\ DOMAIN t = 1 .. len /\ len + 1 \in Nat
  OBVIOUS
<1>2. C \subseteq 1 .. len
  BY <1>1 DEF ClusterSet
<1>3. C \in SUBSET (0 .. (len + 1) - 1)
  BY <1>1, <1>2
<1>4. EgcCount(Encoded(t)) = n /\ n \in Nat \ {0}
  BY EncodedIs, OffsetsGrow
<1>5. e = [cps |-> cps, rows |-> rows, egc_starts |-> s,
           offsets |-> [i \in DOMAIN a |-> ClusterOffset(t, a[i])]]
  BY DEF EncodedPrefix, ClusterSet
<1>6. Encoded(t).cps = cps /\ Encoded(t).rows = rows /\ Encoded(t).egc_starts = starts
  <2>1. Encoded(t) = [e EXCEPT !.egc_starts = Append(@, Len(t)), !.offsets = Append(@, ByteLength(t))]
    BY DEF Encoded
  <2> HIDE DEF a, cps, rows, s
  <2> QED
    BY <1>5, <2>1
<1>7. cps \in Seq(DOMAIN Utf8) /\ Len(cps) = len
  <2>1. DOMAIN cps = 1 .. len
    BY <1>1 DEF NormalText
  <2>2. cps \in Seq(DOMAIN Utf8)
    BY NormalIsUtf8
  <2> QED
    BY <1>1, <2>1, <2>2
<1>8. rows \in Seq(0 .. Len(model.vocab) + 1) /\ Len(rows) = len
  <2> DEFINE R == 0 .. Len(model.vocab) + 1
  <2>1. \A k \in 1 .. len : RowOf(model.vocab, Normal[t[k]]) \in R
    BY RowIsThere
  <2> HIDE DEF R
  <2>2. rows \in Seq(R) /\ Len(rows) = len
    BY <1>1, <2>1
  <2> QED
    BY <2>2 DEF R
<1>9. /\ a \in Seq(C) /\ Len(a) = n /\ DOMAIN a = 1 .. n
      /\ \A i \in 1 .. n : a[i] \in C
      /\ \A i, j \in 1 .. n : i < j => a[i] < a[j]
  <2>1. a \in Seq(C) /\ Len(a) = n /\ \A i, j \in 1 .. Len(a) : i < j => a[i] < a[j]
    <3> HIDE DEF C
    <3> QED
      BY <1>1, <1>3, AscendingIs
  <2> HIDE DEF a, C
  <2>2. DOMAIN a = 1 .. n
    BY <2>1
  <2> QED
    BY <2>1, <2>2
<1> HIDE DEF a, C, n, cps, rows
<1>10. \A i \in 1 .. n : s[i] = a[i] - 1 /\ s[i] \in 0 .. len /\ s[i] < len
  <2> TAKE i \in 1 .. n
  <2>1. a[i] \in 1 .. len
    BY <1>2, <1>9
  <2>2. s[i] = a[i] - 1
    BY <1>9
  <2> QED
    BY <1>1, <2>1, <2>2
<1>11. DOMAIN s = 1 .. n
  BY <1>9
<1>12. s \in Seq(0 .. len) /\ Len(s) = n
  <2> DEFINE R == 0 .. len
  <2>1. \A i \in 1 .. n : s[i] \in R
    BY <1>10
  <2>2. s \in [1 .. n -> R]
    BY <1>11, <2>1
  <2> HIDE DEF R, s
  <2>3. s \in Seq(R) /\ Len(s) = n
    BY <1>4, <2>2, <1>11
  <2> QED
    BY <2>3 DEF R
<1> HIDE DEF s
<1>13. /\ starts \in [1 .. n + 1 -> 0 .. len]
       /\ \A i \in 1 .. n : starts[i] = s[i]
       /\ starts[n + 1] = len
  <2> DEFINE R == 0 .. len
  <2>1. len \in R /\ s \in Seq(R)
    BY <1>1, <1>12
  <2> HIDE DEF R
  <2>2. starts \in Seq(R) /\ Len(starts) = n + 1 /\ starts[n + 1] = len /\ \A i \in 1 .. n : starts[i] = s[i]
    BY <1>4, <1>12, <2>1
  <2> QED
    <3> HIDE DEF starts
    <3>1. starts \in [1 .. n + 1 -> R]
      BY <2>2
    <3> QED
      BY <2>2, <3>1 DEF R
<1> HIDE DEF starts
<1>14. ASSUME NEW i \in 1 .. n + 1, NEW j \in 1 .. n + 1, i < j PROVE starts[i] < starts[j]
  <2>0. \A k \in 1 .. n : starts[k] = a[k] - 1 /\ a[k] \in Int
    <3> TAKE k \in 1 .. n
    <3>1. a[k] \in 1 .. len
      BY <1>2, <1>9
    <3>2. starts[k] = s[k] /\ s[k] = a[k] - 1
      BY <1>10, <1>13
    <3> QED
      BY <3>1, <3>2
  <2>1. i \in 1 .. n /\ starts[i] = a[i] - 1 /\ a[i] \in Int
    <3>1. i \in 1 .. n
      BY <1>4, <1>14
    <3> QED
      BY <2>0, <3>1
  <2>2. CASE j = n + 1
    BY <1>10, <1>13, <2>1, <2>2
  <2>3. CASE j # n + 1
    <3>0. j \in 1 .. n
      BY <1>4, <2>3
    <3>1. starts[j] = a[j] - 1 /\ a[j] \in Int
      BY <2>0, <3>0
    <3>2. a[i] < a[j]
      BY <1>9, <1>14, <2>1, <3>0
    <3> QED
      BY <2>1, <3>1, <3>2
  <2> QED
    BY <2>2, <2>3
<1> QED
  BY <1>4, <1>6, <1>7, <1>8, <1>13, <1>14 DEF EncodingSound

-----------------------------------------------------------------------------
(* The features found, a range of them for each boundary. *)

Features(mo) == 0 .. FeatureCount(mo.matcher) - 1

\* features_into has a range of its features for every boundary.
FeaturesSound(mo, e, d) ==
    /\ d.indices \in Seq(Features(mo))
    /\ d.offsets \in [0 .. EgcCount(e) - 1 -> 0 .. Len(d.indices)]

\* The scratch has all its fields.
IsScratch(d) ==
    d = [offsets |-> d.offsets, indices |-> d.indices, text |-> d.text, egc_byte_starts |-> d.egc_byte_starts,
         egc_at_byte |-> d.egc_at_byte, masks |-> d.masks, mask_words |-> d.mask_words]

\* The bits of mask word w that stand for features.
BitsOf(mo, w) == {p \in 0 .. WordBits - 1 : w * WordBits + p < FeatureCount(mo.matcher)}

\* Boundaries have their mask words one after the other, with bits for features only.
MasksSound(mo, e, d) ==
    LET n == EgcCount(e)
        words == MaskWords(mo.matcher)
    IN  /\ d.mask_words = words
        /\ DOMAIN d.masks = 0 .. (n - 1) * words - 1
        /\ \A b \in 0 .. n - 2, w \in 0 .. words - 1 : d.masks[b * words + w] \subseteq BitsOf(mo, w)

\* Features and mask words are counted.
LEMMA FeatureCountIsNat ==
    ASSUME NEW mo, mo.matcher.num_dicts \in Nat
    PROVE  /\ FeaturesPerDict \in Nat \ {0} /\ FeaturesPerDict = 3 * Buckets
           /\ FeatureCount(mo.matcher) \in Nat /\ MaskWords(mo.matcher) \in Nat
<1> DEFINE f == FeatureCount(mo.matcher)
<1>1. FeaturesPerDict \in Nat \ {0} /\ FeaturesPerDict = 3 * Buckets /\ WordBits \in Nat \ {0}
  BY DictionaryAssumption DEF FeaturesPerDict
<1>2. f \in Nat
  <2>1. \A x, y \in Nat : x * y \in Nat
    OBVIOUS
  <2> QED
    BY <1>1, <2>1 DEF FeatureCount
<1> HIDE DEF f
<1>3. (f + WordBits - 1) \div WordBits \in Nat
  BY <1>1, <1>2
<1> QED
  BY <1>1, <1>2, <1>3 DEF MaskWords, f

\* Assigning two of its fields leaves the others.
LEMMA ScratchFields ==
    ASSUME NEW d, IsScratch(d), NEW o, NEW i
    PROVE  LET new == [d EXCEPT !.indices = i, !.offsets = o]
           IN  /\ new.offsets = o /\ new.indices = i /\ IsScratch(new)
<1> DEFINE new == [d EXCEPT !.indices = i, !.offsets = o]
<1>1. \E p, r, t, s, a, k, w : d = [offsets |-> p, indices |-> r, text |-> t, egc_byte_starts |-> s,
                              egc_at_byte |-> a, masks |-> k, mask_words |-> w]
  BY DEF IsScratch
<1>2. PICK p, r, t, s, a, k, w : d = [offsets |-> p, indices |-> r, text |-> t, egc_byte_starts |-> s,
                                egc_at_byte |-> a, masks |-> k, mask_words |-> w]
  BY <1>1
<1>3. new = [offsets |-> o, indices |-> i, text |-> t, egc_byte_starts |-> s,
             egc_at_byte |-> a, masks |-> k, mask_words |-> w]
  <2> DEFINE d1 == [d EXCEPT !.indices = i]
  <2>1. d1 = [offsets |-> p, indices |-> i, text |-> t, egc_byte_starts |-> s,
              egc_at_byte |-> a, masks |-> k, mask_words |-> w]
    BY <1>2
  <2>2. new = [d1 EXCEPT !.offsets = o]
    BY <1>2
  <2> HIDE DEF d1
  <2> QED
    BY <2>1, <2>2
<1> HIDE DEF new
<1>4. /\ new.offsets = o /\ new.indices = i /\ new.text = t /\ new.egc_byte_starts = s
      /\ new.egc_at_byte = a /\ new.masks = k /\ new.mask_words = w
  BY <1>3
<1>5. IsScratch(new)
  BY <1>3, <1>4 DEF IsScratch
<1> QED
  BY <1>4, <1>5 DEF new

\* What is flattened of the first sequences fits what is flattened of all.
LEMMA PrefixesFit ==
    ASSUME NEW X, NEW seqs \in Seq(Seq(X))
    PROVE  /\ FlattenSeq(seqs) \in Seq(X)
           /\ \A k \in 0 .. Len(seqs) : Len(FlattenSeq(SubSeq(seqs, 1, k))) \in 0 .. Len(FlattenSeq(seqs))
<1> DEFINE n == Len(seqs)
           o == [k \in 0 .. n |-> Len(FlattenSeq(SubSeq(seqs, 1, k)))]
<1>1. n \in Nat /\ \A k \in 1 .. n : seqs[k] \in Seq(X)
  OBVIOUS
<1>2. /\ FlattenSeq(SubSeq(seqs, 1, n)) = FlattenSeq(seqs)
      /\ \A k \in 0 .. n : FlattenSeq(SubSeq(seqs, 1, k)) \in Seq(X)
      /\ \A k \in 0 .. n - 1 : FlattenSeq(SubSeq(seqs, 1, k + 1)) = FlattenSeq(SubSeq(seqs, 1, k)) \o seqs[k + 1]
  BY FlattenPrefix
<1>3. o \in [0 .. n -> Nat]
  BY <1>2
<1>4. \A k \in 1 .. n : o[k - 1] <= o[k]
  <2> TAKE k \in 1 .. n
  <2> DEFINE s == FlattenSeq(SubSeq(seqs, 1, k - 1))
             t == seqs[k]
  <2>1. k - 1 \in 0 .. n - 1 /\ k - 1 \in 0 .. n /\ k \in 0 .. n /\ (k - 1) + 1 = k
    BY <1>1
  <2>2. s \in Seq(X) /\ t \in Seq(X) /\ FlattenSeq(SubSeq(seqs, 1, k)) = s \o t
    BY <1>1, <1>2, <2>1
  <2>3. o[k - 1] = Len(s) /\ o[k] = Len(s \o t)
    BY <2>1, <2>2
  <2> HIDE DEF s, t, o
  <2>4. Len(s \o t) = Len(s) + Len(t) /\ Len(s) \in Nat /\ Len(t) \in Nat
    BY <2>2
  <2> QED
    BY <2>3, <2>4
<1> HIDE DEF o
<1>5. \A i, j \in 0 .. n : i <= j => o[i] <= o[j]
  BY <1>1, <1>3, <1>4, AscendsThroughout
<1>6. n \in 0 .. n /\ o[n] = Len(FlattenSeq(seqs)) /\ FlattenSeq(seqs) \in Seq(X)
  BY <1>1, <1>2 DEF o
<1>7. \A k \in 0 .. n : o[k] \in 0 .. Len(FlattenSeq(seqs))
  <2> TAKE k \in 0 .. n
  <2>1. o[k] <= o[n] /\ o[k] \in Nat /\ o[n] \in Nat
    BY <1>1, <1>3, <1>5
  <2> QED
    BY <1>6, <2>1
<1> QED
  BY <1>6, <1>7 DEF o

\* An early return leaves an empty range for every boundary.
LEMMA EmptyRangesAreSound ==
    ASSUME NEW mo, NEW e, NEW d, IsScratch(d), EgcCount(e) \in Nat, EgcCount(e) >= 2
    PROVE  FeaturesSound(mo, e, EmptyRanges(d, e)) /\ IsScratch(EmptyRanges(d, e))
<1> DEFINE n == EgcCount(e)
           o == [b \in 0 .. n - 1 |-> 0]
           F == Features(mo)
<1>1. Max({n - 1, 0}) = n - 1
  BY OfTwo
<1>2. EmptyRanges(d, e) = [d EXCEPT !.indices = <<>>, !.offsets = o]
  <2>1. EmptyRanges(d, e) = [d EXCEPT !.offsets = o, !.indices = <<>>]
    BY <1>1 DEF EmptyRanges
  <2> HIDE DEF o
  <2> QED
    BY <2>1 DEF IsScratch
<1>3. o \in [0 .. n - 1 -> 0 .. Len(<<>>)]
  <2>1. 0 \in 0 .. Len(<<>>)
    OBVIOUS
  <2> QED
    BY <2>1
<1>4. <<>> \in Seq(F)
  OBVIOUS
<1> HIDE DEF o, F
<1>5. EmptyRanges(d, e).offsets = o /\ EmptyRanges(d, e).indices = <<>> /\ IsScratch(EmptyRanges(d, e))
  <2>1. LET new == [d EXCEPT !.indices = <<>>, !.offsets = o]
        IN  new.offsets = o /\ new.indices = <<>> /\ IsScratch(new)
    BY ScratchFields
  <2> QED
    BY <1>2, <2>1, Zenon
<1> QED
  BY <1>3, <1>4, <1>5 DEF FeaturesSound, F

\* The masks as ranges: the features of a boundary are those that have a bit set.
LEMMA EmittedIsSound ==
    ASSUME NEW mo, NEW e, NEW d, IsScratch(d), mo.matcher.num_dicts \in Nat,
           EgcCount(e) \in Nat, EgcCount(e) >= 2, MasksSound(mo, e, d)
    PROVE  FeaturesSound(mo, e, Emitted(d, e)) /\ IsScratch(Emitted(d, e))
<1> DEFINE n == EgcCount(e)
           F == Features(mo)
           f == FeatureCount(mo.matcher)
           words == d.mask_words
           masks == d.masks
           bits(b, w) == Ascending(masks[b * words + w - 1])
           word(b, w) == [k \in DOMAIN bits(b, w) |-> (w - 1) * WordBits + bits(b, w)[k]]
           line(b) == [w \in 1 .. words |-> word(b, w)]
           row(b) == FlattenSeq(line(b))
           rows == [b \in 1 .. n - 1 |-> row(b - 1)]
           o == [b \in 0 .. n - 1 |-> Len(FlattenSeq(SubSeq(rows, 1, b)))]
           i == FlattenSeq(rows)
<1>1. n \in Nat /\ n >= 2 /\ words \in Nat /\ f \in Nat /\ WordBits \in Nat \ {0}
  BY FeatureCountIsNat, DictionaryAssumption DEF MasksSound
<1>2. \A b \in 0 .. n - 2, w \in 0 .. words - 1 : masks[b * words + w] \subseteq BitsOf(mo, w)
  BY DEF MasksSound
<1>3. ASSUME NEW b \in 0 .. n - 2, NEW w \in 1 .. words PROVE word(b, w) \in Seq(F)
  <2> DEFINE S == masks[b * words + (w - 1)]
             a == Ascending(S)
  <2>1. w - 1 \in 0 .. words - 1 /\ w - 1 \in Nat
    BY <1>1
  <2>2. S \subseteq BitsOf(mo, w - 1)
    BY <1>2, <2>1
  <2>3. bits(b, w) = a
    OBVIOUS
  <2> HIDE DEF S
  <2>4. S \in SUBSET (0 .. WordBits - 1)
    BY <2>2 DEF BitsOf
  <2>5. a \in Seq(S)
    BY <1>1, <2>4, AscendingIs
  <2> DEFINE v == [k \in DOMAIN a |-> (w - 1) * WordBits + a[k]]
  <2>6. word(b, w) = v
    BY <2>3
  <2>7. \A p \in S : (w - 1) * WordBits + p \in F
    <3> TAKE p \in S
    <3>1. p \in 0 .. WordBits - 1 /\ (w - 1) * WordBits + p < f
      BY <2>2 DEF BitsOf
    <3>2. \A x \in Nat : x * WordBits \in Nat
      BY <1>1
    <3>3. (w - 1) * WordBits \in Nat
      BY <2>1, <3>2
    <3> QED
      BY <1>1, <3>1, <3>3 DEF Features
  <2> HIDE DEF a, F
  <2>8. v \in Seq(F)
    <3>1. DOMAIN a = 1 .. Len(a) /\ Len(a) \in Nat /\ \A k \in 1 .. Len(a) : a[k] \in S
      BY <2>5
    <3>2. \A k \in 1 .. Len(a) : v[k] \in F
      BY <2>7, <3>1
    <3> QED
      BY <3>1, <3>2
  <2> QED
    BY <2>6, <2>8
<1> HIDE DEF word, F
<1>4. ASSUME NEW b \in 0 .. n - 2 PROVE row(b) \in Seq(F)
  <2> DEFINE X == Seq(F)
  <2>1. \A w \in 1 .. words : word(b, w) \in X
    BY <1>3, <1>4
  <2> HIDE DEF X
  <2>2. line(b) \in Seq(X)
    BY <1>1, <2>1
  <2> HIDE DEF line
  <2> QED
    BY <2>2, FlattenType DEF X
<1> HIDE DEF row
<1>5. rows \in Seq(Seq(F)) /\ Len(rows) = n - 1
  <2> DEFINE X == Seq(F)
  <2>1. \A b \in 1 .. n - 1 : row(b - 1) \in X
    <3> TAKE b \in 1 .. n - 1
    <3>1. b - 1 \in 0 .. n - 2
      BY <1>1
    <3> QED
      BY <1>4, <3>1
  <2>2. n - 1 \in Nat
    BY <1>1
  <2> HIDE DEF X
  <2>3. rows \in Seq(X) /\ Len(rows) = n - 1
    BY <2>1, <2>2
  <2> QED
    BY <2>3 DEF X
<1>6. Cardinality(BoundariesOf(e)) = n - 1
  <2>1. 0 \in Int /\ n - 2 \in Int /\ ~ (0 > n - 2) /\ ((n - 2) - 0) + 1 = n - 1
    BY <1>1
  <2>2. Cardinality(0 .. n - 2) = n - 1
    BY <2>1, FS_Interval
  <2> QED
    BY <2>2 DEF BoundariesOf
<1>7. Emitted(d, e) = [d EXCEPT !.indices = i, !.offsets = o]
  <2>1. \A b : row(b) = FlattenSeq([w \in 1 .. words |->
                      LET bs == Ascending(masks[b * words + w - 1])
                      IN  [k \in DOMAIN bs |-> (w - 1) * WordBits + bs[k]]])
    BY DEF row, word
  <2> DEFINE r == [b \in 1 .. Cardinality(BoundariesOf(e)) |-> FlattenSeq([w \in 1 .. words |->
                      LET bs == Ascending(masks[(b - 1) * words + w - 1])
                      IN  [k \in DOMAIN bs |-> (w - 1) * WordBits + bs[k]]])]
  <2>2. r = rows
    BY <1>6, <2>1
  <2>3. Emitted(d, e) = [d EXCEPT !.indices = FlattenSeq(r),
                                  !.offsets = [b \in 0 .. Len(r) |-> Len(FlattenSeq(SubSeq(r, 1, b)))]]
    BY DEF Emitted
  <2> HIDE DEF r, rows
  <2> QED
    BY <1>5, <2>2, <2>3
<1> HIDE DEF rows
<1>8. i \in Seq(F) /\ \A k \in 0 .. n - 1 : Len(FlattenSeq(SubSeq(rows, 1, k))) \in 0 .. Len(i)
  BY <1>5, PrefixesFit
<1>9. o \in [0 .. n - 1 -> 0 .. Len(i)]
  <2> DEFINE R == 0 .. Len(i)
  <2>1. \A k \in 0 .. n - 1 : Len(FlattenSeq(SubSeq(rows, 1, k))) \in R
    BY <1>8
  <2> HIDE DEF R
  <2>2. o \in [0 .. n - 1 -> R]
    BY <2>1
  <2> QED
    BY <2>2 DEF R
<1> HIDE DEF o, i
<1>10. Emitted(d, e).offsets = o /\ Emitted(d, e).indices = i /\ IsScratch(Emitted(d, e))
  <2>1. LET new == [d EXCEPT !.indices = i, !.offsets = o]
        IN  new.offsets = o /\ new.indices = i /\ IsScratch(new)
    BY ScratchFields
  <2> QED
    BY <1>7, <2>1, Zenon
<1> QED
  BY <1>8, <1>9, <1>10 DEF FeaturesSound, F

-----------------------------------------------------------------------------
(* The search of the dictionaries. *)

\* Where a row of a table lies.
LEMMA Products ==
    ASSUME NEW i \in Nat, NEW j \in Nat, NEW k \in Nat
    PROVE  /\ i * k \in Nat /\ (i + 1) * k = i * k + k
           /\ i <= j => i * k <= j * k
<1>1. i * k \in Nat /\ (i + 1) * k = i * k + k
  OBVIOUS
<1>2. ASSUME i <= j PROVE i * k <= j * k
  <2>1. PICK d \in Nat : d = j - i
    BY <1>2
  <2>2. j = i + d
    BY <2>1
  <2>3. (i + d) * k = i * k + d * k /\ d * k \in Nat
    OBVIOUS
  <2> QED
    BY <1>1, <2>2, <2>3
<1> QED
  BY <1>1, <1>2

\* Element i of row b lies in the table; no other element lies there.
LEMMA RowElement ==
    ASSUME NEW rows \in Nat, NEW width \in Nat, NEW b \in 0 .. rows - 1, NEW i \in 0 .. width - 1
    PROVE  b * width + i \in 0 .. rows * width - 1
<1>1. \A c \in 0 .. rows - 1 :
          c * width \in Nat /\ (c + 1) * width = c * width + width /\ (c + 1) * width <= rows * width
  <2> TAKE c \in 0 .. rows - 1
  <2>1. c \in Nat /\ c + 1 \in Nat /\ c + 1 <= rows
    OBVIOUS
  <2> QED
    BY <2>1, Products
<1>2. rows * width \in Nat
  BY Products
<1>3. b * width + i \in 0 .. rows * width - 1
  <2>1. b * width \in Nat /\ b * width + width <= rows * width
    BY <1>1
  <2> DEFINE x == b * width
             y == rows * width
  <2>2. x \in Nat /\ x + width <= y /\ y \in Nat
    BY <1>2, <2>1
  <2> HIDE DEF x, y
  <2>3. x + i \in 0 .. y - 1
    BY <2>2
  <2> QED
    BY <2>3 DEF x, y
<1> QED
  BY <1>3

\* An element lies in one row only.
LEMMA RowOfElement ==
    ASSUME NEW rows \in Nat, NEW width \in Nat, NEW b \in 0 .. rows - 1, NEW i \in 0 .. width - 1,
           NEW c \in 0 .. rows - 1, NEW j \in 0 .. width - 1, b * width + i = c * width + j
    PROVE  b = c /\ i = j
<1>1. \A g \in 0 .. rows - 1 : g * width \in Nat /\ (g + 1) * width = g * width + width
  <2> TAKE g \in 0 .. rows - 1
  <2>1. g \in Nat
    OBVIOUS
  <2> QED
    BY <2>1, Products
<1>2. \A g, a \in 0 .. rows - 1, k, l \in 0 .. width - 1 : g < a => g * width + k < a * width + l
  <2> TAKE g, a \in 0 .. rows - 1, k, l \in 0 .. width - 1
  <2>1. g < a => (g + 1) * width <= a * width
    <3>1. g + 1 \in Nat /\ a \in Nat /\ (g < a => g + 1 <= a)
      OBVIOUS
    <3> QED
      BY <3>1, Products
  <2>2. (g + 1) * width = g * width + width /\ g * width \in Nat /\ a * width \in Nat
    BY <1>1
  <2> DEFINE x == g * width
             y == a * width
  <2>3. x \in Nat /\ y \in Nat /\ (g < a => x + width <= y)
    BY <2>1, <2>2
  <2> HIDE DEF x, y
  <2>4. g < a => x + k < y + l
    BY <2>3
  <2> QED
    BY <2>4 DEF x, y
<1>3. c * width + j \in Int /\ b * width + i \in Int /\ b * width \in Nat
  BY <1>1
<1>4. ~ (b < c) /\ ~ (c < b)
  BY <1>2, <1>3
<1>5. b = c
  BY <1>4
<1> QED
  BY <1>3, <1>5

\* A model with words to search for.
HasDictionary(mo) == mo.matcher.num_dicts # 0 /\ HasImpl(mo.matcher)

\* The text as bytes: clusters start further on one after the other, and where a
\* byte starts one it says which.
SearchSound(mo, e, d) ==
    LET n == EgcCount(e)
        len == Len(d.text)
    IN  /\ d.text \in Seq(Nat)
        /\ d.egc_byte_starts \in [0 .. n -> 0 .. len]
        /\ \A i, j \in 0 .. n : i < j => d.egc_byte_starts[i] < d.egc_byte_starts[j]
        /\ \A p \in 0 .. len :
              EndsCluster(d, p) => d.egc_at_byte[p] \in 0 .. n /\ d.egc_byte_starts[d.egc_at_byte[p]] = p
        /\ MasksSound(mo, e, d)

\* The sentence as bytes: where clusters start, both ways, and empty masks.
LEMMA ReencodedIsSound ==
    ASSUME NEW mo, NEW e, NEW d, EncodingSound(mo, e), mo.matcher.num_dicts \in Nat
    PROVE  IsScratch(Reencoded(d, mo.matcher, e)) /\ SearchSound(mo, e, Reencoded(d, mo.matcher, e))
<1> DEFINE n == EgcCount(e)
           cps == e.cps
           at == e.egc_starts
           words == MaskWords(mo.matcher)
           bytes == Bytes(cps)
           starts == [i \in 0 .. n |-> Len(Bytes(SubSeq(cps, 1, at[i + 1])))]
           egc == [p \in 0 .. Len(bytes) |->
                      IF \E i \in 0 .. n : starts[i] = p THEN CHOOSE i \in 0 .. n : starts[i] = p ELSE NoEgc]
           masks == [w \in 0 .. (n - 1) * words - 1 |-> {}]
           new == Reencoded(d, mo.matcher, e)
           before(k) == BytesBeforeCp(cps, k)
<1>1. new = [offsets |-> <<0>>, indices |-> <<>>, text |-> bytes, egc_byte_starts |-> starts,
             egc_at_byte |-> egc, mask_words |-> words, masks |-> masks]
  BY DEF Reencoded
<1>2. /\ cps \in Seq(DOMAIN Utf8) /\ n \in Nat \ {0} /\ Len(cps) \in Nat
      /\ at \in [1 .. n + 1 -> 0 .. Len(cps)]
      /\ \A i, j \in 1 .. n + 1 : i < j => at[i] < at[j]
  BY DEF EncodingSound
<1>3. /\ Len(bytes) = before(Len(cps) + 1)
      /\ \A k \in 1 .. Len(cps) + 1 : before(k) \in Nat
      /\ \A j, k \in 1 .. Len(cps) + 1 : j < k => before(j) < before(k)
  <2>1. ByteLength(cps) = Len(bytes)
    BY DEF ByteLength, Bytes
  <2>2. /\ ByteLength(cps) = before(Len(cps) + 1)
        /\ \A k \in 1 .. Len(cps) + 1 : before(k) \in Nat
        /\ \A j, k \in 1 .. Len(cps) + 1 : j < k => before(j) < before(k)
    BY <1>2, ByteLengthGrows
  <2> QED
    BY <2>1, <2>2
<1>4. bytes \in Seq(Nat)
  <2> DEFINE X == Seq(Nat)
             u == [i \in DOMAIN cps |-> Utf8[cps[i]]]
  <2>1. \A i \in 1 .. Len(cps) : Utf8[cps[i]] \in X
    BY <1>2, DictionaryAssumption
  <2>2. DOMAIN cps = 1 .. Len(cps)
    BY <1>2
  <2> HIDE DEF X
  <2>3. u \in Seq(X)
    BY <1>2, <2>1, <2>2
  <2> HIDE DEF u
  <2>4. FlattenSeq(u) \in Seq(Nat)
    BY <2>3, FlattenType DEF X
  <2> QED
    BY <2>4 DEF Bytes, u
<1>5. Len(bytes) \in Nat
  BY <1>4
<1> HIDE DEF bytes
<1>6. \A i \in 0 .. n : starts[i] = before(at[i + 1] + 1) /\ at[i + 1] + 1 \in 1 .. Len(cps) + 1
  <2> TAKE i \in 0 .. n
  <2>1. i + 1 \in 1 .. n + 1
    BY <1>2
  <2>2. at[i + 1] \in 0 .. Len(cps)
    BY <1>2, <2>1
  <2>3. (at[i + 1] + 1) - 1 = at[i + 1] /\ at[i + 1] + 1 \in 1 .. Len(cps) + 1
    BY <1>2, <2>2
  <2>4. before(at[i + 1] + 1) = Len(Bytes(SubSeq(cps, 1, at[i + 1])))
    BY <2>3 DEF BytesBeforeCp, ByteLength, Bytes
  <2> QED
    BY <2>3, <2>4
<1> HIDE DEF before
<1>7. \A i \in 0 .. n : starts[i] \in 0 .. Len(bytes)
  <2> TAKE i \in 0 .. n
  <2> DEFINE k == at[i + 1] + 1
  <2>1. starts[i] = before(k) /\ k \in 1 .. Len(cps) + 1
    BY <1>6
  <2> HIDE DEF k, starts
  <2>2. Len(cps) + 1 \in 1 .. Len(cps) + 1 /\ (k < Len(cps) + 1 \/ k = Len(cps) + 1)
    BY <1>2, <2>1
  <2>3. before(k) \in Nat /\ before(Len(cps) + 1) \in Nat /\ before(k) <= before(Len(cps) + 1)
    BY <1>3, <2>1, <2>2
  <2> QED
    BY <1>3, <2>1, <2>3
<1>8. starts \in [0 .. n -> 0 .. Len(bytes)]
  <2> DEFINE R == 0 .. Len(bytes)
  <2>1. \A i \in 0 .. n : Len(Bytes(SubSeq(cps, 1, at[i + 1]))) \in R
    BY <1>7
  <2> HIDE DEF R
  <2>2. starts \in [0 .. n -> R]
    BY <2>1
  <2> QED
    BY <2>2 DEF R
<1>9. \A i, j \in 0 .. n : i < j => starts[i] < starts[j]
  <2> SUFFICES ASSUME NEW i \in 0 .. n, NEW j \in 0 .. n, i < j PROVE starts[i] < starts[j]
    OBVIOUS
  <2>1. i + 1 \in 1 .. n + 1 /\ j + 1 \in 1 .. n + 1 /\ i + 1 < j + 1
    BY <1>2
  <2>2. at[i + 1] < at[j + 1] /\ at[i + 1] \in Int /\ at[j + 1] \in Int
    <3>1. \A k \in 1 .. n + 1 : at[k] \in 0 .. Len(cps)
      BY <1>2
    <3>2. at[i + 1] \in 0 .. Len(cps) /\ at[j + 1] \in 0 .. Len(cps)
      BY <2>1, <3>1
    <3> QED
      BY <1>2, <2>1, <3>2
  <2> DEFINE k == at[i + 1] + 1
             l == at[j + 1] + 1
  <2>3. k < l /\ starts[i] = before(k) /\ starts[j] = before(l) /\ k \in 1 .. Len(cps) + 1 /\ l \in 1 .. Len(cps) + 1
    BY <1>6, <2>2
  <2> HIDE DEF k, l, starts
  <2> QED
    BY <1>3, <2>3
<1> HIDE DEF starts
<1>10. \A p \in 0 .. Len(bytes) : egc[p] # NoEgc => egc[p] \in 0 .. n /\ starts[egc[p]] = p
  <2> TAKE p \in 0 .. Len(bytes)
  <2>1. egc[p] = IF \E i \in 0 .. n : starts[i] = p THEN CHOOSE i \in 0 .. n : starts[i] = p ELSE NoEgc
    OBVIOUS
  <2> HIDE DEF egc
  <2>2. CASE \E i \in 0 .. n : starts[i] = p
    BY <2>1, <2>2
  <2>3. CASE ~ \E i \in 0 .. n : starts[i] = p
    BY <2>1, <2>3
  <2> QED
    BY <2>2, <2>3
<1> HIDE DEF egc
<1>11. words \in Nat
  BY FeatureCountIsNat
<1> HIDE DEF words
<1>12. \A b \in 0 .. n - 2, w \in 0 .. words - 1 : masks[b * words + w] = {}
  <2> TAKE b \in 0 .. n - 2, w \in 0 .. words - 1
  <2>1. n - 1 \in Nat /\ b \in 0 .. (n - 1) - 1
    BY <1>2
  <2>2. b * words + w \in 0 .. (n - 1) * words - 1
    BY <1>11, <2>1, RowElement
  <2> QED
    BY <2>2
<1>13. DOMAIN masks = 0 .. (n - 1) * words - 1
  OBVIOUS
<1> HIDE DEF masks, new
<1>14. /\ new.text = bytes /\ new.egc_byte_starts = starts /\ new.egc_at_byte = egc
       /\ new.mask_words = words /\ new.masks = masks /\ new.offsets = <<0>> /\ new.indices = <<>>
  BY <1>1
<1>15. IsScratch(new)
  BY <1>1, <1>14 DEF IsScratch
<1>16. MasksSound(mo, e, new)
  BY <1>12, <1>13, <1>14 DEF MasksSound, words
<1>17. SearchSound(mo, e, new)
  BY <1>4, <1>8, <1>9, <1>10, <1>14, <1>16 DEF SearchSound, EndsCluster
<1> QED
  BY <1>15, <1>17 DEF new

-----------------------------------------------------------------------------
(* The matches from a cluster, and what they mark. *)

\* A match from cluster s: it ends after it begins, with a set id that exists.
HitSound(mo, e, s, hit) ==
    /\ hit.start = s /\ hit.past \in s + 1 .. EgcCount(e)
    /\ hit.id \in Nat /\ hit.id + 1 \in DOMAIN mo.matcher.offsets

\* The matches handed to the marking: longer than nothing, with a set id that exists.
LEMMA HitsAreSound ==
    ASSUME NEW mo, NEW e, NEW d, NEW s \in 0 .. EgcCount(e) - 1,
           EgcCount(e) \in Nat, MatcherSound(mo.matcher), SearchSound(mo, e, d),
           NEW k \in DOMAIN Hits(d, mo.matcher, s)
    PROVE  HitSound(mo, e, s, Hits(d, mo.matcher, s)[k])
<1> DEFINE n == EgcCount(e)
           of == mo.matcher.fst[1].of
           len == Len(d.text)
           starts == d.egc_byte_starts
           egc == d.egc_at_byte
           start == starts[s]
           suffix == SubSeq(d.text, start + 1, len)
           key(x) == SubSeq(suffix, 1, x)
           id(x) == of[key(x)]
           offsets == mo.matcher.offsets
           keep(x) == EndsCluster(d, start + x) /\ IdInRange(mo.matcher, id(x))
           found == {x \in 1 .. Len(suffix) : key(x) \in DOMAIN of}
           S == {x \in found : keep(x)}
           kept == Ascending(S)
<1>1. n \in Nat /\ s \in 0 .. n /\ s < n
  OBVIOUS
<1>2. /\ d.text \in Seq(Nat) /\ len \in Nat
      /\ starts \in [0 .. n -> 0 .. len]
      /\ \A i, j \in 0 .. n : i < j => starts[i] < starts[j]
      /\ \A p \in 0 .. len : EndsCluster(d, p) => egc[p] \in 0 .. n /\ starts[egc[p]] = p
  BY DEF SearchSound
<1>3. start \in 0 .. len
  BY <1>1, <1>2
<1> HIDE DEF start
<1>4. Len(suffix) = len - start /\ len - start \in Nat
  BY <1>2, <1>3
<1>5. Hits(d, mo.matcher, s) = [j \in DOMAIN kept |-> [start |-> s, past |-> egc[start + kept[j]], id |-> id(kept[j])]]
  BY DEF Hits, KeyPrefixes, start
<1> HIDE DEF suffix, key, keep
<1>6. S \subseteq 1 .. len - start /\ \A x \in S : key(x) \in DOMAIN of /\ keep(x)
  BY <1>4
<1>7. /\ k \in DOMAIN kept
      /\ Hits(d, mo.matcher, s)[k] = [start |-> s, past |-> egc[start + kept[k]], id |-> id(kept[k])]
  <2> HIDE DEF kept, id
  <2> QED
    BY <1>5
<1>8. kept[k] \in S
  <2>1. S \in SUBSET (0 .. ((len - start) + 1) - 1) /\ (len - start) + 1 \in Nat
    BY <1>4, <1>6
  <2> HIDE DEF S
  <2>2. kept \in Seq(S)
    BY <2>1, AscendingIs
  <2> HIDE DEF kept
  <2> QED
    BY <1>7, <2>2
<1> DEFINE x == kept[k]
<1> HIDE DEF kept, S
<1>9. x \in 1 .. len - start /\ key(x) \in DOMAIN of /\ keep(x)
  BY <1>6, <1>8
<1> HIDE DEF x
<1>10. EndsCluster(d, start + x) /\ IdInRange(mo.matcher, id(x))
  BY <1>9 DEF keep
<1>11. start + x \in 0 .. len /\ start < start + x
  BY <1>2, <1>3, <1>9
<1>12. egc[start + x] \in 0 .. n /\ starts[egc[start + x]] = start + x
  BY <1>2, <1>10, <1>11
<1> DEFINE past == egc[start + x]
<1> HIDE DEF past
<1>13. past \in s + 1 .. n
  <2>1. past \in 0 .. n /\ starts[past] = start + x /\ start = starts[s] /\ past \in Int /\ s \in Int
    BY <1>1, <1>12 DEF past, start
  <2>2. past # s
    BY <1>3, <1>9, <2>1
  <2>3. ~ (past < s)
    <3>1. SUFFICES ASSUME past < s PROVE FALSE
      OBVIOUS
    <3>2. starts[past] < starts[s]
      BY <1>1, <1>2, <2>1, <3>1
    <3> QED
      BY <1>3, <1>11, <2>1, <3>2
  <2> QED
    BY <1>1, <2>1, <2>2, <2>3
<1>14. id(x) \in Nat
  BY <1>9 DEF MatcherSound
<1>15. id(x) + 1 \in DOMAIN offsets
  <2>1. PICK last \in Nat : offsets \in [0 .. last -> Nat]
    BY DEF MatcherSound
  <2>2. DOMAIN offsets = 0 .. last
    BY <2>1
  <2>3. Cardinality(0 .. last) = last + 1
    <3>1. 0 \in Int /\ last \in Int /\ ~ (0 > last) /\ (last - 0) + 1 = last + 1
      OBVIOUS
    <3> QED
      BY <3>1, FS_Interval
  <2>4. Size(offsets) = last + 1
    BY <2>2, <2>3 DEF Size
  <2>5. id(x) + 1 < last + 1
    BY <1>10, <2>4 DEF IdInRange
  <2> HIDE DEF id, offsets
  <2> QED
    BY <1>14, <2>2, <2>5
<1>16. Hits(d, mo.matcher, s)[k] = [start |-> s, past |-> past, id |-> id(x)]
  BY <1>7 DEF x, past
<1> HIDE DEF id
<1> QED
  BY <1>13, <1>14, <1>15, <1>16 DEF HitSound

\* Channels are dictionaries.
LEMMA ChannelsAreDictionaries ==
    ASSUME NEW matcher, MatcherSound(matcher), NEW id \in Nat, id + 1 \in DOMAIN matcher.offsets
    PROVE  ChannelsOf(matcher, id) \subseteq 0 .. matcher.num_dicts - 1
<1> DEFINE o == matcher.offsets
           c == matcher.dicts
           N == 0 .. matcher.num_dicts - 1
<1>1. PICK last \in Nat :
          /\ o \in [0 .. last -> Nat]
          /\ \A i, j \in 0 .. last : i <= j => o[i] <= o[j]
          /\ c \in [0 .. o[last] - 1 -> 0 .. matcher.num_dicts - 1]
  BY DEF MatcherSound
<1>2. c \in [0 .. o[last] - 1 -> N]
  BY <1>1
<1> HIDE DEF N
<1>3. ChannelsOf(matcher, id) = {c[k] : k \in o[id] .. o[id + 1] - 1}
  BY DEF ChannelsOf
<1> HIDE DEF o, c
<1>4. id + 1 \in 0 .. last /\ id \in 0 .. last /\ last \in 0 .. last
  <2>1. id + 1 \in DOMAIN o
    BY DEF o
  <2>2. id + 1 \in 0 .. last
    BY <1>1, <2>1
  <2> QED
    BY <2>2
<1>5. o[id] \in Nat /\ o[id + 1] \in Nat /\ o[last] \in Nat /\ o[id + 1] <= o[last]
  BY <1>1, <1>4
<1>6. \A k \in o[id] .. o[id + 1] - 1 : k \in 0 .. o[last] - 1
  BY <1>5
<1>7. \A k \in o[id] .. o[id + 1] - 1 : c[k] \in N
  BY <1>2, <1>6
<1> QED
  BY <1>3, <1>7 DEF N

\* A match marks boundaries and features that there are.
LEMMA MarksAreInBounds ==
    ASSUME NEW mo, NEW e, NEW s \in 0 .. EgcCount(e) - 1, NEW hit,
           EgcCount(e) \in Nat, mo.matcher.num_dicts \in Nat,
           MatcherSound(mo.matcher), HitSound(mo, e, s, hit)
    PROVE  \A mark \in MarksOf(mo.matcher, hit, EgcCount(e) - 1) :
              mark[1] \in 0 .. EgcCount(e) - 2 /\ mark[2] \in Features(mo)
<1> DEFINE n == EgcCount(e)
           dicts == mo.matcher.num_dicts
           end == hit.past - 1
           F == Features(mo)
           B == 0 .. n - 2
           bucket == Min({hit.past - hit.start, Buckets}) - 1
           feature(c, position) == c * FeaturesPerDict + position * Buckets + bucket
           C == ChannelsOf(mo.matcher, hit.id)
<1>1. n \in Nat /\ hit.start = s /\ s \in Nat /\ s < n /\ hit.past \in s + 1 .. n /\ hit.past \in Nat
      /\ Buckets \in Nat \ {0} /\ dicts \in Nat
  BY DictionaryAssumption DEF HitSound
<1>2. C \subseteq 0 .. dicts - 1
  BY ChannelsAreDictionaries DEF HitSound
<1>3. bucket \in 0 .. Buckets - 1
  <2>1. hit.past - hit.start \in Nat \ {0}
    BY <1>1
  <2> DEFINE l == hit.past - hit.start
  <2>2. Min({l, Buckets}) = IF l <= Buckets THEN l ELSE Buckets
    <3>1. l \in Int /\ Buckets \in Int
      BY <1>1, <2>1
    <3> HIDE DEF l
    <3> QED
      BY <3>1, OfTwo
  <2> HIDE DEF l
  <2> QED
    BY <1>1, <2>1, <2>2 DEF l
<1> HIDE DEF bucket
<1>4. \A c \in C, position \in {Left, Inside, Right} : feature(c, position) \in F
  <2> SUFFICES ASSUME NEW c \in C, NEW position \in {Left, Inside, Right} PROVE feature(c, position) \in F
    OBVIOUS
  <2>1. c \in 0 .. dicts - 1
    BY <1>2
  <2>2. FeaturesPerDict = 3 * Buckets /\ FeaturesPerDict \in Nat
    BY FeatureCountIsNat
  <2>3. position * Buckets + bucket \in 0 .. FeaturesPerDict - 1
    <3>1. position = 0 \/ position = 1 \/ position = 2
      BY DEF Left, Inside, Right
    <3>2. position * Buckets = IF position = 0 THEN 0 ELSE IF position = 1 THEN Buckets ELSE 2 * Buckets
      BY <1>1, <3>1
    <3> QED
      BY <1>1, <1>3, <2>2, <3>1, <3>2
  <2>4. c * FeaturesPerDict + (position * Buckets + bucket) \in 0 .. dicts * FeaturesPerDict - 1
    BY <1>1, <2>1, <2>2, <2>3, RowElement
  <2>5. c * FeaturesPerDict \in Nat /\ position * Buckets \in Nat
    <3>1. c \in Nat /\ position \in Nat
      BY <2>1 DEF Left, Inside, Right
    <3> QED
      BY <1>1, <2>2, <3>1, Products
  <2>6. feature(c, position) = c * FeaturesPerDict + (position * Buckets + bucket)
    BY <1>3, <2>5
  <2> QED
    BY <2>4, <2>6 DEF Features, FeatureCount
<1> HIDE DEF feature, F
<1> DEFINE left(c) == IF hit.start >= 1 THEN {<<LeftOf(hit.start), feature(c, Left)>>} ELSE {}
           inside(c) == {<<b, feature(c, Inside)>> : b \in hit.start .. end - 1}
           right(c) == IF end < n - 1 THEN {<<end, feature(c, Right)>>} ELSE {}
<1>5. MarksOf(mo.matcher, hit, n - 1) = UNION {left(c) \cup inside(c) \cup right(c) : c \in C}
  BY DEF MarksOf, feature, bucket
<1>6. ASSUME NEW c \in C PROVE \A mark \in left(c) \cup inside(c) \cup right(c) : mark[1] \in B /\ mark[2] \in F
  <2>1. \A position \in {Left, Inside, Right} : feature(c, position) \in F
    BY <1>4
  <2>2. \A mark \in left(c) : mark[1] \in B /\ mark[2] \in F
    <3>1. hit.start >= 1 => LeftOf(hit.start) \in B
      BY <1>1 DEF LeftOf
    <3> QED
      BY <2>1, <3>1
  <2>3. \A mark \in inside(c) : mark[1] \in B /\ mark[2] \in F
    <3>1. \A b \in hit.start .. end - 1 : b \in B
      BY <1>1
    <3> QED
      BY <2>1, <3>1
  <2>4. \A mark \in right(c) : mark[1] \in B /\ mark[2] \in F
    <3>1. end < n - 1 => end \in B
      BY <1>1
    <3> QED
      BY <2>1, <3>1
  <2> HIDE DEF left, inside, right
  <2> QED
    BY <2>2, <2>3, <2>4
<1> HIDE DEF left, inside, right, B, C
<1>7. \A mark \in MarksOf(mo.matcher, hit, n - 1) : mark[1] \in B /\ mark[2] \in F
  BY <1>5, <1>6
<1> QED
  BY <1>7 DEF B, F

\* A feature's mask word and bit.
LEMMA BitOfFeature ==
    ASSUME NEW mo, mo.matcher.num_dicts \in Nat, NEW f \in Features(mo)
    PROVE  /\ f \div WordBits \in 0 .. MaskWords(mo.matcher) - 1
           /\ f % WordBits \in BitsOf(mo, f \div WordBits)
<1> DEFINE count == FeatureCount(mo.matcher)
           words == MaskWords(mo.matcher)
           w == f \div WordBits
           r == f % WordBits
<1>1. count \in Nat /\ words \in Nat /\ WordBits \in Nat \ {0} /\ f \in Nat /\ f < count
  BY FeatureCountIsNat, DictionaryAssumption DEF Features
<1>2. f = WordBits * w + r /\ w \in Nat /\ r \in 0 .. WordBits - 1
  BY <1>1
<1>3. words = (count + WordBits - 1) \div WordBits
  BY DEF MaskWords
<1>4. count + WordBits - 1 \in Nat /\ count + WordBits - 1 = (count + WordBits) - 1
  BY <1>1
<1>5. (count + WordBits) - 1 = WordBits * words + (((count + WordBits) - 1) % WordBits)
      /\ ((count + WordBits) - 1) % WordBits \in 0 .. WordBits - 1
  BY <1>1, <1>3, <1>4
<1>6. /\ WordBits * w = w * WordBits /\ WordBits * words = words * WordBits
      /\ w * WordBits \in Nat /\ words * WordBits \in Nat
  <2>1. \A i, j \in Nat : i * j = j * i /\ i * j \in Nat
    OBVIOUS
  <2> QED
    BY <1>1, <1>2, <2>1
<1>7. w * WordBits < words * WordBits
  <2> DEFINE x == w * WordBits
             y == words * WordBits
             z == ((count + WordBits) - 1) % WordBits
  <2>1. f = x + r /\ (count + WordBits) - 1 = y + z /\ z \in 0 .. WordBits - 1 /\ x \in Nat /\ y \in Nat
    BY <1>2, <1>5, <1>6
  <2> HIDE DEF x, y, z, r
  <2>2. x < y
    BY <1>1, <1>2, <2>1
  <2> QED
    BY <2>2 DEF x, y
<1>8. w < words
  <2>1. words <= w => words * WordBits <= w * WordBits
    BY <1>1, <1>2, Products
  <2> QED
    BY <1>1, <1>2, <1>6, <1>7, <2>1
<1> HIDE DEF w, r, words
<1>9. w \in 0 .. words - 1
  BY <1>1, <1>2, <1>8
<1>10. w * WordBits + r < count
  BY <1>1, <1>2, <1>6
<1> QED
  BY <1>2, <1>9, <1>10 DEF BitsOf, w, r, words

\* Marking sets the bits of features, in the words of their boundary.
LEMMA MarkedIsSound ==
    ASSUME NEW mo, NEW e, NEW d, NEW marks, IsScratch(d), SearchSound(mo, e, d),
           EgcCount(e) \in Nat \ {0}, mo.matcher.num_dicts \in Nat,
           \A mark \in marks : mark[1] \in 0 .. EgcCount(e) - 2 /\ mark[2] \in Features(mo)
    PROVE  IsScratch(Marked(d, marks)) /\ SearchSound(mo, e, Marked(d, marks))
<1> DEFINE n == EgcCount(e)
           words == d.mask_words
           masks == d.masks
           word(x) == x[1] * words + x[2] \div WordBits
           added(i) == {x[2] % WordBits : x \in {y \in marks : word(y) = i}}
           now == [i \in DOMAIN masks |-> masks[i] \cup added(i)]
           new == Marked(d, marks)
<1>1. /\ n \in Nat \ {0} /\ words = MaskWords(mo.matcher) /\ words \in Nat
      /\ DOMAIN masks = 0 .. (n - 1) * words - 1
      /\ \A b \in 0 .. n - 2, w \in 0 .. words - 1 : masks[b * words + w] \subseteq BitsOf(mo, w)
  BY FeatureCountIsNat DEF SearchSound, MasksSound
<1>2. new = [d EXCEPT !.masks = now]
  BY DEF Marked
<1> HIDE DEF added
<1>3. \A b \in 0 .. n - 2, w \in 0 .. words - 1 : added(b * words + w) \subseteq BitsOf(mo, w)
  <2> SUFFICES ASSUME NEW b \in 0 .. n - 2, NEW w \in 0 .. words - 1, NEW x \in marks, word(x) = b * words + w
               PROVE  x[2] % WordBits \in BitsOf(mo, w)
    BY DEF added
  <2>1. x[1] \in 0 .. n - 2 /\ x[2] \in Features(mo)
    OBVIOUS
  <2> DEFINE v == x[2] \div WordBits
  <2>2. v \in 0 .. words - 1 /\ x[2] % WordBits \in BitsOf(mo, v)
    BY <1>1, <2>1, BitOfFeature
  <2> DEFINE c == x[1]
             N == n - 1
  <2>3. b * words + w = c * words + v
    OBVIOUS
  <2>4. N \in Nat /\ b \in 0 .. N - 1 /\ c \in 0 .. N - 1
    BY <1>1, <2>1
  <2> HIDE DEF v, word, c, N
  <2>5. b = c /\ w = v
    <3>1. words \in Nat /\ w \in 0 .. words - 1 /\ v \in 0 .. words - 1
      BY <1>1, <2>2
    <3> HIDE DEF words
    <3>2. \A i, j \in Nat : \A g, k \in 0 .. i - 1 : \A o, l \in 0 .. j - 1 :
              g * j + o = k * j + l => g = k /\ o = l
      <4> TAKE i, j \in Nat
      <4> TAKE g, k \in 0 .. i - 1
      <4> TAKE o, l \in 0 .. j - 1
      <4> HAVE g * j + o = k * j + l
      <4> QED
        BY RowOfElement
    <3>3. \A g, k \in 0 .. N - 1 : \A o, l \in 0 .. words - 1 :
              g * words + o = k * words + l => g = k /\ o = l
      BY <2>4, <3>1, <3>2, Zenon
    <3> QED
      BY <2>3, <2>4, <3>1, <3>3, Zenon
  <2>6. w = v
    BY <2>5
  <2> QED
    BY <2>2, <2>6
<1>4. \A b \in 0 .. n - 2, w \in 0 .. words - 1 : now[b * words + w] \subseteq BitsOf(mo, w)
  <2> TAKE b \in 0 .. n - 2, w \in 0 .. words - 1
  <2> DEFINE i == b * words + w
  <2>1. n - 1 \in Nat /\ b \in 0 .. (n - 1) - 1
    BY <1>1
  <2>2. i \in DOMAIN masks
    BY <1>1, <2>1, RowElement
  <2>3. now[i] = masks[i] \cup added(i)
    BY <2>2
  <2>4. masks[i] \subseteq BitsOf(mo, w) /\ added(i) \subseteq BitsOf(mo, w)
    BY <1>1, <1>3
  <2> HIDE DEF i, now
  <2>5. now[i] \subseteq BitsOf(mo, w)
    BY <2>3, <2>4
  <2> QED
    BY <2>5 DEF i
<1>5. DOMAIN now = DOMAIN masks
  OBVIOUS
<1> HIDE DEF now, new
<1>6. /\ IsScratch(new) /\ new.masks = now /\ new.mask_words = words
      /\ new.text = d.text /\ new.egc_byte_starts = d.egc_byte_starts /\ new.egc_at_byte = d.egc_at_byte
  <2>1. \E o, r, t, s, a, k, w : d = [offsets |-> o, indices |-> r, text |-> t, egc_byte_starts |-> s,
                                      egc_at_byte |-> a, masks |-> k, mask_words |-> w]
    BY DEF IsScratch
  <2>2. PICK o, r, t, s, a, k, w : d = [offsets |-> o, indices |-> r, text |-> t, egc_byte_starts |-> s,
                                        egc_at_byte |-> a, masks |-> k, mask_words |-> w]
    BY <2>1
  <2>3. new = [offsets |-> o, indices |-> r, text |-> t, egc_byte_starts |-> s,
               egc_at_byte |-> a, masks |-> now, mask_words |-> w]
    BY <1>2, <2>2
  <2>4. /\ new.offsets = o /\ new.indices = r /\ new.text = t /\ new.egc_byte_starts = s
        /\ new.egc_at_byte = a /\ new.masks = now /\ new.mask_words = w
    BY <2>3
  <2>5. IsScratch(new)
    BY <2>3, <2>4 DEF IsScratch
  <2>6. d.text = t /\ d.egc_byte_starts = s /\ d.egc_at_byte = a /\ d.mask_words = w
    BY <2>2
  <2> QED
    BY <2>4, <2>5, <2>6
<1>7. MasksSound(mo, e, new)
  BY <1>1, <1>4, <1>5, <1>6 DEF MasksSound
<1>8. SearchSound(mo, e, new)
  BY <1>6, <1>7 DEF SearchSound, EndsCluster
<1> QED
  BY <1>6, <1>8 DEF new

\* The features of a boundary are features.
LEMMA FeaturesAtAre ==
    ASSUME NEW mo, NEW e, NEW d, FeaturesSound(mo, e, d), NEW b \in 0 .. EgcCount(e) - 2,
           EgcCount(e) \in Nat
    PROVE  FeaturesAt(d, b) \in Seq(Features(mo))
<1> DEFINE n == EgcCount(e)
           F == Features(mo)
           from == d.offsets[b]
           past == d.offsets[b + 1]
<1>1. d.indices \in Seq(F) /\ Len(d.indices) \in Nat /\ d.offsets \in [0 .. n - 1 -> 0 .. Len(d.indices)]
  BY DEF FeaturesSound
<1>2. b \in 0 .. n - 1 /\ b + 1 \in 0 .. n - 1
  OBVIOUS
<1>3. from \in 0 .. Len(d.indices) /\ past \in 0 .. Len(d.indices)
  BY <1>1, <1>2
<1> HIDE DEF from, past, F
<1>4. SubSeq(d.indices, from + 1, past) \in Seq(F)
  <2>1. \A k \in from + 1 .. past : k \in 1 .. Len(d.indices)
    BY <1>1, <1>3
  <2>2. from + 1 \in Int /\ past \in Int
    BY <1>3
  <2> QED
    BY <1>1, <2>1, <2>2, SubSeqProperties
<1> QED
  BY <1>4 DEF FeaturesAt, from, past, F

-----------------------------------------------------------------------------
(* The blocks of a boundary. *)

\* A block lies in the memory it points at.
BlockFits(mo, block) ==
    LET rows == CASE block.memory = "table" -> (Len(mo.vocab) + 2) * SlotCount(mo.net)
                  [] block.memory = "fallback" -> SlotCount(mo.net)
                  [] block.memory = "dict_cols" -> FeatureCount(mo.matcher)
    IN  /\ block.memory \in {"table", "fallback", "dict_cols"}
        /\ block.at .. block.at + mo.net.hidden - 1 \subseteq 0 .. rows * mo.net.hidden - 1

\* Row r of so many, each of width elements.
LEMMA RowFits ==
    ASSUME NEW rows \in Nat, NEW width \in Nat, NEW r \in 0 .. rows - 1
    PROVE  r * width .. r * width + width - 1 \subseteq 0 .. rows * width - 1
<1> SUFFICES ASSUME NEW p \in r * width .. r * width + width - 1 PROVE p \in 0 .. rows * width - 1
  OBVIOUS
<1>1. r * width \in Nat
  BY Products
<1> DEFINE x == r * width
<1>2. x \in Nat /\ p \in x .. x + width - 1
  BY <1>1
<1> HIDE DEF x
<1>3. p - x \in 0 .. width - 1 /\ x + (p - x) = p
  BY <1>2
<1> DEFINE i == p - x
<1>4. i \in 0 .. width - 1 /\ r * width + i = p
  BY <1>3 DEF x
<1> HIDE DEF i
<1>5. r * width + i \in 0 .. rows * width - 1
  BY <1>4, RowElement
<1> QED
  BY <1>4, <1>5

\* A window sees rows of the embedding, or PAD.
LEMMA SlotRowsAre ==
    ASSUME EncodingSound(model, enc), model.vocab \in Seq(Nat), model.net.window \in Nat, NEW i \in Int, NEW j \in Int
    PROVE  SlotRows(i, j) \in Seq(0 .. Len(model.vocab) + 1)
<1> DEFINE R == 0 .. Len(model.vocab) + 1
           egc == i - model.net.window + 1 + j
           at == enc.egc_starts
           len == Len(enc.cps)
<1>1. m = EgcCount(enc)
  BY DEF m
<1>2. /\ enc.rows \in Seq(R) /\ Len(enc.rows) = len /\ len \in Nat /\ m \in Nat \ {0}
      /\ at \in [1 .. m + 1 -> 0 .. len]
  BY <1>1 DEF EncodingSound
<1>3. Len(model.vocab) \in Nat
  OBVIOUS
<1>4. <<PadRow>> \in Seq(R)
  BY <1>3 DEF PadRow
<1>5. egc \in Int
  OBVIOUS
<1>6. SlotRows(i, j) = IF egc \in 0 .. m - 1 THEN EgcRows(egc) ELSE <<PadRow>>
  BY DEF SlotRows
<1> HIDE DEF egc, R
<1>7. ASSUME egc \in 0 .. m - 1 PROVE EgcRows(egc) \in Seq(R)
  <2>1. egc + 1 \in 1 .. m + 1 /\ egc + 2 \in 1 .. m + 1
    BY <1>2, <1>7
  <2> DEFINE from == at[egc + 1]
             z == at[egc + 2]
             a == from + 1
  <2>2. from \in 0 .. len /\ z \in 0 .. len
    BY <1>2, <2>1
  <2>3. EgcRows(egc) = SubSeq(enc.rows, a, z)
    BY DEF EgcRows
  <2> HIDE DEF from, z
  <2>4. a \in Int /\ z \in Int /\ \A k \in a .. z : k \in 1 .. len
    BY <1>2, <2>2
  <2> HIDE DEF a
  <2>5. \A k \in a .. z : enc.rows[k] \in R
    <3>1. \A s \in Seq(R) : \A k \in 1 .. Len(s) : s[k] \in R
      OBVIOUS
    <3>2. \A k \in 1 .. Len(enc.rows) : enc.rows[k] \in R
      BY <1>2, <3>1, Zenon
    <3>3. 1 .. Len(enc.rows) = 1 .. len
      BY <1>2, Zenon
    <3> QED
      BY <2>4, <3>2, <3>3, Zenon
  <2> QED
    BY <2>3, <2>4, <2>5, SubSeqProperties
<1> QED
  BY <1>4, <1>6, <1>7 DEF R

\* A block of the table, or of the fallback scratch.
LEMMA BlockOfSlotFits ==
    ASSUME ModelSound(model), NEW j \in 0 .. slots - 1, NEW rows \in Seq(0 .. Len(model.vocab) + 1)
    PROVE  BlockFits(model, Block(j, rows))
<1> DEFINE v == Len(model.vocab) + 2
           n == SlotCount(model.net)
           w == model.net.hidden
<1>1. slots = n /\ hidden = w
  BY DEF slots, hidden
<1>2. v \in Nat /\ n \in Nat /\ w \in Nat /\ j \in 0 .. n - 1
  <2>1. model.vocab \in Seq(Nat) /\ model.net.window \in Nat /\ w \in Nat
    BY DEF ModelSound
  <2>2. n \in Nat
    BY <2>1 DEF SlotCount
  <2>3. v \in Nat
    BY <2>1
  <2>4. j \in 0 .. n - 1
    BY <1>1
  <2> QED
    BY <2>1, <2>2, <2>3, <2>4
<1>3. CASE Len(rows) = 1
  <2>1. rows[1] \in 0 .. v - 1
    <3> DEFINE R == 0 .. Len(model.vocab) + 1
    <3>1. rows \in Seq(R)
      OBVIOUS
    <3>2. R = 0 .. v - 1
      BY <1>2
    <3> HIDE DEF R
    <3>3. 1 \in DOMAIN rows
      BY <1>3, <3>1
    <3>4. rows[1] \in R
      BY <3>1, <3>3
    <3> QED
      BY <3>2, <3>4
  <2>2. rows[1] * n + j \in 0 .. v * n - 1 /\ v * n \in Nat
    BY <1>2, <2>1, RowElement, Products
  <2> DEFINE r == rows[1] * n + j
             N == v * n
  <2>3. Block(j, rows) = [memory |-> "table", at |-> r * w]
    BY <1>3 DEF Block, BlockBase
  <2>4. r * w .. r * w + w - 1 \subseteq 0 .. N * w - 1
    <3> HIDE DEF r, N
    <3>1. N \in Nat /\ r \in 0 .. N - 1
      BY <2>2 DEF r, N
    <3> QED
      BY <1>2, <3>1, RowFits
  <2> HIDE DEF r
  <2>5. Block(j, rows).memory = "table" /\ Block(j, rows).at = r * w
    BY <2>3
  <2> QED
    BY <2>4, <2>5 DEF BlockFits
<1>4. CASE Len(rows) # 1
  <2>1. Block(j, rows) = [memory |-> "fallback", at |-> j * w]
    BY <1>1, <1>4 DEF Block, FallbackBase
  <2>2. j * w .. j * w + w - 1 \subseteq 0 .. n * w - 1
    BY <1>2, RowFits
  <2>3. Block(j, rows).memory = "fallback" /\ Block(j, rows).at = j * w
    BY <2>1
  <2> QED
    BY <2>2, <2>3 DEF BlockFits
<1> QED
  BY <1>3, <1>4

\* A column of W_dict.
LEMMA ColumnFits ==
    ASSUME ModelSound(model), NEW f \in Features(model)
    PROVE  BlockFits(model, [memory |-> "dict_cols", at |-> f * hidden])
<1> DEFINE n == FeatureCount(model.matcher)
           w == model.net.hidden
           block == [memory |-> "dict_cols", at |-> f * w]
<1>1. hidden = w
  BY DEF hidden
<1>2. n \in Nat /\ w \in Nat
  BY FeatureCountIsNat DEF ModelSound
<1>3. f \in 0 .. n - 1
  BY DEF Features
<1>4. f * w .. f * w + w - 1 \subseteq 0 .. n * w - 1
  BY <1>2, <1>3, RowFits
<1>5. block.memory = "dict_cols" /\ block.at = f * w
  OBVIOUS
<1> HIDE DEF block
<1>6. BlockFits(model, block)
  BY <1>4, <1>5 DEF BlockFits
<1> QED
  BY <1>1, <1>6 DEF block

\* Every block of a boundary fits.
LEMMA GatheredFit ==
    ASSUME ModelSound(model), EncodingSound(model, enc), FeaturesSound(model, enc, dict), NEW i \in 0 .. m - 2,
           NEW gathered,
           gathered = [j \in 1 .. slots |-> Block(j - 1, SlotRows(i, j - 1))]
                          \o [k \in DOMAIN FeaturesAt(dict, i) |->
                                 [memory |-> "dict_cols", at |-> FeaturesAt(dict, i)[k] * hidden]]
    PROVE  \A k \in DOMAIN gathered : BlockFits(model, gathered[k])
<1> DEFINE active == FeaturesAt(dict, i)
           p == [j \in 1 .. slots |-> Block(j - 1, SlotRows(i, j - 1))]
           t == [k \in DOMAIN active |-> [memory |-> "dict_cols", at |-> active[k] * hidden]]
           F == Features(model)
<1>1. slots \in Nat /\ m = EgcCount(enc) /\ m \in Nat
  <2>1. model.net.window \in Nat /\ EgcCount(enc) \in Nat
    BY DEF ModelSound, EncodingSound
  <2>2. slots \in Nat
    BY <2>1 DEF slots, SlotCount
  <2> QED
    BY <2>1, <2>2 DEF m
<1>2. active \in Seq(F)
  <2>1. i \in 0 .. EgcCount(enc) - 2 /\ EgcCount(enc) \in Nat
    BY <1>1
  <2> QED
    BY <2>1, FeaturesAtAre
<1>3. \A j \in 1 .. slots : BlockFits(model, p[j])
  <2> TAKE j \in 1 .. slots
  <2>1. j - 1 \in 0 .. slots - 1 /\ j - 1 \in Int /\ i \in Int
    BY <1>1
  <2>2. SlotRows(i, j - 1) \in Seq(0 .. Len(model.vocab) + 1)
    <3>1. model.vocab \in Seq(Nat) /\ model.net.window \in Nat
      BY DEF ModelSound
    <3> QED
      BY <2>1, <3>1, SlotRowsAre
  <2>3. p[j] = Block(j - 1, SlotRows(i, j - 1))
    OBVIOUS
  <2> QED
    BY <2>1, <2>2, <2>3, BlockOfSlotFits
<1> HIDE DEF active, F
<1>4. DOMAIN active = 1 .. Len(active) /\ Len(active) \in Nat /\ \A k \in 1 .. Len(active) : active[k] \in F
  BY <1>2
<1>5. \A k \in 1 .. Len(active) : BlockFits(model, t[k])
  <2> TAKE k \in 1 .. Len(active)
  <2>1. t[k] = [memory |-> "dict_cols", at |-> active[k] * hidden] /\ active[k] \in Features(model)
    BY <1>4 DEF F
  <2> QED
    BY <2>1, ColumnFits
<1> DEFINE X == {p[j] : j \in 1 .. slots} \cup {t[k] : k \in 1 .. Len(active)}
<1>6. p \in [1 .. slots -> X] /\ t \in [1 .. Len(active) -> X]
  BY <1>4
<1>7. \A x \in X : BlockFits(model, x)
  BY <1>3, <1>5
<1>8. gathered = p \o t
  BY DEF active
<1> HIDE DEF p, t, X
<1>9. p \in Seq(X) /\ t \in Seq(X)
  <2>1. \A n \in Nat : \A s \in [1 .. n -> X] : s \in Seq(X)
    OBVIOUS
  <2> QED
    BY <1>1, <1>4, <1>6, <2>1
<1>10. gathered \in Seq(X)
  <2>1. \A a, b \in Seq(X) : a \o b \in Seq(X)
    OBVIOUS
  <2> QED
    BY <1>8, <1>9, <2>1
<1>11. \A k \in DOMAIN gathered : gathered[k] \in X
  <2>1. \A s \in Seq(X) : \A k \in DOMAIN s : s[k] \in X
    OBVIOUS
  <2> QED
    BY <1>10, <2>1
<1> QED
  BY <1>7, <1>11

-----------------------------------------------------------------------------
(* No index leads out of its array: the invariant. *)

\* The search is at a cluster of the text, in a model with words to search for.
Searching ==
    /\ HasDictionary(model) /\ SearchSound(model, enc, dict)
    /\ cluster \in 0 .. m
    /\ step = "mark" => cluster < m /\ \A k \in DOMAIN hits : HitSound(model, enc, cluster, hits[k])

\* The blocks of a boundary fit, the fallback scratch having been resized.
Gathered ==
    /\ DOMAIN fallback = 0 .. slots * hidden - 1
    /\ \A k \in DOMAIN blocks : BlockFits(model, blocks[k])

BoundsInv ==
    /\ IsScratch(dict)
    /\ step # "idle" => ModelSound(model)
    /\ Working => EncodingSound(model, enc)
    /\ Working /\ step # "cut" => m >= 2
    /\ step \in {"search", "mark"} => Searching
    /\ Scoring => FeaturesSound(model, enc, dict)
    /\ step = "fuse" => Gathered

\* Nothing is loaded and nothing searched.
LEMMA BoundsInvInit == Init => BoundsInv
<1> SUFFICES ASSUME Init PROVE BoundsInv
  OBVIOUS
<1>1. step = "idle" /\ dict = NoFeatures
  BY DEF Init
<1>2. IsScratch(dict)
  BY <1>1 DEF IsScratch, NoFeatures
<1> QED
  BY <1>1, <1>2 DEF BoundsInv, Working, Scoring

\* What the invariant says of every array that is indexed.
LEMMA BoundsHold == BoundsInv => IndicesInBounds
<1> SUFFICES ASSUME BoundsInv PROVE IndicesInBounds
  OBVIOUS
<1>1. m = EgcCount(enc)
  BY DEF m
<1>2. ASSUME step = "mark", NEW k \in DOMAIN hits
      PROVE  /\ hits[k].past \in hits[k].start + 1 .. m
             /\ hits[k].id + 1 \in DOMAIN model.matcher.offsets
             /\ ChannelsOf(model.matcher, hits[k].id) \subseteq 0 .. model.matcher.num_dicts - 1
             /\ \A mark \in MarksOf(model.matcher, hits[k], m - 1) : mark[1] \in 0 .. m - 2
  <2>1. ModelSound(model) /\ Searching /\ EncodingSound(model, enc)
    BY <1>2 DEF BoundsInv, Working
  <2>2. HitSound(model, enc, cluster, hits[k]) /\ HasDictionary(model) /\ cluster \in 0 .. m /\ cluster < m
    BY <1>2, <2>1 DEF Searching
  <2>3. MatcherSound(model.matcher) /\ model.matcher.num_dicts \in Nat /\ EgcCount(enc) \in Nat
    BY <2>1, <2>2 DEF ModelSound, HasDictionary, EncodingSound
  <2>4. cluster \in 0 .. EgcCount(enc) - 1
    BY <1>1, <2>2, <2>3
  <2>5. ChannelsOf(model.matcher, hits[k].id) \subseteq 0 .. model.matcher.num_dicts - 1
    BY <2>2, <2>3, ChannelsAreDictionaries DEF HitSound
  <2>6. \A mark \in MarksOf(model.matcher, hits[k], m - 1) : mark[1] \in 0 .. m - 2
    BY <1>1, <2>2, <2>3, <2>4, MarksAreInBounds
  <2> QED
    BY <1>1, <2>2, <2>5, <2>6 DEF HitSound
<1>3. ASSUME Scoring
      PROVE  /\ DOMAIN dict.offsets = 0 .. m - 1
             /\ \A k \in DOMAIN dict.indices : dict.indices[k] \in 0 .. FeatureCount(model.matcher) - 1
             /\ \A k \in DOMAIN enc.rows : enc.rows[k] \in 0 .. Len(model.vocab) + 1
  <2> DEFINE F == Features(model)
             R == 0 .. Len(model.vocab) + 1
  <2>1. Working /\ FeaturesSound(model, enc, dict)
    BY <1>3 DEF BoundsInv, Scoring, Working
  <2>2. EncodingSound(model, enc)
    BY <2>1 DEF BoundsInv
  <2>3. dict.indices \in Seq(F) /\ DOMAIN dict.offsets = 0 .. m - 1
    BY <1>1, <2>1 DEF FeaturesSound
  <2>4. enc.rows \in Seq(R)
    BY <2>2 DEF EncodingSound
  <2> HIDE DEF F, R
  <2>5. (\A k \in DOMAIN dict.indices : dict.indices[k] \in F) /\ \A k \in DOMAIN enc.rows : enc.rows[k] \in R
    BY <2>3, <2>4
  <2> QED
    BY <2>3, <2>5 DEF F, R, Features
<1>4. ASSUME step = "fuse", NEW k \in DOMAIN blocks
      PROVE  blocks[k].at .. blocks[k].at + hidden - 1 \subseteq DOMAIN Memory(blocks[k])
  <2> DEFINE b == blocks[k]
             v == Len(model.vocab) + 2
  <2>1. ModelSound(model) /\ Gathered
    BY <1>4 DEF BoundsInv
  <2>2. BlockFits(model, b) /\ DOMAIN fallback = 0 .. slots * hidden - 1
    BY <2>1 DEF Gathered
  <2>3. /\ DOMAIN model.table = 0 .. v * SlotCount(model.net) * model.net.hidden - 1
        /\ DOMAIN model.dict_cols = 0 .. FeatureCount(model.matcher) * model.net.hidden - 1
    BY <2>1 DEF ModelSound
  <2>4. slots = SlotCount(model.net) /\ hidden = model.net.hidden
    BY DEF slots, hidden
  <2> HIDE DEF b
  <2> DEFINE range == b.at .. b.at + model.net.hidden - 1
             fits(rows) == range \subseteq 0 .. rows * model.net.hidden - 1
  <2>5. b.memory = "table" => fits(v * SlotCount(model.net)) /\ Memory(b) = model.table
    BY <2>2 DEF BlockFits, Memory
  <2>6. b.memory = "fallback" => fits(SlotCount(model.net)) /\ Memory(b) = fallback
    BY <2>2 DEF BlockFits, Memory
  <2>7. b.memory = "dict_cols" => fits(FeatureCount(model.matcher)) /\ Memory(b) = model.dict_cols
    BY <2>2 DEF BlockFits, Memory
  <2>8. b.memory \in {"table", "fallback", "dict_cols"}
    BY <2>2 DEF BlockFits
  <2>9. b.at .. b.at + hidden - 1 \subseteq DOMAIN Memory(b)
    <3> HIDE DEF range, v
    <3>1. range \subseteq DOMAIN Memory(b)
      BY <2>2, <2>3, <2>4, <2>5, <2>6, <2>7, <2>8
    <3> QED
      BY <2>4, <3>1 DEF range
  <2> QED
    BY <2>9 DEF b
<1> QED
  BY <1>2, <1>3, <1>4 DEF IndicesInBounds

\* Texts are encoded for a model that was parsed.
LEMMA BoundsAfterEncode == WordsInv /\ BoundsInv /\ Encode => BoundsInv'
<1> SUFFICES ASSUME WordsInv, BoundsInv, Encode PROVE BoundsInv'
  OBVIOUS
<1>1. PICK t \in Texts :
          /\ Bad \notin {t[i] : i \in DOMAIN t}
          /\ text' = t /\ enc' = Encoded(t)
          /\ IF t = <<>> THEN EndCall("ok") /\ UNCHANGED scores
             ELSE /\ scores' = <<>>
                  /\ step' = IF EgcCount(Encoded(t)) < 2 THEN "cut" ELSE "features"
                  /\ UNCHANGED <<rounds, outcome>>
  BY DEF Encode
<1>2. step = "loaded" /\ UNCHANGED <<model, dict>>
  BY DEF Encode
<1>3. ModelSound(model) /\ IsScratch(dict)
  BY <1>2 DEF BoundsInv
<1>4. CASE t = <<>>
  <2>1. step' = "idle"
    BY <1>1, <1>4 DEF EndCall
  <2> QED
    BY <1>2, <1>3, <2>1 DEF BoundsInv, Working, Scoring
<1>5. CASE t # <<>>
  <2>1. t \in Seq(DOMAIN Normal)
    BY <1>1, TextDecodes
  <2>2. EncodingSound(model, Encoded(t))
    BY <1>3, <1>5, <2>1, EncodingIsSound DEF ModelSound
  <2>3. m' = EgcCount(Encoded(t)) /\ m' \in Nat
    BY <1>1, <2>2 DEF m, EncodingSound
  <2>4. step' = IF m' < 2 THEN "cut" ELSE "features"
    BY <1>1, <1>5, <2>3
  <2>5. step' # "cut" => m' >= 2
    BY <2>3, <2>4
  <2>6. ~ Scoring'
    BY <2>3, <2>4 DEF Scoring
  <2> QED
    BY <1>1, <1>2, <1>3, <2>2, <2>4, <2>5, <2>6 DEF BoundsInv
<1> QED
  BY <1>4, <1>5

\* What a step of features_into has from the one before.
LEMMA FeaturesFrom ==
    ASSUME BoundsInv, step \in {"features", "search", "mark"}
    PROVE  /\ ModelSound(model) /\ IsScratch(dict) /\ EncodingSound(model, enc)
           /\ m = EgcCount(enc) /\ m \in Nat /\ m >= 2 /\ model.matcher.num_dicts \in Nat
<1>1. Working /\ step # "idle" /\ step # "cut"
  BY DEF Working
<1>2. ModelSound(model) /\ IsScratch(dict) /\ EncodingSound(model, enc) /\ m >= 2
  BY <1>1 DEF BoundsInv
<1> QED
  BY <1>2 DEF m, EncodingSound, ModelSound

\* The steps of features_into.
LEMMA BoundsAfterFeatures ==
    BoundsInv /\ (SkipFeatures \/ Reencode \/ Search \/ Mark \/ Emit) => BoundsInv'
<1> SUFFICES ASSUME BoundsInv, SkipFeatures \/ Reencode \/ Search \/ Mark \/ Emit PROVE BoundsInv'
  OBVIOUS
<1>1. step \in {"features", "search", "mark"} /\ UNCHANGED <<model, enc>> /\ step' \in {"search", "mark", "score"}
  BY DEF SkipFeatures, Reencode, Search, Mark, Emit, scratch
<1>2. /\ ModelSound(model) /\ IsScratch(dict) /\ EncodingSound(model, enc)
      /\ m = EgcCount(enc) /\ m \in Nat /\ m >= 2 /\ model.matcher.num_dicts \in Nat
  BY <1>1, FeaturesFrom
<1>3. m' = m
  BY <1>1 DEF m
<1>4. SUFFICES /\ IsScratch(dict')
               /\ step' \in {"search", "mark"} => Searching'
               /\ step' = "score" => FeaturesSound(model, enc, dict')
  BY <1>1, <1>2, <1>3 DEF BoundsInv, Scoring
<1>5. CASE SkipFeatures
  <2>1. dict' = EmptyRanges(dict, enc) /\ step' = "score"
    BY <1>5 DEF SkipFeatures
  <2> QED
    BY <1>2, <2>1, EmptyRangesAreSound
<1>6. CASE Reencode
  <2>1. dict' = Reencoded(dict, model.matcher, enc) /\ step' = "search" /\ cluster' = 0 /\ ~NoDictionary
    BY <1>6 DEF Reencode
  <2>2. IsScratch(dict') /\ SearchSound(model, enc, dict')
    BY <1>2, <2>1, ReencodedIsSound
  <2>3. HasDictionary(model)
    <3>1. FeatureCount(model.matcher) # 0 /\ HasImpl(model.matcher)
      BY <2>1 DEF NoDictionary
    <3>2. FeaturesPerDict \in Nat
      BY <1>2, FeatureCountIsNat
    <3>3. 0 * FeaturesPerDict = 0
      BY <3>2
    <3> QED
      BY <3>1, <3>3 DEF HasDictionary, FeatureCount
  <2>4. Searching'
    BY <1>1, <1>2, <1>3, <2>1, <2>2, <2>3 DEF Searching
  <2> QED
    BY <2>1, <2>2, <2>4
<1>7. CASE Search
  <2>1. step = "search" /\ cluster < m /\ hits' = Hits(dict, model.matcher, cluster) /\ step' = "mark"
        /\ UNCHANGED <<dict, cluster>>
    BY <1>7 DEF Search, scratch
  <2>2. HasDictionary(model) /\ SearchSound(model, enc, dict) /\ cluster \in 0 .. m
    BY <2>1 DEF BoundsInv, Searching
  <2>3. MatcherSound(model.matcher)
    BY <1>2, <2>2 DEF ModelSound, HasDictionary
  <2>4. cluster \in 0 .. EgcCount(enc) - 1 /\ EgcCount(enc) \in Nat
    BY <1>2, <2>1, <2>2
  <2>5. \A k \in DOMAIN hits' : HitSound(model, enc, cluster, hits'[k])
    BY <2>1, <2>2, <2>3, <2>4, HitsAreSound
  <2>6. Searching'
    BY <1>1, <1>3, <2>1, <2>2, <2>5 DEF Searching
  <2> QED
    BY <1>2, <2>1, <2>6
<1>8. CASE Mark
  <2> DEFINE marks == UNION {MarksOf(model.matcher, hits[k], m - 1) : k \in DOMAIN hits}
  <2>1. step = "mark" /\ dict' = Marked(dict, marks) /\ cluster' = cluster + 1 /\ step' = "search"
    BY <1>8 DEF Mark
  <2>2. HasDictionary(model) /\ SearchSound(model, enc, dict) /\ cluster \in 0 .. m /\ cluster < m
        /\ \A k \in DOMAIN hits : HitSound(model, enc, cluster, hits[k])
    BY <2>1 DEF BoundsInv, Searching
  <2>3. MatcherSound(model.matcher)
    BY <1>2, <2>2 DEF ModelSound, HasDictionary
  <2>4. cluster \in 0 .. EgcCount(enc) - 1 /\ EgcCount(enc) \in Nat \ {0}
    BY <1>2, <2>2
  <2>5. \A k \in DOMAIN hits : \A mark \in MarksOf(model.matcher, hits[k], m - 1) :
            mark[1] \in 0 .. EgcCount(enc) - 2 /\ mark[2] \in Features(model)
    BY <1>2, <2>2, <2>3, <2>4, MarksAreInBounds
  <2>6. \A mark \in marks : mark[1] \in 0 .. EgcCount(enc) - 2 /\ mark[2] \in Features(model)
    BY <2>5
  <2> HIDE DEF marks
  <2>7. IsScratch(dict') /\ SearchSound(model, enc, dict')
    BY <1>2, <2>1, <2>2, <2>4, <2>6, MarkedIsSound
  <2>8. cluster' \in 0 .. m
    BY <1>2, <2>1, <2>2
  <2>9. Searching'
    BY <1>1, <1>3, <2>1, <2>2, <2>7, <2>8 DEF Searching
  <2> QED
    BY <2>1, <2>7, <2>9
<1>9. CASE Emit
  <2>1. step = "search" /\ dict' = Emitted(dict, enc) /\ step' = "score"
    BY <1>9 DEF Emit
  <2>2. MasksSound(model, enc, dict)
    BY <2>1 DEF BoundsInv, Searching, SearchSound
  <2> QED
    BY <1>2, <2>1, <2>2, EmittedIsSound
<1> QED
  BY <1>5, <1>6, <1>7, <1>8, <1>9

\* Scoring leaves the model, the encoded text and the features as they are.
LEMMA BoundsStay ==
    ASSUME BoundsInv, Working, UNCHANGED <<model, enc, dict>>, step' \in {"score", "fuse", "cut"},
           step \in {"score", "fuse", "cut"}, step # "cut", step' = "fuse" => Gathered'
    PROVE  BoundsInv'
<1>1. m' = m
  BY DEF m
<1>2. m >= 2 /\ Scoring
  BY DEF BoundsInv, Scoring
<1>3. ModelSound(model) /\ EncodingSound(model, enc) /\ IsScratch(dict) /\ FeaturesSound(model, enc, dict)
  BY <1>2 DEF BoundsInv, Scoring
<1>4. ModelSound(model') /\ EncodingSound(model', enc') /\ IsScratch(dict') /\ FeaturesSound(model', enc', dict')
  BY <1>3
<1>5. step' \notin {"search", "mark"}
  OBVIOUS
<1> QED
  BY <1>1, <1>2, <1>4, <1>5 DEF BoundsInv

\* A call that ends leaves the scratch.
LEMMA BoundsEnd ==
    ASSUME BoundsInv, step' = "idle", UNCHANGED dict
    PROVE  BoundsInv'
BY DEF BoundsInv, Working, Scoring

\* Every step keeps every array large enough for what indexes it.
LEMMA BoundsInvNext == WordsInv /\ BoundsInv /\ [Next]_vars => BoundsInv'
<1> SUFFICES ASSUME WordsInv, BoundsInv, [Next]_vars PROVE BoundsInv'
  OBVIOUS
<1>1. CASE LoadModel
  <2>1. UNCHANGED dict
    BY <1>1 DEF LoadModel, scratch
  <2>2. PICK f \in DOMAIN Disk, format \in Formats, precision \in {"Int32", "Int16"} :
          \E loaded \in LoadStatuses(Disk[f].bytes, format) :
              /\ model' = IF loaded = "ok" THEN Derived(Parse(Disk[f].bytes).got, precision) ELSE NoModel
              /\ step' = IF loaded = "ok" THEN "loaded" ELSE "idle"
    BY <1>1 DEF LoadModel
  <2>3. PICK loaded \in LoadStatuses(Disk[f].bytes, format) :
              /\ model' = IF loaded = "ok" THEN Derived(Parse(Disk[f].bytes).got, precision) ELSE NoModel
              /\ step' = IF loaded = "ok" THEN "loaded" ELSE "idle"
    BY <2>2
  <2>4. CASE loaded = "ok"
    <3>1. LoadStatus(Disk[f].bytes, format) = "ok"
      BY <2>4 DEF LoadStatuses
    <3>2. Parse(Files[f].bytes).ok /\ f \in DOMAIN Files
      BY <3>1 DEF LoadStatus, Disk
    <3>3. ModelSound(Derived(Parse(Files[f].bytes).got, precision))
      BY <3>2, ModelIsSound
    <3>4. ModelSound(model') /\ step' = "loaded"
      BY <2>3, <2>4, <3>3 DEF Disk
    <3> QED
      BY <2>1, <3>4 DEF BoundsInv, Working, Scoring
  <2>5. CASE loaded # "ok"
    BY <2>1, <2>3, <2>5, BoundsEnd
  <2> QED
    BY <2>4, <2>5
<1>2. CASE EncodeFails
  <2>1. step' = "idle" /\ UNCHANGED dict
    BY <1>2 DEF EncodeFails, EndCall
  <2> QED
    BY <2>1, BoundsEnd
<1>3. CASE Encode
  BY <1>3, BoundsAfterEncode
<1>4. CASE SkipFeatures \/ Reencode \/ Search \/ Mark \/ Emit
  BY <1>4, BoundsAfterFeatures
<1>5. CASE ScoreI32
  <2>1. step = "score" /\ step' = "score" /\ UNCHANGED <<model, enc, dict>>
    BY <1>5 DEF ScoreI32
  <2> QED
    BY <2>1, BoundsStay DEF Working
<1>6. CASE Gather
  <2> DEFINE i == Len(scores)
  <2>1. /\ step = "score" /\ i < m - 1 /\ step' = "fuse" /\ UNCHANGED <<model, enc, dict>>
        /\ fallback' = Synthesis(i)
        /\ blocks' = [j \in 1 .. slots |-> Block(j - 1, SlotRows(i, j - 1))]
                          \o [k \in DOMAIN FeaturesAt(dict, i) |->
                                 [memory |-> "dict_cols", at |-> FeaturesAt(dict, i)[k] * hidden]]
    BY <1>6 DEF Gather
  <2>2. i \in Nat
    <3>1. \A s : IsSeq(s) => Len(s) \in Nat
      BY DEF IsSeq
    <3> QED
      BY <3>1 DEF WordsInv
  <2>3. m \in Nat /\ m >= 2 /\ ModelSound(model) /\ EncodingSound(model, enc) /\ FeaturesSound(model, enc, dict)
    <3>1. Working /\ step # "cut" /\ step # "idle"
      BY <2>1 DEF Working
    <3>2. m >= 2 /\ ModelSound(model) /\ EncodingSound(model, enc)
      BY <3>1 DEF BoundsInv
    <3>3. Scoring
      BY <2>1, <3>2 DEF Scoring
    <3> QED
      BY <3>2, <3>3 DEF BoundsInv, EncodingSound, m
  <2> HIDE DEF i
  <2>4. i \in 0 .. m - 2
    BY <2>1, <2>2, <2>3
  <2>5. \A k \in DOMAIN blocks' : BlockFits(model, blocks'[k])
    BY <2>1, <2>3, <2>4, GatheredFit
  <2>6. DOMAIN fallback' = 0 .. slots * hidden - 1
    BY <2>1 DEF Synthesis
  <2>7. slots' = slots /\ hidden' = hidden
    BY <2>1 DEF slots, hidden
  <2>8. Gathered'
    BY <2>1, <2>5, <2>6, <2>7 DEF Gathered
  <2> QED
    BY <2>1, <2>8, BoundsStay DEF Working
<1>7. CASE Fuse
  <2>1. step = "fuse" /\ step' = "score" /\ UNCHANGED <<model, enc, dict>>
    BY <1>7 DEF Fuse
  <2> QED
    BY <2>1, BoundsStay DEF Working
<1>8. CASE ScoresDone
  <2>1. step = "score" /\ step' = "cut" /\ UNCHANGED <<model, enc, dict>>
    BY <1>8 DEF ScoresDone, scratch
  <2> QED
    BY <2>1, BoundsStay DEF Working
<1>9. CASE Cut
  <2>1. step' = "idle" /\ UNCHANGED dict
    BY <1>9 DEF Cut, EndCall, scratch
  <2> QED
    BY <2>1, BoundsEnd
<1>10. CASE AllocationThrows
  <2>1. step' = "idle" /\ UNCHANGED dict
    BY <1>10 DEF AllocationThrows, EndCall, scratch
  <2> QED
    BY <2>1, BoundsEnd
<1>11. CASE UNCHANGED vars
  <2>1. UNCHANGED <<step, model, enc, dict, cluster, hits, blocks, fallback>>
    BY <1>11 DEF vars, scratch
  <2>2. UNCHANGED <<m, slots, hidden>>
    BY <2>1 DEF m, slots, hidden
  <2>3. Searching' <=> Searching
    BY <2>1, <2>2 DEF Searching
  <2>4. Gathered' <=> Gathered
    BY <2>1, <2>2 DEF Gathered
  <2> QED
    BY <2>1, <2>2, <2>3, <2>4 DEF BoundsInv, Working, Scoring
<1> QED
  BY <1>1, <1>2, <1>3, <1>4, <1>5, <1>6, <1>7, <1>8, <1>9, <1>10, <1>11 DEF Next

\* Whatever files are loaded and texts tokenized, no match, feature, row or block
\* leads out of its array (features_into, score_i16_fused).
THEOREM IndicesStayInBounds == Spec => []IndicesInBounds
<1> DEFINE Inv == WordsInv /\ BoundsInv
<1>1. Init => Inv
  BY WordsInvInit, BoundsInvInit
<1>2. Inv /\ [Next]_vars => Inv'
  BY WordsInvNext, BoundsInvNext
<1>3. Inv => IndicesInBounds
  BY BoundsHold
<1> QED
  BY <1>1, <1>2, <1>3, PTL DEF Spec
=============================================================================
