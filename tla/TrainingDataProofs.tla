------------------------- MODULE TrainingDataProofs --------------------------
(***************************************************************************)
(* Proofs about TrainingData, for every corpus, every prediction and every *)
(* clustering of what was parsed.  What ties the tags to the text while a  *)
(* line is parsed differs by format: with full annotation they are always  *)
(* one behind, with partial annotation only when a mark is due.            *)
(*                                                                         *)
(* The second part is about build_examples, for every sentence that the    *)
(* encoder can have decoded: what the example set holds of every sentence  *)
(* stored so far, and what is known of the one whose gaps are walked.      *)
(*                                                                         *)
(* The third is about corpora that predict wrote: where in a line every    *)
(* character of the text is (Written), and that the parser, at each of     *)
(* those places, has read exactly the characters before it (ReadTo).       *)
(***************************************************************************)
EXTENDS TrainingData, SequenceTheorems, FiniteSetTheorems, WellFoundedInduction, TLAPS

\* A finite sequence, of whatever it holds.
IsSeq(s) == s \in Seq({s[k] : k \in DOMAIN s})

\* The sentence being built has a tag per gap, or one per character while the
\* next character is due.
LineInv ==
    /\ IsSeq(text) /\ tags \in Seq(TagKinds)
    /\ expect_char \in BOOLEAN /\ in_word \in BOOLEAN
    /\ in_word => text # <<>>
    /\ format = "full" /\ text # <<>> => Len(tags) = Len(text) - 1
    /\ format = "full" /\ text = <<>> => tags = <<>>
    /\ format = "partial" /\ expect_char => Len(tags) = Len(text)
    /\ format = "partial" /\ ~expect_char => text # <<>> /\ Len(tags) = Len(text) - 1

\* "assert(sentence.tags.size() + 1 == num_cps || num_cps == 0)", of what was parsed.
BuiltFromTagPerGap ==
    building # "idle" /\ stage = "parsed" =>
        \A k \in DOMAIN sents : Len(sents[k].tags) = Len(sents[k].text) - 1

IInv ==
    /\ format \in {"full", "partial"}
    /\ LineInv
    /\ IsSeq(sentences)
    /\ TagPerGap
    /\ BuiltFromTagPerGap

-----------------------------------------------------------------------------
LEMMA EmptyIsSeq == IsSeq(<<>>)
BY DEF IsSeq

\* What push_back leaves is one longer and holds what it held.
LEMMA AppendIsSeq ==
    ASSUME NEW s, IsSeq(s), NEW e
    PROVE  LET t == Append(s, e)
           IN  /\ IsSeq(t) /\ t # <<>>
               /\ Len(s) \in Nat /\ Len(t) = Len(s) + 1
               /\ DOMAIN t = 1 .. Len(s) + 1
               /\ DOMAIN s = 1 .. Len(s)
               /\ t[Len(s) + 1] = e /\ \A k \in DOMAIN s : t[k] = s[k]
<1> DEFINE t == Append(s, e)
           held == {s[k] : k \in DOMAIN s}
<1>1. s \in Seq(held \union {e}) /\ Len(s) \in Nat /\ DOMAIN s = 1 .. Len(s)
  BY DEF IsSeq
<1>2. /\ t \in Seq(held \union {e}) /\ Len(t) = Len(s) + 1 /\ DOMAIN t = 1 .. Len(s) + 1
      /\ t[Len(s) + 1] = e /\ \A k \in 1 .. Len(s) : t[k] = s[k]
  BY <1>1
<1>3. t # <<>>
  BY <1>1, <1>2
<1>4. held \union {e} = {t[k] : k \in DOMAIN t}
  BY <1>1, <1>2
<1> QED
  BY <1>1, <1>2, <1>3, <1>4 DEF IsSeq

LEMMA EmptyOrPositive ==
    ASSUME NEW s, IsSeq(s)
    PROVE  /\ Len(s) \in Nat
           /\ s = <<>> <=> Len(s) = 0
BY DEF IsSeq

\* As the parser starts a line.
LEMMA FreshLine ==
    ASSUME text' = <<>>, tags' = <<>>, in_word' = FALSE, expect_char' = TRUE
    PROVE  LineInv'
<1>1. IsSeq(text') /\ tags' \in Seq(TagKinds) /\ Len(tags') = Len(text')
  BY EmptyIsSeq
<1>2. expect_char' /\ expect_char' \in BOOLEAN /\ ~in_word' /\ in_word' \in BOOLEAN
  OBVIOUS
<1> QED
  BY <1>1, <1>2 DEF LineInv

LEMMA InitInv == Init => IInv
<1> SUFFICES ASSUME Init
             PROVE  IInv
  OBVIOUS
<1>1. CorpusInit /\ ExamplesInit
  BY DEF Init
<1>2. format \in {"full", "partial"}
  BY <1>1, CorpusAssumption DEF CorpusInit
<1>3. /\ text = <<>> /\ tags = <<>> /\ in_word = FALSE /\ expect_char = TRUE
      /\ sentences = <<>> /\ building = "idle"
  BY <1>1 DEF CorpusInit, ExamplesInit
<1>4. LineInv
  <2>1. IsSeq(text) /\ tags \in Seq(TagKinds) /\ Len(tags) = Len(text)
    BY <1>3, EmptyIsSeq
  <2>2. expect_char /\ expect_char \in BOOLEAN /\ ~in_word /\ in_word \in BOOLEAN
    BY <1>3
  <2> QED
    BY <1>3, <2>1, <2>2 DEF LineInv
<1> QED
  BY <1>2, <1>3, <1>4, EmptyIsSeq DEF IInv, TagPerGap, BuiltFromTagPerGap

\* Steps that leave the tags and the text alone, and what the rest hangs on.
LEMMA LineUntouched ==
    ASSUME LineInv, UNCHANGED <<format, text, tags, expect_char>>,
           in_word' = in_word \/ in_word' = FALSE
    PROVE  LineInv'
<1>1. IsSeq(text') /\ tags' \in Seq(TagKinds)
  BY DEF LineInv, IsSeq
<1>2. in_word' \in BOOLEAN /\ (in_word' => text' # <<>>)
  <2>1. CASE in_word' = in_word
    BY <2>1 DEF LineInv
  <2>2. CASE in_word' = FALSE
    BY <2>2
  <2> QED
    BY <2>1, <2>2
<1>3. expect_char' \in BOOLEAN
  BY DEF LineInv
<1> QED
  BY <1>1, <1>2, <1>3 DEF LineInv

-----------------------------------------------------------------------------
(* The steps of the parser. *)

\* A step that takes an item adds no sentence.
LEMMA TakenKeeps ==
    ASSUME IInv, building = "idle", UNCHANGED exampleVars, Taken, LineInv'
    PROVE  IInv'
BY DEF IInv, Taken, exampleVars, IsSeq, TagPerGap, BuiltFromTagPerGap

LEMMA FailKeeps ==
    ASSUME IInv, building = "idle", UNCHANGED exampleVars, NEW why, Fail(why)
    PROVE  IInv'
<1>1. /\ format' = format /\ sentences' = <<>> /\ building' = "idle"
      /\ UNCHANGED <<text, tags, in_word, expect_char>>
  BY DEF Fail, lineVars, exampleVars
<1>2. LineInv'
  BY <1>1, LineUntouched DEF IInv
<1> QED
  BY <1>1, <1>2, EmptyIsSeq DEF IInv, TagPerGap, BuiltFromTagPerGap

LEMMA FullCharKeeps ==
    ASSUME IInv, FullChar
    PROVE  LineInv'
<1>1. /\ format = "full" /\ format' = format
      /\ tags' = tags \o FullTag /\ text' = Append(text, Cp)
      /\ in_word' = TRUE /\ expect_char' = expect_char
  BY DEF FullChar, InFull, Taken
<1>2. /\ IsSeq(text') /\ text' # <<>> /\ Len(text) \in Nat /\ Len(text') = Len(text) + 1
  BY <1>1, AppendIsSeq DEF IInv, LineInv
<1>3. CASE text = <<>>
  <2>1. tags' = <<>> /\ Len(text) = 0
    BY <1>1, <1>3 DEF IInv, LineInv, FullTag
  <2> QED
    BY <1>1, <1>2, <2>1 DEF IInv, LineInv
<1>4. CASE text # <<>>
  <2>1. FullTag \in Seq(TagKinds) /\ Len(FullTag) = 1
    BY <1>4 DEF FullTag, TagKinds
  <2>2. tags' \in Seq(TagKinds) /\ Len(tags') = Len(tags) + 1
    <3>1. tags \in Seq(TagKinds) /\ tags' = tags \o FullTag
      BY <1>1 DEF IInv, LineInv
    <3>2. /\ tags \o FullTag \in Seq(TagKinds)
          /\ Len(tags \o FullTag) = Len(tags) + Len(FullTag)
      BY <2>1, <3>1, ConcatProperties
    <3> QED
      BY <2>1, <3>1, <3>2
  <2>3. Len(tags) = Len(text) - 1
    BY <1>1, <1>4 DEF IInv, LineInv
  <2> QED
    BY <1>1, <1>2, <2>2, <2>3 DEF IInv, LineInv
<1> QED
  BY <1>3, <1>4

LEMMA PartialCharKeeps ==
    ASSUME IInv, PartialChar
    PROVE  LineInv'
<1>1. /\ format = "partial" /\ format' = format /\ expect_char
      /\ tags' = tags /\ text' = Append(text, Cp)
      /\ in_word' = in_word /\ expect_char' = FALSE
  BY DEF PartialChar, CharDue, InPartial, Taken
<1>2. /\ IsSeq(text') /\ text' # <<>> /\ Len(text) \in Nat /\ Len(text') = Len(text) + 1
  BY <1>1, AppendIsSeq DEF IInv, LineInv
<1>3. in_word' \in BOOLEAN /\ ~expect_char' /\ expect_char' \in BOOLEAN
  BY <1>1 DEF IInv, LineInv
<1>4. tags' \in Seq(TagKinds) /\ Len(tags') = Len(text)
  BY <1>1 DEF IInv, LineInv
<1> QED
  BY <1>1, <1>2, <1>3, <1>4 DEF LineInv

LEMMA PartialMarkKeeps ==
    ASSUME IInv, PartialMark
    PROVE  LineInv'
<1>1. /\ format = "partial" /\ format' = format /\ ~expect_char
      /\ \E kind \in TagKinds : tags' = Append(tags, kind)
      /\ text' = text /\ in_word' = in_word /\ expect_char' = TRUE
  BY DEF PartialMark, MarkDue, InPartial, Taken, TagKinds
<1>2. tags' \in Seq(TagKinds) /\ Len(tags') = Len(tags) + 1
  BY <1>1 DEF IInv, LineInv
<1>3. Len(text) \in Nat
  BY EmptyOrPositive DEF IInv, LineInv
<1> QED
  BY <1>1, <1>2, <1>3 DEF IInv, LineInv, IsSeq

\* A line that gives a sentence gives it a tag per gap, a dangling mark taken off.
LEMMA EndLineKeeps ==
    ASSUME IInv, building = "idle", UNCHANGED exampleVars, EndLine
    PROVE  IInv'
<1>1. /\ UNCHANGED <<format, text, tags, in_word, expect_char>>
      /\ stage' = "lines"
      /\ sentences' = IF text = <<>> THEN sentences
                      ELSE Append(sentences, [text |-> text, tags |-> FinalTags])
  BY DEF EndLine, lineVars
<1>2. LineInv'
  BY <1>1, LineUntouched DEF IInv
<1>3. BuiltFromTagPerGap'
  BY <1>1 DEF BuiltFromTagPerGap
<1>4. text # <<>> => Len(FinalTags) = Len(text) - 1
  <2>1. Len(text) \in Nat /\ (text # <<>> => Len(text) > 0)
    BY EmptyOrPositive DEF IInv, LineInv
  <2>2. CASE format = "partial" /\ expect_char
    <3>1. tags \in Seq(TagKinds) /\ Len(tags) = Len(text)
      BY <2>2 DEF IInv, LineInv
    <3>2. ASSUME text # <<>>
          PROVE  Len(SubSeq(tags, 1, Len(tags) - 1)) = Len(tags) - 1
      BY <2>1, <3>1, <3>2
    <3> QED
      BY <2>2, <3>1, <3>2 DEF FinalTags
  <2>3. CASE ~(format = "partial" /\ expect_char)
    BY <2>3 DEF FinalTags, IInv, LineInv
  <2> QED
    BY <2>2, <2>3
<1>5. IsSeq(sentences') /\ TagPerGap'
  <2>1. CASE text = <<>>
    BY <1>1, <2>1 DEF IInv, IsSeq, TagPerGap
  <2>2. CASE text # <<>>
    <3> DEFINE new == [text |-> text, tags |-> FinalTags]
    <3>1. sentences' = Append(sentences, new) /\ IsSeq(sentences)
      BY <1>1, <2>2 DEF IInv
    <3>2. /\ IsSeq(sentences')
          /\ DOMAIN sentences' = 1 .. Len(sentences) + 1 /\ DOMAIN sentences = 1 .. Len(sentences)
          /\ Len(sentences) \in Nat
          /\ sentences'[Len(sentences) + 1] = new
          /\ \A k \in DOMAIN sentences : sentences'[k] = sentences[k]
      BY <3>1, AppendIsSeq
    <3>3. Len(new.tags) = Len(new.text) - 1
      BY <1>4, <2>2
    <3> HIDE DEF new
    <3> QED
      BY <3>2, <3>3 DEF IInv, TagPerGap
  <2> QED
    BY <2>1, <2>2
<1> QED
  BY <1>1, <1>2, <1>3, <1>5 DEF IInv

LEMMA ParseKeeps ==
    ASSUME IInv, building = "idle", UNCHANGED exampleVars, Parse
    PROVE  IInv'
<1>0. building' = "idle"
  BY DEF exampleVars
<1>1. CASE StartLine
  <2>1. /\ UNCHANGED <<format, sentences>>
        /\ text' = <<>> /\ tags' = <<>> /\ in_word' = FALSE /\ expect_char' = TRUE
    BY <1>1 DEF StartLine
  <2>2. LineInv'
    BY <2>1, FreshLine
  <2> QED
    BY <1>0, <2>1, <2>2 DEF IInv, IsSeq, TagPerGap, BuiltFromTagPerGap
<1>2. CASE EndOfFile
  <2>1. UNCHANGED <<format, sentences, text, tags, in_word, expect_char>>
    BY <1>2 DEF EndOfFile, lineVars
  <2>2. LineInv'
    BY <2>1, LineUntouched DEF IInv
  <2> QED
    BY <1>0, <2>1, <2>2 DEF IInv, IsSeq, TagPerGap, BuiltFromTagPerGap
<1>3. CASE BadItem \/ PartialMisplaced \/ PartialUnmarked
  BY <1>3, FailKeeps DEF BadItem, PartialMisplaced, PartialUnmarked
<1>4. CASE EndLine
  BY <1>4, EndLineKeeps
<1>5. CASE FullSpace \/ FullSlash \/ FullTagContent \/ PartialTagContent \/ PartialSlash
  <2>1. Taken
    BY <1>5 DEF FullSpace, FullSlash, FullTagContent, PartialTagContent, PartialSlash
  <2>2. /\ UNCHANGED <<format, text, tags, expect_char>>
        /\ in_word' = in_word \/ in_word' = FALSE
    BY <1>5, <2>1 DEF FullSpace, FullSlash, FullTagContent, PartialTagContent, PartialSlash, Taken
  <2>3. LineInv'
    BY <2>2, LineUntouched DEF IInv
  <2> QED
    BY <2>1, <2>3, TakenKeeps
<1>6. CASE FullChar
  BY <1>6, FullCharKeeps, TakenKeeps DEF FullChar
<1>7. CASE PartialChar
  BY <1>7, PartialCharKeeps, TakenKeeps DEF PartialChar
<1>8. CASE PartialMark
  BY <1>8, PartialMarkKeeps, TakenKeeps DEF PartialMark
<1> QED
  BY <1>1, <1>2, <1>3, <1>4, <1>5, <1>6, <1>7, <1>8 DEF Parse

-----------------------------------------------------------------------------
(* The steps of build_examples. *)

LEMMA CorpusUntouched ==
    ASSUME IInv, UNCHANGED corpusVars, BuiltFromTagPerGap'
    PROVE  IInv'
<1>1. UNCHANGED <<format, sentences, stage, text, tags, in_word, expect_char>>
  BY DEF corpusVars, lineVars
<1>2. LineInv'
  BY <1>1, LineUntouched DEF IInv
<1> QED
  BY <1>1, <1>2 DEF IInv, IsSeq, TagPerGap

LEMMA BuildKeeps ==
    ASSUME IInv, BuildParsed \/ BuildOthers \/ (BuildStep /\ UNCHANGED corpusVars)
    PROVE  IInv'
<1>1. CASE BuildParsed
  <2>1. PICK starts : Build(Clustered(sentences, starts))
    BY <1>1 DEF BuildParsed
  <2>2. sents' = Clustered(sentences, starts)
    BY <2>1 DEF Build
  <2>3. \A k \in DOMAIN sents' : Len(sents'[k].tags) = Len(sents'[k].text) - 1
    BY <2>2 DEF IInv, TagPerGap, Clustered
  <2>4. UNCHANGED corpusVars
    BY <1>1 DEF BuildParsed
  <2> QED
    BY <2>3, <2>4, CorpusUntouched DEF BuiltFromTagPerGap
<1>2. CASE BuildOthers
  <2>1. UNCHANGED corpusVars /\ stage = "lines"
    BY <1>2 DEF BuildOthers
  <2>2. stage' = "lines"
    BY <2>1 DEF corpusVars
  <2> QED
    BY <2>1, <2>2, CorpusUntouched DEF BuiltFromTagPerGap
<1>3. CASE BuildStep /\ UNCHANGED corpusVars
  <2>1. sents' = sents /\ building # "idle"
    BY <1>3 DEF BuildStep, Encode, SkipInvalid, EndOfSentences, Inside, Conflict, Unsupervised,
                Supervised, Unstored, Store, NextGap, InGaps, GapsDone
  <2>2. stage' = stage
    BY <1>3 DEF corpusVars
  <2> QED
    BY <1>3, <2>1, <2>2, CorpusUntouched DEF IInv, BuiltFromTagPerGap
<1> QED
  BY <1>1, <1>2, <1>3

LEMMA StepInv == IInv /\ [Next]_vars => IInv'
<1> SUFFICES ASSUME IInv, [Next]_vars
             PROVE  IInv'
  OBVIOUS
<1>1. CASE building = "idle" /\ Parse /\ UNCHANGED exampleVars
  BY <1>1, ParseKeeps
<1>2. CASE BuildParsed \/ BuildOthers \/ (BuildStep /\ UNCHANGED corpusVars)
  BY <1>2, BuildKeeps
<1>3. CASE UNCHANGED vars
  <2>1. UNCHANGED corpusVars /\ UNCHANGED exampleVars
    BY <1>3 DEF vars
  <2>2. UNCHANGED <<sents, building, stage>>
    BY <2>1 DEF corpusVars, exampleVars
  <2> QED
    BY <2>1, <2>2, CorpusUntouched DEF IInv, BuiltFromTagPerGap
<1> QED
  BY <1>1, <1>2, <1>3 DEF Next

(***************************************************************************)
(* Every sentence parsed, in either format, has one tag per gap between    *)
(* its characters, whatever the corpus holds: tags, escapes, dangling      *)
(* marks, errors further on.                                               *)
(***************************************************************************)
THEOREM TagsFitTheText == Spec => []TagPerGap
<1>1. IInv => TagPerGap
  BY DEF IInv
<1> QED
  BY <1>1, InitInv, StepInv, PTL DEF Spec

(***************************************************************************)
(* build_examples, called on a corpus that was parsed, finds what it       *)
(* asserts of every sentence's tags (example.cpp), and so never indexes    *)
(* past them.                                                              *)
(***************************************************************************)
THEOREM BuildFindsItsTags == Spec => []BuiltFromTagPerGap
<1>1. IInv => BuiltFromTagPerGap
  BY DEF IInv
<1> QED
  BY <1>1, InitInv, StepInv, PTL DEF Spec

-----------------------------------------------------------------------------
(* Numbers and sequences. *)

\* A set of numbers has a least one.
LEMMA LeastNat ==
    ASSUME NEW T, T \subseteq Nat, T # {}
    PROVE  \E n \in T : \A m \in T : n <= m
<1> DEFINE R == {ss \in Nat \X Nat : ss[1] < ss[2]}
<1>1. IsWellFoundedOn(R, Nat)
  BY NatLessThanWellFounded DEF OpToRel
<1> HIDE DEF R
<1>2. \E n \in T : \A m \in T : ~ (<<m, n>> \in R)
  BY <1>1, WFMin
<1>3. PICK n \in T : \A m \in T : ~ (<<m, n>> \in R)
  BY <1>2
<1>4. \A m \in T : <<m, n>> \in R <=> m < n
  BY DEF R
<1>5. \A m \in T : n <= m
  <2> TAKE m \in T
  <2>1. n \in Nat /\ m \in Nat
    OBVIOUS
  <2>2. ~ (m < n)
    BY <1>3, <1>4
  <2> QED
    BY <2>1, <2>2
<1> QED
  BY <1>5

\* Induction, as sets of numbers.
LEMMA Induct ==
    ASSUME NEW S \in SUBSET Nat, 0 \in S, \A n \in S : n + 1 \in S
    PROVE  S = Nat
<1>1. SUFFICES ASSUME Nat \ S # {} PROVE FALSE
  OBVIOUS
<1>2. PICK n \in Nat \ S : \A m \in Nat \ S : n <= m
  BY <1>1, LeastNat
<1>3. n - 1 \in S
  BY <1>2
<1> QED
  BY <1>2, <1>3

\* insert at the end: what was there stays, what is new follows.
LEMMA Appended ==
    ASSUME NEW X, NEW s \in Seq(X), NEW t \in Seq(X)
    PROVE  /\ s \o t \in Seq(X) /\ Len(s) \in Nat /\ Len(t) \in Nat
           /\ Len(s \o t) = Len(s) + Len(t)
           /\ DOMAIN (s \o t) = 1 .. Len(s) + Len(t)
           /\ \A k \in 1 .. Len(s) : (s \o t)[k] = s[k]
           /\ \A k \in 1 .. Len(t) : (s \o t)[Len(s) + k] = t[k]
<1> DEFINE u == s \o t
<1>1. /\ u \in Seq(X) /\ Len(u) = Len(s) + Len(t)
      /\ \A k \in 1 .. Len(s) + Len(t) : u[k] = IF k <= Len(s) THEN s[k] ELSE t[k - Len(s)]
  BY ConcatProperties
<1>2. Len(s) \in Nat /\ Len(t) \in Nat
  OBVIOUS
<1> HIDE DEF u
<1>3. DOMAIN u = 1 .. Len(s) + Len(t)
  BY <1>1, <1>2
<1>4. \A k \in 1 .. Len(s) : u[k] = s[k]
  BY <1>1, <1>2
<1>5. \A k \in 1 .. Len(t) : u[Len(s) + k] = t[k]
  <2> TAKE k \in 1 .. Len(t)
  <2>1. Len(s) + k \in 1 .. Len(s) + Len(t) /\ ~ (Len(s) + k <= Len(s)) /\ (Len(s) + k) - Len(s) = k
    BY <1>2
  <2> QED
    BY <1>1, <2>1
<1> QED
  BY <1>1, <1>2, <1>3, <1>4, <1>5 DEF u

-----------------------------------------------------------------------------
(* The clusters of a sentence: how many start before a code point. *)

Rank(S, c) == Cardinality({t \in S : t < c})

\* A rank is a number, up to all there are.
LEMMA RankBounds ==
    ASSUME NEW n \in Nat, NEW S \in SUBSET (0 .. n - 1)
    PROVE  /\ IsFiniteSet(S) /\ Cardinality(S) \in Nat
           /\ \A c : Rank(S, c) \in Nat /\ Rank(S, c) <= Cardinality(S) /\ IsFiniteSet({t \in S : t < c})
           /\ Rank(S, 0) = 0 /\ Rank(S, n) = Cardinality(S)
<1>1. IsFiniteSet(0 .. n - 1)
  BY FS_Interval
<1>2. IsFiniteSet(S)
  BY <1>1, FS_Subset
<1>3. ASSUME NEW c
      PROVE  Rank(S, c) \in Nat /\ Rank(S, c) <= Cardinality(S) /\ IsFiniteSet({t \in S : t < c})
  <2>1. {t \in S : t < c} \in SUBSET S
    OBVIOUS
  <2> QED
    BY <1>2, <2>1, FS_Subset, FS_CardinalityType DEF Rank
<1>4. {t \in S : t < 0} = {} /\ {t \in S : t < n} = S
  <2>1. \A t \in S : t \in Int /\ ~ (t < 0) /\ t < n
    OBVIOUS
  <2> QED
    BY <2>1
<1>5. Rank(S, 0) = 0 /\ Rank(S, n) = Cardinality(S)
  BY <1>4, FS_EmptySet DEF Rank
<1> QED
  BY <1>2, <1>3, <1>5, FS_CardinalityType

\* One more, if a cluster starts there.
LEMMA RankNext ==
    ASSUME NEW n \in Nat, NEW S \in SUBSET (0 .. n - 1), NEW c \in Int
    PROVE  Rank(S, c + 1) = IF c \in S THEN Rank(S, c) + 1 ELSE Rank(S, c)
<1> DEFINE below == {t \in S : t < c}
<1>0. \A t \in S : t < c + 1 <=> t < c \/ t = c
  <2>1. \A t \in S : t \in Int
    OBVIOUS
  <2> QED
    BY <2>1
<1>1. IsFiniteSet(below)
  BY RankBounds
<1>2. CASE c \in S
  <2>1. {t \in S : t < c + 1} = below \union {c} /\ c \notin below
    <3>1. c \notin below
      OBVIOUS
    <3>2. \A t : t \in S /\ t < c + 1 <=> t \in below \union {c}
      BY <1>0, <1>2
    <3> QED
      BY <3>1, <3>2, Zenon
  <2> HIDE DEF below
  <2>2. Cardinality(below \union {c}) = Cardinality(below) + 1
    BY <1>1, <2>1, FS_AddElement
  <2> QED
    BY <1>2, <2>1, <2>2 DEF Rank, below
<1>3. CASE c \notin S
  <2>1. {t \in S : t < c + 1} = below
    BY <1>0, <1>3
  <2> QED
    BY <1>3, <2>1 DEF Rank
<1> QED
  BY <1>2, <1>3

\* Ranks grow with the code points.
LEMMA RankGrows ==
    ASSUME NEW n \in Nat, NEW S \in SUBSET (0 .. n - 1), NEW a \in Int, NEW b \in Int, a <= b
    PROVE  /\ Rank(S, a) <= Rank(S, b)
           /\ a \in S /\ a < b => Rank(S, a) < Rank(S, b)
<1>1. \A p, q \in Int : p <= q => Rank(S, p) <= Rank(S, q)
  <2> SUFFICES ASSUME NEW p \in Int, NEW q \in Int, p <= q PROVE Rank(S, p) <= Rank(S, q)
    OBVIOUS
  <2>0. \A t \in S : t < p => t < q
    <3>1. \A t \in S : t \in Int
      OBVIOUS
    <3> QED
      BY <3>1
  <2>1. {t \in S : t < p} \in SUBSET {t \in S : t < q}
    BY <2>0, Zenon
  <2>2. IsFiniteSet({t \in S : t < q})
    BY RankBounds
  <2> QED
    BY <2>1, <2>2, FS_Subset DEF Rank
<1>2. ASSUME a \in S, a < b PROVE Rank(S, a) < Rank(S, b)
  <2>1. Rank(S, a + 1) = Rank(S, a) + 1
    BY <1>2, RankNext
  <2>2. Rank(S, a + 1) <= Rank(S, b)
    BY <1>1, <1>2
  <2>3. Rank(S, a) \in Nat /\ Rank(S, b) \in Nat
    BY RankBounds
  <2> QED
    BY <2>1, <2>2, <2>3
<1> QED
  BY <1>1, <1>2

\* Every number of a cluster is the rank of where it starts.
LEMMA RankExists ==
    ASSUME NEW n \in Nat, NEW S \in SUBSET (0 .. n - 1), NEW e \in 0 .. Cardinality(S) - 1
    PROVE  \E s \in S : Rank(S, s) = e
<1> DEFINE T == {c \in Nat : e < Rank(S, c + 1)}
<1>1. Cardinality(S) \in Nat /\ Rank(S, 0) = 0 /\ Rank(S, n) = Cardinality(S) /\ \A c : Rank(S, c) \in Nat
  BY RankBounds
<1>2. n # 0
  BY <1>1
<1>3. n - 1 \in T
  BY <1>1, <1>2
<1>4. PICK c \in T : \A d \in T : c <= d
  BY <1>3, LeastNat
<1>5. c \in Nat /\ e < Rank(S, c + 1)
  OBVIOUS
<1>6. Rank(S, c) <= e
  <2>1. CASE c = 0
    BY <1>1, <2>1
  <2>2. CASE c # 0
    <3>1. c - 1 \in Nat /\ c - 1 \notin T /\ (c - 1) + 1 = c
      BY <1>4, <1>5, <2>2
    <3> QED
      BY <1>1, <3>1
  <2> QED
    BY <2>1, <2>2
<1>7. Rank(S, c + 1) = IF c \in S THEN Rank(S, c) + 1 ELSE Rank(S, c)
  <2>1. c \in Int
    BY <1>5
  <2> HIDE DEF T
  <2> QED
    BY <2>1, RankNext
<1>8. c \in S /\ Rank(S, c) = e
  BY <1>1, <1>5, <1>6, <1>7
<1> QED
  BY <1>8

\* Where cluster e of S starts.
Start(S, e) == CHOOSE s \in S : Cardinality({t \in S : t < s}) = e

LEMMA StartHasRank ==
    ASSUME NEW n \in Nat, NEW S \in SUBSET (0 .. n - 1), NEW e \in 0 .. Cardinality(S) - 1
    PROVE  Start(S, e) \in S /\ Rank(S, Start(S, e)) = e /\ Start(S, e) \in 0 .. n - 1
<1>1. \E s \in S : Cardinality({t \in S : t < s}) = e
  BY RankExists DEF Rank
<1>2. Start(S, e) \in S /\ Cardinality({t \in S : t < Start(S, e)}) = e
  BY <1>1 DEF Start
<1> QED
  BY <1>2 DEF Rank

LEMMA StartOfRank ==
    ASSUME NEW n \in Nat, NEW S \in SUBSET (0 .. n - 1), NEW c \in S
    PROVE  Start(S, Rank(S, c)) = c /\ Rank(S, c) \in 0 .. Cardinality(S) - 1
<1> DEFINE e == Rank(S, c)
           s == Start(S, e)
<1>1. c \in Int /\ n \in Int /\ c < n /\ c <= n
  OBVIOUS
<1>2. Rank(S, c) < Rank(S, n) /\ Rank(S, n) = Cardinality(S) /\ Rank(S, c) \in Nat /\ Cardinality(S) \in Nat
  BY <1>1, RankGrows, RankBounds
<1>3. e \in 0 .. Cardinality(S) - 1
  BY <1>2
<1> HIDE DEF e
<1>4. s \in S /\ Rank(S, s) = e
  BY <1>3, StartHasRank
<1> HIDE DEF s
<1>5. s \in Int
  BY <1>4
<1>6. s < c => Rank(S, s) < Rank(S, c)
  <2>1. s < c => s <= c
    BY <1>1, <1>5
  <2> QED
    BY <1>1, <1>4, <1>5, <2>1, RankGrows
<1>7. c < s => Rank(S, c) < Rank(S, s)
  <2>1. c < s => c <= s
    BY <1>1, <1>5
  <2> QED
    BY <1>1, <1>5, <2>1, RankGrows
<1>8. s = c
  <2>1. ~ (s < c) /\ ~ (c < s)
    BY <1>2, <1>4, <1>6, <1>7 DEF e
  <2> QED
    BY <1>1, <1>5, <2>1
<1> QED
  BY <1>3, <1>8 DEF e, s

-----------------------------------------------------------------------------
(* Flattening. *)

Joins(seqs, n, f) == f = [k \in 0 .. n |-> IF k = 0 THEN <<>> ELSE f[k - 1] \o seqs[k]]

\* The recursive function that Joined defines exists.
LEMMA JoinsExists ==
    ASSUME NEW seqs
    PROVE  \A n \in Nat : \E f : Joins(seqs, n, f)
<1> DEFINE S == {n \in Nat : \E f : Joins(seqs, n, f)}
<1>1. 0 \in S
  <2> DEFINE f == [k \in 0 .. 0 |-> <<>>]
  <2>1. \A k \in 0 .. 0 : k = 0
    OBVIOUS
  <2>2. f = [k \in 0 .. 0 |-> IF k = 0 THEN <<>> ELSE f[k - 1] \o seqs[k]]
    BY <2>1
  <2> QED
    BY <2>2 DEF Joins
<1>2. ASSUME NEW n \in S PROVE n + 1 \in S
  <2>1. PICK g : Joins(seqs, n, g)
    OBVIOUS
  <2> DEFINE f == [k \in 0 .. n + 1 |-> IF k <= n THEN g[k] ELSE g[n] \o seqs[k]]
  <2>2. \A k \in 0 .. n : g[k] = IF k = 0 THEN <<>> ELSE g[k - 1] \o seqs[k]
    BY <2>1 DEF Joins
  <2>3. \A k \in 0 .. n : f[k] = g[k]
    OBVIOUS
  <2>4. f[n + 1] = g[n] \o seqs[n + 1]
    OBVIOUS
  <2>5. \A k \in 0 .. n + 1 : f[k] = IF k = 0 THEN <<>> ELSE f[k - 1] \o seqs[k]
    <3> TAKE k \in 0 .. n + 1
    <3>1. CASE k \in 0 .. n
      <4>1. k # 0 => k - 1 \in 0 .. n
        BY <3>1
      <4> QED
        BY <2>2, <2>3, <3>1, <4>1
    <3>2. CASE k = n + 1
      <4>1. k # 0 /\ k - 1 = n /\ n \in 0 .. n
        BY <3>2
      <4> QED
        BY <2>3, <2>4, <3>2, <4>1
    <3> QED
      BY <3>1, <3>2
  <2> HIDE DEF f
  <2>6. f = [k \in 0 .. n + 1 |-> f[k]]
    BY DEF f
  <2>7. Joins(seqs, n + 1, f)
    BY <2>5, <2>6 DEF Joins
  <2> QED
    BY <2>7
<1> HIDE DEF S
<1>3. S \subseteq Nat
  BY DEF S
<1>4. S = Nat
  BY <1>1, <1>2, <1>3, Induct
<1> QED
  BY <1>4 DEF S

\* What Joined computes on the way.
UpTo(seqs) == CHOOSE f : Joins(seqs, Len(seqs), f)

\* What it is, step by step.
LEMMA UpToIs ==
    ASSUME NEW seqs, Len(seqs) \in Nat
    PROVE  /\ Joined(seqs) = UpTo(seqs)[Len(seqs)]
           /\ UpTo(seqs)[0] = <<>>
           /\ \A k \in 1 .. Len(seqs) : UpTo(seqs)[k] = UpTo(seqs)[k - 1] \o seqs[k]
<1> DEFINE n == Len(seqs)
           f == UpTo(seqs)
<1>1. Joined(seqs) = f[n]
  BY DEF Joined, UpTo, Joins
<1>2. Joins(seqs, n, f)
  BY JoinsExists DEF UpTo
<1> HIDE DEF f
<1>3. \A k \in 0 .. n : f[k] = IF k = 0 THEN <<>> ELSE f[k - 1] \o seqs[k]
  BY <1>2 DEF Joins
<1>4. f[0] = <<>>
  BY <1>3
<1>5. \A k \in 1 .. n : f[k] = f[k - 1] \o seqs[k]
  <2>1. \A k \in 1 .. n : k \in 0 .. n /\ k # 0
    OBVIOUS
  <2> QED
    BY <1>3, <2>1
<1> QED
  BY <1>1, <1>4, <1>5 DEF f

\* The prefixes that are flattened grow by one part after another.
LEMMA JoinedPrefix ==
    ASSUME NEW X, NEW seqs \in Seq(Seq(X))
    PROVE  /\ Joined(SubSeq(seqs, 1, 0)) = <<>>
           /\ Joined(SubSeq(seqs, 1, Len(seqs))) = Joined(seqs)
           /\ \A k \in 0 .. Len(seqs) : Joined(SubSeq(seqs, 1, k)) \in Seq(X)
           /\ \A k \in 1 .. Len(seqs) :
                 Joined(SubSeq(seqs, 1, k)) = Joined(SubSeq(seqs, 1, k - 1)) \o seqs[k]
<1> DEFINE n == Len(seqs)
           f == UpTo(seqs)
<1>1. n \in Nat
  OBVIOUS
<1>2. f[0] = <<>> /\ (\A k \in 1 .. n : f[k] = f[k - 1] \o seqs[k]) /\ Joined(seqs) = f[n]
  BY <1>1, UpToIs
<1> HIDE DEF f
<1>3. ASSUME NEW k \in 0 .. n
      PROVE  Joined(SubSeq(seqs, 1, k)) = f[k]
  <2> DEFINE p == SubSeq(seqs, 1, k)
             g == UpTo(p)
             T == {j \in Nat : j <= k => g[j] = f[j]}
  <2>1. Len(p) = k /\ \A j \in 1 .. k : p[j] = seqs[j]
    BY <1>1
  <2> HIDE DEF p
  <2>2. g[0] = <<>> /\ (\A j \in 1 .. k : g[j] = g[j - 1] \o p[j]) /\ Joined(p) = g[k]
    <3>1. Len(p) \in Nat
      BY <2>1
    <3>2. g[0] = <<>> /\ (\A j \in 1 .. Len(p) : g[j] = g[j - 1] \o p[j]) /\ Joined(p) = g[Len(p)]
      BY <3>1, UpToIs
    <3> HIDE DEF g
    <3> QED
      BY <2>1, <3>2
  <2> HIDE DEF g
  <2>3. 0 \in T
    BY <1>2, <2>2
  <2>4. ASSUME NEW j \in T PROVE j + 1 \in T
    <3> SUFFICES ASSUME j + 1 <= k PROVE g[j + 1] = f[j + 1]
      OBVIOUS
    <3>1. j + 1 \in 1 .. k /\ j + 1 \in 1 .. n /\ (j + 1) - 1 = j /\ g[j] = f[j]
      BY <1>1
    <3> QED
      BY <1>2, <2>1, <2>2, <3>1
  <2> HIDE DEF T
  <2>5. T \subseteq Nat
    BY DEF T
  <2>6. T = Nat
    BY <2>3, <2>4, <2>5, Induct
  <2>7. k \in Nat /\ k <= k
    BY <1>1
  <2> QED
    BY <2>2, <2>6, <2>7 DEF T, p
<1>4. \A k \in 0 .. n : f[k] \in Seq(X)
  <2> DEFINE T == {j \in Nat : j <= n => f[j] \in Seq(X)}
  <2>1. 0 \in T
    <3>1. f[0] \in Seq(X)
      BY <1>2
    <3> QED
      BY <3>1
  <2>2. ASSUME NEW j \in T PROVE j + 1 \in T
    <3> SUFFICES ASSUME j + 1 <= n PROVE f[j + 1] \in Seq(X)
      OBVIOUS
    <3>1. j + 1 \in 1 .. n /\ (j + 1) - 1 = j /\ f[j] \in Seq(X)
      BY <1>1
    <3>2. seqs[j + 1] \in Seq(X)
      BY <3>1
    <3>3. f[j + 1] = f[j] \o seqs[j + 1]
      BY <1>2, <3>1
    <3> QED
      BY <3>1, <3>2, <3>3, ConcatProperties
  <2> HIDE DEF T
  <2>3. T \subseteq Nat
    BY DEF T
  <2>4. T = Nat
    BY <2>1, <2>2, <2>3, Induct
  <2> QED
    BY <1>1, <2>4 DEF T
<1>5. 0 \in 0 .. n /\ n \in 0 .. n /\ \A k \in 1 .. n : k \in 0 .. n /\ k - 1 \in 0 .. n
  BY <1>1
<1> QED
  BY <1>2, <1>3, <1>4, <1>5

-----------------------------------------------------------------------------
(* The invariant of build_examples. *)

Label == [boundary : Nat, label : {0, 1}]
Pairs == Nat \X Nat

\* What a parsed sentence is made of.
ParsedInv ==
    \A k \in DOMAIN sentences :
        IsSeq(sentences[k].text) /\ sentences[k].text # <<>> /\ sentences[k].tags \in Seq(TagKinds)

ControlInv ==
    /\ Len(sents) \in Nat /\ DOMAIN sents = 1 .. Len(sents)
    /\ \A k \in DOMAIN sents : sents[k].valid => Encodable(sents[k])
    /\ building \in {"idle", "sentence", "gaps", "built"}
    /\ at \in 0 .. Len(sents)
    /\ building = "idle" => at = 0 /\ stored = <<>>
    /\ building = "gaps" => at # 0 /\ Sent.valid
    /\ building = "built" => at = Len(sents)

\* The supervised cluster boundaries up to gap m, and what they are labelled.
Marked(s, m) == {x \in s.starts \ {0} : x <= m /\ s.tags[x] # "Unknown"}
LabelAt(s, c) == [boundary |-> Rank(s.starts, c) - 1, label |-> IF s.tags[c] = "Bound" THEN 1 ELSE 0]

IsLabeling(l, s, m) ==
    /\ l \in Seq(Label)
    /\ \A j, k \in DOMAIN l : l[j].boundary = l[k].boundary => j = k
    /\ {l[k] : k \in DOMAIN l} = {LabelAt(s, c) : c \in Marked(s, m)}

GapInv ==
    building = "gaps" =>
        /\ gap \in Nat
        /\ NumCps = 0 => labeled = <<>>
        /\ NumCps # 0 =>
              /\ gap \in 0 .. NumCps - 1
              /\ next_egc = Rank(Sent.starts, gap + 1)
              /\ IsLabeling(labeled, Sent, gap)
              /\ \A g \in 1 .. gap : Sent.tags[g] = "Bound" => g \in Sent.starts

\* Whoever is stored deserves it, and whoever deserves it is.
StoredInv ==
    /\ stored \in Seq(Nat)
    /\ \A id \in DOMAIN stored :
          /\ stored[id] \in 1 .. at
          /\ sents[stored[id]].valid /\ Len(sents[stored[id]].text) # 0
          /\ ~HasConflict(stored[id])

DoneInv ==
    \A s \in 1 .. at :
        /\ building = "gaps" => s # at
        /\ sents[s].valid /\ ~HasConflict(s) /\ ExamplesOf(s) # {}
        => \E id \in DOMAIN stored : stored[id] = s

Example == [sentence : Nat, boundary : Nat, label : {0, 1}]
Mine(id) == {k \in DOMAIN examples : examples[k].sentence = id - 1}
Mark(x) == [boundary |-> x.boundary, label |-> x.label]

Carried(id) ==
    /\ \A j, k \in Mine(id) : examples[j].boundary = examples[k].boundary => j = k
    /\ {Mark(examples[k]) : k \in Mine(id)} = ExamplesOf(stored[id])

ExampleInv ==
    /\ examples \in Seq(Example)
    /\ \A k \in DOMAIN examples : examples[k].sentence < Len(stored)
    /\ \A id \in DOMAIN stored : Carried(id)

\* Where the clusters of a stored sentence, and its code points, are.
Laid(id) ==
    LET s == stored[id]
        n == Len(sents[s].text)
        egcs == Cardinality(sents[s].starts)
        first == sentence_starts[id]
    IN  /\ first + egcs + 1 <= Len(egc_starts)
        /\ \E base \in Nat :
              /\ base + n <= Len(rows)
              /\ \A e \in 0 .. egcs :
                    egc_starts[first + 1 + e] = base + IF e < egcs THEN Start(sents[s].starts, e) ELSE n
              /\ \A c \in 0 .. n - 1 : rows[base + 1 + c] = <<s, c>>

LayoutInv ==
    /\ rows \in Seq(Pairs) /\ egc_starts \in Seq(Nat) /\ sentence_starts \in Seq(Nat)
    /\ Len(sentence_starts) = Len(stored) + 1
    /\ sentence_starts[Len(stored) + 1] + 1 = Len(egc_starts)
    /\ egc_starts[Len(egc_starts)] = Len(rows)
    /\ \A id \in DOMAIN stored : Laid(id)

FeatureInv ==
    /\ feat_indices \in Seq(Pairs) /\ feat_offsets \in Seq(Nat)
    /\ Len(feat_offsets) = Len(examples) + 1
    /\ feat_offsets[Len(examples) + 1] = Len(feat_indices)
    /\ \A k \in DOMAIN examples :
          /\ feat_offsets[k] <= feat_offsets[k + 1] /\ feat_offsets[k + 1] <= Len(feat_indices)
          /\ SubSeq(feat_indices, feat_offsets[k] + 1, feat_offsets[k + 1]) =
                FeaturesAt(stored[examples[k].sentence + 1], examples[k].boundary)

SetInv == StoredInv /\ ExampleInv /\ LayoutInv /\ FeatureInv
EInv == ParsedInv /\ ControlInv /\ GapInv /\ DoneInv /\ SetInv

-----------------------------------------------------------------------------
\* Nothing is stored at first.
LEMMA InitEInv == Init => EInv
<1> SUFFICES ASSUME Init PROVE EInv
  OBVIOUS
<1>1. /\ sentences = <<>> /\ sents = <<>> /\ building = "idle" /\ at = 0 /\ stored = <<>>
      /\ rows = <<>> /\ egc_starts = <<0>> /\ sentence_starts = <<0>>
      /\ examples = <<>> /\ feat_offsets = <<0>> /\ feat_indices = <<>>
  BY DEF Init, CorpusInit, ExamplesInit
<1>2. ParsedInv /\ ControlInv /\ GapInv /\ DoneInv
  BY <1>1 DEF ParsedInv, ControlInv, GapInv, DoneInv
<1>3. Len(stored) = 0 /\ stored \in Seq(Nat) /\ DOMAIN stored = {}
  BY <1>1
<1>4. StoredInv
  BY <1>3 DEF StoredInv
<1>5. Len(examples) = 0 /\ examples \in Seq(Example) /\ DOMAIN examples = {}
  BY <1>1
<1>6. ExampleInv
  BY <1>3, <1>5 DEF ExampleInv
<1>7. LayoutInv
  BY <1>1, <1>3 DEF LayoutInv
<1>8. FeatureInv
  BY <1>1, <1>5 DEF FeatureInv
<1> QED
  BY <1>2, <1>4, <1>6, <1>7, <1>8 DEF SetInv, EInv

\* What stays while the set does.
LEMMA SetUntouched ==
    ASSUME SetInv, UNCHANGED <<sents, setVars, stored>>, at \in Nat, at' \in {at, at + 1}
    PROVE  SetInv'
<1>1. StoredInv'
  <2>1. \A s : s \in 1 .. at => s \in 1 .. at'
    OBVIOUS
  <2> QED
    BY <2>1 DEF SetInv, StoredInv, HasConflict
<1>2. UNCHANGED <<rows, egc_starts, sentence_starts, examples, feat_offsets, feat_indices>>
  BY DEF setVars
<1>3. ExampleInv'
  <2>1. \A id : Carried(id)' <=> Carried(id)
    BY <1>2 DEF Carried, Mine, ExamplesOf
  <2> QED
    BY <1>2, <2>1 DEF SetInv, ExampleInv
<1>4. LayoutInv'
  <2>1. \A id : Laid(id)' <=> Laid(id)
    BY <1>2 DEF Laid
  <2> QED
    BY <1>2, <2>1 DEF SetInv, LayoutInv
<1>5. FeatureInv'
  BY <1>2 DEF SetInv, FeatureInv
<1> QED
  BY <1>1, <1>3, <1>4, <1>5 DEF SetInv

-----------------------------------------------------------------------------
(* The parser's steps. *)

\* Only a line that ends adds a sentence.
LEMMA ParsedKeeps ==
    ASSUME IInv, ParsedInv, Parse
    PROVE  ParsedInv'
<1>1. CASE EndLine
  <2>1. sentences' = IF text = <<>> THEN sentences ELSE Append(sentences, [text |-> text, tags |-> FinalTags])
    BY <1>1 DEF EndLine
  <2>2. CASE text = <<>>
    BY <2>1, <2>2 DEF ParsedInv
  <2>3. CASE text # <<>>
    <3> DEFINE new == [text |-> text, tags |-> FinalTags]
    <3>1. IsSeq(text) /\ tags \in Seq(TagKinds) /\ Len(tags) \in Nat
      BY DEF IInv, LineInv
    <3>2. FinalTags \in Seq(TagKinds)
      <4>1. CASE format = "partial" /\ expect_char
        <5>1. Len(tags) = Len(text)
          BY <4>1 DEF IInv, LineInv
        <5>2. Len(tags) - 1 \in 0 .. Len(tags)
          BY <2>3, <3>1, <5>1, EmptyOrPositive
        <5>3. SubSeq(tags, 1, Len(tags) - 1) \in Seq(TagKinds)
          BY <3>1, <5>2, SubSeqProperties
        <5> QED
          BY <4>1, <5>3 DEF FinalTags
      <4>2. CASE ~(format = "partial" /\ expect_char)
        BY <3>1, <4>2 DEF FinalTags
      <4> QED
        BY <4>1, <4>2
    <3>3. IsSeq(sentences)
      BY DEF IInv
    <3>4. /\ DOMAIN sentences' = 1 .. Len(sentences) + 1 /\ DOMAIN sentences = 1 .. Len(sentences)
          /\ Len(sentences) \in Nat
          /\ sentences'[Len(sentences) + 1] = new
          /\ \A k \in DOMAIN sentences : sentences'[k] = sentences[k]
      BY <2>1, <2>3, <3>3, AppendIsSeq
    <3>5. IsSeq(new.text) /\ new.text # <<>> /\ new.tags \in Seq(TagKinds)
      BY <2>3, <3>1, <3>2
    <3> HIDE DEF new
    <3> QED
      BY <3>4, <3>5 DEF ParsedInv
  <2> QED
    BY <2>2, <2>3
<1>2. CASE sentences' = sentences
  BY <1>2 DEF ParsedInv
<1>3. CASE sentences' = <<>>
  BY <1>3 DEF ParsedInv
<1>4. EndLine \/ sentences' = sentences \/ sentences' = <<>>
  BY DEF Parse, StartLine, EndOfFile, BadItem, Fail, FullSpace, FullSlash, FullTagContent, FullChar,
         PartialTagContent, PartialChar, PartialMisplaced, PartialSlash, PartialMark, PartialUnmarked, Taken
<1> QED
  BY <1>1, <1>2, <1>3, <1>4

\* Steps of the corpus leave the examples alone.
LEMMA ParseStepKeeps ==
    ASSUME IInv, EInv, Parse \/ UNCHANGED corpusVars, UNCHANGED exampleVars
    PROVE  EInv'
<1>1. UNCHANGED <<sents, building, at, gap, next_egc, labeled, setVars, stats, stored>>
  BY DEF exampleVars
<1>2. at \in Nat
  <2>1. at \in 0 .. Len(sents) /\ Len(sents) \in Nat
    BY DEF EInv, ControlInv
  <2> QED
    BY <2>1
<1>3. SetInv'
  BY <1>1, <1>2, SetUntouched DEF EInv
<1>4. ControlInv'
  BY <1>1 DEF EInv, ControlInv, Sent
<1>5. GapInv'
  <2>1. Sent' = Sent /\ NumCps' = NumCps
    BY <1>1 DEF Sent, NumCps
  <2> QED
    BY <1>1, <2>1 DEF EInv, GapInv
<1>6. DoneInv'
  <2>1. \A s : HasConflict(s)' = HasConflict(s) /\ ExamplesOf(s)' = ExamplesOf(s)
    BY <1>1 DEF HasConflict, ExamplesOf
  <2> QED
    BY <1>1, <2>1 DEF EInv, DoneInv
<1>7. ParsedInv'
  <2>1. CASE Parse
    BY <2>1, ParsedKeeps DEF EInv
  <2>2. CASE UNCHANGED corpusVars
    BY <2>2 DEF EInv, ParsedInv, corpusVars
  <2> QED
    BY <2>1, <2>2
<1> QED
  BY <1>3, <1>4, <1>5, <1>6, <1>7 DEF EInv

\* build_examples begins, with sentences that it can encode.
LEMMA BuildBegins ==
    ASSUME EInv, building = "idle", NEW given, Build(given), UNCHANGED corpusVars,
           Len(given) \in Nat, DOMAIN given = 1 .. Len(given),
           \A k \in DOMAIN given : given[k].valid => Encodable(given[k])
    PROVE  EInv'
<1>1. /\ building' = "sentence" /\ sents' = given /\ at' = at /\ at = 0 /\ stored' = stored /\ stored = <<>>
      /\ UNCHANGED <<rows, egc_starts, sentence_starts, examples, feat_offsets, feat_indices>>
  BY DEF Build, EInv, ControlInv, setVars
<1>2. ParsedInv'
  BY DEF EInv, ParsedInv, corpusVars
<1>3. ControlInv'
  BY <1>1 DEF ControlInv
<1>4. GapInv' /\ DoneInv'
  BY <1>1 DEF GapInv, DoneInv
<1>5. DOMAIN stored = {} /\ Len(stored) = 0
  BY <1>1
<1>6. DOMAIN examples = {}
  <2>1. examples \in Seq(Example) /\ \A k \in DOMAIN examples : examples[k].sentence < 0
    BY <1>5 DEF EInv, SetInv, ExampleInv
  <2>2. \A k \in DOMAIN examples : examples[k] \in Example
    BY <2>1
  <2>3. \A x \in Example : x.sentence \in Nat
    BY DEF Example
  <2>4. \A k \in DOMAIN examples : FALSE
    BY <2>1, <2>2, <2>3
  <2> QED
    BY <2>4
<1>7. StoredInv' /\ ExampleInv'
  BY <1>1, <1>5, <1>6 DEF EInv, SetInv, StoredInv, ExampleInv
<1>8. LayoutInv' /\ FeatureInv'
  BY <1>1, <1>5, <1>6 DEF EInv, SetInv, LayoutInv, FeatureInv
<1> QED
  BY <1>2, <1>3, <1>4, <1>7, <1>8 DEF EInv, SetInv

\* Sentences of a corpus can be encoded: they have a tag per gap.
LEMMA BuildParsedKeeps ==
    ASSUME IInv, EInv, BuildParsed
    PROVE  EInv'
<1>1. PICK starts :
         /\ \A k \in DOMAIN sentences : starts[k] \in Clusterings(Len(sentences[k].text))
         /\ Build(Clustered(sentences, starts))
  BY DEF BuildParsed
<1> DEFINE given == Clustered(sentences, starts)
<1>2. Len(sentences) \in Nat /\ DOMAIN sentences = 1 .. Len(sentences)
  BY EmptyOrPositive DEF IInv, IsSeq
<1>3. /\ DOMAIN given = DOMAIN sentences
      /\ \A k \in DOMAIN sentences :
            given[k].text = sentences[k].text /\ given[k].tags = sentences[k].tags /\ given[k].starts = starts[k]
  BY DEF Clustered
<1>4. Len(given) = Len(sentences)
  BY <1>2, <1>3
<1> HIDE DEF given
<1>5. ASSUME NEW k \in DOMAIN sentences
      PROVE  Encodable(given[k])
  <2> DEFINE n == Len(sentences[k].text)
  <2>1. /\ n \in Nat /\ n # 0 /\ sentences[k].tags \in Seq(TagKinds) /\ Len(sentences[k].tags) = n - 1
    BY EmptyOrPositive DEF EInv, ParsedInv, IInv, TagPerGap
  <2>2. starts[k] \in Clusterings(n)
    BY <1>1
  <2>3. PICK S \in SUBSET (1 .. n - 1) : starts[k] = {0} \cup S
    BY <2>2 DEF Clusterings
  <2>4. starts[k] \subseteq 0 .. n - 1 /\ 0 \in starts[k]
    BY <2>1, <2>3
  <2> QED
    BY <1>3, <2>1, <2>4 DEF Encodable
<1>6. UNCHANGED corpusVars /\ building = "idle"
  BY <1>1 DEF BuildParsed, Build
<1> QED
  BY <1>1, <1>2, <1>3, <1>4, <1>5, <1>6, BuildBegins DEF given

\* So can those of other callers.
LEMMA BuildOthersKeeps ==
    ASSUME EInv, BuildOthers
    PROVE  EInv'
<1>1. PICK given \in OtherSentences : Build(given)
  BY DEF BuildOthers
<1>2. UNCHANGED corpusVars /\ building = "idle"
  BY <1>1 DEF BuildOthers, Build
<1> QED
  BY <1>1, <1>2, OtherAssumption, BuildBegins

-----------------------------------------------------------------------------
(* The gaps of a sentence. *)

\* The sentence whose gaps are walked.
LEMMA SentIsEncodable ==
    ASSUME EInv, building = "gaps"
    PROVE  /\ at \in 1 .. Len(sents) /\ Len(sents) \in Nat /\ Sent = sents[at] /\ Sent.valid
           /\ NumCps \in Nat /\ Sent.starts \in SUBSET (0 .. NumCps - 1)
           /\ NumEgcs = Cardinality(Sent.starts)
           /\ NumCps # 0 => 0 \in Sent.starts /\ Sent.tags \in Seq(TagKinds) /\ Len(Sent.tags) = NumCps - 1
<1>1. /\ Len(sents) \in Nat /\ at \in 0 .. Len(sents) /\ at # 0 /\ Sent.valid /\ DOMAIN sents = 1 .. Len(sents)
      /\ \A k \in DOMAIN sents : sents[k].valid => Encodable(sents[k])
  BY DEF EInv, ControlInv
<1>2. at \in 1 .. Len(sents)
  BY <1>1
<1>3. Encodable(Sent)
  BY <1>1, <1>2 DEF Sent
<1> QED
  BY <1>1, <1>2, <1>3 DEF Encodable, NumCps, NumEgcs, Sent

\* "Gap g coincides with EGC boundary b iff codepoint g+1 starts EGC b+1."
LEMMA EgcBoundary ==
    ASSUME EInv, building = "gaps", gap + 1 < NumCps
    PROVE  /\ gap \in Nat /\ gap + 1 \in 1 .. NumCps - 1 /\ NumCps # 0
           /\ AtEgcBoundary <=> gap + 1 \in Sent.starts
<1> DEFINE S == Sent.starts
           n == NumCps
           c == gap + 1
<1>1. n \in Nat /\ S \in SUBSET (0 .. n - 1) /\ NumEgcs = Cardinality(S)
  BY SentIsEncodable
<1>2. gap \in Nat /\ (n # 0 => next_egc = Rank(S, gap + 1))
  BY DEF EInv, GapInv
<1>3. c \in 1 .. n - 1 /\ n # 0
  BY <1>1, <1>2
<1>4. \A e : StartOf(e) = Start(S, e)
  BY DEF StartOf, Start
<1>5. next_egc = Rank(S, c) /\ next_egc \in Nat
  <2>1. next_egc = Rank(S, c)
    BY <1>2, <1>3
  <2> HIDE DEF S, c, n
  <2>2. Rank(S, c) \in Nat
    BY <1>1, RankBounds
  <2> QED
    BY <2>1, <2>2
<1>6. AtEgcBoundary <=> next_egc < Cardinality(S) /\ Start(S, next_egc) = c
  BY <1>1, <1>4 DEF AtEgcBoundary
<1> HIDE DEF S, n, c
<1>7. ASSUME AtEgcBoundary PROVE c \in S
  <2>1. Cardinality(S) \in Nat
    BY <1>1, RankBounds
  <2>2. next_egc \in 0 .. Cardinality(S) - 1
    BY <1>5, <1>6, <1>7, <2>1
  <2>3. Start(S, next_egc) \in S
    BY <1>1, <2>2, StartHasRank
  <2> QED
    BY <1>6, <1>7, <2>3
<1>8. ASSUME c \in S PROVE AtEgcBoundary
  <2>1. Start(S, Rank(S, c)) = c /\ Rank(S, c) \in 0 .. Cardinality(S) - 1
    BY <1>1, <1>8, StartOfRank
  <2>2. Cardinality(S) \in Nat
    BY <1>1, RankBounds
  <2> QED
    BY <1>5, <1>6, <2>1, <2>2
<1> QED
  BY <1>2, <1>3, <1>7, <1>8 DEF S, n, c

\* One gap further on.
LEMMA MarkedNext ==
    ASSUME NEW s, NEW n \in Nat, s.starts \in SUBSET (0 .. n - 1), NEW m \in Nat
    PROVE  Marked(s, m + 1) = IF m + 1 \in s.starts /\ s.tags[m + 1] # "Unknown"
                              THEN Marked(s, m) \union {m + 1} ELSE Marked(s, m)
<1> DEFINE S == s.starts
<1>1. \A x \in S : x \in Int
  OBVIOUS
<1>2. \A x \in S : x <= m + 1 <=> x <= m \/ x = m + 1
  BY <1>1
<1>3. m + 1 # 0
  OBVIOUS
<1>4. CASE m + 1 \in S /\ s.tags[m + 1] # "Unknown"
  <2>1. \A x : x \in Marked(s, m + 1) <=> x \in Marked(s, m) \union {m + 1}
    BY <1>2, <1>3, <1>4 DEF Marked
  <2> QED
    BY <1>4, <2>1
<1>5. CASE ~(m + 1 \in S /\ s.tags[m + 1] # "Unknown")
  <2>1. \A x : x \in Marked(s, m + 1) <=> x \in Marked(s, m)
    BY <1>2, <1>5 DEF Marked
  <2> QED
    BY <1>5, <2>1
<1> QED
  BY <1>4, <1>5

\* push_back of the label of a cluster that starts after all those labelled.
LEMMA LabelingGrows ==
    ASSUME NEW s, NEW n \in Nat, s.starts \in SUBSET (0 .. n - 1), NEW m \in Nat, 0 \in s.starts,
           NEW l, IsLabeling(l, s, m), m + 1 \in s.starts, s.tags[m + 1] # "Unknown"
    PROVE  IsLabeling(Append(l, LabelAt(s, m + 1)), s, m + 1)
<1> DEFINE S == s.starts
           c == m + 1
           new == LabelAt(s, c)
           t == Append(l, new)
           len == Len(l)
<1>1. /\ l \in Seq(Label) /\ {l[k] : k \in DOMAIN l} = {LabelAt(s, x) : x \in Marked(s, m)}
      /\ \A j, k \in DOMAIN l : l[j].boundary = l[k].boundary => j = k
  BY DEF IsLabeling
<1>2. \A x \in S : x \in Int /\ x >= 0
  OBVIOUS
<1>3. \A x \in S : x < c => Rank(S, x) < Rank(S, c)
  <2> SUFFICES ASSUME NEW x \in S, x < c PROVE Rank(S, x) < Rank(S, c)
    OBVIOUS
  <2>1. x \in Int /\ c \in Int /\ x <= c
    BY <1>2
  <2> QED
    BY <2>1, RankGrows
<1>4. \A x : Rank(S, x) \in Nat
  BY RankBounds
<1>5. new \in Label /\ new.boundary = Rank(S, c) - 1
  <2>1. Rank(S, 0) < Rank(S, c)
    BY <1>3
  <2>2. Rank(S, c) - 1 \in Nat
    BY <1>4, <2>1
  <2> QED
    BY <2>2 DEF LabelAt, Label
<1>6. \A x \in Marked(s, m) : x \in S /\ x < c /\ LabelAt(s, x).boundary = Rank(S, x) - 1
  BY <1>2 DEF Marked, LabelAt
<1>7. \A k \in DOMAIN l : l[k].boundary # new.boundary
  <2> TAKE k \in DOMAIN l
  <2>1. PICK x \in Marked(s, m) : l[k] = LabelAt(s, x)
    BY <1>1
  <2>2. x \in S /\ x < c /\ l[k].boundary = Rank(S, x) - 1
    BY <1>6, <2>1
  <2>3. Rank(S, x) < Rank(S, c) /\ Rank(S, x) \in Nat /\ Rank(S, c) \in Nat
    BY <1>3, <1>4, <2>2
  <2> QED
    BY <1>5, <2>2, <2>3
<1>8. /\ len \in Nat /\ DOMAIN l = 1 .. len
      /\ t \in Seq(Label) /\ DOMAIN t = 1 .. len + 1
      /\ t[len + 1] = new /\ \A k \in 1 .. len : t[k] = l[k]
  BY <1>1, <1>5
<1> HIDE DEF t, new, len, c
<1>9. \A k \in 1 .. len + 1 : k \in 1 .. len \/ k = len + 1
  BY <1>8
<1>10. \A j, k \in DOMAIN t : t[j].boundary = t[k].boundary => j = k
  BY <1>1, <1>7, <1>8, <1>9, Zenon
<1>11. {t[k] : k \in DOMAIN t} = {LabelAt(s, x) : x \in Marked(s, c)}
  <2>1. {t[k] : k \in DOMAIN t} = {l[k] : k \in DOMAIN l} \union {new}
    <3>1. len + 1 \in 1 .. len + 1 /\ \A k \in 1 .. len : k \in 1 .. len + 1
      BY <1>8
    <3> QED
      BY <1>8, <1>9, <3>1
  <2>2. Marked(s, c) = Marked(s, m) \union {c}
    BY MarkedNext DEF c
  <2>3. {LabelAt(s, x) : x \in Marked(s, c)} = {LabelAt(s, x) : x \in Marked(s, m)} \union {new}
    BY <2>2 DEF new
  <2> QED
    BY <1>1, <2>1, <2>3
<1> QED
  BY <1>8, <1>10, <1>11 DEF IsLabeling, t, new, c

\* The steps over a gap that is not a conflict.
LEMMA GapKeeps ==
    ASSUME EInv, UNCHANGED corpusVars, Inside \/ Unsupervised \/ Supervised
    PROVE  EInv'
<1> DEFINE S == Sent.starts
           c == gap + 1
<1>1. /\ building = "gaps" /\ gap + 1 < NumCps /\ gap' = gap + 1
      /\ UNCHANGED <<sents, building, at, setVars, stored>>
  BY DEF Inside, Unsupervised, Supervised, InGaps, NextGap
<1>2. /\ NumCps \in Nat /\ S \in SUBSET (0 .. NumCps - 1) /\ 0 \in S
      /\ at \in 1 .. Len(sents) /\ Len(sents) \in Nat
  BY <1>1, SentIsEncodable, EgcBoundary
<1>3. /\ gap \in Nat /\ c \in 1 .. NumCps - 1 /\ NumCps # 0
      /\ AtEgcBoundary <=> c \in S
  BY <1>1, EgcBoundary
<1>4. /\ next_egc = Rank(S, c) /\ IsLabeling(labeled, Sent, gap)
      /\ \A g \in 1 .. gap : Sent.tags[g] = "Bound" => g \in S
  BY <1>1, <1>3 DEF EInv, GapInv
<1>5. Rank(S, c + 1) = IF c \in S THEN Rank(S, c) + 1 ELSE Rank(S, c)
  <2>1. c \in Int
    BY <1>3
  <2> QED
    BY <1>2, <2>1, RankNext
<1>6. Marked(Sent, c) = IF c \in S /\ Tag # "Unknown" THEN Marked(Sent, gap) \union {c} ELSE Marked(Sent, gap)
  BY <1>2, <1>3, MarkedNext DEF Tag
<1>7. Sent' = Sent /\ NumCps' = NumCps
  BY <1>1 DEF Sent, NumCps
<1>8. /\ next_egc' = Rank(S, c + 1) /\ IsLabeling(labeled', Sent, c)
      /\ Tag = "Bound" => c \in S
  <2>1. CASE Inside
    <3>1. c \notin S /\ Tag # "Bound" /\ next_egc' = next_egc /\ labeled' = labeled
      BY <1>3, <2>1 DEF Inside
    <3> QED
      BY <1>4, <1>5, <1>6, <3>1 DEF IsLabeling
  <2>2. CASE Unsupervised
    <3>1. c \in S /\ Tag = "Unknown" /\ next_egc' = next_egc + 1 /\ labeled' = labeled
      BY <1>3, <2>2 DEF Unsupervised
    <3> QED
      BY <1>4, <1>5, <1>6, <3>1 DEF IsLabeling
  <2>3. CASE Supervised
    <3>1. /\ c \in S /\ Tag # "Unknown" /\ next_egc' = next_egc + 1
          /\ labeled' = Append(labeled, LabelAt(Sent, c))
      BY <1>3, <1>4, <2>3 DEF Supervised, LabelAt, Tag
    <3>2. IsLabeling(Append(labeled, LabelAt(Sent, c)), Sent, c)
      BY <1>2, <1>3, <1>4, <3>1, LabelingGrows DEF Tag
    <3> QED
      BY <1>4, <1>5, <3>1, <3>2
  <2> QED
    BY <2>1, <2>2, <2>3
<1>9. GapInv'
  <2>1. \A g \in 1 .. c : Sent.tags[g] = "Bound" => g \in S
    <3>1. \A g \in 1 .. c : g \in 1 .. gap \/ g = c
      BY <1>3
    <3> QED
      BY <1>4, <1>8, <3>1 DEF Tag
  <2>2. gap' \in Nat /\ gap' \in 0 .. NumCps - 1 /\ gap' = c
    BY <1>1, <1>3
  <2> HIDE DEF c
  <2> QED
    BY <1>1, <1>3, <1>7, <1>8, <2>1, <2>2 DEF GapInv
<1>10. ParsedInv'
  BY DEF EInv, ParsedInv, corpusVars
<1>11. ControlInv'
  BY <1>1, <1>7 DEF EInv, ControlInv
<1>12. DoneInv'
  <2>1. \A s : HasConflict(s)' = HasConflict(s) /\ ExamplesOf(s)' = ExamplesOf(s)
    BY <1>1 DEF HasConflict, ExamplesOf
  <2> QED
    BY <1>1, <2>1 DEF EInv, DoneInv
<1>13. SetInv'
  <2>1. at \in Nat
    BY <1>2
  <2> QED
    BY <1>1, <2>1, SetUntouched DEF EInv
<1> QED
  BY <1>9, <1>10, <1>11, <1>12, <1>13 DEF EInv

\* The examples a sentence should give are its labels at the last gap.
LEMMA ExamplesAreLabels ==
    ASSUME NEW s, NEW n \in Nat, sents[s].starts \in SUBSET (0 .. n - 1)
    PROVE  ExamplesOf(s) = {LabelAt(sents[s], c) : c \in Marked(sents[s], n - 1)}
<1>1. \A x \in sents[s].starts : x <= n - 1
  OBVIOUS
<1>2. {x \in sents[s].starts \ {0} : sents[s].tags[x] # "Unknown"} = Marked(sents[s], n - 1)
  BY <1>1 DEF Marked
<1> QED
  BY <1>2 DEF ExamplesOf, LabelAt, Rank

\* A sentence whose gaps are done.
LEMMA DoneIsLabeled ==
    ASSUME EInv, GapsDone
    PROVE  /\ NumCps = 0 => labeled = <<>> /\ ExamplesOf(at) = {}
           /\ NumCps # 0 =>
                 /\ ~HasConflict(at)
                 /\ labeled \in Seq(Label)
                 /\ \A j, k \in DOMAIN labeled : labeled[j].boundary = labeled[k].boundary => j = k
                 /\ {labeled[k] : k \in DOMAIN labeled} = ExamplesOf(at)
<1> DEFINE n == NumCps
<1>1. building = "gaps" /\ ~ (gap + 1 < n)
  <2>1. building = "gaps" /\ gap + 1 >= n
    BY DEF GapsDone
  <2>2. gap \in Nat /\ n \in Nat
    BY <2>1, SentIsEncodable DEF EInv, GapInv
  <2> QED
    BY <2>1, <2>2
<1>2. /\ n \in Nat /\ Sent.starts \in SUBSET (0 .. n - 1) /\ Sent = sents[at]
      /\ n # 0 => Sent.tags \in Seq(TagKinds) /\ Len(Sent.tags) = n - 1
  BY <1>1, SentIsEncodable
<1>3. ExamplesOf(at) = {LabelAt(Sent, c) : c \in Marked(Sent, n - 1)}
  <2> HIDE DEF n
  <2>1. sents[at].starts \in SUBSET (0 .. n - 1)
    BY <1>2
  <2>2. ExamplesOf(at) = {LabelAt(sents[at], c) : c \in Marked(sents[at], n - 1)}
    BY <1>2, <2>1, ExamplesAreLabels
  <2> QED
    BY <1>2, <2>2
<1>4. CASE n = 0
  <2>1. Sent.starts = {}
    BY <1>2, <1>4
  <2>2. Marked(Sent, n - 1) = {}
    BY <2>1 DEF Marked
  <2>3. labeled = <<>>
    BY <1>1, <1>4 DEF EInv, GapInv
  <2> QED
    BY <1>3, <1>4, <2>2, <2>3
<1>5. CASE n # 0
  <2>1. /\ gap \in 0 .. n - 1 /\ IsLabeling(labeled, Sent, gap)
        /\ \A g \in 1 .. gap : Sent.tags[g] = "Bound" => g \in Sent.starts
    BY <1>1, <1>5 DEF EInv, GapInv
  <2>2. gap = n - 1
    BY <1>1, <1>2, <2>1
  <2>3. DOMAIN Sent.tags = 1 .. gap
    BY <1>2, <1>5, <2>2
  <2>4. ~HasConflict(at)
    BY <1>2, <2>1, <2>3 DEF HasConflict
  <2>5. IsLabeling(labeled, Sent, n - 1)
    BY <2>1, <2>2
  <2> QED
    BY <1>3, <1>5, <2>4, <2>5 DEF IsLabeling
<1> QED
  BY <1>4, <1>5

\* Sentences begun and left.
LEMMA SentenceKeeps ==
    ASSUME EInv, UNCHANGED corpusVars, Encode \/ SkipInvalid \/ EndOfSentences \/ Conflict \/ Unstored
    PROVE  EInv'
<1>1. /\ UNCHANGED <<sents, setVars, stored>> /\ building \in {"sentence", "gaps"}
      /\ at' \in {at, at + 1} /\ building' \in {"sentence", "gaps", "built"}
  BY DEF Encode, SkipInvalid, EndOfSentences, Conflict, Unstored, InGaps, GapsDone
<1>2. at \in 0 .. Len(sents) /\ Len(sents) \in Nat
  BY DEF EInv, ControlInv
<1>3. SetInv'
  <2>1. at \in Nat
    BY <1>2
  <2> QED
    BY <1>1, <2>1, SetUntouched DEF EInv
<1>4. ParsedInv'
  BY DEF EInv, ParsedInv, corpusVars
<1>5. \A s : HasConflict(s)' = HasConflict(s) /\ ExamplesOf(s)' = ExamplesOf(s)
  BY <1>1 DEF HasConflict, ExamplesOf
<1>6. CASE Encode
  <2>1. /\ building = "sentence" /\ building' = "gaps" /\ at' = at + 1 /\ sents[at + 1].valid
        /\ gap' = 0 /\ next_egc' = 1 /\ labeled' = <<>> /\ at < Len(sents)
    BY <1>6 DEF Encode
  <2> DEFINE s == sents[at + 1]
             n == Len(s.text)
  <2>2. Sent' = s /\ NumCps' = n
    BY <1>1, <2>1 DEF Sent, NumCps
  <2>3. ControlInv'
    BY <1>1, <1>2, <2>1, <2>2 DEF EInv, ControlInv
  <2>4. Encodable(s)
    <3>1. at + 1 \in DOMAIN sents
      BY <1>2, <2>1 DEF EInv, ControlInv
    <3> QED
      BY <2>1, <3>1 DEF EInv, ControlInv
  <2>5. n \in Nat /\ s.starts \in SUBSET (0 .. n - 1) /\ (n # 0 => 0 \in s.starts)
    BY <2>4 DEF Encodable
  <2> HIDE DEF s, n
  <2>6. GapInv'
    <3>1. ASSUME n # 0 PROVE Rank(s.starts, 0 + 1) = 1
      <4>0. 0 \in Int
        OBVIOUS
      <4>1. Rank(s.starts, 0 + 1) = IF 0 \in s.starts THEN Rank(s.starts, 0) + 1 ELSE Rank(s.starts, 0)
        BY <2>5, <4>0, RankNext, Zenon
      <4>2. Rank(s.starts, 0) = 0
        BY <2>5, RankBounds
      <4> QED
        BY <2>5, <3>1, <4>1, <4>2
    <3>2. IsLabeling(<<>>, s, 0)
      <4>1. \A x \in s.starts \ {0} : x \in Int /\ ~ (x <= 0)
        BY <2>5
      <4>2. Marked(s, 0) = {}
        BY <4>1 DEF Marked
      <4>3. DOMAIN <<>> = {} /\ <<>> \in Seq(Label)
        OBVIOUS
      <4> QED
        BY <4>2, <4>3 DEF IsLabeling
    <3>3. n # 0 => 0 \in 0 .. n - 1
      BY <2>5
    <3> QED
      BY <2>1, <2>2, <3>1, <3>2, <3>3 DEF GapInv
  <2>7. DoneInv'
    <3>1. \A x \in 1 .. at + 1 : x # at + 1 => x \in 1 .. at
      BY <1>2
    <3> QED
      BY <1>1, <1>5, <2>1, <3>1 DEF EInv, DoneInv
  <2> QED
    BY <1>3, <1>4, <2>3, <2>6, <2>7 DEF EInv
<1>7. CASE SkipInvalid
  <2>1. /\ building = "sentence" /\ building' = building /\ at' = at + 1 /\ ~sents[at + 1].valid
        /\ at < Len(sents)
    BY <1>7 DEF SkipInvalid
  <2>2. ControlInv'
    BY <1>1, <1>2, <2>1 DEF EInv, ControlInv
  <2>3. DoneInv'
    <3>1. \A x \in 1 .. at + 1 : x # at + 1 => x \in 1 .. at
      BY <1>2
    <3> QED
      BY <1>1, <1>5, <2>1, <3>1 DEF EInv, DoneInv
  <2>4. GapInv'
    BY <2>1 DEF GapInv
  <2> QED
    BY <1>3, <1>4, <2>2, <2>3, <2>4 DEF EInv
<1>8. CASE EndOfSentences
  <2>1. building = "sentence" /\ building' = "built" /\ at' = at /\ at = Len(sents)
    BY <1>8 DEF EndOfSentences
  <2>2. ControlInv' /\ GapInv'
    BY <1>1, <2>1 DEF EInv, ControlInv, GapInv
  <2>3. DoneInv'
    BY <1>1, <1>5, <2>1 DEF EInv, DoneInv
  <2> QED
    BY <1>3, <1>4, <2>2, <2>3 DEF EInv
\* What is left of the sentence at hand, it was left rightly.
<1>9. ASSUME building = "gaps", building' = "sentence", at' = at, HasConflict(at) \/ ExamplesOf(at) = {}
      PROVE  EInv'
  <2>1. ControlInv' /\ GapInv'
    BY <1>1, <1>9 DEF EInv, ControlInv, GapInv
  <2>2. DoneInv'
    BY <1>1, <1>5, <1>9 DEF EInv, DoneInv
  <2> QED
    BY <1>3, <1>4, <2>1, <2>2 DEF EInv
<1>10. CASE Conflict
  <2>1. building = "gaps" /\ building' = "sentence" /\ at' = at /\ gap + 1 < NumCps /\ ~AtEgcBoundary /\ Tag = "Bound"
    BY <1>10 DEF Conflict, InGaps
  <2>2. gap + 1 \in 1 .. NumCps - 1 /\ gap + 1 \notin Sent.starts /\ NumCps # 0
    BY <2>1, EgcBoundary
  <2>3. Sent = sents[at] /\ Sent.tags \in Seq(TagKinds) /\ Len(Sent.tags) = NumCps - 1
    BY <2>1, <2>2, SentIsEncodable
  <2>4. DOMAIN Sent.tags = 1 .. NumCps - 1
    BY <2>3
  <2>5. HasConflict(at)
    BY <2>1, <2>2, <2>3, <2>4 DEF HasConflict, Tag
  <2> QED
    BY <1>9, <2>1, <2>5
<1>11. CASE Unstored
  <2>1. building = "gaps" /\ building' = "sentence" /\ at' = at /\ GapsDone /\ labeled = <<>>
    BY <1>11 DEF Unstored, GapsDone
  <2>2. ExamplesOf(at) = {}
    <3>1. DOMAIN labeled = {}
      BY <2>1
    <3> QED
      BY <2>1, <3>1, DoneIsLabeled
  <2> QED
    BY <1>9, <2>1, <2>2
<1> QED
  BY <1>6, <1>7, <1>8, <1>10, <1>11

-----------------------------------------------------------------------------
(* The sentence is stored. *)

\* What is the case when a sentence is stored.
LEMMA StoreFacts ==
    ASSUME EInv, Store
    PROVE  /\ building = "gaps" /\ building' = "sentence" /\ GapsDone
           /\ UNCHANGED <<sents, at>>
           /\ at \in 1 .. Len(sents) /\ Len(sents) \in Nat /\ Sent = sents[at] /\ Sent.valid
           /\ NumCps \in Nat \ {0} /\ NumCps = Len(Sent.text)
           /\ Sent.starts \in SUBSET (0 .. NumCps - 1) /\ 0 \in Sent.starts
           /\ NumEgcs = Cardinality(Sent.starts) /\ NumEgcs \in Nat \ {0}
           /\ stored' = Append(stored, at) /\ stored \in Seq(Nat)
           /\ Len(stored) \in Nat /\ DOMAIN stored = 1 .. Len(stored)
           /\ Len(stored') = Len(stored) + 1 /\ DOMAIN stored' = 1 .. Len(stored) + 1
           /\ stored'[Len(stored) + 1] = at /\ \A id \in DOMAIN stored : stored'[id] = stored[id]
           /\ Len(sentence_starts) - 1 = Len(stored)
           /\ labeled \in Seq(Label) /\ labeled # <<>>
<1>1. /\ building = "gaps" /\ building' = "sentence" /\ GapsDone /\ UNCHANGED <<sents, at>>
      /\ stored' = Append(stored, at) /\ labeled # <<>>
  BY DEF Store, GapsDone
<1>2. /\ at \in 1 .. Len(sents) /\ Len(sents) \in Nat /\ Sent = sents[at] /\ Sent.valid
      /\ NumCps \in Nat /\ Sent.starts \in SUBSET (0 .. NumCps - 1)
      /\ NumEgcs = Cardinality(Sent.starts) /\ (NumCps # 0 => 0 \in Sent.starts)
  BY <1>1, SentIsEncodable
<1>3. NumCps # 0 /\ labeled \in Seq(Label)
  BY <1>1, DoneIsLabeled
<1>4. NumEgcs \in Nat \ {0}
  <2>1. Rank(Sent.starts, 0) \in 0 .. Cardinality(Sent.starts) - 1
    BY <1>2, <1>3, StartOfRank
  <2>2. Cardinality(Sent.starts) \in Nat
    BY <1>2, RankBounds
  <2> QED
    BY <1>2, <2>1, <2>2
<1>5. stored \in Seq(Nat) /\ at \in Nat
  BY <1>2 DEF EInv, SetInv, StoredInv
<1>6. /\ Len(stored) \in Nat /\ DOMAIN stored = 1 .. Len(stored)
      /\ Len(stored') = Len(stored) + 1 /\ DOMAIN stored' = 1 .. Len(stored) + 1
      /\ stored'[Len(stored) + 1] = at /\ \A id \in 1 .. Len(stored) : stored'[id] = stored[id]
  BY <1>1, <1>5
<1>7. Len(sentence_starts) = Len(stored) + 1
  BY DEF EInv, SetInv, LayoutInv
<1>8. Len(sentence_starts) - 1 = Len(stored)
  BY <1>6, <1>7
<1> QED
  BY <1>1, <1>2, <1>3, <1>4, <1>5, <1>6, <1>8 DEF NumCps

\* The new sentence deserves it.
LEMMA StoreControl ==
    ASSUME EInv, UNCHANGED corpusVars, Store
    PROVE  ParsedInv' /\ ControlInv' /\ GapInv' /\ DoneInv' /\ StoredInv'
<1> DEFINE m == Len(stored)
<1>1. /\ building = "gaps" /\ building' = "sentence" /\ GapsDone
      /\ UNCHANGED <<sents, at>> /\ at \in 1 .. Len(sents)
      /\ Sent = sents[at] /\ Sent.valid /\ NumCps # 0 /\ NumCps = Len(Sent.text)
      /\ m \in Nat /\ DOMAIN stored = 1 .. m /\ DOMAIN stored' = 1 .. m + 1
      /\ stored \in Seq(Nat) /\ stored' = Append(stored, at) /\ at \in Nat
      /\ stored'[m + 1] = at /\ \A id \in DOMAIN stored : stored'[id] = stored[id]
  BY StoreFacts
<1> HIDE DEF m
<1>2. ParsedInv'
  BY DEF EInv, ParsedInv, corpusVars
<1>3. ControlInv' /\ GapInv'
  BY <1>1 DEF EInv, ControlInv, GapInv
<1>4. \A s : HasConflict(s)' = HasConflict(s) /\ ExamplesOf(s)' = ExamplesOf(s)
  BY <1>1 DEF HasConflict, ExamplesOf
<1>5. m + 1 \in 1 .. m + 1 /\ \A id \in 1 .. m : id \in 1 .. m + 1
  BY <1>1
<1>6. DoneInv'
  <2> SUFFICES ASSUME NEW s \in 1 .. at, sents[s].valid, ~HasConflict(s), ExamplesOf(s) # {}
               PROVE  \E id \in 1 .. m + 1 : stored'[id] = s
    BY <1>1, <1>4 DEF DoneInv
  <2>1. CASE s = at
    BY <1>1, <1>5, <2>1
  <2>2. CASE s # at
    <3>1. \E id \in DOMAIN stored : stored[id] = s
      BY <1>1, <2>2 DEF EInv, DoneInv
    <3> QED
      BY <1>1, <1>5, <3>1
  <2> QED
    BY <2>1, <2>2
<1>7. StoredInv'
  <2>1. stored' \in Seq(Nat)
    BY <1>1
  <2>2. ~HasConflict(at)
    BY <1>1, DoneIsLabeled
  <2>3. \A id \in DOMAIN stored' : id \in DOMAIN stored \/ id = m + 1
    BY <1>1
  <2>4. ASSUME NEW id \in DOMAIN stored'
        PROVE  /\ stored'[id] \in 1 .. at /\ sents[stored'[id]].valid
               /\ Len(sents[stored'[id]].text) # 0 /\ ~HasConflict(stored'[id])
    <3>1. CASE id \in DOMAIN stored
      BY <1>1, <3>1 DEF EInv, SetInv, StoredInv
    <3>2. CASE id = m + 1
      BY <1>1, <2>2, <3>2
    <3> QED
      BY <2>3, <3>1, <3>2
  <2> QED
    BY <1>1, <1>4, <2>1, <2>4 DEF StoredInv
<1> QED
  BY <1>2, <1>3, <1>6, <1>7

\* The same marks, one for one.
LEMMA SameMarks ==
    ASSUME NEW ex, NEW M, NEW l, NEW I,
           \A j \in I : \E k \in M : Mark(ex[k]) = l[j],
           \A k \in M : \E j \in I : Mark(ex[k]) = l[j]
    PROVE  {Mark(ex[k]) : k \in M} = {l[j] : j \in I}
<1>1. \A x : x \in {Mark(ex[k]) : k \in M} => x \in {l[j] : j \in I}
  OBVIOUS
<1>2. \A x : x \in {l[j] : j \in I} => x \in {Mark(ex[k]) : k \in M}
  <2> TAKE x
  <2> HAVE x \in {l[j] : j \in I}
  <2>1. PICK j \in I : x = l[j]
    OBVIOUS
  <2>2. PICK k \in M : Mark(ex[k]) = l[j]
    OBVIOUS
  <2> QED
    BY <2>1, <2>2
<1> QED
  BY <1>1, <1>2

\* Its examples are its own, and nobody else gets one.
LEMMA StoreExamples ==
    ASSUME EInv, Store
    PROVE  ExampleInv'
<1> DEFINE m == Len(stored)
           n == Len(examples)
           new == [k \in DOMAIN labeled |->
                     [sentence |-> m, boundary |-> labeled[k].boundary, label |-> labeled[k].label]]
           len == Len(labeled)
<1>1. /\ GapsDone /\ UNCHANGED sents /\ NumCps # 0
      /\ m \in Nat /\ DOMAIN stored = 1 .. m /\ DOMAIN stored' = 1 .. m + 1 /\ Len(stored') = m + 1
      /\ stored'[m + 1] = at /\ \A id \in DOMAIN stored : stored'[id] = stored[id]
      /\ Len(sentence_starts) - 1 = m /\ labeled \in Seq(Label)
  BY StoreFacts
<1>2. examples' = examples \o new
  BY <1>1 DEF Store
<1>3. /\ examples \in Seq(Example) /\ \A k \in DOMAIN examples : examples[k].sentence < m
      /\ \A id \in DOMAIN stored : Carried(id)
  BY DEF EInv, SetInv, ExampleInv
<1>4. n \in Nat /\ DOMAIN examples = 1 .. n
  BY <1>3
<1>5. len \in Nat /\ DOMAIN labeled = 1 .. len
  BY <1>1
<1>6. \A k \in 1 .. len : labeled[k].boundary \in Nat /\ labeled[k].label \in {0, 1} /\ labeled[k] = Mark(labeled[k])
  <2>1. \A k \in 1 .. len : labeled[k] \in Label
    BY <1>1, <1>5
  <2> QED
    BY <2>1 DEF Label, Mark
<1>7. new \in Seq(Example) /\ Len(new) = len
  <2>1. \A k \in 1 .. len : new[k] \in Example
    BY <1>1, <1>5, <1>6 DEF Example
  <2>2. DOMAIN new = 1 .. len
    BY <1>5
  <2>3. new = [k \in 1 .. len |-> new[k]]
    BY <1>5
  <2> HIDE DEF new, Example
  <2> QED
    BY <1>5, <2>1, <2>3
<1>8. \A k \in 1 .. len : new[k].sentence = m /\ Mark(new[k]) = labeled[k] /\ new[k].boundary = labeled[k].boundary
  BY <1>5, <1>6 DEF Mark
<1> HIDE DEF new, m, n, len
<1>9. /\ examples' \in Seq(Example) /\ DOMAIN examples' = 1 .. n + len
      /\ \A k \in 1 .. n : examples'[k] = examples[k]
      /\ \A k \in 1 .. len : examples'[n + k] = new[k]
  BY <1>2, <1>3, <1>7, Appended DEF n
<1>10. \A k \in 1 .. n + len : k \in 1 .. n \/ \E j \in 1 .. len : k = n + j
  <2> SUFFICES ASSUME NEW k \in 1 .. n + len, k \notin 1 .. n PROVE \E j \in 1 .. len : k = n + j
    OBVIOUS
  <2>1. k - n \in 1 .. len /\ k = n + (k - n)
    BY <1>4, <1>5
  <2> QED
    BY <2>1
<1>11. /\ \A k \in 1 .. n : k \in 1 .. n + len /\ examples[k].sentence \in Nat
       /\ \A k \in 1 .. len : n + k \in 1 .. n + len /\ n + k \notin 1 .. n
  <2>1. \A k \in 1 .. n : examples[k] \in Example
    BY <1>3, <1>4
  <2>2. \A k \in 1 .. n : examples[k].sentence \in Nat
    BY <2>1 DEF Example
  <2>3. \A k \in 1 .. n : k \in 1 .. n + len
    BY <1>4, <1>5
  <2>4. \A k \in 1 .. len : n + k \in 1 .. n + len /\ n + k \notin 1 .. n
    BY <1>4, <1>5
  <2> QED
    BY <2>2, <2>3, <2>4
<1>12. \A k \in DOMAIN examples' : examples'[k].sentence < m + 1
  <2> TAKE k \in DOMAIN examples'
  <2>1. CASE k \in 1 .. n
    <3>1. examples'[k].sentence < m /\ examples'[k].sentence \in Nat
      BY <1>3, <1>4, <1>9, <1>11, <2>1
    <3> QED
      BY <1>1, <3>1
  <2>2. CASE \E j \in 1 .. len : k = n + j
    <3>1. examples'[k].sentence = m
      BY <1>8, <1>9, <2>2
    <3> QED
      BY <1>1, <3>1
  <2> QED
    BY <1>9, <1>10, <2>1, <2>2
<1>13. \A s : ExamplesOf(s)' = ExamplesOf(s)
  BY <1>1 DEF ExamplesOf
\* The examples of those stored before are as they were.
<1>14. ASSUME NEW id \in 1 .. m
       PROVE  Carried(id)'
  <2>0. id - 1 < m /\ id - 1 # m /\ id \in DOMAIN stored
    BY <1>1
  <2>1. Mine(id)' = Mine(id)
    <3>1. \A k \in 1 .. len : examples'[n + k].sentence # id - 1
      BY <1>8, <1>9, <2>0
    <3>2. \A k : k \in Mine(id)' <=> k \in DOMAIN examples' /\ examples'[k].sentence = id - 1
      BY DEF Mine
    <3>3. \A k : k \in Mine(id) <=> k \in 1 .. n /\ examples[k].sentence = id - 1
      BY <1>4 DEF Mine
    <3>4. \A k : k \in Mine(id)' <=> k \in Mine(id)
      BY <1>9, <1>10, <1>11, <3>1, <3>2, <3>3
    <3> QED
      BY <3>4
  <2>2. \A k \in Mine(id) : examples'[k] = examples[k]
    BY <1>4, <1>9 DEF Mine
  <2>3. stored'[id] = stored[id] /\ Carried(id)
    BY <1>1, <1>3, <2>0
  <2>4. {Mark(examples'[k]) : k \in Mine(id)} = {Mark(examples[k]) : k \in Mine(id)}
    BY <2>2
  <2> QED
    BY <1>13, <2>1, <2>2, <2>3, <2>4 DEF Carried, Mark
\* The new ones carry the labels.
<1>15. ASSUME NEW id, id = m + 1
       PROVE  Carried(id)'
  <2>1. \A k : k \in Mine(id)' <=> \E j \in 1 .. len : k = n + j
    <3>1. id - 1 = m
      BY <1>1, <1>15
    <3>2. \A k : k \in Mine(id)' <=> k \in DOMAIN examples' /\ examples'[k].sentence = m
      BY <3>1 DEF Mine
    <3>3. \A k \in 1 .. n : examples'[k].sentence # m
      <4>1. \A k \in 1 .. n : examples[k].sentence < m /\ examples[k].sentence \in Nat
        BY <1>3, <1>4, <1>11
      <4> QED
        BY <1>1, <1>9, <4>1
    <3> QED
      BY <1>8, <1>9, <1>10, <1>11, <3>2, <3>3
  <2>2. \A j, k \in 1 .. len : labeled[j].boundary = labeled[k].boundary => j = k
    BY <1>1, <1>5, DoneIsLabeled
  <2>3. \A j, k \in Mine(id)' : examples'[j].boundary = examples'[k].boundary => j = k
    <3> TAKE j, k \in Mine(id)'
    <3>1. PICK a \in 1 .. len : j = n + a
      BY <2>1
    <3>2. PICK b \in 1 .. len : k = n + b
      BY <2>1
    <3>3. examples'[j].boundary = labeled[a].boundary /\ examples'[k].boundary = labeled[b].boundary
      BY <1>8, <1>9, <3>1, <3>2
    <3> QED
      BY <2>2, <3>1, <3>2, <3>3
  <2>4. {Mark(examples'[k]) : k \in Mine(id)'} = {labeled[k] : k \in DOMAIN labeled}
    <3>1. \A j \in 1 .. len : n + j \in Mine(id)' /\ Mark(examples'[n + j]) = labeled[j]
      BY <1>8, <1>9, <2>1
    <3>2. \A k \in Mine(id)' : \E j \in 1 .. len : Mark(examples'[k]) = labeled[j]
      BY <2>1, <3>1
    <3>3. \A j \in 1 .. len : \E k \in Mine(id)' : Mark(examples'[k]) = labeled[j]
      BY <3>1
    <3>4. {Mark(examples'[k]) : k \in Mine(id)'} = {labeled[j] : j \in 1 .. len}
      BY <3>2, <3>3, SameMarks
    <3> QED
      BY <1>5, <3>4
  <2>5. {labeled[k] : k \in DOMAIN labeled} = ExamplesOf(at)
    BY <1>1, DoneIsLabeled
  <2>6. stored'[id] = at
    BY <1>1, <1>15
  <2>7. ExamplesOf(stored[id])' = ExamplesOf(at)
    BY <1>1, <2>6 DEF ExamplesOf
  <2>8. {Mark(examples[k]) : k \in Mine(id)}' = {Mark(examples'[k]) : k \in Mine(id)'}
    BY DEF Mark
  <2> QED
    BY <2>3, <2>4, <2>5, <2>7, <2>8 DEF Carried
<1>16. \A id \in DOMAIN stored' : Carried(id)'
  <2>1. \A id \in DOMAIN stored' : id \in 1 .. m \/ id = m + 1
    BY <1>1
  <2> QED
    BY <1>14, <1>15, <2>1
<1> QED
  BY <1>1, <1>9, <1>12, <1>16 DEF ExampleInv

-----------------------------------------------------------------------------
\* A sequence given by what it holds.
LEMMA SeqOf ==
    ASSUME NEW X, NEW n \in Nat, NEW F, F = [k \in 1 .. n |-> F[k]], \A k \in 1 .. n : F[k] \in X
    PROVE  F \in Seq(X) /\ Len(F) = n
OBVIOUS

\* Its code points come after the others.
LEMMA StoreLayout ==
    ASSUME EInv, Store
    PROVE  LayoutInv'
<1> DEFINE m == Len(stored)
           n == NumCps
           S == Sent.starts
           egcs == NumEgcs
           base == Len(rows)
           last == Len(egc_starts)
           first == sentence_starts[m + 1]
           newRows == [k \in 1 .. n |-> <<at, k - 1>>]
           newStarts == [e \in 1 .. egcs |-> base + IF e < egcs THEN StartOf(e) ELSE n]
<1>1. /\ UNCHANGED <<sents, at>> /\ at \in 1 .. Len(sents) /\ Len(sents) \in Nat /\ Sent = sents[at]
      /\ n \in Nat \ {0} /\ n = Len(Sent.text) /\ S \in SUBSET (0 .. n - 1) /\ 0 \in S
      /\ egcs = Cardinality(S) /\ egcs \in Nat \ {0}
      /\ m \in Nat /\ DOMAIN stored = 1 .. m /\ DOMAIN stored' = 1 .. m + 1 /\ Len(stored') = m + 1
      /\ stored'[m + 1] = at /\ \A id \in DOMAIN stored : stored'[id] = stored[id]
      /\ Len(sentence_starts) - 1 = m
  BY StoreFacts
<1>2. /\ rows' = rows \o newRows /\ egc_starts' = egc_starts \o newStarts
      /\ sentence_starts' = Append(sentence_starts, first + egcs)
  BY <1>1 DEF Store, RowBase
<1>3. /\ rows \in Seq(Pairs) /\ egc_starts \in Seq(Nat) /\ sentence_starts \in Seq(Nat)
      /\ Len(sentence_starts) = m + 1
      /\ first + 1 = last /\ egc_starts[last] = base
      /\ \A id \in DOMAIN stored : Laid(id)
  BY DEF EInv, SetInv, LayoutInv
<1>4. base \in Nat /\ last \in Nat /\ first \in Nat /\ at \in Nat
  <2>1. base \in Nat /\ last \in Nat
    BY <1>3
  <2>2. m + 1 \in DOMAIN sentence_starts
    BY <1>1, <1>3
  <2>3. first \in Nat
    BY <1>3, <2>2
  <2> QED
    BY <1>1, <2>1, <2>3
<1>0. m \in Nat /\ n \in Nat /\ egcs \in Nat \ {0} /\ base \in Nat /\ first \in Nat /\ last = first + 1
  BY <1>1, <1>3, <1>4
<1>5. \A e \in 1 .. egcs - 1 : StartOf(e) = Start(S, e) /\ StartOf(e) \in 0 .. n - 1
  <2> TAKE e \in 1 .. egcs - 1
  <2>1. e \in 0 .. Cardinality(S) - 1
    BY <1>1
  <2>2. Start(S, e) \in 0 .. n - 1
    BY <1>1, <2>1, StartHasRank
  <2> QED
    BY <2>2 DEF StartOf, Start
<1>6. newRows \in Seq(Pairs) /\ Len(newRows) = n /\ \A k \in 1 .. n : newRows[k] = <<at, k - 1>>
  <2>1. \A k \in 1 .. n : newRows[k] \in Pairs
    BY <1>1, <1>4 DEF Pairs
  <2>3. \A k \in 1 .. n : newRows[k] = <<at, k - 1>>
    OBVIOUS
  <2>2. newRows = [k \in 1 .. n |-> newRows[k]]
    OBVIOUS
  <2> HIDE DEF newRows, Pairs, n
  <2>4. newRows \in Seq(Pairs) /\ Len(newRows) = n
    BY <1>0, <2>1, <2>2, SeqOf
  <2> QED
    BY <2>3, <2>4
<1>7. /\ newStarts \in Seq(Nat) /\ Len(newStarts) = egcs
      /\ \A e \in 1 .. egcs : newStarts[e] = base + IF e < egcs THEN Start(S, e) ELSE n
  <2>1. ASSUME NEW e \in 1 .. egcs
        PROVE  newStarts[e] = base + (IF e < egcs THEN Start(S, e) ELSE n) /\ newStarts[e] \in Nat
    <3>1. e < egcs => e \in 1 .. egcs - 1
      BY <1>1
    <3> QED
      BY <1>1, <1>4, <1>5, <3>1
  <2>2. newStarts = [e \in 1 .. egcs |-> newStarts[e]]
    OBVIOUS
  <2> HIDE DEF newStarts, n, egcs, S, base
  <2>3. newStarts \in Seq(Nat) /\ Len(newStarts) = egcs
    BY <1>1, <2>1, <2>2, SeqOf
  <2> QED
    BY <2>1, <2>3
<1>8. Start(S, 0) = 0
  <2>1. Rank(S, 0) = 0
    BY <1>1, RankBounds
  <2>2. Start(S, Rank(S, 0)) = 0
    BY <1>0, <1>1, StartOfRank
  <2> QED
    BY <2>1, <2>2
<1> HIDE DEF m, n, S, egcs, base, last, first, newRows, newStarts
<1>9. /\ rows' \in Seq(Pairs) /\ Len(rows') = base + n
      /\ \A k \in 1 .. base : rows'[k] = rows[k]
      /\ \A k \in 1 .. n : rows'[base + k] = <<at, k - 1>>
  BY <1>2, <1>3, <1>6, Appended DEF base
<1>10. /\ egc_starts' \in Seq(Nat) /\ Len(egc_starts') = last + egcs
       /\ \A k \in 1 .. last : egc_starts'[k] = egc_starts[k]
       /\ \A e \in 1 .. egcs : egc_starts'[last + e] = newStarts[e]
  <2>1. Len(egc_starts) = last
    BY DEF last
  <2>2. /\ egc_starts' \in Seq(Nat) /\ Len(egc_starts') = Len(egc_starts) + Len(newStarts)
        /\ \A k \in 1 .. Len(egc_starts) : egc_starts'[k] = egc_starts[k]
        /\ \A e \in 1 .. Len(newStarts) : egc_starts'[Len(egc_starts) + e] = newStarts[e]
    <3>1. egc_starts \in Seq(Nat) /\ newStarts \in Seq(Nat) /\ egc_starts' = egc_starts \o newStarts
      BY <1>2, <1>3, <1>7
    <3>2. LET t == egc_starts \o newStarts
          IN  /\ t \in Seq(Nat) /\ Len(t) = Len(egc_starts) + Len(newStarts)
              /\ \A k \in 1 .. Len(egc_starts) : t[k] = egc_starts[k]
              /\ \A e \in 1 .. Len(newStarts) : t[Len(egc_starts) + e] = newStarts[e]
      BY <3>1, Appended
    <3> QED
      BY <3>1, <3>2
  <2> QED
    BY <1>7, <2>1, <2>2
<1>11. /\ sentence_starts' \in Seq(Nat) /\ Len(sentence_starts') = m + 2
       /\ sentence_starts'[m + 2] = first + egcs
       /\ \A k \in 1 .. m + 1 : sentence_starts'[k] = sentence_starts[k]
  <2>1. first + egcs \in Nat
    BY <1>1, <1>4
  <2>2. (m + 1) + 1 = m + 2
    BY <1>1
  <2> DEFINE ss == sentence_starts
             x == first + egcs
  <2>3. /\ ss \in Seq(Nat) /\ Len(ss) = m + 1 /\ x \in Nat /\ m \in Nat
        /\ sentence_starts' = Append(ss, x)
    BY <1>1, <1>2, <1>3, <2>1
  <2> HIDE DEF ss, x
  <2>4. LET t == Append(ss, x)
        IN  /\ t \in Seq(Nat) /\ Len(t) = (m + 1) + 1 /\ t[(m + 1) + 1] = x
            /\ \A k \in 1 .. m + 1 : t[k] = ss[k]
    <3>1. /\ Append(ss, x) \in Seq(Nat) /\ Len(Append(ss, x)) = Len(ss) + 1
          /\ Append(ss, x)[Len(ss) + 1] = x
          /\ \A k \in 1 .. Len(ss) : Append(ss, x)[k] = ss[k]
      BY <2>3, AppendProperties
    <3> QED
      BY <2>3, <3>1
  <2> QED
    BY <2>2, <2>3, <2>4 DEF ss, x
\* Those that were laid stay where they are.
<1>12. ASSUME NEW id \in 1 .. m
       PROVE  Laid(id)'
  <2> DEFINE s == stored[id]
             len == Len(sents[s].text)
             es == Cardinality(sents[s].starts)
             f == sentence_starts[id]
  <2>1. Laid(id)
    BY <1>1, <1>3
  <2>2. f + es + 1 <= last
    BY <2>1 DEF Laid, last
  <2>3. PICK b \in Nat :
              /\ b + len <= base
              /\ \A e \in 0 .. es : egc_starts[f + 1 + e] = b + IF e < es THEN Start(sents[s].starts, e) ELSE len
              /\ \A c \in 0 .. len - 1 : rows[b + 1 + c] = <<s, c>>
    BY <2>1 DEF Laid, base
  <2>4. stored'[id] = s /\ sents' = sents
    BY <1>1
  <2>5. sentence_starts'[id] = f /\ f \in Nat
    <3>1. id \in 1 .. m + 1 /\ DOMAIN sentence_starts = 1 .. m + 1
      BY <1>1, <1>3
    <3> QED
      BY <1>3, <1>11, <3>1
  <2>6. es \in Nat /\ len \in Nat
    <3>1. s \in 1 .. at /\ sents[s].valid /\ sents[s].starts = sents[s].starts
      BY <1>1 DEF EInv, SetInv, StoredInv
    <3>2. s \in 1 .. Len(sents)
      BY <1>1, <1>4, <3>1
    <3>3. Encodable(sents[s])
      BY <3>1, <3>2 DEF EInv, ControlInv
    <3>4. len \in Nat /\ sents[s].starts \in SUBSET (0 .. len - 1)
      BY <3>3 DEF Encodable
    <3> QED
      BY <3>4, RankBounds
  <2> HIDE DEF s, len, es, f
  <2>7. f + es + 1 <= last + egcs /\ b + len <= base + n
    BY <1>1, <1>4, <2>2, <2>3, <2>5, <2>6
  <2>8. \A e \in 0 .. es : egc_starts'[f + 1 + e] = egc_starts[f + 1 + e]
    <3>1. \A e \in 0 .. es : f + 1 + e \in 1 .. last
      BY <1>4, <2>2, <2>5, <2>6
    <3> QED
      BY <1>10, <3>1
  <2>9. \A c \in 0 .. len - 1 : rows'[b + 1 + c] = rows[b + 1 + c]
    <3>1. \A c \in 0 .. len - 1 : b + 1 + c \in 1 .. base
      BY <1>4, <2>3, <2>6
    <3> QED
      BY <1>9, <3>1
  <2>10. \A e \in 0 .. es : egc_starts'[f + 1 + e] = b + IF e < es THEN Start(sents[s].starts, e) ELSE len
    BY <2>3, <2>8
  <2>11. \A c \in 0 .. len - 1 : rows'[b + 1 + c] = <<s, c>>
    BY <2>3, <2>9
  <2>12. /\ f + es + 1 <= Len(egc_starts')
         /\ b + len <= Len(rows')
    BY <1>9, <1>10, <2>7
  <2> QED
    BY <2>3, <2>4, <2>5, <2>10, <2>11, <2>12 DEF Laid, s, len, es
\* The new one begins where the rows and the offsets ended.
<1>13. ASSUME NEW id, id = m + 1
       PROVE  Laid(id)'
  <2>1. stored'[id] = at /\ sents' = sents /\ Len(sents[at].text) = n /\ sents[at].starts = S
    BY <1>1, <1>13 DEF S
  <2>2. sentence_starts'[id] = first
    <3>1. m + 1 \in 1 .. m + 1
      BY <1>1
    <3> QED
      BY <1>11, <1>13, <3>1 DEF first
  <2>3. first + egcs + 1 <= last + egcs
    BY <1>1, <1>3, <1>4
  <2>4. ASSUME NEW e \in 0 .. egcs
        PROVE  egc_starts'[first + 1 + e] = base + IF e < egcs THEN Start(S, e) ELSE n
    <3>1. CASE e = 0
      <4>1. first + 1 + e = last /\ last \in 1 .. last /\ 0 < egcs /\ base + 0 = base
        BY <1>1, <1>3, <1>4, <3>1
      <4> QED
        BY <1>3, <1>8, <1>10, <3>1, <4>1
    <3>2. CASE e # 0
      <4>1. first + 1 + e = last + e /\ e \in 1 .. egcs
        BY <1>1, <1>3, <1>4, <3>2
      <4> QED
        BY <1>7, <1>10, <4>1
    <3> QED
      BY <3>1, <3>2
  <2>5. ASSUME NEW c \in 0 .. n - 1
        PROVE  rows'[base + 1 + c] = <<at, c>>
    <3>1. c + 1 \in 1 .. n /\ base + 1 + c = base + (c + 1) /\ (c + 1) - 1 = c
      BY <1>1, <1>4
    <3> QED
      BY <1>9, <3>1
  <2>6. base + n <= base + n
    BY <1>1, <1>4
  <2>7. first + egcs + 1 <= Len(egc_starts') /\ base + n <= Len(rows') /\ base \in Nat /\ egcs = Cardinality(S)
    BY <1>1, <1>4, <1>9, <1>10, <2>3, <2>6
  <2> QED
    BY <2>1, <2>2, <2>4, <2>5, <2>7 DEF Laid
<1>14. \A id \in DOMAIN stored' : Laid(id)'
  <2>1. \A id \in DOMAIN stored' : id \in 1 .. m \/ id = m + 1
    BY <1>1
  <2> QED
    BY <1>12, <1>13, <2>1
<1>15. /\ Len(sentence_starts') = Len(stored') + 1
       /\ sentence_starts'[Len(stored') + 1] + 1 = Len(egc_starts')
  <2>1. (m + 1) + 1 = m + 2 /\ (first + egcs) + 1 = last + egcs
    BY <1>0
  <2> QED
    BY <1>1, <1>10, <1>11, <2>1
<1>16. egc_starts'[Len(egc_starts')] = Len(rows')
  <2>1. egcs \in 1 .. egcs /\ ~ (egcs < egcs)
    BY <1>1
  <2>2. egc_starts'[last + egcs] = base + n
    BY <1>7, <1>10, <2>1
  <2> QED
    BY <1>9, <1>10, <2>2
<1> QED
  BY <1>9, <1>10, <1>11, <1>14, <1>15, <1>16 DEF LayoutInv

-----------------------------------------------------------------------------
(* Subsequences, and the parts of what is flattened. *)

\* What a subsequence is, from what it holds.
LEMMA SubSeqIs ==
    ASSUME NEW X, NEW s \in Seq(X), NEW t \in Seq(X), NEW a \in Nat, a + Len(t) <= Len(s),
           \A i \in 1 .. Len(t) : s[a + i] = t[i]
    PROVE  SubSeq(s, a + 1, a + Len(t)) = t
<1> DEFINE len == Len(t)
           u == SubSeq(s, a + 1, a + len)
<1>1. len \in Nat /\ Len(s) \in Nat /\ a + 1 \in Int /\ a + len \in Int
  OBVIOUS
<1>2. \A i \in a + 1 .. a + len : s[i] \in X
  <2>1. \A i \in a + 1 .. a + len : i \in 1 .. Len(s)
    BY <1>1
  <2> QED
    BY <2>1
<1>3. /\ u \in Seq(X) /\ Len(u) = (IF a + 1 <= a + len THEN a + len - (a + 1) + 1 ELSE 0)
      /\ \A i \in 1 .. a + len - (a + 1) + 1 : u[i] = s[a + 1 + i - 1]
  <2> HIDE DEF len
  <2> QED
    BY <1>1, <1>2, SubSeqProperties
<1> HIDE DEF len, u
<1>4. a + len - (a + 1) + 1 = len /\ (a + 1 <= a + len <=> len # 0)
  BY <1>1
<1>5. Len(u) = len
  BY <1>1, <1>3, <1>4
<1>6. \A i \in 1 .. len : u[i] = t[i]
  <2>1. \A i \in 1 .. len : a + 1 + i - 1 = a + i
    BY <1>1
  <2> QED
    BY <1>3, <1>4, <2>1 DEF len
<1> QED
  BY <1>3, <1>5, <1>6, SeqEqual DEF len, u

\* What is inserted at the end leaves the subsequences as they were.
LEMMA SubSeqStays ==
    ASSUME NEW X, NEW s \in Seq(X), NEW t \in Seq(X), NEW p \in Nat, NEW q \in Nat, p <= q, q <= Len(s)
    PROVE  SubSeq(s \o t, p + 1, q) = SubSeq(s, p + 1, q)
<1> DEFINE u == SubSeq(s, p + 1, q)
           w == s \o t
<1>1. Len(s) \in Nat /\ Len(t) \in Nat /\ w \in Seq(X) /\ Len(w) = Len(s) + Len(t) /\ \A k \in 1 .. Len(s) : w[k] = s[k]
  BY Appended
<1>2. \A i \in p + 1 .. q : s[i] \in X
  <2>1. \A i \in p + 1 .. q : i \in 1 .. Len(s)
    BY <1>1
  <2> QED
    BY <2>1
<1>3. /\ u \in Seq(X) /\ Len(u) = (IF p + 1 <= q THEN q - (p + 1) + 1 ELSE 0)
      /\ \A i \in 1 .. q - (p + 1) + 1 : u[i] = s[p + 1 + i - 1]
  BY <1>2, SubSeqProperties
<1> HIDE DEF u, w
<1>4. q - (p + 1) + 1 = q - p /\ (p + 1 <= q <=> q - p # 0) /\ q - p \in Nat /\ p + (q - p) = q
  OBVIOUS
<1>5. Len(u) = q - p
  BY <1>3, <1>4
<1>6. \A i \in 1 .. Len(u) : w[p + i] = u[i]
  <2> TAKE i \in 1 .. Len(u)
  <2>1. p + 1 + i - 1 = p + i /\ p + i \in 1 .. Len(s) /\ i \in 1 .. q - p
    BY <1>1, <1>4, <1>5
  <2> QED
    BY <1>1, <1>3, <1>4, <2>1
<1>7. p + Len(u) <= Len(w)
  BY <1>1, <1>4, <1>5
<1>8. SubSeq(w, p + 1, p + Len(u)) = u
  BY <1>1, <1>3, <1>6, <1>7, SubSeqIs
<1> QED
  BY <1>4, <1>5, <1>8 DEF u, w

\* u is what w begins with.
Begins(u, w) == Len(u) <= Len(w) /\ \A i \in 1 .. Len(u) : w[i] = u[i]

\* It is an order, and appending keeps it.
LEMMA BeginsIsAnOrder ==
    ASSUME NEW X, NEW u \in Seq(X), NEW v \in Seq(X), NEW w \in Seq(X)
    PROVE  /\ Begins(u, u) /\ Begins(u, u \o v)
           /\ Begins(u, v) /\ Begins(v, w) => Begins(u, w)
<1>1. Len(u) \in Nat /\ Len(v) \in Nat /\ Len(w) \in Nat
  OBVIOUS
<1>2. Begins(u, u)
  BY <1>1 DEF Begins
<1>3. Begins(u, u \o v)
  <2>1. Len(u \o v) = Len(u) + Len(v) /\ \A k \in 1 .. Len(u) : (u \o v)[k] = u[k]
    BY Appended
  <2> QED
    BY <1>1, <2>1 DEF Begins
<1>4. ASSUME Begins(u, v), Begins(v, w) PROVE Begins(u, w)
  BY <1>1, <1>4 DEF Begins
<1> QED
  BY <1>2, <1>3, <1>4

\* Where v is in what begins with u and v.
LEMMA SecondPart ==
    ASSUME NEW X, NEW u \in Seq(X), NEW v \in Seq(X), NEW w \in Seq(X), Begins(u \o v, w)
    PROVE  /\ Len(u) \in Nat /\ Len(u \o v) = Len(u) + Len(v) /\ Len(u \o v) <= Len(w)
           /\ \A i \in 1 .. Len(v) : w[Len(u) + i] = v[i]
<1> DEFINE t == u \o v
<1>1. /\ Len(u) \in Nat /\ Len(v) \in Nat /\ Len(t) = Len(u) + Len(v)
      /\ \A k \in 1 .. Len(v) : t[Len(u) + k] = v[k]
  BY Appended
<1> HIDE DEF t
<1>2. Len(t) <= Len(w) /\ \A i \in 1 .. Len(t) : w[i] = t[i]
  BY DEF Begins, t
<1>3. \A i \in 1 .. Len(v) : Len(u) + i \in 1 .. Len(t)
  BY <1>1
<1> QED
  BY <1>1, <1>2, <1>3 DEF t

\* What grows part by part begins with what it was.
Chained(X, n, J, parts) ==
    /\ \A j \in 0 .. n : J[j] \in Seq(X)
    /\ \A j \in 1 .. n : parts[j] \in Seq(X) /\ J[j] = J[j - 1] \o parts[j]

LEMMA ChainedBegins ==
    ASSUME NEW X, NEW n \in Nat, NEW J, NEW parts, Chained(X, n, J, parts), NEW k \in 0 .. n
    PROVE  Begins(J[k], J[n])
<1> DEFINE T == {d \in Nat : \A j : j = k + d /\ j <= n => Begins(J[k], J[j])}
<1>1. k \in Nat /\ J[k] \in Seq(X)
  BY DEF Chained
<1>2. 0 \in T
  <2>1. Begins(J[k], J[k])
    BY <1>1, BeginsIsAnOrder
  <2>2. \A j : j = k + 0 => j = k
    BY <1>1
  <2> QED
    BY <2>1, <2>2
<1>3. ASSUME NEW d \in Nat, \A j : j = k + d /\ j <= n => Begins(J[k], J[j]),
             NEW j, j = k + (d + 1), j <= n
      PROVE  Begins(J[k], J[j])
  <2>1. PICK p : p = k + d
    OBVIOUS
  <2>2. j \in 1 .. n /\ p = j - 1 /\ p \in 0 .. n /\ p <= n
    BY <1>1, <1>3, <2>1
  <2>3. J[p] \in Seq(X) /\ parts[j] \in Seq(X) /\ J[j] = J[p] \o parts[j] /\ J[j] \in Seq(X)
    <3>1. j \in 0 .. n
      BY <2>2
    <3> QED
      BY <2>2, <3>1 DEF Chained
  <2>4. Begins(J[k], J[p])
    BY <1>3, <2>1, <2>2
  <2>5. Begins(J[p], J[p] \o parts[j])
    BY <2>3, BeginsIsAnOrder
  <2>6. Begins(J[p], J[j])
    BY <2>3, <2>5
  <2> QED
    BY <1>1, <2>3, <2>4, <2>6, BeginsIsAnOrder
<1>4. \A d \in T : d + 1 \in T
  BY <1>3
<1> HIDE DEF T
<1>5. T = Nat
  <2>1. T \subseteq Nat
    BY DEF T
  <2> QED
    BY <1>2, <1>4, <2>1, Induct
<1>6. n - k \in T /\ n = k + (n - k) /\ n <= n
  BY <1>1, <1>5
<1> QED
  BY <1>6 DEF T

\* Where a part is in the whole.
LEMMA JoinedParts ==
    ASSUME NEW X, NEW seqs \in Seq(Seq(X)), NEW k \in 1 .. Len(seqs),
           NEW u, u = Joined(SubSeq(seqs, 1, k - 1)), NEW v, v = Joined(SubSeq(seqs, 1, k))
    PROVE  /\ u \in Seq(X) /\ v \in Seq(X) /\ seqs[k] \in Seq(X)
           /\ v = u \o seqs[k] /\ Begins(u \o seqs[k], Joined(seqs))
<1> DEFINE n == Len(seqs)
           J == [j \in 0 .. n |-> Joined(SubSeq(seqs, 1, j))]
<1>1. n \in Nat /\ k \in 1 .. n /\ k - 1 \in 0 .. n /\ k \in 0 .. n /\ n \in 0 .. n
      /\ \A j \in 1 .. n : j \in 0 .. n /\ j - 1 \in 0 .. n
  OBVIOUS
<1>2. \A j \in 1 .. n : seqs[j] \in Seq(X)
  OBVIOUS
<1>3. /\ \A j \in 0 .. n : Joined(SubSeq(seqs, 1, j)) \in Seq(X)
      /\ \A j \in 1 .. n : Joined(SubSeq(seqs, 1, j)) = Joined(SubSeq(seqs, 1, j - 1)) \o seqs[j]
      /\ Joined(SubSeq(seqs, 1, n)) = Joined(seqs)
  BY JoinedPrefix
<1>4. \A j \in 0 .. n : J[j] = Joined(SubSeq(seqs, 1, j))
  OBVIOUS
<1> HIDE DEF J, n
<1>5. (\A j \in 0 .. n : J[j] \in Seq(X)) /\ \A j \in 1 .. n : J[j] = J[j - 1] \o seqs[j]
  BY <1>1, <1>3, <1>4
<1>6. Chained(X, n, J, seqs)
  BY <1>2, <1>5 DEF Chained
<1>7. Begins(J[k], J[n])
  BY <1>1, <1>6, ChainedBegins
<1>8. J[n] = Joined(seqs) /\ J[k] = v /\ J[k - 1] = u
  BY <1>1, <1>3, <1>4
<1>9. v = u \o seqs[k]
  BY <1>1, <1>5, <1>8
<1>10. u \in Seq(X) /\ v \in Seq(X) /\ seqs[k] \in Seq(X)
  BY <1>1, <1>2, <1>5, <1>8
<1> QED
  BY <1>7, <1>8, <1>9, <1>10

-----------------------------------------------------------------------------
\* What the matcher finds.
LEMMA FeaturesAreSeq ==
    ASSUME NEW s \in Nat, NEW b \in Nat
    PROVE  FeaturesAt(s, b) \in Seq(Pairs)
<1> DEFINE n == (s + b) % 3
           f == FeaturesAt(s, b)
<1>1. n \in Nat
  OBVIOUS
<1>2. <<s, b>> \in Pairs
  BY DEF Pairs
<1>3. f = [k \in 1 .. n |-> <<s, b>>]
  BY DEF FeaturesAt
<1> HIDE DEF n, f, Pairs
<1>4. f = [k \in 1 .. n |-> f[k]] /\ \A k \in 1 .. n : f[k] \in Pairs
  BY <1>2, <1>3
<1> QED
  BY <1>1, <1>4, SeqOf DEF f

\* So do its features.
LEMMA StoreFeatures ==
    ASSUME EInv, Store
    PROVE  FeatureInv'
<1> DEFINE m == Len(stored)
           n == Len(examples)
           len == Len(labeled)
           base == Len(feat_indices)
           feats == [k \in DOMAIN labeled |-> FeaturesAt(at, labeled[k].boundary)]
           new == [k \in DOMAIN labeled |->
                     [sentence |-> m, boundary |-> labeled[k].boundary, label |-> labeled[k].label]]
           whole == Joined(feats)
           upTo == [k \in 0 .. len |-> Joined(SubSeq(feats, 1, k))]
           size == [k \in 0 .. len |-> Len(upTo[k])]
           offsets == NewOffsets(feats)
<1>1. /\ at \in Nat
      /\ m \in Nat /\ DOMAIN stored = 1 .. m
      /\ stored'[m + 1] = at /\ \A id \in DOMAIN stored : stored'[id] = stored[id]
      /\ Len(sentence_starts) - 1 = m /\ labeled \in Seq(Label)
  BY StoreFacts
<1>2. /\ examples' = examples \o new /\ feat_indices' = feat_indices \o whole
      /\ feat_offsets' = feat_offsets \o offsets
  BY <1>1 DEF Store
<1>3. /\ examples \in Seq(Example) /\ \A k \in DOMAIN examples : examples[k].sentence < m
  BY DEF EInv, SetInv, ExampleInv
<1>4. /\ feat_indices \in Seq(Pairs) /\ feat_offsets \in Seq(Nat) /\ Len(feat_offsets) = n + 1
      /\ feat_offsets[n + 1] = base
      /\ \A k \in DOMAIN examples :
            /\ feat_offsets[k] <= feat_offsets[k + 1] /\ feat_offsets[k + 1] <= base
            /\ SubSeq(feat_indices, feat_offsets[k] + 1, feat_offsets[k + 1]) =
                  FeaturesAt(stored[examples[k].sentence + 1], examples[k].boundary)
  BY DEF EInv, SetInv, FeatureInv
<1>5. n \in Nat /\ len \in Nat /\ base \in Nat /\ DOMAIN examples = 1 .. n /\ DOMAIN labeled = 1 .. len
  BY <1>1, <1>3, <1>4
<1>6. \A k \in 1 .. len : labeled[k].boundary \in Nat /\ labeled[k].label \in {0, 1}
  <2>1. \A k \in 1 .. len : labeled[k] \in Label
    BY <1>1, <1>5
  <2> QED
    BY <2>1 DEF Label
<1>7. new \in Seq(Example) /\ Len(new) = len
  <2>1. \A k \in 1 .. len : new[k] \in Example
    BY <1>1, <1>5, <1>6 DEF Example
  <2>2. new = [k \in 1 .. len |-> new[k]]
    BY <1>5
  <2> HIDE DEF new, Example, len
  <2> QED
    BY <1>5, <2>1, <2>2, SeqOf
<1>8. \A k \in 1 .. len : new[k].sentence = m /\ feats[k] = FeaturesAt(at, new[k].boundary)
  BY <1>5
<1>9. feats \in Seq(Seq(Pairs)) /\ Len(feats) = len
  <2>1. \A k \in 1 .. len : feats[k] \in Seq(Pairs)
    BY <1>1, <1>5, <1>6, FeaturesAreSeq
  <2>2. feats = [k \in 1 .. len |-> feats[k]]
    BY <1>5
  <2> HIDE DEF feats, Pairs, len
  <2> QED
    BY <1>5, <2>1, <2>2, SeqOf
<1>10. offsets = [k \in 1 .. len |-> base + size[k]]
  <2>1. DOMAIN feats = 1 .. len
    BY <1>5
  <2>2. \A k \in 1 .. len : k \in 0 .. len
    BY <1>5
  <2> HIDE DEF feats
  <2> QED
    BY <2>1, <2>2 DEF NewOffsets
<1> HIDE DEF feats
<1>11. /\ whole \in Seq(Pairs)
       /\ \A k \in 0 .. len : upTo[k] \in Seq(Pairs)
       /\ size[0] = 0 /\ size[len] = Len(whole)
  <2>1. /\ Joined(SubSeq(feats, 1, 0)) = <<>> /\ Joined(SubSeq(feats, 1, len)) = whole
        /\ \A k \in 0 .. len : Joined(SubSeq(feats, 1, k)) \in Seq(Pairs)
    BY <1>9, JoinedPrefix
  <2>2. 0 \in 0 .. len /\ len \in 0 .. len
    BY <1>5
  <2>3. upTo[0] = <<>> /\ upTo[len] = whole /\ \A k \in 0 .. len : upTo[k] \in Seq(Pairs)
    BY <2>1, <2>2
  <2> HIDE DEF upTo, whole
  <2>4. size[0] = Len(upTo[0]) /\ size[len] = Len(upTo[len])
    BY <2>2
  <2>5. whole \in Seq(Pairs)
    BY <2>2, <2>3
  <2> QED
    BY <2>3, <2>4, <2>5
<1>12. \A k \in 0 .. len : size[k] \in Nat
  <2> HIDE DEF upTo
  <2>1. \A k \in 0 .. len : Len(upTo[k]) \in Nat
    BY <1>11
  <2> QED
    BY <2>1
<1>13. ASSUME NEW k \in 1 .. len
       PROVE  /\ feats[k] \in Seq(Pairs) /\ size[k] = size[k - 1] + Len(feats[k])
              /\ size[k] <= Len(whole)
              /\ \A i \in 1 .. Len(feats[k]) : whole[size[k - 1] + i] = feats[k][i]
  <2>1. PICK u : u = Joined(SubSeq(feats, 1, k - 1))
    OBVIOUS
  <2>2. PICK v : v = Joined(SubSeq(feats, 1, k))
    OBVIOUS
  <2>3. /\ u \in Seq(Pairs) /\ v \in Seq(Pairs) /\ feats[k] \in Seq(Pairs)
        /\ v = u \o feats[k] /\ Begins(u \o feats[k], whole)
    <3>1. feats \in Seq(Seq(Pairs)) /\ k \in 1 .. Len(feats)
      BY <1>9
    <3>2. u \in Seq(Pairs) /\ v \in Seq(Pairs) /\ feats[k] \in Seq(Pairs)
      BY <3>1, <2>1, <2>2, JoinedParts
    <3>3. Joined(SubSeq(feats, 1, k)) = Joined(SubSeq(feats, 1, k - 1)) \o feats[k]
      BY <1>9, JoinedPrefix
    <3>4. Begins(u \o feats[k], Joined(feats))
      BY <3>1, <2>1, <2>2, JoinedParts
    <3> QED
      BY <2>1, <2>2, <3>2, <3>3, <3>4
  <2>4. k - 1 \in 0 .. len /\ k \in 0 .. len
    BY <1>5
  <2>5. size[k - 1] = Len(u) /\ size[k] = Len(v)
    BY <2>1, <2>2, <2>4
  <2> HIDE DEF whole, size
  <2>6. /\ Len(u \o feats[k]) = Len(u) + Len(feats[k]) /\ Len(u \o feats[k]) <= Len(whole)
        /\ \A i \in 1 .. Len(feats[k]) : whole[Len(u) + i] = feats[k][i]
    BY <1>11, <2>3, SecondPart
  <2> QED
    BY <2>3, <2>5, <2>6
<1> HIDE DEF m, n, len, base, new, whole, upTo, size, offsets
<1>14. offsets \in Seq(Nat) /\ Len(offsets) = len /\ \A k \in 1 .. len : offsets[k] = base + size[k]
  <2>1. \A k \in 1 .. len : offsets[k] = base + size[k]
    BY <1>10
  <2>2. \A k \in 1 .. len : base + size[k] \in Nat
    <3>1. \A k \in 1 .. len : k \in 0 .. len
      BY <1>5
    <3> QED
      BY <1>5, <1>12, <3>1
  <2>3. \A k \in 1 .. len : offsets[k] \in Nat
    BY <2>1, <2>2
  <2>4. offsets = [k \in 1 .. len |-> offsets[k]]
    BY <1>10
  <2>5. offsets \in Seq(Nat) /\ Len(offsets) = len
    BY <1>5, <2>3, <2>4, SeqOf
  <2> QED
    BY <2>1, <2>5
<1>15. /\ examples' \in Seq(Example) /\ Len(examples') = n + len
       /\ \A k \in 1 .. n : examples'[k] = examples[k]
       /\ \A k \in 1 .. len : examples'[n + k] = new[k]
  <2>1. examples \in Seq(Example) /\ new \in Seq(Example)
    BY <1>3, <1>7
  <2>2. LET t == examples \o new
        IN  /\ t \in Seq(Example) /\ Len(t) = Len(examples) + Len(new)
            /\ \A k \in 1 .. Len(examples) : t[k] = examples[k]
            /\ \A k \in 1 .. Len(new) : t[Len(examples) + k] = new[k]
    BY <2>1, Appended
  <2> QED
    BY <1>2, <1>7, <2>2 DEF n
<1>16. /\ feat_indices' \in Seq(Pairs) /\ Len(feat_indices') = base + Len(whole) /\ Len(whole) \in Nat
       /\ \A k \in 1 .. Len(whole) : feat_indices'[base + k] = whole[k]
  BY <1>2, <1>4, <1>11, Appended DEF base
<1>17. /\ feat_offsets' \in Seq(Nat) /\ Len(feat_offsets') = (n + 1) + len
       /\ \A k \in 1 .. n + 1 : feat_offsets'[k] = feat_offsets[k]
       /\ \A k \in 1 .. len : feat_offsets'[(n + 1) + k] = offsets[k]
  <2>1. LET t == feat_offsets \o offsets
        IN  /\ t \in Seq(Nat) /\ Len(t) = Len(feat_offsets) + Len(offsets)
            /\ \A k \in 1 .. Len(feat_offsets) : t[k] = feat_offsets[k]
            /\ \A k \in 1 .. Len(offsets) : t[Len(feat_offsets) + k] = offsets[k]
    <3>1. feat_offsets \in Seq(Nat) /\ offsets \in Seq(Nat)
      BY <1>4, <1>14
    <3> QED
      BY <3>1, Appended
  <2> QED
    BY <1>2, <1>4, <1>14, <2>1
<1>18. \A k \in 0 .. len : feat_offsets'[(n + 1) + k] = base + size[k]
  <2> TAKE k \in 0 .. len
  <2>1. CASE k = 0
    <3>1. (n + 1) + k = n + 1 /\ n + 1 \in 1 .. n + 1 /\ base + 0 = base
      BY <1>5, <2>1
    <3> QED
      BY <1>4, <1>11, <1>17, <2>1, <3>1
  <2>2. CASE k # 0
    <3>1. k \in 1 .. len
      BY <1>5, <2>2
    <3> QED
      BY <1>14, <1>17, <3>1
  <2> QED
    BY <2>1, <2>2
<1>19. /\ Len(feat_offsets') = Len(examples') + 1
       /\ feat_offsets'[Len(examples') + 1] = Len(feat_indices')
  <2>1. (n + 1) + len = (n + len) + 1 /\ len \in 0 .. len
    BY <1>5
  <2> QED
    BY <1>11, <1>15, <1>16, <1>17, <1>18, <2>1
\* The examples before keep their features.
<1>20. ASSUME NEW k \in 1 .. n
       PROVE  /\ feat_offsets'[k] <= feat_offsets'[k + 1] /\ feat_offsets'[k + 1] <= Len(feat_indices')
              /\ SubSeq(feat_indices', feat_offsets'[k] + 1, feat_offsets'[k + 1]) =
                    FeaturesAt(stored'[examples'[k].sentence + 1], examples'[k].boundary)
  <2>1. k \in 1 .. n + 1 /\ k + 1 \in 1 .. n + 1
    BY <1>5
  <2>2. PICK p, q : p = feat_offsets[k] /\ q = feat_offsets[k + 1]
    OBVIOUS
  <2>3. p \in Nat /\ q \in Nat /\ p <= q /\ q <= base /\ feat_offsets'[k] = p /\ feat_offsets'[k + 1] = q
    <3>1. feat_offsets \in Seq(Nat) /\ Len(feat_offsets) = n + 1
      BY <1>4
    <3>2. feat_offsets[k] \in Nat /\ feat_offsets[k + 1] \in Nat
      BY <2>1, <3>1
    <3>3. feat_offsets'[k] = feat_offsets[k] /\ feat_offsets'[k + 1] = feat_offsets[k + 1]
      BY <1>17, <2>1
    <3>4. feat_offsets[k] <= feat_offsets[k + 1] /\ feat_offsets[k + 1] <= base
      BY <1>4, <1>5
    <3> QED
      BY <2>2, <3>2, <3>3, <3>4
  <2>4. q <= Len(feat_indices')
    BY <1>5, <1>16, <2>3
  <2>5. SubSeq(feat_indices \o whole, p + 1, q) = SubSeq(feat_indices, p + 1, q)
    <3>1. feat_indices \in Seq(Pairs) /\ whole \in Seq(Pairs) /\ q <= Len(feat_indices)
      BY <1>4, <1>11, <2>3 DEF base
    <3> QED
      BY <2>3, <3>1, SubSeqStays
  <2>6. examples[k].sentence \in Nat /\ examples[k].sentence < m
    <3>1. examples[k] \in Example
      BY <1>3, <1>5
    <3> QED
      BY <1>3, <1>5, <3>1 DEF Example
  <2>7. examples[k].sentence + 1 \in 1 .. m
    BY <1>1, <2>6
  <2> QED
    BY <1>1, <1>2, <1>4, <1>5, <1>15, <2>2, <2>3, <2>4, <2>5, <2>7
\* The new ones have what the matcher found at their boundaries.
<1>21. ASSUME NEW j \in 1 .. len, NEW k, k = n + j
       PROVE  /\ feat_offsets'[k] <= feat_offsets'[k + 1] /\ feat_offsets'[k + 1] <= Len(feat_indices')
              /\ SubSeq(feat_indices', feat_offsets'[k] + 1, feat_offsets'[k + 1]) =
                    FeaturesAt(stored'[examples'[k].sentence + 1], examples'[k].boundary)
  <2>1. PICK f : f = feats[j]
    OBVIOUS
  <2>2. PICK a, b : a = size[j - 1] /\ b = size[j]
    OBVIOUS
  <2>3. j - 1 \in 0 .. len /\ j \in 0 .. len /\ k = (n + 1) + (j - 1) /\ k + 1 = (n + 1) + j
    BY <1>5, <1>21
  <2>4. a \in Nat /\ b \in Nat /\ f \in Seq(Pairs) /\ Len(f) \in Nat
    BY <1>12, <1>13, <2>1, <2>2, <2>3
  <2>5. b = a + Len(f) /\ b <= Len(whole) /\ \A i \in 1 .. Len(f) : whole[a + i] = f[i]
    BY <1>13, <2>1, <2>2
  <2>6. feat_offsets'[k] = base + a /\ feat_offsets'[k + 1] = (base + a) + Len(f)
    <3>1. feat_offsets'[k] = base + a /\ feat_offsets'[k + 1] = base + b
      BY <1>18, <2>2, <2>3
    <3>2. base + b = (base + a) + Len(f)
      BY <1>5, <2>4, <2>5
    <3> QED
      BY <3>1, <3>2
  <2>7. /\ base + a \in Nat /\ base + a <= (base + a) + Len(f)
        /\ (base + a) + Len(f) <= Len(feat_indices')
    BY <1>5, <1>16, <2>4, <2>5
  <2>8. \A i \in 1 .. Len(f) : feat_indices'[(base + a) + i] = f[i]
    <3> TAKE i \in 1 .. Len(f)
    <3>1. a + i \in 1 .. Len(whole) /\ (base + a) + i = base + (a + i)
      BY <1>5, <1>16, <2>4, <2>5
    <3> QED
      BY <1>16, <2>5, <3>1
  <2>9. SubSeq(feat_indices', (base + a) + 1, (base + a) + Len(f)) = f
    BY <1>16, <2>4, <2>7, <2>8, SubSeqIs
  <2>10. examples'[k] = new[j]
    BY <1>15, <1>21
  <2> QED
    BY <1>1, <1>8, <2>1, <2>6, <2>7, <2>9, <2>10
<1>22. \A k \in DOMAIN examples' :
          /\ feat_offsets'[k] <= feat_offsets'[k + 1] /\ feat_offsets'[k + 1] <= Len(feat_indices')
          /\ SubSeq(feat_indices', feat_offsets'[k] + 1, feat_offsets'[k + 1]) =
                FeaturesAt(stored'[examples'[k].sentence + 1], examples'[k].boundary)
  <2>1. \A k \in DOMAIN examples' : k \in 1 .. n \/ \E j \in 1 .. len : k = n + j
    <3> SUFFICES ASSUME NEW k \in 1 .. n + len, k \notin 1 .. n PROVE \E j \in 1 .. len : k = n + j
      BY <1>15
    <3>1. k - n \in 1 .. len /\ k = n + (k - n)
      BY <1>5
    <3> QED
      BY <3>1
  <2> QED
    BY <1>20, <1>21, <2>1
<1> QED
  BY <1>16, <1>17, <1>19, <1>22 DEF FeatureInv, FeaturesAt

-----------------------------------------------------------------------------
\* All of it together.
LEMMA StoreKeeps ==
    ASSUME EInv, UNCHANGED corpusVars, Store
    PROVE  EInv'
BY StoreControl, StoreExamples, StoreLayout, StoreFeatures DEF EInv, SetInv

\* Every step keeps the invariant.
LEMMA StepEInv == IInv /\ EInv /\ [Next]_vars => EInv'
<1> SUFFICES ASSUME IInv, EInv, [Next]_vars PROVE EInv'
  OBVIOUS
<1>1. CASE Parse /\ UNCHANGED exampleVars
  BY <1>1, ParseStepKeeps
<1>2. CASE BuildParsed
  BY <1>2, BuildParsedKeeps
<1>3. CASE BuildOthers
  BY <1>3, BuildOthersKeeps
<1>4. CASE BuildStep /\ UNCHANGED corpusVars
  <2>1. CASE Encode \/ SkipInvalid \/ EndOfSentences \/ Conflict \/ Unstored
    BY <1>4, <2>1, SentenceKeeps
  <2>2. CASE Inside \/ Unsupervised \/ Supervised
    BY <1>4, <2>2, GapKeeps
  <2>3. CASE Store
    BY <1>4, <2>3, StoreKeeps
  <2> QED
    BY <1>4, <2>1, <2>2, <2>3 DEF BuildStep
<1>5. CASE UNCHANGED vars
  <2>1. UNCHANGED corpusVars /\ UNCHANGED exampleVars
    BY <1>5 DEF vars
  <2> QED
    BY <2>1, ParseStepKeeps
<1> QED
  BY <1>1, <1>2, <1>3, <1>4, <1>5 DEF Next

-----------------------------------------------------------------------------
(* What follows from the invariant. *)

LEMMA MarksFollow == EInv => ExamplesCarryTheMarks
<1> SUFFICES ASSUME EInv PROVE ExamplesCarryTheMarks
  OBVIOUS
<1>1. Len(stored) \in Nat /\ DOMAIN stored = 1 .. Len(stored) /\ Len(examples) \in Nat /\ DOMAIN examples = 1 .. Len(examples)
  BY DEF EInv, SetInv, StoredInv, ExampleInv
<1>2. ASSUME NEW n \in 0 .. Len(stored) - 1
      PROVE  LET s == stored[n + 1]
                 mine == {k \in DOMAIN examples : examples[k].sentence = n}
             IN  /\ sents[s].valid /\ ~HasConflict(s)
                 /\ Cardinality(mine) = Cardinality(ExamplesOf(s))
                 /\ {Mark(examples[k]) : k \in mine} = ExamplesOf(s)
  <2>1. PICK id : id = n + 1
    OBVIOUS
  <2>2. id \in DOMAIN stored /\ id - 1 = n
    BY <1>1, <2>1
  <2>3. sents[stored[id]].valid /\ ~HasConflict(stored[id])
    BY <2>2 DEF EInv, SetInv, StoredInv
  <2>4. Carried(id)
    BY <2>2 DEF EInv, SetInv, ExampleInv
  <2>5. Mine(id) = {k \in DOMAIN examples : examples[k].sentence = n}
    BY <2>2 DEF Mine
  <2> DEFINE M == Mine(id)
             E == ExamplesOf(stored[id])
             f == [k \in M |-> Mark(examples[k])]
  <2>6. IsFiniteSet(M)
    <3>1. IsFiniteSet(DOMAIN examples)
      BY <1>1, FS_Interval
    <3>2. M \in SUBSET (DOMAIN examples)
      BY DEF Mine
    <3> HIDE DEF M
    <3> QED
      BY <3>1, <3>2, FS_Subset
  <2>7. {Mark(examples[k]) : k \in M} = E
    BY <2>4 DEF Carried
  <2>8. \A j, k \in M : f[j] = f[k] => j = k
    <3>1. \A k \in M : f[k].boundary = examples[k].boundary
      BY DEF Mark
    <3>2. \A j, k \in M : examples[j].boundary = examples[k].boundary => j = k
      BY <2>4 DEF Carried
    <3> HIDE DEF M, f
    <3> QED
      BY <3>1, <3>2
  <2> HIDE DEF M, E
  <2>9. f \in [M -> E] /\ (\A t \in E : \E k \in M : f[k] = t) /\ DOMAIN f = M
    BY <2>7
  <2> HIDE DEF f
  <2>10. f \in Surjection(M, E)
    BY <2>9 DEF Surjection
  <2>11. f \in Injection(M, E)
    BY <2>8, <2>9 DEF Injection, IsInjective
  <2>12. Cardinality(M) = Cardinality(E)
    BY <2>6, <2>10, <2>11, FS_Surjection
  <2> QED
    BY <2>1, <2>3, <2>5, <2>7, <2>12 DEF M, E
<1>3. ASSUME building = "built", NEW s \in DOMAIN sents, sents[s].valid, ~HasConflict(s), ExamplesOf(s) # {}
      PROVE  \E id \in DOMAIN stored : stored[id] = s
  <2>1. at = Len(sents) /\ DOMAIN sents = 1 .. Len(sents)
    BY <1>3 DEF EInv, ControlInv
  <2> QED
    BY <1>3, <2>1 DEF EInv, DoneInv
<1> QED
  BY <1>2, <1>3 DEF ExamplesCarryTheMarks, Mark

\* Where cluster e of n code points ends.
End(S, n, e) == IF e + 1 < Cardinality(S) THEN Start(S, e + 1) ELSE n

\* Which code points are in cluster e.
LEMMA ClusterIs ==
    ASSUME NEW n \in Nat, NEW S \in SUBSET (0 .. n - 1), NEW e \in 0 .. Cardinality(S) - 1
    PROVE  /\ Start(S, e) \in Nat /\ End(S, n, e) \in Nat /\ Start(S, e) < End(S, n, e) /\ End(S, n, e) <= n
           /\ \A x \in 0 .. n - 1 :
                 Cardinality({t \in S : t <= x}) - 1 = e <=> Start(S, e) <= x /\ x < End(S, n, e)
<1>0. PICK lo, hi : lo = Start(S, e) /\ hi = IF e + 1 < Cardinality(S) THEN Start(S, e + 1) ELSE n
  OBVIOUS
<1>1. /\ Cardinality(S) \in Nat /\ Rank(S, n) = Cardinality(S)
      /\ \A c : Rank(S, c) \in Nat /\ Rank(S, c) <= Cardinality(S)
  BY RankBounds
<1>2. lo \in S /\ Rank(S, lo) = e /\ lo \in 0 .. n - 1
  BY <1>0, StartHasRank
<1>3. /\ hi \in Nat /\ lo < hi /\ hi <= n /\ Rank(S, hi) = e + 1
      /\ hi # n => hi \in S
  <2>1. CASE e + 1 < Cardinality(S)
    <3>1. e + 1 \in 0 .. Cardinality(S) - 1 /\ hi = Start(S, e + 1)
      BY <1>0, <1>1, <2>1
    <3>2. hi \in S /\ Rank(S, hi) = e + 1 /\ hi \in 0 .. n - 1
      BY <3>1, StartHasRank
    <3>3. hi <= lo => Rank(S, hi) <= Rank(S, lo)
      <4>1. hi \in Int /\ lo \in Int
        BY <1>2, <3>2
      <4> QED
        BY <4>1, RankGrows
    <3> QED
      BY <1>2, <3>2, <3>3
  <2>2. CASE ~ (e + 1 < Cardinality(S))
    <3>1. hi = n /\ Cardinality(S) = e + 1
      BY <1>0, <1>1, <2>2
    <3> QED
      BY <1>1, <1>2, <3>1
  <2> QED
    BY <2>1, <2>2
<1>4. ASSUME NEW x \in 0 .. n - 1
      PROVE  Cardinality({t \in S : t <= x}) - 1 = e <=> lo <= x /\ x < hi
  <2> DEFINE r == Rank(S, x + 1)
  <2>1. Cardinality({t \in S : t <= x}) = r
    <3>1. \A t \in S : t \in Int
      OBVIOUS
    <3>2. \A t \in S : t <= x <=> t < x + 1
      BY <3>1
    <3>3. {t \in S : t <= x} = {t \in S : t < x + 1}
      BY <3>2
    <3> QED
      BY <3>3 DEF Rank
  <2>2. r \in Nat
    BY <1>1
  <2>3. x \in Int /\ x + 1 \in Int /\ lo \in Int /\ hi \in Int /\ lo + 1 \in Int /\ hi + 1 \in Int
    BY <1>2, <1>3
  <2>4. x < lo => r <= e
    <3>1. x < lo => x + 1 <= lo
      BY <2>3
    <3> QED
      BY <1>2, <2>3, <3>1, RankGrows
  <2>5. lo <= x => e + 1 <= r
    <3>1. Rank(S, lo + 1) = e + 1
      BY <1>2, <2>3, RankNext
    <3>2. lo <= x => lo + 1 <= x + 1
      BY <2>3
    <3> QED
      BY <2>3, <3>1, <3>2, RankGrows
  <2>6. x < hi => r <= e + 1
    <3>1. x < hi => x + 1 <= hi
      BY <2>3
    <3> QED
      BY <1>3, <2>3, <3>1, RankGrows
  <2>7. hi <= x => e + 2 <= r
    <3> SUFFICES ASSUME hi <= x PROVE e + 2 <= r
      OBVIOUS
    <3>1. hi \in S /\ hi + 1 <= x + 1
      BY <1>3, <2>3
    <3>2. Rank(S, hi + 1) = Rank(S, hi) + 1
      BY <2>3, <3>1, RankNext
    <3>3. Rank(S, hi + 1) <= r
      BY <2>3, <3>1, RankGrows
    <3>4. (e + 1) + 1 = e + 2
      OBVIOUS
    <3> QED
      BY <1>3, <3>2, <3>3, <3>4
  <2> HIDE DEF r
  <2> QED
    BY <2>1, <2>2, <2>3, <2>4, <2>5, <2>6, <2>7
<1>5. lo = Start(S, e) /\ hi = End(S, n, e)
  BY <1>0 DEF End
<1> QED
  BY <1>2, <1>3, <1>4, <1>5

LEMMA OffsetsFollow == EInv => OffsetsFindTheirOwn
<1> SUFFICES ASSUME EInv PROVE OffsetsFindTheirOwn
  OBVIOUS
<1>1. ASSUME NEW m \in 0 .. Len(stored) - 1, NEW e \in 0 .. Cardinality(sents[stored[m + 1]].starts) - 1
      PROVE  {EgcRows(m, e)[k] : k \in DOMAIN EgcRows(m, e)} =
                {<<stored[m + 1], c>> :
                    c \in {x \in 0 .. Len(sents[stored[m + 1]].text) - 1 :
                              Cardinality({t \in sents[stored[m + 1]].starts : t <= x}) - 1 = e}}
  <2> DEFINE s == stored[m + 1]
             S == sents[s].starts
             n == Len(sents[s].text)
             first == sentence_starts[m + 1]
             lo == Start(S, e)
             hi == End(S, n, e)
  <2>1. Len(stored) \in Nat /\ DOMAIN stored = 1 .. Len(stored) /\ m + 1 \in 1 .. Len(stored)
    BY DEF EInv, SetInv, StoredInv
  <2>2. n \in Nat /\ S \in SUBSET (0 .. n - 1)
    <3>1. s \in 1 .. at /\ sents[s].valid
      BY <2>1 DEF EInv, SetInv, StoredInv
    <3>2. at \in 0 .. Len(sents) /\ Len(sents) \in Nat /\ DOMAIN sents = 1 .. Len(sents)
      BY DEF EInv, ControlInv
    <3>3. s \in DOMAIN sents
      BY <3>1, <3>2
    <3>4. Encodable(sents[s])
      BY <3>1, <3>3 DEF EInv, ControlInv
    <3> QED
      BY <3>4 DEF Encodable
  <2>3. Laid(m + 1) /\ rows \in Seq(Pairs) /\ sentence_starts \in Seq(Nat) /\ Len(sentence_starts) = Len(stored) + 1
    BY <2>1 DEF EInv, SetInv, LayoutInv
  <2>4. PICK base \in Nat :
              /\ base + n <= Len(rows)
              /\ \A j \in 0 .. Cardinality(S) :
                    egc_starts[first + 1 + j] = base + IF j < Cardinality(S) THEN Start(S, j) ELSE n
              /\ \A c \in 0 .. n - 1 : rows[base + 1 + c] = <<s, c>>
    BY <2>3 DEF Laid
  <2>5. first \in Nat /\ Cardinality(S) \in Nat
    <3>1. m + 1 \in DOMAIN sentence_starts
      BY <2>1, <2>3
    <3>2. Cardinality(S) \in Nat
      BY <2>2, RankBounds
    <3>3. first \in Nat
      BY <2>3, <3>1
    <3> QED
      BY <3>2, <3>3
  <2>6. e \in 0 .. Cardinality(S) - 1
    OBVIOUS
  <2>7. EgcRows(m, e) = SubSeq(rows, egc_starts[first + e + 1] + 1, egc_starts[first + e + 2])
    BY DEF EgcRows
  <2> HIDE DEF s, S, n, first, lo, hi
  <2>8. /\ lo \in Nat /\ hi \in Nat /\ lo < hi /\ hi <= n
        /\ \A x \in 0 .. n - 1 : Cardinality({t \in S : t <= x}) - 1 = e <=> lo <= x /\ x < hi
    BY <2>2, <2>6, ClusterIs DEF lo, hi
  <2>9. egc_starts[first + e + 1] = base + lo /\ egc_starts[first + e + 2] = base + hi
    <3>1. /\ first + 1 + e = first + e + 1 /\ first + 1 + (e + 1) = first + e + 2
          /\ e \in 0 .. Cardinality(S) /\ e + 1 \in 0 .. Cardinality(S) /\ e < Cardinality(S)
      BY <2>5, <2>6
    <3> QED
      BY <2>4, <3>1 DEF lo, hi, End
  <2> DEFINE u == SubSeq(rows, (base + lo) + 1, base + hi)
             len == hi - lo
  <2>10. u \in Seq(Pairs) /\ Len(u) = len /\ \A i \in 1 .. len : u[i] = rows[base + lo + i]
    <3>1. Len(rows) \in Nat /\ (base + lo) + 1 \in Int /\ base + hi \in Int /\ len \in Nat
      BY <2>3, <2>8
    <3>2. \A i \in (base + lo) + 1 .. base + hi : rows[i] \in Pairs
      <4>1. \A i \in (base + lo) + 1 .. base + hi : i \in 1 .. Len(rows)
        BY <2>2, <2>4, <2>8, <3>1
      <4> QED
        BY <2>3, <4>1
    <3>3. (base + lo) + 1 <= base + hi /\ (base + hi) - ((base + lo) + 1) + 1 = len
      BY <2>8
    <3>4. /\ u \in Seq(Pairs) /\ Len(u) = len /\ \A i \in 1 .. len : u[i] = rows[(base + lo) + 1 + i - 1]
      BY <3>1, <3>2, <3>3, SubSeqProperties
    <3>5. \A i \in 1 .. len : (base + lo) + 1 + i - 1 = base + lo + i
      BY <2>8
    <3> HIDE DEF u, len
    <3> QED
      BY <3>4, <3>5
  <2>11. len \in Nat
    BY <2>8
  <2>12. \A i \in 1 .. len : lo + i - 1 \in 0 .. n - 1 /\ lo <= lo + i - 1 /\ lo + i - 1 < hi
                              /\ base + 1 + (lo + i - 1) = base + lo + i
    BY <2>2, <2>8
  <2>13. \A x \in 0 .. n - 1 : lo <= x /\ x < hi => \E i \in 1 .. len : x = lo + i - 1
    <3> SUFFICES ASSUME NEW x \in 0 .. n - 1, lo <= x, x < hi PROVE \E i \in 1 .. len : x = lo + i - 1
      OBVIOUS
    <3>1. x - lo + 1 \in 1 .. len /\ x = lo + (x - lo + 1) - 1
      BY <2>8
    <3> QED
      BY <3>1
  <2> HIDE DEF u, len
  <2>14. \A i \in 1 .. len : u[i] = <<s, lo + i - 1>>
    BY <2>4, <2>10, <2>12
  <2>15. DOMAIN u = 1 .. len
    BY <2>10, <2>11
  <2> DEFINE C == {x \in 0 .. n - 1 : Cardinality({t \in S : t <= x}) - 1 = e}
  <2>16. \A c : c \in C <=> \E i \in 1 .. len : c = lo + i - 1
    BY <2>8, <2>12, <2>13
  <2> HIDE DEF C
  <2>17. {u[k] : k \in DOMAIN u} = {<<s, c>> : c \in C}
    <3>1. \A k \in DOMAIN u : \E c \in C : u[k] = <<s, c>>
      BY <2>14, <2>15, <2>16
    <3>2. \A c \in C : \E k \in DOMAIN u : u[k] = <<s, c>>
      BY <2>14, <2>15, <2>16
    <3> QED
      BY <3>1, <3>2, Zenon
  <2>18. EgcRows(m, e) = u
    BY <2>7, <2>9 DEF u
  <2> QED
    BY <2>17, <2>18 DEF C, s, S, n
<1>2. \A k \in DOMAIN examples :
          SubSeq(feat_indices, feat_offsets[k] + 1, feat_offsets[k + 1]) =
              FeaturesAt(stored[examples[k].sentence + 1], examples[k].boundary)
  BY DEF EInv, SetInv, FeatureInv
<1> QED
  BY <1>1, <1>2 DEF OffsetsFindTheirOwn

-----------------------------------------------------------------------------
LEMMA ExamplesInvariant == Spec => []EInv
<1>1. Init => IInv /\ EInv
  BY InitInv, InitEInv
<1>2. (IInv /\ EInv) /\ [Next]_vars => (IInv /\ EInv)'
  BY StepInv, StepEInv
<1>3. IInv /\ EInv => EInv
  OBVIOUS
<1> QED
  BY <1>1, <1>2, <1>3, PTL DEF Spec

\* However the sentences come, and whatever they are: what is stored of them are the examples
\* that their supervised cluster boundaries call for, with the marks found there, no sentence
\* with a conflict is among them, and in the end none that has examples is missing.
THEOREM ExamplesAreTheMarks == Spec => []ExamplesCarryTheMarks
<1>1. EInv => ExamplesCarryTheMarks
  BY MarksFollow
<1> QED
  BY <1>1, ExamplesInvariant, PTL

\* The offsets into the flattened arrays find every cluster's code points, and every example's
\* features, however many sentences were stored before and skipped in between.
THEOREM OffsetsAreRight == Spec => []OffsetsFindTheirOwn
<1>1. EInv => OffsetsFindTheirOwn
  BY OffsetsFollow
<1> QED
  BY <1>1, ExamplesInvariant, PTL

-----------------------------------------------------------------------------
(* Reading back what predict wrote: where in a line each character is.     *)

\* Names for characters, which the provers take better than strings.
Blank == " "
Backslash == "\\"

Chars == STRING \ {"bad"}
Symbols == Chars \cup {Blank, Backslash}
Words == Seq(Chars) \ {<<>>}

\* A space, or none.
Lead(sp) == IF sp = 1 THEN <<Blank>> ELSE <<>>
Gap(B, j) == IF j \in B THEN 1 ELSE 0
Escapes(w) == [k \in DOMAIN w |-> Escaped(w[k])]
Between(w) == IF w = 1 THEN 0 ELSE 1
Pieces(words) == [w \in DOMAIN words |-> Lead(Between(w)) \o Concat(Escapes(words[w]))]

\* Character c takes the line from "from" to "to", after sp spaces.
ItemAt(l, c, sp, from, to) ==
    LET start == from + sp
    IN  /\ sp = 1 => l[from + 1] = Blank
        /\ c \in Delimiters => to = start + 2 /\ l[start + 1] = Backslash /\ l[start + 2] = c
        /\ c \notin Delimiters => to = start + 1 /\ l[start + 1] = c

\* The line holds the text t, its characters ending at off, with a space after every character of B.
Written(l, t, B, off) ==
    /\ off[0] = 0 /\ off[Len(t)] = Len(l)
    /\ \A j \in 0 .. Len(t) : off[j] \in Nat /\ off[j] <= Len(l)
    /\ \A j \in 1 .. Len(t) : ItemAt(l, t[j], Gap(B, j - 1), off[j - 1], off[j])

LEMMA ConcatIsJoined == \A seqs : Concat(seqs) = Joined(seqs)
BY DEF Concat, Joined

\* An item stays where it is when the line grows, and ends after it begins.
LEMMA ItemStays ==
    ASSUME NEW l \in Seq(Symbols), NEW m \in Seq(Symbols), NEW c, NEW sp \in {0, 1},
           NEW from \in Nat, NEW to \in Nat, to <= Len(l), ItemAt(l, c, sp, from, to)
    PROVE  ItemAt(l \o m, c, sp, from, to) /\ from < to /\ (sp = 1 => from + 1 < to)
<1> DEFINE u == l \o m
<1>1. Len(l) \in Nat /\ \A k \in 1 .. Len(l) : u[k] = l[k]
  BY Appended
<1> HIDE DEF u
<1> DEFINE b == from + sp
<1>2. b \in Nat /\ from <= b /\ (sp = 1 => b = from + 1)
  OBVIOUS
<1>3. /\ sp = 1 => l[from + 1] = Blank
      /\ c \in Delimiters => to = b + 2 /\ l[b + 1] = Backslash /\ l[b + 2] = c
      /\ c \notin Delimiters => to = b + 1 /\ l[b + 1] = c
  BY DEF ItemAt
<1> HIDE DEF b
<1>4. b < to /\ (sp = 1 => from + 1 \in 1 .. Len(l)) /\ b + 1 \in 1 .. Len(l) /\ (c \in Delimiters => b + 2 \in 1 .. Len(l))
  BY <1>1, <1>2, <1>3
<1>5. /\ sp = 1 => u[from + 1] = Blank
      /\ c \in Delimiters => to = b + 2 /\ u[b + 1] = Backslash /\ u[b + 2] = c
      /\ c \notin Delimiters => to = b + 1 /\ u[b + 1] = c
  BY <1>1, <1>3, <1>4
<1>6. ItemAt(u, c, sp, from, to)
  BY <1>5 DEF ItemAt, b
<1> QED
  BY <1>2, <1>4, <1>6 DEF u

LEMMA EscapedIs ==
    ASSUME NEW c \in Chars
    PROVE  /\ Escaped(c) \in Seq(Symbols)
           /\ c \in Delimiters => Len(Escaped(c)) = 2 /\ Escaped(c)[1] = Backslash /\ Escaped(c)[2] = c
           /\ c \notin Delimiters => Len(Escaped(c)) = 1 /\ Escaped(c)[1] = c
<1>1. c \in Symbols /\ Backslash \in Symbols
  BY DEF Symbols
<1>2. CASE c \in Delimiters
  BY <1>1, <1>2 DEF Escaped, Backslash
<1>3. CASE c \notin Delimiters
  BY <1>1, <1>3 DEF Escaped
<1> QED
  BY <1>2, <1>3

\* What follows the line so far: a space or none, and a character.
LEMMA ItemFollows ==
    ASSUME NEW l \in Seq(Symbols), NEW c \in Chars, NEW sp \in {0, 1}
    PROVE  LET u == (l \o Lead(sp)) \o Escaped(c)
           IN  /\ u \in Seq(Symbols) /\ Len(l) \in Nat /\ Len(u) \in Nat /\ Len(l) <= Len(u)
               /\ ItemAt(u, c, sp, Len(l), Len(u))
               /\ \E m \in Seq(Symbols) : u = l \o m
<1> DEFINE a == Lead(sp)
           e == Escaped(c)
           v == l \o a
           u == v \o e
<1>1. a \in Seq(Symbols) /\ Len(a) = sp /\ (sp = 1 => a[1] = Blank)
  <2>1. CASE sp = 1
    BY <2>1 DEF Lead, Symbols
  <2>2. CASE sp = 0
    BY <2>2 DEF Lead, Symbols
  <2> QED
    BY <2>1, <2>2
<1>2. /\ e \in Seq(Symbols) /\ (c \in Delimiters => Len(e) = 2 /\ e[1] = Backslash /\ e[2] = c)
      /\ (c \notin Delimiters => Len(e) = 1 /\ e[1] = c)
  BY EscapedIs
<1> HIDE DEF a, e
<1>2a. e \in Seq(Symbols) /\ Len(e) \in Nat
  BY <1>2
<1>3. /\ v \in Seq(Symbols) /\ Len(l) \in Nat /\ Len(v) = Len(l) + Len(a)
      /\ \A k \in 1 .. Len(a) : v[Len(l) + k] = a[k]
  BY <1>1, Appended
<1> HIDE DEF v
<1>3a. v \in Seq(Symbols)
  BY <1>3
<1>4. /\ u \in Seq(Symbols) /\ Len(u) = Len(v) + Len(e) /\ Len(v) \in Nat
      /\ \A k \in 1 .. Len(v) : u[k] = v[k]
      /\ \A k \in 1 .. Len(e) : u[Len(v) + k] = e[k]
  BY <1>2a, <1>3a, Appended
<1>5. u = l \o (a \o e) /\ a \o e \in Seq(Symbols)
  BY <1>1, <1>2, ConcatAssociative, ConcatProperties DEF v
<1> HIDE DEF u
<1>6. Len(u) \in Nat /\ Len(l) <= Len(u)
  BY <1>1, <1>2, <1>3, <1>4
<1>7. sp = 1 => u[Len(l) + 1] = Blank
  <2> SUFFICES ASSUME sp = 1 PROVE u[Len(l) + 1] = Blank
    OBVIOUS
  <2>1. Len(l) + 1 \in 1 .. Len(v) /\ 1 \in 1 .. Len(a)
    BY <1>1, <1>3
  <2> QED
    BY <1>1, <1>3, <1>4, <2>1
<1>8. c \in Delimiters => Len(u) = Len(v) + 2 /\ u[Len(v) + 1] = Backslash /\ u[Len(v) + 2] = c
  <2> SUFFICES ASSUME c \in Delimiters
               PROVE  Len(u) = Len(v) + 2 /\ u[Len(v) + 1] = Backslash /\ u[Len(v) + 2] = c
    OBVIOUS
  <2>1. Len(e) = 2 /\ e[1] = Backslash /\ e[2] = c
    BY <1>2
  <2>2. 1 \in 1 .. Len(e) /\ 2 \in 1 .. Len(e)
    BY <2>1
  <2> QED
    BY <1>4, <2>1, <2>2
<1>9. c \notin Delimiters => Len(u) = Len(v) + 1 /\ u[Len(v) + 1] = c
  <2> SUFFICES ASSUME c \notin Delimiters
               PROVE  Len(u) = Len(v) + 1 /\ u[Len(v) + 1] = c
    OBVIOUS
  <2>1. Len(e) = 1 /\ e[1] = c
    BY <1>2
  <2>2. 1 \in 1 .. Len(e)
    BY <2>1
  <2> QED
    BY <1>4, <2>1, <2>2
<1>10. Len(v) = Len(l) + sp
  BY <1>1, <1>3
<1>11. ItemAt(u, c, sp, Len(l), Len(u))
  BY <1>7, <1>8, <1>9, <1>10 DEF ItemAt
<1> QED
  BY <1>3, <1>4, <1>5, <1>6, <1>11 DEF u, v, a, e

\* One character more.
LEMMA WrittenNext ==
    ASSUME NEW l \in Seq(Symbols), NEW t \in Seq(Chars), NEW B, NEW off, Written(l, t, B, off),
           NEW c \in Chars, NEW sp \in {0, 1}, NEW D,
           \A j \in 0 .. Len(t) - 1 : j \in D <=> j \in B,
           Gap(D, Len(t)) = sp
    PROVE  /\ (l \o Lead(sp)) \o Escaped(c) \in Seq(Symbols)
           /\ \E o : Written((l \o Lead(sp)) \o Escaped(c), Append(t, c), D, o)
<1> DEFINE u == (l \o Lead(sp)) \o Escaped(c)
           n == Len(t)
           s == Append(t, c)
           o == [j \in 0 .. n + 1 |-> IF j <= n THEN off[j] ELSE Len(u)]
<1>1. /\ u \in Seq(Symbols) /\ Len(l) \in Nat /\ Len(u) \in Nat /\ Len(l) <= Len(u)
      /\ ItemAt(u, c, sp, Len(l), Len(u)) /\ \E m \in Seq(Symbols) : u = l \o m
  BY ItemFollows
<1> HIDE DEF u
<1>2. PICK m \in Seq(Symbols) : u = l \o m
  BY <1>1
<1>3. /\ n \in Nat /\ Len(s) = n + 1 /\ s[n + 1] = c /\ \A k \in 1 .. n : s[k] = t[k]
  OBVIOUS
<1>0. n \in Nat
  OBVIOUS
<1> HIDE DEF n, s
<1>4. /\ off[0] = 0 /\ off[n] = Len(l)
      /\ \A j \in 0 .. n : off[j] \in Nat /\ off[j] <= Len(l)
      /\ \A j \in 1 .. n : ItemAt(l, t[j], Gap(B, j - 1), off[j - 1], off[j])
  BY DEF Written, n
<1>5. /\ \A j \in 0 .. n : o[j] = off[j]
      /\ o[n + 1] = Len(u)
  BY <1>3
<1> HIDE DEF o
<1>6. \A j \in 0 .. n + 1 : o[j] \in Nat /\ o[j] <= Len(u)
  <2> TAKE j \in 0 .. n + 1
  <2>1. CASE j \in 0 .. n
    BY <1>1, <1>4, <1>5, <2>1
  <2>2. CASE j = n + 1
    BY <1>1, <1>5, <2>2
  <2> QED
    BY <1>3, <2>1, <2>2
<1>7. \A j \in 1 .. n + 1 : ItemAt(u, s[j], Gap(D, j - 1), o[j - 1], o[j])
  <2> TAKE j \in 1 .. n + 1
  <2>1. CASE j \in 1 .. n
    <3>1. j - 1 \in 0 .. n /\ j \in 0 .. n /\ j - 1 \in 0 .. n - 1
      BY <1>3, <2>1
    <3>2. ItemAt(l, t[j], Gap(B, j - 1), off[j - 1], off[j]) /\ off[j - 1] \in Nat /\ off[j] \in Nat /\ off[j] <= Len(l)
      BY <1>4, <2>1, <3>1
    <3>3. Gap(B, j - 1) \in {0, 1}
      BY DEF Gap
    <3>4. ItemAt(l \o m, t[j], Gap(B, j - 1), off[j - 1], off[j])
      BY <3>2, <3>3, ItemStays
    <3>5. Gap(D, j - 1) = Gap(B, j - 1)
      BY <3>1 DEF n, Gap
    <3> QED
      BY <1>2, <1>3, <1>5, <2>1, <3>1, <3>4, <3>5
  <2>2. CASE j = n + 1
    <3>1. j - 1 = n /\ n \in 0 .. n
      BY <1>0, <2>2
    <3>2. Gap(D, n) = sp
      BY DEF n
    <3>3. o[j - 1] = Len(l) /\ o[j] = Len(u) /\ s[j] = c /\ Gap(D, j - 1) = sp
      BY <1>3, <1>4, <1>5, <2>2, <3>1, <3>2
    <3> QED
      BY <1>1, <3>3
  <2> QED
    BY <1>3, <2>1, <2>2
<1>8. o[0] = 0 /\ o[n + 1] = Len(u)
  BY <1>3, <1>4, <1>5
<1>9. Written(u, s, D, o)
  BY <1>3, <1>6, <1>7, <1>8 DEF Written
<1> QED
  BY <1>1, <1>9 DEF u, s

\* What Concat computes on the way.
LEMMA ConcatIs ==
    ASSUME NEW seqs, NEW n \in Nat, Len(seqs) = n
    PROVE  /\ Concat(seqs) = UpTo(seqs)[n] /\ UpTo(seqs)[0] = <<>>
           /\ \A k \in 0 .. n - 1 : UpTo(seqs)[k + 1] = UpTo(seqs)[k] \o seqs[k + 1]
<1>1. Concat(seqs) = UpTo(seqs)[n] /\ UpTo(seqs)[0] = <<>> /\ \A k \in 1 .. n : UpTo(seqs)[k] = UpTo(seqs)[k - 1] \o seqs[k]
  BY ConcatIsJoined, UpToIs
<1>2. \A k \in 0 .. n - 1 : k + 1 \in 1 .. n /\ (k + 1) - 1 = k
  OBVIOUS
<1> QED
  BY <1>1, <1>2

\* One element more of a subsequence that is appended.
LEMMA PrefixNext ==
    ASSUME NEW X, NEW t \in Seq(X), NEW w \in Seq(X), NEW k \in 0 .. Len(w) - 1
    PROVE  /\ t \o SubSeq(w, 1, k) \in Seq(X) /\ w[k + 1] \in X
           /\ Len(t \o SubSeq(w, 1, k)) = Len(t) + k
           /\ t \o SubSeq(w, 1, k + 1) = Append(t \o SubSeq(w, 1, k), w[k + 1])
<1> DEFINE a == SubSeq(w, 1, k)
           b == SubSeq(w, 1, k + 1)
<1>1. Len(w) \in Nat /\ k \in Nat /\ k + 1 \in 1 .. Len(w)
  OBVIOUS
<1>2. a \in Seq(X) /\ Len(a) = k /\ \A i \in 1 .. k : a[i] = w[i]
  BY <1>1
<1>3. b \in Seq(X) /\ Len(b) = k + 1 /\ \A i \in 1 .. k + 1 : b[i] = w[i]
  BY <1>1
<1> HIDE DEF a, b
<1>4. w[k + 1] \in X
  BY <1>1
<1>5. b = Append(a, w[k + 1])
  BY <1>1, <1>2, <1>3, <1>4
<1>6. t \o Append(a, w[k + 1]) = Append(t \o a, w[k + 1])
  BY <1>2, <1>4
<1>7. t \o a \in Seq(X) /\ Len(t \o a) = Len(t) + k
  BY <1>2, Appended
<1> QED
  BY <1>4, <1>5, <1>6, <1>7 DEF a, b

LEMMA EscapesAre ==
    ASSUME NEW w \in Seq(Chars)
    PROVE  /\ Escapes(w) \in Seq(Seq(Symbols)) /\ Len(Escapes(w)) = Len(w)
           /\ \A k \in 1 .. Len(w) : Escapes(w)[k] = Escaped(w[k])
<1>1. \A k \in 1 .. Len(w) : w[k] \in Chars
  OBVIOUS
<1>2. \A k \in 1 .. Len(w) : Escaped(w[k]) \in Seq(Symbols)
  BY <1>1, EscapedIs
<1> QED
  BY <1>2 DEF Escapes

\* The flattened prefixes hold what the parts hold.
LEMMA UpToType ==
    ASSUME NEW X, NEW seqs \in Seq(Seq(X))
    PROVE  \A k \in 0 .. Len(seqs) : UpTo(seqs)[k] \in Seq(X)
<1> DEFINE n == Len(seqs)
           T == {k \in Nat : k <= n => UpTo(seqs)[k] \in Seq(X)}
<1>1. n \in Nat /\ \A k \in 0 .. n - 1 : seqs[k + 1] \in Seq(X)
  OBVIOUS
<1>2. UpTo(seqs)[0] = <<>> /\ \A k \in 0 .. n - 1 : UpTo(seqs)[k + 1] = UpTo(seqs)[k] \o seqs[k + 1]
  BY <1>1, ConcatIs
<1> HIDE DEF n
<1>3. 0 \in T
  <2>1. <<>> \in Seq(X)
    OBVIOUS
  <2> QED
    BY <1>2, <2>1
<1>4. ASSUME NEW k \in T PROVE k + 1 \in T
  <2> SUFFICES ASSUME k + 1 <= n PROVE UpTo(seqs)[k + 1] \in Seq(X)
    OBVIOUS
  <2>1. k \in 0 .. n - 1 /\ UpTo(seqs)[k] \in Seq(X)
    BY <1>1
  <2> QED
    BY <1>1, <1>2, <2>1, ConcatProperties
<1> HIDE DEF T
<1>5. T \subseteq Nat
  BY DEF T
<1>6. T = Nat
  BY <1>3, <1>4, <1>5, Induct
<1> QED
  BY <1>6 DEF T, n

LEMMA PrefixesOfWord ==
    ASSUME NEW t \in Seq(Chars), NEW w \in Seq(Chars), NEW n, n = Len(w)
    PROVE  \A k \in 0 .. n - 1 : /\ t \o SubSeq(w, 1, k) \in Seq(Chars) /\ w[k + 1] \in Chars
                                /\ Len(t \o SubSeq(w, 1, k)) = Len(t) + k
                                /\ t \o SubSeq(w, 1, k + 1) = Append(t \o SubSeq(w, 1, k), w[k + 1])
BY PrefixNext

\* One character more of a word in a line.
LEMMA EscapesGrow ==
    ASSUME NEW l \in Seq(Symbols), NEW a \in Seq(Symbols), NEW u \in Seq(Symbols), NEW c \in Chars
    PROVE  /\ l \o (a \o u) \in Seq(Symbols) /\ Escaped(c) \in Seq(Symbols)
           /\ l \o (a \o (u \o Escaped(c))) = (l \o (a \o u)) \o Escaped(c)
<1> DEFINE e == Escaped(c)
           b == a \o u
<1>1. e \in Seq(Symbols)
  BY EscapedIs
<1> HIDE DEF e
<1>2. b \in Seq(Symbols) /\ u \o e \in Seq(Symbols)
  BY <1>1, ConcatProperties
<1>3. b \o e = a \o (u \o e)
  BY <1>1, ConcatAssociative
<1> HIDE DEF b
<1>4. (l \o b) \o e = l \o (b \o e)
  BY <1>1, <1>2, ConcatAssociative
<1>5. l \o b \in Seq(Symbols)
  BY <1>2, ConcatProperties
<1>6. l \o (a \o (u \o e)) = (l \o b) \o e
  BY <1>3, <1>4
<1> QED
  BY <1>1, <1>5, <1>6 DEF b, e

\* A word more, with a space before it if it is not the first.
LEMMA WrittenWord ==
    ASSUME NEW l \in Seq(Symbols), NEW t \in Seq(Chars), NEW B, NEW off, Written(l, t, B, off),
           NEW w \in Words, NEW sp \in {0, 1}, NEW D, \A j \in D : j \in Nat /\ j <= Len(t),
           \A j \in 0 .. Len(t) - 1 : j \in D <=> j \in B,
           Gap(D, Len(t)) = sp
    PROVE  \E o : Written(l \o (Lead(sp) \o Concat(Escapes(w))), t \o w, D, o)
<1> DEFINE es == Escapes(w)
           n == Len(w)
           ll == l \o Lead(sp)
           prefix(k) == l \o (Lead(sp) \o UpTo(es)[k])
           T == {k \in Nat : k + 1 <= n => \E o : Written(prefix(k + 1), t \o SubSeq(w, 1, k + 1), D, o)}
<1>0. w \in Seq(Chars) /\ n \in Nat /\ n # 0 /\ Len(t) \in Nat
  BY DEF Words
<1>1. es \in Seq(Seq(Symbols)) /\ Len(es) = n /\ \A k \in 0 .. n - 1 : es[k + 1] = Escaped(w[k + 1])
  <2>1. \A k \in 0 .. n - 1 : k + 1 \in 1 .. n
    BY <1>0
  <2> QED
    BY <1>0, <2>1, EscapesAre
<1>2. \A k \in 0 .. n - 1 : /\ t \o SubSeq(w, 1, k) \in Seq(Chars) /\ w[k + 1] \in Chars
                            /\ Len(t \o SubSeq(w, 1, k)) = Len(t) + k
                            /\ t \o SubSeq(w, 1, k + 1) = Append(t \o SubSeq(w, 1, k), w[k + 1])
  BY <1>0, PrefixesOfWord
<1> HIDE DEF es
<1>3. Concat(es) = UpTo(es)[n] /\ UpTo(es)[0] = <<>> /\ \A k \in 0 .. n - 1 : UpTo(es)[k + 1] = UpTo(es)[k] \o es[k + 1]
  BY <1>0, <1>1, ConcatIs
<1>4. \A k \in 0 .. n : UpTo(es)[k] \in Seq(Symbols)
  BY <1>1, UpToType
<1>5. Lead(sp) \in Seq(Symbols) /\ ll \in Seq(Symbols)
  <2>1. Blank \in Symbols
    BY DEF Symbols
  <2>2. Lead(sp) \in Seq(Symbols)
    BY <2>1 DEF Lead
  <2> QED
    BY <2>2, ConcatProperties
<1>6. t \o SubSeq(w, 1, 0) = t /\ t \o SubSeq(w, 1, n) = t \o w
  BY <1>0
<1> HIDE DEF n
<1>7. ASSUME NEW k \in 0 .. n - 1
      PROVE  prefix(k) \in Seq(Symbols) /\ prefix(k + 1) = prefix(k) \o Escaped(w[k + 1]) /\ Escaped(w[k + 1]) \in Seq(Symbols)
  <2>1. k \in 0 .. n
    BY <1>0
  <2>2. UpTo(es)[k] \in Seq(Symbols) /\ Escaped(w[k + 1]) \in Seq(Symbols)
    BY <1>2, <1>4, <2>1, EscapedIs
  <2>3. UpTo(es)[k + 1] = UpTo(es)[k] \o Escaped(w[k + 1])
    BY <1>1, <1>3
  <2>4. w[k + 1] \in Chars
    BY <1>2
  <2> DEFINE u == UpTo(es)[k]
             c == w[k + 1]
             a == Lead(sp)
  <2>5. u \in Seq(Symbols) /\ c \in Chars /\ a \in Seq(Symbols)
    BY <1>5, <2>2, <2>4
  <2> HIDE DEF u, c, a
  <2>6. /\ l \o (a \o u) \in Seq(Symbols) /\ Escaped(c) \in Seq(Symbols)
        /\ l \o (a \o (u \o Escaped(c))) = (l \o (a \o u)) \o Escaped(c)
    BY <2>5, EscapesGrow, SMTT(60)
  <2> QED
    BY <2>3, <2>6 DEF u, c, a
<1>8. 0 \in T
  <2> SUFFICES ASSUME 0 + 1 <= n PROVE \E o : Written(prefix(0 + 1), t \o SubSeq(w, 1, 0 + 1), D, o)
    OBVIOUS
  <2>1. 0 \in 0 .. n - 1
    BY <1>0
  <2>2. prefix(0) = ll
    BY <1>3, <1>5, ConcatEmptySeq
  <2>3. prefix(0 + 1) = ll \o Escaped(w[0 + 1])
    BY <1>7, <2>1, <2>2
  <2>4. t \o SubSeq(w, 1, 0 + 1) = Append(t, w[0 + 1]) /\ w[0 + 1] \in Chars
    BY <1>2, <1>6, <2>1
  <2> DEFINE c == w[0 + 1]
  <2>5. c \in Chars
    BY <2>4
  <2> HIDE DEF c
  <2>6. \E o : Written(ll \o Escaped(c), Append(t, c), D, o)
    BY <2>5, WrittenNext
  <2> QED
    BY <2>3, <2>4, <2>6 DEF c
<1>9. ASSUME NEW k \in T PROVE k + 1 \in T
  <2> SUFFICES ASSUME (k + 1) + 1 <= n PROVE \E o : Written(prefix((k + 1) + 1), t \o SubSeq(w, 1, (k + 1) + 1), D, o)
    OBVIOUS
  <2> DEFINE m == k + 1
             s == t \o SubSeq(w, 1, m)
             c == w[m + 1]
             v == prefix(m)
  <2>1. m \in Nat /\ m \in 0 .. n - 1 /\ m # 0 /\ m <= n
    BY <1>0
  <2>2. PICK o : Written(v, s, D, o)
    BY <2>1
  <2>3. v \in Seq(Symbols) /\ prefix(m + 1) = v \o Escaped(c)
    BY <1>7, <2>1
  <2>4. s \in Seq(Chars) /\ c \in Chars /\ Len(s) = Len(t) + m /\ t \o SubSeq(w, 1, m + 1) = Append(s, c)
    BY <1>2, <2>1
  <2> HIDE DEF T
  <2>5. Gap(D, Len(s)) = 0
    <3>1. Len(s) \notin D
      BY <1>0, <2>1, <2>4
    <3> QED
      BY <3>1 DEF Gap
  <2>6. v \o Lead(0) = v
    BY <2>3, ConcatEmptySeq DEF Lead
  <2> HIDE DEF v, s, c, m
  <2>7. \E p : Written((v \o Lead(0)) \o Escaped(c), Append(s, c), D, p)
    BY <2>2, <2>3, <2>4, <2>5, WrittenNext
  <2> QED
    BY <2>3, <2>4, <2>6, <2>7 DEF m
<1> HIDE DEF T
<1>10. T \subseteq Nat
  BY DEF T
<1>11. T = Nat
  BY <1>8, <1>9, <1>10, Induct
<1>12. n - 1 \in T /\ (n - 1) + 1 = n
  BY <1>0, <1>11
<1>13. \E o : Written(prefix(n), t \o SubSeq(w, 1, n), D, o)
  BY <1>0, <1>12 DEF T
<1> QED
  BY <1>3, <1>6, <1>13 DEF es

-----------------------------------------------------------------------------
(* A line of words.                                                        *)

\* What the first m words make of a text, and where its words end.
TextTo(words, m) == Concat(SubSeq(words, 1, m))
EndsTo(words, m) == {Len(TextTo(words, k)) : k \in 1 .. m - 1}

\* Every word makes the text longer.
LEMMA TextGrows ==
    ASSUME NEW words \in Seq(Words)
    PROVE  /\ Len(words) \in Nat /\ TextTo(words, 0) = <<>> /\ TextTo(words, Len(words)) = Concat(words)
           /\ \A k \in 0 .. Len(words) : TextTo(words, k) \in Seq(Chars)
           /\ \A k \in 0 .. Len(words) - 1 : /\ words[k + 1] \in Words
                                             /\ TextTo(words, k + 1) = TextTo(words, k) \o words[k + 1]
                                             /\ Len(TextTo(words, k)) < Len(TextTo(words, k + 1))
<1> DEFINE n == Len(words)
<1>1. n \in Nat /\ words \in Seq(Seq(Chars)) /\ \A k \in 0 .. n - 1 : k + 1 \in 1 .. n /\ words[k + 1] \in Words
  <2>1. Words \subseteq Seq(Chars)
    BY DEF Words
  <2> QED
    BY <2>1
<1>2. /\ Joined(SubSeq(words, 1, 0)) = <<>> /\ Joined(SubSeq(words, 1, n)) = Joined(words)
      /\ \A k \in 0 .. n : Joined(SubSeq(words, 1, k)) \in Seq(Chars)
      /\ \A k \in 1 .. n : Joined(SubSeq(words, 1, k)) = Joined(SubSeq(words, 1, k - 1)) \o words[k]
  BY <1>1, JoinedPrefix
<1>3. /\ TextTo(words, 0) = <<>> /\ TextTo(words, n) = Concat(words)
      /\ \A k \in 0 .. n : TextTo(words, k) \in Seq(Chars)
      /\ \A k \in 1 .. n : TextTo(words, k) = TextTo(words, k - 1) \o words[k]
  BY <1>2, ConcatIsJoined DEF TextTo
<1> HIDE DEF n
<1>4. ASSUME NEW k \in 0 .. n - 1
      PROVE  /\ words[k + 1] \in Words /\ TextTo(words, k + 1) = TextTo(words, k) \o words[k + 1]
             /\ Len(TextTo(words, k)) < Len(TextTo(words, k + 1))
  <2>1. k + 1 \in 1 .. n /\ (k + 1) - 1 = k /\ k \in 0 .. n
    BY <1>1
  <2> DEFINE t == TextTo(words, k)
             w == words[k + 1]
  <2>2. t \in Seq(Chars) /\ w \in Seq(Chars) /\ w # <<>> /\ w \in Words
    BY <1>1, <1>3, <2>1 DEF Words
  <2>3. TextTo(words, k + 1) = t \o w
    BY <1>3, <2>1
  <2> HIDE DEF t, w
  <2>4. Len(t \o w) = Len(t) + Len(w) /\ Len(t) \in Nat /\ Len(w) \in Nat
    BY <2>2, Appended
  <2>5. Len(w) # 0
    BY <2>2
  <2> QED
    BY <2>2, <2>3, <2>4, <2>5 DEF t, w
<1> QED
  BY <1>1, <1>3, <1>4 DEF n

\* The ends of words inside the text of the first m.
LEMMA EndsAreInside ==
    ASSUME NEW words \in Seq(Words)
    PROVE  \A m \in 0 .. Len(words) :
              /\ \A j \in EndsTo(words, m) : j \in Nat /\ 0 < j /\ j < Len(TextTo(words, m))
              /\ m # 0 => Len(TextTo(words, m)) > 0
<1> DEFINE n == Len(words)
           len(k) == Len(TextTo(words, k))
           T == {m \in Nat : m <= n => /\ \A j \in EndsTo(words, m) : j \in Nat /\ 0 < j /\ j < len(m)
                                       /\ m # 0 => len(m) > 0}
<1>1. n \in Nat /\ \A k \in 0 .. n - 1 : len(k) < len(k + 1)
  BY TextGrows
<1>2. \A k \in 0 .. n : len(k) \in Nat
  <2>1. \A k \in 0 .. n : TextTo(words, k) \in Seq(Chars)
    BY TextGrows
  <2> QED
    BY <2>1
<1> HIDE DEF n, len
<1>3. 0 \in T
  BY DEF EndsTo
<1>4. ASSUME NEW m \in T PROVE m + 1 \in T
  <2> SUFFICES ASSUME m + 1 <= n
               PROVE  (\A j \in EndsTo(words, m + 1) : j \in Nat /\ 0 < j /\ j < len(m + 1)) /\ len(m + 1) > 0
    OBVIOUS
  <2>1. m \in 0 .. n - 1 /\ m \in 0 .. n /\ m \in Nat
    BY <1>1
  <2>2. len(m) < len(m + 1) /\ len(m) \in Nat /\ len(m + 1) \in Nat
    BY <1>1, <1>2, <2>1
  <2>3. \A j \in EndsTo(words, m + 1) : j \in EndsTo(words, m) \/ (m # 0 /\ j = len(m))
    <3>1. \A k \in 1 .. (m + 1) - 1 : k \in 1 .. m - 1 \/ (m # 0 /\ k = m)
      BY <2>1
    <3> QED
      BY <3>1 DEF EndsTo, len
  <2>4. (\A j \in EndsTo(words, m) : j \in Nat /\ 0 < j /\ j < len(m)) /\ (m # 0 => len(m) > 0)
    BY <2>1
  <2> HIDE DEF T
  <2>5. \A j \in EndsTo(words, m + 1) : j \in Nat /\ 0 < j /\ j < len(m + 1)
    BY <2>2, <2>3, <2>4
  <2> QED
    BY <2>2, <2>5
<1> HIDE DEF T
<1>5. T \subseteq Nat
  BY DEF T
<1>6. T = Nat
  BY <1>3, <1>4, <1>5, Induct
<1> QED
  BY <1>6 DEF T, n, len

\* The space that append_full_line puts before every word but the first.
LEMMA LeadIs == \A w : Lead(Between(w)) = IF w = 1 THEN <<>> ELSE <<" ">>
<1> TAKE w
<1>1. CASE w = 1
  <2>1. Between(w) = 0
    BY <1>1 DEF Between
  <2> QED
    BY <1>1, <2>1 DEF Lead
<1>2. CASE w # 1
  <2>1. Between(w) = 1
    BY <1>2 DEF Between
  <2>2. Lead(1) = <<Blank>>
    BY DEF Lead
  <2>3. <<Blank>> = <<" ">>
    BY DEF Blank
  <2> QED
    BY <1>2, <2>1, <2>2, <2>3, Zenon
<1> QED
  BY <1>1, <1>2

LEMMA PiecesAre ==
    ASSUME NEW words \in Seq(Words)
    PROVE  /\ Pieces(words) \in Seq(Seq(Symbols)) /\ Len(Pieces(words)) = Len(words)
           /\ FullLine(words) = Concat(Pieces(words))
           /\ \A k \in 0 .. Len(words) - 1 :
                 Pieces(words)[k + 1] = Lead(IF k = 0 THEN 0 ELSE 1) \o Concat(Escapes(words[k + 1]))
<1> DEFINE n == Len(words)
<1>1. n \in Nat /\ DOMAIN words = 1 .. n
  OBVIOUS
<1>2. \A w \in 1 .. n : Concat(Escapes(words[w])) \in Seq(Symbols)
  <2> TAKE w \in 1 .. n
  <2>1. words[w] \in Seq(Chars)
    BY DEF Words
  <2> DEFINE es == Escapes(words[w])
  <2>2. es \in Seq(Seq(Symbols))
    BY <2>1, EscapesAre
  <2> HIDE DEF es
  <2>3. Len(es) \in Nat /\ Len(es) \in 0 .. Len(es)
    BY <2>2
  <2>4. Concat(es) = UpTo(es)[Len(es)]
    BY <2>3, ConcatIs
  <2> QED
    BY <2>2, <2>3, <2>4, UpToType DEF es
<1>3. \A w : Lead(Between(w)) \in Seq(Symbols)
  <2>1. Blank \in Symbols
    BY DEF Symbols
  <2> QED
    BY <2>1 DEF Lead
<1>4. \A w \in 1 .. n : Lead(Between(w)) \o Concat(Escapes(words[w])) \in Seq(Symbols)
  BY <1>2, <1>3, ConcatProperties
<1>5. Pieces(words) \in Seq(Seq(Symbols)) /\ Len(Pieces(words)) = n
  BY <1>1, <1>4 DEF Pieces
<1>6. FullLine(words) = Concat(Pieces(words))
  BY LeadIs, Zenon DEF FullLine, Pieces, Escapes
<1>7. \A k \in 0 .. n - 1 : Pieces(words)[k + 1] = Lead(IF k = 0 THEN 0 ELSE 1) \o Concat(Escapes(words[k + 1]))
  <2> TAKE k \in 0 .. n - 1
  <2>1. k + 1 \in 1 .. n /\ (k + 1 = 1 <=> k = 0)
    BY <1>1
  <2>2. Pieces(words)[k + 1] = Lead(Between(k + 1)) \o Concat(Escapes(words[k + 1]))
    BY <1>1, <2>1 DEF Pieces
  <2>3. Between(k + 1) = IF k = 0 THEN 0 ELSE 1
    BY <2>1 DEF Between
  <2> QED
    BY <2>2, <2>3
<1> QED
  BY <1>5, <1>6, <1>7

\* What append_full_line writes of some words holds their text, a space after every word but the last.
LEMMA LineIsWritten ==
    ASSUME NEW words \in Seq(Words)
    PROVE  /\ FullLine(words) \in Seq(Symbols)
           /\ \E off : Written(FullLine(words), Concat(words), EndsTo(words, Len(words)), off)
<1> DEFINE n == Len(words)
           ps == Pieces(words)
           T == {m \in Nat : m <= n => \E o : Written(UpTo(ps)[m], TextTo(words, m), EndsTo(words, m), o)}
<1>1. n \in Nat /\ ps \in Seq(Seq(Symbols)) /\ Len(ps) = n /\ FullLine(words) = Concat(ps)
  BY PiecesAre
<1>2. \A k \in 0 .. n - 1 : ps[k + 1] = Lead(IF k = 0 THEN 0 ELSE 1) \o Concat(Escapes(words[k + 1]))
  BY PiecesAre
<1> HIDE DEF ps
<1>3. Concat(ps) = UpTo(ps)[n] /\ UpTo(ps)[0] = <<>> /\ \A k \in 0 .. n - 1 : UpTo(ps)[k + 1] = UpTo(ps)[k] \o ps[k + 1]
  BY <1>1, ConcatIs
<1>4. \A k \in 0 .. n : UpTo(ps)[k] \in Seq(Symbols)
  BY <1>1, UpToType
<1>5. /\ TextTo(words, 0) = <<>> /\ TextTo(words, n) = Concat(words)
      /\ \A k \in 0 .. n : TextTo(words, k) \in Seq(Chars)
      /\ \A k \in 0 .. n - 1 : words[k + 1] \in Words /\ TextTo(words, k + 1) = TextTo(words, k) \o words[k + 1]
  BY TextGrows
<1>6. \A m \in 0 .. n : /\ \A j \in EndsTo(words, m) : j \in Nat /\ 0 < j /\ j < Len(TextTo(words, m))
                        /\ m # 0 => Len(TextTo(words, m)) > 0
  BY EndsAreInside
<1> HIDE DEF n
<1>7. 0 \in T
  <2>1. Written(<<>>, <<>>, EndsTo(words, 0), [j \in 0 .. 0 |-> 0])
    BY DEF Written
  <2> QED
    BY <1>3, <1>5, <2>1
<1>8. ASSUME NEW m \in T PROVE m + 1 \in T
  <2> SUFFICES ASSUME m + 1 <= n
               PROVE  \E o : Written(UpTo(ps)[m + 1], TextTo(words, m + 1), EndsTo(words, m + 1), o)
    OBVIOUS
  <2> DEFINE l == UpTo(ps)[m]
             t == TextTo(words, m)
             w == words[m + 1]
             B == EndsTo(words, m)
             D == EndsTo(words, m + 1)
             sp == IF m = 0 THEN 0 ELSE 1
  <2>1. m \in Nat /\ m \in 0 .. n - 1 /\ m \in 0 .. n
    BY <1>1
  <2>2. PICK o : Written(l, t, B, o)
    BY <2>1
  <2> HIDE DEF T
  <2>3. l \in Seq(Symbols) /\ t \in Seq(Chars) /\ w \in Words /\ TextTo(words, m + 1) = t \o w
    BY <1>4, <1>5, <2>1
  <2>4. UpTo(ps)[m + 1] = l \o (Lead(sp) \o Concat(Escapes(w)))
    BY <1>2, <1>3, <2>1
  <2>5. \A j : j \in D <=> j \in B \/ (m # 0 /\ j = Len(t))
    <3>1. \A k : k \in 1 .. (m + 1) - 1 <=> k \in 1 .. m - 1 \/ (m # 0 /\ k = m)
      BY <2>1
    <3> QED
      BY <3>1 DEF EndsTo
  <2>6. (\A j \in B : j \in Nat /\ 0 < j /\ j < Len(t)) /\ (m # 0 => Len(t) > 0) /\ Len(t) \in Nat
    BY <1>6, <2>1, <2>3
  <2> HIDE DEF l, t, w, B, D
  <2>7. \A j \in D : j \in Nat /\ j <= Len(t)
    BY <2>5, <2>6
  <2>8. \A j \in 0 .. Len(t) - 1 : j \in D <=> j \in B
    BY <2>5, <2>6
  <2>9. Gap(D, Len(t)) = sp
    <3>1. Len(t) \in D <=> m # 0
      BY <2>5, <2>6
    <3> QED
      BY <3>1 DEF Gap
  <2>10. sp \in {0, 1}
    OBVIOUS
  <2> HIDE DEF sp
  <2>11. \E p : Written(l \o (Lead(sp) \o Concat(Escapes(w))), t \o w, D, p)
    BY <2>2, <2>3, <2>7, <2>8, <2>9, <2>10, WrittenWord
  <2> QED
    BY <2>3, <2>4, <2>11 DEF D
<1> HIDE DEF T
<1>9. T \subseteq Nat
  BY DEF T
<1>10. T = Nat
  BY <1>7, <1>8, <1>9, Induct
<1>11. n \in T /\ n \in 0 .. n
  BY <1>1, <1>10
<1> QED
  BY <1>1, <1>3, <1>4, <1>5, <1>11 DEF T, n

-----------------------------------------------------------------------------
(* What the parser finds in such a line.                                   *)

\* The tags of the first j characters of a text whose words end at B.
TagsTo(B, j) == [g \in 1 .. j - 1 |-> IF g \in B THEN "Bound" ELSE "NoBound"]

LEMMA CharactersDiffer ==
    /\ Blank # Backslash /\ Blank # "/" /\ Blank # "bad" /\ Blank = " " /\ Backslash = "\\"
    /\ Blank \in Delimiters /\ Backslash \in Delimiters /\ "/" \in Delimiters
BY DEF Blank, Backslash, Delimiters

\* The last character of the line is the last one of the text.
LEMMA StrippedIs ==
    ASSUME NEW words \in Seq(Words), words # <<>> => ~EndsInReturn(words)
    PROVE  Stripped(FullLine(words)) = FullLine(words)
<1> DEFINE l == FullLine(words)
           t == Concat(words)
           n == Len(t)
           B == EndsTo(words, Len(words))
<1>1. PICK off : Written(l, t, B, off)
  BY LineIsWritten
<1>2. l \in Seq(Symbols)
  BY LineIsWritten
<1>3. /\ Len(words) \in Nat /\ t \in Seq(Chars)
      /\ Len(words) # 0 => n > 0
      /\ Len(words) = 0 => t = <<>>
  <2>1. Len(words) \in Nat /\ Len(words) \in 0 .. Len(words)
    OBVIOUS
  <2>2. t = TextTo(words, Len(words)) /\ TextTo(words, 0) = <<>> /\ t \in Seq(Chars)
    BY <2>1, TextGrows
  <2> QED
    BY <2>1, <2>2, EndsAreInside
<1>4. words # <<>> => Len(words) # 0
  OBVIOUS
<1> HIDE DEF l, t, B
<1>5. CASE words = <<>>
  <2>1. n = 0
    BY <1>3, <1>5
  <2>2. Len(l) = 0
    BY <1>1, <2>1 DEF Written
  <2>3. l = <<>>
    BY <1>2, <2>2
  <2>4. Stripped(l) = l
    BY <2>3 DEF Stripped
  <2> QED
    BY <2>4 DEF l
<1>6. CASE words # <<>>
  <2>1. n \in Nat /\ n > 0 /\ n \in 1 .. n
    BY <1>3, <1>4, <1>6
  <2> DEFINE c == t[n]
             sp == Gap(B, n - 1)
             from == off[n - 1]
  <2>2. ItemAt(l, c, sp, from, Len(l))
    BY <1>1, <2>1 DEF Written
  <2> HIDE DEF c, sp, from
  <2>3. l[Len(l)] = c
    <3>1. Len(l) = (from + sp) + 2 => (from + sp) + 2 = Len(l)
      OBVIOUS
    <3> QED
      BY <2>2 DEF ItemAt
  <2>4. c # "\r"
    BY <1>6 DEF EndsInReturn, c, t
  <2>5. Stripped(l) = l
    BY <2>3, <2>4, Zenon DEF Stripped
  <2> QED
    BY <2>5 DEF l
<1> QED
  BY <1>5, <1>6

-----------------------------------------------------------------------------
\* A character that is due, after the space that is due before it.
LEMMA CharHere ==
    ASSUME NEW t \in Seq(Chars), NEW B, NEW off, line \in Seq(Symbols), Written(line, t, B, off),
           NEW j \in 0 .. Len(t) - 1, pos = off[j] + Gap(B, j)
    PROVE  /\ ~AtEnd /\ pos + Length = off[j + 1] /\ off[j + 1] <= Len(line) /\ Cp = t[j + 1]
           /\ Cp # "bad" /\ ~Plain(" ") /\ ~Plain("/")
<1> DEFINE c == t[j + 1]
           sp == Gap(B, j)
           from == off[j]
           to == off[j + 1]
<1>1. Len(t) \in Nat /\ j + 1 \in 1 .. Len(t) /\ (j + 1) - 1 = j /\ j \in 0 .. Len(t) /\ j + 1 \in 0 .. Len(t)
  OBVIOUS
<1>2. /\ from \in Nat /\ to \in Nat /\ to <= Len(line) /\ ItemAt(line, c, sp, from, to)
  BY <1>1 DEF Written
<1>3. c \in Chars /\ sp \in {0, 1}
  BY <1>1 DEF Gap
<1>4. c # "bad"
  BY <1>3 DEF Chars
<1>5. pos = from + sp
  OBVIOUS
<1> HIDE DEF c, sp, from, to
<1>6. Len(line) \in Nat /\ pos \in Nat
  BY <1>2, <1>3, <1>5
<1>7. CASE c \in Delimiters
  <2>1. to = pos + 2 /\ line[pos + 1] = Backslash /\ line[pos + 2] = c
    BY <1>2, <1>5, <1>7 DEF ItemAt
  <2>2. IsEscape
    BY <2>1, CharactersDiffer DEF IsEscape
  <2>3. Length = 2
    BY <2>2 DEF Length
  <2>4. Cp = c
    BY <2>1, <2>3 DEF Cp
  <2>5. ~Plain(" ") /\ ~Plain("/")
    BY <2>2 DEF Plain
  <2>6. ~AtEnd
    BY <1>2, <1>6, <2>1 DEF AtEnd
  <2> QED
    BY <1>2, <1>4, <2>1, <2>3, <2>4, <2>5, <2>6 DEF c, to
<1>8. CASE c \notin Delimiters
  <2>1. to = pos + 1 /\ line[pos + 1] = c
    BY <1>2, <1>5, <1>8 DEF ItemAt
  <2>2. ~IsEscape
    BY <1>8, <2>1, CharactersDiffer DEF IsEscape
  <2>3. Length = 1
    BY <2>2 DEF Length
  <2>4. Cp = c
    BY <2>1, <2>3 DEF Cp
  <2>5. ~Plain(" ") /\ ~Plain("/")
    BY <1>8, <2>4, CharactersDiffer DEF Plain
  <2>6. ~AtEnd
    BY <1>2, <1>6, <2>1 DEF AtEnd
  <2> QED
    BY <1>2, <1>4, <2>1, <2>3, <2>4, <2>5, <2>6 DEF c, to
<1> QED
  BY <1>7, <1>8

\* A space that is due.
LEMMA SpaceHere ==
    ASSUME NEW t \in Seq(Chars), NEW B, NEW off, line \in Seq(Symbols), Written(line, t, B, off),
           NEW j \in 0 .. Len(t) - 1, j \in B, pos = off[j]
    PROVE  ~AtEnd /\ Length = 1 /\ pos + 1 <= Len(line) /\ Cp # "bad" /\ Plain(" ") /\ ~Plain("/")
<1> DEFINE c == t[j + 1]
           from == off[j]
           to == off[j + 1]
<1>1. Len(t) \in Nat /\ j + 1 \in 1 .. Len(t) /\ (j + 1) - 1 = j /\ j \in 0 .. Len(t) /\ j + 1 \in 0 .. Len(t)
  OBVIOUS
<1>2. from \in Nat /\ to \in Nat /\ to <= Len(line) /\ ItemAt(line, c, Gap(B, j), from, to)
  BY <1>1 DEF Written
<1>3. Gap(B, j) = 1
  BY DEF Gap
<1>4. pos = from
  OBVIOUS
<1> HIDE DEF c, from, to
<1>5. Len(line) \in Nat /\ pos \in Nat
  BY <1>2, <1>4
<1>6. line[pos + 1] = Blank /\ (to = (pos + 1) + 2 \/ to = (pos + 1) + 1)
  BY <1>2, <1>3, <1>4 DEF ItemAt
<1>7. ~IsEscape
  BY <1>6, CharactersDiffer DEF IsEscape
<1>8. Length = 1
  BY <1>7 DEF Length
<1>9. Cp = Blank
  BY <1>6, <1>8 DEF Cp
<1>10. Plain(" ") /\ ~Plain("/") /\ Cp # "bad"
  BY <1>7, <1>9, CharactersDiffer DEF Plain
<1>11. ~AtEnd /\ pos + 1 <= Len(line)
  BY <1>2, <1>5, <1>6 DEF AtEnd
<1> QED
  BY <1>8, <1>10, <1>11

-----------------------------------------------------------------------------
(* The invariant of reading back.                                          *)

\* The corpus was written by predict, and no line of it ends in a carriage return.
Plausible == predicted # <<>> /\ \A k \in DOMAIN predicted : predicted[k] # <<>> => ~EndsInReturn(predicted[k])

\* Of each prediction the sentences it gives: one, or none.
Parts(corpus) == [k \in DOMAIN corpus |-> IF corpus[k] = <<>> THEN <<>> ELSE <<SentenceOf(corpus[k])>>]

\* j characters of t are read, perhaps the space after them too.
ReadTo(t, B, off, j) ==
    /\ text = SubSeq(t, 1, j) /\ tags = TagsTo(B, j)
    /\ \/ pos = off[j] /\ (in_word <=> j # 0)
       \/ j \in B /\ pos = off[j] + 1 /\ ~in_word

\* The line of some words is being read.
Reading(words) ==
    LET t == Concat(words)
        B == EndsTo(words, Len(words))
    IN  /\ line = FullLine(words) /\ ~in_tag
        /\ \E off : Written(line, t, B, off) /\ \E j \in 0 .. Len(t) : ReadTo(t, B, off, j)

\* How far the parser is in the lines, and in the one at hand.
Progress ==
    /\ stage \in {"lines", "items", "parsed"}
    /\ line_no \in 0 .. Len(predicted) /\ (stage = "parsed" => line_no = Len(predicted))
    /\ stage # "items" => sentences = UpTo(Parts(predicted))[line_no]
    /\ stage = "items" => /\ line_no # 0 /\ sentences = UpTo(Parts(predicted))[line_no - 1]
                          /\ Reading(predicted[line_no])

ReadInv ==
    Plausible =>
        /\ predicted \in Seq(Seq(Words)) /\ format = "full"
        /\ lines = [k \in DOMAIN predicted |-> FullLine(predicted[k])]
        /\ Progress

\* What is known of the words of a line and of its text.
LEMMA LineOf ==
    ASSUME NEW words \in Seq(Words)
    PROVE  /\ Concat(words) \in Seq(Chars) /\ FullLine(words) \in Seq(Symbols)
           /\ \A j \in EndsTo(words, Len(words)) : j \in Nat /\ 0 < j /\ j < Len(Concat(words))
           /\ words = <<>> <=> Len(Concat(words)) = 0
<1>1. Len(words) \in Nat /\ Len(words) \in 0 .. Len(words) /\ (words = <<>> <=> Len(words) = 0)
  OBVIOUS
<1>2. Concat(words) = TextTo(words, Len(words)) /\ TextTo(words, 0) = <<>> /\ Concat(words) \in Seq(Chars)
  BY <1>1, TextGrows
<1>3. /\ \A j \in EndsTo(words, Len(words)) : j \in Nat /\ 0 < j /\ j < Len(TextTo(words, Len(words)))
      /\ Len(words) # 0 => Len(TextTo(words, Len(words))) > 0
  BY <1>1, EndsAreInside
<1>4. Len(words) = 0 => Len(Concat(words)) = 0
  BY <1>2
<1> QED
  BY <1>1, <1>2, <1>3, <1>4, LineIsWritten

\* Where the parser may be in a line that predict has written: at its end, at a space or at a character.
LEMMA WhereInLine ==
    ASSUME NEW words \in Seq(Words), Reading(words)
    PROVE  \E off, j :
              LET t == Concat(words)
                  B == EndsTo(words, Len(words))
              IN  /\ Written(line, t, B, off) /\ j \in 0 .. Len(t) /\ ReadTo(t, B, off, j)
                  /\ \/ j = Len(t) /\ AtEnd
                     \/ j < Len(t) /\ j \in B /\ pos = off[j]
                     \/ j < Len(t) /\ pos = off[j] + Gap(B, j)
<1> DEFINE t == Concat(words)
           B == EndsTo(words, Len(words))
<1>1. PICK off : Written(line, t, B, off) /\ \E j \in 0 .. Len(t) : ReadTo(t, B, off, j)
  BY DEF Reading
<1>2. PICK j \in 0 .. Len(t) : ReadTo(t, B, off, j)
  BY <1>1
<1>3. t \in Seq(Chars) /\ (\A i \in B : i < Len(t)) /\ line \in Seq(Symbols)
  BY LineOf DEF Reading
<1> HIDE DEF t, B
<1>4. Len(t) \in Nat /\ j \in Nat /\ j <= Len(t)
  BY <1>3
<1>5. off[Len(t)] = Len(line) /\ Len(line) \in Nat
  BY <1>1, <1>3 DEF Written
<1>6. CASE j = Len(t)
  <2>1. j \notin B
    BY <1>3, <1>4, <1>6
  <2>2. pos = Len(line)
    BY <1>2, <1>5, <1>6, <2>1 DEF ReadTo
  <2>3. AtEnd
    BY <1>5, <2>2 DEF AtEnd
  <2> QED
    BY <1>1, <1>2, <1>6, <2>3 DEF t, B
<1>7. CASE j # Len(t)
  <2>1. j < Len(t)
    BY <1>4, <1>7
  <2>2. CASE j \in B /\ pos = off[j]
    BY <1>1, <1>2, <2>1, <2>2 DEF t, B
  <2>3. CASE j \in B /\ pos = off[j] + 1
    <3>1. pos = off[j] + Gap(B, j)
      BY <2>3 DEF Gap
    <3> QED
      BY <1>1, <1>2, <2>1, <3>1 DEF t, B
  <2>4. CASE j \notin B
    <3>1. pos = off[j] /\ off[j] \in Nat
      BY <1>1, <1>2, <2>4 DEF ReadTo, Written
    <3>2. pos = off[j] + Gap(B, j)
      BY <2>4, <3>1 DEF Gap
    <3> QED
      BY <1>1, <1>2, <2>1, <3>2 DEF t, B
  <2> QED
    BY <1>2, <2>2, <2>3, <2>4 DEF ReadTo
<1> QED
  BY <1>6, <1>7

\* Nothing in such a line is wrong, and nothing in it is a tag.
LEMMA NothingWrong ==
    ASSUME NEW words \in Seq(Words), Reading(words), stage = "items"
    PROVE  ~BadItem /\ ~FullSlash /\ ~FullTagContent
<1> DEFINE t == Concat(words)
           B == EndsTo(words, Len(words))
<1>1. PICK off, j : /\ Written(line, t, B, off) /\ j \in 0 .. Len(t)
                    /\ \/ j = Len(t) /\ AtEnd
                       \/ j < Len(t) /\ j \in B /\ pos = off[j]
                       \/ j < Len(t) /\ pos = off[j] + Gap(B, j)
  BY WhereInLine
<1>2. t \in Seq(Chars) /\ line \in Seq(Symbols) /\ ~in_tag
  BY LineOf DEF Reading
<1> HIDE DEF t, B
<1>3. Len(t) \in Nat
  BY <1>2
<1>4. ~FullTagContent
  BY <1>2 DEF FullTagContent
<1>5. CASE j = Len(t) /\ AtEnd
  BY <1>4, <1>5 DEF BadItem, FullSlash, InFull, Item
<1>6. CASE j < Len(t) /\ j \in B /\ pos = off[j]
  <2>1. j \in 0 .. Len(t) - 1
    BY <1>1, <1>3, <1>6
  <2>2. ~AtEnd /\ Length = 1 /\ pos + 1 <= Len(line) /\ Cp # "bad" /\ ~Plain("/")
    BY <1>1, <1>2, <1>6, <2>1, SpaceHere
  <2> QED
    BY <1>4, <2>2 DEF BadItem, FullSlash, Item
<1>7. CASE j < Len(t) /\ pos = off[j] + Gap(B, j)
  <2>1. j \in 0 .. Len(t) - 1
    BY <1>1, <1>3, <1>7
  <2>2. pos = off[j] + Gap(B, j) /\ Written(line, t, B, off)
    BY <1>1, <1>7
  <2>3. /\ ~AtEnd /\ pos + Length = off[j + 1] /\ off[j + 1] <= Len(line) /\ Cp = t[j + 1]
        /\ Cp # "bad" /\ ~Plain(" ") /\ ~Plain("/")
    BY <1>2, <2>1, <2>2, CharHere, Zenon
  <2> QED
    BY <1>4, <2>3 DEF BadItem, FullSlash, Item
<1> QED
  BY <1>1, <1>5, <1>6, <1>7

LEMMA SpaceReads ==
    ASSUME NEW words \in Seq(Words), Reading(words), FullSpace
    PROVE  Reading(words)'
<1> DEFINE t == Concat(words)
           B == EndsTo(words, Len(words))
<1>1. PICK off, j : /\ Written(line, t, B, off) /\ j \in 0 .. Len(t) /\ ReadTo(t, B, off, j)
                    /\ \/ j = Len(t) /\ AtEnd
                       \/ j < Len(t) /\ j \in B /\ pos = off[j]
                       \/ j < Len(t) /\ pos = off[j] + Gap(B, j)
  BY WhereInLine
<1>2. t \in Seq(Chars) /\ line \in Seq(Symbols) /\ ~in_tag /\ line = FullLine(words)
  BY LineOf DEF Reading
<1> HIDE DEF t, B
<1>3. Len(t) \in Nat
  BY <1>2
<1>4. Plain(" ") /\ ~AtEnd /\ ~in_tag' /\ ~in_word' /\ pos' = pos + Length /\ line' = line /\ text' = text /\ tags' = tags
  BY DEF FullSpace, InFull, Item, Taken
<1>5. j < Len(t) /\ j \in B /\ pos = off[j]
  <2>1. CASE j < Len(t) /\ pos = off[j] + Gap(B, j)
    <3>1. j \in 0 .. Len(t) - 1
      BY <1>1, <1>3, <2>1
    <3>2. ~Plain(" ")
      BY <1>1, <1>2, <2>1, <3>1, CharHere
    <3> QED
      BY <1>4, <3>2
  <2> QED
    BY <1>1, <1>4, <2>1
<1>6. j \in 0 .. Len(t) - 1
  BY <1>1, <1>3, <1>5
<1>7. Length = 1
  BY <1>1, <1>2, <1>5, <1>6, SpaceHere
<1>8. text' = SubSeq(t, 1, j) /\ tags' = TagsTo(B, j) /\ j \in B /\ pos' = off[j] + 1 /\ ~in_word'
  BY <1>1, <1>4, <1>5, <1>7 DEF ReadTo
<1>9. ReadTo(t, B, off, j)'
  BY <1>8 DEF ReadTo, TagsTo
<1>10. Written(line', t, B, off) /\ line' = FullLine(words)
  BY <1>1, <1>2, <1>4
<1> QED
  BY <1>1, <1>4, <1>9, <1>10 DEF Reading, t, B

\* The tag of the gap before character j + 1.
LEMMA TagsNext ==
    ASSUME NEW B, NEW j \in Nat
    PROVE  /\ j = 0 => TagsTo(B, j + 1) = TagsTo(B, j) \o <<>>
           /\ j # 0 /\ j \in B => TagsTo(B, j + 1) = TagsTo(B, j) \o <<"Bound">>
           /\ j # 0 /\ j \notin B => TagsTo(B, j + 1) = TagsTo(B, j) \o <<"NoBound">>
<1> DEFINE X == {"Bound", "NoBound"}
           f(g) == IF g \in B THEN "Bound" ELSE "NoBound"
<1>1. CASE j = 0
  <2>1. TagsTo(B, j) = <<>> /\ TagsTo(B, j + 1) = <<>>
    BY <1>1 DEF TagsTo
  <2>2. <<>> \o <<>> = <<>>
    OBVIOUS
  <2> QED
    BY <1>1, <2>1, <2>2
<1>2. CASE j # 0
  <2> DEFINE a == TagsTo(B, j)
             b == TagsTo(B, j + 1)
  <2>1. j - 1 \in Nat /\ \A g : f(g) \in X
    BY <1>2
  <2>2. a = [g \in 1 .. j - 1 |-> f(g)] /\ b = [g \in 1 .. j |-> f(g)]
    BY DEF TagsTo
  <2> HIDE DEF a, b, f, X
  <2>3. a \in Seq(X) /\ Len(a) = j - 1 /\ b \in Seq(X) /\ Len(b) = j
    BY <2>1, <2>2
  <2>4. b = Append(a, f(j))
    BY <1>2, <2>1, <2>2, <2>3
  <2>5. Append(a, f(j)) = a \o <<f(j)>>
    BY <2>1, <2>3
  <2>6. (j \in B => f(j) = "Bound") /\ (j \notin B => f(j) = "NoBound")
    BY DEF f
  <2> QED
    BY <1>2, <2>4, <2>5, <2>6 DEF a, b
<1> QED
  BY <1>1, <1>2

LEMMA CharReads ==
    ASSUME NEW words \in Seq(Words), Reading(words), FullChar
    PROVE  Reading(words)'
<1> DEFINE t == Concat(words)
           B == EndsTo(words, Len(words))
<1>1. PICK off, j : /\ Written(line, t, B, off) /\ j \in 0 .. Len(t) /\ ReadTo(t, B, off, j)
                    /\ \/ j = Len(t) /\ AtEnd
                       \/ j < Len(t) /\ j \in B /\ pos = off[j]
                       \/ j < Len(t) /\ pos = off[j] + Gap(B, j)
  BY WhereInLine
<1>2. t \in Seq(Chars) /\ line \in Seq(Symbols) /\ ~in_tag /\ line = FullLine(words)
      /\ \A i \in B : i \in Nat /\ 0 < i
  BY LineOf DEF Reading
<1> HIDE DEF t, B
<1>3. Len(t) \in Nat
  BY <1>2
<1>4. /\ ~Plain(" ") /\ ~AtEnd /\ in_tag' = in_tag /\ in_word' /\ pos' = pos + Length /\ line' = line
      /\ text' = Append(text, Cp) /\ tags' = tags \o FullTag
  BY DEF FullChar, InFull, Item, Taken
<1>5. j < Len(t) /\ pos = off[j] + Gap(B, j)
  <2>1. CASE j < Len(t) /\ j \in B /\ pos = off[j]
    <3>1. j \in 0 .. Len(t) - 1
      BY <1>1, <1>3, <2>1
    <3>2. Plain(" ")
      BY <1>1, <1>2, <2>1, <3>1, SpaceHere
    <3> QED
      BY <1>4, <3>2
  <2> QED
    BY <1>1, <1>4, <2>1
<1>6. j \in 0 .. Len(t) - 1 /\ j \in Nat /\ j + 1 \in 0 .. Len(t) /\ j + 1 # 0
  BY <1>1, <1>3, <1>5
<1>7. pos + Length = off[j + 1] /\ Cp = t[j + 1]
  <2>1. pos = off[j] + Gap(B, j) /\ Written(line, t, B, off) /\ j \in 0 .. Len(t) - 1
    BY <1>1, <1>5, <1>6
  <2>2. /\ ~AtEnd /\ pos + Length = off[j + 1] /\ off[j + 1] <= Len(line) /\ Cp = t[j + 1]
        /\ Cp # "bad" /\ ~Plain(" ") /\ ~Plain("/")
    BY <1>2, <2>1, CharHere, Zenon
  <2> QED
    BY <2>2
<1>8. text = SubSeq(t, 1, j) /\ tags = TagsTo(B, j) /\ off[j] \in Nat
  BY <1>1 DEF ReadTo, Written
<1>9. text' = SubSeq(t, 1, j + 1)
  <2>1. SubSeq(t, 1, j + 1) = Append(SubSeq(t, 1, j), t[j + 1])
    <3>1. \A s \in Seq(Chars) : <<>> \o s = s
      OBVIOUS
    <3>2. SubSeq(t, 1, j) \in Seq(Chars) /\ SubSeq(t, 1, j + 1) \in Seq(Chars)
      BY <1>2, <1>6
    <3>3. <<>> \in Seq(Chars)
      OBVIOUS
    <3>4. <<>> \o SubSeq(t, 1, j + 1) = Append(<<>> \o SubSeq(t, 1, j), t[j + 1])
      BY <1>2, <1>6, <3>3, PrefixNext
    <3> QED
      BY <3>1, <3>2, <3>4
  <2> QED
    BY <1>4, <1>7, <1>8, <2>1
<1>10. tags' = TagsTo(B, j + 1)
  <2>1. CASE j = 0
    <3>1. j \notin B
      BY <1>2, <2>1
    <3>2. ~in_word
      BY <1>1, <2>1, <3>1 DEF ReadTo
    <3>3. text = <<>>
      BY <1>2, <1>8, <2>1
    <3>4. FullTag = <<>>
      BY <3>2, <3>3 DEF FullTag
    <3> QED
      BY <1>4, <1>6, <1>8, <2>1, <3>4, TagsNext
  <2>2. CASE j # 0 /\ j \in B
    <3>1. Gap(B, j) = 1
      BY <2>2 DEF Gap
    <3>2. pos = off[j] + 1 /\ pos # off[j]
      BY <1>5, <1>8, <3>1
    <3>3. ~in_word
      BY <1>1, <3>2 DEF ReadTo
    <3>4. text # <<>>
      <4>1. Len(SubSeq(t, 1, j)) = j
        BY <1>2, <1>6
      <4> QED
        BY <1>8, <2>2, <4>1
    <3>5. FullTag = <<"Bound">>
      BY <3>3, <3>4 DEF FullTag
    <3> QED
      BY <1>4, <1>6, <1>8, <2>2, <3>5, TagsNext
  <2>3. CASE j # 0 /\ j \notin B
    <3>1. in_word
      BY <1>1, <2>3 DEF ReadTo
    <3>2. FullTag = <<"NoBound">>
      BY <3>1 DEF FullTag
    <3> QED
      BY <1>4, <1>6, <1>8, <2>3, <3>2, TagsNext
  <2> QED
    BY <2>1, <2>2, <2>3
<1>11. ReadTo(t, B, off, j + 1)'
  BY <1>4, <1>6, <1>7, <1>9, <1>10 DEF ReadTo, TagsTo
<1>12. Written(line', t, B, off) /\ line' = FullLine(words) /\ ~in_tag'
  BY <1>1, <1>2, <1>4
<1> QED
  BY <1>6, <1>11, <1>12 DEF Reading, t, B

-----------------------------------------------------------------------------
(* The steps keep it.                                                      *)

\* The sentence that is read is the one that was written.
LEMMA LineReads ==
    ASSUME NEW words \in Seq(Words), Reading(words), AtEnd, stage = "items", format = "full"
    PROVE  text = Concat(words) /\ FinalTags = SentenceOf(words).tags
<1> DEFINE t == Concat(words)
           B == EndsTo(words, Len(words))
<1>1. PICK off, j : /\ Written(line, t, B, off) /\ j \in 0 .. Len(t) /\ ReadTo(t, B, off, j)
                    /\ \/ j = Len(t) /\ AtEnd
                       \/ j < Len(t) /\ j \in B /\ pos = off[j]
                       \/ j < Len(t) /\ pos = off[j] + Gap(B, j)
  BY WhereInLine
<1>2. t \in Seq(Chars) /\ line \in Seq(Symbols) /\ ~in_tag
  BY LineOf DEF Reading
<1>3. FinalTags = tags
  BY DEF FinalTags
<1>4. SentenceOf(words).tags = TagsTo(B, Len(t))
  BY DEF SentenceOf, TagsTo, EndsTo, TextTo
<1> HIDE DEF t, B
<1>5. Len(t) \in Nat
  BY <1>2
<1>6. j = Len(t)
  <2>1. CASE j < Len(t) /\ j \in B /\ pos = off[j]
    <3>1. j \in 0 .. Len(t) - 1
      BY <1>1, <1>5, <2>1
    <3>2. ~AtEnd
      BY <1>1, <1>2, <2>1, <3>1, SpaceHere
    <3> QED
      BY <3>2
  <2>2. CASE j < Len(t) /\ pos = off[j] + Gap(B, j)
    <3>1. j \in 0 .. Len(t) - 1
      BY <1>1, <1>5, <2>2
    <3>2. ~AtEnd
      BY <1>1, <1>2, <2>2, <3>1, CharHere
    <3> QED
      BY <3>2
  <2> QED
    BY <1>1, <2>1, <2>2
<1>7. SubSeq(t, 1, Len(t)) = t
  BY <1>2
<1>8. text = t /\ tags = TagsTo(B, Len(t))
  BY <1>1, <1>6, <1>7 DEF ReadTo
<1> QED
  BY <1>3, <1>4, <1>8 DEF t

\* The sentences of the first predictions, and of one more.
LEMMA PartsAre ==
    ASSUME NEW corpus \in Seq(Seq(Words))
    PROVE  /\ Len(corpus) \in Nat /\ UpTo(Parts(corpus))[0] = <<>>
           /\ UpTo(Parts(corpus))[Len(corpus)] = SentencesOf(corpus)
           /\ \A k \in 1 .. Len(corpus) :
                 /\ corpus[k] \in Seq(Words)
                 /\ corpus[k] = <<>> => UpTo(Parts(corpus))[k] = UpTo(Parts(corpus))[k - 1]
                 /\ corpus[k] # <<>> =>
                       UpTo(Parts(corpus))[k] = Append(UpTo(Parts(corpus))[k - 1], SentenceOf(corpus[k]))
<1> DEFINE n == Len(corpus)
           ps == Parts(corpus)
           X == {SentenceOf(corpus[k]) : k \in 1 .. n}
<1>1. n \in Nat /\ DOMAIN corpus = 1 .. n /\ \A k \in 1 .. n : corpus[k] \in Seq(Words)
  OBVIOUS
<1>2. \A k \in 1 .. n : (IF corpus[k] = <<>> THEN <<>> ELSE <<SentenceOf(corpus[k])>>) \in Seq(X)
  <2> TAKE k \in 1 .. n
  <2>1. SentenceOf(corpus[k]) \in X
    OBVIOUS
  <2> HIDE DEF X
  <2> QED
    BY <2>1
<1> HIDE DEF X
<1>3. /\ ps \in Seq(Seq(X)) /\ Len(ps) = n
      /\ \A k \in 1 .. n : ps[k] = IF corpus[k] = <<>> THEN <<>> ELSE <<SentenceOf(corpus[k])>>
  BY <1>1, <1>2 DEF Parts
<1>4. Concat(ps) = SentencesOf(corpus)
  BY DEF Parts, SentencesOf
<1> HIDE DEF ps
<1>5. Concat(ps) = UpTo(ps)[n] /\ UpTo(ps)[0] = <<>> /\ \A k \in 0 .. n - 1 : UpTo(ps)[k + 1] = UpTo(ps)[k] \o ps[k + 1]
  BY <1>1, <1>3, ConcatIs
<1>6. \A k \in 0 .. n : UpTo(ps)[k] \in Seq(X)
  BY <1>3, UpToType
<1>7. ASSUME NEW k \in 1 .. n
      PROVE  /\ corpus[k] = <<>> => UpTo(ps)[k] = UpTo(ps)[k - 1]
             /\ corpus[k] # <<>> => UpTo(ps)[k] = Append(UpTo(ps)[k - 1], SentenceOf(corpus[k]))
  <2> DEFINE u == UpTo(ps)[k - 1]
             e == SentenceOf(corpus[k])
  <2>1. k - 1 \in 0 .. n - 1 /\ k - 1 \in 0 .. n /\ (k - 1) + 1 = k
    BY <1>1
  <2>2. UpTo(ps)[k] = u \o ps[k] /\ u \in Seq(X)
    BY <1>5, <1>6, <2>1
  <2> HIDE DEF u, e
  <2>3. corpus[k] = <<>> => ps[k] = <<>>
    BY <1>3
  <2>4. corpus[k] # <<>> => ps[k] = <<e>> /\ e \in X
    BY <1>3 DEF e, X
  <2>5. u \o <<>> = u /\ \A x \in X : u \o <<x>> = Append(u, x)
    BY <2>2
  <2> QED
    BY <2>2, <2>3, <2>4, <2>5 DEF u, e
<1> QED
  BY <1>1, <1>4, <1>5, <1>7 DEF ps

LEMMA ReadInit == ASSUME Init PROVE ReadInv
<1> USE DEF ReadInv, Progress
<1> SUFFICES ASSUME Plausible
             PROVE  /\ predicted \in Seq(Seq(Words)) /\ format = "full"
                    /\ lines = [k \in DOMAIN predicted |-> FullLine(predicted[k])]
                    /\ Progress
  OBVIOUS
<1>1. /\ predicted \in Predictions /\ format = "full" /\ lines = [k \in DOMAIN predicted |-> FullLine(predicted[k])]
      /\ stage = "lines" /\ line_no = 0 /\ sentences = <<>>
  BY DEF Init, CorpusInit, Plausible
<1>2. predicted \in Seq(Seq(Words))
  <2>1. \A p \in Predictions : p \in Seq(Seq(Words))
    BY CorpusAssumption, Zenon DEF Words, Chars
  <2> QED
    BY <1>1, <2>1
<1>3. Len(predicted) \in Nat /\ UpTo(Parts(predicted))[0] = <<>>
  BY <1>2, PartsAre
<1> QED
  BY <1>1, <1>2, <1>3

\* A step that leaves the corpus alone.
LEMMA ReadStutters == ASSUME ReadInv, UNCHANGED corpusVars PROVE ReadInv'
BY DEF ReadInv, Plausible, Progress, Reading, ReadTo, corpusVars, lineVars

LEMMA StartReads == ASSUME ReadInv, Plausible, StartLine PROVE Progress'
<1>1. /\ predicted \in Seq(Seq(Words)) /\ lines = [k \in DOMAIN predicted |-> FullLine(predicted[k])]
      /\ line_no \in 0 .. Len(predicted) /\ stage = "lines" /\ sentences = UpTo(Parts(predicted))[line_no]
  BY DEF ReadInv, Progress, StartLine
<1>2. /\ line_no < Len(lines) /\ line_no' = line_no + 1 /\ line' = Stripped(lines[line_no + 1])
      /\ pos' = 0 /\ text' = <<>> /\ tags' = <<>> /\ ~in_word' /\ ~in_tag' /\ stage' = "items"
      /\ predicted' = predicted /\ sentences' = sentences
  BY DEF StartLine
<1>a. PICK k : k = line_no + 1
  OBVIOUS
<1>b. PICK words : words = predicted[k]
  OBVIOUS
<1> DEFINE t == Concat(words)
           B == EndsTo(words, Len(words))
<1>3. Len(predicted) \in Nat /\ DOMAIN predicted = 1 .. Len(predicted) /\ Len(lines) = Len(predicted)
  BY <1>1
<1>4. k \in 1 .. Len(predicted) /\ k # 0 /\ k - 1 = line_no
  BY <1>a, <1>1, <1>2, <1>3
<1>5. words \in Seq(Words) /\ (words # <<>> => ~EndsInReturn(words)) /\ lines[k] = FullLine(words)
  <2>1. words \in Seq(Words) /\ lines[k] = FullLine(words)
    <3>1. k \in DOMAIN predicted /\ predicted[k] \in Seq(Words)
      BY <1>1, <1>3, <1>4
    <3>2. lines[k] = FullLine(predicted[k])
      BY <1>1, <3>1, Zenon
    <3> QED
      BY <1>b, <3>1, <3>2
  <2>2. words # <<>> => ~EndsInReturn(words)
    BY <1>b, <1>3, <1>4 DEF Plausible
  <2> QED
    BY <2>1, <2>2
<1>6. line_no' = k /\ line' = Stripped(lines[k])
  BY <1>a, <1>2
<1>7. line' = FullLine(words)
  BY <1>5, <1>6, StrippedIs
<1>8. t \in Seq(Chars)
  BY <1>5, LineOf
<1>9. PICK off : Written(FullLine(words), t, B, off)
  BY <1>5, LineIsWritten
<1>10. off[0] = 0 /\ SubSeq(t, 1, 0) = <<>> /\ TagsTo(B, 0) = <<>> /\ 0 \in 0 .. Len(t)
  BY <1>8, <1>9 DEF Written, TagsTo
<1>11. ReadTo(t, B, off, 0)'
  BY <1>2, <1>10 DEF ReadTo, TagsTo
<1>12. Reading(words)'
  BY <1>2, <1>7, <1>9, <1>10, <1>11 DEF Reading
<1>13. Reading(predicted[line_no])'
  BY <1>b, <1>2, <1>6, <1>12
<1> QED
  BY <1>1, <1>2, <1>4, <1>6, <1>13 DEF Progress

LEMMA EndReads == ASSUME ReadInv, Plausible, EndLine PROVE Progress'
<1>1. /\ predicted \in Seq(Seq(Words)) /\ format = "full" /\ line_no \in 0 .. Len(predicted) /\ line_no # 0
      /\ sentences = UpTo(Parts(predicted))[line_no - 1] /\ Reading(predicted[line_no]) /\ stage = "items"
  BY DEF ReadInv, Progress, EndLine
<1>2. /\ AtEnd /\ stage' = "lines" /\ predicted' = predicted /\ line_no' = line_no
      /\ sentences' = IF text = <<>> THEN sentences ELSE Append(sentences, [text |-> text, tags |-> FinalTags])
  BY DEF EndLine
<1> DEFINE words == predicted[line_no]
<1>3. line_no \in 1 .. Len(predicted)
  BY <1>1
<1>4. /\ words \in Seq(Words)
      /\ words = <<>> => UpTo(Parts(predicted))[line_no] = UpTo(Parts(predicted))[line_no - 1]
      /\ words # <<>> => UpTo(Parts(predicted))[line_no] = Append(UpTo(Parts(predicted))[line_no - 1], SentenceOf(words))
  BY <1>1, <1>3, PartsAre
<1>5. text = Concat(words) /\ FinalTags = SentenceOf(words).tags
  BY <1>1, <1>2, <1>4, LineReads
<1>6. words = <<>> <=> text = <<>>
  <2>1. text \in Seq(Chars) /\ (words = <<>> <=> Len(text) = 0)
    BY <1>4, <1>5, LineOf
  <2> QED
    BY <2>1
<1>7. [text |-> text, tags |-> FinalTags] = SentenceOf(words)
  BY <1>5 DEF SentenceOf
<1> HIDE DEF words
<1>8. sentences' = UpTo(Parts(predicted))[line_no]
  BY <1>1, <1>2, <1>4, <1>6, <1>7
<1> QED
  BY <1>1, <1>2, <1>8 DEF Progress

LEMMA ParseReads == ASSUME ReadInv, Plausible, Parse PROVE Progress'
<1>1. predicted \in Seq(Seq(Words)) /\ format = "full" /\ Progress /\ Len(lines) = Len(predicted)
  BY DEF ReadInv
<1>2. CASE StartLine
  BY <1>2, StartReads
<1>3. CASE EndLine
  BY <1>3, EndReads
<1>4. CASE EndOfFile
  BY <1>1, <1>4 DEF EndOfFile, Progress
<1>5. ASSUME stage = "items" PROVE predicted[line_no] \in Seq(Words) /\ Reading(predicted[line_no])
  <2>1. line_no \in 1 .. Len(predicted) /\ Reading(predicted[line_no])
    BY <1>1, <1>5 DEF Progress
  <2> QED
    BY <1>1, <2>1, PartsAre
<1>6. CASE BadItem \/ FullSlash \/ FullTagContent
  <2>1. stage = "items"
    BY <1>6 DEF BadItem, FullSlash, FullTagContent, InFull, Item
  <2> QED
    BY <1>5, <1>6, <2>1, NothingWrong
<1>7. CASE FullSpace \/ FullChar
  <2>1. stage = "items" /\ stage' = stage /\ line_no' = line_no /\ predicted' = predicted /\ sentences' = sentences
    BY <1>7 DEF FullSpace, FullChar, InFull, Item, Taken
  <2>0. PICK words : words = predicted[line_no]
    OBVIOUS
  <2>2. words \in Seq(Words) /\ Reading(words)
    BY <1>5, <2>0, <2>1
  <2>3. Reading(words)'
    BY <1>7, <2>2, SpaceReads, CharReads
  <2>4. Reading(predicted[line_no])'
    BY <2>0, <2>1, <2>3
  <2> QED
    BY <1>1, <2>1, <2>4 DEF Progress
<1>8. CASE PartialTagContent \/ PartialChar \/ PartialMisplaced \/ PartialSlash \/ PartialMark \/ PartialUnmarked
  BY <1>1, <1>8 DEF PartialTagContent, PartialChar, PartialMisplaced, PartialSlash, PartialMark, PartialUnmarked,
                    CharDue, MarkDue, InPartial
<1> QED
  BY <1>2, <1>3, <1>4, <1>6, <1>7, <1>8 DEF Parse

LEMMA ReadNext == ASSUME ReadInv, [Next]_vars PROVE ReadInv'
<1>1. CASE UNCHANGED corpusVars
  BY <1>1, ReadStutters
<1>2. CASE Parse
  <2>1. format' = format /\ lines' = lines /\ predicted' = predicted
    BY <1>2 DEF Parse, StartLine, EndOfFile, BadItem, EndLine, FullSpace, FullSlash, FullTagContent, FullChar,
                PartialTagContent, PartialChar, PartialMisplaced, PartialSlash, PartialMark, PartialUnmarked, Fail, Taken
  <2>2. Plausible' = Plausible
    BY <2>1 DEF Plausible
  <2> QED
    BY <1>2, <2>1, <2>2, ParseReads DEF ReadInv
<1> QED
  BY <1>1, <1>2 DEF Next, vars, BuildParsed, BuildOthers

(***************************************************************************)
(* What predict writes, train reads back, for corpora and sentences of any *)
(* size.                                                                   *)
(***************************************************************************)
THEOREM PredictionsAreReadBack == Spec => []ReadsBackPredictions
<1>1. Init => ReadInv
  BY ReadInit
<1>2. ReadInv /\ [Next]_vars => ReadInv'
  BY ReadNext
<1>3. ReadInv => ReadsBackPredictions
  <2> SUFFICES ASSUME ReadInv, Plausible PROVE stage # "failed" /\ (stage = "parsed" => sentences = SentencesOf(predicted))
    BY DEF ReadsBackPredictions, Plausible
  <2>1. predicted \in Seq(Seq(Words)) /\ Progress
    BY DEF ReadInv
  <2> QED
    BY <2>1, PartsAre DEF Progress
<1> QED
  BY <1>1, <1>2, <1>3, PTL DEF Spec
=============================================================================
