----------------------------- MODULE KyteaScorer -----------------------------
(***************************************************************************)
(* KyteaBackend::tokenize (src/include/segmentlib/kytea/kytea_backend.h)   *)
(* and the scorer under it (kytea/scorer.h), called for one sentence after *)
(* another by one thread.  What a call leaves behind is the thread's       *)
(* scratch: "seen", the flags that make a dictionary feature count once.   *)
(* Every other thread has a scratch of its own and a model is immutable,   *)
(* so one thread is all there is to model.                                 *)
(*                                                                         *)
(* The thread loads models (module KyteaModel) and tokenizes texts with    *)
(* the one loaded last.  A sentence is what a call keeps of its text: the  *)
(* length n in characters, the byte offset of each, and what the model's   *)
(* automata report, in order: "chars" and "types" are n-gram matches [end, *)
(* vec], "words" dictionary matches [end, wlen, in_dict].  Positions are   *)
(* the code's, from 0, and so are vec's indices.                           *)
(***************************************************************************)
EXTENDS KyteaModel

CONSTANTS
    Files,           \* the files that may be loaded: [fields, kind, expected]
    Texts,           \* the texts that may be tokenized, in bytes
    MaxCalls         \* bound of the model: calls and refused loads

\* What is on disk.
Disk == Files

\* KyTea wrote a "written" file from the model "expected"; a "damaged" one is to be
\* refused, an "odd" one passes the parser.  The configuration's fields are unsigned.
ASSUME ScorerAssumption ==
    /\ MaxCalls \in Nat
    /\ Texts \subseteq Seq(Bytes)
    /\ Len(Disk) \in Nat /\ DOMAIN Disk = 1 .. Len(Disk)
    /\ \A f \in DOMAIN Disk :
          /\ Disk[f].kind \in {"written", "damaged", "odd"}
          /\ Disk[f].fields \in Seq(Int)
          /\ \A k \in DOMAIN Disk[f].fields : k <= 13 => Disk[f].fields[k] \in Nat

VARIABLES
    file,            \* the file last loaded
    status, model,   \* what load_from_bytes made of it
    text,            \* the text of the call in progress or last made
    sentence,        \* what the call keeps of it
    calls,           \* calls made and loads refused
    step,            \* where the call is; "idle" between calls
    next,            \* the next match, or the next character to segment
    scores,          \* score of every boundary, from 0
    seen, touched,   \* the scratch: flags by slot, and the slots set
    pending,         \* marks of the current match still to make
    segments,        \* the words found, as byte offsets
    outcome,         \* of the last call: "none", "ok", "error", "threw"
    thrown           \* history: whether the thread has thrown out of a mark

scratch == <<seen, touched>>
loaded == <<file, status, model>>
vars == <<loaded, text, sentence, calls, step, next, scores, scratch, pending, segments, outcome, thrown>>

Boundaries == 0 .. sentence.n - 2
Len1 == sentence.n - 1          \* "len": the number of scores
stride == 3 * model.dictN
dictLen == Len1 * stride

NoSentence == [n |-> 0, offsets |-> <<0>>, chars |-> <<>>, types |-> <<>>, words |-> <<>>]

Init ==
    /\ file = 0 /\ status = "none" /\ model = NoModel
    /\ text = <<>> /\ sentence = NoSentence /\ calls = 0
    /\ step = "idle" /\ next = 1
    /\ scores = [b \in {} |-> 0]
    /\ seen = [s \in {} |-> 0] /\ touched = <<>>
    /\ pending = <<>> /\ segments = <<>> /\ outcome = "none" /\ thrown = FALSE

-----------------------------------------------------------------------------
(* Model::load *)

\* What loading each file gives; the files stay as they are.  (As a tuple, TLC computes it once.)
Loads == <<>> \o [f \in DOMAIN Disk |-> Load(Disk[f].fields)]

LoadModel ==
    /\ step = "idle" /\ calls < MaxCalls
    /\ \E f \in DOMAIN Disk :
          LET load == Loads[f]
          IN  /\ file' = f /\ status' = load.status /\ model' = load.model
              /\ calls' = IF load.status = "ok" THEN calls ELSE calls + 1
    /\ text' = <<>> /\ sentence' = NoSentence /\ scores' = [b \in {} |-> 0] /\ segments' = <<>>
    /\ outcome' = "none"
    /\ UNCHANGED <<step, next, scratch, pending, thrown>>

-----------------------------------------------------------------------------
(* tokenize: encode, then score_boundaries_into *)

\* The sub-dictionaries of a mask, of those the scorer goes through.
DictsIn(m, mask) == {d \in 0 .. m.numDicts - 1 : (mask \div 2 ^ d) % 2 = 1}

SentenceOf(m, t) ==
    LET enc == EncodeInto(m.table, t)
        ngrams(dict, ids) ==
            LET r == Reported(dict, ids) IN [k \in DOMAIN r |-> [end |-> r[k].end, vec |-> r[k].payload]]
        words == Reported(m.wordDict, enc.char_ids)
    IN  [n |-> Len(enc.char_ids), offsets |-> enc.offsets,
         chars |-> ngrams(m.charDict, enc.char_ids),
         types |-> ngrams(m.typeDict, enc.type_ids),
         words |-> [k \in DOMAIN words |-> [end |-> words[k].end, wlen |-> words[k].payload.char_length,
                                            in_dict |-> DictsIn(m, words[k].payload.in_dict)]]]

Decodable == {t \in Texts : Decodes(t)}

\* The text is not UTF-8, or what holds its encoding or its scores cannot grow.
EncodeFails ==
    /\ step = "idle" /\ status = "ok" /\ calls < MaxCalls
    /\ \E t \in Texts :
          /\ text' = t
          /\ \/ t \notin Decodable /\ outcome' = "error"
             \/ outcome' = "threw"
    /\ calls' = calls + 1
    /\ UNCHANGED <<loaded, sentence, step, next, scores, scratch, pending, segments, thrown>>

BoundariesOf(n) == 0 .. n - 2

\* The text decodes.  Of an empty one the scores are not looked at.
Call ==
    /\ step = "idle" /\ status = "ok" /\ calls < MaxCalls
    /\ calls' = calls + 1
    /\ \E t \in Decodable :
          /\ text' = t /\ sentence' = SentenceOf(model, t)
          /\ scores' = [b \in BoundariesOf(sentence'.n) |-> model.bias]
          /\ step' = IF sentence'.n = 0 THEN "idle" ELSE IF sentence'.n = 1 THEN "cut" ELSE "chars"
          /\ outcome' = IF sentence'.n = 0 THEN "ok" ELSE "none"
    /\ next' = 1 /\ segments' = <<>>
    /\ UNCHANGED <<loaded, scratch, pending, thrown>>

-----------------------------------------------------------------------------
(* add_ngram_scores *)

\* The weights of a match that fall on a boundary of the sentence.
Clipped(end, window) ==
    LET from == end - window
    IN  Max({0, -from}) .. Min({2 * window, Len1 - from}) - 1

AddNgram(match, window) ==
    scores' = [b \in Boundaries |->
                  LET j == b - (match.end - window)
                  IN  scores[b] + (IF j \in Clipped(match.end, window) THEN match.vec[j] ELSE 0)]

NgramMatch(dict, matches, window) ==
    /\ step = dict /\ next <= Len(matches)
    /\ AddNgram(matches[next], window)
    /\ next' = next + 1
    /\ UNCHANGED <<loaded, text, sentence, calls, step, scratch, pending, segments, outcome, thrown>>

NgramsDone(dict, matches, after) ==
    /\ step = dict /\ next > Len(matches)
    /\ step' = after /\ next' = 1
    /\ UNCHANGED <<loaded, text, sentence, calls, scores, scratch, pending, segments, outcome, thrown>>

CharMatch == NgramMatch("chars", sentence.chars, model.charWindow)
CharsDone == NgramsDone("chars", sentence.chars, "types")
TypeMatch == NgramMatch("types", sentence.types, model.typeWindow)
TypesDone == NgramsDone("types", sentence.types, "prepare")

-----------------------------------------------------------------------------
(* add_dictionary_scores *)

NoFeatures == model.dictVector = <<>> \/ model.numDicts = 0

SkipDictionary ==
    /\ step = "prepare" /\ NoFeatures
    /\ step' = "cut"
    /\ UNCHANGED <<loaded, text, sentence, calls, next, scores, scratch, pending, segments, outcome, thrown>>

Grown(need) ==
    [s \in 0 .. Max({need, Cardinality(DOMAIN seen)}) - 1 |-> IF s \in DOMAIN seen THEN seen[s] ELSE 0]

Prepare ==
    /\ step = "prepare" /\ ~NoFeatures
    /\ seen' = Grown(model.numDicts * dictLen)
    /\ touched' = <<>>
    /\ step' = "words"
    /\ UNCHANGED <<loaded, text, sentence, calls, next, scores, pending, segments, outcome, thrown>>

\* seen.resize or segments.emplace_back throws bad_alloc; a vector that fails
\* to grow is as it was.
AllocationThrows ==
    /\ step \in {"prepare", "cut"} /\ (step = "prepare" => ~NoFeatures)
    /\ step' = "idle" /\ outcome' = "threw"
    /\ UNCHANGED <<loaded, text, sentence, calls, next, scores, scratch, pending, segments, thrown>>

MarkOf(di, pos, col) ==
    [slot |-> di * dictLen + pos * stride + col, pos |-> pos, weight |-> di * stride + col]

\* The right boundary of a word is one of the sentence's.
RightEdge(end) == end # Len1

\* The marks of one match in one sub-dictionary: left, interior, right.
MarksIn(di, m) ==
    LET label == 3 * (Min({m.wlen, model.dictN}) - 1)
        left == IF m.end >= m.wlen THEN <<MarkOf(di, m.end - m.wlen, label)>> ELSE <<>>
        inside == [k \in 1 .. m.wlen - 1 |-> MarkOf(di, m.end - m.wlen + k, label + 1)]
        right == IF RightEdge(m.end) THEN <<MarkOf(di, m.end, label + 2)>> ELSE <<>>
    IN  left \o inside \o right

Marks(m) ==
    FlattenSeq([d \in 1 .. model.numDicts |-> IF d - 1 \in m.in_dict THEN MarksIn(d - 1, m) ELSE <<>>])

WordMatch ==
    /\ step = "words" /\ pending = <<>> /\ next <= Len(sentence.words)
    /\ pending' = Marks(sentence.words[next])
    /\ next' = next + 1
    /\ UNCHANGED <<loaded, text, sentence, calls, step, scores, scratch, segments, outcome, thrown>>

Marking == step = "words" /\ pending # <<>>

MarkSeen ==
    /\ Marking /\ seen[Head(pending).slot] = 1
    /\ pending' = Tail(pending)
    /\ UNCHANGED <<loaded, text, sentence, calls, step, next, scores, scratch, segments, outcome, thrown>>

MarkNew ==
    /\ Marking /\ seen[Head(pending).slot] = 0
    /\ LET m == Head(pending)
       IN  /\ seen' = [seen EXCEPT ![m.slot] = 1]
           /\ touched' = Append(touched, m.slot)
           /\ scores' = [scores EXCEPT ![m.pos] = @ + model.dictVector[m.weight]]
    /\ pending' = Tail(pending)
    /\ UNCHANGED <<loaded, text, sentence, calls, step, next, segments, outcome, thrown>>

\* touched.push_back throws after the flag is set; no one restores the flags.
MarkThrows ==
    /\ Marking /\ seen[Head(pending).slot] = 0
    /\ seen' = [seen EXCEPT ![Head(pending).slot] = 1]
    /\ step' = "idle" /\ outcome' = "threw" /\ thrown' = TRUE /\ pending' = <<>>
    /\ UNCHANGED <<loaded, text, sentence, calls, next, scores, touched, segments>>

Restored_AllButLast ==
    [s \in DOMAIN seen |-> IF \E k \in 1 .. Len(touched) - 1 : touched[k] = s THEN 0 ELSE seen[s]]
Restored == [s \in DOMAIN seen |-> IF \E k \in DOMAIN touched : touched[k] = s THEN 0 ELSE seen[s]]

WordsDone ==
    /\ step = "words" /\ pending = <<>> /\ next > Len(sentence.words)
    /\ seen' = Restored
    /\ step' = "cut" /\ next' = 1
    /\ UNCHANGED <<loaded, text, sentence, calls, scores, touched, pending, segments, outcome, thrown>>

-----------------------------------------------------------------------------
(* tokenize: the cuts *)

IsCut_LastUncut(k) == k < sentence.n /\ scores[k - 1] * model.multiplier > 0
\* A word ends after character k: at the end of the text, or by its score.
IsCut(k) == IF k < sentence.n THEN scores[k - 1] * model.multiplier > 0 ELSE TRUE

CutWords ==
    /\ step = "cut"
    /\ LET cuts == {k \in 1 .. sentence.n : IsCut(k)}
           before(k) == IF \E c \in cuts : c < k THEN Max({c \in cuts : c < k}) ELSE 0
           nth(r) == CHOOSE k \in cuts : Cardinality({c \in cuts : c <= k}) = r
       IN  segments' = [r \in 1 .. Cardinality(cuts) |->
                           <<sentence.offsets[before(nth(r)) + 1], sentence.offsets[nth(r) + 1]>>]
    /\ step' = "idle" /\ outcome' = "ok"
    /\ UNCHANGED <<loaded, text, sentence, calls, next, scores, scratch, pending, thrown>>

Next ==
    \/ LoadModel \/ EncodeFails \/ Call
    \/ CharMatch \/ CharsDone \/ TypeMatch \/ TypesDone
    \/ SkipDictionary \/ Prepare \/ AllocationThrows
    \/ WordMatch \/ MarkSeen \/ MarkNew \/ MarkThrows \/ WordsDone
    \/ CutWords

Spec == Init /\ [][Next]_vars

-----------------------------------------------------------------------------
(***************************************************************************)
(* A file KyTea wrote loads as the model it was written from, whatever     *)
(* tag models, subword dictionaries and language models have to be stepped *)
(* over on the way; one cut short anywhere, or that does not hold what the *)
(* scorer relies on, is refused.                                           *)
(***************************************************************************)
LoadIsExact ==
    step = "idle" /\ outcome = "none" =>
        \A f \in {Disk[k] : k \in {file} \ {0}} :
            /\ status = "ok" => f.kind # "damaged"
            /\ status = "malformed" => f.kind # "written"
            /\ status = "ok" /\ f.kind = "written" => model = f.expected

(***************************************************************************)
(* "each character of the map string receives ids 1, 2, 3, ... in order":  *)
(* a character's id is its rank of first appearance, and no other has one  *)
(* - as long as the map has fewer characters than a CharId has values.     *)
(***************************************************************************)
IdsByFirstAppearance ==
    step = "idle" /\ outcome = "none" /\ status = "ok" =>
        LET chars == Characters(Maps[Disk[file].fields[13]])
            upTo(k) == {chars[i].codepoint : i \in 1 .. k}
        IN  Cardinality(upTo(Len(chars))) < 2 ^ IdBits =>
                /\ DOMAIN model.table.ids = upTo(Len(chars))
                /\ \A k \in DOMAIN chars :
                      chars[k].codepoint \notin upTo(k - 1) =>
                          IdOf(model.table.ids, chars[k].codepoint) = Cardinality(upTo(k))

(***************************************************************************)
(* "What the scorer assumes of the vectors and dictionaries it reads       *)
(* unchecked on the hot path": with what load verified, no index is out of *)
(* its array, at either edge of the sentence and whatever sizes the        *)
(* thread's scratch has from other models and sentences.                   *)
(***************************************************************************)
IndicesInBounds ==
    /\ \A k \in DOMAIN pending :
          /\ pending[k].slot \in DOMAIN seen
          /\ pending[k].pos \in Boundaries
          /\ pending[k].weight \in DOMAIN model.dictVector
    /\ step \in {"chars", "types"} /\ next <= Len(sentence[step]) =>
          LET end == sentence[step][next].end
              window == IF step = "chars" THEN model.charWindow ELSE model.typeWindow
          IN  \A j \in Clipped(end, window) :
                  end - window + j \in Boundaries /\ j \in DOMAIN sentence[step][next].vec

\* Boundary b lies between characters b and b + 1; the weights of an n-gram
\* that ends at character e go to the window of boundaries around it.
NgramSum(matches, window, b) ==
    MapThenSumSet(
        LAMBDA k : LET j == b - matches[k].end + window
                   IN  IF j \in 0 .. 2 * window - 1 THEN matches[k].vec[j] ELSE 0,
        DOMAIN matches)

\* Whether a word begins at b (0), crosses it (1) or ends there (2).
KindsAt(w, b) ==
    {kind \in {0, 1, 2} :
        /\ kind = 0 => b = w.end - w.wlen
        /\ kind = 1 => b > w.end - w.wlen /\ b < w.end
        /\ kind = 2 => b = w.end}

\* The dictionary features present at b: of which dictionary, how long a
\* word, and of which kind.
FeaturesAt(b) ==
    UNION {{<<d, Min({w.wlen, model.dictN}), kind>> : d \in w.in_dict, kind \in KindsAt(w, b)} :
              w \in {sentence.words[k] : k \in DOMAIN sentence.words}}

Expected(b) ==
    model.bias
        + NgramSum(sentence.chars, model.charWindow, b)
        + NgramSum(sentence.types, model.typeWindow, b)
        + IF NoFeatures THEN 0
          ELSE MapThenSumSet(LAMBDA f : model.dictVector[f[1] * stride + 3 * (f[2] - 1) + f[3]], FeaturesAt(b))

(***************************************************************************)
(* The scores are the bias, every n-gram weight and every dictionary       *)
(* feature present once, "binary presence flags, not counts", whatever the *)
(* thread scored before: sentences of other lengths, other models, texts   *)
(* that failed to decode, calls that ran out of memory - unless it ran out *)
(* in the middle of a mark.                                                *)
(***************************************************************************)
ScoresExact ==
    ~thrown /\ (step = "cut" \/ (step = "idle" /\ outcome = "ok")) =>
        \A b \in Boundaries : scores[b] = Expected(b)

(***************************************************************************)
(* The words partition the bytes of the text as it came, never inside a    *)
(* character; a cut is where the score times the multiplier is positive,   *)
(* and only there.  A text is refused unless it is the encoding of the     *)
(* characters found in it.                                                 *)
(***************************************************************************)
WordsPartition ==
    step = "idle" /\ outcome = "ok" =>
        LET chars == Characters(text)
        IN  /\ text = FlattenSeq([k \in DOMAIN chars |-> Encode(chars[k].codepoint)])
            /\ text = FlattenSeq([k \in DOMAIN segments |-> SubSeq(text, segments[k][1] + 1, segments[k][2])])
            /\ \A k \in DOMAIN segments : segments[k][1] < segments[k][2]
            /\ {segments[k][1] : k \in DOMAIN segments} \subseteq {chars[k].at : k \in DOMAIN chars}
            /\ \A b \in Boundaries :
                  (\E k \in DOMAIN segments : segments[k][2] = chars[b + 2].at) <=> scores[b] * model.multiplier > 0

(***************************************************************************)
(* "invariant: all-zero between calls", scorer.h says of the flags, and    *)
(* "the scratch is left all-zero between calls".                           *)
(***************************************************************************)
SeenClear == step = "idle" => \A s \in DOMAIN seen : seen[s] = 0
=============================================================================
