------------------------------- MODULE Examples -------------------------------
(***************************************************************************)
(* mlp::train::build_examples (src/src/mlp/train/example.cpp): turns the   *)
(* sentences of a corpus into the flattened ExampleSet, one gap between    *)
(* code points after another.                                              *)
(*                                                                         *)
(* "sents" are the sentences, each with its grapheme clusters: starts is   *)
(* the set of the code points, counted from 0, that start a cluster, and   *)
(* valid says whether Vocab::encode_into decodes the text.  The rows of a  *)
(* sentence are the pairs of its number and a code point; its dictionary   *)
(* features at a boundary are as many copies of the pair of its number and *)
(* the boundary as the matcher has found there.                            *)
(***************************************************************************)
EXTENDS Integers, Sequences, FiniteSets

VARIABLES
    sents,           \* the sentences: text, tags, starts, valid
    building,        \* "idle", "sentence", "gaps" or "built"
    at,              \* sentences begun
    gap, next_egc,   \* g, and the cluster whose start comes next
    labeled,         \* supervised boundaries of the sentence so far
    rows, egc_starts, sentence_starts, examples, feat_offsets, feat_indices,
    stats,           \* ExampleStats
    stored           \* history: which sentence is stored under each id

setVars == <<rows, egc_starts, sentence_starts, examples, feat_offsets, feat_indices>>
exampleVars == <<sents, building, at, gap, next_egc, labeled, setVars, stats, stored>>

ExamplesInit ==
    /\ sents = <<>> /\ building = "idle" /\ at = 0 /\ gap = 0 /\ next_egc = 1 /\ labeled = <<>>
    /\ rows = <<>> /\ egc_starts = <<0>> /\ sentence_starts = <<0>>
    /\ examples = <<>> /\ feat_offsets = <<0>> /\ feat_indices = <<>>
    /\ stats = [read |-> 0, conflict |-> 0, invalid |-> 0, labeled |-> 0, unknown |-> 0]
    /\ stored = <<>>

\* build_examples is called.
Build(given) ==
    /\ building = "idle"
    /\ building' = "sentence"
    /\ sents' = given
    /\ stats' = [stats EXCEPT !.read = Len(given)]
    /\ UNCHANGED <<at, gap, next_egc, labeled, setVars, stored>>

-----------------------------------------------------------------------------
Sent == sents[at]
NumCps == Len(Sent.text)
NumEgcs == Cardinality(Sent.starts)
\* egc_starts of the encoder: where cluster e starts.
StartOf(e) == CHOOSE s \in Sent.starts : Cardinality({t \in Sent.starts : t < s}) = e

Encode ==
    /\ building = "sentence" /\ at < Len(sents) /\ sents[at + 1].valid
    /\ at' = at + 1
    /\ gap' = 0 /\ next_egc' = 1 /\ labeled' = <<>>
    /\ building' = "gaps"
    /\ UNCHANGED <<sents, setVars, stats, stored>>

SkipInvalid ==
    /\ building = "sentence" /\ at < Len(sents) /\ ~sents[at + 1].valid
    /\ at' = at + 1
    /\ stats' = [stats EXCEPT !.invalid = @ + 1]
    /\ UNCHANGED <<sents, building, gap, next_egc, labeled, setVars, stored>>

EndOfSentences ==
    /\ building = "sentence" /\ at = Len(sents)
    /\ building' = "built"
    /\ UNCHANGED <<sents, at, gap, next_egc, labeled, setVars, stats, stored>>

-----------------------------------------------------------------------------
(* The gap after code point number gap. *)

InGaps == building = "gaps" /\ gap + 1 < NumCps
Tag == Sent.tags[gap + 1]

AtEgcBoundary_OneEarly == next_egc < NumEgcs /\ StartOf(next_egc) = gap
AtEgcBoundary == next_egc < NumEgcs /\ StartOf(next_egc) = gap + 1

NextGap == gap' = gap + 1 /\ UNCHANGED <<sents, building, at, setVars, stored>>

Inside ==
    /\ InGaps /\ ~AtEgcBoundary /\ Tag # "Bound"
    /\ NextGap /\ UNCHANGED <<next_egc, labeled, stats>>

\* A boundary inside a cluster: the sentence is skipped.
Conflict ==
    /\ InGaps /\ ~AtEgcBoundary /\ Tag = "Bound"
    /\ stats' = [stats EXCEPT !.conflict = @ + 1]
    /\ building' = "sentence"
    /\ UNCHANGED <<sents, at, gap, next_egc, labeled, setVars, stored>>

Unsupervised ==
    /\ InGaps /\ AtEgcBoundary /\ Tag = "Unknown"
    /\ next_egc' = next_egc + 1
    /\ stats' = [stats EXCEPT !.unknown = @ + 1]
    /\ NextGap /\ UNCHANGED labeled

Supervised ==
    /\ InGaps /\ AtEgcBoundary /\ Tag # "Unknown"
    /\ next_egc' = next_egc + 1
    /\ labeled' = Append(labeled, [boundary |-> next_egc - 1, label |-> IF Tag = "Bound" THEN 1 ELSE 0])
    /\ NextGap /\ UNCHANGED stats

-----------------------------------------------------------------------------
(* The end of a sentence. *)

GapsDone == building = "gaps" /\ gap + 1 >= NumCps

\* "nothing supervised; don't store the sentence"
Unstored ==
    /\ GapsDone /\ labeled = <<>>
    /\ building' = "sentence"
    /\ UNCHANGED <<sents, at, gap, next_egc, labeled, setVars, stats, stored>>

\* DictMatcher::features_into, by boundary.
FeaturesAt(s, b) == [k \in 1 .. (s + b) % 3 |-> <<s, b>>]

Joined(seqs) ==
    LET upTo[k \in 0 .. Len(seqs)] == IF k = 0 THEN <<>> ELSE upTo[k - 1] \o seqs[k]
    IN  upTo[Len(seqs)]

RowBase_Zero == 0
RowBase == Len(rows)

NewOffsets(feats) == [k \in DOMAIN feats |-> Len(feat_indices) + Len(Joined(SubSeq(feats, 1, k)))]

Store ==
    /\ GapsDone /\ labeled # <<>>
    /\ LET id == Len(sentence_starts) - 1
           feats == [k \in DOMAIN labeled |-> FeaturesAt(at, labeled[k].boundary)]
       IN  /\ rows' = rows \o [k \in 1 .. NumCps |-> <<at, k - 1>>]
           /\ egc_starts' = egc_starts \o
                 [e \in 1 .. NumEgcs |-> RowBase + IF e < NumEgcs THEN StartOf(e) ELSE NumCps]
           /\ sentence_starts' = Append(sentence_starts, sentence_starts[id + 1] + NumEgcs)
           /\ examples' = examples \o
                 [k \in DOMAIN labeled |->
                     [sentence |-> id, boundary |-> labeled[k].boundary, label |-> labeled[k].label]]
           /\ feat_indices' = feat_indices \o Joined(feats)
           /\ feat_offsets' = feat_offsets \o NewOffsets(feats)
    /\ stats' = [stats EXCEPT !.labeled = @ + Len(labeled)]
    /\ stored' = Append(stored, at)
    /\ building' = "sentence"
    /\ UNCHANGED <<sents, at, gap, next_egc, labeled>>

BuildStep ==
    \/ Encode \/ SkipInvalid \/ EndOfSentences
    \/ Inside \/ Conflict \/ Unsupervised \/ Supervised
    \/ Unstored \/ Store

-----------------------------------------------------------------------------
ExamplesTypeOK ==
    /\ building \in {"idle", "sentence", "gaps", "built"}
    /\ at \in 0 .. Len(sents)
    /\ building = "gaps" => next_egc \in 1 .. NumEgcs
    /\ Len(feat_offsets) = Len(examples) + 1 /\ Len(stored) = Len(sentence_starts) - 1
    /\ \A k \in DOMAIN examples : examples[k].sentence \in 0 .. Len(stored) - 1

\* The code points of local cluster e of stored sentence id: egc_rows.
EgcRows(id, e) ==
    LET g == sentence_starts[id + 1] + e
    IN  SubSeq(rows, egc_starts[g + 1] + 1, egc_starts[g + 2])

\* The examples a sentence should give: its supervised cluster boundaries.
ExamplesOf(s) ==
    LET sent == sents[s]
        before(c) == Cardinality({t \in sent.starts : t < c})
    IN  {[boundary |-> before(c) - 1, label |-> IF sent.tags[c] = "Bound" THEN 1 ELSE 0] :
            c \in {x \in sent.starts \ {0} : sent.tags[x] # "Unknown"}}

HasConflict(s) ==
    \E g \in DOMAIN sents[s].tags : sents[s].tags[g] = "Bound" /\ g \notin sents[s].starts

(***************************************************************************)
(* Every stored sentence gives one example per supervised cluster          *)
(* boundary and none besides, labelled with the mark at the code point gap *)
(* where that boundary is; and "a conflicting or invalid sentence          *)
(* contributes no examples and no encoded storage".                        *)
(***************************************************************************)
ExamplesCarryTheMarks ==
    /\ \A id \in 0 .. Len(stored) - 1 :
          LET s == stored[id + 1]
              mine == {k \in DOMAIN examples : examples[k].sentence = id}
          IN  /\ sents[s].valid /\ ~HasConflict(s)
              /\ Cardinality(mine) = Cardinality(ExamplesOf(s))
              /\ {[boundary |-> examples[k].boundary, label |-> examples[k].label] : k \in mine} = ExamplesOf(s)
    /\ building = "built" =>
          \A s \in DOMAIN sents :
              sents[s].valid /\ ~HasConflict(s) /\ ExamplesOf(s) # {} =>
                  \E id \in DOMAIN stored : stored[id] = s

(***************************************************************************)
(* The offsets of the flattened arrays find, for every cluster of every    *)
(* stored sentence, the code points that are in it, and for every example  *)
(* the features of its boundary.                                           *)
(***************************************************************************)
OffsetsFindTheirOwn ==
    /\ \A id \in 0 .. Len(stored) - 1 :
          LET s == stored[id + 1]
              starts == sents[s].starts
              cluster(c) == Cardinality({t \in starts : t <= c}) - 1
          IN  \A e \in 0 .. Cardinality(starts) - 1 :
                  {EgcRows(id, e)[k] : k \in DOMAIN EgcRows(id, e)} =
                      {<<s, c>> : c \in {x \in 0 .. Len(sents[s].text) - 1 : cluster(x) = e}}
    /\ \A k \in DOMAIN examples :
          SubSeq(feat_indices, feat_offsets[k] + 1, feat_offsets[k + 1]) =
              FeaturesAt(stored[examples[k].sentence + 1], examples[k].boundary)
=============================================================================
