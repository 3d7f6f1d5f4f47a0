---------------------------- MODULE MlpTokenizer ----------------------------
(***************************************************************************)
(* The MLP and EDLA backends at work: one thread that loads models (module *)
(* MlpModel) and tokenizes texts with them, mlp::tokenize_with             *)
(* (src/include/segmentlib/mlp/mlp_backend.h, ed/ed_backend.h), through    *)
(* the encoder (mlp/vocab.h), the dictionary features (module              *)
(* MlpDictionary) and the scorer (mlp/scorer.h) over the kernels (module   *)
(* MlpKernels).  enc, dict, acc, blocks, fallback and scores are the       *)
(* thread's scratch: they outlive the call, the text and the model.        *)
(*                                                                         *)
(* Grapheme clusters are those of GraphemeRules, which the breaker         *)
(* implements (module MlpTokenizerProofs).  A text is a sequence of        *)
(* code points and Bad; byte offsets are real ones.                        *)
(***************************************************************************)
EXTENDS MlpQuantize, GraphemeRules

CONSTANTS
    PropsOf,         \* code point -> its break properties
    Texts,           \* the texts that may be tokenized
    Files,           \* the files that may be loaded: [bytes, kind, q], in any order
    MaxRounds        \* bound of the model: refused loads and calls

\* A file is a sequence of units; what the parser reads as unsigned is a natural number.
ASSUME FilesAssumption ==
    \A f \in DOMAIN Files :
        LET bytes == Files[f].bytes
            parsed == Parse(bytes)
            got == parsed.got
        IN  /\ Len(bytes) \in Nat /\ bytes = [k \in 1 .. Len(bytes) |-> bytes[k]]
            /\ parsed.ok =>
                  /\ \A field \in {"config", "vocab_size", "vocab", "fst_size", "sets", "offsets", "dicts"} :
                        \A k \in DOMAIN got[field] : got[field][k] \in Nat
                  /\ \A k \in DOMAIN got["fst"] :
                        \A key \in DOMAIN got["fst"][k].of : got["fst"][k].of[key] \in Nat

\* A file as export_model wrote it from q, or altered since: "damaged" ones are to
\* be refused, "odd" ones pass the parser.
ASSUME TokenizerAssumption ==
    /\ MaxRounds \in Nat
    /\ \A c \in DOMAIN Normal : Normal[c] \in DOMAIN PropsOf /\ PropsOf[Normal[c]] \in GraphemeProps
    /\ \A t \in Texts : t \in Seq(DOMAIN Normal \cup {Bad})
    /\ \A f \in DOMAIN Files : Files[f].kind \in {"exported", "damaged", "odd"}

\* What is on disk.
Disk == Files

VARIABLES
    cpu,             \* what the kernels were compiled for
    rounds,          \* refused loads and calls made
    step,            \* where the thread is; "idle" between rounds
    file, status,    \* the file last loaded, and what load_format said of it
    model,           \* what the scorer reads of it
    text,            \* of the call in progress or last made
    enc,             \* scratch: EncodedEgc
    dict,            \* scratch: DictFeatures
    cluster, hits,   \* the cluster searched from, and its matches to mark
    acc,             \* scratch: the int32 accumulator
    blocks,          \* scratch: what the fused kernel will add, as pointers
    fallback,        \* scratch: blocks of clusters that have none in the table
    scores, segments,
    outcome          \* of the last call: "none", "ok", "error", "threw"

scratch == <<enc, dict, acc, blocks, fallback, scores>>
vars == <<cpu, rounds, step, file, status, model, text, scratch, cluster, hits, segments, outcome>>

NoText == [rows |-> <<>>, cps |-> <<>>, egc_starts |-> <<>>, offsets |-> <<>>]
NoModel == [vocab |-> <<>>]

Init ==
    /\ cpu \in Cpus /\ rounds = 0 /\ step = "idle"
    /\ file = 0 /\ status = "none" /\ model = NoModel
    /\ text = <<>> /\ enc = NoText /\ dict = NoFeatures /\ cluster = 0 /\ hits = <<>>
    /\ acc = <<>> /\ blocks = <<>> /\ fallback = Array(<<>>) /\ scores = <<>>
    /\ segments = <<>> /\ outcome = "none"

hidden == model.net.hidden
slots == SlotCount(model.net)
m == EgcCount(enc)

-----------------------------------------------------------------------------
(* Loading: load_mlp or load_ed, in either precision. *)

LoadModel ==
    /\ step = "idle" /\ rounds < MaxRounds
    /\ \E f \in DOMAIN Disk, format \in Formats, precision \in {"Int32", "Int16"} :
          \E loaded \in LoadStatuses(Disk[f].bytes, format) :
              /\ file' = f /\ status' = loaded
              /\ model' = IF loaded = "ok" THEN Derived(Parse(Disk[f].bytes).got, precision) ELSE NoModel
              /\ step' = IF loaded = "ok" THEN "loaded" ELSE "idle"
              /\ rounds' = IF loaded = "ok" THEN rounds ELSE rounds + 1
    /\ text' = <<>> /\ segments' = <<>> /\ outcome' = "none"
    /\ UNCHANGED <<cpu, scratch, cluster, hits>>

-----------------------------------------------------------------------------
(* encode_into *)

ByteLength(t) == Len(FlattenSeq([k \in DOMAIN t |-> Utf8[t[k]]]))
NormalText(t) == [k \in DOMAIN t |-> Normal[t[k]]]
BreaksBefore(t, k) == Boundary([i \in 1 .. k |-> PropsOf[Normal[t[i]]]])

ClusterOffset_Normalized(t, start) == ByteLength(NormalText(SubSeq(t, 1, start - 1)))
\* Offsets count the bytes of the text as it came.
ClusterOffset(t, start) == ByteLength(SubSeq(t, 1, start - 1))

\* The encoder after t; the closing entries come when the text ends.
EncodedPrefix(t) ==
    LET starts == Ascending({k \in DOMAIN t : BreaksBefore(t, k)})
    IN  [cps |-> NormalText(t),
         rows |-> [k \in DOMAIN t |-> RowOf(model.vocab, Normal[t[k]])],
         egc_starts |-> [i \in DOMAIN starts |-> starts[i] - 1],
         offsets |-> [i \in DOMAIN starts |-> ClusterOffset(t, starts[i])]]

Encoded(t) ==
    LET e == EncodedPrefix(t)
    IN  [e EXCEPT !.egc_starts = Append(@, Len(t)), !.offsets = Append(@, ByteLength(t))]

EndCall(result) == step' = "idle" /\ rounds' = rounds + 1 /\ outcome' = result

\* A byte that does not decode, or a vector that cannot grow, ends the call where it is.
EncodeFails ==
    /\ step = "loaded"
    /\ \E t \in Texts : \E k \in 1 .. Len(t) :
          /\ Bad \notin {t[i] : i \in 1 .. k - 1}
          /\ text' = t
          /\ enc' = EncodedPrefix(SubSeq(t, 1, k - 1))
          /\ \/ t[k] = Bad /\ EndCall("error")
             \/ EndCall("threw")
    /\ UNCHANGED <<cpu, file, status, model, dict, acc, blocks, fallback, scores, cluster, hits, segments>>

\* tokenize_with: an empty text has no words, and one cluster no boundary.
Encode ==
    /\ step = "loaded"
    /\ \E t \in Texts :
          /\ Bad \notin {t[i] : i \in DOMAIN t}
          /\ text' = t /\ enc' = Encoded(t)
          /\ IF t = <<>> THEN EndCall("ok") /\ UNCHANGED scores
             ELSE /\ scores' = <<>>
                  /\ step' = IF EgcCount(Encoded(t)) < 2 THEN "cut" ELSE "features"
                  /\ UNCHANGED <<rounds, outcome>>
    /\ UNCHANGED <<cpu, file, status, model, dict, acc, blocks, fallback, cluster, hits, segments>>

-----------------------------------------------------------------------------
(* features_into *)

NoDictionary == FeatureCount(model.matcher) = 0 \/ ~HasImpl(model.matcher)

SkipFeatures ==
    /\ step = "features" /\ NoDictionary
    /\ dict' = EmptyRanges(dict, enc)
    /\ step' = "score"
    /\ UNCHANGED <<cpu, rounds, file, status, model, text, enc, acc, blocks, fallback, scores, cluster, hits,
                   segments, outcome>>

Reencode ==
    /\ step = "features" /\ ~NoDictionary
    /\ dict' = Reencoded(dict, model.matcher, enc)
    /\ step' = "search" /\ cluster' = 0
    /\ UNCHANGED <<cpu, rounds, file, status, model, text, enc, acc, blocks, fallback, scores, hits,
                   segments, outcome>>

Search ==
    /\ step = "search" /\ cluster < m
    /\ hits' = Hits(dict, model.matcher, cluster)
    /\ step' = "mark"
    /\ UNCHANGED <<cpu, rounds, file, status, model, text, scratch, cluster, segments, outcome>>

Mark ==
    /\ step = "mark"
    /\ dict' = Marked(dict, UNION {MarksOf(model.matcher, hits[k], m - 1) : k \in DOMAIN hits})
    /\ cluster' = cluster + 1 /\ hits' = <<>> /\ step' = "search"
    /\ UNCHANGED <<cpu, rounds, file, status, model, text, enc, acc, blocks, fallback, scores, segments, outcome>>

Emit ==
    /\ step = "search" /\ cluster = m
    /\ dict' = Emitted(dict, enc)
    /\ step' = "score"
    /\ UNCHANGED <<cpu, rounds, file, status, model, text, enc, acc, blocks, fallback, scores, cluster, hits,
                   segments, outcome>>

-----------------------------------------------------------------------------
(* The scorer, boundary i = Len(scores) *)

EgcRows(i) == SubSeq(enc.rows, enc.egc_starts[i + 1] + 1, enc.egc_starts[i + 2])

SlotRows_OneEarly(i, j) ==
    LET egc == i - model.net.window + j
    IN  IF egc \in 0 .. m - 1 THEN EgcRows(egc) ELSE <<PadRow>>
\* slot_rows: past either end of the text, PAD
SlotRows(i, j) ==
    LET egc == i - model.net.window + 1 + j
    IN  IF egc \in 0 .. m - 1 THEN EgcRows(egc) ELSE <<PadRow>>

Row(memory, at) == [h \in Units(hidden) |-> memory[at + h]]

\* add_into: a cluster of one code point has its block in the table, the table
\* being a cache of synthesize.
AddInto(sum, rows, j) ==
    IF Len(rows) = 1 THEN AddI32(cpu, Row(model.table, BlockBase(model.net, rows[1], j)), sum, hidden)
    ELSE [h \in Units(hidden) |-> WrappingAdd(sum[h], Synthesized(model.net, rows, j, h))]

ScoreI32 ==
    /\ step = "score" /\ model.precision = "Int32" /\ Len(scores) < m - 1
    /\ LET i == Len(scores)
           window == FoldLeft(LAMBDA sum, j : AddInto(sum, SlotRows(i, j), j), model.b1, [j \in 1 .. slots |-> j - 1])
           total == FoldLeft(LAMBDA sum, k : AddI32(cpu, Row(model.dict_cols, k * hidden), sum, hidden),
                             window, FeaturesAt(dict, i))
       IN  /\ acc' = ReluI32(cpu, total, hidden)
           /\ scores' = Append(scores, Saturate(DotI32(cpu, model.w2, acc', hidden) + model.b2))
    /\ UNCHANGED <<cpu, rounds, step, file, status, model, text, enc, dict, blocks, fallback, cluster, hits,
                   segments, outcome>>

FallbackBase_Shared(j) == 0
\* Every slot has its own part of the fallback scratch.
FallbackBase(j) == j * hidden

\* block_i16: a pointer into the table, or at the block it has just synthesized.
Block(j, rows) ==
    IF Len(rows) = 1 THEN [memory |-> "table", at |-> BlockBase(model.net, rows[1], j)]
    ELSE [memory |-> "fallback", at |-> FallbackBase(j)]

\* The slots of boundary i whose blocks are synthesized over element e.
SlotsOver(i, e) ==
    {j \in 0 .. slots - 1 : Len(SlotRows(i, j)) # 1 /\ e - FallbackBase(j) \in Units(hidden)}

\* The fallback scratch, resized, after every slot of boundary i in turn.
Synthesis(i) ==
    [e \in 0 .. slots * hidden - 1 |->
        IF SlotsOver(i, e) # {}
        THEN LET j == Max(SlotsOver(i, e))
             IN  RequantI16(Synthesized(model.net, SlotRows(i, j), j, e - FallbackBase(j)))
        ELSE IF e \in DOMAIN fallback THEN fallback[e] ELSE 0]

\* score_i16_fused: every block of a boundary is gathered before any is read.
Gather ==
    /\ step = "score" /\ model.precision = "Int16" /\ Len(scores) < m - 1
    /\ LET i == Len(scores)
           active == FeaturesAt(dict, i)
       IN  /\ fallback' = Synthesis(i)
           /\ blocks' = [j \in 1 .. slots |-> Block(j - 1, SlotRows(i, j - 1))]
                            \o [k \in DOMAIN active |-> [memory |-> "dict_cols", at |-> active[k] * hidden]]
    /\ step' = "fuse"
    /\ UNCHANGED <<cpu, rounds, file, status, model, text, enc, dict, acc, scores, cluster, hits, segments, outcome>>

Memory(block) ==
    CASE block.memory = "table" -> model.table
      [] block.memory = "fallback" -> fallback
      [] block.memory = "dict_cols" -> model.dict_cols

Fuse ==
    /\ step = "fuse"
    /\ LET read == [k \in DOMAIN blocks |-> Row(Memory(blocks[k]), blocks[k].at)]
           sum == FusedScoreI16(cpu, model.b1, read, model.w2, hidden)
       IN  scores' = Append(scores, Saturate(sum + model.b2))
    /\ step' = "score"
    /\ UNCHANGED <<cpu, rounds, file, status, model, text, enc, dict, acc, blocks, fallback, cluster, hits,
                   segments, outcome>>

ScoresDone ==
    /\ step = "score" /\ Len(scores) = m - 1
    /\ step' = "cut"
    /\ UNCHANGED <<cpu, rounds, file, status, model, text, scratch, cluster, hits, segments, outcome>>

-----------------------------------------------------------------------------
(* tokenize_with: the cuts *)

Cut ==
    /\ step = "cut"
    /\ LET cuts == Ascending({i \in 1 .. Len(scores) + 1 : i > Len(scores) \/ scores[i] > 0})
           at(k) == IF k = 0 THEN 0 ELSE IF cuts[k] > Len(scores) THEN ByteLength(text) ELSE enc.offsets[cuts[k] + 1]
       IN  segments' = [k \in DOMAIN cuts |-> <<at(k - 1), at(k)>>]
    /\ EndCall("ok")
    /\ UNCHANGED <<cpu, file, status, model, text, scratch, cluster, hits>>

\* A buffer cannot grow; what the step had cleared the next call clears again.
AllocationThrows ==
    /\ step \in {"features", "search", "score", "cut"}
    /\ EndCall("threw")
    /\ UNCHANGED <<cpu, file, status, model, text, scratch, cluster, hits, segments>>

Next ==
    \/ LoadModel \/ EncodeFails \/ Encode
    \/ SkipFeatures \/ Reencode \/ Search \/ Mark \/ Emit
    \/ ScoreI32 \/ Gather \/ Fuse \/ ScoresDone
    \/ Cut \/ AllocationThrows

Spec == Init /\ [][Next]_vars

-----------------------------------------------------------------------------
q == Disk[file].q
Exported == status = "ok" /\ Disk[file].kind = "exported"
Scoring == step \in {"score", "fuse", "cut"} /\ m >= 2

(***************************************************************************)
(* A file as export_model wrote it, read in its own format, is never taken *)
(* for a damaged one: it loads, and says what was exported, or memory runs *)
(* out and the error says that.  One cut short anywhere, with something    *)
(* after its end or with a field out of its range is refused.              *)
(***************************************************************************)
LoadIsFaithful ==
    /\ status = "ok" => Disk[file].kind # "damaged"
    /\ status = "malformed" => Disk[file].kind = "damaged"
    /\ Exported /\ step = "loaded" =>
          /\ model.net.embedding = Array(q.embedding) /\ model.net.w1 = Array(q.w1) /\ model.w2 = Array(q.w2)
          /\ model.vocab = q.vocab /\ ~model.mismatch
          /\ \A d \in DOMAIN q.dictionaries : \A word \in ToSet(q.dictionaries[d]) :
                word # <<>> /\ Valid(word) =>
                    d - 1 \in ChannelsOf(model.matcher, model.matcher.fst[1].of[NormalizedUtf8(word)])

(***************************************************************************)
(* What "the parser cannot check without walking" the FST is checked as it *)
(* matches: no set id, channel, feature, row or block leads out of its     *)
(* array, whatever set ids a file's FST holds and whatever the scratch has *)
(* from other texts and models.                                            *)
(***************************************************************************)
IndicesInBounds ==
    /\ step = "mark" => \A k \in DOMAIN hits :
          /\ hits[k].past \in hits[k].start + 1 .. m
          /\ hits[k].id + 1 \in DOMAIN model.matcher.offsets
          /\ ChannelsOf(model.matcher, hits[k].id) \subseteq 0 .. model.matcher.num_dicts - 1
          /\ \A mark \in MarksOf(model.matcher, hits[k], m - 1) : mark[1] \in 0 .. m - 2
    /\ Scoring =>
          /\ DOMAIN dict.offsets = 0 .. m - 1
          /\ \A k \in DOMAIN dict.indices : dict.indices[k] \in 0 .. FeatureCount(model.matcher) - 1
          /\ \A k \in DOMAIN enc.rows : enc.rows[k] \in 0 .. Len(model.vocab) + 1
    /\ step = "fuse" => \A k \in DOMAIN blocks :
          blocks[k].at .. blocks[k].at + hidden - 1 \subseteq DOMAIN Memory(blocks[k])

\* The clusters of a text, from 0, as code points and as rows of the embedding.
ClusterSet(t) == {k \in DOMAIN t : BreaksBefore(t, k)}
Clusters(t) ==
    LET starts == Ascending(ClusterSet(t)) \o <<Len(t) + 1>>
    IN  [i \in 1 .. Len(starts) - 1 |-> SubSeq(t, starts[i], starts[i + 1] - 1)]
RowsOfText ==
    LET clusters == Clusters(text)
    IN [i \in DOMAIN clusters |->
        [k \in DOMAIN clusters[i] |->
            LET cp == Normal[clusters[i][k]]
            IN  IF cp \in ToSet(q.vocab) THEN Cardinality({v \in ToSet(q.vocab) : v <= cp}) + 1 ELSE UnkRow]]

\* Words of dictionary d that begin with cluster s and end with cluster e.
Occurrences(d) ==
    LET clusters == Clusters(text)
        words == {NormalText(word) : word \in {w \in ToSet(q.dictionaries[d]) : Valid(w)}}
    IN  {se \in (DOMAIN clusters) \X (DOMAIN clusters) :
            se[1] <= se[2] /\ NormalText(FlattenSeq(SubSeq(clusters, se[1], se[2]))) \in words}

\* The features of dictionary d at boundary b, which lies between clusters b + 1 and b + 2, counted from 1.
ActiveOf(d, b) ==
    LET found == Occurrences(d)
        feature(se, position) ==
            (d - 1) * FeaturesPerDict + position * Buckets + Min({se[2] - se[1] + 1, Buckets}) - 1
    IN  {feature(se, Left) : se \in {x \in found : x[1] = b + 2}}
            \cup {feature(se, Inside) : se \in {x \in found : x[1] <= b + 1 /\ b + 1 < x[2]}}
            \cup {feature(se, Right) : se \in {x \in found : x[2] = b + 1}}
ActiveAt(b) == UNION {ActiveOf(d, b) : d \in DOMAIN q.dictionaries}

(***************************************************************************)
(* The features of a boundary are those of the dictionary words, in whole  *)
(* clusters of the text, that begin after it, span it or end before it -   *)
(* matched as bytes in an FST, stored as shared sets of dictionaries,      *)
(* counted in clusters, once each and in ascending order.                  *)
(***************************************************************************)
FeaturesExact ==
    step = "score" /\ Exported => \A b \in BoundariesOf(enc) : FeaturesAt(dict, b) = Ascending(ActiveAt(b))

\* The call has just scored a boundary; scores are only ever appended.
Scored(precision) == Exported /\ step = "score" /\ model.precision = precision /\ scores # <<>>
Newest == Len(scores) - 1

(***************************************************************************)
(* The Int32 path is "bit-exact with the trainer's int16 reference         *)
(* forward" wherever that is defined, on every kernel: as far as any unit  *)
(* fits an int32.                                                          *)
(***************************************************************************)
AgreesWithTrainer ==
    Scored("Int32") =>
        LET rows == RowsOfText
            active == ActiveAt(Newest)
        IN  ReferenceDefined(q, rows, Newest, active) =>
                Last(scores) = Saturate(ReferenceScore(q, rows, Newest, active))

\* b1 and the int16 contributions to unit h at boundary b, in the order of the sequential steps.
Terms(rows, active, b, h) ==
    LET ordered == Ascending(active)
    IN  <<RequantI16(ReferenceB1(q, h))>>
            \o [j \in 1 .. 2 * q.window |->
                   RequantI16(Wrapped32(ReferenceSlot(q, ReferenceRows(q, rows, b, j - 1), j - 1, h)))]
            \o [k \in DOMAIN ordered |-> RequantI16(Wrapped32(ReferenceColumn(q, ordered[k], h)))]

Half == 2 ^ (AccShift - 1)
UnitsOf(n) == 0 .. n.hidden - 1

(***************************************************************************)
(* The fused Int16 kernel is "bit-identical to the unfused sequence": b1,  *)
(* then every block with saturation in window order, dictionary columns    *)
(* after, relu, dot product - on every kernel, although a block may come   *)
(* from the table, from the fallback scratch or from a column.             *)
(***************************************************************************)
FusedIsSequential ==
    Scored("Int16") =>
        LET rows == RowsOfText
            active == ActiveAt(Newest)
            unit(h) == FoldLeft(LAMBDA a, c : Clamped(a + c, Bits), 0, Terms(rows, active, Newest, h))
        IN  Last(scores) = Saturate(MapThenSumSet(LAMBDA h : q.w2[h + 1] * Max({unit(h), 0}), UnitsOf(q))
                                        + (ReferenceB2(q) + Half) \div 2 ^ AccShift)

Inner(v, bits) == v \in MinOf(bits) + 1 .. MaxOf(bits) - 1
\* No term and no partial sum gets to the ends of an int16.
Unsaturated(terms) ==
    \A k \in DOMAIN terms : Inner(terms[k], Bits) /\ Inner(FoldLeft(+, 0, SubSeq(terms, 1, k)), Bits)

(***************************************************************************)
(* "Decisions can differ from the file's exact semantics only at the       *)
(* |y| = 0 margin": as long as nothing saturates, an Int16 score is the    *)
(* exact one in coarser units, up to half a unit for each term.            *)
(***************************************************************************)
PrecisionsAgree ==
    Scored("Int16") =>
        LET rows == RowsOfText
            active == ActiveAt(Newest)
            terms == 1 + 2 * q.window + Cardinality(active)
            margin == Half + MapThenSumSet(LAMBDA h : Max({q.w2[h + 1], -q.w2[h + 1]}) * terms * Half, UnitsOf(q))
            error == Last(scores) * 2 ^ AccShift - ReferenceScore(q, rows, Newest, active)
        IN  (\A h \in UnitsOf(q) : Unsaturated(Terms(rows, active, Newest, h))) /\ Inner(Last(scores), 2 * Bits)
                => error \in -margin .. margin

(***************************************************************************)
(* The words of a text partition its bytes as they came, before            *)
(* normalization; each ends where a cluster does, and two are cut apart    *)
(* exactly where the score is positive.                                    *)
(***************************************************************************)
WordsPartition ==
    step = "idle" /\ outcome = "ok" =>
        LET starts == {ByteLength(SubSeq(text, 1, k - 1)) : k \in ClusterSet(text)}
        IN  IF text = <<>> THEN segments = <<>>
            ELSE /\ segments # <<>> /\ segments[1][1] = 0 /\ segments[Len(segments)][2] = ByteLength(text)
                 /\ \A k \in 2 .. Len(segments) : segments[k][1] = segments[k - 1][2]
                 /\ {segments[k][1] : k \in DOMAIN segments}
                        = {0} \cup {o \in starts : LET i == Cardinality({p \in starts : p < o})
                                                   IN  i > 0 /\ scores[i] > 0}
=============================================================================
