------------------------------ MODULE MlpModel ------------------------------
(***************************************************************************)
(* A model of the MLP and EDLA backends: the file serialize_model writes   *)
(* (src/src/mlp/train/exporter.cpp), what Model::load_format makes of a    *)
(* file (include/segmentlib/mlp/model.h, ed/model.h), the precompute table *)
(* (mlp/precompute.h) and the vocabulary (mlp/vocab.h).                    *)
(*                                                                         *)
(* A file is a sequence of units, one per number, one for an FST's byte    *)
(* code, and two for the header line.  A double is an exact fraction       *)
(* <<num, den>>, <<x, 0>> one that is not finite.  A quantized model is a  *)
(* record as quantize returns it (module MlpQuantize).                     *)
(***************************************************************************)
EXTENDS MlpKernels, MlpDictionary, TLC

CONSTANTS
    UnicodeVersion,  \* kEgcUnicodeVersion
    MaxCodepoint,    \* 0x10FFFF
    MaxEmbedDim,     \* 256
    BmpSize          \* code points below it have a direct-indexed row

PadRow == 0
UnkRow == 1

IsFinite(x) == x[2] > 0
Times(x, y) == <<x[1] * y[1], x[2] * y[2]>>
Over(x, y) == <<x[1] * y[2], x[2] * y[1]>>
Rounded(x) == LlRound(x[1], x[2])

Formats == {"SegmentLibMLP", "SegmentLibED"}
Version == "1"

-----------------------------------------------------------------------------
(* serialize_model *)

WrittenDictionaries(compiled) ==
    <<Len(compiled.fst)>> \o compiled.fst \o <<Len(compiled.offsets) - 1>>
        \o compiled.offsets \o compiled.dicts

SerializeModel(q, format) ==
    LET dicts == Len(q.dictionaries) > 0
    IN  <<format, Version>>
        \o <<q.window, q.embed_dim, q.hidden, Len(q.dictionaries), UnicodeVersion>>
        \o <<q.emb_scale, q.w1_scale>>
        \o (IF dicts THEN <<q.wdict_scale>> ELSE <<>>)
        \o <<q.w2_scale, q.acc_scale>>
        \o <<Len(q.vocab) + 2>> \o q.vocab
        \o q.embedding \o q.w1
        \o (IF dicts THEN q.wdict ELSE <<>>)
        \o q.b1 \o q.w2 \o <<q.b2>>
        \o (IF dicts THEN WrittenDictionaries(CompileDictionaries(q.dictionaries)) ELSE <<>>)

-----------------------------------------------------------------------------
(* Model::parse: the fields in file order, each with its length in units   *)
(* and the check made of it, from the fields "got" before it.              *)

Fields == <<"config", "scales", "vocab_size", "vocab", "embedding", "w1", "wdict", "b1", "w2", "b2",
            "fst_size", "fst", "sets", "offsets", "dicts">>

Config(got) == [window |-> got["config"][1], embed_dim |-> got["config"][2], hidden |-> got["config"][3],
                num_dicts |-> got["config"][4], unicode_version |-> got["config"][5]]

Length(got, field) ==
    LET c == Config(got)
        ifDicts(n) == IF c.num_dicts > 0 THEN n ELSE 0
        vocab_size == got["vocab_size"][1]
    IN  CASE field = "config" -> 5
          [] field = "scales" -> 4 + ifDicts(1)
          [] field = "vocab" -> vocab_size - 2
          [] field = "embedding" -> vocab_size * c.embed_dim
          [] field = "w1" -> c.hidden * 2 * c.window * c.embed_dim
          [] field = "wdict" -> c.hidden * c.num_dicts * FeaturesPerDict
          [] field \in {"b1", "w2"} -> c.hidden
          [] field \in {"vocab_size", "b2"} -> 1
          [] field \in {"fst_size", "sets"} -> ifDicts(1)
          [] field = "fst" -> IF c.num_dicts > 0 THEN got["fst_size"][1] ELSE 0
          [] field = "offsets" -> IF c.num_dicts > 0 THEN got["sets"][1] + 1 ELSE 0
          [] field = "dicts" -> IF c.num_dicts > 0 THEN Last(got["offsets"]) ELSE 0

W2Scale(got) == got["scales"][Len(got["scales"]) - 1]
AccScale(got) == Last(got["scales"])

\* check_biases: |x| <= bound, false of what is not finite
AtMost(x, bound) == IsFinite(x) /\ x[1] <= bound * x[2] /\ -x[1] <= bound * x[2]

\* The channels index the columns of W_dict.
ChannelsInRange(dicts, c) == \A i \in DOMAIN dicts : dicts[i] < c.num_dicts

WellFormed(got, field, read) ==
    LET c == Config(got)
    IN  CASE field = "config" -> read[1] >= 1 /\ read[2] \in 1 .. MaxEmbedDim /\ read[3] >= 1
          [] field = "scales" -> \A i \in DOMAIN read : IsFinite(read[i]) /\ read[i][1] > 0
          [] field = "vocab_size" -> read[1] >= 2
          [] field = "vocab" -> \A i \in DOMAIN read : read[i] <= MaxCodepoint /\ (i > 1 => read[i] > read[i - 1])
          [] field = "b2" ->
                /\ \A i \in 1 .. c.hidden : AtMost(Over(got["b1"][i], AccScale(got)), MaxOf(2 * Bits))
                /\ AtMost(Over(read[1], Times(W2Scale(got), AccScale(got))), 2 ^ (4 * Bits - 2))
          [] field = "fst" -> read # <<>> => read[1].intact
          [] field = "offsets" -> read # <<>> => read[1] = 0 /\ \A i \in 2 .. Len(read) : read[i - 1] <= read[i]
          [] field = "dicts" -> ChannelsInRange(read, c)
          [] OTHER -> TRUE

\* A field past the end of the file, or one that is rejected, ends the parse.
ReadField(file, p, field) ==
    LET past == p.at + Length(p.got, field)
        read == SubSeq(file, p.at, past - 1)
    IN  IF past - 1 <= Len(file) /\ WellFormed(p.got, field, read)
        THEN [ok |-> TRUE, at |-> past, got |-> [p.got EXCEPT ![field] = read]]
        ELSE [p EXCEPT !.ok = FALSE]

Ended_Anywhere(file, at) == TRUE
\* eof: nothing follows the last field
Ended(file, at) == at = Len(file) + 1

\* The parse after each of the fields, from behind the header line.
Reads(file) ==
    LET p[k \in 0 .. Len(Fields)] ==
            IF k = 0 THEN [ok |-> TRUE, at |-> 3, got |-> [field \in ToSet(Fields) |-> <<>>]]
            ELSE LET before == p[k - 1]
                 IN  IF before.ok THEN ReadField(file, before, Fields[k]) ELSE before
    IN  p

Parse(file) ==
    LET p == Reads(file)[Len(Fields)]
    IN  [p EXCEPT !.ok = p.ok /\ Ended(file, p.at)]

-----------------------------------------------------------------------------
(* PrecomputeTable *)

SlotCount(net) == 2 * net.window

\* synthesize: the mean of the rows of a cluster, times W1 of slot j, for unit h
Synthesized(net, rows, j, h) ==
    LET sum(k) == FoldLeft(LAMBDA s, row : s + net.embedding[row * net.embed_dim + k], 0, rows)
        raw == MapThenSumSet(
                   LAMBDA k : net.w1[h * 2 * net.window * net.embed_dim + j * net.embed_dim + k] * sum(k),
                   0 .. net.embed_dim - 1)
    IN  Wrapped32(Rounded(Times(<<raw, Len(rows)>>, net.r)))

BlockBase(net, row, j) == (row * SlotCount(net) + j) * net.hidden

\* The table of every row and slot, requantized when it is int16.
Table(net, vocab_size, precision) ==
    [e \in 0 .. vocab_size * SlotCount(net) * net.hidden - 1 |->
        LET h == e % net.hidden
            j == (e \div net.hidden) % SlotCount(net)
            v == Synthesized(net, <<e \div (net.hidden * SlotCount(net))>>, j, h)
        IN  IF precision = "Int16" THEN RequantI16(v) ELSE v]

-----------------------------------------------------------------------------
(* Vocab *)

BmpRow(codepoints, cp) ==
    IF \E i \in DOMAIN codepoints : codepoints[i] = cp THEN (CHOOSE i \in DOMAIN codepoints : codepoints[i] = cp) + 1
    ELSE UnkRow

\* lower_bound
RowOfAstral(codepoints, cp) ==
    LET it == Cardinality({i \in DOMAIN codepoints : codepoints[i] < cp}) + 1
    IN  IF it <= Len(codepoints) /\ codepoints[it] = cp THEN it + 1 ELSE UnkRow

RowOf(codepoints, cp) == IF cp < BmpSize THEN BmpRow(codepoints, cp) ELSE RowOfAstral(codepoints, cp)

-----------------------------------------------------------------------------
(* The structures derived at load, from the fields "got". *)

Network(got) ==
    LET c == Config(got)
    IN  [window |-> c.window, embed_dim |-> c.embed_dim, hidden |-> c.hidden,
         embedding |-> Array(got["embedding"]), w1 |-> Array(got["w1"]),
         r |-> Over(Times(got["scales"][1], got["scales"][2]), AccScale(got))]

\* W_dict transposed to columns, in accumulator scale.
DictCols(got) ==
    LET c == Config(got)
        fd == c.num_dicts * FeaturesPerDict
        dict_r == Over(got["scales"][3], AccScale(got))
    IN  [e \in 0 .. fd * c.hidden - 1 |->
            Wrapped32(Rounded(Times(dict_r, <<got["wdict"][(e % c.hidden) * fd + e \div c.hidden + 1], 1>>)))]

Matcher(got) ==
    IF Config(got).num_dicts = 0 THEN [num_dicts |-> 0, fst |-> <<>>, offsets |-> Array(<<>>), dicts |-> Array(<<>>)]
    ELSE [num_dicts |-> Config(got).num_dicts, fst |-> got["fst"],
          offsets |-> Array(got["offsets"]), dicts |-> Array(got["dicts"])]

RoundedB2(got) == Rounded(Over(got["b2"][1], Times(W2Scale(got), AccScale(got))))

B2_Unshifted(got, precision) == RoundedB2(got)
\* b2 joins the score after the dot product: an Int16 one is in 2 ^ AccShift units, not narrowed.
B2(got, precision) ==
    IF precision = "Int16" THEN (RoundedB2(got) + 2 ^ (AccShift - 1)) \div 2 ^ AccShift ELSE RoundedB2(got)

\* What the scorer reads: in Int16 mode all of it requantized, b2 only shifted.
Derived(got, precision) ==
    LET c == Config(got)
        narrow(v) == IF precision = "Int16" THEN RequantI16(v) ELSE v
        cols == DictCols(got)
    IN  [net |-> Network(got), precision |-> precision,
         mismatch |-> c.unicode_version # UnicodeVersion,
         vocab |-> got["vocab"],
         table |-> Table(Network(got), got["vocab_size"][1], precision),
         w2 |-> Array(got["w2"]),
         b1 |-> [h \in Units(c.hidden) |-> narrow(Wrapped32(Rounded(Over(got["b1"][h + 1], AccScale(got)))))],
         b2 |-> B2(got, precision),
         dict_cols |-> [e \in DOMAIN cols |-> narrow(cols[e])],
         matcher |-> Matcher(got)]

\* load_format with the memory it needs: no newline, no header line to compare.
LoadStatus(file, format) ==
    CASE Len(file) < 2 -> "malformed"
      [] Len(file) >= 2 /\ (file[1] # format \/ file[2] # Version) -> "unsupported"
      [] OTHER -> IF Parse(file).ok THEN "ok" ELSE "malformed"

\* load_format: an allocation may fail, of the table above all, whose size the
\* file's does not bound.  The error has the code of a malformed model and a
\* message of its own, "model too large to load".
LoadStatuses(file, format) == {LoadStatus(file, format), "too large"}
=============================================================================
