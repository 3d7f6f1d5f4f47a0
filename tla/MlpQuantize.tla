---------------------------- MODULE MlpQuantize ----------------------------
(***************************************************************************)
(* src/src/mlp/train/quantize.cpp: the trained parameters as integers and  *)
(* scales, and the decision the trainer checks them by, straight from the  *)
(* tensors.  Floats are exact: parameters are whole numbers, scales are    *)
(* fractions.  The first-layer activations of the calibration set are an   *)
(* input, as forward computes them.                                        *)
(***************************************************************************)
EXTENDS MlpModel

CONSTANTS
    Amax,            \* kAmax: 2^22 in the code
    Percentile       \* of the activations, as <<num, den>>: 0.9999

Qmax == MaxOf(Bits)

\* A zero tensor has scale 1.
MaxAbsScale(tensor) ==
    LET maxAbs == Max({0} \cup {tensor[i] : i \in DOMAIN tensor} \cup {-tensor[i] : i \in DOMAIN tensor})
    IN  IF maxAbs > 0 THEN <<maxAbs, Qmax>> ELSE <<1, 1>>

QuantizeTensor(tensor, scale) ==
    [i \in DOMAIN tensor |-> Max({-Qmax, Min({LlRound(tensor[i] * scale[2], scale[1]), Qmax})})]

\* nth_element at floor(p * (n - 1)) of the absolute activations; 1 of none or of zeros.
Calibrated(activations) ==
    LET n == Len(activations)
        idx == (Percentile[1] * (n - 1)) \div Percentile[2]
        pct == SortSeq(activations, <)[idx + 1]
    IN  <<IF n > 0 /\ pct > 0 THEN pct ELSE 1, Amax>>

Scaled(p, emb, w1, wdict, w2, unit) ==
    [window |-> p.window, embed_dim |-> p.embed_dim, hidden |-> p.hidden,
     vocab |-> p.vocab, dictionaries |-> p.dictionaries,
     emb_scale |-> emb, w1_scale |-> w1, wdict_scale |-> wdict, w2_scale |-> w2, acc_scale |-> unit,
     embedding |-> QuantizeTensor(p.embedding, emb), w1 |-> QuantizeTensor(p.w1, w1),
     wdict |-> QuantizeTensor(p.wdict, wdict), w2 |-> QuantizeTensor(p.w2, w2),
     b1 |-> p.b1, b2 |-> p.b2]

Quantize(params, activations) ==
    Scaled(params, MaxAbsScale(params.embedding), MaxAbsScale(params.w1), MaxAbsScale(params.wdict),
           MaxAbsScale(params.w2), Calibrated(activations))

-----------------------------------------------------------------------------
(* Int16Reference: q's tensors are sequences, rows and k count from 0. *)

ReferenceR(q) == Over(Times(q.emb_scale, q.w1_scale), q.acc_scale)
ReferenceB1(q, h) == Rounded(Over(q.b1[h + 1], q.acc_scale))
ReferenceB2(q) == Rounded(Over(q.b2, Times(q.w2_scale, q.acc_scale)))

\* Rows of the cluster at window slot j of a boundary, PAD past the text.
ReferenceRows(q, clusters, boundary, j) ==
    LET egc == boundary - q.window + 1 + j
    IN  IF egc \in 0 .. Len(clusters) - 1 THEN clusters[egc + 1] ELSE <<PadRow>>

ReferenceSlot(q, rows, j, h) ==
    LET d == q.embed_dim
        raw == MapThenSumSet(
                   LAMBDA k : q.w1[h * 2 * q.window * d + j * d + k + 1]
                                  * FoldLeft(LAMBDA s, row : s + q.embedding[row * d + k + 1], 0, rows),
                   0 .. d - 1)
    IN  Rounded(Times(<<raw, Len(rows)>>, ReferenceR(q)))

ReferenceColumn(q, k, h) ==
    LET fd == Len(q.dictionaries) * FeaturesPerDict
    IN  Rounded(Times(Over(q.wdict_scale, q.acc_scale), <<q.wdict[h * fd + k + 1], 1>>))

\* The accumulator of unit h before the relu.
ReferenceAcc(q, clusters, boundary, features, h) ==
    ReferenceB1(q, h)
        + MapThenSumSet(LAMBDA j : ReferenceSlot(q, ReferenceRows(q, clusters, boundary, j), j, h),
                        0 .. 2 * q.window - 1)
        + MapThenSumSet(LAMBDA k : ReferenceColumn(q, k, h), features)

ReferenceScore(q, clusters, boundary, features) ==
    ReferenceB2(q)
        + MapThenSumSet(LAMBDA h : q.w2[h + 1] * Max({ReferenceAcc(q, clusters, boundary, features, h), 0}),
                        0 .. q.hidden - 1)

\* "acc[h] +=" is defined as long as no int32 overflows.
ReferenceDefined(q, clusters, boundary, features) ==
    \A h \in 0 .. q.hidden - 1 :
        LET acc == ReferenceAcc(q, clusters, boundary, features, h)
        IN  acc \in MinOf(2 * Bits) .. MaxOf(2 * Bits)
=============================================================================
