----------------------------- MODULE MlpKernels -----------------------------
(***************************************************************************)
(* The integer arithmetic under the network of the MLP and EDLA backends:  *)
(* src/include/segmentlib/mlp/kernels.h, its scalar reference and the NEON *)
(* and AVX2 sweeps that end in a scalar tail, with the narrowing and       *)
(* rounding of precompute.h and scorer.h.                                  *)
(*                                                                         *)
(* An int16 has Bits bits, an int32 twice as many; a vector is a function  *)
(* on 0 .. n - 1.  "cpu" is what the kernels were compiled for.            *)
(***************************************************************************)
EXTENDS Integers, Sequences, SequencesExt, FiniteSetsExt

CONSTANTS
    Bits,            \* of an int16: 16 in the code
    AccShift,        \* kAccShift: 9 in the code
    NeonLanes,       \* int16 lanes of a NEON register: 8
    Avx2Lanes        \* int16 lanes of an AVX2 register: 16

ASSUME KernelsAssumption ==
    /\ Bits \in Nat \ {0} /\ AccShift \in Nat \ {0}
    /\ NeonLanes \in {2 * k : k \in 1 .. 8} /\ Avx2Lanes \in {2 * k : k \in 1 .. 8}

Cpus == {"scalar", "neon", "avx2"}

MaxOf(bits) == 2 ^ (bits - 1) - 1
MinOf(bits) == -(2 ^ (bits - 1))
Clamped(v, bits) == Max({MinOf(bits), Min({v, MaxOf(bits)})})

\* static_cast<std::int32_t>, and unsigned addition cast back
Wrapped32(v) == ((v - MinOf(2 * Bits)) % 2 ^ (2 * Bits)) + MinOf(2 * Bits)

\* saturate: the int64 score as an int32
Saturate(sum) == Clamped(sum, 2 * Bits)

\* requant_i16: a rounding shift in int64, then saturation
RequantI16(v) == Clamped((v + 2 ^ (AccShift - 1)) \div 2 ^ AccShift, Bits)

\* llround(num / den): halves away from zero
LlRound(num, den) ==
    IF num >= 0 THEN (2 * num + den) \div (2 * den) ELSE -((den - 2 * num) \div (2 * den))

Units(n) == 0 .. n - 1

-----------------------------------------------------------------------------
(* kernels::scalar *)

WrappingAdd(a, b) == Wrapped32(a + b)
AddScalar(src, acc, i) == WrappingAdd(acc[i], src[i])
ReluScalar(acc, i) == Max({acc[i], 0})
DotScalar(w2, acc, from, n) == MapThenSumSet(LAMBDA i : w2[i] * acc[i], from .. n - 1)

\* One unit: b1, then block after block with saturation, then the relu.
FusedUnit(b1, blocks, i) ==
    Max({FoldLeft(LAMBDA a, block : Clamped(a + block[i], Bits), b1[i], blocks), 0})

FusedScalar(b1, blocks, w2, begin, end) ==
    MapThenSumSet(LAMBDA i : w2[i] * FusedUnit(b1, blocks, i), begin .. end - 1)

-----------------------------------------------------------------------------
(* The vector sweeps: whole registers, then the scalar tail. *)

\* The units that fill registers of that many lanes are those below it.
Sweep(n, lanes) == lanes * (n \div lanes)

AddNeon(src, acc, n) ==
    [i \in Units(n) |-> IF i < Sweep(n, NeonLanes \div 2) THEN Wrapped32(acc[i] + src[i])
                        ELSE AddScalar(src, acc, i)]
AddAvx2(src, acc, n) ==
    [i \in Units(n) |-> IF i < Sweep(n, Avx2Lanes \div 2) THEN Wrapped32(acc[i] + src[i])
                        ELSE AddScalar(src, acc, i)]

ReluNeon(acc, n) ==
    [i \in Units(n) |-> IF i < Sweep(n, NeonLanes \div 2) THEN Max({acc[i], 0}) ELSE ReluScalar(acc, i)]
ReluAvx2(acc, n) ==
    [i \in Units(n) |-> IF i < Sweep(n, Avx2Lanes \div 2) THEN Max({acc[i], 0}) ELSE ReluScalar(acc, i)]

\* Products widened to int64 lanes.
DotNeon(w2, acc, n) ==
    LET tail == Sweep(n, NeonLanes \div 2)
    IN  DotScalar(w2, acc, 0, tail) + DotScalar(w2, acc, tail, n)
DotAvx2(w2, acc, n) ==
    LET tail == Sweep(n, Avx2Lanes \div 2)
    IN  DotScalar(w2, acc, 0, tail) + DotScalar(w2, acc, tail, n)

\* Saturating lanes, products of int16 in int32, pairs of them in int64.
FusedNeon(b1, blocks, w2, n) ==
    LET tail == Sweep(n, NeonLanes)
    IN  MapThenSumSet(LAMBDA i : Wrapped32(w2[i] * FusedUnit(b1, blocks, i)), 0 .. tail - 1)
            + FusedScalar(b1, blocks, w2, tail, n)

\* _mm256_madd_epi16: the products of a pair of lanes summed in int32
Madd(b1, blocks, w2, i) ==
    Wrapped32(w2[i] * FusedUnit(b1, blocks, i) + w2[i + 1] * FusedUnit(b1, blocks, i + 1))

FusedAvx2(b1, blocks, w2, n) ==
    LET tail == Sweep(n, Avx2Lanes)
    IN  MapThenSumSet(LAMBDA k : Madd(b1, blocks, w2, 2 * k), 0 .. tail \div 2 - 1)
            + FusedScalar(b1, blocks, w2, tail, n)

-----------------------------------------------------------------------------
(* The compile-time dispatch. *)

AddI32(cpu, src, acc, n) ==
    CASE cpu = "neon" -> AddNeon(src, acc, n)
      [] cpu = "avx2" -> AddAvx2(src, acc, n)
      [] OTHER -> [i \in Units(n) |-> AddScalar(src, acc, i)]

ReluI32(cpu, acc, n) ==
    CASE cpu = "neon" -> ReluNeon(acc, n)
      [] cpu = "avx2" -> ReluAvx2(acc, n)
      [] OTHER -> [i \in Units(n) |-> ReluScalar(acc, i)]

DotI32(cpu, w2, acc, n) ==
    CASE cpu = "neon" -> DotNeon(w2, acc, n)
      [] cpu = "avx2" -> DotAvx2(w2, acc, n)
      [] OTHER -> DotScalar(w2, acc, 0, n)

FusedScoreI16(cpu, b1, blocks, w2, n) ==
    CASE cpu = "neon" -> FusedNeon(b1, blocks, w2, n)
      [] cpu = "avx2" -> FusedAvx2(b1, blocks, w2, n)
      [] OTHER -> FusedScalar(b1, blocks, w2, 0, n)
=============================================================================
