------------------------- MODULE PredictStreamProofs -------------------------
(***************************************************************************)
(* PredictStream for every stream, every block size and every way the      *)
(* input and the device may fail: what the run checks of the output, of    *)
(* the reported line and of status 0.  It rests on one inductive           *)
(* invariant, IInv, which relates the lines taken, the block in hand, the  *)
(* lines handed to stdio and those on the device.                          *)
(***************************************************************************)
EXTENDS PredictCommand, SequenceTheorems, TLAPS

\* The lines run_predict has dealt with.
Handed == line_no + item - 1

\* What is on the device and what follows it in the buffer are the lines from 1 on.
Consecutive(d, b) ==
    /\ d \in Seq(Nat) /\ b \in Seq(Nat)
    /\ \A j \in 1 .. Len(d) : d[j] = j
    /\ \A j \in 1 .. Len(b) : b[j] = Len(d) + j

\* The first "length" lines exist and are valid.
ValidUpTo(length) == length <= total /\ \A l \in 1 .. length : l \notin invalid

\* The types the argument needs.
Types ==
    /\ total \in Nat /\ invalid \in SUBSET (1 .. total)
    /\ stream \in {"good", "eof", "bad"}
    /\ taken \in Nat /\ taken <= total
    /\ phase \in {"read", "write", "finish", "exit", "exited"}
    /\ lines \in Seq(Nat) /\ Len(lines) <= Block
    /\ item \in Nat /\ 1 <= item /\ item <= Len(lines) + 1
    /\ line_no \in Nat /\ lost \in BOOLEAN
    /\ reported \in Nat /\ exit \in {-1, 0, 1, Aborted}

\* The block in hand is what getline took since the last one; a run that
\* leaves the read loop with an empty block has reached the end or an error.
BlockInv ==
    /\ taken = line_no + Len(lines)
    /\ \A k \in 1 .. Len(lines) : lines[k] = line_no + k
    /\ phase \in {"read", "finish"} => item = 1
    /\ phase = "finish" => lines = <<>> /\ stream # "good"
    /\ stream = "eof" => taken = total
    /\ phase \in {"read", "write", "finish"} => exit = -1

\* Everything dealt with is valid, and is in the buffer or on the device
\* unless the device failed, which ends the run.
OutputInv ==
    /\ Consecutive(delivered, buffered)
    /\ ValidUpTo(Len(delivered) + Len(buffered))
    /\ ValidUpTo(Handed)
    /\ ~lost => Len(delivered) + Len(buffered) = Handed
    /\ lost => phase \in {"exit", "exited"}

\* What the run has told: the line it stopped at, or that all is well.
VerdictInv ==
    /\ reported # 0 =>
          /\ phase \in {"exit", "exited"}
          /\ reported = Handed + 1 /\ reported \in invalid
          /\ ~lost => buffered = <<>>
    /\ exit = 0 =>
          /\ phase \in {"exit", "exited"}
          /\ stream = "eof" /\ taken = Handed /\ ~lost /\ buffered = <<>>

IInv == Types /\ BlockInv /\ OutputInv /\ VerdictInv

-----------------------------------------------------------------------------
(* What a flush does to the buffer and the device. *)

LEMMA FlushOkOrder ==
    ASSUME Consecutive(delivered, buffered), FlushOk
    PROVE  /\ Consecutive(delivered', buffered')
           /\ Len(delivered') = Len(delivered) + Len(buffered)
           /\ buffered' = <<>> /\ lost' = lost
BY DEF Consecutive, FlushOk

LEMMA FlushFailsOrder ==
    ASSUME NEW STATE pending, Consecutive(delivered, pending), FlushFails(pending)
    PROVE  /\ Consecutive(delivered', buffered')
           /\ Len(delivered') + Len(buffered') <= Len(delivered) + Len(pending)
           /\ lost' = TRUE /\ pending # <<>>
<1>1. PICK k \in 0 .. Len(pending) - 1 :
          /\ delivered' = delivered \o SubSeq(pending, 1, k)
          /\ buffered' \in {<<>>, SubSeq(pending, k + 1, Len(pending))}
    BY DEF FlushFails
<1> DEFINE d == Len(delivered)
           head == SubSeq(pending, 1, k)
           rest == SubSeq(pending, k + 1, Len(pending))
<1>2. /\ pending \in Seq(Nat) /\ delivered \in Seq(Nat)
      /\ Len(pending) \in Nat /\ d \in Nat /\ k \in Nat /\ k < Len(pending)
      /\ \A j \in 1 .. d : delivered[j] = j
      /\ \A j \in 1 .. Len(pending) : pending[j] = d + j
    BY <1>1 DEF Consecutive
<1>3. head \in Seq(Nat) /\ Len(head) = k /\ \A j \in 1 .. k : head[j] = d + j
    BY <1>2
<1>4. /\ rest \in Seq(Nat) /\ Len(rest) = Len(pending) - k
      /\ \A j \in 1 .. Len(rest) : rest[j] = (d + k) + j
    <2>1. rest \in Seq(Nat) /\ Len(rest) = Len(pending) - k
        BY <1>2
    <2>2. ASSUME NEW j \in 1 .. Len(rest) PROVE rest[j] = (d + k) + j
        <3>1. rest[j] = pending[k + j]
            BY <1>2, <2>1
        <3>2. k + j \in 1 .. Len(pending)
            BY <1>2, <2>1
        <3> QED
            BY <1>2, <3>1, <3>2
    <2> QED
        BY <2>1, <2>2
<1>5. lost' = TRUE /\ delivered' = delivered \o head /\ (buffered' = <<>> \/ buffered' = rest)
    BY <1>1 DEF FlushFails
<1> HIDE DEF head, rest
<1>6. /\ delivered' \in Seq(Nat) /\ Len(delivered') = d + k
      /\ \A j \in 1 .. d + k : delivered'[j] = j
    <2>1. delivered' \in Seq(Nat) /\ Len(delivered') = d + k
        BY <1>2, <1>3, <1>5, ConcatProperties
    <2>2. ASSUME NEW j \in 1 .. d + k PROVE delivered'[j] = j
        <3>1. CASE j <= d
            BY <1>2, <1>3, <1>5, <3>1, ConcatProperties
        <3>2. CASE j > d
            <4>1. delivered'[j] = head[j - d]
                BY <1>2, <1>3, <1>5, <3>2, ConcatProperties
            <4>2. j - d \in 1 .. k
                BY <1>2, <3>2
            <4> QED
                BY <1>2, <1>3, <4>1, <4>2
        <3> QED
            BY <1>2, <3>1, <3>2
    <2> QED
        BY <2>1, <2>2
<1>7. buffered' \in Seq(Nat) /\ Len(buffered') <= Len(pending) - k
      /\ \A j \in 1 .. Len(buffered') : buffered'[j] = (d + k) + j
    <2>1. CASE buffered' = <<>>
        BY <1>2, <2>1, EmptySeq
    <2>2. CASE buffered' = rest
        BY <1>2, <1>4, <2>2
    <2> QED
        BY <1>5, <2>1, <2>2
<1>8. pending # <<>>
    BY <1>2
<1>9. Len(buffered') \in Nat
    BY <1>7
<1> QED
    <2>1. Consecutive(delivered', buffered')
        BY <1>6, <1>7 DEF Consecutive
    <2>2. Len(delivered') + Len(buffered') <= d + Len(pending)
        BY <1>2, <1>6, <1>7, <1>9
    <2> QED
        BY <1>5, <1>8, <2>1, <2>2

LEMMA AppendOrder ==
    ASSUME Consecutive(delivered, buffered)
    PROVE  LET pending == Append(buffered, Len(delivered) + Len(buffered) + 1)
           IN  Consecutive(delivered, pending) /\ Len(pending) = Len(buffered) + 1
<1> DEFINE pending == Append(buffered, Len(delivered) + Len(buffered) + 1)
<1>1. /\ Len(buffered) \in Nat /\ Len(delivered) \in Nat /\ buffered \in Seq(Nat)
      /\ \A j \in 1 .. Len(buffered) : buffered[j] = Len(delivered) + j
    BY DEF Consecutive
<1>2. pending \in Seq(Nat) /\ Len(pending) = Len(buffered) + 1
    BY <1>1
<1>3. ASSUME NEW j \in 1 .. Len(pending) PROVE pending[j] = Len(delivered) + j
    <2>1. CASE j <= Len(buffered)
        BY <1>1, <1>2, <2>1
    <2>2. CASE j = Len(buffered) + 1
        BY <1>1, <1>2, <2>2
    <2> QED
        BY <1>1, <1>2, <2>1, <2>2
<1> QED
    BY <1>2, <1>3 DEF Consecutive

LEMMA ShorterIsValid ==
    ASSUME NEW STATE n, n \in Nat, ValidUpTo(n), total \in Nat, UNCHANGED input,
           Len(delivered') \in Nat, Len(buffered') \in Nat, Len(delivered') + Len(buffered') <= n
    PROVE  ValidUpTo(Len(delivered) + Len(buffered))'
<1>1. ASSUME NEW l \in 1 .. Len(delivered') + Len(buffered') PROVE l \in 1 .. n
    OBVIOUS
<1> QED
    BY <1>1 DEF ValidUpTo, input

-----------------------------------------------------------------------------
(* The invariant holds at the start and every action preserves it. *)

LEMMA InitIInv == Init => IInv
<1> SUFFICES ASSUME Init PROVE IInv
    OBVIOUS
<1> USE PredictAssumption
<1>1. Types
    <2>1. lines \in Seq(Nat) /\ Len(lines) = 0
        BY EmptySeq DEF Init
    <2>2. total \in Nat /\ invalid \in SUBSET (1 .. total) /\ taken \in Nat /\ taken <= total
        BY DEF Init
    <2>3. lost \in BOOLEAN /\ exit \in {-1, 0, 1, Aborted}
        BY DEF Init
    <2>4. item \in Nat /\ 1 <= item /\ item <= Len(lines) + 1
        BY <2>1 DEF Init
    <2> QED
        BY <2>1, <2>2, <2>3, <2>4 DEF Init, Types
<1>2. BlockInv
    BY DEF Init, BlockInv
<1>3. Consecutive(delivered, buffered)
    BY EmptySeq DEF Init, Consecutive
<1>4. OutputInv
    BY <1>3 DEF Init, OutputInv, ValidUpTo, Handed
<1>5. VerdictInv
    BY DEF Init, VerdictInv
<1> QED
    BY <1>1, <1>2, <1>4, <1>5 DEF IInv

LEMMA ReadLineIInv == IInv /\ ReadLine => IInv'
<1> SUFFICES ASSUME IInv, ReadLine PROVE IInv'
    OBVIOUS
<1> USE DEF IInv, ReadLine, input, output
<1>1. /\ lines' \in Seq(Nat) /\ Len(lines') = Len(lines) + 1 /\ Len(lines) \in Nat
      /\ \A k \in 1 .. Len(lines) : lines'[k] = lines[k]
      /\ lines'[Len(lines) + 1] = taken + 1
    BY DEF Types
<1>2. Types'
    BY <1>1, PredictAssumption DEF Types
<1>3. BlockInv'
    <2>1. ASSUME NEW k \in 1 .. Len(lines') PROVE lines'[k] = line_no' + k
        <3>1. CASE k <= Len(lines)
            BY <1>1, <3>1 DEF BlockInv, Types
        <3>2. CASE k = Len(lines) + 1
            BY <1>1, <3>2 DEF BlockInv, Types
        <3> QED
            BY <1>1, <3>1, <3>2
    <2> QED
        BY <1>1, <2>1 DEF BlockInv, Types
<1>4. OutputInv' /\ VerdictInv'
    BY DEF OutputInv, VerdictInv, Consecutive, ValidUpTo, Handed
<1> QED
    BY <1>2, <1>3, <1>4

LEMMA BlockReadIInv == IInv /\ (ReadFails \/ BlockFull) => IInv'
<1> SUFFICES ASSUME IInv, ReadFails \/ BlockFull PROVE IInv'
    OBVIOUS
<1> USE DEF IInv, ReadFails, BlockFull, EndOfBlock, input, output
<1>1. Types'
    BY DEF Types
<1>2. BlockInv'
    <2>1. CASE BlockFull
        <3>1. lines # <<>>
            BY <2>1, PredictAssumption
        <3> QED
            BY <2>1, <3>1 DEF BlockInv
    <2>2. CASE ReadFails
        BY <2>2 DEF BlockInv, Types
    <2> QED
        BY <2>1, <2>2
<1>3. ~lost /\ UNCHANGED <<output, input>> /\ Handed' = Handed
    BY DEF OutputInv, Handed
<1>4. OutputInv'
    BY <1>3 DEF OutputInv, Consecutive, ValidUpTo
<1>5. VerdictInv'
    BY DEF VerdictInv, BlockInv
<1> QED
    BY <1>1, <1>2, <1>4, <1>5

LEMMA TokenizeThrowsIInv == IInv /\ TokenizeThrows => IInv'
BY DEF IInv, TokenizeThrows, Types, BlockInv, OutputInv, VerdictInv, Consecutive, ValidUpTo, Handed,
       Aborted, input, output

\* The line in hand is the one after those dealt with, and it exists.
LEMMA LineInHand ==
    ASSUME IInv, InBlock
    PROVE  /\ lines[item] = Handed + 1 /\ Handed + 1 <= total /\ Handed \in Nat
           /\ ~lost /\ Len(delivered) + Len(buffered) = Handed
           /\ Len(delivered) \in Nat /\ Len(buffered) \in Nat
BY DEF IInv, InBlock, Types, BlockInv, OutputInv, Handed, Consecutive

LEMMA WriteLineIInv == IInv /\ WriteLine => IInv'
<1> SUFFICES ASSUME IInv, WriteLine PROVE IInv'
    OBVIOUS
<1> DEFINE pending == Append(buffered, lines[item])
<1>1. /\ lines[item] = Handed + 1 /\ Handed + 1 <= total /\ Handed \in Nat
      /\ ~lost /\ Len(delivered) + Len(buffered) = Handed
      /\ Len(delivered) \in Nat /\ Len(buffered) \in Nat
    BY LineInHand DEF WriteLine, InValidLine
<1>2. Consecutive(delivered, buffered) /\ ValidUpTo(Handed)
    BY DEF IInv, OutputInv
<1>3. Consecutive(delivered, pending) /\ Len(pending) = Len(buffered) + 1
    BY <1>1, <1>2, AppendOrder
<1>4. Handed' = Handed + 1
    BY DEF WriteLine, Handed, IInv, Types
<1>5. /\ Consecutive(delivered', buffered')
      /\ Len(delivered') + Len(buffered') = Handed'
      /\ lost' = lost
    <2>1. CASE buffered' = pending /\ UNCHANGED <<delivered, lost>>
        BY <1>1, <1>3, <1>4, <2>1
    <2>2. CASE delivered' = delivered \o pending /\ buffered' = <<>> /\ UNCHANGED lost
        <3>1. /\ delivered \in Seq(Nat) /\ pending \in Seq(Nat)
              /\ \A j \in 1 .. Len(delivered) : delivered[j] = j
              /\ \A j \in 1 .. Len(pending) : pending[j] = Len(delivered) + j
            BY <1>3 DEF Consecutive
        <3> HIDE DEF pending
        <3>2. delivered' \in Seq(Nat) /\ Len(delivered') = Len(delivered) + Len(pending) /\ Len(pending) \in Nat
            BY <1>1, <1>3, <2>2, <3>1, ConcatProperties
        <3>3. ASSUME NEW j \in 1 .. Len(delivered') PROVE delivered'[j] = j
            <4>1. CASE j <= Len(delivered)
                BY <1>1, <2>2, <3>1, <3>2, <4>1, ConcatProperties
            <4>2. CASE j > Len(delivered)
                <5>1. delivered'[j] = pending[j - Len(delivered)] /\ j - Len(delivered) \in 1 .. Len(pending)
                    BY <1>1, <2>2, <3>1, <3>2, <4>2, ConcatProperties
                <5> QED
                    BY <1>1, <3>1, <5>1
            <4> QED
                BY <1>1, <3>2, <4>1, <4>2
        <3> QED
            BY <1>1, <1>3, <1>4, <2>2, <3>2, <3>3, EmptySeq DEF Consecutive
    <2> QED
        BY <2>1, <2>2 DEF WriteLine
<1>6. ValidUpTo(Handed + 1)
    BY <1>1, <1>2 DEF ValidUpTo, WriteLine, InValidLine
<1>7. Types' /\ BlockInv'
    BY DEF IInv, WriteLine, InValidLine, InBlock, Types, BlockInv, input
<1>8. OutputInv'
    <2>1. ValidUpTo(Handed)'
        BY <1>4, <1>6 DEF ValidUpTo, WriteLine, input
    <2>2. ValidUpTo(Len(delivered) + Len(buffered))'
        BY <1>5, <2>1
    <2> QED
        BY <1>1, <1>5, <2>1, <2>2 DEF OutputInv
<1>9. VerdictInv'
    BY DEF IInv, WriteLine, InValidLine, InBlock, VerdictInv
<1> QED
    BY <1>7, <1>8, <1>9 DEF IInv

LEMMA WriteFailsIInv == IInv /\ WriteFails => IInv'
<1> SUFFICES ASSUME IInv, WriteFails PROVE IInv'
    OBVIOUS
<1> DEFINE pending == Append(buffered, lines[item])
<1>1. /\ lines[item] = Handed + 1 /\ Handed + 1 <= total /\ Handed \in Nat
      /\ ~lost /\ Len(delivered) + Len(buffered) = Handed
      /\ Len(delivered) \in Nat /\ Len(buffered) \in Nat
    BY LineInHand DEF WriteFails, InValidLine
<1>2. Consecutive(delivered, buffered) /\ ValidUpTo(Handed)
    BY DEF IInv, OutputInv
<1>3. Consecutive(delivered, pending) /\ Len(pending) = Len(buffered) + 1
    BY <1>1, <1>2, AppendOrder
<1>4. /\ Consecutive(delivered', buffered')
      /\ Len(delivered') + Len(buffered') <= Handed + 1
      /\ lost' = TRUE
    <2>1. FlushFails(pending)
        BY DEF WriteFails
    <2> HIDE DEF pending
    <2>2. /\ Consecutive(delivered', buffered')
          /\ Len(delivered') + Len(buffered') <= Len(delivered) + Len(pending)
          /\ lost' = TRUE
        BY <1>3, <2>1, FlushFailsOrder
    <2> QED
        BY <1>1, <1>3, <2>2
<1>5. ValidUpTo(Handed + 1)
    BY <1>1, <1>2 DEF ValidUpTo, WriteFails, InValidLine
<1>6. Types' /\ BlockInv' /\ Handed' = Handed
    BY <1>4 DEF IInv, WriteFails, InValidLine, InBlock, Stop, Types, BlockInv, Handed, input
<1>7. OutputInv'
    <2>1. ValidUpTo(Handed)'
        BY <1>2, <1>6 DEF ValidUpTo, WriteFails, input
    <2>2. Len(delivered') \in Nat /\ Len(buffered') \in Nat
        BY <1>4 DEF Consecutive
    <2>3. ValidUpTo(Len(delivered) + Len(buffered))'
        BY <1>1, <1>4, <1>5, <2>2, ShorterIsValid DEF WriteFails, IInv, Types
    <2> QED
        BY <1>4, <2>1, <2>3 DEF OutputInv, WriteFails, Stop
<1>8. VerdictInv'
    BY DEF IInv, WriteFails, InValidLine, InBlock, Stop, VerdictInv
<1> QED
    BY <1>6, <1>7, <1>8 DEF IInv

LEMMA InvalidLineIInv == IInv /\ InvalidLine => IInv'
<1> SUFFICES ASSUME IInv, InvalidLine PROVE IInv'
    OBVIOUS
<1>1. /\ lines[item] = Handed + 1 /\ Handed + 1 <= total /\ Handed \in Nat
      /\ ~lost /\ Len(delivered) + Len(buffered) = Handed
      /\ Len(delivered) \in Nat /\ Len(buffered) \in Nat
    BY LineInHand DEF InvalidLine
<1>2. Consecutive(delivered, buffered) /\ ValidUpTo(Handed)
    BY DEF IInv, OutputInv
<1>3. /\ Consecutive(delivered', buffered')
      /\ Len(delivered') + Len(buffered') <= Handed
      /\ lost' \in BOOLEAN
      /\ ~lost' => Len(delivered') + Len(buffered') = Handed /\ buffered' = <<>>
    <2>1. CASE FlushOk
        BY <1>1, <1>2, <2>1, FlushOkOrder, EmptySeq DEF IInv, Types
    <2>2. CASE FlushFails(buffered)
        BY <1>1, <1>2, <2>2, FlushFailsOrder
    <2> QED
        BY <2>1, <2>2 DEF InvalidLine
<1>4. Types' /\ BlockInv' /\ Handed' = Handed
    BY <1>1, <1>3 DEF IInv, InvalidLine, InBlock, Stop, Types, BlockInv, Handed, ReportedLine, input
<1>5. OutputInv'
    <2>1. ValidUpTo(Handed)'
        BY <1>2, <1>4 DEF ValidUpTo, InvalidLine, input
    <2>2. Len(delivered') \in Nat /\ Len(buffered') \in Nat
        BY <1>3 DEF Consecutive
    <2>3. ValidUpTo(Len(delivered) + Len(buffered))'
        BY <1>1, <1>2, <1>3, <2>2, ShorterIsValid DEF InvalidLine, IInv, Types
    <2> QED
        BY <1>3, <1>4, <2>1, <2>3 DEF OutputInv, InvalidLine, Stop
<1>6. VerdictInv'
    <2>1. reported' = Handed' + 1 /\ reported' \in invalid'
        BY <1>1, <1>4 DEF InvalidLine, ReportedLine, Handed, IInv, Types, input
    <2>2. phase' = "exit" /\ exit' = 1
        BY DEF InvalidLine, Stop
    <2> QED
        BY <1>3, <2>1, <2>2 DEF VerdictInv
<1> QED
    BY <1>4, <1>5, <1>6 DEF IInv

LEMMA BlockWrittenIInv == IInv /\ BlockWritten => IInv'
<1> SUFFICES ASSUME IInv, BlockWritten PROVE IInv'
    OBVIOUS
<1>1. lines' \in Seq(Nat) /\ Len(lines') = 0 /\ Len(lines) \in Nat
    BY EmptySeq DEF BlockWritten, IInv, Types
<1>2. Handed' = Handed
    BY <1>1 DEF IInv, BlockWritten, Types, Handed
<1>3. Types'
    <2>1. line_no' \in Nat
        BY <1>1 DEF IInv, BlockWritten, Types
    <2> QED
        BY <1>1, <2>1, PredictAssumption DEF IInv, BlockWritten, Types, input, output
<1>4. BlockInv'
    BY <1>1 DEF IInv, BlockWritten, Types, BlockInv, input
<1>5. OutputInv' /\ VerdictInv'
    BY <1>2 DEF IInv, BlockWritten, OutputInv, VerdictInv, Consecutive, ValidUpTo, input, output
<1> QED
    BY <1>3, <1>4, <1>5 DEF IInv

LEMMA FinishIInv == IInv /\ Finish => IInv'
<1> SUFFICES ASSUME IInv, Finish PROVE IInv'
    OBVIOUS
<1>1. /\ Handed \in Nat /\ Handed = taken /\ ~lost
      /\ Consecutive(delivered, buffered) /\ ValidUpTo(Handed)
      /\ Len(delivered) + Len(buffered) = Handed
      /\ Len(delivered) \in Nat /\ Len(buffered) \in Nat
    BY DEF IInv, Finish, Types, BlockInv, OutputInv, Handed, Consecutive
<1>2. /\ Consecutive(delivered', buffered')
      /\ Len(delivered') + Len(buffered') <= Handed
      /\ lost' \in BOOLEAN
      /\ ~lost' => Len(delivered') + Len(buffered') = Handed
      /\ exit' = 0 => stream # "bad" /\ ~lost' /\ buffered' = <<>>
      /\ phase' = "exit" /\ exit' \in {0, 1}
    <2>1. CASE stream = "bad" /\ Stop(1) /\ UNCHANGED output
        BY <1>1, <2>1 DEF Stop, output, IInv, Types
    <2>2. CASE stream # "bad" /\ FlushOk /\ Stop(0)
        BY <1>1, <2>2, FlushOkOrder, EmptySeq DEF Stop, IInv, Types
    <2>3. CASE stream # "bad" /\ FlushFails(buffered) /\ Stop(1)
        <3>1. /\ Consecutive(delivered', buffered')
              /\ Len(delivered') + Len(buffered') <= Len(delivered) + Len(buffered)
              /\ lost' = TRUE
            BY <1>1, <2>3, FlushFailsOrder
        <3> QED
            BY <1>1, <2>3, <3>1 DEF Stop
    <2> QED
        BY <2>1, <2>2, <2>3 DEF Finish
<1>3. Types' /\ BlockInv' /\ Handed' = Handed
    BY <1>2 DEF IInv, Finish, Types, BlockInv, Handed, input
<1>4. OutputInv'
    <2>1. ValidUpTo(Handed)'
        BY <1>1, <1>3 DEF ValidUpTo, Finish, input
    <2>2. Len(delivered') \in Nat /\ Len(buffered') \in Nat
        BY <1>2 DEF Consecutive
    <2>3. ValidUpTo(Len(delivered) + Len(buffered))'
        BY <1>1, <1>2, <2>2, ShorterIsValid DEF Finish, IInv, Types
    <2> QED
        BY <1>2, <1>3, <2>1, <2>3 DEF OutputInv
<1>5. VerdictInv'
    BY <1>1, <1>2, <1>3 DEF IInv, Finish, VerdictInv, BlockInv, Types, input
<1> QED
    BY <1>3, <1>4, <1>5 DEF IInv

LEMMA ExitFlushIInv == IInv /\ ExitFlush => IInv'
<1> SUFFICES ASSUME IInv, ExitFlush PROVE IInv'
    OBVIOUS
<1> DEFINE length == Len(delivered) + Len(buffered)
<1>1. /\ Consecutive(delivered, buffered) /\ ValidUpTo(length) /\ ValidUpTo(Handed)
      /\ Len(delivered) \in Nat /\ Len(buffered) \in Nat
    BY DEF IInv, OutputInv, Consecutive
<1>2. /\ Consecutive(delivered', buffered')
      /\ Len(delivered') + Len(buffered') <= length
      /\ lost' \in BOOLEAN
      /\ ~lost' => ~lost /\ Len(delivered') + Len(buffered') = length /\ buffered' = <<>>
      /\ buffered = <<>> => lost' = lost
    <2>1. CASE FlushOk
        BY <1>1, <2>1, FlushOkOrder, EmptySeq DEF IInv, Types
    <2>2. CASE FlushFails(buffered)
        BY <1>1, <2>2, FlushFailsOrder
    <2> QED
        BY <2>1, <2>2 DEF ExitFlush
<1>3. Types' /\ BlockInv' /\ Handed' = Handed
    BY <1>2 DEF IInv, ExitFlush, Types, BlockInv, Handed, input
<1>4. OutputInv'
    <2>1. ValidUpTo(Handed)'
        BY <1>1, <1>3 DEF ValidUpTo, ExitFlush, input
    <2>2. Len(delivered') \in Nat /\ Len(buffered') \in Nat
        BY <1>2 DEF Consecutive
    <2>3. ValidUpTo(Len(delivered) + Len(buffered))'
        BY <1>1, <1>2, <2>2, ShorterIsValid DEF ExitFlush, IInv, Types
    <2> QED
        BY <1>2, <1>3, <2>1, <2>3 DEF OutputInv, ExitFlush, IInv
<1>5. VerdictInv'
    BY <1>2, <1>3 DEF IInv, ExitFlush, VerdictInv, Types, input
<1> QED
    BY <1>3, <1>4, <1>5 DEF IInv

LEMMA StepIInv == IInv /\ [Next]_vars => IInv'
<1> SUFFICES ASSUME IInv, [Next]_vars PROVE IInv'
    OBVIOUS
<1>1. CASE UNCHANGED vars
    BY <1>1 DEF vars, input, output, IInv, Types, BlockInv, OutputInv, VerdictInv, Consecutive, ValidUpTo, Handed
<1>2. CASE Next
    BY <1>2, ReadLineIInv, BlockReadIInv, TokenizeThrowsIInv, WriteLineIInv, WriteFailsIInv, InvalidLineIInv,
       BlockWrittenIInv, FinishIInv, ExitFlushIInv DEF Next
<1> QED
    BY <1>1, <1>2

(* The inductive invariant holds in every reachable state, of every stream. *)
THEOREM Invariance == Spec => []IInv
BY InitIInv, StepIInv, PTL DEF Spec

-----------------------------------------------------------------------------
(* Whatever the device did, it has the first lines of the stream, in order and none at or after an invalid one. *)
THEOREM OutputIsInOrder == Spec => []OutputInOrder
<1>1. IInv => OutputInOrder
    BY DEF IInv, OutputInv, Types, Consecutive, ValidUpTo, OutputInOrder, Segmentable
<1> QED
    BY <1>1, Invariance, PTL

(* The line number reported is that of the stream's first invalid line. *)
THEOREM ReportIsFirstInvalid == Spec => []ReportsTheFirstInvalid
<1>1. IInv => ReportsTheFirstInvalid
    BY DEF IInv, OutputInv, VerdictInv, Types, Consecutive, ValidUpTo, Handed, ReportsTheFirstInvalid
<1> QED
    BY <1>1, Invariance, PTL

(* Status 0 means that the whole stream was read, segmented and delivered. *)
THEOREM SuccessIsComplete == Spec => []SuccessMeansComplete
<1>1. IInv => SuccessMeansComplete
    BY DEF IInv, BlockInv, OutputInv, VerdictInv, Types, Consecutive, ValidUpTo, Handed, SuccessMeansComplete
<1> QED
    BY <1>1, Invariance, PTL

-----------------------------------------------------------------------------
LEMMA InRangeSeq ==
    ASSUME NEW s, s \in Seq(Nat), NEW first \in Nat, NEW last \in Nat,
           \A k \in 1 .. Len(s) : s[k] = first + k, first + Len(s) <= last
    PROVE  s \in Seq(1 .. last)
<1>1. Len(s) \in Nat /\ s = [k \in 1 .. Len(s) |-> s[k]]
    BY SeqEqual, LenProperties
<1>2. \A k \in 1 .. Len(s) : s[k] \in 1 .. last
    BY <1>1
<1> QED
    BY <1>1, <1>2, IsASeq

(* The types of every variable: no block outgrows its size, and no line outside the stream is handed on. *)
THEOREM TypeCorrect == Spec => []TypeOK
<1>1. ASSUME IInv PROVE TypeOK
    <2>1. lines \in Seq(1 .. total)
        <3>1. line_no + Len(lines) <= total
            BY <1>1 DEF IInv, Types, BlockInv
        <3> QED
            BY <1>1, <3>1, InRangeSeq DEF IInv, Types, BlockInv
    <2>2. delivered \in Seq(1 .. total) /\ buffered \in Seq(1 .. total)
        <3>1. /\ delivered \in Seq(Nat) /\ buffered \in Seq(Nat) /\ total \in Nat
              /\ Len(delivered) \in Nat /\ Len(buffered) \in Nat
              /\ \A j \in 1 .. Len(delivered) : delivered[j] = 0 + j
              /\ \A j \in 1 .. Len(buffered) : buffered[j] = Len(delivered) + j
              /\ Len(delivered) + Len(buffered) <= total
            BY <1>1 DEF IInv, Types, OutputInv, Consecutive, ValidUpTo
        <3>2. delivered \in Seq(1 .. total)
            BY <3>1, InRangeSeq
        <3> QED
            BY <3>1, <3>2, InRangeSeq
    <2>3. reported \in 0 .. total /\ taken \in 0 .. total /\ item \in 1 .. Len(lines) + 1
        BY <1>1 DEF IInv, Types, VerdictInv
    <2> QED
        BY <1>1, <2>1, <2>2, <2>3 DEF IInv, Types, TypeOK
<1> QED
    BY <1>1, Invariance, PTL

(***************************************************************************)
(* A predict command, whatever its arguments, moves the stream by the      *)
(* steps of PredictStream only: what holds of Spec, such as OutputIsInOrder *)
(* and SuccessIsComplete, holds of the program.                            *)
(***************************************************************************)
THEOREM CommandImplementsStream == CommandSpec => Spec
<1>1. CommandInit => Init
    BY DEF CommandInit
<1>2. [CommandNext]_commandVars => [Next]_vars
    BY DEF CommandNext, commandVars, Parse, Load, Segment
<1> QED
    BY <1>1, <1>2, PTL DEF CommandSpec, Spec
=============================================================================
