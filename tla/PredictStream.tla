---------------------------- MODULE PredictStream ----------------------------
(***************************************************************************)
(* cli::run_predict (src/cli/predict_command.cpp) after the model is       *)
(* loaded: reads the standard input in blocks of lines, segments a block   *)
(* with tokenize_all, writes the segmented lines in input order, and stops *)
(* at the first line that cannot be segmented.                             *)
(*                                                                         *)
(* A line is its number in the stream, and its segmentation is written as  *)
(* the same number; "invalid" is the set of lines that are not UTF-8.      *)
(* tokenize_all is what BatchRun shows it to be: a result per line, in     *)
(* order.  Standard output is stdio's: fwrite fills a buffer that reaches  *)
(* the device at times stdio chooses and at fflush, where the device may   *)
(* fail after part of it, and what is left reaches it at exit.             *)
(***************************************************************************)
EXTENDS Integers, Sequences

CONSTANTS
    Block,       \* kBlock
    MaxLines     \* bound of the model: lines of the longest stream

ASSUME PredictAssumption ==
    /\ Block \in Nat \ {0}
    /\ MaxLines \in Nat

VARIABLES
    total,       \* number of lines the stream holds
    invalid,     \* the lines tokenize refuses
    stream,      \* std::cin: "good", "eof" or "bad"
    taken,       \* lines getline has taken so far
    phase,       \* where run_predict is
    lines,       \* the block in hand
    item,        \* i, the line of the block to write next, from 1
    line_no,     \* lines in the blocks before
    buffered,    \* lines in stdout's buffer
    delivered,   \* lines that reached the device
    lost,        \* whether the device failed to take what was buffered
    reported,    \* the line number printed to stderr, 0 when none is
    exit         \* the exit status, -1 while running

input == <<total, invalid>>
output == <<buffered, delivered, lost>>
vars == <<input, stream, taken, phase, lines, item, line_no, output, reported, exit>>

Init ==
    /\ total \in 0 .. MaxLines
    /\ invalid \in SUBSET (1 .. total)
    /\ stream = "good"
    /\ taken = 0
    /\ phase = "read"
    /\ lines = <<>>
    /\ item = 1
    /\ line_no = 0
    /\ buffered = <<>> /\ delivered = <<>> /\ lost = FALSE
    /\ reported = 0
    /\ exit = -1

-----------------------------------------------------------------------------
(* Standard output. *)

\* stdio hands the buffer to the device, which takes it all.
FlushOk ==
    /\ delivered' = delivered \o buffered
    /\ buffered' = <<>>
    /\ UNCHANGED lost

\* The device takes a part and fails; stdio may keep the rest for exit.
FlushFails(pending) ==
    /\ \E k \in 0 .. Len(pending) - 1 :
          /\ delivered' = delivered \o SubSeq(pending, 1, k)
          /\ buffered' \in {<<>>, SubSeq(pending, k + 1, Len(pending))}
    /\ lost' = TRUE

Aborted == 134

Stop(code) == phase' = "exit" /\ exit' = code

-----------------------------------------------------------------------------
(* The read loop of a block. *)

\* getline delivers a line and the block has room for it.
ReadLine ==
    /\ phase = "read" /\ Len(lines) < Block
    /\ stream = "good" /\ taken < total
    /\ taken' = taken + 1
    /\ lines' = Append(lines, taken + 1)
    /\ UNCHANGED <<input, stream, phase, item, line_no, output, reported, exit>>

EndOfBlock_NeverEmpty == phase' = "write"
\* What run_predict does with the lines once the read loop has ended.
EndOfBlock == phase' = IF lines = <<>> THEN "finish" ELSE "write"

\* getline fails: at the end of the stream, or because reading failed before.
ReadFails ==
    /\ phase = "read" /\ Len(lines) < Block
    /\ stream' \in IF stream # "good" THEN {stream}
                   ELSE IF taken = total THEN {"eof", "bad"} ELSE {"bad"}
    /\ EndOfBlock
    /\ UNCHANGED <<input, taken, lines, item, line_no, output, reported, exit>>

\* The block is full: getline is not called.
BlockFull ==
    /\ phase = "read" /\ Len(lines) = Block
    /\ EndOfBlock
    /\ UNCHANGED <<input, stream, taken, lines, item, line_no, output, reported, exit>>

-----------------------------------------------------------------------------
(* The write loop, over the results of tokenize_all. *)

\* tokenize_all rethrows what a worker threw; nothing catches it, and the
\* process aborts without flushing.
TokenizeThrows ==
    /\ phase = "write" /\ item = 1
    /\ phase' = "exited"
    /\ exit' = Aborted
    /\ UNCHANGED <<input, stream, taken, lines, item, line_no, output, reported>>

InBlock == phase = "write" /\ item <= Len(lines)

InValidLine_Unchecked == InBlock
InValidLine == InBlock /\ lines[item] \notin invalid

\* fwrite of a segmented line stays in the buffer or goes to the device with it.
WriteLine ==
    /\ InValidLine
    /\ \/ buffered' = Append(buffered, lines[item]) /\ UNCHANGED <<delivered, lost>>
       \/ /\ delivered' = delivered \o Append(buffered, lines[item])
          /\ buffered' = <<>>
          /\ UNCHANGED lost
    /\ item' = item + 1
    /\ UNCHANGED <<input, stream, taken, phase, lines, line_no, reported, exit>>

\* fwrite reports a short count.
WriteFails ==
    /\ InValidLine
    /\ FlushFails(Append(buffered, lines[item]))
    /\ Stop(1)
    /\ UNCHANGED <<input, stream, taken, lines, item, line_no, reported>>

ReportedLine_InBlock == item
ReportedLine == line_no + item

\* A line that is not valid ends the run; the flush's own result is ignored.
InvalidLine ==
    /\ InBlock /\ lines[item] \in invalid
    /\ FlushOk \/ FlushFails(buffered)
    /\ reported' = ReportedLine
    /\ Stop(1)
    /\ UNCHANGED <<input, stream, taken, lines, item, line_no>>

BlockWritten ==
    /\ phase = "write" /\ item > Len(lines)
    /\ line_no' = line_no + Len(lines)
    /\ lines' = <<>>
    /\ item' = 1
    /\ phase' = "read"
    /\ UNCHANGED <<input, stream, taken, output, reported, exit>>

-----------------------------------------------------------------------------
(* After the last block. *)

Finish_NoFlush ==
    /\ phase = "finish"
    /\ Stop(IF stream = "bad" THEN 1 ELSE 0)
    /\ UNCHANGED <<input, stream, taken, lines, item, line_no, output, reported>>

Finish ==
    /\ phase = "finish"
    /\ \/ stream = "bad" /\ Stop(1) /\ UNCHANGED output
       \/ stream # "bad" /\ FlushOk /\ Stop(0)
       \/ stream # "bad" /\ FlushFails(buffered) /\ Stop(1)
    /\ UNCHANGED <<input, stream, taken, lines, item, line_no, reported>>

\* exit() flushes what is left, and its outcome no longer changes the status.
ExitFlush ==
    /\ phase = "exit"
    /\ FlushOk \/ FlushFails(buffered)
    /\ phase' = "exited"
    /\ UNCHANGED <<input, stream, taken, lines, item, line_no, reported, exit>>

Next ==
    \/ ReadLine \/ ReadFails \/ BlockFull \/ TokenizeThrows
    \/ WriteLine \/ WriteFails \/ InvalidLine \/ BlockWritten
    \/ Finish \/ ExitFlush

Spec == Init /\ [][Next]_vars

-----------------------------------------------------------------------------
TypeOK ==
    /\ total \in Nat /\ invalid \in SUBSET (1 .. total)
    /\ stream \in {"good", "eof", "bad"}
    /\ taken \in 0 .. total
    /\ phase \in {"read", "write", "finish", "exit", "exited"}
    /\ lines \in Seq(1 .. total) /\ Len(lines) <= Block
    /\ item \in 1 .. Len(lines) + 1
    /\ line_no \in Nat
    /\ buffered \in Seq(1 .. total) /\ delivered \in Seq(1 .. total)
    /\ lost \in BOOLEAN
    /\ reported \in 0 .. total
    /\ exit \in {-1, 0, 1, Aborted}

\* The lines a line-by-line filter would segment: those before the first invalid.
Segmentable == {l \in 1 .. total : \A k \in 1 .. l : k \notin invalid}

(***************************************************************************)
(* Whatever the blocks, the output is the segmentation of the stream's     *)
(* first lines, each once and in order, and never of a line at or after    *)
(* the first invalid one, even when several are segmented together.        *)
(***************************************************************************)
OutputInOrder ==
    \A j \in 1 .. Len(delivered) : delivered[j] = j /\ j \in Segmentable

(***************************************************************************)
(* "say where": the line number reported is the first invalid line's in    *)
(* the whole stream, and every line before it has been handed out unless   *)
(* the device failed.                                                      *)
(***************************************************************************)
ReportsTheFirstInvalid ==
    reported # 0 =>
        /\ reported \in invalid /\ \A l \in 1 .. reported - 1 : l \notin invalid
        /\ ~lost => Len(delivered) = reported - 1

(***************************************************************************)
(* Status 0 is a promise: the whole stream was read, every line was        *)
(* segmented and every one reached the device.                             *)
(***************************************************************************)
SuccessMeansComplete ==
    exit = 0 =>
        /\ stream = "eof" /\ taken = total /\ invalid = {}
        /\ ~lost /\ Len(delivered) = total
=============================================================================
