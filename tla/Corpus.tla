-------------------------------- MODULE Corpus --------------------------------
(***************************************************************************)
(* The text formats of a corpus: what `predict` writes (append_full_line,  *)
(* src/include/segmentlib/output.h) and what `train` parses, line by line  *)
(* and character by character (src/src/mlp/train/corpus.cpp), with full    *)
(* annotation (words) or partial annotation (a mark after each character). *)
(*                                                                         *)
(* A line is a sequence of characters.  Those that mean something to the   *)
(* formats stand for themselves, "x" for any other, and "bad" for a byte   *)
(* that is not UTF-8.                                                      *)
(***************************************************************************)
EXTENDS Integers, Sequences

CONSTANTS
    Files,           \* corpora of other origin: records [format, lines]
    Predictions      \* what predict may have segmented: sequences of sentences,
                     \* a sentence being the sequence of its words, which decode

Delimiters == {" ", "/", "&", "\\"}
Separators == {" ", "-", "|", "?"}

ASSUME CorpusAssumption ==
    /\ \A f \in Files :
          /\ f.format \in {"full", "partial"}
          /\ f.lines \in Seq(Seq(STRING))
    /\ \A p \in Predictions : p \in Seq(Seq(Seq(STRING \ {"bad"}) \ {<<>>}))

VARIABLES
    format, lines,   \* the corpus
    predicted,       \* history: the sentences predict wrote there, if it did
    stage,           \* "lines", "items", "parsed" or "failed"
    line_no,         \* lines begun
    line, pos,       \* the line being parsed, and characters taken of it
    text, tags,      \* the sentence being built
    in_word,         \* word_cps > 0
    in_tag, expect_char,
    sentences,       \* the sentences parsed
    failure          \* the error

lineVars == <<line, pos, text, tags, in_word, in_tag, expect_char>>
corpusVars == <<format, lines, predicted, stage, line_no, lineVars, sentences, failure>>

-----------------------------------------------------------------------------
(* append_full_line *)

Concat(seqs) ==
    LET upTo[k \in 0 .. Len(seqs)] == IF k = 0 THEN <<>> ELSE upTo[k - 1] \o seqs[k]
    IN  upTo[Len(seqs)]

Escaped_NotTheEscape(c) == IF c \in Delimiters \ {"\\"} THEN <<"\\", c>> ELSE <<c>>
Escaped(c) == IF c \in Delimiters THEN <<"\\", c>> ELSE <<c>>

FullLine(words) ==
    Concat([w \in DOMAIN words |->
        (IF w = 1 THEN <<>> ELSE <<" ">>) \o Concat([k \in DOMAIN words[w] |-> Escaped(words[w][k])])])

CorpusInit ==
    /\ \/ /\ \E f \in Files : format = f.format /\ lines = f.lines
          /\ predicted = <<>>
       \/ /\ predicted \in Predictions
          /\ format = "full"
          /\ lines = [k \in DOMAIN predicted |-> FullLine(predicted[k])]
    /\ stage = "lines" /\ line_no = 0
    /\ line = <<>> /\ pos = 0 /\ text = <<>> /\ tags = <<>>
    /\ in_word = FALSE /\ in_tag = FALSE /\ expect_char = TRUE
    /\ sentences = <<>> /\ failure = "none"

-----------------------------------------------------------------------------
(* for_each_line *)

Stripped(l) == IF l # <<>> /\ l[Len(l)] = "\r" THEN SubSeq(l, 1, Len(l) - 1) ELSE l

StartLine ==
    /\ stage = "lines" /\ line_no < Len(lines)
    /\ line_no' = line_no + 1
    /\ line' = Stripped(lines[line_no + 1])
    /\ pos' = 0 /\ text' = <<>> /\ tags' = <<>>
    /\ in_word' = FALSE /\ in_tag' = FALSE /\ expect_char' = TRUE
    /\ stage' = "items"
    /\ UNCHANGED <<format, lines, predicted, sentences, failure>>

EndOfFile ==
    /\ stage = "lines" /\ line_no = Len(lines)
    /\ stage' = "parsed"
    /\ UNCHANGED <<format, lines, predicted, line_no, lineVars, sentences, failure>>

Fail(why) ==
    /\ stage' = "failed" /\ failure' = why
    /\ sentences' = <<>>
    /\ UNCHANGED <<format, lines, predicted, line_no, lineVars>>

-----------------------------------------------------------------------------
(* next_item *)

AtEnd == pos >= Len(line)
IsEscape == line[pos + 1] = "\\"
Length == IF IsEscape THEN 2 ELSE 1
Cp == line[pos + Length]
Plain(c) == ~IsEscape /\ Cp = c

\* An item that decodes.
Item == stage = "items" /\ ~AtEnd /\ pos + Length <= Len(line) /\ Cp # "bad"
Taken == pos' = pos + Length /\ UNCHANGED <<format, lines, predicted, stage, line_no, line, sentences, failure>>

BadItem ==
    /\ stage = "items" /\ ~AtEnd /\ ~Item
    /\ Fail(IF pos + Length > Len(line) THEN "TrailingEscape" ELSE "InvalidUtf8")

-----------------------------------------------------------------------------
(* parse_full_line *)

InFull == format = "full" /\ Item

FullSpace ==
    /\ InFull /\ Plain(" ")
    /\ in_word' = FALSE /\ in_tag' = FALSE
    /\ Taken /\ UNCHANGED <<text, tags, expect_char>>

FullSlash ==
    /\ InFull /\ Plain("/")
    /\ in_tag' = TRUE
    /\ Taken /\ UNCHANGED <<text, tags, in_word, expect_char>>

FullTagContent ==
    /\ InFull /\ ~Plain(" ") /\ ~Plain("/") /\ in_tag
    /\ Taken /\ UNCHANGED <<text, tags, in_word, in_tag, expect_char>>

\* The tag of the gap before the character, if there is one.
FullTag == IF in_word THEN <<"NoBound">> ELSE IF text # <<>> THEN <<"Bound">> ELSE <<>>

FullChar ==
    /\ InFull /\ ~Plain(" ") /\ ~Plain("/") /\ ~in_tag
    /\ tags' = tags \o FullTag
    /\ text' = Append(text, Cp)
    /\ in_word' = TRUE
    /\ Taken /\ UNCHANGED <<in_tag, expect_char>>

-----------------------------------------------------------------------------
(* parse_partial_line *)

InPartial == format = "partial" /\ Item
IsSeparator == ~IsEscape /\ Cp \in Separators

PartialTagContent ==
    /\ InPartial /\ in_tag /\ ~IsSeparator
    /\ Taken /\ UNCHANGED <<text, tags, in_word, in_tag, expect_char>>

\* What is not tag content, with a character due or a mark due.
CharDue == InPartial /\ (in_tag => IsSeparator) /\ expect_char
MarkDue == InPartial /\ (in_tag => IsSeparator) /\ ~expect_char

PartialChar ==
    /\ CharDue /\ ~IsSeparator /\ ~Plain("/")
    /\ text' = Append(text, Cp)
    /\ expect_char' = FALSE /\ in_tag' = FALSE
    /\ Taken /\ UNCHANGED <<tags, in_word>>

PartialMisplaced ==
    /\ CharDue /\ (IsSeparator \/ Plain("/"))
    /\ Fail(IF IsSeparator /\ text # <<>> THEN "MissingSeparator" ELSE "LeadingSeparator")

PartialSlash ==
    /\ MarkDue /\ Plain("/")
    /\ in_tag' = TRUE
    /\ Taken /\ UNCHANGED <<text, tags, in_word, expect_char>>

PartialMark ==
    /\ MarkDue /\ IsSeparator
    /\ tags' = Append(tags, CASE Cp = "-" -> "NoBound" [] Cp = "|" -> "Bound" [] OTHER -> "Unknown")
    /\ expect_char' = TRUE /\ in_tag' = FALSE
    /\ Taken /\ UNCHANGED <<text, in_word>>

PartialUnmarked ==
    /\ MarkDue /\ ~IsSeparator /\ ~Plain("/")
    /\ Fail("MissingSeparator")

-----------------------------------------------------------------------------
(* The end of a line. *)

FinalTags_KeepDangling == tags
\* A partial line that ends on a mark has one tag too many.
FinalTags == IF format = "partial" /\ expect_char THEN SubSeq(tags, 1, Len(tags) - 1) ELSE tags

EndLine ==
    /\ stage = "items" /\ AtEnd
    /\ sentences' = IF text = <<>> THEN sentences
                    ELSE Append(sentences, [text |-> text, tags |-> FinalTags])
    /\ stage' = "lines"
    /\ UNCHANGED <<format, lines, predicted, line_no, lineVars, failure>>

Parse ==
    \/ StartLine \/ EndOfFile \/ BadItem \/ EndLine
    \/ FullSpace \/ FullSlash \/ FullTagContent \/ FullChar
    \/ PartialTagContent \/ PartialChar \/ PartialMisplaced
    \/ PartialSlash \/ PartialMark \/ PartialUnmarked

-----------------------------------------------------------------------------
TagKinds == {"Bound", "NoBound", "Unknown"}

CorpusTypeOK ==
    /\ stage \in {"lines", "items", "parsed", "failed"}
    /\ line_no \in 0 .. Len(lines) /\ pos \in 0 .. Len(line)
    /\ \A k \in DOMAIN tags : tags[k] \in TagKinds
    /\ in_word \in BOOLEAN /\ in_tag \in BOOLEAN /\ expect_char \in BOOLEAN
    /\ failure \in {"none", "TrailingEscape", "InvalidUtf8", "MissingSeparator", "LeadingSeparator"}
    /\ stage = "failed" <=> failure # "none"

(***************************************************************************)
(* "tags.size() is the codepoint count minus one": of every sentence, in   *)
(* both formats, whatever tags, escapes and dangling marks its line had.   *)
(* build_examples asserts it and indexes by it.                            *)
(***************************************************************************)
TagPerGap == \A k \in DOMAIN sentences : Len(sentences[k].tags) = Len(sentences[k].text) - 1

\* The sentence that a sequence of words is, cut between its words.
SentenceOf(words) ==
    LET ends == {Len(Concat(SubSeq(words, 1, k))) : k \in 1 .. Len(words) - 1}
    IN  [text |-> Concat(words),
         tags |-> [g \in 1 .. Len(Concat(words)) - 1 |-> IF g \in ends THEN "Bound" ELSE "NoBound"]]

\* The sentences of a corpus of predictions; an empty prediction is none.
SentencesOf(corpus) == Concat([k \in DOMAIN corpus |-> IF corpus[k] = <<>> THEN <<>> ELSE <<SentenceOf(corpus[k])>>])

EndsInReturn(words) == LET t == Concat(words) IN t[Len(t)] = "\r"

(***************************************************************************)
(* What predict writes, train reads back: the same characters and the same *)
(* words, whatever delimiters the text holds; only a carriage return at    *)
(* the end of a line, which predict keeps, is not read back, and empty     *)
(* lines give no sentence.                                                 *)
(***************************************************************************)
ReadsBackPredictions ==
    predicted # <<>> /\ (\A k \in DOMAIN predicted : predicted[k] # <<>> => ~EndsInReturn(predicted[k])) =>
        /\ stage # "failed"
        /\ stage = "parsed" => sentences = SentencesOf(predicted)
=============================================================================
