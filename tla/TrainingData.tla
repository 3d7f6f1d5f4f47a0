----------------------------- MODULE TrainingData -----------------------------
(***************************************************************************)
(* From corpus files to training examples, as train_command.cpp runs it:   *)
(* read_full_corpus or read_partial_corpus (module Corpus), then           *)
(* build_examples over the sentences (module Examples), with the clusters  *)
(* that the encoder finds, whatever they are.  build_examples may also be  *)
(* called on sentences of other origin, some of them not UTF-8.            *)
(***************************************************************************)
EXTENDS Corpus, Examples

CONSTANT OtherSentences      \* sequences of sentences of other origin

\* A sentence that decodes to n characters: every cluster starts at one of them, the first
\* one at the first, and "tags.size() + 1 == num_cps || num_cps == 0".
Encodable(s) ==
    LET n == Len(s.text)
    IN  /\ n \in Nat /\ s.starts \subseteq 0 .. n - 1
        /\ n # 0 => 0 \in s.starts /\ s.tags \in Seq(TagKinds) /\ Len(s.tags) = n - 1

ASSUME OtherAssumption ==
    \A given \in OtherSentences :
        /\ Len(given) \in Nat /\ DOMAIN given = 1 .. Len(given)
        /\ \A k \in DOMAIN given : given[k].valid => Encodable(given[k])

vars == <<corpusVars, exampleVars>>

Init == CorpusInit /\ ExamplesInit

\* Any clusters the code points may form: the first starts one.
Clusterings(n) == {{0} \cup S : S \in SUBSET (1 .. n - 1)}

Clustered(given, starts) ==
    [k \in DOMAIN given |->
        [text |-> given[k].text, tags |-> given[k].tags, starts |-> starts[k], valid |-> TRUE]]

BuildParsed ==
    /\ stage = "parsed"
    /\ \E starts \in [DOMAIN sentences -> UNION {Clusterings(Len(sentences[k].text)) : k \in DOMAIN sentences}] :
          /\ \A k \in DOMAIN sentences : starts[k] \in Clusterings(Len(sentences[k].text))
          /\ Build(Clustered(sentences, starts))
    /\ UNCHANGED corpusVars

\* A caller with sentences of its own, before any corpus is read.
BuildOthers ==
    /\ stage = "lines" /\ line_no = 0 /\ lines = <<>>
    /\ \E given \in OtherSentences : Build(given)
    /\ UNCHANGED corpusVars

Next ==
    \/ building = "idle" /\ Parse /\ UNCHANGED exampleVars
    \/ BuildParsed \/ BuildOthers
    \/ BuildStep /\ UNCHANGED corpusVars

Spec == Init /\ [][Next]_vars

TypeOK == CorpusTypeOK /\ ExamplesTypeOK
=============================================================================
