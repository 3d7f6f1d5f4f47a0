---------------------------- MODULE MCTrainingData ----------------------------
(* Corpora and sentences for TrainingData. *)
EXTENDS TrainingData

UpTo(S, n) == UNION {[1 .. k -> S] : k \in 0 .. n}

FullLines == UpTo({"x", " ", "/", "\\", "\r", "bad"}, 4)
PartialLines == UpTo({"x", "-", "|", "?", "/", "\\"}, 5) \cup UpTo({"x", " ", "bad", "\r"}, 3)

SomeFiles ==
    {[format |-> "full", lines |-> <<l>>] : l \in FullLines}
        \cup {[format |-> "partial", lines |-> <<l>>] : l \in PartialLines}
        \cup {[format |-> "partial", lines |-> <<<<"x", "|", "x">>, l>>] : l \in UpTo({"x", "-", "|", "?"}, 3)}
        \cup {[format |-> "full", lines |-> <<>>]}

\* All the ways to cut a text into words.
Words(t) ==
    {LET ends == cuts \cup {Len(t)}
         before(e) == IF \E c \in cuts : c < e THEN CHOOSE c \in cuts : c < e /\ \A d \in cuts : d < e => d <= c ELSE 0
         nth(r) == CHOOSE e \in ends : Cardinality({d \in ends : d <= e}) = r
     IN  [r \in 1 .. Cardinality(ends) |-> SubSeq(t, before(nth(r)) + 1, nth(r))] : cuts \in SUBSET (1 .. Len(t) - 1)}

Texts(n) == UpTo({"x", " ", "/", "\\", "&", "-", "\r"}, n) \ {<<>>}
SomePredictions ==
    UNION {{<<w>> : w \in Words(t)} : t \in Texts(3)}
        \cup {<<<<>>, v, w>> : v \in UNION {Words(t) : t \in Texts(1)}, w \in UNION {Words(t) : t \in Texts(2)}}

Sentence(marks, clusters, decodes) ==
    [text |-> [k \in 1 .. Len(marks) + 1 |-> "x"], tags |-> marks, starts |-> clusters, valid |-> decodes]
Kinds == {"Bound", "NoBound", "Unknown"}
SomeOthers ==
    {<<Sentence(<<a, b>>, {0, s, 2}, v), Sentence(<<c, "Unknown", d>>, {0, t, 3}, TRUE), Sentence(<<"Bound">>, {0, 1}, v)>> :
        a, b, c, d \in Kinds, s \in {0, 1}, t \in {0, 1, 2}, v \in BOOLEAN}
=============================================================================
