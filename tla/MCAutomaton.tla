----------------------------- MODULE MCAutomaton -----------------------------
(***************************************************************************)
(* Dictionaries for Automaton: those a writer compiles from a few words    *)
(* over a sparse alphabet, and small ones with anything in them.           *)
(***************************************************************************)
EXTENDS Automaton, TLC

Chars == {1, 2, 4}
Words == {<<a>> : a \in Chars} \cup (Chars \X Chars) \cup {<<1, 2, 1>>, <<2, 1, 2>>, <<1, 1, 1>>, <<2, 4, 1>>}

TailsOf(w) == {SubSeq(w, k, Len(w)) : k \in 2 .. Len(w) + 1}
Longest(S) == CHOOSE w \in S : \A v \in S : Len(v) <= Len(w)

Ranked(S, key(_)) ==
    [r \in 1 .. Cardinality(S) |-> CHOOSE x \in S : Cardinality({y \in S : key(y) < key(x)}) = r - 1]
Position(seq, x) == CHOOSE k \in DOMAIN seq : seq[k] = x

\* Distinct for distinct strings over Chars.
Code(t) == LET code[k \in 0 .. Len(t)] == IF k = 0 THEN 0 ELSE 5 * code[k - 1] + t[k] IN code[Len(t)]

\* The Aho-Corasick automaton of a set of words, as a writer numbers it.
Compiled(W) ==
    LET words == Ranked(W, Code)
        prefixes == UNION {{SubSeq(w, 1, k) : k \in 0 .. Len(w)} : w \in W}
        spelled == Ranked(prefixes, Code)
        string(s) == spelled[s + 1]
        state(t) == Position(spelled, t) - 1
        n == Len(spelled)
        children(t) == Ranked({c \in Chars : Append(t, c) \in prefixes}, LAMBDA c : c)
        ends(t) == Ranked({w \in W : w = t \/ w \in TailsOf(t)}, LAMBDA w : -Len(w))
        states == 0 .. n - 1
    IN  [n |-> n, words |-> words, lengths |-> [k \in DOMAIN words |-> Len(words[k])],
         failure |-> [s \in states |->
             IF s = 0 THEN 0 ELSE state(Longest(TailsOf(string(s)) \cap prefixes))],
         gotos |-> [s \in states |-> LET to == children(string(s)) IN
             [k \in DOMAIN to |-> [c |-> to[k], next |-> state(Append(string(s), to[k]))]]],
         outputs |-> [s \in states |-> LET found == ends(string(s)) IN
             [k \in DOMAIN found |-> Position(words, found[k]) - 1]]]

CompiledDictionaries ==
    {Compiled(W) : W \in {{v, w} : v, w \in Words}}
        \cup {Compiled(W) : W \in {{u, v, w} : u \in Chars \X {2}, v \in {<<a, b>> : a, b \in {1, 4}}, w \in Words}}

Edges(n, last) == [c : {1, 2}, next : 0 .. last]
AnyGotos(n, last) == {<<>>} \cup (Edges(n, last) \X Edges(n, last)) \cup {<<e>> : e \in Edges(n, last)}

\* Two states, with links, targets and entries in and out of range, and keys
\* in any order.
SmallDictionaries ==
    {[n |-> 2, words |-> <<>>, lengths |-> <<1, 2>>,
      failure |-> (0 :> f) @@ (1 :> g), gotos |-> (0 :> r) @@ (1 :> q), outputs |-> (0 :> <<>>) @@ (1 :> o)] :
        f \in {0}, g \in 0 .. 2, r \in AnyGotos(2, 2), q \in {<<>>} \cup {<<e>> : e \in Edges(2, 1)},
        o \in {<<>>, <<0>>, <<0, 1>>, <<2>>}}

\* Three states, everything in range, up to one payload.
LinkedDictionaries ==
    {[n |-> 3, words |-> <<>>, lengths |-> <<l>>,
      failure |-> (0 :> 0) @@ (1 :> f) @@ (2 :> g), gotos |-> (0 :> r) @@ (1 :> p) @@ (2 :> q),
      outputs |-> (0 :> <<>>) @@ (1 :> <<>>) @@ (2 :> <<0>>)] :
        f, g \in 0 .. 2, l \in {1, 2},
        r \in AnyGotos(3, 2), p, q \in {<<>>} \cup {<<e>> : e \in Edges(3, 2)}}

Absent == [n |-> 0, words |-> <<>>, lengths |-> <<>>, failure |-> Empty, gotos |-> Empty, outputs |-> Empty]

AllDictionaries == {Absent} \cup CompiledDictionaries \cup SmallDictionaries \cup LinkedDictionaries

\* 0 is the CharId of a character the model has never seen.
AllTexts == {<<1, 2, 1, 2>>, <<1, 1, 1, 1>>, <<2, 4, 1, 1>>, <<4, 2, 4, 4>>, <<2, 0, 2, 1>>, <<1, 2, 4, 1>>}
=============================================================================
