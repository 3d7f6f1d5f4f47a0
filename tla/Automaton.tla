------------------------------ MODULE Automaton ------------------------------
(***************************************************************************)
(* kytea::Automaton (src/include/segmentlib/kytea/automaton.h): a          *)
(* dictionary of the model file is read state by state, checked, renamed   *)
(* into a double array whose cells are {base, check}, and then matched     *)
(* against texts.                                                          *)
(*                                                                         *)
(* A dictionary in the file is a record: n states, the failure link, gotos *)
(* and outputs of each, and the char_length of each entry.  An entry is    *)
(* its index.  The free list is always in ascending order, so it is the    *)
(* set of free slots; the CSR arrays of outputs are a sequence per slot.   *)
(* "words" is the set the writer compiled, entry by entry, and <<>> for a  *)
(* dictionary that no writer made; only the properties look at it.         *)
(***************************************************************************)
EXTENDS Integers, Sequences, SequencesExt, FiniteSets

CONSTANTS
    Dictionaries,    \* the dictionaries a file may hold
    Texts,           \* the texts to match, sequences of CharId
    FreeListCap,     \* kFreeListCap
    MaxCharId        \* largest CharId the properties try

ASSUME AutomatonAssumption ==
    /\ FreeListCap \in Nat \ {0}
    /\ Texts \subseteq Seq(Nat)
    /\ \A d \in Dictionaries :
          /\ d.n \in Nat
          /\ \A s \in 0 .. d.n - 1 :
                /\ d.failure[s] \in Nat
                /\ d.gotos[s] \in Seq([c : Nat, next : Nat])
                /\ d.outputs[s] \in Seq(Nat)
          /\ d.lengths \in Seq(Nat)

NoState == -1        \* kNoState, 2^32 - 1
Closed == -2         \* kClosed, 2^32 - 2

VARIABLES
    dict,            \* the dictionary being read
    phase,           \* "read", "place", "ready", "rejected", "match", "done"
    reason,          \* why it was rejected
    at,              \* states read so far
    out_bound,       \* largest output index seen, plus one
    base, check,     \* unit_, by slot
    new_id, depth,   \* of every state of the file
    stack,           \* states placed whose children are not
    fail, out,       \* fail_ and the outputs, by slot
    root_next,       \* the root's transitions by character
    text, i, cur,    \* match(): the text, characters consumed, current state
    reported         \* match(): <<end position, entry>> in the order reported

reading == <<at, out_bound>>
layout == <<base, check, new_id, depth, stack>>
tables == <<fail, out, root_next>>
matching == <<text, i, cur, reported>>
vars == <<dict, phase, reason, reading, layout, tables, matching>>

States(d) == 0 .. d.n - 1
Elements(seq) == {seq[k] : k \in DOMAIN seq}
Least(S) == CHOOSE x \in S : \A y \in S : x <= y

Empty == [s \in {} |-> 0]

Init ==
    /\ dict \in Dictionaries
    /\ phase = "read" /\ reason = "none"
    /\ at = 0 /\ out_bound = 0
    /\ base = Empty /\ check = Empty /\ new_id = Empty /\ depth = Empty /\ stack = <<>>
    /\ fail = Empty /\ out = Empty /\ root_next = Empty
    /\ text = <<>> /\ i = 0 /\ cur = 0 /\ reported = <<>>

Reject(why) ==
    /\ phase' = "rejected" /\ reason' = why
    /\ UNCHANGED <<dict, reading, layout, tables, matching>>

-----------------------------------------------------------------------------
(* read() *)

\* require_capacity or a read runs past the end of the file.
Truncated == phase = "read" /\ Reject("truncated")

\* A dictionary written as absent.
ReadAbsent ==
    /\ phase = "read" /\ dict.n = 0
    /\ phase' = "ready"
    /\ UNCHANGED <<dict, reason, reading, layout, tables, matching>>

InRange(s) ==
    /\ dict.failure[s] < dict.n
    /\ \A g \in Elements(dict.gotos[s]) : g.next < dict.n

Ascending_Duplicates(gotos) == \A k \in 2 .. Len(gotos) : gotos[k - 1].c <= gotos[k].c
Ascending(gotos) == \A k \in 2 .. Len(gotos) : gotos[k - 1].c < gotos[k].c

WellRead(s) == InRange(s) /\ Ascending(dict.gotos[s])

Bound(bound, outputs) ==
    LET bounds == {bound} \cup {o + 1 : o \in Elements(outputs)}
    IN  CHOOSE b \in bounds : \A x \in bounds : x <= b

ReadState ==
    /\ phase = "read" /\ at < dict.n /\ WellRead(at)
    /\ at' = at + 1
    /\ out_bound' = Bound(out_bound, dict.outputs[at])
    /\ UNCHANGED <<dict, phase, reason, layout, tables, matching>>

RejectState ==
    /\ phase = "read" /\ at < dict.n /\ ~WellRead(at)
    /\ Reject("malformed")

\* The entries, then build_canonical reserves unit 0 for the root.
ReadEntries ==
    /\ phase = "read" /\ dict.n > 0 /\ at = dict.n
    /\ out_bound <= Len(dict.lengths)
    /\ phase' = "place"
    /\ base' = [u \in {0} |-> 0] /\ check' = [u \in {0} |-> Closed]
    /\ new_id' = [s \in States(dict) |-> IF s = 0 THEN 0 ELSE NoState]
    /\ depth' = [s \in States(dict) |-> 0]
    /\ stack' = <<0>>
    /\ UNCHANGED <<dict, reason, reading, tables, matching>>

RejectEntries ==
    /\ phase = "read" /\ dict.n > 0 /\ at = dict.n
    /\ out_bound > Len(dict.lengths)
    /\ Reject("malformed")

-----------------------------------------------------------------------------
(* build_canonical(): placing the children of one state after another *)

Units == DOMAIN check
Free(cells) == {u \in DOMAIN cells : cells[u] = NoState}

Fits_FirstOnly(b, gotos) == TRUE
\* Every child after the first also lands on a free slot or past the end.
Fits(b, gotos) ==
    \A k \in 2 .. Len(gotos) :
        b + gotos[k].c \in Units => check[b + gotos[k].c] = NoState

\* The first free slot the first child can take, or past the end.
BaseFor(gotos) ==
    LET first == gotos[1].c
        slots == {f \in Free(check) : f >= first /\ Fits(f - first, gotos)}
        size == Cardinality(Units)
    IN  IF slots # {} THEN Least(slots) - first
        ELSE IF size > first THEN size - first ELSE 0

\* enforce_cap: the lowest free slots beyond FreeListCap are abandoned.
Capped(cells) ==
    [u \in DOMAIN cells |->
        IF /\ u \in Free(cells)
           /\ Cardinality({f \in Free(cells) : f > u}) >= FreeListCap
        THEN Closed ELSE cells[u]]

Popped == stack[Len(stack)]
Rest == SubSeq(stack, 1, Len(stack) - 1)

PlaceLeaf ==
    /\ phase = "place" /\ stack # <<>> /\ dict.gotos[Popped] = <<>>
    /\ stack' = Rest
    /\ UNCHANGED <<dict, phase, reason, reading, base, check, new_id, depth, tables, matching>>

\* No child has been placed before, by another state or for another character.
ChildrenAreNew(gotos) ==
    /\ \A g \in Elements(gotos) : new_id[g.next] = NoState
    /\ \A j, k \in DOMAIN gotos : gotos[j].next = gotos[k].next => j = k

PlaceChildren ==
    /\ phase = "place" /\ stack # <<>> /\ dict.gotos[Popped] # <<>>
    /\ LET gotos == dict.gotos[Popped]
           ns == new_id[Popped]
           b == BaseFor(gotos)
           taken == {b + g.c : g \in Elements(gotos)}
           size == Cardinality(Units \cup 0 .. b + gotos[Len(gotos)].c)
           edge(s) == CHOOSE g \in Elements(gotos) : g.next = s
           isChild(s) == \E g \in Elements(gotos) : g.next = s
       IN  /\ ChildrenAreNew(gotos)
           /\ base' = [u \in 0 .. size - 1 |->
                          IF u = ns THEN b ELSE IF u \in Units THEN base[u] ELSE 0]
           /\ check' = Capped([u \in 0 .. size - 1 |->
                          IF u \in taken THEN ns ELSE IF u \in Units THEN check[u] ELSE NoState])
           /\ new_id' = [s \in States(dict) |-> IF isChild(s) THEN b + edge(s).c ELSE new_id[s]]
           /\ depth' = [s \in States(dict) |-> IF isChild(s) THEN depth[Popped] + 1 ELSE depth[s]]
           /\ stack' = Rest \o [k \in DOMAIN gotos |-> gotos[k].next]
    /\ UNCHANGED <<dict, phase, reason, reading, tables, matching>>

RejectGraph ==
    /\ phase = "place" /\ stack # <<>> /\ ~ChildrenAreNew(dict.gotos[Popped])
    /\ Reject("malformed")

-----------------------------------------------------------------------------
(* build_canonical(): the checks after the last state, and the remapping *)

Reached == \A s \in States(dict) : new_id[s] # NoState

Shortens_Unchecked == TRUE
\* Every failure link but the root's leads to a strictly shallower state.
Shortens == \A s \in States(dict) \ {0} : depth[dict.failure[s]] < depth[s]

\* word_entry_check, as check_payload.
PayloadsFit ==
    \A s \in States(dict) : \A o \in Elements(dict.outputs[s]) :
        dict.lengths[o + 1] \in 1 .. depth[s]

Failure_ToRoot(s) == 0
Failure(s) == new_id[dict.failure[s]]

Remap ==
    /\ phase = "place" /\ stack = <<>>
    /\ Reached /\ Shortens /\ PayloadsFit
    /\ LET holder == [u \in Units |-> {s \in States(dict) : new_id[s] = u}]
           root == dict.gotos[0]
           width == IF root = <<>> THEN 0 ELSE root[Len(root)].c + 1
       IN  /\ fail' = [u \in Units |-> IF holder[u] = {} THEN 0 ELSE Failure(CHOOSE s \in holder[u] : TRUE)]
           /\ out' = [u \in Units |->
                         IF holder[u] = {} THEN <<>> ELSE dict.outputs[CHOOSE s \in holder[u] : TRUE]]
           /\ root_next' = [c \in 0 .. width - 1 |->
                 IF \E g \in Elements(root) : g.c = c
                 THEN new_id[(CHOOSE g \in Elements(root) : g.c = c).next] ELSE NoState]
    /\ phase' = "ready"
    /\ UNCHANGED <<dict, reason, reading, layout, matching>>

RejectLinks ==
    /\ phase = "place" /\ stack = <<>>
    /\ ~(Reached /\ Shortens /\ PayloadsFit)
    /\ Reject("malformed")

-----------------------------------------------------------------------------
(* match() *)

Step(state, c) ==
    LET slot == base[state] + c
    IN  IF slot \in Units /\ check[slot] = state THEN slot ELSE NoState

RootStep(c) == IF c \in DOMAIN root_next THEN root_next[c] ELSE NoState

Target == IF cur = 0 THEN RootStep(text[i + 1]) ELSE Step(cur, text[i + 1])

StartMatch ==
    /\ phase = "ready"
    /\ text' \in Texts
    /\ phase' = IF dict.n = 0 THEN "done" ELSE "match"
    /\ UNCHANGED <<dict, reason, reading, layout, tables, i, cur, reported>>

InText == phase = "match" /\ i < Len(text)

FollowFailure ==
    /\ InText /\ Target = NoState /\ cur # 0
    /\ cur' = fail[cur]
    /\ UNCHANGED <<dict, phase, reason, reading, layout, tables, text, i, reported>>

Consume ==
    /\ InText /\ (Target # NoState \/ cur = 0)
    /\ cur' = IF Target = NoState THEN 0 ELSE Target
    /\ i' = i + 1
    /\ reported' = reported \o [k \in DOMAIN out[cur'] |-> <<i, out[cur'][k]>>]
    /\ UNCHANGED <<dict, phase, reason, reading, layout, tables, text>>

EndMatch ==
    /\ phase = "match" /\ i = Len(text)
    /\ phase' = "done"
    /\ UNCHANGED <<dict, reason, reading, layout, tables, matching>>

Next ==
    \/ Truncated \/ ReadAbsent \/ ReadState \/ RejectState \/ ReadEntries \/ RejectEntries
    \/ PlaceLeaf \/ PlaceChildren \/ RejectGraph \/ Remap \/ RejectLinks
    \/ StartMatch \/ FollowFailure \/ Consume \/ EndMatch

Spec == Init /\ [][Next]_vars

\* One sequential load and one sequential match, run by the caller's thread.
FairSpec == Spec /\ WF_vars(Next)

-----------------------------------------------------------------------------
TypeOK ==
    /\ dict.n \in Nat
    /\ phase \in {"read", "place", "ready", "rejected", "match", "done"}
    /\ reason \in {"none", "truncated", "malformed"}
    /\ at \in 0 .. dict.n /\ out_bound \in Nat
    /\ DOMAIN base = Units /\ Units = 0 .. Cardinality(Units) - 1
    /\ Cardinality(Free(check)) <= FreeListCap
    /\ \A u \in Units : base[u] \in Nat /\ check[u] \in {NoState, Closed} \cup Units
    /\ new_id \in [DOMAIN new_id -> {NoState} \cup Units] /\ depth \in [DOMAIN new_id -> 0 .. dict.n]
    /\ stack \in Seq(States(dict)) /\ Len(stack) <= dict.n
    /\ i \in 0 .. Len(text) /\ cur \in {0} \cup Units

Built == dict.n > 0 /\ phase \in {"ready", "match", "done"}

\* <<state, string>> for the goto paths of length k from the root.
Paths(d) ==
    LET paths[k \in 0 .. d.n] ==
          IF k = 0 THEN {<<0, <<>>>>}
          ELSE UNION {{<<g.next, Append(p[2], g.c)>> : g \in Elements(d.gotos[p[1]])} : p \in paths[k - 1]}
    IN  UNION {paths[k] : k \in 0 .. d.n}

\* A trie that spells every state in one way, with links to shorter strings
\* and entries no longer than the string of the state they are reported at.
WellFormed(d) ==
    /\ \A s \in States(d) :
          /\ d.failure[s] < d.n /\ \A g \in Elements(d.gotos[s]) : g.next < d.n
          /\ \A k \in DOMAIN d.outputs[s] : d.outputs[s][k] < Len(d.lengths)
          /\ \A j, k \in DOMAIN d.gotos[s] : j < k => d.gotos[s][j].c < d.gotos[s][k].c
    /\ LET paths == Paths(d)
           length(s) == Len((CHOOSE p \in paths : p[1] = s)[2])
       IN  /\ Cardinality(paths) = d.n /\ {p[1] : p \in paths} = States(d)
           /\ \A s \in States(d) \ {0} : length(d.failure[s]) < length(s)
           /\ \A s \in States(d) : \A o \in Elements(d.outputs[s]) :
                 d.lengths[o + 1] \in 1 .. length(s)

(***************************************************************************)
(* "the checks below are what makes a malformed model a rejected model":   *)
(* build_canonical's step-by-step checks accept the well formed tries and  *)
(* nothing else.                                                           *)
(***************************************************************************)
AcceptsTheWellFormed ==
    dict.n > 0 =>
        /\ phase \in {"ready", "match", "done"} => WellFormed(dict)
        /\ reason = "malformed" => ~WellFormed(dict)

(***************************************************************************)
(* The double array has the file's transitions and no others, although     *)
(* slots are shared out among all the states, some are abandoned, and the  *)
(* root is served from a table of its own.                                 *)
(***************************************************************************)
StepIsGoto ==
    Built =>
        \A s \in States(dict), c \in 0 .. MaxCharId :
            LET next == {g.next : g \in {h \in Elements(dict.gotos[s]) : h.c = c}}
            IN  /\ Step(new_id[s], c) = IF next = {} THEN NoState ELSE new_id[CHOOSE t \in next : TRUE]
                /\ s = 0 => RootStep(c) = Step(0, c)

-----------------------------------------------------------------------------
(* What a writer compiles: the Aho-Corasick automaton of the words.        *)

EndsWith(t, w) == Len(w) <= Len(t) /\ SubSeq(t, Len(t) - Len(w) + 1, Len(t)) = w

LongestFirst(words, entries) ==
    LET rank(o) == Cardinality({p \in entries : Len(words[p]) >= Len(words[o])})
    IN  [r \in 1 .. Cardinality(entries) |-> (CHOOSE o \in entries : rank(o) = r) - 1]

\* The entries whose word ends where t does.
EndingWith(words, t) == LongestFirst(words, {o \in DOMAIN words : EndsWith(t, words[o])})

\* The string that leads to each state of a trie.
Spelling(d) == [s \in States(d) |-> (CHOOSE p \in Paths(d) : p[1] = s)[2]]

\* The states spell the prefixes of the words, each one once; a failure link
\* leads to the longest shorter string that the state's ends with; and a state
\* outputs all the words that its string ends with.
Compiles(d, string) ==
    /\ d.words \in Seq(Seq(Nat))
    /\ string[0] = <<>>
    /\ \A s \in States(d) : string[s] \in Seq(Nat)
    /\ \A s, t \in States(d) : string[s] = string[t] => s = t
    /\ \A s \in States(d) : \A g \in Elements(d.gotos[s]) : string[g.next] = Append(string[s], g.c)
    /\ \A t \in States(d) \ {0} : \E s \in States(d) : \E g \in Elements(d.gotos[s]) : g.next = t
    /\ \A o \in DOMAIN d.words : \E s \in States(d) : string[s] = d.words[o]
    /\ \A s \in States(d) \ {0} :
          LET shorter == {t \in States(d) : EndsWith(string[s], string[t]) /\ t # s}
          IN  /\ d.failure[s] \in shorter
              /\ \A t \in shorter : Len(string[t]) <= Len(string[d.failure[s]])
    /\ \A s \in States(d) : d.outputs[s] = EndingWith(d.words, string[s])

ASSUME WriterAssumption == \A d \in Dictionaries : d.words # <<>> => Compiles(d, Spelling(d))

(***************************************************************************)
(* match() reports every occurrence of every word, at its end, longest     *)
(* first, and nothing else, however the occurrences overlap.               *)
(***************************************************************************)
MatchIsExact ==
    Built /\ dict.words # <<>> =>
        reported = FlattenSeq([e \in 1 .. i |->
                       LET found == EndingWith(dict.words, SubSeq(text, 1, e))
                       IN  [k \in DOMAIN found |-> <<e - 1, found[k]>>]])

(***************************************************************************)
(* "match() terminates only if each failure link shortens the match": of   *)
(* whatever is in the file, reading ends and so does every match on what   *)
(* was accepted.                                                           *)
(***************************************************************************)
Terminates == <>(phase \in {"done", "rejected"})
=============================================================================
