----------------------------- MODULE KyteaModel -----------------------------
(***************************************************************************)
(* A KyTea model: what Model::parse makes of a file                        *)
(* (src/include/segmentlib/kytea/model.h), its character table             *)
(* (kytea/char_table.h), and what its automata report on an encoded text.  *)
(*                                                                         *)
(* A file is a sequence of numbers, one per field.  The header line, the   *)
(* character map and the states of a dictionary are numbers too: indices   *)
(* of Headers, Maps and Graphs, where graph 0 has no states and any other  *)
(* is what module Automaton makes of the states: the strings of character  *)
(* ids that are states, and the entries each one outputs, counted from 0.  *)
(***************************************************************************)
EXTENDS Unicode, FiniteSets, FiniteSetsExt, Functions

CONSTANTS
    Headers,         \* the header lines, [version, format, encoding]
    Maps,            \* the character maps, in bytes
    Graphs,          \* the dictionaries' states
    IdBits,          \* bits of a CharId: 16
    MaxDicts,        \* bits of WordEntry::in_dict: 8
    IntMax           \* the largest int

\* The root, whose string is empty, is a state of every graph.
ASSUME GraphsAssumption ==
    \A g \in DOMAIN Graphs :
        /\ <<>> \in DOMAIN Graphs[g]
        /\ \A s \in DOMAIN Graphs[g] : s \in Seq(Nat) /\ Graphs[g][s] \in Seq(Nat)

\* A map is bytes, and a CharId is a number of so many bits.
ASSUME MapsAssumption ==
    /\ Maps \in Seq(Seq(Bytes))
    /\ IdBits \in Nat

-----------------------------------------------------------------------------
(* CharTable *)

NoChar == 0

Ranges ==
    [Romaji |-> {<<65, 90>>, <<97, 122>>, <<65313, 65338>>, <<65345, 65370>>},
     Hiragana |-> {<<12352, 12438>>},
     Katakana |-> {<<12448, 12538>>, <<12540, 12543>>, <<65382, 65439>>},
     Digit |-> {<<48, 57>>, <<65296, 65305>>},
     Kanji |-> {<<13312, 19903>>, <<19968, 40959>>, <<63744, 64255>>, <<131072, 173791>>, <<173824, 177983>>,
                <<177984, 178207>>, <<194560, 195103>>}]

Classify(v) ==
    LET types == {t \in DOMAIN Ranges : \E r \in Ranges[t] : v \in r[1] .. r[2]}
    IN  IF types = {} THEN "Other" ELSE CHOOSE t \in types : TRUE

TypeMarker == [Romaji |-> 82, Hiragana |-> 72, Katakana |-> 84, Digit |-> 68, Kanji |-> 75, Other |-> 79]

\* try_emplace: a repeated character keeps its id.
Emplaced_LastWins(ids, cp, id) == (cp :> id) @@ ids
Emplaced(ids, cp, id) == [c \in DOMAIN ids \cup {cp} |-> IF c \in DOMAIN ids THEN ids[c] ELSE id]

\* The ids of the first k characters, and the one the next new character gets.
Interned(characters) ==
    LET table[k \in 0 .. Len(characters)] ==
            IF k = 0 THEN [ids |-> [cp \in {} |-> 0], next_id |-> 1]
            ELSE LET t == table[k - 1]
                     cp == characters[k].codepoint
                 IN  [ids |-> Emplaced(t.ids, cp, t.next_id),
                      next_id |-> IF cp \in DOMAIN t.ids THEN t.next_id ELSE (t.next_id + 1) % 2 ^ IdBits]
    IN  table[Len(characters)].ids

IdOf(ids, cp) == IF cp \in DOMAIN ids THEN ids[cp] ELSE NoChar

\* bmp_ids_ holds the ids of the map's BMP characters again, by code point.
CharTable(map) ==
    LET ids == Interned(Characters(map))
    IN  [ids |-> ids, type_ids |-> [t \in DOMAIN TypeMarker |-> IdOf(ids, TypeMarker[t])]]

\* encode_into, of a text that decodes.
EncodeInto(table, text) ==
    LET chars == Characters(text)
        norm == [k \in DOMAIN chars |-> Normalize(chars[k].codepoint)]
    IN  [char_ids |-> [k \in DOMAIN chars |-> IdOf(table.ids, norm[k])],
         type_ids |-> [k \in DOMAIN chars |-> table.type_ids[Classify(norm[k])]],
         offsets |-> [k \in DOMAIN chars |-> chars[k].at] \o <<Len(text)>>]

-----------------------------------------------------------------------------
(* Sections: each operator is the position after one that starts at "at".  *)
(* Past the end every number reads as 0; LoadStatus looks at the position. *)

Unit(f, at) == IF at \in DOMAIN f THEN f[at] ELSE 0
Repeat(Step(_), at, n) == LET past[k \in 0 .. n] == IF k = 0 THEN at ELSE Step(past[k - 1]) IN past[n]

\* skip_featvec, skip_kytea_string
SkipVector(f, at) == at + 1 + Unit(f, at)
Vector(f, at) == [k \in 0 .. Unit(f, at) - 1 |-> Unit(f, at + 1 + k)]

\* numDicts, the states, the number of entries and the entries, which a
\* dictionary without states does not have.
HasStates(f, at) == Unit(f, at + 1) # 0
EntryCount(f, at) == Unit(f, at + 2)
EntryAt(f, at, Step(_), k) == Repeat(Step, at + 3, k)

\* Automaton::read and skip_automaton walk a dictionary alike.
SkipAutomaton(f, at, Step(_)) ==
    IF HasStates(f, at) THEN EntryAt(f, at, Step, EntryCount(f, at)) ELSE at + 2

SkipFeatureDictionary(f, at) == LET vector(p) == SkipVector(f, p) IN SkipAutomaton(f, at, vector)

SkipFeatureLookup(f, at) ==
    IF Unit(f, at) = 0 THEN at + 1
    ELSE LET vector(p) == SkipVector(f, p)
             dictionary(p) == SkipFeatureDictionary(f, p)
         IN  Repeat(vector, Repeat(dictionary, at + 1, 3), 4)

\* num_classes, then solver, labels, bias flag and multiplier.
SkipTagModel(f, at) == IF Unit(f, at) = 0 THEN at + 1 ELSE SkipFeatureLookup(f, at + 4 + Unit(f, at))

SkipLm_AlwaysFallback(f, at) ==
    LET entry(p) == SkipVector(f, p) + 2
    IN  IF Unit(f, at) = 0 THEN at + 1 ELSE Repeat(entry, at + 3, Unit(f, at + 2))
\* skip_lm: n, vocabSize, the entries; the longest keys have no fallback weight.
SkipLm(f, at) ==
    LET entry(p) == SkipVector(f, p) + (IF Unit(f, p) # Unit(f, at) THEN 2 ELSE 1)
    IN  IF Unit(f, at) = 0 THEN at + 1 ELSE Repeat(entry, at + 3, Unit(f, at + 2))

\* A word, a list of candidates per tag level - each a string and one number - and what follows.
SkipCandidates(f, at, num_tags) ==
    LET candidate(p) == SkipVector(f, p) + 1
        level(p) == Repeat(candidate, p + 1, Unit(f, p))
    IN  Repeat(level, SkipVector(f, at), num_tags)

SkipSubwordEntry(f, at, num_tags) == SkipCandidates(f, at, num_tags)

SkipWordEntry(f, at, num_tags) ==
    LET tagModel(p) == SkipTagModel(f, p)
    IN  Repeat(tagModel, SkipCandidates(f, at, num_tags) + 1, num_tags)

WordEntry(f, at, num_tags) == [char_length |-> Unit(f, at), in_dict |-> Unit(f, SkipCandidates(f, at, num_tags))]

SkipGlobalTagModel(f, at) ==
    LET word(p) == SkipVector(f, p)
    IN  SkipTagModel(f, Repeat(word, at + 1, Unit(f, at)))

-----------------------------------------------------------------------------
(* What is kept: Automaton::read, and the checks of its payloads. *)

NoModel == [dictN |-> 0]
NoStates == [s \in {} |-> <<>>]

Dictionary(f, at, Step(_), Entry(_)) ==
    [num_dicts |-> Unit(f, at),
     states |-> IF HasStates(f, at) /\ Unit(f, at + 1) \in DOMAIN Graphs THEN Graphs[Unit(f, at + 1)] ELSE NoStates,
     payloads |-> IF HasStates(f, at) THEN [e \in 0 .. EntryCount(f, at) - 1 |-> Entry(EntryAt(f, at, Step, e))]
                  ELSE [e \in {} |-> 0]]

FeatureDictionary(f, at) ==
    LET step(p) == SkipVector(f, p)
        entry(p) == Vector(f, p)
    IN  Dictionary(f, at, step, entry)

WordDictionary(f, at, num_tags) ==
    LET step(p) == SkipWordEntry(f, p, num_tags)
        entry(p) == WordEntry(f, p, num_tags)
    IN  Dictionary(f, at, step, entry)

\* Every output is an entry, and check_payload accepts it at its state's depth.
Outputs(dict) ==
    UNION {{<<s, dict.states[s][k]>> : k \in DOMAIN dict.states[s]} : s \in DOMAIN dict.states}
IsSound(dict, Check(_, _)) ==
    \A o \in Outputs(dict) : o[2] \in DOMAIN dict.payloads /\ Check(dict.payloads[o[2]], Len(o[1]))

NgramVectorCheck(v, window) == Cardinality(DOMAIN v) >= 2 * window

WordEntryCheck_AnyDepth(e, depth) == e.char_length >= 1
WordEntryCheck(e, depth) == e.char_length >= 1 /\ e.char_length <= depth

CheckDictionaryFeatures(m) ==
    m.wordDict.states # NoStates /\ m.dictVector # <<>> =>
        /\ m.wordDict.num_dicts <= MaxDicts
        /\ m.dictN # 0
        /\ Cardinality(DOMAIN m.dictVector) >= m.wordDict.num_dicts * 3 * m.dictN

-----------------------------------------------------------------------------
(* Model::parse *)

\* The file's sections in order.
Sections ==
    <<"config", "chars", "types", "self", "dictVector", "biases", "tagDictVector", "tagUnkVector", "tagModels",
      "words", "subwords", "lms">>

NumTags(f) == Unit(f, 4)
NumClasses(f) == Unit(f, 14)
MultiplierAt(f) == 17 + NumClasses(f)

\* Where a section that starts at "at" ends; the first reaches to the feature lookup's flag.
SectionEnd(f, section, at) ==
    LET wordEntry(p) == SkipWordEntry(f, p, NumTags(f))
        subwordEntry(p) == SkipSubwordEntry(f, p, NumTags(f))
        tagModel(p) == SkipGlobalTagModel(f, p)
        lm(p) == SkipLm(f, p)
    IN  CASE section = "config" -> MultiplierAt(f) + 2
          [] section \in {"chars", "types", "self"} -> SkipFeatureDictionary(f, at)
          [] section \in {"dictVector", "biases", "tagDictVector", "tagUnkVector"} -> SkipVector(f, at)
          [] section = "tagModels" -> Repeat(tagModel, at, NumTags(f))
          [] section = "words" -> SkipAutomaton(f, at, wordEntry)
          [] section = "subwords" -> SkipAutomaton(f, at, subwordEntry)
          [] section = "lms" -> Repeat(lm, at, NumTags(f))

\* The position of every section, and of the end.
Layout(f) ==
    FoldLeft(LAMBDA l, s : ("end" :> SectionEnd(f, s, l["end"])) @@ (s :> l["end"]) @@ l, "end" :> 1, Sections)

HeaderOk(f) ==
    /\ Unit(f, 1) \in DOMAIN Headers
    /\ Headers[Unit(f, 1)] = [version |-> "0.4.0", format |-> "B", encoding |-> "utf8"]

ModelAt(f, l) ==
    LET biases == Vector(f, l["biases"])
    IN  [charWindow |-> Unit(f, 5), typeWindow |-> Unit(f, 7), dictN |-> Unit(f, 9),
         table |-> CharTable(Maps[Unit(f, 13)]), multiplier |-> Unit(f, MultiplierAt(f)),
         charDict |-> FeatureDictionary(f, l["chars"]), typeDict |-> FeatureDictionary(f, l["types"]),
         dictVector |-> Vector(f, l["dictVector"]), bias |-> IF biases = <<>> THEN 0 ELSE biases[0],
         wordDict |-> WordDictionary(f, l["words"], NumTags(f)), numDicts |-> Unit(f, l["words"])]

\* What the parser checks on its way, and what the scorer assumes.
ConfigOk(f) ==
    /\ HeaderOk(f)
    /\ NumTags(f) <= IntMax
    /\ Unit(f, 13) \in DOMAIN Maps /\ Decodes(Maps[Unit(f, 13)])
    /\ NumClasses(f) >= 2
    /\ Unit(f, MultiplierAt(f) + 1) # 0

ModelOk(m) ==
    LET chars(v, depth) == NgramVectorCheck(v, m.charWindow)
        types(v, depth) == NgramVectorCheck(v, m.typeWindow)
    IN  /\ IsSound(m.charDict, chars) /\ IsSound(m.typeDict, types) /\ IsSound(m.wordDict, WordEntryCheck)
        /\ CheckDictionaryFeatures(m)

\* load_from_bytes: whatever parse throws is one error, "malformed".
Load(f) ==
    LET l == Layout(f)
        whole == /\ l["end"] <= Len(f) + 1
                 /\ \A s \in {"chars", "types", "words"} :
                       HasStates(f, l[s]) => Unit(f, l[s] + 1) \in DOMAIN Graphs
        m == ModelAt(f, l)
    IN  IF ConfigOk(f) /\ whole /\ ModelOk(m) THEN [status |-> "ok", model |-> m]
        ELSE [status |-> "malformed", model |-> NoModel]

-----------------------------------------------------------------------------
(* What Automaton::match reports on a text's ids (module Automaton): at    *)
(* every position the outputs of the longest suffix that is a state.       *)

Reported(dict, ids) ==
    LET stateAt(e) ==
            LET suffixes == {p \in 1 .. e + 1 : SubSeq(ids, p, e) \in DOMAIN dict.states}
            IN  SubSeq(ids, Min(suffixes), e)
        at(e) == LET out == dict.states[stateAt(e)]
                 IN  [k \in DOMAIN out |-> [end |-> e - 1, payload |-> dict.payloads[out[k]]]]
    IN  IF dict.states = NoStates THEN <<>> ELSE FlattenSeq([e \in DOMAIN ids |-> at(e)])
=============================================================================
