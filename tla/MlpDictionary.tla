---------------------------- MODULE MlpDictionary ----------------------------
(***************************************************************************)
(* The dictionaries of the MLP and EDLA backends                           *)
(* (src/include/segmentlib/mlp/dictionary.h): compiling word lists into an *)
(* FST and interned channel sets, and the steps of features_into, which    *)
(* searches a sentence re-encoded in bytes and reports the features of the *)
(* boundaries between its clusters.                                        *)
(*                                                                         *)
(* A code point is a number, a word a sequence of them; Bad stands for     *)
(* bytes that do not decode.  An FST is the function from keys (sequences  *)
(* of bytes) to set ids it was compiled from, or a damaged byte code.      *)
(* Arrays are functions on 0 .. n - 1, as in the code; a sentence is       *)
(* "enc", an EncodedEgc.                                                   *)
(***************************************************************************)
EXTENDS Integers, Sequences, FiniteSets, SequencesExt, FiniteSetsExt

CONSTANTS
    Utf8,            \* code point -> its bytes
    Normal,          \* code point -> unicode::normalize of it
    Bad,             \* what no code point decodes from
    Buckets,         \* length buckets of a feature: 4 in the code
    WordBits,        \* bits of a mask word: 64
    IdBits           \* bits of a set id: 32

ASSUME DictionaryAssumption ==
    /\ Buckets \in Nat \ {0} /\ WordBits \in Nat \ {0} /\ IdBits \in Nat \ {0}
    /\ \A c \in DOMAIN Utf8 : Utf8[c] \in Seq(Nat) \ {<<>>}
    /\ DOMAIN Normal \subseteq DOMAIN Utf8 /\ \A c \in DOMAIN Normal : Normal[c] \in DOMAIN Utf8
    /\ Bad \notin DOMAIN Normal

FeaturesPerDict == 3 * Buckets
Left == 0
Inside == 1
Right == 2

Array(s) == [i \in 0 .. Len(s) - 1 |-> s[i + 1]]
Size(array) == Cardinality(DOMAIN array)
Bytes(cps) == FlattenSeq([i \in DOMAIN cps |-> Utf8[cps[i]]])

-----------------------------------------------------------------------------
(* compile_dictionaries *)

Valid(word) == \A i \in DOMAIN word : word[i] # Bad
NormalizedUtf8(word) == Bytes([i \in DOMAIN word |-> Normal[word[i]]])

\* The (entry, channel) pairs: words that cannot match are dropped.
Flat(dictionaries) ==
    UNION {{<<NormalizedUtf8(dictionaries[d][i]), d - 1>> :
               i \in {k \in DOMAIN dictionaries[d] : dictionaries[d][k] # <<>> /\ Valid(dictionaries[d][k])}} :
           d \in DOMAIN dictionaries}

BytesBefore(k, l) ==
    \/ IsStrictPrefix(k, l)
    \/ \E i \in 1 .. Min({Len(k), Len(l)}) : k[i] < l[i] /\ SubSeq(k, 1, i - 1) = SubSeq(l, 1, i - 1)

\* The numbers of a set in order: each after those that are less.
Ascending(ids) ==
    [k \in 1 .. Cardinality(ids) |-> CHOOSE id \in ids : Cardinality({x \in ids : x < id}) = k - 1]

\* The distinct channel sets, by their first use in the order of the keys.
Interned(channels) ==
    LET firsts == Ascending({i \in DOMAIN channels : \A k \in 1 .. i - 1 : channels[k] # channels[i]})
    IN  [s \in DOMAIN firsts |-> channels[firsts[s]]]

PositionOf(x, s) == CHOOSE i \in DOMAIN s : s[i] = x

\* fst::compile of the sorted keys, and the sets in CSR form.
Assembled(num_dicts, keys, channels, sets) ==
    [num_dicts |-> num_dicts,
     fst |-> IF keys = <<>> THEN <<>>
             ELSE <<[intact |-> TRUE,
                     of |-> [key \in ToSet(keys) |-> PositionOf(channels[PositionOf(key, keys)], sets) - 1]]>>,
     offsets |-> [s \in 1 .. Len(sets) + 1 |-> Len(FlattenSeq(SubSeq(sets, 1, s - 1)))],
     dicts |-> FlattenSeq(sets)]

ChannelsOfKeys(flat, keys, num_dicts) ==
    [i \in DOMAIN keys |-> Ascending({d \in 0 .. num_dicts - 1 : <<keys[i], d>> \in flat})]

CompileSorted(num_dicts, keys, channels) == Assembled(num_dicts, keys, channels, Interned(channels))

CompileFlat(flat, keys, num_dicts) == CompileSorted(num_dicts, keys, ChannelsOfKeys(flat, keys, num_dicts))

CompileDictionaries(dictionaries) ==
    CompileFlat(Flat(dictionaries), SetToSortSeq({e[1] : e \in Flat(dictionaries)}, BytesBefore), Len(dictionaries))

-----------------------------------------------------------------------------
(* DictMatcher: a compiled set as the loader or the trainer hands it over. *)

HasImpl(matcher) == matcher.fst # <<>>
FeatureCount(matcher) == matcher.num_dicts * FeaturesPerDict

EgcCount(enc) == Max({Len(enc.egc_starts) - 1, 0})
BoundariesOf(enc) == 0 .. EgcCount(enc) - 2
EgcCps(enc, i) == SubSeq(enc.cps, enc.egc_starts[i + 1] + 1, enc.egc_starts[i + 2])

NoFeatures == [offsets |-> <<>>, indices |-> <<>>, text |-> <<>>, egc_byte_starts |-> <<>>,
               egc_at_byte |-> <<>>, masks |-> <<>>, mask_words |-> 0]

\* Every boundary of an early return has an empty range.
EmptyRanges(dict, enc) ==
    [dict EXCEPT !.offsets = [b \in 0 .. Max({EgcCount(enc) - 1, 0}) |-> 0], !.indices = <<>>]

NoEgc == -1          \* kNoEgc: the byte starts no cluster

MaskWords(matcher) == (FeatureCount(matcher) + WordBits - 1) \div WordBits

\* The sentence as normalized UTF-8, with where clusters start, both ways.
Reencoded(dict, matcher, enc) ==
    LET m == EgcCount(enc)
        starts == [i \in 0 .. m |-> Len(Bytes(SubSeq(enc.cps, 1, enc.egc_starts[i + 1])))]
        bytes == Bytes(enc.cps)
    IN  [offsets |-> <<0>>, indices |-> <<>>,
         text |-> bytes,
         egc_byte_starts |-> starts,
         egc_at_byte |-> [p \in 0 .. Len(bytes) |->
                             IF \E i \in 0 .. m : starts[i] = p THEN CHOOSE i \in 0 .. m : starts[i] = p ELSE NoEgc],
         mask_words |-> MaskWords(matcher),
         masks |-> [w \in 0 .. (m - 1) * MaskWords(matcher) - 1 |-> {}]]

\* fst::map: the lengths of the prefixes of text that are keys.
KeyPrefixes(fst, text) == {n \in 1 .. Len(text) : SubSeq(text, 1, n) \in DOMAIN fst.of}

IdInRange_Narrow(matcher, id) == (id + 1) % 2 ^ IdBits < Size(matcher.offsets)
\* The set id, compared after widening, has a range of channels.
IdInRange(matcher, id) == id + 1 < Size(matcher.offsets)

EndsCluster(dict, p) == dict.egc_at_byte[p] # NoEgc

\* What the search from cluster s hands to the marking, shorter matches first:
\* those that end with a cluster, with a set id that exists.
Hits(dict, matcher, s) ==
    LET start == dict.egc_byte_starts[s]
        suffix == SubSeq(dict.text, start + 1, Len(dict.text))
        found == KeyPrefixes(matcher.fst[1], suffix)
        id(n) == matcher.fst[1].of[SubSeq(suffix, 1, n)]
        kept == Ascending({n \in found : EndsCluster(dict, start + n) /\ IdInRange(matcher, id(n))})
    IN  [k \in DOMAIN kept |-> [start |-> s, past |-> dict.egc_at_byte[start + kept[k]], id |-> id(kept[k])]]

ChannelsOf(matcher, id) == {matcher.dicts[k] : k \in matcher.offsets[id] .. matcher.offsets[id + 1] - 1}

LeftOf_Own(s) == s
LeftOf(s) == s - 1           \* the boundary before cluster s

\* The (boundary, feature) pairs one hit marks: L before it, I within, R after.
MarksOf(matcher, hit, boundaries) ==
    LET end == hit.past - 1
        bucket == Min({hit.past - hit.start, Buckets}) - 1
        feature(d, position) == d * FeaturesPerDict + position * Buckets + bucket
    IN  UNION {(IF hit.start >= 1 THEN {<<LeftOf(hit.start), feature(d, Left)>>} ELSE {})
                   \cup {<<b, feature(d, Inside)>> : b \in hit.start .. end - 1}
                   \cup (IF end < boundaries THEN {<<end, feature(d, Right)>>} ELSE {}) :
               d \in ChannelsOf(matcher, hit.id)}

Marked(dict, marks) ==
    LET word(m) == m[1] * dict.mask_words + m[2] \div WordBits
    IN  [dict EXCEPT !.masks = [w \in DOMAIN @ |-> @[w] \cup {m[2] % WordBits : m \in {x \in marks : word(x) = w}}]]

\* The masks as ranges of feature indices, lowest bit first.
Emitted(dict, enc) ==
    LET words == dict.mask_words
        row(b) == FlattenSeq([w \in 1 .. words |->
                      LET bits == Ascending(dict.masks[b * words + w - 1])
                      IN  [k \in DOMAIN bits |-> (w - 1) * WordBits + bits[k]]])
        rows == [b \in 1 .. Cardinality(BoundariesOf(enc)) |-> row(b - 1)]
    IN  [dict EXCEPT !.indices = FlattenSeq(rows),
                     !.offsets = [b \in 0 .. Len(rows) |-> Len(FlattenSeq(SubSeq(rows, 1, b)))]]

FeaturesAt(dict, b) == SubSeq(dict.indices, dict.offsets[b] + 1, dict.offsets[b + 1])
=============================================================================
