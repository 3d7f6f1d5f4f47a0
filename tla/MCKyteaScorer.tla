---------------------------- MODULE MCKyteaScorer ----------------------------
(* Model files, as KyTea writes them, and texts for KyteaScorer. *)
EXTENDS KyteaScorer

\* "KTHRDO", U+3042, U+6C34, a full-width A and U+20000 have ids 1 to 10.
A == <<227, 129, 130>>
Mizu == <<230, 176, 180>>
WideA == <<239, 188, 161>>
Astral == <<240, 160, 128, 128>>
Types == <<75, 84, 72, 82, 68, 79>>

SomeMaps ==
    <<Types \o A \o Mizu \o WideA \o Astral,
      Types \o A \o <<84>> \o A \o Mizu \o WideA \o Astral,        \* with repetitions
      [k \in 1 .. 20 |-> 64 + k],                                   \* more than there are ids
      Types \o <<227, 129>>>>                                       \* cut inside a character
SomeHeaders ==
    <<[version |-> "0.4.0", format |-> "B", encoding |-> "utf8"],
      [version |-> "0.4.0NQ", format |-> "B", encoding |-> "utf8"]>>

\* The states of a dictionary of words, of character n-grams and of type n-grams.
SomeGraphs ==
    <<<<>> :> <<>> @@ <<7>> :> <<0>> @@ <<7, 8>> :> <<1, 2>> @@ <<8>> :> <<2>> @@ <<8, 9>> :> <<3>>
          @@ <<7, 8, 9>> :> <<4, 3>>,
      <<>> :> <<>> @@ <<7>> :> <<0>> @@ <<7, 8>> :> <<1>> @@ <<10>> :> <<0>>,
      <<>> :> <<>> @@ <<3>> :> <<0>> @@ <<3, 1>> :> <<1>>>>

-----------------------------------------------------------------------------
(* KyTea's writer. *)

Vec(v) == <<Len(v)>> \o v
Str(n) == Vec([k \in 1 .. n |-> 7])
All(Put(_), things) == FlattenSeq([k \in DOMAIN things |-> Put(things[k])])
Dict(d, Put(_)) ==
    <<d.num_dicts, d.graph>> \o (IF d.graph = 0 THEN <<>> ELSE <<Len(d.entries)>> \o All(Put, d.entries))
NoDict == [num_dicts |-> 0, graph |-> 0, entries |-> <<>>]
SelfDict == [num_dicts |-> 1, graph |-> 2, entries |-> <<<<5, 6>>, <<>>>>]

\* A tag model: absent, without a lookup, or with one.
TagModel(kind) ==
    CASE kind = "absent" -> <<0>>
      [] kind = "bare" -> <<3, 5, 1, 2, 3, 1, 9, 0>>
      [] OTHER -> <<2, 5, 1, 2, 1, 9, 1>> \o Dict(SelfDict, Vec) \o Dict(NoDict, Vec) \o Dict(SelfDict, Vec)
                     \o Vec(<<1>>) \o Vec(<<>>) \o Vec(<<1, 2>>) \o Vec(<<3>>)

Candidates(n) == <<n>> \o FlattenSeq([k \in 1 .. n |-> Str(k) \o <<1>>])

\* A language model over keys of up to two characters.
Lm(kind) == IF kind = "absent" THEN <<0>> ELSE <<2, 9, 2>> \o Str(1) \o <<1, 1>> \o Str(2) \o <<1>>

Levels(m) == [k \in 1 .. m.num_tags |-> k]
Fields(m) ==
    LET word(e) == Str(e.char_length) \o All(LAMBDA k : Candidates(k), Levels(m)) \o <<e.in_dict>>
                       \o All(LAMBDA k : TagModel(IF k = 1 THEN "absent" ELSE "full"), Levels(m))
        subword(n) == Str(n) \o All(LAMBDA k : Candidates(k - 1), Levels(m))
    IN  <<1, 1, 1, m.num_tags, m.charWindow, 3, m.typeWindow, 3, m.dictN, 0, 0, 5, m.map>>
        \o <<2, 5, -1, 1, 1, m.multiplier, 1>>
        \o Dict(m.chars, Vec) \o Dict(m.types, Vec) \o Dict(IF m.num_tags = 0 THEN NoDict ELSE SelfDict, Vec)
        \o Vec(m.dictVector) \o Vec(m.biases) \o Vec(<<>>) \o Vec(<<4>>)
        \o All(LAMBDA k : <<2>> \o Str(1) \o Str(2) \o TagModel(IF k = 1 THEN "full" ELSE "bare"), Levels(m))
        \o Dict(m.words, word)
        \o Dict(IF m.num_tags = 0 THEN NoDict ELSE [num_dicts |-> 0, graph |-> 3, entries |-> <<1, 2>>], subword)
        \o All(LAMBDA k : Lm(IF k = 1 THEN "some" ELSE "absent"), Levels(m))

FromZero(v) == [k \in 0 .. Len(v) - 1 |-> v[k + 1]]
Kept(d, Entry(_)) ==
    [num_dicts |-> d.num_dicts, states |-> IF d.graph = 0 THEN NoStates ELSE SomeGraphs[d.graph],
     payloads |-> FromZero([k \in DOMAIN d.entries |-> Entry(d.entries[k])])]
Written(m, kind) ==
    [fields |-> Fields(m), kind |-> kind,
     expected |-> [charWindow |-> m.charWindow, typeWindow |-> m.typeWindow, dictN |-> m.dictN,
                   table |-> CharTable(SomeMaps[m.map]), multiplier |-> m.multiplier,
                   charDict |-> Kept(m.chars, FromZero), typeDict |-> Kept(m.types, FromZero),
                   dictVector |-> FromZero(m.dictVector), bias |-> IF m.biases = <<>> THEN 0 ELSE m.biases[1],
                   wordDict |-> Kept(m.words, LAMBDA e : e), numDicts |-> m.words.num_dicts]]

-----------------------------------------------------------------------------
(* Weights that tell every set and every count of features apart. *)

Word(n, mask) == [char_length |-> n, in_dict |-> mask]
Dictionary2 == [num_dicts |-> 2, graph |-> 1, entries |-> <<Word(1, 1), Word(2, 3), Word(1, 2), Word(2, 0), Word(3, 3)>>]
Dictionary1 == [Dictionary2 EXCEPT !.num_dicts = 1]
Weights(window, x) == [j \in 1 .. 2 * window |-> x + 7 * j]
Powers(n) == [k \in 1 .. n |-> (IF k % 2 = 1 THEN 1 ELSE -1) * 4 ^ (k - 1)]

TwoDicts == [num_tags |-> 2, charWindow |-> 1, typeWindow |-> 2, dictN |-> 2, map |-> 1, multiplier |-> 1,
             chars |-> [num_dicts |-> 0, graph |-> 2, entries |-> <<Weights(1, 1), Weights(1, -5)>>],
             types |-> [num_dicts |-> 0, graph |-> 3, entries |-> <<Weights(2, 2), Weights(2, -30)>>],
             dictVector |-> Powers(12), biases |-> <<-3>>, words |-> Dictionary2]
OneDict == [TwoDicts EXCEPT !.num_tags = 0, !.dictN = 1, !.map = 2, !.dictVector = <<1, 5, 25>>, !.multiplier = 2,
                            !.words = Dictionary1, !.chars = NoDict]
NoWords == [TwoDicts EXCEPT !.num_tags = 1, !.map = 3, !.biases = <<>>, !.words = NoDict, !.dictN = 0]

Good == <<TwoDicts, OneDict, NoWords>>
\* A word shorter than its string, and a mask of dictionaries there are not.
Odd == [OneDict EXCEPT !.words.entries[5].char_length = 2, !.words.entries[4].in_dict = 255]
\* What the scorer could not index by.
Bad ==
    <<[OneDict EXCEPT !.dictN = 0], [OneDict EXCEPT !.dictVector = <<1, 5>>],
      [TwoDicts EXCEPT !.words.num_dicts = 9], [TwoDicts EXCEPT !.chars.entries[2] = <<1>>],
      [TwoDicts EXCEPT !.typeWindow = 3], [OneDict EXCEPT !.words.entries[1].char_length = 2],
      [OneDict EXCEPT !.words.entries[5].char_length = 0], [OneDict EXCEPT !.words.entries = SubSeq(@, 1, 4)]>>
\* Another version, too many tag levels, a broken map, too few classes, no feature lookup.
Edits == <<<<1, 2>>, <<4, IntMax + 1>>, <<13, 4>>, <<14, 1>>, <<20, 0>>>>

KindOf(k) == IF k <= Len(Good) THEN "written" ELSE IF k = Len(Good) + 1 THEN "odd" ELSE "damaged"
FilesOf(models) == <<>> \o [k \in DOMAIN models |-> Written(models[k], KindOf(k))]

Damaged(fields) == [fields |-> fields, kind |-> "damaged", expected |-> NoModel]
Altered(files) ==
    LET one == files[2].fields
        two == files[1].fields
    IN  files \o [k \in DOMAIN Edits |-> Damaged(ReplaceAt(one, Edits[k][1], Edits[k][2]))]
              \o [n \in DOMAIN two |-> Damaged(SubSeq(two, 1, n - 1))]

SomeFiles == Altered(FilesOf(Good \o <<Odd>> \o Bad))

SomeTexts ==
    {<<>>, A, A \o Mizu, Mizu \o A, A \o A, <<65>> \o Mizu, Astral \o A, A \o Mizu \o <<65>>, Mizu \o <<65>> \o A,
     A \o Mizu \o A, <<33>> \o A \o Mizu, A \o <<227, 129>>, <<192, 129>>, <<237, 160, 128>> \o A}
=============================================================================
