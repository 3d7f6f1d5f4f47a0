--------------------------- MODULE MCMlpTokenizer ---------------------------
(* Code points, texts and model files for MlpTokenizer. *)
EXTENDS MlpTokenizer

\* 1 is a half-width letter, 2 its full-width form, 3 a combining mark, 4 a
\* character that shares 2's first byte, 5 an astral one.
Encoding == <<<<10>>, <<20, 30>>, <<21, 31>>, <<20, 31>>, <<23, 30, 31>>>>
Normalization == <<2, 2, 3, 4, 5>>
Breaks == [c \in 1 .. 5 |-> [gcb |-> IF c = 3 THEN "Extend" ELSE "Other",
                             incb |-> IF c = 3 THEN "Extend" ELSE "None", pict |-> FALSE]]
Undecodable == 0

SomeTexts == {<<>>, <<3>>, <<1, 4>>, <<4, 3, 2, 3, 1, 4>>, <<5, 1, 4, 3>>, <<4, 0, 1>>}

Spread(n, a, top) == [i \in 1 .. n |-> ((i * a) % (2 * top + 1)) - top]

Dict2 == <<<<<<4>>, <<2, 4>>, <<>>, <<4, 0>>>>, <<<<1, 4>>, <<4, 3>>, <<2>>>>>>

WithDicts == [window |-> 1, embed_dim |-> 2, hidden |-> 5, vocab |-> <<2, 3, 5>>, dictionaries |-> Dict2,
              embedding |-> Spread(10, 4, 5), w1 |-> Spread(20, 7, 6), wdict |-> Spread(60, 11, 8),
              w2 |-> Spread(5, 3, 3), b1 |-> <<<<1, 1>>, <<-3, 1>>, <<2, 1>>, <<-2, 1>>, <<3, 1>>>>, b2 |-> <<2, 1>>]
Wider == [window |-> 2, embed_dim |-> 1, hidden |-> 5, vocab |-> <<4, 5>>, dictionaries |-> <<>>,
          embedding |-> Spread(4, 4, 6), w1 |-> Spread(20, 11, 9), wdict |-> <<>>,
          w2 |-> Spread(5, 3, 4), b1 |-> <<<<-2, 1>>, <<230, 1>>, <<2, 1>>, <<4, 1>>, <<-3, 1>>>>, b2 |-> <<-1, 1>>]
Small == [window |-> 1, embed_dim |-> 1, hidden |-> 1, vocab |-> <<4>>, dictionaries |-> <<<<<<4>>, <<4, 2>>>>>>,
          embedding |-> <<1, 2, -2>>, w1 |-> <<2, 1>>, wdict |-> <<1, 2, 3, -1, -2, -3>>,
          w2 |-> <<3>>, b1 |-> <<<<1, 1>>>>, b2 |-> <<-6, 1>>]

TopPercentile == <<3, 4>>
Activations == <<3, 11, 0, 7, 14>>
Export(qm, format) == [bytes |-> SerializeModel(qm, format), kind |-> "exported", q |-> qm]
Short(f, n) == [f EXCEPT !.bytes = SubSeq(@, 1, n), !.kind = "damaged"]
Changed(f, kind, at, to) == [f EXCEPT !.bytes = ReplaceAt(@, at, to), !.kind = kind]
Fst(intact, fst, id) == [intact |-> intact, of |-> [key \in DOMAIN fst.of |-> id]]

\* Small's file, unit by unit: header 1-2, configuration 3-7, scales 8-12, vocabulary
\* 13-14, tensors and biases 15-28, the FST 29-30, its sets 31-33, its channel 34.
Altered(f) ==
    <<f, [f EXCEPT !.bytes = Append(@, 0), !.kind = "damaged"],
      Changed(f, "damaged", 3, 0), Changed(f, "damaged", 8, <<0, 1>>), Changed(f, "damaged", 12, <<1, 0>>),
      Changed(f, "damaged", 13, 1), Changed(f, "damaged", 26, <<1000, 1>>),
      Changed(f, "damaged", 28, <<0, 0>>),
      Changed(f, "damaged", 30, Fst(FALSE, f.bytes[30], 0)), Changed(f, "damaged", 32, 1),
      Changed(f, "damaged", 34, 1),
      Changed(f, "odd", 30, Fst(TRUE, f.bytes[30], 1)),
      Changed(f, "odd", 30, Fst(TRUE, f.bytes[30], 2 ^ IdBits - 1)),
      Changed(f, "odd", 7, UnicodeVersion + 1)>>
        \o [n \in 1 .. Len(f.bytes) |-> Short(f, n - 1)]

SomeFiles ==
    <<Export(Quantize(WithDicts, Activations), "SegmentLibMLP"), Export(Quantize(Wider, Activations), "SegmentLibED")>>
        \o Altered(Export(Quantize(Small, <<8, 0, 8>>), "SegmentLibED"))
=============================================================================
