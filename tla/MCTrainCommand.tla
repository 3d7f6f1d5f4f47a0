---------------------------- MODULE MCTrainCommand ----------------------------
(* Command lines and trained parameters for TrainCommand. *)
EXTENDS TrainCommand

SomeNumbers == "0" :> 0 @@ "1" :> 1 @@ "3" :> 3 @@ "4" :> 4 @@ "5" :> 5 @@ "7" :> 7 @@ "8" :> 8
SomeDecimals == "0" :> 0 @@ "0.5" :> 500 @@ "1" :> 1000 @@ "-1" :> 0 - 1000
NetDefaults == [char_window |-> 2, embed_dim |-> 3, hidden |-> 5, batch_size |-> 2, lr |-> 1,
                ed_feedback_decay |-> 1]

Mlp == <<"train", "--backend", "mlp", "--corpus", "c", "--model-out", "m">>
Ed == <<"train", "--backend", "ed", "--partial-corpus", "c", "--model-out", "m">>
Times(n, args) == FlattenSeq([k \in 1 .. n |-> args])

\* Accepted, with every limit reached.
Accepted ==
    {Mlp, Ed,
     Mlp \o <<"--char-window", "3", "--embed-dim", "4", "--hidden", "7", "--batch-size", "1">>
         \o Times(3, <<"--dict", "d">>),
     Ed \o <<"--char-window", "1", "--embed-dim", "1", "--hidden", "1", "--ed-learn-feedback",
             "--ed-feedback-decay", "0.5", "--ed-embedding-update", "pure", "--corpus", "e">>,
     \* an option takes another as its value; the last value counts
     Mlp \o <<"--dev-corpus", "--dict", "--backend", "ed", "--optimizer", "sgd", "--lr", "0.5">>}

Refused ==
    {<<>>, <<"-v">>, <<"--help">>, <<"dance">>, <<"train">>,
     Mlp \o <<"extra">>, Mlp \o <<"--dict">>, Mlp \o <<"--hidden", "x">>, Mlp \o <<"--hidden", "-1">>,
     Mlp \o <<"--lr", "0">>, Mlp \o <<"--lr", "-1">>, Mlp \o <<"--lr", "x">>,
     Mlp \o <<"--optimizer", "x">>, Mlp \o <<"--backend", "">>, Mlp \o <<"--model-out", "">>,
     Mlp \o <<"--backend", "kytea">>, Mlp \o <<"--backend", "x">>,
     Mlp \o <<"--ed-learn-feedback">>, Mlp \o <<"--ed-feedback-init", "1">>,
     Mlp \o <<"--ed-embedding-update", "pure">>, Ed \o <<"--ed-embedding-update", "x">>,
     Ed \o <<"--ed-learn-feedback", "--ed-feedback-decay", "1">>,
     <<"train", "--backend", "mlp", "--model-out", "m">>,
     Mlp \o Times(4, <<"--dict", "d">>)}
        \cup {Mlp \o <<o, "0">> : o \in {"--char-window", "--embed-dim", "--hidden", "--batch-size"}}
        \cup {Mlp \o o : o \in {<<"--char-window", "4">>, <<"--embed-dim", "5">>, <<"--hidden", "8">>}}

SomeCommandLines == Accepted \cup Refused

\* Layers that are all zero, biases at their limits and one beyond, and
\* activations that overflow.
SomeTrained ==
    {[pct |-> 0, b1 |-> 1, b2 |-> 1, w2 |-> 0],
     [pct |-> 1, b1 |-> 2, b2 |-> 2, w2 |-> 1],
     [pct |-> 1, b1 |-> 3, b2 |-> 2, w2 |-> 1],
     [pct |-> 1, b1 |-> 2, b2 |-> 3, w2 |-> 1],
     [pct |-> Inf, b1 |-> 1, b2 |-> 1, w2 |-> 1],
     [pct |-> NaN, b1 |-> 1, b2 |-> 1, w2 |-> 1]}
=============================================================================
