--------------------------- MODULE MCPredictCommand ---------------------------
(* Argument lists for PredictCommand: all short ones, and some longer. *)
EXTENDS PredictCommand

SomeCounts == "0" :> 0 @@ "4" :> 4 @@ "5" :> 5

Tokens == {"--model", "--threads", "m", "", "4", "5", "4abc", "-1"}

Model == <<"--model", "m">>

SomeArgumentLists ==
    UNION {[1 .. n -> Tokens] : n \in 0 .. 3}
        \cup {Model \o <<"--threads", v>> : v \in Tokens}
        \cup {<<"--threads", v>> \o Model : v \in Tokens}
        \cup {Model \o <<"--model", v>> : v \in {"", "--threads"}}
        \cup {<<"--threads", "4", "--threads", "0">> \o Model,
              <<"--threads", "4abc", "--threads", "4">> \o Model}
=============================================================================
