------------------------------ MODULE BatchMap ------------------------------
(***************************************************************************)
(* What detail::run_batch promises its caller, whatever the number of      *)
(* threads: the results of fn over all the texts in input order, or one of *)
(* the exceptions fn threw - in one step, after which nothing changes.     *)
(* Text number i stands for its own result, and a text on which fn throws  *)
(* for its exception.                                                      *)
(***************************************************************************)
EXTENDS Integers

CONSTANT Size        \* texts.size()

VARIABLES
    throws,          \* the texts on which fn throws
    outcome          \* what the call has produced

vars == <<throws, outcome>>

Slots == 0 .. Size - 1

\* fn(texts[i]) for every i, result[i] corresponding to texts[i].
AllResults == [i \in Slots |-> i]

Pending == [kind |-> "pending"]
Value(results) == [kind |-> "value", results |-> results]
Exception(e) == [kind |-> "exception", text |-> e]

Init ==
    /\ throws \in SUBSET Slots
    /\ outcome = Pending

\* The call returns only when fn threw on no text.
Return ==
    /\ outcome = Pending
    /\ throws = {}
    /\ outcome' = Value(AllResults)
    /\ UNCHANGED throws

\* The call throws one of the exceptions of fn, and no other.
Throw ==
    /\ outcome = Pending
    /\ \E e \in throws : outcome' = Exception(e)
    /\ UNCHANGED throws

Next == Return \/ Throw

Spec == Init /\ [][Next]_vars /\ WF_vars(Next)
=============================================================================
