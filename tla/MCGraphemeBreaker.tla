-------------------------- MODULE MCGraphemeBreaker --------------------------
(***************************************************************************)
(* GraphemeBreaker over the nineteen property records that occur in        *)
(* egc_table.inc, each code point of Unicode having one of them.           *)
(***************************************************************************)
EXTENDS GraphemeBreaker

Plain(b) == [gcb |-> b, incb |-> "None", pict |-> FALSE]

TableProps ==
    {Plain(b) : b \in GraphemeBreaks \ {"ZWJ"}} \cup
    {[gcb |-> "Other",  incb |-> "Consonant", pict |-> FALSE],
     [gcb |-> "Extend", incb |-> "Extend",    pict |-> FALSE],
     [gcb |-> "ZWJ",    incb |-> "Extend",    pict |-> FALSE],
     [gcb |-> "Other",  incb |-> "Linker",    pict |-> FALSE],
     [gcb |-> "Extend", incb |-> "Linker",    pict |-> FALSE],
     [gcb |-> "Other",  incb |-> "None",      pict |-> TRUE]}
=============================================================================
