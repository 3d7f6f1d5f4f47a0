---------------------------- MODULE GraphemeRules ----------------------------
(***************************************************************************)
(* The extended grapheme cluster rules of UAX #29, as unicode/egc.h cites  *)
(* them (GB1 .. GB999, with GB9c as of Unicode 18.0), over the whole text  *)
(* before a position instead of over an incremental state.  A code point   *)
(* is the record of its three properties; s is the text up to and          *)
(* including the code point before which a boundary is asked for.          *)
(***************************************************************************)
EXTENDS Integers, Sequences

\* The values of Grapheme_Cluster_Break and Indic_Conjunct_Break.
GraphemeBreaks == {"Other", "CR", "LF", "Control", "Extend", "ZWJ", "RegionalIndicator",
                   "Prepend", "SpacingMark", "L", "V", "T", "LV", "LVT"}
IndicConjunctBreaks == {"None", "Consonant", "Extend", "Linker"}

GraphemeProps == [gcb : GraphemeBreaks, incb : IndicConjunctBreaks, pict : BOOLEAN]

Controls == {"Control", "CR", "LF"}

\* The GCB values of the two code points around the position, and the current one.
Cur(s) == s[Len(s)]
PrevBreak(s) == s[Len(s) - 1].gcb
CurBreak(s) == Cur(s).gcb

\* p ends with a linker followed by any number of InCB=Extend: GB9c's left side.
EndsLinked(p) ==
    \E j \in 1 .. Len(p) : /\ p[j].incb = "Linker"
                           /\ \A m \in j + 1 .. Len(p) : p[m].incb = "Extend"

\* p ends with ExtPict Extend*: GB11's left side without its ZWJ.
EndsPictographic(p) ==
    \E j \in 1 .. Len(p) : /\ p[j].pict
                           /\ \A m \in j + 1 .. Len(p) : p[m].gcb = "Extend"

\* The last code points of p from j on are a maximal run of regional indicators.
IsRIRun(p, j) ==
    /\ j \in 1 .. Len(p) + 1
    /\ \A m \in j .. Len(p) : p[m].gcb = "RegionalIndicator"
    /\ j = 1 \/ p[j - 1].gcb # "RegionalIndicator"

\* An odd number of regional indicators ends p.
EndsOddRI(p) == \E j \in 1 .. Len(p) : IsRIRun(p, j) /\ (Len(p) + 1 - j) % 2 = 1

Before(s) == SubSeq(s, 1, Len(s) - 1)

GB3(s) == PrevBreak(s) = "CR" /\ CurBreak(s) = "LF"
GB4(s) == PrevBreak(s) \in Controls
GB5(s) == CurBreak(s) \in Controls
GB6(s) == PrevBreak(s) = "L" /\ CurBreak(s) \in {"L", "V", "LV", "LVT"}
GB7(s) == PrevBreak(s) \in {"LV", "V"} /\ CurBreak(s) \in {"V", "T"}
GB8(s) == PrevBreak(s) \in {"LVT", "T"} /\ CurBreak(s) = "T"
GB9(s) == CurBreak(s) \in {"Extend", "ZWJ"}
GB9a(s) == CurBreak(s) = "SpacingMark"
GB9b(s) == PrevBreak(s) = "Prepend"
GB9c(s) == EndsLinked(Before(s)) /\ Cur(s).incb = "Consonant"
GB11(s) == /\ EndsPictographic(Before(Before(s)))
           /\ PrevBreak(s) = "ZWJ"
           /\ Cur(s).pict
GB12(s) == EndsOddRI(Before(s)) /\ CurBreak(s) = "RegionalIndicator"

\* The rules apply in order: GB3 keeps, GB4 and GB5 break, the rest keep,
\* and GB999 breaks everywhere else.  GB1 breaks at the start of the text.
Boundary(s) ==
    \/ Len(s) = 1
    \/ /\ ~GB3(s)
       /\ \/ GB4(s)
          \/ GB5(s)
          \/ ~(GB6(s) \/ GB7(s) \/ GB8(s) \/ GB9(s) \/ GB9a(s) \/ GB9b(s) \/ GB9c(s) \/ GB11(s) \/ GB12(s))
=============================================================================
