--------------------------- MODULE GraphemeBreaker ---------------------------
(***************************************************************************)
(* unicode::GraphemeBreaker (include/segmentlib/unicode/egc.h): finds the  *)
(* grapheme cluster boundaries of a text fed one code point at a time,     *)
(* with a state of a few bytes.  The history variable fed is what has      *)
(* been fed since the last reset; the code keeps nothing of it.            *)
(***************************************************************************)
EXTENDS GraphemeRules

CONSTANTS
    Props,       \* the property records in the generated table (egc_table.inc)
    Modulus,     \* ri_run_ is unsigned: it counts modulo 2^32
    MaxLength    \* bound of the model: code points fed between two resets

ASSUME BreakerAssumption ==
    /\ Props \subseteq GraphemeProps
    /\ Modulus \in Nat \ {0} /\ Modulus % 2 = 0
    /\ MaxLength \in Nat
    \* No pictographic is itself a ZWJ, as in Unicode's data.
    /\ \A c \in Props : c.pict => c.gcb # "ZWJ"

VARIABLES
    fed,         \* history: the code points fed so far
    at_start, prev, gb11, gb9c_linker, ri_run,
    is_break     \* what the last call of next returned

memberVars == <<at_start, prev, gb11, gb9c_linker, ri_run>>
breakerVars == <<fed, memberVars, is_break>>

BreakerInit ==
    /\ at_start = TRUE
    /\ prev = "Other"
    /\ gb11 = "None"
    /\ gb9c_linker = FALSE
    /\ ri_run = 0
    /\ fed = <<>>
    /\ is_break = FALSE

-----------------------------------------------------------------------------
(* The decision, from the state before c is fed. *)

HangulJoin(cur) ==
    \/ prev = "L" /\ cur \in {"L", "V", "LV", "LVT"}
    \/ prev \in {"LV", "V"} /\ cur \in {"V", "T"}
    \/ prev \in {"LVT", "T"} /\ cur = "T"

RIJoin_AnyRun(cur) == prev = "RegionalIndicator" /\ cur = "RegionalIndicator"
RIJoin(cur) == prev = "RegionalIndicator" /\ cur = "RegionalIndicator" /\ ri_run % 2 = 1

\* One of the rules GB6 .. GB13 keeps c with what precedes.
Joined(c) ==
    \/ HangulJoin(c.gcb)
    \/ c.gcb \in {"Extend", "ZWJ", "SpacingMark"}
    \/ prev = "Prepend"
    \/ gb9c_linker /\ c.incb = "Consonant"
    \/ gb11 = "PictographicZwj" /\ c.pict
    \/ RIJoin(c.gcb)

Decide(c) ==
    \/ at_start
    \/ /\ ~(prev = "CR" /\ c.gcb = "LF")
       /\ prev \in Controls \/ c.gcb \in Controls \/ ~Joined(c)

-----------------------------------------------------------------------------
(* The state after c is fed. *)

NextGb11_ZwjAlone(c) ==
    IF c.gcb = "ZWJ" THEN "PictographicZwj" ELSE IF c.pict THEN "Pictographic" ELSE "None"
NextGb11(c) ==
    CASE gb11 = "Pictographic" /\ c.gcb = "Extend" -> "Pictographic"
      [] gb11 = "Pictographic" /\ c.gcb = "ZWJ"    -> "PictographicZwj"
      [] gb11 # "Pictographic" \/ c.gcb \notin {"Extend", "ZWJ"} ->
            IF c.pict THEN "Pictographic" ELSE "None"

NextLinker(c) == c.incb = "Linker" \/ (gb9c_linker /\ c.incb = "Extend")

NextRun(c) == IF c.gcb = "RegionalIndicator" THEN (ri_run + 1) % Modulus ELSE 0

\* next(cp), with the properties c of cp.
Feed(c) ==
    /\ Len(fed) < MaxLength
    /\ is_break' = Decide(c)
    /\ gb11' = NextGb11(c)
    /\ gb9c_linker' = NextLinker(c)
    /\ ri_run' = NextRun(c)
    /\ at_start' = FALSE
    /\ prev' = c.gcb
    /\ fed' = Append(fed, c)

\* reset(): back to the members' initial values, for another text.
Reset ==
    /\ at_start' = TRUE
    /\ prev' = "Other"
    /\ gb11' = "None"
    /\ gb9c_linker' = FALSE
    /\ ri_run' = 0
    /\ fed' = <<>>
    /\ UNCHANGED is_break

BreakerNext == Reset \/ \E c \in Props : Feed(c)

BreakerSpec == BreakerInit /\ [][BreakerNext]_breakerVars

-----------------------------------------------------------------------------
BreakerTypeOK ==
    /\ fed \in Seq(Props)
    /\ at_start \in BOOLEAN
    /\ prev \in GraphemeBreaks
    /\ gb11 \in {"None", "Pictographic", "PictographicZwj"}
    /\ gb9c_linker \in BOOLEAN
    /\ ri_run \in 0 .. Modulus - 1
    /\ is_break \in BOOLEAN

(***************************************************************************)
(* The few bytes of state lose nothing the rules need: next reports a      *)
(* boundary exactly where UAX #29 has one, judged on the whole text -      *)
(* after any number of resets, and when the run counter has wrapped.       *)
(***************************************************************************)
BreaksByTheRules == fed # <<>> => (is_break <=> Boundary(fed))

(***************************************************************************)
(* What each member stands for, in terms of the text it has forgotten.     *)
(***************************************************************************)
StateMatchesText ==
    /\ at_start <=> fed = <<>>
    /\ fed # <<>> => prev = fed[Len(fed)].gcb
    /\ gb9c_linker <=> EndsLinked(fed)
    /\ gb11 = "Pictographic" <=> EndsPictographic(fed)
    /\ gb11 = "PictographicZwj" <=>
          fed # <<>> /\ fed[Len(fed)].gcb = "ZWJ" /\ EndsPictographic(Before(fed))
    /\ ri_run % 2 = 1 <=> EndsOddRI(fed)
=============================================================================
