---------------------------- MODULE MCSpendLedger ----------------------------
(***************************************************************************)
(* A quota that resets on the second of the month, of queries that cost two *)
(* units each, and a wallet, of queries that cost half a unit, over a turn  *)
(* of the year: until January 2nd the period is December's.                *)
(***************************************************************************)
EXTENDS SpendLedger, TLC

On(y, m, d) == [y |-> y, m |-> m, d |-> d]
MCCalendar  == <<On(2026, 12, 2), On(2027, 1, 1), On(2027, 1, 2), On(2027, 1, 3)>>

MCProviders == {"tavily", "bocha"}
MCQuotas    == {"tavily"}
Of(a, b)    == [p \in MCProviders |-> IF p = "tavily" THEN a ELSE b]
MCPrice     == Of(4, 1)
MCAllowance == Of(12, 8)
MCNeed      == Of(8, 2)
MCSymmetry  == Permutations(Procs)
MCUsages    == {Of(0, 0), Of(2, 0), Of(1, 1)}

\* No command is under way at midnight.
NoneOvernight == \A c \in Procs : pc[c] # "idle" => today[c] = now
=============================================================================
