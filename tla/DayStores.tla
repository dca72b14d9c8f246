------------------------------ MODULE DayStores ------------------------------
(***************************************************************************)
(* What the market stores under data/ have in common: a file of rows per   *)
(* day, pruned to a window of trading days, and the cross-day map of a     *)
(* stock's industry, which both the monitor and the rotation radar read    *)
(* and both fill.                                                          *)
(***************************************************************************)
EXTENDS Integers, FiniteSets

CONSTANTS
    LastDay,      \* bounds the calendar: days are 1..LastDay
    TradingDays,  \* the days on which the exchange is open
    Symbols,      \* the stocks held by the funds
    Industries,   \* names a stock's industry may have
    MapMaxAge     \* MAX_AGE_DAYS of the industry map

CalendarDays == 1..LastDay

ASSUME DayAssumption ==
    /\ LastDay \in Nat \ {0}
    /\ TradingDays \subseteq CalendarDays
    /\ MapMaxAge \in Nat

VARIABLES
    today,
    industryMap   \* stock -> [name, seen], for the stocks ever seen

NoRows == [d \in {} |-> 0]

\* What is new replaces what was there under the same key.
Over(new, old) ==
    [k \in DOMAIN new \cup DOMAIN old |-> IF k \in DOMAIN new THEN new[k] ELSE old[k]]

-----------------------------------------------------------------------------
(* Rows by day.                                                            *)

\* The last n of a set of days.
LastOf(days, n) ==
    {d \in days : Cardinality({e \in days : d < e}) < n}

\* The days to keep when a row of day anchor is written; without a calendar
\* everything is kept.
PruneWindow(anchor, keep, calendar) ==
    IF calendar = {} THEN CalendarDays
    ELSE LastOf({d \in calendar : d <= anchor}, keep)

Prune(rows, anchor, keep, calendar) ==
    [d \in DOMAIN rows \cap PruneWindow(anchor, keep, calendar) |-> rows[d]]

\* A day's row replaces the row of that day.
MergeDay(rows, day, row) == Over([d \in {day} |-> row], rows)

-----------------------------------------------------------------------------
(* The industry map.                                                       *)

Industry == [name : Industries, seen : CalendarDays]

\* Every industry seen is stored with today's date, changed or not; a stock
\* without one keeps what it has.
MergeSeen(map, seen) ==
    Over([s \in DOMAIN seen |-> [name |-> seen[s], seen |-> today]], map)

RecordSeen(seen) == industryMap' = MergeSeen(industryMap, seen)

\* What is served: the stocks seen within MapMaxAge calendar days.
FreshSlice ==
    LET fresh == {s \in DOMAIN industryMap :
                    /\ industryMap[s].seen <= today
                    /\ today - industryMap[s].seen <= MapMaxAge}
    IN  [s \in fresh |-> industryMap[s].name]

DayStoresTypeOK ==
    /\ today \in CalendarDays
    /\ DOMAIN industryMap \subseteq Symbols
    /\ \A s \in DOMAIN industryMap : industryMap[s] \in Industry
=============================================================================
