--------------------------- MODULE GoldAllocation ---------------------------
(***************************************************************************)
(* `irc gold` and `irc allocate` (commands/gold_cmd.py, allocate_cmd.py,   *)
(* allocation/): the gold stage reads the regime of the price and the      *)
(* drivers and writes a tilt; the allocation takes the scores of the day,  *)
(* or of the latest day that has any, the tilt beside them, and turns the  *)
(* class targets into a weight per fund.  A weight is a count of units,    *)
(* Whole of them to the portfolio; a composite score is a small level and  *)
(* Expo its exponential.  A fund is its place in the score table, and an   *)
(* allocation a function from places to weights: of the order of the       *)
(* file's rows only what breaks a tie is kept.                             *)
(***************************************************************************)
EXTENDS Integers, Sequences, FiniteSets, SequencesExt, FiniteSetsExt, Functions

CONSTANTS
    Center,           \* the target of each class, in units
    GoldBand,         \* <<low, high>> of gold
    Tables,           \* the score tables each day may have: sequences of rows
    SatelliteRoles,   \* the roles that start with "satellite_"
    Levels, Expo,     \* composite scores, and e^(score / 10) of each
    AllocTopK,        \* PER_CLASS_TOP_K
    SatelliteCap,     \* DEFAULT_SATELLITE_QDII_MAX_WEIGHT
    Point,            \* units in one per cent
    Markets,          \* what the gold price may look like: vol, adx low, and the sign
    DriverScores,     \* what compute_gold_score may come to
    NoTrackedIndex,
    LastGoldDay       \* bound

Classes == DOMAIN Center
Total(f) == SumFunctionOnSet(f, DOMAIN f)
Whole == Total(Center)
\* _QDII_ASSET_CLASSES, sorted
QdiiOrder == <<"hk_etf", "qdii_global", "us_etf">>

\* The scores of a day: a fund has one row.
IsTable(table) ==
    /\ table \in Seq(Range(table))
    /\ \A i \in DOMAIN table :
          table[i].class \in Classes /\ table[i].score \in Levels /\ table[i].id \in Int
    /\ \A i, j \in DOMAIN table : table[i].id = table[j].id => i = j

ASSUME GoldAssumption ==
    /\ "gold" \in Classes /\ Center \in [Classes -> Nat] /\ IsFiniteSet(Classes)
    /\ Point \in Nat \ {0} /\ Whole = 100 * Point /\ Center["gold"] \in 0..(Whole - 1)
    /\ GoldBand \in (0..Whole) \X (0..Whole)
    /\ GoldBand[1] <= Center["gold"] /\ Center["gold"] <= GoldBand[2]
    /\ LastGoldDay \in Nat \ {0} /\ AllocTopK \in Nat \ {0} /\ SatelliteCap \in Nat \ {0}
    /\ Levels \subseteq Int /\ Expo \in [Levels -> Nat \ {0}]
    /\ \A d \in 1..LastGoldDay : \A table \in Tables[d] : IsTable(table)

VARIABLES
    goldDay,    \* today
    scored,     \* the latest scoring.json: its day and its rows
    goldFile,   \* gold_regime.json of each day
    proposed    \* proposed_allocation.yaml of today

goldVars == <<goldDay, scored, goldFile, proposed>>

NoGold == [regime |-> "none", drivers |-> "none", missing |-> 0, tilt |-> "none"]
NoProposal == [made |-> FALSE]
GoldDays == 1..LastGoldDay

GoldInit ==
    /\ goldDay = 1
    /\ scored = [day |-> 0, rows |-> <<>>]
    /\ goldFile = [d \in GoldDays |-> NoGold]
    /\ proposed = NoProposal

-----------------------------------------------------------------------------
(* The gold stage.                                                         *)

ClassifyRegime(m) ==
    IF m.volLow /\ m.adxLow THEN "range_bound"
    ELSE IF m.sign > 0 THEN "uptrend" ELSE IF m.sign < 0 THEN "downtrend" ELSE "neutral"

TiltOrder == <<"underweight", "neutral_minus", "neutral", "neutral_plus", "overweight">>
Floors == <<25, 45, 55, 75>>
GoldTiltFromScore(score) == TiltOrder[1 + Cardinality({i \in DOMAIN Floors : score >= Floors[i]})]

\* min of two tilts in the order of _TILT_ORDER.
MoreCautious(a, b) ==
    TiltOrder[CHOOSE i \in 1..5 : TiltOrder[i] \in {a, b}
                                  /\ \A j \in 1..(i - 1) : TiltOrder[j] \notin {a, b}]

CombineTilts(regime, drivers, missing) ==
    CASE missing >= 2 -> "neutral"
      [] missing = 1 -> MoreCautious(drivers, "neutral_plus")
      [] OTHER -> IF regime = "trending_down" /\ drivers = "overweight"
                  THEN "neutral_plus" ELSE drivers

\* A halted run leaves the file of an earlier one, and its code is not modelled here.
RunGold(fresh, listed, priced) ==
    /\ fresh /\ listed /\ priced
    /\ \E m \in Markets, score \in DriverScores,
          missing \in SUBSET {"cb_purchases", "etf_holdings"} :
          LET regime == ClassifyRegime(m)
              drivers == GoldTiltFromScore(score)
              lacks == Cardinality(missing)
          IN  goldFile' = [goldFile EXCEPT ![goldDay] =
                  [regime |-> regime, drivers |-> drivers, missing |-> lacks,
                   tilt |-> CombineTilts(regime, drivers, lacks)]]
    /\ UNCHANGED <<goldDay, scored, proposed>>

-----------------------------------------------------------------------------
(* Class weights.                                                          *)

TiltDelta(tilt) ==
    CASE tilt = "overweight" -> 5 * Point [] tilt = "neutral_plus" -> 2 * Point
      [] tilt = "neutral_minus" -> 0 - 2 * Point [] tilt = "underweight" -> 0 - 5 * Point
      [] OTHER -> 0
ApplyGoldTilt(tilt) == Max({GoldBand[1], Min({GoldBand[2], Center["gold"] + TiltDelta(tilt)})})

\* The others give up, or take, in proportion to their centers.
Others == Max({1, Whole - Center["gold"]})
TargetWeights(tilt) ==
    LET gold == ApplyGoldTilt(tilt)
        delta == gold - Center["gold"]
    IN  [c \in Classes |-> IF c = "gold" THEN gold
                           ELSE Center[c] - (delta * Center[c]) \div Others]

-----------------------------------------------------------------------------
(* The funds of a class and the share of each.                             *)

InClass(table, c) == {i \in DOMAIN table : table[i].class = c}

\* Python's stable sort, best first.
Outscores(table, i, j) ==
    \/ table[i].score > table[j].score
    \/ table[i].score = table[j].score /\ i < j

\* The best of every role first, then the best of what is left.
LeadsItsRole(table, i) ==
    \A j \in InClass(table, table[i].class) :
        table[j].role = table[i].role => j = i \/ Outscores(table, i, j)
PickedBefore(table, i, j) ==
    \/ LeadsItsRole(table, i) /\ ~LeadsItsRole(table, j)
    \/ (LeadsItsRole(table, i) <=> LeadsItsRole(table, j)) /\ Outscores(table, i, j)
SelectTopK(table, c) ==
    {i \in InClass(table, c) :
        Cardinality({j \in InClass(table, c) : PickedBefore(table, j, i)}) < AllocTopK}
Selected(table) == {i \in DOMAIN table : i \in SelectTopK(table, table[i].class)}

\* softmax_distribute of the class weight.
Pull(table) == [i \in DOMAIN table |-> Expo[table[i].score]]
PullOn(table, c) == SumFunctionOnSet(Pull(table), SelectTopK(table, c))
Sized(table, weights) ==
    [i \in Selected(table) |->
        (weights[table[i].class] * Pull(table)[i]) \div PullOn(table, table[i].class)]

ClassWeight(table, w, among, c) == SumFunctionOnSet(w, {i \in among : table[i].class = c})

-----------------------------------------------------------------------------
(* One fund per index in a class; the cap on satellites.                   *)

Beats(table, w, i, j) ==
    \/ w[i] > w[j]
    \/ w[i] = w[j] /\ table[i].score > table[j].score
    \/ w[i] = w[j] /\ table[i].score = table[j].score /\ table[i].id < table[j].id
IsDuplicate(table, w, j) ==
    /\ table[j].index # NoTrackedIndex
    /\ \E i \in DOMAIN w : /\ table[i].class = table[j].class /\ table[i].index = table[j].index
                           /\ Beats(table, w, i, j)
Undropped(table, w) == {i \in DOMAIN w : ~IsDuplicate(table, w, i)}

\* What the dropped rows had goes to the rows their class keeps, if those have any.
KeepAndPreserveClassTotals(table, w, kept) ==
    [i \in {j \in kept : ClassWeight(table, w, kept, table[j].class) > 0} |->
        (w[i] * ClassWeight(table, w, DOMAIN w, table[i].class))
            \div ClassWeight(table, w, kept, table[i].class)]

DropDuplicateIndexTrackers(table, w) ==
    IF Undropped(table, w) = DOMAIN w THEN w
    ELSE KeepAndPreserveClassTotals(table, w, Undropped(table, w))

IsSatelliteQdii(r) == r.role \in SatelliteRoles /\ r.class \in Range(QdiiOrder)
CapSatelliteQdii(table, w) ==
    [i \in DOMAIN w |-> IF IsSatelliteQdii(table[i]) /\ w[i] > SatelliteCap
                        THEN SatelliteCap ELSE w[i]]

\* Mutant: the weight shaved off goes to the best peer, a satellite or not.
HeadroomOfAnyone(table, w, i) == Whole

\* A row without a cap takes all there is.
Headroom(table, w, i) ==
    IF IsSatelliteQdii(table[i]) THEN Max({0, SatelliteCap - w[i]}) ELSE Whole

\* The rows of the classes that hold a satellite, the classes in their order and
\* the best row of each first; with nothing dropped, the rows without an index
\* come before their equals.
Peers(table, w) ==
    {i \in DOMAIN w : \E j \in DOMAIN w : table[j].class = table[i].class
                                          /\ IsSatelliteQdii(table[j])}
Place(c) == CHOOSE p \in DOMAIN QdiiOrder : QdiiOrder[p] = c
ListedBefore(table, regrouped, i, j) ==
    LET plain(k) == regrouped /\ table[k].index = NoTrackedIndex
    IN  \/ plain(i) /\ ~plain(j)
        \/ (plain(i) <=> plain(j)) /\ PickedBefore(table, i, j)
PouredBefore(table, regrouped, i, j) ==
    \/ Place(table[i].class) < Place(table[j].class)
    \/ /\ table[i].class = table[j].class
       /\ \/ table[i].score > table[j].score
          \/ table[i].score = table[j].score /\ ListedBefore(table, regrouped, i, j)

\* Each takes of the weight that was shaved off what those before it leave.
RedistributeShavedToClass(table, w, regrouped, shaved) ==
    LET room == [i \in DOMAIN w |-> Headroom(table, w, i)]
        before(i) == SumFunctionOnSet(room,
                        {j \in Peers(table, w) : PouredBefore(table, regrouped, j, i)})
    IN  [i \in DOMAIN w |->
            IF i \in Peers(table, w)
            THEN Min({shaved, before(i) + room[i]}) - Min({shaved, before(i)}) ELSE 0]

\* What no class with a satellite can take stays cash.
ApplySatelliteQdiiCap(table, w, regrouped) ==
    LET capped == CapSatelliteQdii(table, w)
        taken == RedistributeShavedToClass(table, capped, regrouped, Total(w) - Total(capped))
    IN  [i \in DOMAIN w |-> capped[i] + taken[i]]

Allocation(table, chosen) ==
    LET w == DropDuplicateIndexTrackers(table, chosen)
    IN  ApplySatelliteQdiiCap(table, w, DOMAIN w = DOMAIN chosen)

\* The quotients of the code are fractions.  Here the units are so fine that each
\* of them is whole, and what is shared out adds up.
IsExact(table, weights) ==
    LET chosen == Sized(table, weights)
        kept == Undropped(table, chosen)
    IN  /\ \A i \in Selected(table) :
              (weights[table[i].class] * Pull(table)[i]) % PullOn(table, table[i].class) = 0
        /\ \A i \in kept :
              LET of(among) == ClassWeight(table, chosen, among, table[i].class)
              IN  of(kept) > 0 => (chosen[i] * of(DOMAIN chosen)) % of(kept) = 0
ASSUME UnitsAreFine ==
    \A tilt \in Range(TiltOrder) :
        /\ \A c \in Classes \ {"gold"} :
              ((ApplyGoldTilt(tilt) - Center["gold"]) * Center[c]) % Others = 0
        /\ \A d \in 1..LastGoldDay : \A table \in Tables[d] : IsExact(table, TargetWeights(tilt))

-----------------------------------------------------------------------------

\* `irc score` writes scoring.json of today (bound: once a day).
WriteScores(table) ==
    /\ scored.day < goldDay
    /\ scored' = [day |-> goldDay, rows |-> table]
    /\ UNCHANGED <<goldDay, goldFile, proposed>>

\* run_allocate: the tilt is the one beside the scores it found.
RunAllocate ==
    LET gold == goldFile[scored.day]
        tilt == IF gold = NoGold THEN "neutral" ELSE gold.tilt
        weights == TargetWeights(tilt)
        chosen == Sized(scored.rows, weights)
        rows == Allocation(scored.rows, chosen)
    IN  /\ scored.day # 0
        /\ proposed' = [made |-> TRUE, from |-> scored, gold |-> gold, classes |-> weights,
                        chosen |-> chosen, rows |-> rows,
                        residual |-> Max({0, Whole - Total(rows)})]
        /\ UNCHANGED <<goldDay, scored, goldFile>>

NextGoldDay ==
    /\ goldDay < LastGoldDay
    /\ goldDay' = goldDay + 1 /\ proposed' = NoProposal
    /\ UNCHANGED <<scored, goldFile>>

GoldNext ==
    \/ \E fresh, listed, priced \in BOOLEAN : RunGold(fresh, listed, priced)
    \/ \E table \in Tables[goldDay] : WriteScores(table)
    \/ RunAllocate \/ NextGoldDay
GoldSpec == GoldInit /\ [][GoldNext]_goldVars

-----------------------------------------------------------------------------
(* Properties.                                                             *)

\* The files keep their shape.
GoldTypeOK ==
    /\ goldDay \in GoldDays /\ scored.day \in 0..goldDay
    /\ \A d \in GoldDays : goldFile[d] # NoGold => goldFile[d].tilt \in Range(TiltOrder)
    /\ proposed.made => \A i \in DOMAIN proposed.rows : proposed.rows[i] \in 0..Whole

\* The weights of the funds and the cash left over are the portfolio, and so are the class
\* weights: neither the tilt, the dropped duplicates nor the cap make or lose money
\* (allocation/pipeline.py:181, target_weights.py:140).
NothingIsLost ==
    proposed.made =>
        /\ Total(proposed.rows) + proposed.residual = Whole
        /\ Total(proposed.classes) = Whole

\* Whatever the tilt, gold stays inside its band (target_weights.py:27).
GoldStaysInBand ==
    proposed.made => proposed.classes["gold"] \in GoldBand[1]..GoldBand[2]

\* No satellite ends above the cap, the weight shaved off the others included, and no class
\* holds two funds of one index (target_weights.py:14, correlation_filter.py:24).
BetsStaySmall ==
    proposed.made =>
        LET table == proposed.from.rows
            rows == proposed.rows
        IN  /\ \A i \in DOMAIN rows : IsSatelliteQdii(table[i]) => rows[i] <= SatelliteCap
            /\ \A i, j \in DOMAIN rows :
                  i # j /\ table[i].class = table[j].class =>
                      table[i].index = NoTrackedIndex \/ table[i].index # table[j].index

\* A class with a scored fund gets its weight, unless a satellite of it was capped, and more
\* only when it has a satellite and so may take what another was relieved of; a dropped
\* duplicate leaves its weight to its class (pipeline.py:81, :103).
ClassesGetTheirWeight ==
    proposed.made =>
        LET table == proposed.from.rows
            rows == proposed.rows
        IN  \A c \in {r.class : r \in Range(table)} :
                LET held == {i \in DOMAIN rows : table[i].class = c}
                    weight == ClassWeight(table, rows, DOMAIN rows, c)
                    satellites == {i \in held : IsSatelliteQdii(table[i])}
                IN  /\ proposed.classes[c] > 0 => held # {}
                    /\ weight < proposed.classes[c] =>
                           \E i \in satellites : rows[i] = SatelliteCap
                    /\ weight > proposed.classes[c] => satellites # {}

\* A role the scores hold keeps a fund while its class has a slot for every role; only a
\* duplicate of a kept index may take it away (pipeline.py:30).
RolesKeepTheirPlace ==
    proposed.made =>
        LET table == proposed.from.rows
        IN  \A i \in DOMAIN table :
                LET peers == InClass(table, table[i].class)
                    kept == peers \cap DOMAIN proposed.rows
                IN  /\ proposed.classes[table[i].class] > 0
                    /\ Cardinality({table[j].role : j \in peers}) <= AllocTopK
                    => \/ \E j \in kept : table[j].role = table[i].role
                       \/ \E j \in peers \cap DOMAIN proposed.chosen :
                             /\ table[j].role = table[i].role /\ table[j].index # NoTrackedIndex
                             /\ \E k \in kept : table[k].index = table[j].index /\ k # j

\* Gold is weighted to the full only on both WGC series, and kept at its center when neither
\* is there, or when the day the scores are of has no gold file (gold_cmd.py:73).
TiltIsEarned ==
    proposed.made =>
        /\ proposed.classes["gold"] > Center["gold"] + 2 * Point => proposed.gold.missing = 0
        /\ proposed.gold = NoGold \/ proposed.gold.missing = 2 =>
               proposed.classes = Center

\* What the proposal of today says.
AllocationAddsUp ==
    /\ GoldTypeOK /\ NothingIsLost /\ GoldStaysInBand /\ BetsStaySmall
    /\ ClassesGetTheirWeight /\ RolesKeepTheirPlace /\ TiltIsEarned

\* "clamp to neutral_plus so we never aggressively buy into a downtrend"
\* (commands/gold_cmd.py:70): a gold file of a downtrend never says overweight.
DowntrendIsNotBought ==
    \A d \in GoldDays : goldFile[d].regime = "downtrend" => goldFile[d].tilt # "overweight"
=============================================================================
