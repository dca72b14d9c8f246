----------------------------- MODULE MarketProofs -----------------------------
(***************************************************************************)
(* What the rotation radar reports, what the monitor keeps of the market   *)
(* data it asked for, on what a published bias rests, and that none of the *)
(* processes that share the map of industries puts it back: for any        *)
(* boards, snapshots, histories, calendar, funds, answers and kills.       *)
(***************************************************************************)
EXTENDS MCMarket, MonitorProofs

-----------------------------------------------------------------------------
(* The band.                                                               *)

\* A composite: a fraction of which nothing but the denominator's sign is
\* known.
Composites == Int \X Nat

LEMMA EntersStays ==
    ASSUME NEW c \in Composites
    PROVE  Enters(c) => Stays(c)
BY DEF Composites, Enters, Stays, AtLeast

LEMMA BandIs ==
    ASSUME NEW n \in Nat, NEW p \in [1..n -> Composites], NEW i \in 1..n
    PROVE  /\ i > 1 /\ InBand(p, i - 1) => (InBand(p, i) <=> Stays(p[i]))
           /\ ~(i > 1 /\ InBand(p, i - 1)) => (InBand(p, i) <=> Enters(p[i]))
<1>1. \A j \in 1..n : Enters(p[j]) => Stays(p[j])
  BY EntersStays
<1>2. ASSUME i > 1, InBand(p, i - 1), Stays(p[i]) PROVE InBand(p, i)
  <2>1. PICK e \in 1..(i - 1) : Enters(p[e]) /\ \A j \in e..(i - 1) : Stays(p[j])
    BY <1>2 DEF InBand
  <2>2. \A j \in e..i : Stays(p[j])
    <3>1. TAKE j \in e..i
    <3>2. j = i \/ j \in e..(i - 1)
      BY <2>1
    <3>. QED
      BY <3>2, <2>1, <1>2
  <2>3. e \in 1..i
    BY <2>1
  <2>. QED
    BY <2>1, <2>2, <2>3 DEF InBand
<1>3. ASSUME InBand(p, i) PROVE Stays(p[i])
  <2>1. PICK e \in 1..i : Enters(p[e]) /\ \A j \in e..i : Stays(p[j])
    BY <1>3 DEF InBand
  <2>. QED
    BY <2>1
<1>4. ASSUME Enters(p[i]) PROVE InBand(p, i)
  <2>1. i \in 1..i /\ \A j \in i..i : Stays(p[j])
    BY <1>4, <1>1
  <2>. QED
    BY <2>1, <1>4 DEF InBand
<1>5. ASSUME InBand(p, i), ~Enters(p[i]) PROVE i > 1 /\ InBand(p, i - 1)
  <2>1. PICK e \in 1..i : Enters(p[e]) /\ \A j \in e..i : Stays(p[j])
    BY <1>5 DEF InBand
  <2>2. e # i
    BY <2>1, <1>5
  <2>3. e \in 1..(i - 1) /\ i > 1 /\ \A j \in e..(i - 1) : j \in e..i
    BY <2>1, <2>2
  <2>. QED
    BY <2>1, <2>3 DEF InBand
<1>. QED
  BY <1>2, <1>3, <1>4, <1>5

\* The band solves the equation of the flags, which therefore has a solution.
LEMMA FlagIs ==
    ASSUME NEW n \in Nat, NEW p \in [1..n -> Composites]
    PROVE  InBandFlags(p) = [i \in DOMAIN p |->
               IF i > 1 /\ InBandFlags(p)[i - 1] THEN Stays(p[i]) ELSE Enters(p[i])]
<1>. DEFINE Flag(g, i) == IF i > 1 /\ g[i - 1] THEN Stays(p[i]) ELSE Enters(p[i])
            band == [i \in 1..n |-> InBand(p, i)]
<1>1. DOMAIN p = 1..n
  OBVIOUS
<1>2. ASSUME NEW i \in 1..n PROVE InBand(p, i) = Flag(band, i)
  <2>1. InBand(p, i) \in BOOLEAN /\ Stays(p[i]) \in BOOLEAN /\ Enters(p[i]) \in BOOLEAN
    BY DEF InBand, Stays, Enters, AtLeast
  <2>2. i > 1 => i - 1 \in 1..n /\ (band[i - 1] <=> InBand(p, i - 1))
    OBVIOUS
  <2>. HIDE DEF band
  <2>3. CASE i > 1 /\ band[i - 1]
    BY <2>1, <2>2, <2>3, BandIs
  <2>4. CASE ~(i > 1 /\ band[i - 1])
    BY <2>1, <2>2, <2>4, BandIs
  <2>. QED
    BY <2>3, <2>4
<1>3. band = [i \in DOMAIN p |-> IF i > 1 /\ band[i - 1] THEN Stays(p[i]) ELSE Enters(p[i])]
  BY <1>1, <1>2
<1>. HIDE DEF band
<1>. QED
  BY <1>3, Zenon DEF InBandFlags

LEMMA FlagsAre ==
    ASSUME NEW n \in Nat, NEW p \in [1..n -> Composites], NEW i \in 1..n
    PROVE  /\ i > 1 /\ InBandFlags(p)[i - 1] => (InBandFlags(p)[i] <=> Stays(p[i]))
           /\ ~(i > 1 /\ InBandFlags(p)[i - 1]) => (InBandFlags(p)[i] <=> Enters(p[i]))
<1>1. DOMAIN p = 1..n
  OBVIOUS
<1>. QED
  BY <1>1, FlagIs

\* The flags are the recursion; the band is what they mean.
LEMMA FlagsAreBand ==
    ASSUME NEW n \in Nat, NEW p \in [1..n -> Composites], NEW i \in 1..n
    PROVE  InBandFlags(p)[i] <=> InBand(p, i)
<1>. DEFINE wrong == {j \in 1..n : ~(InBandFlags(p)[j] <=> InBand(p, j))}
<1>1. SUFFICES ASSUME wrong # {} PROVE FALSE
  OBVIOUS
<1>2. PICK j \in wrong : \A k \in wrong : j <= k
  <2>1. wrong \subseteq Nat
    OBVIOUS
  <2>. QED
    BY <1>1, <2>1, HasLeast
<1>3. j > 1 => (InBandFlags(p)[j - 1] <=> InBand(p, j - 1))
  <2>1. j > 1 => j - 1 \in 1..n /\ ~(j <= j - 1)
    BY <1>2
  <2>. QED
    BY <2>1, <1>2
<1>4. j \in 1..n /\ ~(InBandFlags(p)[j] <=> InBand(p, j))
  BY <1>2
<1>. QED
  BY <1>3, <1>4, FlagsAre, BandIs

\* ClassifyBoard says of a board what the course of its composite means.
LEMMA ClassifiedIs ==
    ASSUME NEW n \in Nat, NEW p \in [1..n -> Composites]
    PROVE  StateMeant(p, ClassifyBoard(p)[1])
<1>. DEFINE in(i) == InBandFlags(p)[i]
            falls == {i \in 2..n : in(i - 1) /\ ~in(i)}
            outs  == {i \in 1..n : ~in(i)}
            run   == IF outs = {} THEN n ELSE n - Max(outs)
            since == n - Max(falls) + 1
            early == {i \in 1..n : n - i >= EmergingWindow}
<1>0. EmergingWindow \in Nat
  BY RadarAssumption
<1>1. Len(p) = n
  OBVIOUS
<1>2. \A i \in 1..n : in(i) <=> InBand(p, i)
  BY FlagsAreBand
<1>3. ClassifyBoard(p)[1] =
        IF run > 0 THEN IF run <= EmergingWindow THEN "emerging" ELSE "hot"
        ELSE IF falls # {} /\ since <= EmergingWindow THEN "fading" ELSE "quiet"
  BY <1>1 DEF ClassifyBoard
<1>. outs \subseteq 0..n /\ falls \subseteq 0..n /\ falls \subseteq outs
  OBVIOUS
<1>. HIDE DEF falls, outs
<1>4. outs # {} => Max(outs) \in outs /\ \A i \in outs : i <= Max(outs)
  BY MaxIs, Zenon
<1>5. falls # {} => Max(falls) \in falls /\ \A i \in falls : i <= Max(falls)
  BY MaxIs, Zenon
<1>. HIDE DEF in
<1>6. CASE run > 0
  <2>1. PICK last \in 0..n : /\ run = n - last /\ last < n
                             /\ last = 0 \/ (last \in 1..n /\ ~in(last))
                             /\ \A i \in (last + 1)..n : in(i)
    <3>1. CASE outs = {}
      <4>1. run = n - 0 /\ 0 < n /\ \A i \in 1..n : in(i)
        BY <1>6, <3>1 DEF outs
      <4>. QED
        BY <4>1
    <3>2. CASE outs # {}
      <4>2. Max(outs) \in 1..n /\ ~in(Max(outs))
        BY <1>4, <3>2 DEF outs
      <4>1. \A i \in (Max(outs) + 1)..n : in(i)
        <5>1. TAKE i \in (Max(outs) + 1)..n
        <5>2. i \in 1..n /\ ~(i <= Max(outs))
          BY <4>2
        <5>. QED
          BY <1>4, <3>2, <5>2 DEF outs
      <4>3. run = n - Max(outs)
        BY <3>2
      <4>. HIDE DEF run
      <4>4. Max(outs) < n
        BY <4>2, <4>3, <1>6
      <4>. QED
        BY <4>1, <4>2, <4>3, <4>4
    <3>. QED
      BY <3>1, <3>2
  <2>2. CASE run > EmergingWindow
    <3>1. last + 1 \in early /\ \A j \in (last + 1)..n : InBand(p, j)
      BY <2>1, <2>2, <1>0, <1>2
    <3>2. ClassifyBoard(p)[1] = "hot"
      BY <1>3, <1>6, <2>1, <2>2, <1>0
    <3>. QED
      BY <1>1, <3>1, <3>2 DEF StateMeant
  <2>3. CASE run <= EmergingWindow
    <3>1. InBand(p, n)
      BY <2>1, <1>2
    <3>2. \A i \in early : last \in i..n /\ ~InBand(p, last)
      BY <2>1, <2>3, <1>0, <1>2
    <3>3. ClassifyBoard(p)[1] = "emerging"
      BY <1>3, <1>6, <2>3
    <3>. QED
      BY <1>1, <3>1, <3>2, <3>3 DEF StateMeant
  <2>. QED
    BY <2>1, <2>2, <2>3, <1>0
<1>7. CASE ~(run > 0)
  <2>1. ~InBand(p, n)
    <3>1. CASE n = 0
      BY <3>1 DEF InBand
    <3>2. CASE n # 0
      <4>1. outs # {} /\ Max(outs) = n
        <5>1. outs # {}
          BY <3>2, <1>7
        <5>2. Max(outs) \in 1..n
          BY <5>1, <1>4 DEF outs
        <5>. QED
          BY <5>1, <5>2, <1>7
      <4>2. n \in 1..n /\ ~in(n)
        BY <4>1, <1>4 DEF outs
      <4>. QED
        BY <4>2, <1>2
    <3>. QED
      BY <3>1, <3>2
  <2>2. \A i \in 2..n : i - 1 \in 1..n /\ i \in 1..n
    OBVIOUS
  <2>3. \A i \in 2..n : i \in falls <=> InBand(p, i - 1) /\ ~Stays(p[i])
    <3>1. TAKE i \in 2..n
    <3>2. InBand(p, i - 1) => (InBand(p, i) <=> Stays(p[i]))
      BY <2>2, BandIs
    <3>. QED
      BY <3>2, <2>2, <1>2 DEF falls
  <2>4. falls \subseteq 2..n
    BY DEF falls
  <2>5. CASE falls # {} /\ since <= EmergingWindow
    <3>0. Max(falls) \in 2..n /\ Max(falls) \in falls
      BY <2>5, <2>4, <1>5
    <3>1. /\ Max(falls) \in 2..n /\ n - Max(falls) < EmergingWindow
          /\ ~Stays(p[Max(falls)]) /\ InBand(p, Max(falls) - 1)
      BY <3>0, <2>5, <2>3, <1>0
    <3>2. ClassifyBoard(p)[1] = "fading"
      BY <1>3, <1>7, <2>5
    <3>. QED
      BY <1>1, <2>1, <3>1, <3>2 DEF StateMeant
  <2>6. CASE ~(falls # {} /\ since <= EmergingWindow)
    <3>1. \A i \in 2..n : n - i < EmergingWindow => i \notin falls
      <4>1. SUFFICES ASSUME NEW i \in falls PROVE ~(n - i < EmergingWindow)
        OBVIOUS
      <4>2. falls # {} /\ i <= Max(falls) /\ Max(falls) \in 2..n /\ i \in 2..n
        BY <4>1, <1>5, <2>4
      <4>. QED
        BY <4>2, <2>6, <1>0
    <3>2. ClassifyBoard(p)[1] = "quiet"
      BY <1>3, <1>7, <2>6
    <3>. QED
      BY <1>1, <2>1, <2>3, <3>1, <3>2 DEF StateMeant
  <2>. QED
    BY <2>5, <2>6
<1>. QED
  BY <1>6, <1>7

-----------------------------------------------------------------------------
(* The course of a board.                                                  *)

\* The days of a set are counted off without a gap.
LEMMA NthIs ==
    ASSUME NEW n \in Nat, NEW S, S \subseteq 0..n, NEW i \in 1..Cardinality(S)
    PROVE  \E d \in S : Cardinality({e \in S : e <= d}) = i
<1>. DEFINE upTo(d) == {e \in S : e <= d}
            late == {d \in S : Cardinality(upTo(d)) >= i}
<1>0. \A e \in S : e \in Nat
  OBVIOUS
<1>1. IsFiniteSet(S) /\ \A T \in SUBSET S : IsFiniteSet(T) /\ Cardinality(T) \in Nat
  <2>1. IsFiniteSet(0..n)
    BY FS_Interval
  <2>. QED
    BY <2>1, FS_Subset, FS_CardinalityType
<1>2. S # {}
  BY FS_EmptySet
<1>3. late # {}
  <2>1. Max(S) \in S /\ \A m \in S : m <= Max(S)
    BY <1>2, MaxIs
  <2>2. upTo(Max(S)) = S
    BY <2>1
  <2>. QED
    BY <2>1, <2>2, <1>1
<1>4. PICK d \in late : \A m \in late : d <= m
  <2>1. late \subseteq Nat
    BY <1>0
  <2>. QED
    BY <1>3, <2>1, HasLeast
<1>5. d \in S /\ d \in Nat /\ Cardinality(upTo(d)) >= i
  BY <1>4
<1>. DEFINE early == {e \in S : e < d}
<1>6. Cardinality(upTo(d)) = Cardinality(early) + 1
  <2>0. \A e \in S : (e <= d <=> e < d \/ e = d) /\ ~(d < d)
    BY <1>5, <1>0
  <2>1. upTo(d) = early \cup {d} /\ d \notin early /\ early \in SUBSET S
    BY <1>5, <2>0
  <2>. HIDE DEF upTo, early
  <2>2. IsFiniteSet(early)
    BY <2>1, <1>1
  <2>. QED
    BY <2>1, <2>2, FS_AddElement
<1>7. Cardinality(early) < i
  <2>1. CASE early = {}
    BY <2>1, FS_EmptySet
  <2>2. CASE early # {}
    <3>1. Max(early) \in early /\ \A m \in early : m <= Max(early)
      <4>1. early \subseteq 0..n
        OBVIOUS
      <4>. HIDE DEF early
      <4>. QED
        BY <2>2, <4>1, MaxIs
    <3>2. PICK m \in early : \A e \in early : e <= m
      BY <3>1
    <3>6. \A e \in S : e <= m <=> e < d
      BY <3>2, <1>5, <1>0
    <3>3. upTo(m) = early
      BY <3>6
    <3>4. m \in S /\ ~(d <= m)
      BY <3>2, <1>5
    <3>5. m \notin late
      BY <3>4, <1>4
    <3>7. Cardinality(early) \in Nat
      BY <1>1
    <3>. QED
      BY <3>3, <3>4, <3>5, <3>7
  <2>. QED
    BY <2>1, <2>2
<1>8. Cardinality(upTo(d)) \in Nat /\ Cardinality(early) \in Nat
  BY <1>1
<1>. HIDE DEF early
<1>9. Cardinality(upTo(d)) = i
  BY <1>5, <1>6, <1>7, <1>8
<1>. QED
  BY <1>5, <1>9

LEMMA CompositesAre ==
    ASSUME NEW sig, DOMAIN sig \subseteq Boards, NEW b \in DOMAIN sig,
           NEW fd \in BOOLEAN, NEW td \in BOOLEAN
    PROVE  CrossSectional(sig, fd, td)[b] \in Composites
<1>. DEFINE B == DOMAIN sig
            wFlow == IF fd \/ FlowLegDark(sig) THEN 0 ELSE 3
            wTurn == IF td \/ TurnLegDark(sig) THEN 0 ELSE 2
            span  == IF Cardinality(B) = 1 THEN 2 ELSE 2 * (Cardinality(B) - 1)
            r1 == RankTwice(LAMBDA c : sig[c].mom, B, b)
            r2 == RankTwice(LAMBDA c : sig[c].flow, B, b)
            r3 == RankTwice(LAMBDA c : sig[c].turn, B, b)
<1>1. CrossSectional(sig, fd, td)[b] = <<5 * r1 + wFlow * r2 + wTurn * r3, (5 + wFlow + wTurn) * span>>
  BY DEF CrossSectional
<1>2. \A T \in SUBSET B : Cardinality(T) \in Nat
  <2>1. IsFiniteSet(Boards)
    BY RadarAssumption
  <2>. QED
    BY <2>1, FS_Subset, FS_CardinalityType
<1>3. r1 \in Int /\ r2 \in Int /\ r3 \in Int
  BY <1>2 DEF RankTwice
<1>4. Cardinality(B) \in Nat /\ Cardinality(B) # 0
  <2>1. IsFiniteSet(B)
    BY RadarAssumption, FS_Subset
  <2>. QED
    BY <2>1, <1>2, FS_EmptySet
<1>5. span \in Nat
  BY <1>4
<1>6. wFlow \in {0, 3} /\ wTurn \in {0, 2}
  OBVIOUS
<1>. HIDE DEF wFlow, wTurn, span, r1, r2, r3
<1>7. 5 * r1 + wFlow * r2 + wTurn * r3 \in Int
  BY <1>3, <1>6
<1>8. (5 + wFlow + wTurn) * span \in Nat
  BY <1>5, <1>6
<1>. QED
  BY <1>1, <1>7, <1>8 DEF Composites

LEMMA SignalledAre ==
    ASSUME NEW series
    PROVE  DOMAIN BoardSignals(series) \subseteq Boards
BY DEF BoardSignals

LEMMA CourseIs ==
    ASSUME NEW series, \A c \in Boards : DOMAIN series[c] \subseteq CalendarDays,
           NEW fd \in BOOLEAN, NEW td \in BOOLEAN, NEW b
    PROVE  \E n \in Nat : PctlByDay(series, fd, td, b) \in [1..n -> Composites]
<1>. DEFINE days    == UNION {DOMAIN series[c] : c \in Boards}
            upTo(d) == [c \in Boards |-> Restrict(series[c], {e \in DOMAIN series[c] : e <= d})]
            sig     == [d \in days |-> BoardSignals(upTo(d))]
            ranked  == {d \in days : b \in DOMAIN sig[d]}
            nth(i)  == CHOOSE d \in ranked : Cardinality({e \in ranked : e <= d}) = i
<1>1. PctlByDay(series, fd, td, b) =
        [i \in 1..Cardinality(ranked) |-> CrossSectional(sig[nth(i)], fd, td)[b]]
  BY DEF PctlByDay
<1>2. ranked \subseteq 0..LastDay /\ LastDay \in Nat
  BY DayAssumption DEF CalendarDays
<1>3. \A d \in ranked : DOMAIN sig[d] \subseteq Boards /\ b \in DOMAIN sig[d]
  BY SignalledAre
<1>. HIDE DEF ranked, sig
<1>4. Cardinality(ranked) \in Nat
  <2>1. 0 \in Int /\ LastDay \in Int
    BY <1>2
  <2>2. IsFiniteSet(0..LastDay)
    BY <2>1, FS_Interval
  <2>. QED
    BY <1>2, <2>2, FS_Subset, FS_CardinalityType
<1>5. ASSUME NEW i \in 1..Cardinality(ranked)
      PROVE  CrossSectional(sig[nth(i)], fd, td)[b] \in Composites
  <2>1. \E d \in ranked : Cardinality({e \in ranked : e <= d}) = i
    BY <1>2, NthIs
  <2>2. nth(i) \in ranked
    BY <2>1
  <2>. QED
    BY <2>2, <1>3, CompositesAre
<1>. QED
  BY <1>1, <1>4, <1>5

-----------------------------------------------------------------------------
(* The radar's files.                                                      *)

DayRows == UNION {[D -> Row] : D \in SUBSET CalendarDays}

\* A map of industries, of today or before.
IsMap(map) ==
    /\ DOMAIN map \subseteq Symbols
    /\ \A s \in DOMAIN map : map[s] \in Industry /\ map[s].seen <= today

MapShape == today \in CalendarDays /\ IsMap(industryMap)

RadarShape ==
    /\ boardSeries \in [Boards -> DayRows]
    /\ holdings \subseteq BoardFunds
    /\ radar.at \in {"idle", "captured", "reported"}
    /\ radar.series \in [Boards -> DayRows]
    /\ seeding \in [at : {"off", "boards", "holdings"}, todo : SUBSET Boards,
                    raced : BOOLEAN, calendar : {TradingDays, {}}]
    /\ radarRuns \in 0..MaxRadarRuns

\* The report of the day, and what the ledger has of it.
ReportShape ==
    /\ radarReport.status \in DataStatuses
    /\ \A b \in DOMAIN radarReport.states :
          b \in Boards /\ radarReport.states[b].state \in BoardStates
    /\ radarLedger \cup radarSaid \subseteq [board : Boards, state : BoardStates \ {"quiet"}]

\* What a run that has reported is about to append was published, and the
\* ledger holds nothing that was not.
LedgerFollows ==
    /\ radar.at = "reported" => LedgerRows(radarReport.states) \subseteq radarSaid
    /\ LedgerIsOfTheDay

\* Unless the radar has run meanwhile, the boards a seed is still to backfill
\* are as young as when it looked.
SeedsTheYoung ==
    /\ seeding.todo # {} => seeding.at = "boards"
    /\ ~seeding.raced =>
          \A b \in seeding.todo : Cardinality(DOMAIN boardSeries[b]) < MinTd

RadarInv == MapShape /\ RadarShape /\ ReportShape /\ LedgerFollows /\ NoFabricatedLeg /\ SeedsTheYoung

LEMMA RowsAre ==
    ASSUME NEW rows
    PROVE  rows \in DayRows <=> /\ rows = [d \in DOMAIN rows |-> rows[d]]
                                /\ DOMAIN rows \subseteq CalendarDays
                                /\ \A d \in DOMAIN rows : rows[d] \in Row
<1>1. ASSUME rows \in DayRows
      PROVE  /\ rows = [d \in DOMAIN rows |-> rows[d]]
             /\ DOMAIN rows \subseteq CalendarDays
             /\ \A d \in DOMAIN rows : rows[d] \in Row
  <2>1. PICK D \in SUBSET CalendarDays : rows \in [D -> Row]
    BY <1>1 DEF DayRows
  <2>. QED
    BY <2>1
<1>2. ASSUME rows = [d \in DOMAIN rows |-> rows[d]], DOMAIN rows \subseteq CalendarDays,
             \A d \in DOMAIN rows : rows[d] \in Row
      PROVE  rows \in DayRows
  <2>1. rows \in [DOMAIN rows -> Row] /\ DOMAIN rows \in SUBSET CalendarDays
    BY <1>2, Zenon
  <2>. QED
    BY <2>1 DEF DayRows
<1>. QED
  BY <1>1, <1>2

LEMMA NoRowsIs == NoRows \in DayRows /\ DOMAIN NoRows = {}
<1>1. DOMAIN NoRows = {} /\ NoRows = [d \in DOMAIN NoRows |-> NoRows[d]]
  BY DEF NoRows
<1>. QED
  BY <1>1, RowsAre

LEMMA PruneIs ==
    ASSUME NEW rows, NEW anchor, NEW keep, NEW calendar
    PROVE  /\ DOMAIN Prune(rows, anchor, keep, calendar)
                = DOMAIN rows \cap PruneWindow(anchor, keep, calendar)
           /\ \A d \in DOMAIN Prune(rows, anchor, keep, calendar) :
                 Prune(rows, anchor, keep, calendar)[d] = rows[d]
           /\ rows \in DayRows => Prune(rows, anchor, keep, calendar) \in DayRows
<1>. DEFINE kept == Prune(rows, anchor, keep, calendar)
<1>1. /\ DOMAIN kept = DOMAIN rows \cap PruneWindow(anchor, keep, calendar)
      /\ \A d \in DOMAIN kept : kept[d] = rows[d]
      /\ kept = [d \in DOMAIN kept |-> kept[d]]
  BY DEF Prune
<1>2. rows \in DayRows => DOMAIN rows \subseteq CalendarDays /\ \A d \in DOMAIN rows : rows[d] \in Row
  BY RowsAre
<1>. HIDE DEF kept
<1>3. rows \in DayRows => kept \in DayRows
  BY <1>1, <1>2, RowsAre
<1>. QED
  BY <1>1, <1>3 DEF kept

LEMMA OverIs ==
    ASSUME NEW f, NEW g
    PROVE  /\ DOMAIN Over(f, g) = DOMAIN f \cup DOMAIN g
           /\ \A d \in DOMAIN f : Over(f, g)[d] = f[d]
           /\ \A d \in DOMAIN g \ DOMAIN f : Over(f, g)[d] = g[d]
BY DEF Over

LEMMA OverRows ==
    ASSUME NEW f, NEW g \in DayRows,
           DOMAIN f \subseteq CalendarDays, \A d \in DOMAIN f : f[d] \in Row
    PROVE  Over(f, g) \in DayRows
<1>. DEFINE both == Over(f, g)
<1>1. both = [d \in DOMAIN both |-> both[d]]
  BY DEF Over
<1>2. DOMAIN g \subseteq CalendarDays /\ \A d \in DOMAIN g : g[d] \in Row
  BY RowsAre
<1>3. DOMAIN both \subseteq CalendarDays /\ \A d \in DOMAIN both : both[d] \in Row
  BY <1>2 DEF Over
<1>. HIDE DEF both
<1>4. both \in DayRows
  BY <1>1, <1>3, RowsAre
<1>. QED
  BY <1>4 DEF both

LEMMA MergeIs ==
    ASSUME NEW rows, NEW day, NEW row
    PROVE  /\ DOMAIN MergeDay(rows, day, row) = DOMAIN rows \cup {day}
           /\ MergeDay(rows, day, row)[day] = row
           /\ \A d \in DOMAIN rows \ {day} : MergeDay(rows, day, row)[d] = rows[d]
BY DEF MergeDay, Over

LEMMA MergeRows ==
    ASSUME NEW rows \in DayRows, NEW day \in CalendarDays, NEW row \in Row
    PROVE  MergeDay(rows, day, row) \in DayRows
<1>. DEFINE one == [d \in {day} |-> row]
<1>1. DOMAIN one \subseteq CalendarDays /\ \A d \in DOMAIN one : one[d] \in Row
  OBVIOUS
<1>2. MergeDay(rows, day, row) = Over(one, rows)
  BY DEF MergeDay
<1>. HIDE DEF one
<1>. QED
  BY <1>1, <1>2, OverRows

LEMMA SpotIs ==
    ASSUME RadarInv, NEW spot \in Snapshots, NEW calendar
    PROVE  AppendSnapshot(spot, calendar) \in [Boards -> DayRows]
<1>1. SUFFICES ASSUME NEW b \in Boards PROVE AppendSnapshot(spot, calendar)[b] \in DayRows
  BY DEF AppendSnapshot
<1>2. CASE b \notin DOMAIN spot
  BY <1>2 DEF AppendSnapshot, RadarInv, RadarShape
<1>3. CASE b \in DOMAIN spot
  <2>1. boardSeries[b] \in DayRows /\ spot[b] \in Row /\ today \in CalendarDays
    BY <1>3, RadarAssumption DEF RadarInv, RadarShape, MapShape
  <2>2. MergeDay(boardSeries[b], today, spot[b]) \in DayRows
    BY <2>1, MergeRows
  <2>3. Prune(MergeDay(boardSeries[b], today, spot[b]), today, RadarKeep, calendar) \in DayRows
    BY <2>2, PruneIs
  <2>. QED
    BY <1>3, <2>3 DEF AppendSnapshot
<1>. QED
  BY <1>2, <1>3

LEMMA BackfillIs ==
    ASSUME RadarInv, NEW b \in Boards, NEW h \in Histories, NEW upTo \in {today - 1, today} \ {0},
           NEW calendar
    PROVE  SeedBackfill(b, BoardHistory(h, b, upTo), calendar) \in DayRows
<1>. DEFINE rows == BoardHistory(h, b, upTo)
<1>1. today \in 1..LastDay /\ LastDay \in Nat
  BY DayAssumption DEF RadarInv, MapShape, CalendarDays
<1>2. 1..upTo \subseteq CalendarDays
  BY <1>1 DEF CalendarDays
<1>3. h[b] \in [CalendarDays -> Row]
  BY RadarAssumption
<1>4. DOMAIN rows \subseteq CalendarDays /\ \A d \in DOMAIN rows : rows[d] \in Row
  BY <1>2, <1>3 DEF BoardHistory
<1>5. boardSeries[b] \in DayRows
  BY DEF RadarInv, RadarShape
<1>. HIDE DEF rows
<1>6. Over(rows, boardSeries[b]) \in DayRows
  BY <1>4, <1>5, OverRows
<1>7. Prune(Over(rows, boardSeries[b]), Max(DOMAIN rows), RadarKeep, calendar) \in DayRows
  BY <1>6, PruneIs
<1>. QED
  BY <1>7 DEF SeedBackfill, rows

\* What a report says of the boards: states that exist, and each leg for all
\* of them or for none.
LEMMA ReportIs ==
    ASSUME NEW series, NEW spot
    PROVE  LET report == ReportOf(series, spot)
               states == report.states
           IN  /\ report.status \in DataStatuses
               /\ \A b \in DOMAIN states : b \in Boards /\ states[b].state \in BoardStates
               /\ \A b, c \in DOMAIN states :
                     /\ states[b].flow = NoValue <=> states[c].flow = NoValue
                     /\ states[b].turn = NoValue <=> states[c].turn = NoValue
<1>. DEFINE sig == BoardSignals(series)
            fd == FlowDark(series, spot)
            td == TurnLegDark(sig)
            states == BuildStates(series, fd, td)
<1>1. ReportOf(series, spot).status = DataStatus(fd, td) /\ ReportOf(series, spot).states = states
  BY DEF ReportOf
<1>2. DataStatus(fd, td) \in DataStatuses
  BY DEF DataStatus, DataStatuses
<1>3. DOMAIN states = DOMAIN sig /\ \A b \in DOMAIN sig :
         /\ states[b].state = ClassifyBoard(PctlByDay(series, fd, td, b))[1]
         /\ states[b].flow = IF fd THEN NoValue ELSE sig[b].flow
         /\ states[b].turn = IF td THEN NoValue ELSE sig[b].turn
  BY DEF BuildStates
<1>4. DOMAIN sig \subseteq Boards
  BY SignalledAre
<1>5. ASSUME NEW p PROVE ClassifyBoard(p)[1] \in BoardStates
  BY DEF ClassifyBoard, BoardStates
<1>6. ~fd => \A b \in DOMAIN sig : sig[b].flow # NoValue
  BY DEF FlowDark, FlowLegDark
<1>7. ~td => \A b \in DOMAIN sig : sig[b].turn # NoValue
  BY DEF TurnLegDark
<1>. HIDE DEF sig, fd, td, states
<1>. QED
  BY <1>1, <1>2, <1>3, <1>4, <1>5, <1>6, <1>7

LEMMA MergeSeenIs ==
    ASSUME today \in CalendarDays, NEW map, IsMap(map), NEW seen,
           DOMAIN seen \subseteq Symbols, \A s \in DOMAIN seen : seen[s] \in Industries
    PROVE  /\ IsMap(MergeSeen(map, seen))
           /\ \A s \in DOMAIN map : /\ s \in DOMAIN MergeSeen(map, seen)
                                    /\ MergeSeen(map, seen)[s].seen >= map[s].seen
<1>. DEFINE new == [s \in DOMAIN seen |-> [name |-> seen[s], seen |-> today]]
<1>1. today \in Int /\ CalendarDays \subseteq Int
  BY DayAssumption DEF CalendarDays
<1>2. \A s \in DOMAIN new : new[s] \in Industry /\ new[s].seen = today
  BY DEF Industry
<1>3. \A s \in DOMAIN map : map[s] \in Industry /\ map[s].seen <= today /\ map[s].seen \in Int
  BY <1>1 DEF IsMap, Industry
<1>4. MergeSeen(map, seen) = Over(new, map)
  BY DEF MergeSeen
<1>5. DOMAIN new = DOMAIN seen
  OBVIOUS
<1>. HIDE DEF new
<1>6. IsMap(Over(new, map))
  BY <1>1, <1>2, <1>3, <1>5 DEF IsMap, Over
<1>7. \A s \in DOMAIN map : s \in DOMAIN Over(new, map) /\ Over(new, map)[s].seen >= map[s].seen
  BY <1>1, <1>2, <1>3 DEF Over
<1>. QED
  BY <1>4, <1>6, <1>7

LEMMA RadarInvAtFirst == RadarInit => RadarInv
<1>. SUFFICES ASSUME RadarInit PROVE RadarInv
  OBVIOUS
<1>. USE DEF RadarInit
<1>1. MapShape
  BY DayAssumption, NoRowsIs DEF MapShape, IsMap, CalendarDays
<1>2. RadarShape
  BY NoRowsIs, RadarAssumption DEF RadarShape, Idle, NoSeed
<1>3. ReportShape /\ NoFabricatedLeg
  BY NoRowsIs DEF ReportShape, NoReport, DataStatuses, NoFabricatedLeg
<1>4. LedgerFollows
  BY DEF LedgerFollows, Idle, LedgerIsOfTheDay, LedgerWasPublished, LedgerOncePerDay
<1>5. SeedsTheYoung
  BY DEF SeedsTheYoung, NoSeed
<1>. QED
  BY <1>1, <1>2, <1>3, <1>4, <1>5 DEF RadarInv

LEMMA LedgerRowsAre ==
    ASSUME NEW states, \A b \in DOMAIN states : b \in Boards /\ states[b].state \in BoardStates
    PROVE  /\ LedgerRows(states) \subseteq [board : Boards, state : BoardStates \ {"quiet"}]
           /\ \A r, q \in LedgerRows(states) : r.board = q.board => r = q
BY DEF LedgerRows

LEMMA RadarInvKept == RadarInv /\ [RadarNext]_radarVars => RadarInv'
<1>. SUFFICES ASSUME RadarInv, [RadarNext]_radarVars PROVE RadarInv'
  OBVIOUS
<1>. USE DEF RadarInv
<1>1. CASE RadarAbstains
  <2>. USE <1>1 DEF RadarAbstains, StartRadar
  <2>1. MapShape'
    BY DEF MapShape, IsMap
  <2>2. RadarShape'
    BY RadarAssumption DEF RadarShape
  <2>3. ReportShape' /\ NoFabricatedLeg'
    BY NoRowsIs DEF ReportShape, AbstainReport, DataStatuses, NoFabricatedLeg
  <2>4. LedgerFollows'
    BY DEF LedgerFollows, LedgerIsOfTheDay, LedgerWasPublished, LedgerOncePerDay
  <2>5. SeedsTheYoung'
    BY DEF SeedsTheYoung
  <2>. QED
    BY <2>1, <2>2, <2>3, <2>4, <2>5
<1>2. CASE Capture
  <2>0. PICK spot \in Snapshots, calendar \in {TradingDays, {}} :
          /\ boardSeries' = AppendSnapshot(spot, calendar)
          /\ radar' = [at |-> "captured", series |-> AppendSnapshot(spot, calendar), spot |-> spot]
    BY <1>2 DEF Capture
  <2>. USE <1>2 DEF Capture, StartRadar
  <2>1. MapShape'
    BY DEF MapShape, IsMap
  <2>2. RadarShape'
    <3>1. AppendSnapshot(spot, calendar) \in [Boards -> DayRows]
      BY SpotIs
    <3>2. seeding' \in [at : {"off", "boards", "holdings"}, todo : SUBSET Boards,
                        raced : BOOLEAN, calendar : {TradingDays, {}}]
      <4>. DEFINE r == seeding.at # "off"
      <4>1. r \in BOOLEAN /\ seeding' = [seeding EXCEPT !.raced = r]
        OBVIOUS
      <4>. HIDE DEF r
      <4>. QED
        BY <4>1 DEF RadarShape
    <3>. QED
      BY <2>0, <3>1, <3>2, RadarAssumption DEF RadarShape
  <2>3. ReportShape' /\ NoFabricatedLeg'
    BY DEF ReportShape, NoFabricatedLeg
  <2>4. LedgerFollows'
    BY <2>0 DEF LedgerFollows, LedgerIsOfTheDay, LedgerWasPublished, LedgerOncePerDay
  <2>5. SeedsTheYoung'
    BY DEF SeedsTheYoung, RadarShape
  <2>. QED
    BY <2>1, <2>2, <2>3, <2>4, <2>5
<1>3. CASE WriteReport
  <2>. DEFINE report == ReportOf(radar.series, radar.spot)
  <2>0. /\ report.status \in DataStatuses
        /\ \A b \in DOMAIN report.states : b \in Boards /\ report.states[b].state \in BoardStates
        /\ \A b, c \in DOMAIN report.states :
              /\ report.states[b].flow = NoValue <=> report.states[c].flow = NoValue
              /\ report.states[b].turn = NoValue <=> report.states[c].turn = NoValue
    BY ReportIs
  <2>00. radarReport' = report /\ radarSaid' = radarSaid \cup LedgerRows(report.states)
         /\ radar' = [radar EXCEPT !.at = "reported"]
    BY <1>3 DEF WriteReport
  <2>. HIDE DEF report
  <2>. USE <1>3 DEF WriteReport
  <2>1. MapShape'
    BY DEF MapShape, IsMap
  <2>2. RadarShape'
    BY <2>00 DEF RadarShape
  <2>3. ReportShape'
    BY <2>0, <2>00, LedgerRowsAre DEF ReportShape
  <2>6. NoFabricatedLeg'
    BY <2>0, <2>00 DEF NoFabricatedLeg
  <2>4. LedgerFollows'
    BY <2>00 DEF LedgerFollows, LedgerIsOfTheDay, LedgerWasPublished, LedgerOncePerDay
  <2>5. SeedsTheYoung'
    BY DEF SeedsTheYoung
  <2>. QED
    BY <2>1, <2>2, <2>3, <2>4, <2>5, <2>6
<1>4. CASE AppendLedger
  <2>. DEFINE rows == LedgerRows(radarReport.states)
  <2>0. /\ radarLedger' = radarLedger \cup FreshRows(rows)
        /\ FreshRows(rows) \subseteq rows /\ rows \subseteq radarSaid
        /\ \A r, q \in rows : r.board = q.board => r = q
        /\ \A r \in FreshRows(rows), q \in radarLedger : r.board # q.board
    BY <1>4, LedgerRowsAre DEF AppendLedger, LedgerFollows, ReportShape, FreshRows
  <2>. HIDE DEF rows
  <2>. USE <1>4 DEF AppendLedger
  <2>1. MapShape'
    BY DEF MapShape, IsMap
  <2>2. RadarShape'
    BY NoRowsIs DEF RadarShape, Idle
  <2>3. ReportShape' /\ NoFabricatedLeg'
    BY <2>0 DEF ReportShape, NoFabricatedLeg
  <2>4. LedgerFollows'
    BY <2>0 DEF LedgerFollows, LedgerIsOfTheDay, LedgerWasPublished, LedgerOncePerDay, Idle
  <2>5. SeedsTheYoung'
    BY DEF SeedsTheYoung
  <2>. QED
    BY <2>1, <2>2, <2>3, <2>4, <2>5
<1>5. CASE RadarDies
  <2>. USE <1>5 DEF RadarDies
  <2>1. MapShape'
    BY DEF MapShape, IsMap
  <2>2. RadarShape'
    BY NoRowsIs DEF RadarShape, Idle
  <2>3. ReportShape' /\ NoFabricatedLeg'
    BY DEF ReportShape, NoFabricatedLeg
  <2>4. LedgerFollows'
    BY DEF LedgerFollows, LedgerIsOfTheDay, LedgerWasPublished, LedgerOncePerDay, Idle
  <2>5. SeedsTheYoung'
    BY DEF SeedsTheYoung
  <2>. QED
    BY <2>1, <2>2, <2>3, <2>4, <2>5
<1>6. CASE SeedStart
  <2>0. PICK spot \in Snapshots \cup {NoRows}, calendar \in {TradingDays, {}} :
          seeding' = [at |-> "boards",
                      todo |-> {b \in DOMAIN spot : Cardinality(DOMAIN boardSeries[b]) < MinTd},
                      raced |-> FALSE, calendar |-> calendar]
    BY <1>6 DEF SeedStart
  <2>00. DOMAIN spot \subseteq Boards
    BY RadarAssumption, NoRowsIs
  <2>. USE <1>6 DEF SeedStart
  <2>1. MapShape'
    BY DEF MapShape, IsMap
  <2>2. RadarShape'
    BY <2>0, <2>00, RadarAssumption DEF RadarShape
  <2>3. ReportShape' /\ NoFabricatedLeg'
    BY DEF ReportShape, NoFabricatedLeg
  <2>4. LedgerFollows'
    BY DEF LedgerFollows, LedgerIsOfTheDay, LedgerWasPublished, LedgerOncePerDay
  <2>5. SeedsTheYoung'
    BY <2>0 DEF SeedsTheYoung
  <2>. QED
    BY <2>1, <2>2, <2>3, <2>4, <2>5
<1>7. CASE SeedBoard
  <2>0. PICK b \in seeding.todo, h \in Histories, upTo \in {today - 1, today} \ {0} :
          /\ boardSeries' = [boardSeries EXCEPT ![b] = SeedBackfill(b, BoardHistory(h, b, upTo), seeding.calendar)]
          /\ seeding' = [seeding EXCEPT !.todo = @ \ {b}]
          /\ UNCHANGED <<today, industryMap, holdings, radarReport, radarLedger, radar,
                         radarRuns, radarSaid>>
    BY <1>7 DEF SeedBoard
  <2>00. b \in Boards /\ SeedBackfill(b, BoardHistory(h, b, upTo), seeding.calendar) \in DayRows
    BY BackfillIs DEF RadarShape
  <2>. USE <2>0
  <2>1. MapShape'
    BY DEF MapShape, IsMap
  <2>2. RadarShape'
    BY <2>00 DEF RadarShape
  <2>3. ReportShape' /\ NoFabricatedLeg'
    BY DEF ReportShape, NoFabricatedLeg
  <2>4. LedgerFollows'
    BY DEF LedgerFollows, LedgerIsOfTheDay, LedgerWasPublished, LedgerOncePerDay
  <2>5. SeedsTheYoung'
    BY DEF SeedsTheYoung, RadarShape
  <2>. QED
    BY <2>1, <2>2, <2>3, <2>4, <2>5
<1>8. CASE SeedBoardFails
  <2>0. PICK b \in seeding.todo :
          /\ seeding' = [seeding EXCEPT !.todo = @ \ {b}]
          /\ UNCHANGED <<today, industryMap, boardSeries, holdings, radarReport, radarLedger,
                         radar, radarRuns, radarSaid>>
    BY <1>8 DEF SeedBoardFails
  <2>. USE <2>0
  <2>1. MapShape'
    BY DEF MapShape, IsMap
  <2>2. RadarShape'
    BY DEF RadarShape
  <2>3. ReportShape' /\ NoFabricatedLeg'
    BY DEF ReportShape, NoFabricatedLeg
  <2>4. LedgerFollows'
    BY DEF LedgerFollows, LedgerIsOfTheDay, LedgerWasPublished, LedgerOncePerDay
  <2>5. SeedsTheYoung'
    BY DEF SeedsTheYoung
  <2>. QED
    BY <2>1, <2>2, <2>3, <2>4, <2>5
<1>9. CASE SeedHoldings
  <2>. USE <1>9 DEF SeedHoldings
  <2>1. MapShape'
    BY DEF MapShape, IsMap
  <2>2. RadarShape'
    BY DEF RadarShape
  <2>3. ReportShape' /\ NoFabricatedLeg'
    BY DEF ReportShape, NoFabricatedLeg
  <2>4. LedgerFollows'
    BY DEF LedgerFollows, LedgerIsOfTheDay, LedgerWasPublished, LedgerOncePerDay
  <2>5. SeedsTheYoung'
    BY DEF SeedsTheYoung
  <2>. QED
    BY <2>1, <2>2, <2>3, <2>4, <2>5
<1>10. CASE SeedStockMap
  <2>. DEFINE pending == (UNION {DOMAIN FundHoldings[f] : f \in holdings}) \ DOMAIN FreshSlice
  <2>0. PICK answered \in SUBSET pending : \E seen \in [answered -> Industries] : RecordSeen(seen)
    BY <1>10 DEF SeedStockMap
  <2>00. PICK seen \in [answered -> Industries] : RecordSeen(seen)
    BY <2>0
  <2>. USE <1>10 DEF SeedStockMap
  <2>1. MapShape'
    <3>1. pending \subseteq Symbols
      BY RadarAssumption DEF RadarShape
    <3>2. DOMAIN seen \subseteq Symbols /\ \A s \in DOMAIN seen : seen[s] \in Industries
      BY <3>1
    <3>3. IsMap(MergeSeen(industryMap, seen))
      BY <3>2, MergeSeenIs DEF MapShape
    <3>. QED
      BY <2>00, <3>3 DEF MapShape, IsMap, RecordSeen
  <2>2. RadarShape'
    BY DEF RadarShape, NoSeed
  <2>3. ReportShape' /\ NoFabricatedLeg'
    BY DEF ReportShape, NoFabricatedLeg
  <2>4. LedgerFollows'
    BY DEF LedgerFollows, LedgerIsOfTheDay, LedgerWasPublished, LedgerOncePerDay
  <2>5. SeedsTheYoung'
    BY DEF SeedsTheYoung, NoSeed
  <2>. QED
    BY <2>1, <2>2, <2>3, <2>4, <2>5
<1>11. CASE SeedDies
  <2>. USE <1>11 DEF SeedDies
  <2>1. MapShape'
    BY DEF MapShape, IsMap
  <2>2. RadarShape'
    BY DEF RadarShape, NoSeed
  <2>3. ReportShape' /\ NoFabricatedLeg'
    BY DEF ReportShape, NoFabricatedLeg
  <2>4. LedgerFollows'
    BY DEF LedgerFollows, LedgerIsOfTheDay, LedgerWasPublished, LedgerOncePerDay
  <2>5. SeedsTheYoung'
    BY DEF SeedsTheYoung, NoSeed
  <2>. QED
    BY <2>1, <2>2, <2>3, <2>4, <2>5
<1>12. CASE NextDay
  <2>. USE <1>12 DEF NextDay
  <2>1. MapShape'
    <3>1. today \in Int /\ today + 1 \in CalendarDays /\ \A d \in CalendarDays : d \in Int
      BY DayAssumption DEF CalendarDays, MapShape
    <3>2. \A s \in DOMAIN industryMap : industryMap[s].seen \in Int
      BY <3>1 DEF MapShape, IsMap, Industry
    <3>. QED
      BY <3>1, <3>2 DEF MapShape, IsMap
  <2>2. RadarShape'
    BY DEF RadarShape
  <2>3. ReportShape' /\ NoFabricatedLeg'
    BY NoRowsIs DEF ReportShape, NoReport, DataStatuses, NoFabricatedLeg
  <2>4. LedgerFollows'
    BY DEF LedgerFollows, LedgerIsOfTheDay, LedgerWasPublished, LedgerOncePerDay, Idle
  <2>5. SeedsTheYoung'
    BY DEF SeedsTheYoung
  <2>. QED
    BY <2>1, <2>2, <2>3, <2>4, <2>5
<1>13. CASE UNCHANGED radarVars
  <2>. USE <1>13 DEF radarVars
  <2>1. MapShape'
    BY DEF MapShape, IsMap
  <2>2. RadarShape'
    BY DEF RadarShape
  <2>3. ReportShape' /\ NoFabricatedLeg'
    BY DEF ReportShape, NoFabricatedLeg
  <2>4. LedgerFollows'
    BY DEF LedgerFollows, LedgerIsOfTheDay, LedgerWasPublished, LedgerOncePerDay
  <2>5. SeedsTheYoung'
    BY DEF SeedsTheYoung
  <2>. QED
    BY <2>1, <2>2, <2>3, <2>4, <2>5
<1>. QED
  BY <1>1, <1>2, <1>3, <1>4, <1>5, <1>6, <1>7, <1>8, <1>9, <1>10, <1>11, <1>12, <1>13 DEF RadarNext

LEMMA RadarAlways == RadarSpec => []RadarInv
<1>1. RadarInit => RadarInv
  BY RadarInvAtFirst
<1>2. RadarInv /\ [RadarNext]_radarVars => RadarInv'
  BY RadarInvKept
<1>. QED
  BY <1>1, <1>2, PTL DEF RadarSpec

\* What the radar says of a board is what its states are documented to mean
\* (states.py:3), by one measure for all the boards, and the ledger has the
\* day's published rows once (forward.py).
THEOREM ReportsAreHonest == RadarSpec => []RadarIsHonest
<1>1. RadarInv => RadarIsHonest
  <2>. SUFFICES ASSUME RadarInv PROVE RadarIsHonest
    OBVIOUS
  <2>1. StatesMeanWhatTheySay
    <3>. DEFINE fd == FlowDark(radar.series, radar.spot)
                td == TurnLegDark(BoardSignals(radar.series))
    <3>1. fd \in BOOLEAN /\ td \in BOOLEAN
      BY DEF FlowDark, TurnLegDark, FlowLegDark
    <3>2. \A c \in Boards : DOMAIN radar.series[c] \subseteq CalendarDays
      BY RowsAre DEF RadarInv, RadarShape
    <3>. HIDE DEF fd, td
    <3>3. ASSUME NEW b
          PROVE  LET p == PctlByDay(radar.series, fd, td, b)
                 IN  StateMeant(p, ClassifyBoard(p)[1])
      <4>. DEFINE p == PctlByDay(radar.series, fd, td, b)
      <4>1. PICK n \in Nat : p \in [1..n -> Composites]
        BY <3>1, <3>2, CourseIs
      <4>. HIDE DEF p
      <4>2. StateMeant(p, ClassifyBoard(p)[1])
        BY <4>1, ClassifiedIs
      <4>. QED
        BY <4>2 DEF p
    <3>. QED
      BY <3>3 DEF StatesMeanWhatTheySay, fd, td
  <2>. QED
    BY <2>1 DEF RadarInv, LedgerFollows, RadarIsHonest, ReportMeansWhatItSays
<1>. QED
  BY <1>1, RadarAlways, PTL

\* No row captured live is lost but to the window, or to the backfill of a
\* board too young to be ranked (seed.py:52).
RowsSurvive ==
    \A b \in Boards : \A d \in DOMAIN boardSeries[b] :
        boardSeries[b][d].source = "snapshot"
        => \/ d \in DOMAIN boardSeries'[b] /\ boardSeries'[b][d].source = "snapshot"
           \/ d \notin PruneWindow(today, RadarKeep, TradingDays)
           \/ Cardinality(DOMAIN boardSeries[b]) < MinTd
           \/ seeding.raced

LEMMA RadarKeepsRows == RadarInv /\ [RadarNext]_radarVars => RowsSurvive
<1>. SUFFICES ASSUME RadarInv, [RadarNext]_radarVars PROVE RowsSurvive
  OBVIOUS
<1>1. CASE Capture
  <2>1. PICK spot \in Snapshots, calendar \in {TradingDays, {}} :
          boardSeries' = AppendSnapshot(spot, calendar)
    BY <1>1 DEF Capture
  <2>2. SUFFICES ASSUME NEW b \in Boards, NEW d \in DOMAIN boardSeries[b],
                        boardSeries[b][d].source = "snapshot",
                        d \in PruneWindow(today, RadarKeep, TradingDays)
                 PROVE  d \in DOMAIN boardSeries'[b] /\ boardSeries'[b][d].source = "snapshot"
    BY DEF RowsSurvive
  <2>3. CASE b \notin DOMAIN spot
    BY <2>1, <2>2, <2>3 DEF AppendSnapshot
  <2>4. CASE b \in DOMAIN spot
    <3>. DEFINE merged == MergeDay(boardSeries[b], today, spot[b])
    <3>1. boardSeries'[b] = Prune(merged, today, RadarKeep, calendar)
      BY <2>1, <2>4 DEF AppendSnapshot
    <3>2. d \in PruneWindow(today, RadarKeep, calendar)
      <4>1. d \in CalendarDays
        BY RowsAre DEF RadarInv, RadarShape
      <4>. QED
        BY <2>2, <4>1 DEF PruneWindow
    <3>3. d \in DOMAIN merged /\ merged[d].source = "snapshot"
      <4>1. spot[b].source = "snapshot"
        BY <2>4, RadarAssumption
      <4>. QED
        BY <2>2, <4>1 DEF MergeDay, Over
    <3>. HIDE DEF merged
    <3>4. /\ DOMAIN Prune(merged, today, RadarKeep, calendar)
                = DOMAIN merged \cap PruneWindow(today, RadarKeep, calendar)
          /\ \A e \in DOMAIN Prune(merged, today, RadarKeep, calendar) :
                Prune(merged, today, RadarKeep, calendar)[e] = merged[e]
      BY DEF Prune
    <3>. QED
      BY <3>1, <3>2, <3>3, <3>4
  <2>. QED
    BY <2>3, <2>4
<1>2. CASE SeedBoard
  <2>1. PICK c \in seeding.todo : \E rows : boardSeries' = [boardSeries EXCEPT ![c] = rows]
    BY <1>2 DEF SeedBoard
  <2>2. ~seeding.raced => Cardinality(DOMAIN boardSeries[c]) < MinTd
    BY DEF RadarInv, SeedsTheYoung
  <2>3. \A b \in Boards : b # c => boardSeries'[b] = boardSeries[b]
    BY <2>1 DEF RadarInv, RadarShape
  <2>. QED
    BY <2>2, <2>3 DEF RowsSurvive
<1>3. CASE ~Capture /\ ~SeedBoard
  <2>1. UNCHANGED boardSeries
    BY <1>3 DEF RadarNext, RadarAbstains, WriteReport, AppendLedger, RadarDies, SeedStart,
                SeedBoardFails, SeedHoldings, SeedStockMap, SeedDies, NextDay, radarVars
  <2>. QED
    BY <2>1 DEF RowsSurvive
<1>. QED
  BY <1>1, <1>2, <1>3

-----------------------------------------------------------------------------
(* The monitor's market data.                                              *)

\* What an answer names, or a cache has settled.
IsAnswer(f, values) ==
    DOMAIN f \subseteq Symbols /\ \A s \in DOMAIN f : f[s] \in values
Settled == Industries \cup {Miss}

BriefPlaces == {"off", "batch", "record", "serve", "pe", "peAsk", "rest", "funds", "ask",
                "merge", "store"}

IsBrief ==
    /\ brief = [at |-> brief.at, wants |-> brief.wants, seen |-> brief.seen, map |-> brief.map,
                serving |-> brief.serving, calendar |-> brief.calendar, pe |-> brief.pe,
                raced |-> brief.raced, funds |-> brief.funds, missing |-> brief.missing,
                ask |-> brief.ask, cached |-> brief.cached, got |-> brief.got,
                tries |-> brief.tries, failed |-> brief.failed, calls |-> brief.calls]
    /\ brief.at \in BriefPlaces
    /\ brief.raced \in BOOLEAN
    /\ IsAnswer(brief.seen, Industries) /\ IsMap(brief.map)
    /\ DOMAIN brief.serving \subseteq Symbols
    /\ brief.calendar \in {TradingDays, {}}
    /\ brief.funds \subseteq DOMAIN MarketFunds
    /\ brief.ask \subseteq Symbols
    /\ IsAnswer(brief.cached, Settled) /\ IsAnswer(brief.got, Settled)

IsCapture ==
    /\ capture = [at |-> capture.at, seen |-> capture.seen, map |-> capture.map,
                  flow |-> capture.flow, calendar |-> capture.calendar]
    /\ capture.at \in {"off", "append", "write", "map", "record", "pe", "peAsk"}
    /\ IsAnswer(capture.seen, Industries) /\ IsMap(capture.map)
    /\ DOMAIN capture.flow \subseteq TopSymbols
    /\ \A s \in DOMAIN capture.flow : capture.flow[s] \in {"final", "provisional"}
    /\ capture.calendar \in {TradingDays, {}}

\* The stores on the disk: no day of them lies in the future.
StoresShape ==
    /\ MapShape
    /\ closed \in BOOLEAN /\ calendarDay \in 0..LastDay
    /\ flowStore = [s \in TopSymbols |-> flowStore[s]]
    /\ \A s \in TopSymbols :
          /\ DOMAIN flowStore[s] \subseteq CalendarDays
          /\ \A d \in DOMAIN flowStore[s] : flowStore[s][d] \in {"final", "provisional"}
    /\ DOMAIN peTables \subseteq 1..today
    /\ \A d \in DOMAIN peTables : peTables[d] \in (SUBSET Industries) \ {{}}
    /\ IsAnswer(stockCache, Settled)
    /\ marketRuns \in 0..MaxMarketRuns
    /\ marketLog = [settled |-> marketLog.settled, lost |-> marketLog.lost, final |-> marketLog.final]

\* What the stock fallback has in hand is the day's cache and what was
\* answered since; outside of it nothing is in hand.
FallbackShape ==
    /\ brief.at = "ask" => brief.cached = stockCache
    /\ brief.at = "merge" => DOMAIN brief.got \subseteq DOMAIN stockCache
    /\ brief.at \notin {"ask", "merge"} => DOMAIN brief.got = {}
    /\ DOMAIN stockCache \cup DOMAIN brief.got \subseteq marketLog.settled
    /\ OnlyKillsRefetch

\* The calls that failed in a row: whole rounds of the stocks given up and
\* the tries at the one in hand.
BreakerShape ==
    /\ brief.tries \in 0..FetchRetries /\ brief.failed \in 0..BreakerThreshold
    /\ brief.calls = brief.failed * (FetchRetries + 1) + brief.tries
    /\ brief.failed = BreakerThreshold => brief.ask = {}
    /\ brief.ask = {} => brief.tries = 0
    /\ brief.at # "ask" => brief.tries = 0 /\ brief.failed = 0 /\ brief.ask = {}

\* A closing value of today was got and written after the close, and then no
\* value got before the close is still to be written.
FlowShape ==
    /\ \A e \in marketLog.final : \E s \in TopSymbols, d \in 1..today : e = <<s, d>>
    /\ \A s \in TopSymbols : <<s, today>> \in marketLog.final => closed
    /\ \A s \in DOMAIN capture.flow :
          capture.at \in {"append", "write"} /\ capture.flow[s] = "provisional"
          => \A t \in TopSymbols : <<t, today>> \notin marketLog.final
    /\ \A s \in DOMAIN capture.flow :
          capture.at \in {"append", "write"} /\ capture.flow[s] = "final" => closed
    /\ FinalValueStays
    /\ AppendIsKept

\* The board PE is served from today's table, or from the newest of the young
\* ones of the days before, which no process changes.
Age(d) == Cardinality({t \in TradingDays : d < t /\ t <= today})
Older == {d \in DOMAIN peTables : Age(d) <= MaxStaleTd} \ {today}
PeIsServed ==
    brief.at \in {"funds", "ask", "merge", "store"} /\ brief.calendar # {} =>
        \/ brief.pe.state = "FRESH" /\ brief.pe.asOf = today /\ today \in DOMAIN peTables
        \/ brief.pe.state = "STALE" /\ brief.pe.asOf \in Older /\ \A d \in Older : d <= brief.pe.asOf
        \/ brief.pe.state = "DARK" /\ Older = {}

\* What the batch named is in the map, with today's date, until a capture
\* says otherwise; then it is what is served.
BatchIsKept ==
    /\ brief.at = "batch" => DOMAIN brief.seen = {}
    /\ brief.at = "serve" /\ ~brief.raced => \A s \in DOMAIN brief.seen :
          s \in DOMAIN industryMap /\ industryMap[s] = [name |-> brief.seen[s], seen |-> today]
    /\ BatchIsServed

MarketInv ==
    /\ StoresShape /\ IsBrief /\ IsCapture
    /\ FallbackShape /\ BreakerShape /\ FlowShape /\ PeIsServed /\ BatchIsKept

BriefMoves ==
    \/ StartBrief \/ BriefBatch \/ BriefRecords \/ BriefServes \/ BriefFindsPe \/ BriefAsksPe
    \/ BriefFund \/ AskSettles \/ AskFails \/ AskEnds \/ FallbackMerges \/ FallbackStores
    \/ BriefEnds \/ KillBrief
CaptureMoves ==
    \/ StartCapture \/ CaptureCalendar \/ CaptureAppends \/ CaptureReadsMap \/ CaptureRecords
    \/ CaptureFindsPe \/ CaptureAsksPe \/ KillCapture

LEMMA WhoWrites ==
    ASSUME [MarketNext]_marketVars
    PROVE  /\ BriefRecords \/ FallbackStores \/ CaptureRecords \/ UNCHANGED industryMap
           /\ BriefServes \/ CaptureCalendar \/ UNCHANGED calendarDay
           /\ CaptureAppends \/ UNCHANGED flowStore
           /\ BriefAsksPe \/ CaptureAsksPe \/ UNCHANGED peTables
           /\ AskEnds \/ NextMarketDay \/ UNCHANGED stockCache
           /\ NextMarketDay \/ UNCHANGED today
           /\ NextMarketDay \/ MarketCloses \/ UNCHANGED closed
           /\ StartBrief \/ StartCapture \/ UNCHANGED marketRuns
           /\ AskSettles \/ KillBrief \/ CaptureAppends \/ NextMarketDay \/ UNCHANGED marketLog
           /\ BriefMoves \/ CaptureRecords \/ UNCHANGED brief
           /\ CaptureMoves \/ UNCHANGED capture
<1>. USE DEF BriefKeeps, CaptureKeeps
<1>1. CASE StartBrief
  BY <1>1 DEF StartBrief, BriefMoves
<1>2. CASE BriefBatch
  BY <1>2 DEF BriefBatch, BriefMoves
<1>3. CASE BriefRecords
  BY <1>3 DEF BriefRecords, BriefMoves
<1>4. CASE BriefServes
  BY <1>4 DEF BriefServes, BriefMoves
<1>5. CASE BriefFindsPe
  BY <1>5 DEF BriefFindsPe, BriefMoves
<1>6. CASE BriefAsksPe
  BY <1>6 DEF BriefAsksPe, BriefMoves
<1>7. CASE BriefFund
  BY <1>7 DEF BriefFund, BriefMoves
<1>8. CASE AskSettles
  BY <1>8 DEF AskSettles, BriefMoves
<1>9. CASE AskFails
  BY <1>9 DEF AskFails, BriefMoves
<1>10. CASE AskEnds
  BY <1>10 DEF AskEnds, BriefMoves
<1>11. CASE FallbackMerges
  BY <1>11 DEF FallbackMerges, BriefMoves
<1>12. CASE FallbackStores
  BY <1>12 DEF FallbackStores, BriefMoves
<1>13. CASE BriefEnds
  BY <1>13 DEF BriefEnds, BriefMoves
<1>14. CASE KillBrief
  BY <1>14 DEF KillBrief, BriefMoves
<1>15. CASE StartCapture
  BY <1>15 DEF StartCapture, CaptureMoves
<1>16. CASE CaptureCalendar
  BY <1>16 DEF CaptureCalendar, CaptureMoves
<1>17. CASE CaptureAppends
  BY <1>17 DEF CaptureAppends, CaptureMoves
<1>18. CASE CaptureReadsMap
  BY <1>18 DEF CaptureReadsMap, CaptureMoves
<1>19. CASE CaptureRecords
  BY <1>19 DEF CaptureRecords, CaptureMoves
<1>20. CASE CaptureFindsPe
  BY <1>20 DEF CaptureFindsPe, CaptureMoves
<1>21. CASE CaptureAsksPe
  BY <1>21 DEF CaptureAsksPe, CaptureMoves
<1>22. CASE KillCapture
  BY <1>22 DEF KillCapture, CaptureMoves
<1>23. CASE MarketCloses
  BY <1>23 DEF MarketCloses
<1>24. CASE NextMarketDay
  BY <1>24 DEF NextMarketDay
<1>25. CASE UNCHANGED marketVars
  BY <1>25 DEF marketVars
<1>. QED
  BY <1>1, <1>2, <1>3, <1>4, <1>5, <1>6, <1>7, <1>8, <1>9, <1>10, <1>11, <1>12, <1>13, <1>14,
     <1>15, <1>16, <1>17, <1>18, <1>19, <1>20, <1>21, <1>22, <1>23, <1>24, <1>25 DEF MarketNext

LEMMA MarketDays ==
    ASSUME StoresShape
    PROVE  /\ today \in Nat /\ today >= 1 /\ today <= LastDay /\ LastDay \in Nat
           /\ CalendarDays \subseteq Nat /\ 1..today \subseteq CalendarDays
BY DayAssumption DEF StoresShape, MapShape, CalendarDays

LEMMA StoresKept ==
    ASSUME MarketInv, [MarketNext]_marketVars
    PROVE  StoresShape'
<1>. USE DEF MarketInv
<1>0. /\ today \in Nat /\ today >= 1 /\ today <= LastDay /\ LastDay \in Nat
      /\ CalendarDays \subseteq Nat /\ 1..today \subseteq CalendarDays
  BY MarketDays
<1>1. today' \in CalendarDays /\ today' >= today
  <2>1. CASE NextMarketDay
    BY <1>0, <2>1 DEF NextMarketDay, CalendarDays
  <2>2. CASE UNCHANGED today
    BY <1>0, <2>2 DEF StoresShape, MapShape
  <2>. QED
    BY <2>1, <2>2, WhoWrites
<1>2. IsMap(industryMap)'
  <2>1. ASSUME NEW map, IsMap(map), NEW seen, IsAnswer(seen, Industries), UNCHANGED today,
               industryMap' = MergeSeen(map, seen)
        PROVE  IsMap(industryMap)'
    <3>1. IsMap(MergeSeen(map, seen))
      BY <2>1, MergeSeenIs DEF StoresShape, MapShape, IsAnswer
    <3>. QED
      BY <2>1, <3>1 DEF IsMap
  <2>2. CASE BriefRecords
    BY <2>1, <2>2 DEF BriefRecords, BriefKeeps, IsBrief
  <2>3. CASE FallbackStores
    BY <2>1, <2>3 DEF FallbackStores, BriefKeeps, IsBrief
  <2>4. CASE CaptureRecords
    BY <2>1, <2>4 DEF CaptureRecords, CaptureKeeps, IsCapture
  <2>5. CASE UNCHANGED industryMap
    <3>1. today' \in Nat
      BY <1>0, <1>1
    <3>2. \A s \in DOMAIN industryMap : industryMap[s].seen \in Nat
      BY <1>0 DEF StoresShape, MapShape, IsMap, Industry
    <3>. QED
      BY <1>0, <1>1, <2>5, <3>1, <3>2 DEF StoresShape, MapShape, IsMap
  <2>. QED
    BY <2>2, <2>3, <2>4, <2>5, WhoWrites
<1>3. closed' \in BOOLEAN
  BY WhoWrites DEF StoresShape, NextMarketDay, MarketCloses
<1>4. calendarDay' \in 0..LastDay
  BY <1>0, WhoWrites DEF StoresShape, BriefServes, CaptureCalendar, LoadTradingDays
<1>5. /\ flowStore' = [s \in TopSymbols |-> flowStore'[s]]
      /\ \A s \in TopSymbols :
            /\ DOMAIN flowStore'[s] \subseteq CalendarDays
            /\ \A d \in DOMAIN flowStore'[s] : flowStore'[s][d] \in {"final", "provisional"}
  <2>1. CASE UNCHANGED flowStore
    BY <2>1 DEF StoresShape
  <2>2. CASE CaptureAppends
    <3>1. flowStore' = AppendToday(capture.flow, capture.calendar)
      BY <2>2 DEF CaptureAppends
    <3>2. flowStore' = [s \in TopSymbols |-> flowStore'[s]]
      BY <3>1 DEF AppendToday
    <3>3. ASSUME NEW s \in TopSymbols
          PROVE  /\ DOMAIN flowStore'[s] \subseteq CalendarDays
                 /\ \A d \in DOMAIN flowStore'[s] : flowStore'[s][d] \in {"final", "provisional"}
      <4>1. CASE s \notin DOMAIN capture.flow
        BY <3>1, <4>1 DEF AppendToday, StoresShape
      <4>2. CASE s \in DOMAIN capture.flow
        <5>1. flowStore'[s] = Prune(MergeDay(flowStore[s], today, capture.flow[s]), today,
                                    FlowKeep, capture.calendar)
          BY <3>1, <4>2 DEF AppendToday
        <5>2. today \in CalendarDays /\ capture.flow[s] \in {"final", "provisional"}
          BY <4>2 DEF StoresShape, MapShape, IsCapture
        <5>. QED
          BY <5>1, <5>2 DEF Prune, MergeDay, Over, StoresShape
      <4>. QED
        BY <4>1, <4>2
    <3>. QED
      BY <3>2, <3>3
  <2>. QED
    BY <2>1, <2>2, WhoWrites
<1>6. /\ DOMAIN peTables' \subseteq 1..today'
      /\ \A d \in DOMAIN peTables' : peTables'[d] \in (SUBSET Industries) \ {{}}
  <2>1. CASE UNCHANGED peTables
    <3>1. 1..today \subseteq 1..today'
      BY <1>0, <1>1
    <3>. QED
      BY <2>1, <3>1 DEF StoresShape
  <2>2. ASSUME NEW boards \in BoardPeAnswers, NEW calendar, NEW served,
               FetchIndustryPe(boards, calendar, served), UNCHANGED today
        PROVE  /\ DOMAIN peTables' \subseteq 1..today'
               /\ \A d \in DOMAIN peTables' : peTables'[d] \in (SUBSET Industries) \ {{}}
    <3>1. boards \subseteq Industries
      <4>1. CASE boards = {}
        BY <4>1
      <4>2. CASE boards # {}
        <5>1. PICK n \in 1..Len(BoardPages) : boards = UNION {BoardPages[i] : i \in 1..n}
          BY <2>2, <4>2 DEF BoardPeAnswers
        <5>2. \A i \in 1..n : BoardPages[i] \subseteq Industries
          BY MarketAssumption
        <5>. QED
          BY <5>1, <5>2
      <4>. QED
        BY <4>1, <4>2
    <3>2. CASE boards = {}
      BY <2>2, <3>2 DEF FetchIndustryPe, StoresShape
    <3>3. CASE boards # {}
      <4>1. peTables' = MergeDay(peTables, today, boards)
        BY <2>2, <3>3 DEF FetchIndustryPe
      <4>2. /\ DOMAIN peTables' = DOMAIN peTables \cup {today}
            /\ \A d \in DOMAIN peTables' : peTables'[d] = boards \/ (peTables'[d] = peTables[d] /\ d \in DOMAIN peTables)
        BY <4>1 DEF MergeDay, Over
      <4>3. today \in 1..today /\ today' = today
        BY <1>0, <2>2
      <4>5. boards \in (SUBSET Industries) \ {{}}
        BY <3>1, <3>3
      <4>4. DOMAIN peTables' \subseteq 1..today'
        BY <4>2, <4>3 DEF StoresShape
      <4>. QED
        BY <4>2, <4>4, <4>5 DEF StoresShape
    <3>. QED
      BY <3>2, <3>3
  <2>3. CASE BriefAsksPe
    BY <2>2, <2>3 DEF BriefAsksPe, BriefKeeps
  <2>4. CASE CaptureAsksPe
    BY <2>2, <2>4 DEF CaptureAsksPe, CaptureKeeps
  <2>. QED
    BY <2>1, <2>3, <2>4, WhoWrites
<1>7. IsAnswer(stockCache, Settled)'
  <2>1. CASE AskEnds
    BY <2>1 DEF AskEnds, StoresShape, IsBrief, IsAnswer, Over
  <2>2. CASE NextMarketDay
    BY <2>2 DEF NextMarketDay, IsAnswer, NoRows
  <2>3. CASE UNCHANGED stockCache
    BY <2>3 DEF StoresShape, IsAnswer
  <2>. QED
    BY <2>1, <2>2, <2>3, WhoWrites
<1>8. marketRuns' \in 0..MaxMarketRuns
  <2>1. CASE UNCHANGED marketRuns
    BY <2>1 DEF StoresShape
  <2>2. CASE StartBrief
    BY <2>2, MarketAssumption DEF StartBrief, StoresShape
  <2>3. CASE StartCapture
    <3>1. marketRuns < MaxMarketRuns /\ marketRuns' = marketRuns + 1
      BY <2>3 DEF StartCapture
    <3>. QED
      BY <3>1, MarketAssumption DEF StoresShape
  <2>. QED
    BY <2>1, <2>2, <2>3, WhoWrites
<1>9. marketLog' = [settled |-> marketLog'.settled, lost |-> marketLog'.lost, final |-> marketLog'.final]
  <2>1. CASE UNCHANGED marketLog
    BY <2>1 DEF StoresShape
  <2>2. CASE AskSettles
    BY <2>2 DEF AskSettles, StoresShape
  <2>3. CASE KillBrief
    BY <2>3 DEF KillBrief, StoresShape
  <2>4. CASE CaptureAppends
    BY <2>4 DEF CaptureAppends, StoresShape
  <2>5. CASE NextMarketDay
    BY <2>5 DEF NextMarketDay, StoresShape
  <2>. QED
    BY <2>1, <2>2, <2>3, <2>4, <2>5, WhoWrites
<1>. QED
  BY <1>1, <1>2, <1>3, <1>4, <1>5, <1>6, <1>7, <1>8, <1>9 DEF StoresShape, MapShape

LEMMA BriefIs ==
    ASSUME MarketInv, [MarketNext]_marketVars
    PROVE  IsBrief'
<1>. USE DEF MarketInv, BriefKeeps, BriefPlaces
<1>0. DOMAIN NoRows = {}
  BY DEF NoRows
<1>1. CASE UNCHANGED <<brief, today>>
  BY <1>1 DEF IsBrief, IsMap, IsAnswer
<1>2. CASE CaptureRecords
  <2>. DEFINE r == brief.raced \/ (brief.at # "off" /\ CaptureContradicts)
  <2>1. r \in BOOLEAN /\ brief' = [brief EXCEPT !.raced = r] /\ UNCHANGED today
    BY <1>2 DEF CaptureRecords, CaptureKeeps
  <2>. HIDE DEF r
  <2>. QED
    BY <2>1 DEF IsBrief, IsMap, IsAnswer
<1>3. ASSUME brief' = NoBrief
      PROVE  IsBrief'
  BY <1>0, <1>3 DEF NoBrief, IsBrief, IsMap, IsAnswer
<1>4. CASE NextMarketDay
  BY <1>3, <1>4 DEF NextMarketDay
<1>5. CASE StartBrief
  BY <1>0, <1>5 DEF StartBrief, NoBrief, IsBrief, IsMap, IsAnswer
<1>6. CASE BriefBatch
  <2>1. CASE brief' = [brief EXCEPT !.at = "serve"]
    BY <1>6, <2>1 DEF BriefBatch, IsBrief, IsMap, IsAnswer
  <2>2. ASSUME NEW seen \in BatchAnswers,
               brief' = [brief EXCEPT !.at = "record", !.seen = seen, !.map = industryMap]
        PROVE  IsBrief'
    <3>1. IsAnswer(seen, Industries)
      BY MarketAssumption DEF IsAnswer
    <3>. QED
      BY <1>6, <2>2, <3>1 DEF BriefBatch, IsBrief, IsMap, IsAnswer, StoresShape, MapShape
  <2>. QED
    BY <1>6, <2>1, <2>2 DEF BriefBatch
<1>7. CASE BriefRecords
  BY <1>0, <1>7 DEF BriefRecords, IsBrief, IsMap, IsAnswer
<1>8. CASE BriefServes
  <2>1. DOMAIN FreshSlice \subseteq Symbols
    BY DEF FreshSlice, StoresShape, MapShape, IsMap
  <2>. QED
    BY <1>8, <2>1 DEF BriefServes, IsBrief, IsMap, IsAnswer
<1>9. CASE BriefFindsPe
  BY <1>9 DEF BriefFindsPe, IsBrief, IsMap, IsAnswer
<1>10. CASE BriefAsksPe
  BY <1>10 DEF BriefAsksPe, IsBrief, IsMap, IsAnswer
<1>11. CASE BriefFund
  <2>1. PICK f \in brief.funds :
           LET missing == MarketFunds[f] \ DOMAIN brief.serving
           IN  brief' = [brief EXCEPT
                          !.at = IF missing = {} THEN "funds" ELSE "ask",
                          !.funds = @ \ {f}, !.missing = missing, !.cached = stockCache,
                          !.ask = missing \ DOMAIN stockCache]
    BY <1>11 DEF BriefFund
  <2>2. MarketFunds[f] \subseteq Symbols
    BY MarketAssumption DEF IsBrief
  <2>. QED
    BY <1>11, <2>1, <2>2 DEF BriefFund, IsBrief, IsMap, IsAnswer, StoresShape
<1>12. CASE AskSettles
  <2>1. PICK s \in brief.ask, answer \in Settled :
           brief' = [brief EXCEPT !.got = Over([t \in {s} |-> answer], @), !.ask = @ \ {s},
                                    !.tries = 0, !.failed = 0, !.calls = 0]
    BY <1>12 DEF AskSettles, Settled
  <2>. DEFINE got == Over([t \in {s} |-> answer], brief.got)
  <2>2. IsAnswer(got, Settled)
    BY DEF Over, IsAnswer, IsBrief
  <2>. HIDE DEF got
  <2>3. brief' = [brief EXCEPT !.got = got, !.ask = @ \ {s}, !.tries = 0, !.failed = 0, !.calls = 0]
    BY <2>1 DEF got
  <2>. QED
    BY <1>12, <2>2, <2>3 DEF AskSettles, IsBrief, IsMap, IsAnswer
<1>13. CASE AskFails
  <2>1. CASE brief' = [brief EXCEPT !.tries = @ + 1, !.calls = @ + 1]
    BY <1>13, <2>1 DEF AskFails, IsBrief, IsMap, IsAnswer
  <2>2. ASSUME NEW left \in SUBSET brief.ask,
               brief' = [brief EXCEPT !.tries = 0, !.calls = @ + 1, !.failed = @ + 1, !.ask = left]
        PROVE  IsBrief'
    BY <1>13, <2>2 DEF AskFails, IsBrief, IsMap, IsAnswer
  <2>. QED
    BY <1>13, <2>1, <2>2 DEF AskFails
<1>14. CASE AskEnds
  BY <1>14 DEF AskEnds, IsBrief, IsMap, IsAnswer
<1>15. CASE FallbackMerges
  <2>. DEFINE answers == Over(brief.got, brief.cached)
              known   == {s \in DOMAIN answers \cap brief.missing : answers[s] # Miss}
  <2>1. brief' = [brief EXCEPT !.got = NoRows, !.cached = NoRows, !.missing = {},
                               !.seen = Restrict(answers, known), !.map = industryMap,
                               !.at = IF known = {} THEN "funds" ELSE "store"]
    BY <1>15 DEF FallbackMerges
  <2>2. IsAnswer(answers, Settled)
    BY DEF Over, IsAnswer, IsBrief
  <2>3. IsAnswer(Restrict(answers, known), Industries)
    BY <2>2 DEF IsAnswer, Restrict, Settled
  <2>. HIDE DEF answers, known
  <2>. QED
    BY <1>0, <1>15, <2>1, <2>3 DEF FallbackMerges, IsBrief, IsMap, IsAnswer, StoresShape, MapShape
<1>16. CASE FallbackStores
  BY <1>0, <1>16 DEF FallbackStores, IsBrief, IsMap, IsAnswer
<1>17. CASE BriefEnds
  BY <1>3, <1>17 DEF BriefEnds
<1>18. CASE KillBrief
  BY <1>3, <1>18 DEF KillBrief
<1>. QED
  BY <1>1, <1>2, <1>4, <1>5, <1>6, <1>7, <1>8, <1>9, <1>10, <1>11, <1>12, <1>13, <1>14, <1>15,
     <1>16, <1>17, <1>18, WhoWrites DEF BriefMoves

LEMMA CaptureIs ==
    ASSUME MarketInv, [MarketNext]_marketVars
    PROVE  IsCapture'
<1>. USE DEF MarketInv, CaptureKeeps
<1>0. DOMAIN NoRows = {}
  BY DEF NoRows
<1>1. CASE UNCHANGED <<capture, today>>
  BY <1>1 DEF IsCapture, IsMap, IsAnswer
<1>2. ASSUME capture' = NoCapture
      PROVE  IsCapture'
  BY <1>0, <1>2 DEF NoCapture, IsCapture, IsMap, IsAnswer
<1>3. CASE NextMarketDay
  BY <1>2, <1>3 DEF NextMarketDay
<1>4. CASE StartCapture
  <2>1. CASE UNCHANGED capture
    BY <1>1, <1>4, <2>1 DEF StartCapture
  <2>2. ASSUME NEW seen \in BatchAnswers, NEW valued \in SUBSET TopSymbols,
               capture' = [NoCapture EXCEPT !.at = "append", !.seen = seen, !.flow = CapturedFlow(valued)]
        PROVE  IsCapture'
    <3>1. /\ DOMAIN CapturedFlow(valued) \subseteq TopSymbols
          /\ \A s \in DOMAIN CapturedFlow(valued) : CapturedFlow(valued)[s] \in {"final", "provisional"}
      BY DEF CapturedFlow
    <3>. QED
      BY <1>0, <2>2, <3>1, MarketAssumption DEF NoCapture, IsCapture, IsMap, IsAnswer
  <2>. QED
    BY <1>4, <2>1, <2>2 DEF StartCapture
<1>5. CASE CaptureCalendar
  BY <1>5 DEF CaptureCalendar, IsCapture, IsMap, IsAnswer
<1>6. CASE CaptureAppends
  BY <1>6 DEF CaptureAppends, IsCapture, IsMap, IsAnswer
<1>7. CASE CaptureReadsMap
  BY <1>7 DEF CaptureReadsMap, IsCapture, IsMap, IsAnswer, StoresShape, MapShape
<1>8. CASE CaptureRecords
  BY <1>0, <1>8 DEF CaptureRecords, IsCapture, IsMap, IsAnswer
<1>9. CASE CaptureFindsPe
  BY <1>2, <1>9 DEF CaptureFindsPe, IsCapture, IsMap, IsAnswer
<1>10. CASE CaptureAsksPe
  BY <1>2, <1>10 DEF CaptureAsksPe
<1>11. CASE KillCapture
  BY <1>2, <1>11 DEF KillCapture
<1>. QED
  BY <1>1, <1>3, <1>4, <1>5, <1>6, <1>7, <1>8, <1>9, <1>10, <1>11, WhoWrites DEF CaptureMoves

LEMMA FallbackKept ==
    ASSUME MarketInv, [MarketNext]_marketVars
    PROVE  FallbackShape'
<1>. USE DEF MarketInv, BriefKeeps
<1>0. DOMAIN NoRows = {}
  BY DEF NoRows
<1>1. ASSUME UNCHANGED <<stockCache, marketLog>>, brief'.at = brief.at,
             brief'.cached = brief.cached, brief'.got = brief.got
      PROVE  FallbackShape'
  BY <1>1 DEF FallbackShape, OnlyKillsRefetch
<1>2. ASSUME UNCHANGED <<stockCache, marketLog>>, brief'.at \notin {"ask", "merge"},
             brief.at \notin {"ask", "merge"}, brief'.got = brief.got
      PROVE  FallbackShape'
  BY <1>2 DEF FallbackShape, OnlyKillsRefetch
<1>3. CASE UNCHANGED <<brief, stockCache>> /\ ~NextMarketDay /\ ~AskSettles /\ ~KillBrief
  <2>1. UNCHANGED <<marketLog.settled, marketLog.lost>>
    <3>1. CASE CaptureAppends
      BY <3>1 DEF CaptureAppends, StoresShape
    <3>2. CASE UNCHANGED marketLog
      BY <3>2
    <3>. QED
      BY <1>3, <3>1, <3>2, WhoWrites
  <2>. QED
    BY <1>3, <2>1 DEF FallbackShape, OnlyKillsRefetch
<1>4. CASE CaptureRecords
  BY <1>1, <1>4 DEF CaptureRecords, CaptureKeeps, IsBrief
<1>5. CASE NextMarketDay
  BY <1>0, <1>5 DEF NextMarketDay, NoBrief, FallbackShape, OnlyKillsRefetch, StoresShape
<1>6. CASE StartBrief
  <2>1. DOMAIN brief.got = {} /\ DOMAIN brief'.got = {} /\ brief'.at = "batch"
    BY <1>0, <1>6 DEF StartBrief, NoBrief, FallbackShape
  <2>. QED
    BY <1>6, <2>1 DEF StartBrief, FallbackShape, OnlyKillsRefetch
<1>7. CASE BriefBatch
  BY <1>2, <1>7 DEF BriefBatch, IsBrief
<1>8. CASE BriefRecords
  BY <1>2, <1>8 DEF BriefRecords, IsBrief
<1>9. CASE BriefServes
  BY <1>2, <1>9 DEF BriefServes, IsBrief
<1>10. CASE BriefFindsPe
  BY <1>2, <1>10 DEF BriefFindsPe, IsBrief
<1>11. CASE BriefAsksPe
  BY <1>2, <1>11 DEF BriefAsksPe, IsBrief
<1>12. CASE BriefFund
  <2>1. /\ brief'.at \in {"funds", "ask"} /\ brief'.cached = stockCache /\ brief'.got = brief.got
        /\ brief.at = "funds" /\ UNCHANGED <<stockCache, marketLog>>
    BY <1>12 DEF BriefFund, IsBrief
  <2>. QED
    BY <2>1 DEF FallbackShape, OnlyKillsRefetch
<1>13. CASE AskSettles
  <2>1. PICK s \in brief.ask, answer \in Industries \cup {Miss} :
           /\ brief' = [brief EXCEPT !.got = Over([t \in {s} |-> answer], @), !.ask = @ \ {s},
                                     !.tries = 0, !.failed = 0, !.calls = 0]
           /\ marketLog' = [marketLog EXCEPT !.settled = @ \cup {s}]
    BY <1>13 DEF AskSettles
  <2>2. /\ brief'.got = Over([t \in {s} |-> answer], brief.got)
        /\ brief'.at = "ask" /\ brief'.cached = brief.cached /\ UNCHANGED stockCache
        /\ marketLog'.settled = marketLog.settled \cup {s} /\ marketLog'.lost = marketLog.lost
    BY <1>13, <2>1 DEF AskSettles, IsBrief, StoresShape
  <2>3. DOMAIN brief'.got = DOMAIN brief.got \cup {s}
    BY <2>2 DEF Over
  <2>. QED
    BY <1>13, <2>2, <2>3 DEF AskSettles, FallbackShape, OnlyKillsRefetch
<1>14. CASE AskFails
  BY <1>1, <1>14 DEF AskFails, IsBrief
<1>15. CASE AskEnds
  <2>1. DOMAIN stockCache' = DOMAIN brief.got \cup DOMAIN stockCache
    BY <1>0, <1>15 DEF AskEnds, Over, FallbackShape
  <2>2. brief'.at = "merge" /\ brief'.got = brief.got /\ UNCHANGED marketLog
    BY <1>15 DEF AskEnds, IsBrief
  <2>. QED
    BY <2>1, <2>2 DEF FallbackShape, OnlyKillsRefetch
<1>16. CASE FallbackMerges
  <2>1. /\ brief'.at \in {"funds", "store"} /\ DOMAIN brief'.got = {} /\ brief.at = "merge"
        /\ UNCHANGED <<stockCache, marketLog>>
    BY <1>0, <1>16 DEF FallbackMerges, IsBrief
  <2>. QED
    BY <2>1 DEF FallbackShape, OnlyKillsRefetch
<1>17. CASE FallbackStores
  BY <1>2, <1>17 DEF FallbackStores, IsBrief
<1>18. CASE BriefEnds
  <2>1. DOMAIN brief.got = {} /\ DOMAIN brief'.got = {} /\ brief'.at = "off"
    BY <1>0, <1>18 DEF BriefEnds, NoBrief, FallbackShape
  <2>. QED
    BY <1>18, <2>1 DEF BriefEnds, FallbackShape, OnlyKillsRefetch
<1>19. CASE KillBrief
  <2>1. DOMAIN brief'.got = {} /\ brief'.at = "off"
    BY <1>0, <1>19 DEF KillBrief, NoBrief
  <2>2. marketLog'.settled = marketLog.settled
        /\ marketLog'.lost = marketLog.lost \cup (DOMAIN brief.got \ DOMAIN stockCache)
    BY <1>19 DEF KillBrief, StoresShape
  <2>. QED
    BY <1>19, <2>1, <2>2 DEF KillBrief, FallbackShape, OnlyKillsRefetch
<1>. QED
  BY <1>3, <1>4, <1>5, <1>6, <1>7, <1>8, <1>9, <1>10, <1>11, <1>12, <1>13, <1>14, <1>15,
     <1>16, <1>17, <1>18, <1>19, WhoWrites DEF BriefMoves

LEMMA BreakerKept ==
    ASSUME MarketInv, [MarketNext]_marketVars
    PROVE  BreakerShape'
<1>. USE DEF MarketInv
<1>0. FetchRetries \in Nat /\ BreakerThreshold \in Nat /\ BreakerThreshold # 0
  BY MarketAssumption
<1>00. 0 * (FetchRetries + 1) = 0 /\ 0 \in 0..FetchRetries /\ 0 \in 0..BreakerThreshold
  BY <1>0
<1>1. ASSUME brief'.at = brief.at, brief'.ask = brief.ask, brief'.tries = brief.tries,
             brief'.failed = brief.failed, brief'.calls = brief.calls
      PROVE  BreakerShape'
  BY <1>1 DEF BreakerShape
<1>2. ASSUME brief'.at \in BriefPlaces, brief'.at # "ask", brief'.ask = {}, brief'.tries = 0,
             brief'.failed = 0, brief'.calls = 0
      PROVE  BreakerShape'
  BY <1>0, <1>00, <1>2 DEF BreakerShape
<1>3. brief.at # "ask" => brief.ask = {} /\ brief.tries = 0 /\ brief.failed = 0 /\ brief.calls = 0
  <2>1. brief.at # "ask" => brief.ask = {} /\ brief.tries = 0 /\ brief.failed = 0
    BY DEF BreakerShape
  <2>2. brief.calls = brief.failed * (FetchRetries + 1) + brief.tries
    BY DEF BreakerShape
  <2>. QED
    BY <2>1, <2>2, <1>00
<1>4. CASE UNCHANGED brief
  BY <1>1, <1>4
<1>5. CASE CaptureRecords
  BY <1>1, <1>5 DEF CaptureRecords, IsBrief
<1>6. CASE StartBrief
  BY <1>2, <1>6 DEF StartBrief, NoBrief, BriefPlaces
<1>7. CASE BriefBatch
  BY <1>2, <1>3, <1>7 DEF BriefBatch, IsBrief, BriefPlaces
<1>8. CASE BriefRecords
  BY <1>2, <1>3, <1>8 DEF BriefRecords, IsBrief, BriefPlaces
<1>9. CASE BriefServes
  BY <1>2, <1>3, <1>9 DEF BriefServes, IsBrief, BriefPlaces
<1>10. CASE BriefFindsPe
  BY <1>2, <1>3, <1>10 DEF BriefFindsPe, IsBrief, BriefPlaces
<1>11. CASE BriefAsksPe
  BY <1>2, <1>3, <1>11 DEF BriefAsksPe, IsBrief, BriefPlaces
<1>12. CASE BriefFund
  <2>1. /\ brief'.tries = 0 /\ brief'.failed = 0 /\ brief'.calls = 0
        /\ brief'.at # "ask" => brief'.ask = {}
    BY <1>3, <1>12 DEF BriefFund, IsBrief
  <2>. QED
    BY <1>0, <2>1 DEF BreakerShape
<1>13. CASE AskSettles
  <2>1. brief'.tries = 0 /\ brief'.failed = 0 /\ brief'.calls = 0 /\ brief'.at = "ask"
    BY <1>13 DEF AskSettles, IsBrief
  <2>. QED
    BY <1>0, <2>1 DEF BreakerShape
<1>14. CASE AskFails
  <2>0. brief.at = "ask" /\ brief.ask # {} /\ brief.failed < BreakerThreshold
    BY <1>0, <1>14 DEF AskFails, BreakerShape
  <2>1. CASE brief.tries < FetchRetries
    <3>1. /\ brief'.tries = brief.tries + 1 /\ brief'.calls = brief.calls + 1
          /\ brief'.failed = brief.failed /\ brief'.ask = brief.ask /\ brief'.at = "ask"
      BY <1>14, <2>0, <2>1 DEF AskFails, IsBrief
    <3>. QED
      BY <1>0, <2>0, <2>1, <3>1 DEF BreakerShape
  <2>2. CASE ~(brief.tries < FetchRetries)
    <3>1. PICK s \in brief.ask :
            brief' = [brief EXCEPT !.tries = 0, !.calls = @ + 1, !.failed = @ + 1,
                                   !.ask = IF brief.failed + 1 >= BreakerThreshold
                                           THEN {} ELSE @ \ {s}]
      BY <1>14, <2>2 DEF AskFails
    <3>2. /\ brief'.tries = 0 /\ brief'.calls = brief.calls + 1 /\ brief'.at = "ask"
          /\ brief'.failed = brief.failed + 1
          /\ brief.failed + 1 >= BreakerThreshold => brief'.ask = {}
      BY <2>0, <3>1 DEF IsBrief
    <3>3. brief.tries = FetchRetries
      BY <1>0, <2>2 DEF BreakerShape
    <3>4. brief.failed * (FetchRetries + 1) + FetchRetries + 1
            = (brief.failed + 1) * (FetchRetries + 1)
      BY <1>0 DEF BreakerShape
    <3>. QED
      BY <1>0, <2>0, <3>2, <3>3, <3>4 DEF BreakerShape
  <2>. QED
    BY <2>1, <2>2
<1>15. CASE AskEnds
  BY <1>2, <1>15 DEF AskEnds, IsBrief, BriefPlaces, BreakerShape
<1>16. CASE FallbackMerges
  BY <1>2, <1>3, <1>16 DEF FallbackMerges, IsBrief, BriefPlaces
<1>17. CASE FallbackStores
  BY <1>2, <1>3, <1>17 DEF FallbackStores, IsBrief, BriefPlaces
<1>18. CASE BriefEnds
  BY <1>2, <1>18 DEF BriefEnds, NoBrief, BriefPlaces
<1>19. CASE KillBrief
  BY <1>2, <1>19 DEF KillBrief, NoBrief, BriefPlaces
<1>. QED
  BY <1>4, <1>5, <1>6, <1>7, <1>8, <1>9, <1>10, <1>11, <1>12, <1>13, <1>14, <1>15,
     <1>16, <1>17, <1>18, <1>19, WhoWrites DEF BriefMoves

LEMMA FlowKept ==
    ASSUME MarketInv, [MarketNext]_marketVars
    PROVE  FlowShape'
<1>. USE DEF MarketInv, CaptureKeeps
<1>0. DOMAIN NoRows = {}
  BY DEF NoRows
<1>1. today \in Nat /\ today >= 1 /\ CalendarDays \subseteq Nat /\ 1..today \subseteq CalendarDays
  BY MarketDays
<1>2. ASSUME UNCHANGED <<flowStore, today>>, marketLog'.final = marketLog.final,
             closed => closed', capture'.flow = capture.flow,
             capture'.at \in {"append", "write"} => capture.at \in {"append", "write"},
             capture'.at \in {"map", "record", "pe", "peAsk"}
             => capture.at \in {"map", "record", "pe", "peAsk"}
      PROVE  FlowShape'
  BY <1>2 DEF FlowShape, FinalValueStays, AppendIsKept
<1>3. ASSUME UNCHANGED <<flowStore, today, closed>>, marketLog'.final = marketLog.final,
             capture'.at = "off", DOMAIN capture'.flow = {}
      PROVE  FlowShape'
  BY <1>3 DEF FlowShape, FinalValueStays, AppendIsKept
<1>4. CASE UNCHANGED capture /\ ~NextMarketDay
  <2>1. ~CaptureAppends
    BY <1>4 DEF CaptureAppends, IsCapture
  <2>2. marketLog'.final = marketLog.final
    <3>1. CASE AskSettles
      BY <3>1 DEF AskSettles, StoresShape
    <3>2. CASE KillBrief
      BY <3>2 DEF KillBrief, StoresShape
    <3>. QED
      BY <1>4, <2>1, <3>1, <3>2, WhoWrites
  <2>3. UNCHANGED <<flowStore, today>>
    BY <1>4, <2>1, WhoWrites
  <2>4. closed => closed'
    BY <1>4, WhoWrites DEF MarketCloses
  <2>. QED
    BY <1>2, <1>4, <2>2, <2>3, <2>4
<1>5. CASE NextMarketDay
  <2>1. /\ UNCHANGED flowStore /\ today' = today + 1 /\ capture'.at = "off"
        /\ DOMAIN capture'.flow = {} /\ marketLog'.final = marketLog.final
    BY <1>0, <1>5 DEF NextMarketDay, NoCapture, StoresShape
  <2>2. \A s \in TopSymbols : <<s, today + 1>> \notin marketLog.final
    <3>1. \A s \in TopSymbols, t \in TopSymbols, d \in 1..today : <<s, today + 1>> # <<t, d>>
      BY <1>1
    <3>. QED
      BY <3>1 DEF FlowShape
  <2>3. \A e \in marketLog.final : \E s \in TopSymbols, d \in 1..today' : e = <<s, d>>
    <3>1. 1..today \subseteq 1..today'
      BY <1>1, <2>1
    <3>. QED
      BY <3>1 DEF FlowShape
  <2>. QED
    BY <2>1, <2>2, <2>3 DEF FlowShape, FinalValueStays, AppendIsKept
<1>6. CASE StartCapture
  <2>0. UNCHANGED <<flowStore, today, closed, marketLog>>
    BY <1>6 DEF StartCapture
  <2>1. CASE UNCHANGED capture
    BY <1>2, <2>0, <2>1
  <2>2. ASSUME NEW seen \in BatchAnswers, NEW valued \in SUBSET TopSymbols,
               capture' = [NoCapture EXCEPT !.at = "append", !.seen = seen, !.flow = CapturedFlow(valued)]
        PROVE  FlowShape'
    <3>1. capture'.at = "append" /\ capture'.flow = CapturedFlow(valued)
      BY <2>2 DEF NoCapture
    <3>2. \A s \in DOMAIN CapturedFlow(valued) :
             CapturedFlow(valued)[s] = IF closed THEN "final" ELSE "provisional"
      BY DEF CapturedFlow
    <3>. QED
      BY <2>0, <3>1, <3>2 DEF FlowShape, FinalValueStays, AppendIsKept
  <2>. QED
    BY <1>6, <2>1, <2>2 DEF StartCapture
<1>7. CASE CaptureCalendar
  BY <1>2, <1>7 DEF CaptureCalendar, IsCapture
<1>8. CASE CaptureAppends
  <2>. DEFINE new == {<<s, today>> : s \in {t \in DOMAIN capture.flow : capture.flow[t] = "final"}}
              window == PruneWindow(today, FlowKeep, capture.calendar)
  <2>0. /\ marketLog'.final = marketLog.final \cup new
        /\ capture'.at = "map" /\ capture'.flow = capture.flow /\ capture.at = "write"
        /\ UNCHANGED <<today, closed>>
        /\ flowStore' = AppendToday(capture.flow, capture.calendar)
    BY <1>8 DEF CaptureAppends, StoresShape, IsCapture
  <2>1. \A s \in DOMAIN capture.flow :
           s \in TopSymbols /\ capture.flow[s] \in {"final", "provisional"}
    BY DEF IsCapture
  <2>2. \A s \in TopSymbols \ DOMAIN capture.flow : flowStore'[s] = flowStore[s]
    BY <2>0 DEF AppendToday
  <2>3. ASSUME NEW s \in DOMAIN capture.flow
        PROVE  /\ DOMAIN flowStore'[s] = (DOMAIN flowStore[s] \cup {today}) \cap window
               /\ \A d \in DOMAIN flowStore'[s] :
                     flowStore'[s][d] = IF d = today THEN capture.flow[s] ELSE flowStore[s][d]
    <3>1. flowStore'[s] = Prune(MergeDay(flowStore[s], today, capture.flow[s]), today,
                                FlowKeep, capture.calendar)
      BY <2>0, <2>1 DEF AppendToday
    <3>. QED
      BY <3>1 DEF Prune, MergeDay, Over
  <2>4. \A s \in TopSymbols : \A d : <<s, d>> \in new <=>
            d = today /\ s \in DOMAIN capture.flow /\ capture.flow[s] = "final"
    OBVIOUS
  <2>5. \A e \in new : \E s \in TopSymbols, d \in 1..today : e = <<s, d>>
    BY <1>1, <2>1
  <2>6. \A s \in TopSymbols : <<s, today>> \in marketLog.final \cup new => closed
    BY <2>0, <2>4 DEF FlowShape
  <2>7. FinalValueStays'
    <3>1. SUFFICES ASSUME NEW s \in TopSymbols, NEW d \in DOMAIN flowStore'[s]
                   PROVE  <<s, d>> \in marketLog.final \cup new <=> flowStore'[s][d] = "final"
      BY <2>0 DEF FinalValueStays
    <3>2. CASE s \notin DOMAIN capture.flow
      BY <2>2, <2>4, <3>2 DEF FlowShape, FinalValueStays
    <3>3. CASE s \in DOMAIN capture.flow /\ d # today
      <4>1. d \in DOMAIN flowStore[s] /\ flowStore'[s][d] = flowStore[s][d]
        BY <2>3, <3>3
      <4>. QED
        BY <2>4, <3>3, <4>1 DEF FlowShape, FinalValueStays
    <3>4. CASE s \in DOMAIN capture.flow /\ d = today
      <4>1. flowStore'[s][d] = capture.flow[s]
        BY <2>3, <3>4
      <4>2. capture.flow[s] = "provisional" => <<s, today>> \notin marketLog.final
        BY <2>0, <2>1, <3>4 DEF FlowShape
      <4>. QED
        BY <2>1, <2>4, <3>4, <4>1, <4>2
    <3>. QED
      BY <3>2, <3>3, <3>4
  <2>8. AppendIsKept'
    <3>1. SUFFICES ASSUME today \in TradingDays, NEW s \in DOMAIN capture.flow
                   PROVE  today \in DOMAIN flowStore'[s]
      BY <2>0 DEF AppendIsKept
    <3>2. today \in window
      <4>1. CASE capture.calendar = {}
        BY <1>1, <4>1 DEF PruneWindow
      <4>2. CASE capture.calendar # {}
        <5>1. {e \in {d \in capture.calendar : d <= today} : today < e} = {}
          <6>1. capture.calendar \subseteq Nat
            BY <1>1, DayAssumption DEF IsCapture
          <6>. QED
            BY <1>1, <6>1
        <5>2. Cardinality({e \in {d \in capture.calendar : d <= today} : today < e}) < FlowKeep
          <6>1. FlowKeep \in Nat /\ FlowKeep # 0
            BY MarketAssumption
          <6>2. Cardinality({}) = 0
            BY FS_EmptySet
          <6>3. 0 < FlowKeep
            BY <6>1
          <6>. QED
            BY <5>1, <6>2, <6>3, Zenon
        <5>3. today \in {d \in capture.calendar : d <= today}
          BY <1>1, <3>1, <4>2 DEF IsCapture
        <5>. QED
          BY <4>2, <5>2, <5>3 DEF PruneWindow, LastOf
      <4>. QED
        BY <4>1, <4>2
    <3>. QED
      BY <2>3, <3>2
  <2>. HIDE DEF new
  <2>. QED
    BY <2>0, <2>5, <2>6, <2>7, <2>8 DEF FlowShape
<1>9. CASE CaptureReadsMap
  BY <1>2, <1>9 DEF CaptureReadsMap, IsCapture
<1>10. CASE CaptureRecords
  BY <1>2, <1>10 DEF CaptureRecords, IsCapture
<1>11. CASE CaptureFindsPe
  <2>1. CASE capture' = NoCapture
    BY <1>0, <1>3, <1>11, <2>1 DEF CaptureFindsPe, NoCapture
  <2>2. CASE capture' = [capture EXCEPT !.at = "peAsk"]
    BY <1>2, <1>11, <2>2 DEF CaptureFindsPe, IsCapture
  <2>. QED
    BY <1>11, <2>1, <2>2 DEF CaptureFindsPe
<1>12. CASE CaptureAsksPe
  BY <1>0, <1>3, <1>12 DEF CaptureAsksPe, NoCapture
<1>13. CASE KillCapture
  BY <1>0, <1>3, <1>13 DEF KillCapture, NoCapture
<1>. QED
  BY <1>4, <1>5, <1>6, <1>7, <1>8, <1>9, <1>10, <1>11, <1>12, <1>13, WhoWrites DEF CaptureMoves

LEMMA ExchangeDays == IsFiniteSet(TradingDays) /\ \A t \in TradingDays : t \in Nat
<1>1. LastDay \in Nat /\ TradingDays \subseteq 1..LastDay
  BY DayAssumption DEF CalendarDays
<1>2. IsFiniteSet(1..LastDay)
  BY <1>1, FS_Interval
<1>3. IsFiniteSet(TradingDays)
  BY <1>1, <1>2, FS_Subset
<1>. QED
  BY <1>1, <1>3

LEMMA AgeIs ==
    ASSUME StoresShape
    PROVE  /\ Age(today) = 0
           /\ \A d, e \in Nat : d <= e => Age(e) <= Age(d)
<1>1. today \in Nat /\ \A t \in TradingDays : t \in Nat
  BY MarketDays, ExchangeDays
<1>2. IsFiniteSet(TradingDays)
  BY ExchangeDays
<1>3. Age(today) = 0
  <2>1. {t \in TradingDays : today < t /\ t <= today} = {}
    BY <1>1
  <2>. QED
    BY <2>1, FS_EmptySet DEF Age
<1>4. ASSUME NEW d \in Nat, NEW e \in Nat, d <= e PROVE Age(e) <= Age(d)
  <2>. DEFINE E == {t \in TradingDays : e < t /\ t <= today}
              D == {t \in TradingDays : d < t /\ t <= today}
  <2>1. E \subseteq D
    BY <1>1, <1>4
  <2>2. IsFiniteSet(D)
    <3>1. D \subseteq TradingDays
      OBVIOUS
    <3>. HIDE DEF D
    <3>. QED
      BY <1>2, <3>1, FS_Subset
  <2>. HIDE DEF D, E
  <2>3. Cardinality(E) <= Cardinality(D)
    BY <2>1, <2>2, FS_Subset
  <2>. QED
    BY <2>3 DEF Age, D, E
<1>. QED
  BY <1>3, <1>4

\* StaleFallback finds the newest of the young tables, if there is one.
LEMMA FallbackFinds ==
    ASSUME StoresShape, TradingDays # {}
    PROVE  LET served == StaleFallback(TradingDays) IN
           \/ served.state = "STALE" /\ served.asOf \in Older /\ \A d \in Older : d <= served.asOf
           \/ served.state = "DARK" /\ Older = {}
<1>. DEFINE past == {d \in DOMAIN peTables : d < today} \cup {0}
            best == NewestTable
<1>1. today \in Nat /\ LastDay \in Nat /\ MaxStaleTd \in Nat /\ DOMAIN peTables \subseteq 1..today
  BY MarketDays, MarketAssumption DEF StoresShape
<1>2. best \in past /\ \A d \in past : d <= best
  <2>1. past \subseteq 0..today /\ past # {}
    BY <1>1
  <2>. HIDE DEF past
  <2>2. Max(past) \in past /\ \A d \in past : d <= Max(past)
    BY <1>1, <2>1, MaxIs
  <2>. QED
    BY <2>2 DEF NewestTable, past
<1>3. past \subseteq Nat
  BY <1>1
<1>4. Older \subseteq past /\ Older \subseteq DOMAIN peTables /\ 0 \notin Older
  BY <1>1 DEF Older
<1>5. \A d \in Nat : Age(d) = TradingDayAge(d, TradingDays)
  BY DEF Age, TradingDayAge
<1>6. \A d \in Nat : Age(d) \in Nat
  BY ExchangeDays, FS_Subset, FS_CardinalityType DEF Age
<1>. HIDE DEF best, past
<1>7. CASE best = 0
  <2>1. Older = {}
    <3>1. SUFFICES ASSUME NEW d \in Older PROVE FALSE
      OBVIOUS
    <3>2. d \in past /\ d \in Nat /\ d # 0
      BY <1>3, <1>4
    <3>. QED
      BY <1>2, <1>7, <3>2
  <2>. QED
    BY <1>7, <2>1 DEF StaleFallback, best
<1>8. CASE best # 0 /\ Age(best) > MaxStaleTd
  <2>1. Older = {}
    <3>1. SUFFICES ASSUME NEW d \in Older PROVE FALSE
      OBVIOUS
    <3>2. d \in Nat /\ best \in Nat /\ d <= best /\ Age(d) <= MaxStaleTd
      BY <1>2, <1>3, <1>4 DEF Older
    <3>3. Age(best) <= Age(d)
      BY <3>2, AgeIs
    <3>. QED
      BY <1>1, <1>6, <1>8, <3>2, <3>3
  <2>2. TradingDayAge(best, TradingDays) > MaxStaleTd
    BY <1>2, <1>3, <1>5, <1>8
  <2>. QED
    BY <1>8, <2>1, <2>2 DEF StaleFallback, best
<1>9. CASE best # 0 /\ ~(Age(best) > MaxStaleTd)
  <2>1. best \in Nat /\ best \in DOMAIN peTables /\ best < today
    BY <1>2, <1>3, <1>9 DEF past
  <2>2. best \in Older
    BY <1>1, <1>6, <1>9, <2>1 DEF Older
  <2>3. \A d \in Older : d <= best
    BY <1>2, <1>4
  <2>4. ~(TradingDayAge(best, TradingDays) > MaxStaleTd)
    BY <1>5, <1>9, <2>1
  <2>5. StaleFallback(TradingDays) = [state |-> "STALE", asOf |-> best]
    BY <1>9, <2>4 DEF StaleFallback, best
  <2>. QED
    BY <2>2, <2>3, <2>5
<1>. QED
  BY <1>7, <1>8, <1>9

LEMMA PeKept ==
    ASSUME MarketInv, [MarketNext]_marketVars
    PROVE  PeIsServed'
<1>. USE DEF MarketInv, BriefKeeps, CaptureKeeps
<1>. DEFINE Served1 == {"funds", "ask", "merge", "store"}
<1>1. ASSUME UNCHANGED <<today, peTables>>, brief.at \in Served1, brief'.pe = brief.pe,
             brief'.calendar = brief.calendar
      PROVE  PeIsServed'
  BY <1>1 DEF PeIsServed, Older, Age
<1>2. ASSUME brief'.at \notin Served1
      PROVE  PeIsServed'
  BY <1>2 DEF PeIsServed
<1>3. CASE CaptureAsksPe
  <2>1. UNCHANGED <<brief, today>>
    BY <1>3 DEF CaptureAsksPe
  <2>2. UNCHANGED peTables \/ \E boards : peTables' = MergeDay(peTables, today, boards)
    BY <1>3 DEF CaptureAsksPe, FetchIndustryPe
  <2>3. DOMAIN peTables \subseteq DOMAIN peTables' /\ DOMAIN peTables' \subseteq DOMAIN peTables \cup {today}
    BY <2>2 DEF MergeDay, Over
  <2>4. Older' = Older
    BY <2>1, <2>3 DEF Older, Age
  <2>. QED
    BY <2>1, <2>3, <2>4 DEF PeIsServed
<1>4. CASE UNCHANGED <<brief, today, peTables>>
  BY <1>1, <1>2, <1>4
<1>5. CASE CaptureRecords
  <2>1. /\ UNCHANGED <<today, peTables>> /\ brief'.at = brief.at /\ brief'.pe = brief.pe
        /\ brief'.calendar = brief.calendar
    BY <1>5 DEF CaptureRecords, IsBrief
  <2>. QED
    BY <1>1, <1>2, <2>1
<1>6. CASE NextMarketDay
  BY <1>2, <1>6 DEF NextMarketDay, NoBrief
<1>7. CASE StartBrief
  BY <1>2, <1>7 DEF StartBrief, NoBrief
<1>8. CASE BriefBatch
  BY <1>2, <1>8 DEF BriefBatch, IsBrief
<1>9. CASE BriefRecords
  BY <1>2, <1>9 DEF BriefRecords, IsBrief
<1>10. CASE BriefServes
  BY <1>2, <1>10 DEF BriefServes, IsBrief
<1>11. CASE BriefFindsPe
  <2>1. CASE today \in DOMAIN peTables
    <3>1. /\ brief'.pe = [state |-> "FRESH", asOf |-> today] /\ UNCHANGED <<today, peTables>>
      BY <1>11, <2>1 DEF BriefFindsPe, IsBrief
    <3>. QED
      BY <2>1, <3>1 DEF PeIsServed
  <2>2. CASE today \notin DOMAIN peTables
    BY <1>2, <1>11, <2>2 DEF BriefFindsPe, IsBrief
  <2>. QED
    BY <2>1, <2>2
<1>12. CASE BriefAsksPe
  <2>1. PICK boards \in BoardPeAnswers,
             served \in [state : {"FRESH", "STALE", "DARK"}, asOf : 0..LastDay] :
          /\ FetchIndustryPe(boards, brief.calendar, served)
          /\ brief' = [brief EXCEPT !.at = "funds", !.pe = served]
    BY <1>12 DEF BriefAsksPe
  <2>2. brief'.pe = served /\ brief'.calendar = brief.calendar /\ UNCHANGED today
    BY <1>12, <2>1 DEF BriefAsksPe, IsBrief
  <2>3. CASE boards # {}
    <3>1. served = [state |-> "FRESH", asOf |-> today] /\ today \in DOMAIN peTables'
      BY <2>1, <2>3 DEF FetchIndustryPe, MergeDay, Over
    <3>. QED
      BY <2>2, <3>1 DEF PeIsServed
  <2>4. CASE boards = {} /\ brief.calendar # {}
    <3>1. served = StaleFallback(TradingDays) /\ TradingDays # {} /\ UNCHANGED peTables
      BY <2>1, <2>4 DEF FetchIndustryPe, IsBrief
    <3>3. \/ served.state = "STALE" /\ served.asOf \in Older /\ \A d \in Older : d <= served.asOf
          \/ served.state = "DARK" /\ Older = {}
      BY <3>1, FallbackFinds
    <3>4. Older' = Older
      BY <2>2, <3>1 DEF Older, Age
    <3>. QED
      BY <2>2, <3>3, <3>4 DEF PeIsServed
  <2>5. CASE brief.calendar = {}
    BY <2>2, <2>5 DEF PeIsServed
  <2>. QED
    BY <2>3, <2>4, <2>5
<1>13. CASE BriefFund
  BY <1>1, <1>13 DEF BriefFund, IsBrief
<1>14. CASE AskSettles
  BY <1>1, <1>14 DEF AskSettles, IsBrief
<1>15. CASE AskFails
  BY <1>1, <1>15 DEF AskFails, IsBrief
<1>16. CASE AskEnds
  BY <1>1, <1>16 DEF AskEnds, IsBrief
<1>17. CASE FallbackMerges
  BY <1>1, <1>17 DEF FallbackMerges, IsBrief
<1>18. CASE FallbackStores
  BY <1>1, <1>18 DEF FallbackStores, IsBrief
<1>19. CASE BriefEnds
  BY <1>2, <1>19 DEF BriefEnds, NoBrief
<1>20. CASE KillBrief
  BY <1>2, <1>20 DEF KillBrief, NoBrief
<1>. QED
  BY <1>3, <1>4, <1>5, <1>6, <1>7, <1>8, <1>9, <1>10, <1>11, <1>12, <1>13, <1>14, <1>15, <1>16,
     <1>17, <1>18, <1>19, <1>20, WhoWrites DEF BriefMoves

LEMMA BatchKept ==
    ASSUME MarketInv, [MarketNext]_marketVars
    PROVE  BatchIsKept'
<1>. USE DEF MarketInv, BriefKeeps, CaptureKeeps
<1>0. DOMAIN NoRows = {}
  BY DEF NoRows
<1>1. ASSUME brief'.at \notin {"batch", "serve", "pe", "peAsk"}
      PROVE  BatchIsKept'
  BY <1>1 DEF BatchIsKept, BatchIsServed
<1>2. ASSUME UNCHANGED <<industryMap, today>>, brief'.seen = brief.seen,
             brief'.raced = brief.raced, brief'.serving = brief.serving,
             \/ brief'.at = brief.at
             \/ brief.at \in {"pe", "peAsk"} /\ brief'.at \in {"pe", "peAsk"}
      PROVE  BatchIsKept'
  BY <1>2 DEF BatchIsKept, BatchIsServed
<1>3. CASE UNCHANGED <<brief, industryMap, today>>
  BY <1>2, <1>3
<1>4. CASE NextMarketDay
  BY <1>1, <1>4 DEF NextMarketDay, NoBrief
<1>5. CASE CaptureRecords
  <2>. DEFINE r == brief.raced \/ (brief.at # "off" /\ CaptureContradicts)
  <2>1. /\ brief' = [brief EXCEPT !.raced = r] /\ UNCHANGED today
        /\ industryMap' = MergeSeen(capture.map, capture.seen)
    BY <1>5 DEF CaptureRecords
  <2>2. /\ brief'.at = brief.at /\ brief'.seen = brief.seen /\ brief'.serving = brief.serving
        /\ (brief'.raced <=> r)
    BY <2>1 DEF IsBrief
  <2>3. ASSUME brief.at = "serve", ~r, NEW s \in DOMAIN brief.seen
        PROVE  s \in DOMAIN industryMap'
               /\ industryMap'[s] = [name |-> brief.seen[s], seen |-> today]
    <3>1. capture.map = industryMap
          /\ (s \in DOMAIN capture.seen => capture.seen[s] = brief.seen[s])
      BY <2>3 DEF CaptureContradicts
    <3>2. s \in DOMAIN industryMap /\ industryMap[s] = [name |-> brief.seen[s], seen |-> today]
      BY <2>3 DEF BatchIsKept
    <3>. QED
      BY <2>1, <3>1, <3>2 DEF MergeSeen, Over
  <2>4. ~r => ~brief.raced
    OBVIOUS
  <2>. HIDE DEF r
  <2>. QED
    BY <2>1, <2>2, <2>3, <2>4 DEF BatchIsKept, BatchIsServed
<1>6. CASE StartBrief
  BY <1>0, <1>6 DEF StartBrief, NoBrief, BatchIsKept, BatchIsServed
<1>7. CASE BriefBatch
  <2>1. CASE brief' = [brief EXCEPT !.at = "serve"]
    BY <1>7, <2>1 DEF BriefBatch, IsBrief, BatchIsKept, BatchIsServed
  <2>2. CASE brief'.at = "record"
    BY <1>1, <2>2
  <2>. QED
    BY <1>7, <2>1, <2>2 DEF BriefBatch, IsBrief
<1>8. CASE BriefRecords
  <2>1. /\ industryMap' = MergeSeen(brief.map, brief.seen) /\ brief'.at = "serve"
        /\ brief'.seen = brief.seen /\ UNCHANGED today
    BY <1>8 DEF BriefRecords, IsBrief
  <2>2. \A s \in DOMAIN brief.seen : s \in DOMAIN industryMap'
           /\ industryMap'[s] = [name |-> brief.seen[s], seen |-> today]
    BY <2>1 DEF MergeSeen, Over
  <2>. QED
    BY <2>1, <2>2 DEF BatchIsKept, BatchIsServed
<1>9. CASE BriefServes
  <2>1. /\ brief'.serving = FreshSlice /\ brief'.seen = brief.seen /\ brief'.raced = brief.raced
        /\ brief'.at \in {"pe", "rest"} /\ brief.at = "serve"
    BY <1>9 DEF BriefServes, IsBrief
  <2>2. today \in Nat /\ MapMaxAge \in Nat
    BY MarketDays, DayAssumption
  <2>3. \A s \in DOMAIN industryMap : industryMap[s].seen = today =>
           s \in DOMAIN FreshSlice /\ FreshSlice[s] = industryMap[s].name
    BY <2>2 DEF FreshSlice
  <2>4. ~brief.raced => \A s \in DOMAIN brief.seen :
           s \in DOMAIN FreshSlice /\ FreshSlice[s] = brief.seen[s]
    <3>1. SUFFICES ASSUME ~brief.raced, NEW s \in DOMAIN brief.seen
                   PROVE  s \in DOMAIN FreshSlice /\ FreshSlice[s] = brief.seen[s]
      OBVIOUS
    <3>2. s \in DOMAIN industryMap /\ industryMap[s] = [name |-> brief.seen[s], seen |-> today]
      BY <2>1, <3>1 DEF BatchIsKept
    <3>3. industryMap[s].seen = today /\ industryMap[s].name = brief.seen[s]
      BY <3>2
    <3>. QED
      BY <2>3, <3>2, <3>3
  <2>. QED
    BY <2>1, <2>4 DEF BatchIsKept, BatchIsServed
<1>10. CASE BriefFindsPe
  <2>1. /\ brief'.at \in {"funds", "peAsk"} /\ brief.at = "pe"
        /\ brief'.seen = brief.seen /\ brief'.raced = brief.raced /\ brief'.serving = brief.serving
    BY <1>10 DEF BriefFindsPe, IsBrief
  <2>. QED
    BY <1>1, <1>2, <1>10, <2>1 DEF BriefFindsPe
<1>11. CASE BriefAsksPe
  BY <1>1, <1>11 DEF BriefAsksPe, IsBrief
<1>12. CASE BriefFund
  BY <1>1, <1>12 DEF BriefFund, IsBrief
<1>13. CASE AskSettles
  BY <1>1, <1>13 DEF AskSettles, IsBrief
<1>14. CASE AskFails
  BY <1>1, <1>14 DEF AskFails, IsBrief
<1>15. CASE AskEnds
  BY <1>1, <1>15 DEF AskEnds, IsBrief
<1>16. CASE FallbackMerges
  BY <1>1, <1>16 DEF FallbackMerges, IsBrief
<1>17. CASE FallbackStores
  BY <1>1, <1>17 DEF FallbackStores, IsBrief
<1>18. CASE BriefEnds
  BY <1>1, <1>18 DEF BriefEnds, NoBrief
<1>19. CASE KillBrief
  BY <1>1, <1>19 DEF KillBrief, NoBrief
<1>. QED
  BY <1>3, <1>4, <1>5, <1>6, <1>7, <1>8, <1>9, <1>10, <1>11, <1>12, <1>13, <1>14, <1>15, <1>16,
     <1>17, <1>18, <1>19, WhoWrites DEF BriefMoves

LEMMA MarketInvAtFirst == MarketInit => MarketInv
<1>. SUFFICES ASSUME MarketInit PROVE MarketInv
  OBVIOUS
<1>. USE DEF MarketInit, NoBrief, NoCapture, NewLog
<1>0. DOMAIN NoRows = {} /\ LastDay \in Nat /\ LastDay >= 1 /\ MaxMarketRuns \in Nat
      /\ FetchRetries \in Nat /\ BreakerThreshold \in Nat /\ BreakerThreshold # 0
  BY DayAssumption, MarketAssumption DEF NoRows
<1>1. StoresShape
  <2>1. MapShape /\ IsAnswer(stockCache, Settled)
    BY <1>0 DEF MapShape, IsMap, CalendarDays, IsAnswer
  <2>2. \A s \in TopSymbols : DOMAIN flowStore[s] = {}
    BY <1>0
  <2>3. flowStore = [s \in TopSymbols |-> flowStore[s]]
    OBVIOUS
  <2>4. DOMAIN peTables = {} /\ closed = FALSE /\ calendarDay \in 0..LastDay
        /\ marketRuns \in 0..MaxMarketRuns
    BY <1>0
  <2>. QED
    BY <2>1, <2>2, <2>3, <2>4 DEF StoresShape
<1>2. IsBrief /\ IsCapture
  BY <1>0 DEF IsBrief, IsCapture, IsMap, IsAnswer, BriefPlaces
<1>3. FallbackShape /\ BatchIsKept
  BY <1>0 DEF FallbackShape, OnlyKillsRefetch, BatchIsKept, BatchIsServed
<1>4. BreakerShape
  <2>1. 0 * (FetchRetries + 1) = 0
    BY <1>0
  <2>. QED
    BY <1>0, <2>1 DEF BreakerShape
<1>5. FlowShape /\ PeIsServed
  BY <1>0 DEF FlowShape, FinalValueStays, AppendIsKept, PeIsServed
<1>. QED
  BY <1>1, <1>2, <1>3, <1>4, <1>5 DEF MarketInv

LEMMA MarketInvKept == MarketInv /\ [MarketNext]_marketVars => MarketInv'
BY StoresKept, BriefIs, CaptureIs, FallbackKept, BreakerKept, FlowKept, PeKept, BatchKept
   DEF MarketInv

LEMMA MarketAlways == MarketSpec => []MarketInv
<1>1. MarketInit => MarketInv
  BY MarketInvAtFirst
<1>2. MarketInv /\ [MarketNext]_marketVars => MarketInv'
  BY MarketInvKept
<1>. QED
  BY <1>1, <1>2, PTL DEF MarketSpec

\* What a throttled endpoint answered for a stock is neither lost to the day
\* but by a kill nor made up, a failing endpoint is left alone (cached_fetch.py),
\* and the flow series has the closing values that were got, although captures
\* run before the close, fail or are killed (monitor_cmd.py:1236).
THEOREM PaidForIsKept == MarketSpec => []WhatWasPaidForIsKept
<1>1. MarketInv => WhatWasPaidForIsKept
  <2>. SUFFICES ASSUME MarketInv PROVE WhatWasPaidForIsKept
    OBVIOUS
  <2>1. NoFrozenThrottle /\ OnlyKillsRefetch
    BY DEF MarketInv, FallbackShape, NoFrozenThrottle
  <2>2. BreakerStopsHammering
    <3>. DEFINE k == FetchRetries + 1
    <3>1. /\ k \in Nat /\ brief.failed \in Nat /\ BreakerThreshold \in Nat
          /\ brief.tries \in Nat /\ brief.tries < k
          /\ brief.failed <= BreakerThreshold
          /\ brief.failed = BreakerThreshold => brief.tries = 0
          /\ brief.calls = brief.failed * k + brief.tries
      BY MarketAssumption DEF MarketInv, BreakerShape
    <3>. HIDE DEF k
    <3>2. CASE brief.failed = BreakerThreshold
      <4>1. brief.failed * k \in Nat /\ brief.calls = brief.failed * k
        BY <3>1, <3>2
      <4>. QED
        BY <3>2, <4>1 DEF BreakerStopsHammering, k
    <3>3. CASE brief.failed < BreakerThreshold
      <4>1. PICK m \in Nat : BreakerThreshold = brief.failed + 1 + m
        <5>1. BreakerThreshold - brief.failed - 1 \in Nat
              /\ BreakerThreshold = brief.failed + 1 + (BreakerThreshold - brief.failed - 1)
          BY <3>1, <3>3
        <5>. QED
          BY <5>1
      <4>2. BreakerThreshold * k = brief.failed * k + k + m * k
        BY <3>1, <4>1
      <4>3. m * k \in Nat /\ brief.failed * k \in Nat /\ BreakerThreshold * k \in Nat
        BY <3>1, <4>1
      <4>4. brief.calls <= BreakerThreshold * k
        BY <3>1, <4>2, <4>3
      <4>. QED
        BY <4>4 DEF BreakerStopsHammering, k
    <3>. QED
      BY <3>1, <3>2, <3>3
  <2>3. FlowRowsAreFinal
    BY DEF MarketInv, FlowShape, FlowRowsAreFinal
  <2>. QED
    BY <2>1, <2>2, <2>3 DEF WhatWasPaidForIsKept, SettledStocksAreKept
<1>. QED
  BY <1>1, MarketAlways, PTL

\* A brief serves what its own batch named, and the newest board PE that is
\* not too old, whatever a capture writes beside it.
THEOREM BriefsServe == MarketSpec => []BriefServesWhatIsKnown
<1>1. MarketInv => BriefServesWhatIsKnown
  <2>. SUFFICES ASSUME MarketInv PROVE BriefServesWhatIsKnown
    OBVIOUS
  <2>1. NewestTableIsServed
    <3>1. SUFFICES ASSUME brief.at \in {"funds", "ask"}, brief.calendar # {}
                   PROVE  CASE brief.pe.state = "FRESH" -> brief.pe.asOf = today
                                  /\ today \in {d \in DOMAIN peTables : Age(d) <= MaxStaleTd}
                            [] brief.pe.state = "STALE" -> brief.pe.asOf \in Older
                                  /\ \A d \in Older : d <= brief.pe.asOf
                            [] OTHER -> Older = {}
      BY DEF NewestTableIsServed, Older, Age
    <3>2. Age(today) <= MaxStaleTd
      BY AgeIs, MarketAssumption DEF MarketInv
    <3>3. PeIsServed
      BY DEF MarketInv
    <3>. QED
      BY <3>1, <3>2, <3>3 DEF PeIsServed
  <2>2. BatchIsServed
    BY DEF MarketInv, BatchIsKept
  <2>. QED
    BY <2>1, <2>2 DEF BriefServesWhatIsKnown
<1>. QED
  BY <1>1, MarketAlways, PTL

-----------------------------------------------------------------------------
(* One fund's reading.                                                     *)

\* A reading has these fields.
IsReading(r) ==
    r = [at |-> r.at, fund |-> r.fund, nav |-> r.nav, macro |-> r.macro,
         holdings |-> r.holdings, tries |-> r.tries, basket |-> r.basket,
         purchase |-> r.purchase]

\* The questions to the model that are behind the reading and the one it is at.
SignalTypes ==
    /\ SignalTypeOK
    /\ IsReading(reading)
    /\ reading.at = "nav" => asked = 0 /\ reading.tries = 0
    /\ reading.at = "macro" => asked <= reading.tries
    /\ reading.at = "holdings" => asked <= 3 + reading.tries
    /\ reading.at \notin {"macro", "holdings"} => reading.tries = 0

LEMMA SignalTypesAtFirst == SignalInit => SignalTypes
  BY DEF SignalInit, SignalTypes, SignalTypeOK, IsReading, NoOutcome, SchemaRetries

LEMMA PublishedIs ==
    ASSUME NEW f, NEW scores, NEW badge
    PROVE  PublishedState(ComputeSignal(f, scores), badge) \in Biases \cup {"NO_CALL", "EVAL_GATED"}
<1>1. Bias(f, EffectiveWeights(f), scores) \in Biases
  BY DEF Bias, Biases
<1>. DEFINE signal == ComputeSignal(f, scores)
<1>2. signal.status = "ok" => signal.bias \in Biases
  BY <1>1 DEF ComputeSignal
<1>. HIDE DEF signal
<1>3. PublishedState(signal, badge) \in Biases \cup {"NO_CALL", "EVAL_GATED"}
  BY <1>2 DEF PublishedState
<1>. QED
  BY <1>3 DEF signal

\* Where a step takes a reading.
Goes(place, tries) ==
    /\ reading'.at = place /\ reading'.tries = tries
    /\ reading'.fund = reading.fund /\ IsReading(reading')

LEMMA MoveGoes ==
    ASSUME NEW place, NEW tries, NEW answer, IsReading(reading),
           \/ reading' = [reading EXCEPT !.at = place, !.tries = tries]
           \/ reading' = [[reading EXCEPT !.at = place] EXCEPT !.tries = tries]
           \/ reading' = [[reading EXCEPT !.at = place, !.nav = answer] EXCEPT !.tries = tries]
           \/ reading' = [[reading EXCEPT !.at = place, !["macro"] = answer] EXCEPT !.tries = tries]
           \/ reading' = [[reading EXCEPT !.at = place, !["holdings"] = answer] EXCEPT !.tries = tries]
    PROVE  Goes(place, tries)
  BY DEF IsReading, Goes

LEMMA GatherGoes ==
    ASSUME IsReading(reading), NEW field \in {"macro", "holdings"}, NEW next, NEW answers,
           Gather(field, next, answers)
    PROVE  \/ Goes(next, 0) /\ asked' = asked
           \/ Goes(next, 0) /\ asked' = asked + 1
           \/ Goes("died", 0) /\ asked' = asked + 1
           \/ Goes(reading.at, reading.tries + 1) /\ asked' = asked + 1 /\ reading.tries < SchemaRetries
<1>1. CASE Move([reading EXCEPT !.at = next]) /\ UNCHANGED asked
  BY <1>1, MoveGoes DEF Move
<1>2. CASE ~(Move([reading EXCEPT !.at = next]) /\ UNCHANGED asked)
  <2>1. PICK answer \in answers :
          /\ asked' = asked + 1
          /\ \/ Move([reading EXCEPT !.at = next, ![field] = answer])
             \/ reading.tries < SchemaRetries /\ reading' = [reading EXCEPT !.tries = @ + 1]
             \/ Move([reading EXCEPT !.at = next])
             \/ Move([reading EXCEPT !.at = "died"])
    BY <1>2 DEF Gather
  <2>2. CASE Move([reading EXCEPT !.at = next, ![field] = answer])
    <3>1. Goes(next, 0)
      BY <2>2, MoveGoes DEF Move
    <3>. QED
      BY <2>1, <3>1
  <2>3. CASE reading.tries < SchemaRetries /\ reading' = [reading EXCEPT !.tries = @ + 1]
    <3>1. Goes(reading.at, reading.tries + 1)
      BY <2>3 DEF Goes, IsReading
    <3>. QED
      BY <2>1, <2>3, <3>1
  <2>4. CASE Move([reading EXCEPT !.at = next])
    <3>1. Goes(next, 0)
      BY <2>4, MoveGoes DEF Move
    <3>. QED
      BY <2>1, <3>1
  <2>5. CASE Move([reading EXCEPT !.at = "died"])
    <3>1. Goes("died", 0)
      BY <2>5, MoveGoes DEF Move
    <3>. QED
      BY <2>1, <3>1
  <2>. QED
    BY <2>1, <2>2, <2>3, <2>4, <2>5
<1>. QED
  BY <1>1, <1>2

LEMMA SignalTypesKept == SignalTypes /\ [SignalNext]_signalVars => SignalTypes'
<1>. SUFFICES ASSUME SignalTypes, [SignalNext]_signalVars PROVE SignalTypes'
  OBVIOUS
<1>. USE DEF SchemaRetries
<1>0. IsReading(reading) /\ asked \in 0..6 /\ reading.tries \in 0..2
  BY DEF SignalTypes, SignalTypeOK
<1>1. CASE FetchNav
  <2>1. PICK nav \in NavSeries \cup {NoNav} : Move([reading EXCEPT !.at = "macro", !.nav = nav])
    BY <1>1 DEF FetchNav
  <2>2. Goes("macro", 0)
    BY <1>0, <2>1, MoveGoes DEF Move
  <2>. QED
    BY <1>0, <1>1, <2>2 DEF FetchNav, Goes, SignalTypes, SignalTypeOK
<1>2. CASE AskThemes
  <2>1. CASE Move([reading EXCEPT !.at = "holdings"]) /\ UNCHANGED asked
    <3>1. Goes("holdings", 0)
      BY <1>0, <2>1, MoveGoes DEF Move
    <3>. QED
      BY <1>0, <1>2, <2>1, <3>1 DEF AskThemes, Goes, SignalTypes, SignalTypeOK
  <2>2. CASE Gather("macro", "holdings", ThemeAnswers)
    <3>1. \/ Goes("holdings", 0) /\ asked' = asked
          \/ Goes("holdings", 0) /\ asked' = asked + 1
          \/ Goes("died", 0) /\ asked' = asked + 1
          \/ Goes(reading.at, reading.tries + 1) /\ asked' = asked + 1 /\ reading.tries < SchemaRetries
      BY <1>0, <2>2, GatherGoes
    <3>. QED
      BY <1>0, <1>2, <3>1 DEF AskThemes, Goes, SignalTypes, SignalTypeOK
  <2>. QED
    BY <1>2, <2>1, <2>2 DEF AskThemes
<1>3. CASE AskHoldings
  <2>1. CASE Move([reading EXCEPT !.at = "measure"]) /\ UNCHANGED asked
    <3>1. Goes("measure", 0)
      BY <1>0, <2>1, MoveGoes DEF Move
    <3>. QED
      BY <1>0, <1>3, <2>1, <3>1 DEF AskHoldings, Goes, SignalTypes, SignalTypeOK
  <2>2. CASE Gather("holdings", "measure", HoldingAnswers)
    <3>1. \/ Goes("measure", 0) /\ asked' = asked
          \/ Goes("measure", 0) /\ asked' = asked + 1
          \/ Goes("died", 0) /\ asked' = asked + 1
          \/ Goes(reading.at, reading.tries + 1) /\ asked' = asked + 1 /\ reading.tries < SchemaRetries
      BY <1>0, <2>2, GatherGoes
    <3>. QED
      BY <1>0, <1>3, <3>1 DEF AskHoldings, Goes, SignalTypes, SignalTypeOK
  <2>. QED
    BY <1>3, <2>1, <2>2 DEF AskHoldings
<1>4. CASE MeasureHoldings
  <2>1. Goes("score", reading.tries)
    BY <1>0, <1>4 DEF MeasureHoldings, Goes, IsReading
  <2>. QED
    BY <1>0, <1>4, <2>1 DEF MeasureHoldings, Goes, SignalTypes, SignalTypeOK
<1>5. CASE Judge
  <2>1. outcome'.published \in Biases \cup {"NO_CALL", "EVAL_GATED", "none"}
    BY <1>5, PublishedIs DEF Judge
  <2>2. Goes("done", reading.tries)
    BY <1>0, <1>5 DEF Judge, Goes, IsReading
  <2>. QED
    BY <1>0, <1>5, <2>1, <2>2 DEF Judge, Goes, SignalTypes, SignalTypeOK
<1>6. CASE UNCHANGED signalVars
  BY <1>6 DEF SignalTypes, SignalTypeOK, IsReading, signalVars
<1>. QED
  BY <1>1, <1>2, <1>3, <1>4, <1>5, <1>6 DEF SignalNext

\* The factors that some profile weighs.
FactorNames == {"trend", "macro_tilt", "heat", "constituent", "valuation", "flow"}

\* What a bias rests on.
SignalInv ==
    /\ SignalTypes
    /\ IsNav(reading.nav)
    /\ suites \in [Suites -> SuiteReports]
    /\ reading.at # "done" => outcome.published = "none"
    /\ BiasIsBacked

LEMMA SignalInvAtFirst == SignalInit => SignalInv
<1>. SUFFICES ASSUME SignalInit PROVE SignalInv
  OBVIOUS
<1>1. IsNav(NoNav)
  BY DEF NoNav, IsNav
<1>. QED
  BY <1>1, SignalTypesAtFirst DEF SignalInit, SignalInv, NoOutcome, BiasIsBacked, Biases

\* What the gate has looked at when it lets a signal pass.
LEMMA GateIs ==
    ASSUME NEW r, IsNav(r.nav),
           suites \in [Suites -> SuiteReports], ApplyEvalGate(r) # "gated"
    PROVE  /\ r.nav.obs >= MinObs /\ r.nav.age <= NavStaleDays
           /\ \A row \in ToSet(r.macro) \cup ToSet(r.holdings) : row.sound
           /\ \A s \in Suites : suites[s].overall = "FAIL" => suites[s].age > StaleEvalDays
           /\ ApplyEvalGate(r) = "validated" =>
                 /\ r.nav.missed < (IF r.nav.calendar THEN MissingTradingWarn ELSE WarnGapDays)
                 /\ \A s \in Suites : suites[s].overall = "PASS" /\ suites[s].age <= StaleEvalDays
<1>. DEFINE health == {NavQuality(r.nav), CitationIntegrity(r)} \cup {ResolveHealth(suites[s]) : s \in Suites}
            gate == CASE "FAIL" \in health -> "gated"
                      [] "FAIL" \notin health /\ health \cap {"WARN", "UNKNOWN"} # {} -> "caveated"
                      [] OTHER -> "validated"
<1>1. ApplyEvalGate(r) = gate
  BY DEF ApplyEvalGate
<1>2. NavQuality(r.nav) \in health /\ CitationIntegrity(r) \in health
      /\ \A s \in Suites : ResolveHealth(suites[s]) \in health
  OBVIOUS
<1>. HIDE DEF health
<1>3. "FAIL" \notin health /\ (gate = "validated" => "WARN" \notin health /\ "UNKNOWN" \notin health)
  BY <1>1
<1>4. \A s \in Suites : suites[s] \in SuiteReports
  OBVIOUS
<1>5. r.nav.obs >= MinObs /\ r.nav.age <= NavStaleDays
      /\ (gate = "validated" =>
              r.nav.missed < (IF r.nav.calendar THEN MissingTradingWarn ELSE WarnGapDays))
  <2>1. NavQuality(r.nav) # "FAIL" /\ (gate = "validated" => NavQuality(r.nav) # "WARN")
    BY <1>2, <1>3
  <2>. QED
    BY <2>1, SignalAssumption DEF NavQuality, HasGap, IsNav, MissingTradingWarn, WarnGapDays
<1>6. \A row \in ToSet(r.macro) \cup ToSet(r.holdings) : row.sound
  BY <1>2, <1>3 DEF CitationIntegrity
<1>7. ASSUME NEW s \in Suites
      PROVE  /\ suites[s].overall = "FAIL" => suites[s].age > StaleEvalDays
             /\ gate = "validated" => suites[s].overall = "PASS" /\ suites[s].age <= StaleEvalDays
  <2>1. suites[s].overall \in {"PASS", "WARN", "FAIL", "SKIPPED", "absent"} /\ suites[s].age \in Int
    BY <1>4, SignalAssumption
  <2>2. /\ ResolveHealth(suites[s]) # "FAIL"
        /\ gate = "validated" => ResolveHealth(suites[s]) \notin {"WARN", "UNKNOWN"}
    BY <1>2, <1>3
  <2>. QED
    BY <2>1, <2>2 DEF ResolveHealth, StaleEvalDays
<1>. QED
  BY <1>1, <1>5, <1>6, <1>7

LEMMA SignalInvKept == SignalInv /\ [SignalNext]_signalVars => SignalInv'
<1>. SUFFICES ASSUME SignalInv, [SignalNext]_signalVars PROVE SignalInv'
  OBVIOUS
<1>0. SignalTypes /\ SignalTypes'
  BY SignalTypesKept DEF SignalInv
<1>1. CASE Judge
  <2>1. IsReading(reading) /\ reading.at = "score"
    BY <1>0, <1>1 DEF SignalTypes, Judge
  <2>2. /\ reading'.at = "done" /\ reading'.nav = reading.nav
        /\ reading'.macro = reading.macro /\ reading'.holdings = reading.holdings
        /\ UNCHANGED suites
    BY <1>1, <2>1 DEF Judge, IsReading
  <2>3. PICK signal : /\ outcome'.badge = ApplyEvalGate(reading)
                      /\ outcome'.published = PublishedState(signal, ApplyEvalGate(reading))
    <3>. DEFINE scores == BuildFactorScores(reading)
                signal == ComputeSignal(reading.fund, scores)
    <3>1. /\ outcome'.badge = ApplyEvalGate(reading)
          /\ outcome'.published = PublishedState(signal, ApplyEvalGate(reading))
      BY <1>1 DEF Judge
    <3>. QED
      BY <3>1
  <2>4. outcome'.published \in Biases => outcome'.badge # "gated"
    BY <2>3 DEF PublishedState, Biases
  <2>5. BiasIsBacked'
    BY <2>2, <2>3, <2>4, GateIs DEF BiasIsBacked, SignalInv
  <2>. QED
    BY <1>0, <2>2, <2>5 DEF SignalInv
<1>2. CASE FetchNav
  <2>1. PICK nav \in NavSeries \cup {NoNav} : Move([reading EXCEPT !.at = "macro", !.nav = nav])
    BY <1>2 DEF FetchNav
  <2>2. IsNav(nav)
    <3>1. IsNav(NoNav)
      BY DEF NoNav, IsNav
    <3>2. \A n \in NavSeries : IsNav(n)
      BY SignalAssumption
    <3>. QED
      BY <3>1, <3>2
  <2>3. reading'.nav = nav /\ reading.at = "nav"
    BY <1>0, <1>2, <2>1 DEF FetchNav, Move, SignalTypes, IsReading
  <2>. QED
    BY <1>0, <1>2, <2>2, <2>3 DEF SignalInv, FetchNav, BiasIsBacked, Biases
<1>3. CASE AskThemes \/ AskHoldings
  <2>1. reading'.nav = reading.nav
    BY <1>0, <1>3 DEF AskThemes, AskHoldings, Gather, Move, SignalTypes, IsReading
  <2>2. reading.at # "done" /\ UNCHANGED <<suites, outcome>>
    BY <1>3 DEF AskThemes, AskHoldings
  <2>. QED
    BY <1>0, <2>1, <2>2 DEF SignalInv, BiasIsBacked, Biases
<1>4. CASE MeasureHoldings
  <2>1. reading'.nav = reading.nav /\ reading.at # "done" /\ UNCHANGED <<suites, outcome>>
    BY <1>0, <1>4 DEF MeasureHoldings, SignalTypes, IsReading
  <2>. QED
    BY <1>0, <2>1 DEF SignalInv, BiasIsBacked, Biases
<1>5. CASE UNCHANGED signalVars
  BY <1>0, <1>5 DEF SignalInv, BiasIsBacked, signalVars
<1>. QED
  BY <1>1, <1>2, <1>3, <1>4, <1>5 DEF SignalNext

\* A bias is published only on a NAV that is long and recent enough and on
\* sound rows, while no suite of the evaluation freshly fails (eval/gate.py:36).
\* The validated badge needs both suites to pass and, of the trading days in a
\* row, fewer than two to be missing, or fewer than eight if there is no trade
\* calendar to count them by (eval/structural.py:103).
THEOREM BiasesAreBacked == SignalSpec => []BiasIsBacked
<1>. QED
  BY SignalInvAtFirst, SignalInvKept, PTL DEF SignalSpec, SignalInv

\* A fund's effective weights are those of its profile's factors and add up to
\* a hundred.
LEMMA WeightsAre ==
    ASSUME NEW f \in MonitorSet
    PROVE  LET w == EffectiveWeights(f)
           IN  /\ DOMAIN w = DOMAIN Weights(f.profile) /\ DOMAIN w \subseteq FactorNames
               /\ IsFiniteSet(DOMAIN w) /\ \A factor \in DOMAIN w : w[factor] \in Nat
               /\ Total(w, DOMAIN w) = 100
<1>. DEFINE D == DOMAIN Weights(f.profile)
            o == f.override
<1>1. IsMonitorFund(f)
  BY SignalAssumption
<1>2. D \subseteq FactorNames /\ \A factor \in D : Weights(f.profile)[factor] \in Nat
  <2>1. CASE f.profile = "gold"
    BY <2>1 DEF Weights, FactorNames
  <2>2. CASE f.profile = "qdii_global"
    BY <2>2 DEF Weights, FactorNames
  <2>3. CASE f.profile = "qdii_china_us_internet"
    BY <2>3 DEF Weights, FactorNames
  <2>4. CASE f.profile = "active_cn_equity"
    BY <2>4 DEF Weights, FactorNames
  <2>. QED
    BY <1>1, <2>1, <2>2, <2>3, <2>4 DEF Profiles, IsMonitorFund
<1>3. /\ DOMAIN o \subseteq D /\ \A factor \in DOMAIN o : o[factor] \in Nat
      /\ Total(EffectiveWeights(f), D) = 100
  BY <1>1 DEF IsMonitorFund
<1>4. IsFiniteSet(FactorNames)
  <2>. DEFINE three == (({} \cup {"trend"}) \cup {"macro_tilt"}) \cup {"heat"}
              six == ((three \cup {"constituent"}) \cup {"valuation"}) \cup {"flow"}
  <2>1. IsFiniteSet({} \cup {"trend"})
    BY FS_EmptySet, FS_AddElement
  <2>2. IsFiniteSet(({} \cup {"trend"}) \cup {"macro_tilt"})
    BY <2>1, FS_AddElement
  <2>3. IsFiniteSet(three)
    BY <2>2, FS_AddElement
  <2>. HIDE DEF three
  <2>4. IsFiniteSet(three \cup {"constituent"})
    BY <2>3, FS_AddElement
  <2>5. IsFiniteSet((three \cup {"constituent"}) \cup {"valuation"})
    BY <2>4, FS_AddElement
  <2>6. IsFiniteSet(six)
    BY <2>5, FS_AddElement
  <2>7. six = FactorNames
    BY DEF six, three, FactorNames
  <2>. QED
    BY <2>6, <2>7
<1>5. IsFiniteSet(D)
  BY <1>2, <1>4, FS_Subset
<1>6. EffectiveWeights(f) = [factor \in D |-> IF factor \in DOMAIN o THEN o[factor]
                                              ELSE Weights(f.profile)[factor]]
  BY DEF EffectiveWeights
<1>. HIDE DEF D, o
<1>7. /\ DOMAIN EffectiveWeights(f) = D
      /\ \A factor \in D : EffectiveWeights(f)[factor] \in Nat
  BY <1>2, <1>3, <1>6
<1>. QED
  BY <1>2, <1>3, <1>5, <1>7 DEF D

\* A weighted mean is a number, and no more than its terms allow.
LEMMA MeanIs ==
    ASSUME NEW among, IsFiniteSet(among), NEW w, NEW v,
           \A i \in among : w[i] \in Nat /\ v[i] \in Int, Total(w, among) # 0
    PROVE  /\ Mean(w, v, among) \in Int
           /\ (\A i \in among : v[i] <= 0) => Mean(w, v, among) <= 0
<1>. DEFINE F == [i \in among |-> w[i] * v[i]]
            Z == [i \in among |-> 0]
<1>1. \A i \in among : F[i] \in Int
  OBVIOUS
<1>2. Total(w, among) \in Nat
  BY SumIsNat DEF Total
<1>. HIDE DEF F
<1>3. Total(F, among) \in Int
  BY <1>1, SumIsInt DEF Total
<1>4. (\A i \in among : v[i] <= 0) => Total(F, among) <= 0
  <2>. SUFFICES ASSUME \A i \in among : v[i] <= 0 PROVE Total(F, among) <= 0
    OBVIOUS
  <2>1. \A i \in among : F[i] \in Int /\ Z[i] \in Int /\ F[i] <= Z[i]
    <3>1. TAKE i \in among
    <3>2. w[i] \in Nat /\ v[i] \in Int /\ v[i] <= 0
      OBVIOUS
    <3>3. w[i] * v[i] <= 0
      BY <3>2
    <3>. QED
      BY <1>1, <3>3 DEF F
  <2>2. \A i \in among : Z[i] = 0
    OBVIOUS
  <2>. HIDE DEF Z
  <2>3. SumFunctionOnSet(Z, among) = 0
    BY <2>2, SumOfNothing
  <2>4. SumFunctionOnSet(F, among) <= SumFunctionOnSet(Z, among)
    BY <2>1, SumIsMonotone
  <2>. QED
    BY <2>3, <2>4 DEF Total
<1>5. Mean(w, v, among) = Total(F, among) \div Total(w, among)
  BY DEF Mean, F
<1>. DEFINE x == Total(F, among)  y == Total(w, among)
<1>6. x \in Int /\ y \in Nat /\ y > 0
  BY <1>2, <1>3
<1>. HIDE DEF x, y
<1>7. x \div y \in Int /\ (x <= 0 => x \div y <= 0)
  BY <1>6
<1>. QED
  BY <1>4, <1>5, <1>7 DEF x, y


\* Rows that passed the validation.
AreSound(rows) ==
    \A i \in DOMAIN rows : rows[i].impact \in Int /\ rows[i].confidence \in 0 .. 100

IsBoard(rows) ==
    /\ IsFiniteSet(DOMAIN rows)
    /\ \A h \in DOMAIN rows : rows[h].weight \in Nat /\ rows[h].val \in Int /\ rows[h].flow \in Int

\* What the steps of a reading leave in it before it is judged.
IsMeasured(r) ==
    /\ r.fund \in MonitorSet
    /\ IsNav(r.nav)
    /\ r.macro \in Seq(Range(r.macro)) /\ AreSound(r.macro)
    /\ r.holdings \in Seq(Range(r.holdings)) /\ AreSound(r.holdings)
    /\ r.holdings # <<>> => LooksThrough(r.fund.profile) /\ r.fund.top # <<>>
    /\ r.basket \in (IF LooksThrough(r.fund.profile) /\ r.fund.top # <<>> THEN Baskets
                     ELSE {NoBasket})
    /\ r.purchase \in {"limited", "open", "unlisted"}

LEMMA TopFiveIs ==
    ASSUME NEW r, NEW D, r.fund.top \in Seq(D)
    PROVE  /\ IsFiniteSet(ToSet(TopFive(r)))
           /\ ToSet(TopFive(r)) \subseteq ToSet(r.fund.top) /\ ToSet(r.fund.top) \subseteq D
<1>. DEFINE t == r.fund.top
            n == Min({FlowTopN, Len(t)})
<1>1. t \in Seq(D) /\ Len(t) \in Nat /\ TopFive(r) = SubSeq(t, 1, n)
  BY DEF TopFive
<1>2. n \in 0..Len(t)
  <2>1. PICK m \in {FlowTopN, Len(t)} : \A k \in {FlowTopN, Len(t)} : m <= k
    BY <1>1, HasLeast DEF FlowTopN
  <2>2. n \in {FlowTopN, Len(t)} /\ \A k \in {FlowTopN, Len(t)} : n <= k
    BY <2>1 DEF Min
  <2>. QED
    BY <1>1, <2>2 DEF FlowTopN
<1>. HIDE DEF t, n
<1>3. DOMAIN SubSeq(t, 1, n) = 1..n /\ \A i \in 1..n : SubSeq(t, 1, n)[i] = t[i]
  BY <1>1, <1>2
<1>4. IsFiniteSet(1..n)
  BY <1>2, FS_Interval
<1>5. IsFiniteSet({t[i] : i \in 1..n})
  BY <1>4, FiniteImage
<1>6. ToSet(TopFive(r)) = {t[i] : i \in 1..n}
  BY <1>1, <1>3 DEF ToSet
<1>7. ToSet(t) = {t[i] : i \in 1..Len(t)}
  BY <1>1 DEF ToSet
<1>9. ToSet(TopFive(r)) \subseteq ToSet(t) /\ ToSet(t) \subseteq D
  BY <1>1, <1>2, <1>6, <1>7
<1>. QED
  BY <1>5, <1>6, <1>9 DEF t

LEMMA DualTrackIs ==
    ASSUME NEW self \in Int, NEW rich \in Int
    PROVE  /\ DualTrack(self, rich) \in Int
           /\ rich # Absent /\ rich >= FalseCheapRichness => DualTrack(self, rich) <= 0
<1>1. IndustryBand(rich) \in Int /\ (rich >= FalseCheapRichness => IndustryBand(rich) = -100)
  BY DEF IndustryBand, FalseCheapRichness
<1>. DEFINE b == IndustryBand(rich)
<1>. HIDE DEF b
<1>2. (60 * self + 40 * b) \div 100 \in Int
  BY <1>1 DEF b
<1>3. b = -100 /\ self <= 0 => (60 * self + 40 * b) \div 100 <= 0
  BY <1>1 DEF b
<1>. QED
  BY <1>1, <1>2, <1>3 DEF DualTrack, Absent, b

LEMMA BoardIs ==
    ASSUME NEW r, IsMeasured(r)
    PROVE  IsBoard(BoardRows(r))
<1>1. CASE r.basket = NoBasket
  <2>1. DOMAIN BoardRows(r) = {}
    BY <1>1 DEF BoardRows, NoBasket
  <2>. QED
    BY <2>1, FS_EmptySet DEF IsBoard
<1>2. CASE r.basket # NoBasket
  <2>1. IsBasket(r.basket, r.fund.top)
    BY <1>2, SignalAssumption DEF IsMeasured
  <2>. DEFINE top == ToSet(TopFive(r))
              D == ToSet(r.fund.top) \cap DOMAIN r.basket
              rows == [h \in D |->
                         [weight |-> r.basket[h].weight,
                          val    |-> IF r.fund.catalog
                                     THEN DualTrack(r.basket[h].self, r.basket[h].rich) ELSE Absent,
                          flow   |-> IF h \in top /\ r.basket[h].flow # Absent
                                     THEN FlowBand(r.basket[h].flow) ELSE Absent]]
  <2>2. BoardRows(r) = rows
    BY DEF BoardRows
  <2>3. IsFiniteSet(D)
    <3>1. r.fund.top \in Seq(DOMAIN r.basket)
      BY <2>1 DEF IsBasket
    <3>2. IsFiniteSet({r.fund.top[i] : i \in 1..Len(r.fund.top)})
      <4>1. IsFiniteSet(1..Len(r.fund.top))
        BY <3>1, FS_Interval
      <4>. QED
        BY <4>1, FiniteImage
    <3>3. D \subseteq {r.fund.top[i] : i \in 1..Len(r.fund.top)}
      BY <3>1 DEF ToSet
    <3>. QED
      BY <3>2, <3>3, FS_Subset
  <2>4. ASSUME NEW h \in D
        PROVE  rows[h].weight \in Nat /\ rows[h].val \in Int /\ rows[h].flow \in Int
    <3>1. /\ r.basket[h].weight \in Nat /\ r.basket[h].self \in Int
          /\ r.basket[h].rich \in Int /\ r.basket[h].flow \in Int
      BY <2>1 DEF IsBasket
    <3>2. DualTrack(r.basket[h].self, r.basket[h].rich) \in Int /\ FlowBand(r.basket[h].flow) \in Int
      BY <3>1, DualTrackIs DEF FlowBand
    <3>. QED
      BY <3>1, <3>2 DEF Absent
  <2>. QED
    BY <2>2, <2>3, <2>4 DEF IsBoard
<1>. QED
  BY <1>1, <1>2

\* A score is a number.
IsScore(score) == score.present \in BOOLEAN /\ score.value \in Int

LEMMA NoScoreIs == IsScore(NotAvailable) /\ ~NotAvailable.present
  BY DEF IsScore, NotAvailable

LEMMA ScoreIs ==
    ASSUME NEW value \in Int, NEW confidence
    PROVE  IsScore(Available(value, confidence)) /\ Available(value, confidence).value = value
  BY DEF IsScore, Available

LEMMA NewsFactorIs ==
    ASSUME NEW rows, NEW w, IsFiniteSet(DOMAIN rows), AreSound(rows),
           \A i \in DOMAIN rows : w[i] \in Nat
    PROVE  IsScore(NewsFactor(rows, w))
<1>. DEFINE all == DOMAIN rows
            F == [i \in all |-> w[i] * rows[i].impact * rows[i].confidence]
            x == Total(F, all)
            y == Total(w, all)
<1>1. \A i \in all : F[i] \in Int
  <2>1. TAKE i \in all
  <2>2. w[i] \in Int /\ rows[i].impact \in Int /\ rows[i].confidence \in Int
    BY DEF AreSound
  <2>3. w[i] * rows[i].impact \in Int
    BY <2>2
  <2>4. w[i] * rows[i].impact * rows[i].confidence \in Int
    BY <2>2, <2>3
  <2>. QED
    BY <2>4
<1>. HIDE DEF F
<1>2. x \in Int /\ y \in Nat
  BY <1>1, SumIsInt, SumIsNat DEF Total
<1>. HIDE DEF x, y
<1>3. y > 0 => x \div (100 * y) \in Int
  BY <1>2
<1>4. NewsFactor(rows, w) = IF y <= 0 THEN NotAvailable
                            ELSE Available(x \div (100 * y),
                                           Mean(w, [i \in all |-> rows[i].confidence], all))
  BY DEF NewsFactor, x, y, F
<1>5. CASE y <= 0
  BY <1>4, <1>5 DEF IsScore, NotAvailable
<1>6. CASE ~(y <= 0)
  BY <1>2, <1>3, <1>4, <1>6 DEF IsScore, Available
<1>. QED
  BY <1>5, <1>6

LEMMA MacroTiltIs ==
    ASSUME NEW r, IsMeasured(r)
    PROVE  IsScore(MacroTilt(r))
<1>. DEFINE kept == {i \in DOMAIN r.macro : r.macro[i].key \in r.fund.themes}
            rows == Restrict(r.macro, kept)
            ones == [i \in kept |-> 1]
<1>1. IsFiniteSet(kept)
  <2>1. DOMAIN r.macro = 1..Len(r.macro) /\ Len(r.macro) \in Nat
    BY DEF IsMeasured
  <2>2. IsFiniteSet(1..Len(r.macro)) /\ kept \subseteq 1..Len(r.macro)
    BY <2>1, FS_Interval
  <2>. HIDE DEF kept
  <2>. QED
    BY <2>2, FS_Subset
<1>2. DOMAIN rows = kept /\ AreSound(rows)
  BY DEF IsMeasured, AreSound, Restrict
<1>3. \A i \in kept : ones[i] \in Nat
  OBVIOUS
<1>4. MacroTilt(r) = NotAvailable \/ MacroTilt(r) = NewsFactor(rows, ones)
  BY DEF MacroTilt
<1>. HIDE DEF kept, rows, ones
<1>5. IsScore(NewsFactor(rows, ones))
  BY <1>1, <1>2, <1>3, NewsFactorIs
<1>. QED
  BY <1>4, <1>5, NoScoreIs

\* A row that no other is more confident than is there to be chosen.
LEMMA SomeRowIsSurest ==
    ASSUME NEW rows, DOMAIN rows \subseteq Nat, AreSound(rows), NEW I, I \subseteq DOMAIN rows, I # {}
    PROVE  Min({i \in I : \A j \in I : rows[j].confidence <= rows[i].confidence}) \in I
<1>. DEFINE doubts == {100 - rows[i].confidence : i \in I}
            surest == {i \in I : \A j \in I : rows[j].confidence <= rows[i].confidence}
<1>1. \A i \in I : rows[i].confidence \in 0..100
  BY DEF AreSound
<1>2. doubts \subseteq Nat /\ doubts # {}
  BY <1>1
<1>3. PICK n \in doubts : \A m \in doubts : n <= m
  BY <1>2, HasLeast
<1>4. PICK i \in I : n = 100 - rows[i].confidence
  BY <1>3
<1>5. i \in surest
  <2>1. ASSUME NEW j \in I PROVE rows[j].confidence <= rows[i].confidence
    <3>1. 100 - rows[j].confidence \in doubts
      OBVIOUS
    <3>2. n <= 100 - rows[j].confidence
      BY <3>1, <1>3
    <3>. QED
      BY <3>2, <1>1, <1>4
  <2>. QED
    BY <2>1
<1>6. surest \subseteq Nat /\ surest # {}
  BY <1>5
<1>7. PICK k \in surest : \A m \in surest : k <= m
  BY <1>6, HasLeast
<1>8. Min(surest) \in surest
  BY <1>7 DEF Min
<1>. QED
  BY <1>8

LEMMA ConstituentIs ==
    ASSUME NEW r, IsMeasured(r)
    PROVE  IsScore(Constituent(r, BoardRows(r)))
<1>. DEFINE top == TopFive(r)
            of(h) == {i \in DOMAIN r.holdings : MatchesHolding(r.holdings[i].key, h)}
            rows == SelectByHolding(r.holdings, top)
            w == WeightsOf(BoardRows(r))
<1>1. DOMAIN rows = {g \in ToSet(top) : of(g) # {}}
  BY DEF SelectByHolding
<1>2. Constituent(r, BoardRows(r)) = IF DOMAIN rows = {} THEN NotAvailable ELSE NewsFactor(rows, w)
  BY DEF Constituent
<1>3. CASE DOMAIN rows = {}
  BY <1>2, <1>3 DEF IsScore, NotAvailable
<1>4. CASE DOMAIN rows # {}
  <2>1. r.holdings # <<>>
    BY <1>1, <1>4
  <2>2. IsBasket(r.basket, r.fund.top)
    BY <2>1, SignalAssumption DEF IsMeasured
  <2>3. r.fund.top \in Seq(DOMAIN r.basket)
    BY <2>2 DEF IsBasket
  <2>4. IsFiniteSet(ToSet(top)) /\ ToSet(top) \subseteq ToSet(r.fund.top)
        /\ ToSet(r.fund.top) \subseteq DOMAIN r.basket
    BY <2>3, TopFiveIs
  <2>5. IsFiniteSet(DOMAIN rows)
    BY <1>1, <2>4, FS_Subset
  <2>6. DOMAIN r.holdings \subseteq Nat /\ AreSound(r.holdings)
    BY DEF IsMeasured
  <2>7. AreSound(rows)
    <3>1. SUFFICES ASSUME NEW h \in DOMAIN rows
                   PROVE  rows[h].impact \in Int /\ rows[h].confidence \in 0 .. 100
      BY DEF AreSound
    <3>. DEFINE n == Min({i \in of(h) :
                       \A j \in of(h) : r.holdings[j].confidence <= r.holdings[i].confidence})
    <3>2. rows[h] = r.holdings[n]
      BY <1>1 DEF SelectByHolding
    <3>3. of(h) \subseteq DOMAIN r.holdings /\ of(h) # {}
      BY <1>1
    <3>. HIDE DEF of
    <3>4. n \in of(h)
      BY <2>6, <3>3, SomeRowIsSurest
    <3>. QED
      BY <2>6, <3>2, <3>3, <3>4 DEF AreSound
  <2>8. \A h \in DOMAIN rows : w[h] \in Nat
    <3>1. IsBoard(BoardRows(r))
      BY BoardIs
    <3>2. DOMAIN BoardRows(r) = ToSet(r.fund.top) \cap DOMAIN r.basket
      BY DEF BoardRows
    <3>3. DOMAIN rows \subseteq DOMAIN BoardRows(r)
      BY <1>1, <2>4, <3>2
    <3>. QED
      BY <3>1, <3>3 DEF WeightsOf, IsBoard
  <2>. HIDE DEF rows, w
  <2>9. IsScore(NewsFactor(rows, w))
    BY <2>5, <2>7, <2>8, NewsFactorIs
  <2>. QED
    BY <1>2, <1>4, <2>9
<1>. QED
  BY <1>3, <1>4

\* The valuation that the holdings answer for is the mean over those that are
\* priced.
LEMMA ValuationIs ==
    ASSUME NEW r, IsMeasured(r)
    PROVE  LET board  == BoardRows(r)
               priced == {h \in DOMAIN board : board[h].val # Absent}
               score  == Valuation(r, board)
           IN  /\ IsScore(score)
               /\ score.present /\ ~(r.fund.catalog /\ r.fund.index # Absent) =>
                     /\ Total(WeightsOf(board), priced) # 0
                     /\ score.value = Mean(WeightsOf(board), [h \in priced |-> board[h].val], priced)
<1>. DEFINE board  == BoardRows(r)
            priced == {h \in DOMAIN board : board[h].val # Absent}
            w == WeightsOf(board)
            v == [h \in priced |-> board[h].val]
<1>1. IsBoard(board)
  BY BoardIs
<1>2. r.fund.index \in Int
  BY SignalAssumption DEF IsMeasured, IsMonitorFund
<1>3. Total(w, priced) # 0 => Mean(w, v, priced) \in Int
  <2>1. IsFiniteSet(priced) /\ \A h \in priced : w[h] \in Nat /\ v[h] \in Int
    BY <1>1, FS_Subset DEF IsBoard, WeightsOf
  <2>. HIDE DEF priced, w, v
  <2>. QED
    BY <2>1, MeanIs
<1>4. \/ AggregateValuation(board) = NotAvailable
      \/ Total(w, priced) # 0 /\ AggregateValuation(board) = Available(Mean(w, v, priced), 100)
  BY DEF AggregateValuation
<1>. HIDE DEF priced, w, v, board
<1>5. \/ Valuation(r, board) = NotAvailable
      \/ r.fund.catalog /\ r.fund.index # Absent /\ Valuation(r, board) = Available(r.fund.index, 100)
      \/ Valuation(r, board) = AggregateValuation(board)
  BY DEF Valuation
<1>6. /\ IsScore(Valuation(r, board))
      /\ Valuation(r, board).present /\ ~(r.fund.catalog /\ r.fund.index # Absent) =>
           Total(w, priced) # 0 /\ Valuation(r, board).value = Mean(w, v, priced)
  <2>1. CASE Valuation(r, board) = NotAvailable
    BY <2>1, NoScoreIs
  <2>2. CASE r.fund.catalog /\ r.fund.index # Absent /\ Valuation(r, board) = Available(r.fund.index, 100)
    BY <2>2, <1>2, ScoreIs
  <2>3. CASE Valuation(r, board) = AggregateValuation(board)
    BY <2>3, <1>3, <1>4, NoScoreIs, ScoreIs
  <2>. QED
    BY <1>5, <2>1, <2>2, <2>3
<1>. QED
  BY <1>6 DEF priced, w, v, board

\* The flow is the mean over the holdings whose flow the board has.
LEMMA FlowIs ==
    ASSUME NEW r, IsMeasured(r)
    PROVE  LET board == BoardRows(r)
               flows == {h \in DOMAIN board : board[h].flow # Absent}
               score == AggregateFlow(r, board)
           IN  /\ IsScore(score)
               /\ score.present =>
                     score.value = Mean(WeightsOf(board), [h \in flows |-> board[h].flow], flows)
<1>. DEFINE board == BoardRows(r)
            top   == ToSet(TopFive(r))
            flows == {h \in DOMAIN board : board[h].flow # Absent}
            w == WeightsOf(board)
            v == [h \in flows |-> board[h].flow]
<1>1. IsBoard(board)
  BY BoardIs
<1>2. {h \in top \cap DOMAIN board : board[h].flow # Absent} = flows
  BY DEF BoardRows
<1>3. Total(w, flows) # 0 => Mean(w, v, flows) \in Int
  <2>1. IsFiniteSet(flows) /\ \A h \in flows : w[h] \in Nat /\ v[h] \in Int
    BY <1>1, FS_Subset DEF IsBoard, WeightsOf
  <2>. HIDE DEF flows, w, v
  <2>. QED
    BY <2>1, MeanIs
<1>4. \/ AggregateFlow(r, board) = NotAvailable
      \/ Total(w, flows) # 0 /\ AggregateFlow(r, board) = Available(Mean(w, v, flows), 100)
  BY <1>2 DEF AggregateFlow
<1>. HIDE DEF flows, w, v, board
<1>5. /\ IsScore(AggregateFlow(r, board))
      /\ AggregateFlow(r, board).present => AggregateFlow(r, board).value = Mean(w, v, flows)
  BY <1>3, <1>4, NoScoreIs, ScoreIs
<1>. QED
  BY <1>5 DEF flows, w, v, board

\* The scores are numbers of factors that the profile weighs, and each is the
\* factor's own.
LEMMA FactorScoresAre ==
    ASSUME NEW r, IsMeasured(r)
    PROVE  LET scores == BuildFactorScores(r)
           IN  /\ DOMAIN scores \subseteq DOMAIN EffectiveWeights(r.fund)
               /\ \A f \in DOMAIN scores : scores[f].value \in Int
               /\ "valuation" \in DOMAIN scores =>
                     /\ scores["valuation"] = Valuation(r, BoardRows(r))
                     /\ Valuation(r, BoardRows(r)).present
               /\ "flow" \in DOMAIN scores =>
                     /\ scores["flow"] = AggregateFlow(r, BoardRows(r))
                     /\ AggregateFlow(r, BoardRows(r)).present
<1>. DEFINE W == DOMAIN Weights(r.fund.profile)
            all == FactorScores(r)
            D == {f \in W : all[f].present}
            scores == BuildFactorScores(r)
<1>1. W \subseteq FactorNames /\ DOMAIN EffectiveWeights(r.fund) = W
  BY WeightsAre DEF IsMeasured
<1>2. scores = [f \in D |-> all[f]]
  BY DEF BuildFactorScores
<1>3. /\ all["trend"] = Trend(r.nav) /\ all["valuation"] = Valuation(r, BoardRows(r))
      /\ all["heat"] = Heat(r.purchase) /\ all["macro_tilt"] = MacroTilt(r)
      /\ all["constituent"] = Constituent(r, BoardRows(r))
      /\ all["flow"] = AggregateFlow(r, BoardRows(r))
  BY DEF FactorScores
<1>4. IsScore(Trend(r.nav))
  BY NoScoreIs, ScoreIs DEF IsMeasured, IsNav, Trend
<1>5. IsScore(Heat(r.purchase))
  <2>1. Heat(r.purchase) \in {NotAvailable, Available(-50, 100), Available(30, 100)}
    BY DEF IsMeasured, Heat
  <2>2. IsScore(Available(-50, 100)) /\ IsScore(Available(30, 100))
    BY ScoreIs
  <2>. QED
    BY <2>1, <2>2, NoScoreIs
<1>. HIDE DEF all, W
<1>6. \A f \in FactorNames : all[f].value \in Int
  <2>1. IsScore(Valuation(r, BoardRows(r))) /\ IsScore(AggregateFlow(r, BoardRows(r)))
    BY ValuationIs, FlowIs
  <2>2. IsScore(MacroTilt(r)) /\ IsScore(Constituent(r, BoardRows(r)))
    BY MacroTiltIs, ConstituentIs
  <2>. QED
    BY <1>3, <1>4, <1>5, <2>1, <2>2 DEF IsScore, FactorNames
<1>. HIDE DEF scores
<1>. QED
  BY <1>1, <1>2, <1>3, <1>6 DEF scores, W

LEMMA SameReading ==
    ASSUME NEW r, NEW q, q.fund = r.fund, q.nav = r.nav, q.macro = r.macro,
           q.holdings = r.holdings, q.basket = r.basket, q.purchase = r.purchase
    PROVE  BuildFactorScores(q) = BuildFactorScores(r) /\ BoardRows(q) = BoardRows(r)
<1>1. TopFive(q) = TopFive(r)
  BY DEF TopFive
<1>2. BoardRows(q) = BoardRows(r)
  BY <1>1 DEF BoardRows
<1>3. \A b : AggregateFlow(q, b) = AggregateFlow(r, b)
  BY <1>1 DEF AggregateFlow
<1>4. \A b : Constituent(q, b) = Constituent(r, b)
  BY <1>1 DEF Constituent
<1>5. MacroTilt(q) = MacroTilt(r)
  BY DEF MacroTilt
<1>6. \A b : Valuation(q, b) = Valuation(r, b)
  BY DEF Valuation
<1>7. FactorScores(q) = FactorScores(r)
  BY <1>2, <1>3, <1>4, <1>5, <1>6 DEF FactorScores
<1>. QED
  BY <1>2, <1>7 DEF BuildFactorScores

\* The factors that are missing weigh 40 at most, so that a composite beyond
\* one band leaves the weighted sum short of the other, if it is far enough.
LEMMA MissingIsOutweighed ==
    ASSUME NEW fund \in MonitorSet, NEW scores, DOMAIN scores \subseteq DOMAIN EffectiveWeights(fund),
           \A f \in DOMAIN scores : scores[f].value \in Int,
           AvailableWeight(EffectiveWeights(fund), scores) >= MinAvailableWeight
    PROVE  LET w       == EffectiveWeights(fund)
               missing == Total(w, DOMAIN w \ DOMAIN scores)
           IN  /\ /\ Weighted(w, scores) >= fund.buy * AvailableWeight(w, scores)
                  /\ 60 * fund.buy - 4000 > 100 * fund.sell
                  => Weighted(w, scores) - 100 * missing > fund.sell * 100
               /\ /\ Weighted(w, scores) <= fund.sell * AvailableWeight(w, scores)
                  /\ 60 * fund.sell + 4000 < 100 * fund.buy
                  => Weighted(w, scores) + 100 * missing < fund.buy * 100
<1>. DEFINE w == EffectiveWeights(fund)
            W == DOMAIN w
            B == fund.buy
            S == fund.sell
            D == DOMAIN scores
            F == [f \in D |-> w[f] * scores[f].value]
            a == SumFunctionOnSet(w, D)
            m == SumFunctionOnSet(w, W \ D)
            x == SumFunctionOnSet(F, D)
<1>1. /\ IsFiniteSet(W) /\ (\A f \in W : w[f] \in Nat) /\ SumFunctionOnSet(w, W) = 100
      /\ D \subseteq W
  BY WeightsAre DEF Total
<1>0. B \in -100 .. 100 /\ S \in -100 .. 100
  BY SignalAssumption DEF IsMonitorFund
<1>. HIDE DEF w
<1>2. IsFiniteSet(D) /\ IsFiniteSet(W \ D)
  BY <1>1, FS_Subset, FS_Difference
<1>3. \A f \in D : F[f] \in Int
  <2>1. TAKE f \in D
  <2>2. w[f] \in Int /\ scores[f].value \in Int
    BY <1>1
  <2>3. w[f] * scores[f].value \in Int
    BY <2>2
  <2>. QED
    BY <2>3
<1>. HIDE DEF F
<1>4. a \in Nat /\ m \in Nat /\ x \in Int
  BY <1>1, <1>2, <1>3, SumIsNat, SumIsInt
<1>5. a + m = 100
  BY <1>1, SumOfParts
<1>6. AvailableWeight(w, scores) = a /\ Weighted(w, scores) = x /\ Total(w, W \ D) = m
  BY DEF AvailableWeight, Weighted, Total, F
<1>7. a >= 60
  BY <1>6 DEF MinAvailableWeight, w
<1>. HIDE DEF a, m, x, B, S
<1>8. B * a >= 60 * B - 100 * (a - 60) /\ S * a <= 60 * S + 100 * (a - 60)
  <2>1. \A b \in -100 .. 100, n \in Nat : b * n >= -100 * n /\ b * n <= 100 * n
    <3>1. \A b \in Int, n \in Nat : b >= 0 => b * n >= 0
      OBVIOUS
    <3>2. TAKE b \in -100 .. 100, n \in Nat
    <3>3. (b + 100) * n >= 0 /\ (100 - b) * n >= 0
      BY <3>1
    <3>4. (b + 100) * n = b * n + 100 * n /\ (100 - b) * n = 100 * n - b * n
      OBVIOUS
    <3>5. b * n \in Int
      OBVIOUS
    <3>. QED
      BY <3>3, <3>4, <3>5
  <2>2. a - 60 \in Nat
    BY <1>4, <1>7
  <2>3. B * (a - 60) >= -100 * (a - 60) /\ S * (a - 60) <= 100 * (a - 60)
    BY <1>0, <2>1, <2>2
  <2>4. B * (a - 60) = B * a - 60 * B /\ S * (a - 60) = S * a - 60 * S
    BY <1>0, <1>4
  <2>5. B * a \in Int /\ S * a \in Int
    BY <1>0, <1>4
  <2>. QED
    BY <1>0, <1>4, <2>3, <2>4, <2>5
<1>9. /\ x >= B * a /\ 60 * B - 4000 > 100 * S => x - 100 * m > S * 100
      /\ x <= S * a /\ 60 * S + 4000 < 100 * B => x + 100 * m < B * 100
  <2>. DEFINE ba == B * a
              sa == S * a
  <2>1. ba \in Int /\ sa \in Int
    BY <1>0, <1>4
  <2>2. ba >= 60 * B - 100 * (a - 60) /\ sa <= 60 * S + 100 * (a - 60)
    BY <1>8
  <2>. HIDE DEF ba, sa
  <2>3. /\ x >= ba /\ 60 * B - 4000 > 100 * S => x - 100 * m > S * 100
        /\ x <= sa /\ 60 * S + 4000 < 100 * B => x + 100 * m < B * 100
    BY <1>0, <1>4, <1>5, <2>1, <2>2
  <2>. QED
    BY <2>3 DEF ba, sa
<1>. QED
  BY <1>6, <1>9 DEF w, B, S

\* What is known of the scores once the reading was judged.
IsJudged(r, o) ==
    /\ IsMeasured(r)
    /\ o.scores = BuildFactorScores(r)
    /\ \E badge : o.published = PublishedState(
           ComputeSignal(r.fund, o.scores), badge)

LEMMA JudgedIsEarned ==
    ASSUME IsJudged(reading, outcome)
    PROVE  MissingCannotReverse
<1>. DEFINE fund == reading.fund
            w == EffectiveWeights(fund)
            scores == outcome.scores
            signal == ComputeSignal(fund, scores)
<1>1. PICK badge : outcome.published = PublishedState(signal, badge)
  BY DEF IsJudged
<1>2. /\ DOMAIN scores \subseteq DOMAIN w /\ \A f \in DOMAIN scores : scores[f].value \in Int
      /\ fund \in MonitorSet
  BY FactorScoresAre DEF IsJudged, IsMeasured
<1>3. outcome.published \in Biases => signal.status = "ok" /\ signal.bias = outcome.published
  <2>. HIDE DEF signal
  <2>. QED
    BY <1>1 DEF PublishedState, Biases
<1>4. signal.status = "ok" => EnoughEvidence(w, scores) /\ signal.bias = Bias(fund, w, scores)
  BY DEF ComputeSignal
<1>. HIDE DEF w
<1>5. /\ Bias(fund, w, scores) = "ADD_BIAS" =>
            Weighted(w, scores) >= fund.buy * AvailableWeight(w, scores)
      /\ Bias(fund, w, scores) = "REDUCE_BIAS" =>
            Weighted(w, scores) <= fund.sell * AvailableWeight(w, scores)
  BY DEF Bias
<1>. HIDE DEF signal, scores
<1>6. EnoughEvidence(w, scores) => AvailableWeight(w, scores) >= MinAvailableWeight
  BY DEF EnoughEvidence
<1>7. ASSUME outcome.published \in {"ADD_BIAS", "REDUCE_BIAS"}
      PROVE  /\ AvailableWeight(w, scores) >= MinAvailableWeight
             /\ Bias(fund, w, scores) = outcome.published
  BY <1>3, <1>4, <1>6, <1>7 DEF Biases
<1>8. ASSUME outcome.published \in {"ADD_BIAS", "REDUCE_BIAS"}
      PROVE  LET missing == Total(w, DOMAIN w \ DOMAIN scores)
             IN  /\ /\ Weighted(w, scores) >= fund.buy * AvailableWeight(w, scores)
                    /\ 60 * fund.buy - 4000 > 100 * fund.sell
                    => Weighted(w, scores) - 100 * missing > fund.sell * 100
                 /\ /\ Weighted(w, scores) <= fund.sell * AvailableWeight(w, scores)
                    /\ 60 * fund.sell + 4000 < 100 * fund.buy
                    => Weighted(w, scores) + 100 * missing < fund.buy * 100
  BY <1>2, <1>7, <1>8, MissingIsOutweighed DEF w
<1>. QED
  BY <1>5, <1>7, <1>8 DEF MissingCannotReverse, MinAvailableWeight, w, scores

LEMMA JudgedIsNotFlattered ==
    ASSUME IsJudged(reading, outcome)
    PROVE  BasketIsNotFlattered
<1>. DEFINE board  == BoardRows(reading)
            w      == WeightsOf(board)
            priced == {h \in DOMAIN board : board[h].val # Absent}
            flows  == {h \in DOMAIN board : board[h].flow # Absent}
            valued == /\ "valuation" \in DOMAIN outcome.scores
                      /\ ~(reading.fund.catalog /\ reading.fund.index # Absent)
            v      == [h \in priced |-> board[h].val]
            value  == outcome.scores["valuation"].value
<1>0. IsMeasured(reading)
  BY DEF IsJudged
<1>1. valued => Total(w, priced) # 0 /\ value = Mean(w, v, priced)
  BY <1>0, FactorScoresAre, ValuationIs DEF IsJudged
<1>2. "flow" \in DOMAIN outcome.scores =>
         outcome.scores["flow"].value = Mean(w, [h \in flows |-> board[h].flow], flows)
  BY <1>0, FactorScoresAre, FlowIs DEF IsJudged
<1>3. ASSUME valued,
             \A h \in priced : reading.basket[h].rich # Absent /\ reading.basket[h].rich >= 120
      PROVE  value <= 0
  <2>1. IsBoard(board)
    BY <1>0, BoardIs
  <2>2. IsFiniteSet(priced) /\ \A h \in priced : w[h] \in Nat /\ v[h] \in Int
    BY <2>1, FS_Subset DEF IsBoard, WeightsOf
  <2>3. ASSUME NEW h \in priced PROVE v[h] <= 0
    <3>1. /\ h \in DOMAIN reading.basket
          /\ v[h] = DualTrack(reading.basket[h].self, reading.basket[h].rich)
      BY DEF BoardRows
    <3>2. IsBasket(reading.basket, reading.fund.top)
      BY <1>0, <3>1, SignalAssumption DEF IsMeasured, NoBasket
    <3>3. reading.basket[h].self \in Int /\ reading.basket[h].rich \in Int
      BY <3>1, <3>2 DEF IsBasket
    <3>4. reading.basket[h].rich # Absent /\ reading.basket[h].rich >= FalseCheapRichness
      BY <1>3 DEF FalseCheapRichness
    <3>. QED
      BY <3>1, <3>3, <3>4, DualTrackIs
  <2>. HIDE DEF priced, w, v
  <2>4. Mean(w, v, priced) <= 0
    BY <1>1, <1>3, <2>2, <2>3, MeanIs
  <2>. QED
    BY <1>1, <1>3, <2>4
<1>. QED
  BY <1>1, <1>2, <1>3 DEF BasketIsNotFlattered

\* What the steps of a reading leave behind: sound answers, put only where there
\* are holdings, a basket where there is one to fetch, and in the end the scores
\* of what was read.
ReadingInv ==
    /\ SignalInv
    /\ reading.macro \in Seq(Range(reading.macro)) /\ AreSound(reading.macro)
    /\ reading.holdings \in Seq(Range(reading.holdings)) /\ AreSound(reading.holdings)
    /\ reading.holdings # <<>> => LooksThrough(reading.fund.profile) /\ reading.fund.top # <<>>
    /\ reading.purchase \in {"limited", "open", "unlisted"}
    /\ reading.at \in {"score", "done"} => 
          reading.basket \in (IF LooksThrough(reading.fund.profile) /\ reading.fund.top # <<>>
                              THEN Baskets ELSE {NoBasket})
    /\ reading.at = "done" => IsJudged(reading, outcome)

LEMMA ReadingInvAtFirst == SignalInit => ReadingInv
<1>. SUFFICES ASSUME SignalInit PROVE ReadingInv
  OBVIOUS
<1>1. /\ reading.macro = <<>> /\ reading.holdings = <<>> /\ reading.at = "nav"
      /\ reading.purchase = "unlisted"
  BY DEF SignalInit
<1>2. <<>> \in Seq(Range(<<>>)) /\ AreSound(<<>>)
  BY DEF AreSound
<1>. QED
  BY <1>1, <1>2, SignalInvAtFirst DEF ReadingInv

LEMMA ValidatedIs ==
    ASSUME NEW answer \in ThemeAnswers \cup HoldingAnswers, ValidateImpacts(answer)
    PROVE  answer \in Seq(Range(answer)) /\ AreSound(answer)
<1>1. AreImpactRows(answer)
  BY SignalAssumption
<1>2. \A i \in DOMAIN answer : answer[i] \in Range(answer) /\ answer[i].sound
  BY DEF ValidateImpacts, ToSet, Range
<1>3. ASSUME NEW i \in DOMAIN answer
      PROVE  answer[i].impact \in Int /\ answer[i].confidence \in 0 .. 100
  <2>. DEFINE row == answer[i]
  <2>1. row \in Range(answer) /\ row.sound
    BY <1>2
  <2>. HIDE DEF row
  <2>2. row.impact \in -100 .. 100 /\ row.confidence \in 0 .. 100
    BY <1>1, <2>1 DEF AreImpactRows
  <2>. QED
    BY <2>2 DEF row
<1>. QED
  BY <1>1, <1>3 DEF AreImpactRows, AreSound

\* All of the reading but one answer.
OnlyMayChange(field) ==
    /\ reading'.fund = reading.fund /\ reading'.nav = reading.nav
    /\ reading'.basket = reading.basket /\ reading'.purchase = reading.purchase
    /\ field # "macro" => reading'.macro = reading.macro
    /\ field # "holdings" => reading'.holdings = reading.holdings

LEMMA MoveLeaves ==
    ASSUME NEW place, NEW answer, IsReading(reading)
    PROVE  /\ Move([reading EXCEPT !.at = place]) => OnlyMayChange("none")
           /\ Move([reading EXCEPT !.at = place, !["macro"] = answer]) =>
                 OnlyMayChange("macro") /\ reading'.macro = answer
           /\ Move([reading EXCEPT !.at = place, !["holdings"] = answer]) =>
                 OnlyMayChange("holdings") /\ reading'.holdings = answer
           /\ reading' = [reading EXCEPT !.tries = @ + 1] => OnlyMayChange("none")
<1>1. Move([reading EXCEPT !.at = place]) => OnlyMayChange("none")
  BY DEF Move, IsReading, OnlyMayChange
<1>2. Move([reading EXCEPT !.at = place, !["macro"] = answer]) =>
         OnlyMayChange("macro") /\ reading'.macro = answer
  BY DEF Move, IsReading, OnlyMayChange
<1>3. Move([reading EXCEPT !.at = place, !["holdings"] = answer]) =>
         OnlyMayChange("holdings") /\ reading'.holdings = answer
  BY DEF Move, IsReading, OnlyMayChange
<1>4. reading' = [reading EXCEPT !.tries = @ + 1] => OnlyMayChange("none")
  BY DEF IsReading, OnlyMayChange
<1>. QED
  BY <1>1, <1>2, <1>3, <1>4

LEMMA GatherBrings ==
    ASSUME IsReading(reading), NEW field \in {"macro", "holdings"}, NEW next, NEW answers,
           Gather(field, next, answers)
    PROVE  \/ OnlyMayChange("none")
           \/ /\ OnlyMayChange(field)
              /\ \E answer \in answers : ValidateImpacts(answer) /\ reading'[field] = answer
<1>1. CASE Move([reading EXCEPT !.at = next])
  BY <1>1, MoveLeaves
<1>2. CASE \E answer \in answers :
             /\ ValidateImpacts(answer)
             /\ Move([reading EXCEPT !.at = next, ![field] = answer])
  <2>1. PICK answer \in answers :
            /\ ValidateImpacts(answer)
            /\ Move([reading EXCEPT !.at = next, ![field] = answer])
    BY <1>2
  <2>2. CASE field = "macro"
    BY <2>1, <2>2, MoveLeaves
  <2>3. CASE field = "holdings"
    BY <2>1, <2>3, MoveLeaves
  <2>. QED
    BY <2>2, <2>3
<1>3. CASE reading' = [reading EXCEPT !.tries = @ + 1]
  BY <1>3, MoveLeaves
<1>4. CASE Move([reading EXCEPT !.at = "died"])
  BY <1>4, MoveLeaves
<1>. QED
  BY <1>1, <1>2, <1>3, <1>4 DEF Gather

LEMMA ReadingInvKept == ReadingInv /\ [SignalNext]_signalVars => ReadingInv'
<1>. SUFFICES ASSUME ReadingInv, [SignalNext]_signalVars PROVE ReadingInv'
  OBVIOUS
<1>0. /\ SignalInv' /\ IsReading(reading)
      /\ reading.fund \in MonitorSet /\ IsNav(reading.nav)
  BY SignalInvKept DEF ReadingInv, SignalInv, SignalTypes, SignalTypeOK
<1>1. CASE FetchNav
  <2>1. PICK nav \in NavSeries \cup {NoNav} : Move([reading EXCEPT !.at = "macro", !.nav = nav])
    BY <1>1 DEF FetchNav
  <2>2. /\ reading'.fund = reading.fund /\ reading'.macro = reading.macro
        /\ reading'.holdings = reading.holdings /\ reading'.purchase = reading.purchase
        /\ reading'.at = "macro"
    BY <1>0, <2>1 DEF Move, IsReading
  <2>. QED
    BY <1>0, <2>2 DEF ReadingInv
<1>2. CASE AskThemes
  <2>1. reading'.at \in {"macro", "holdings", "died"}
    <3>1. CASE Move([reading EXCEPT !.at = "holdings"]) /\ UNCHANGED asked
      BY <1>0, <3>1, MoveGoes DEF Move, Goes
    <3>2. CASE Gather("macro", "holdings", ThemeAnswers)
      BY <1>0, <1>2, <3>2, GatherGoes DEF AskThemes, Goes
    <3>. QED
      BY <1>2, <3>1, <3>2 DEF AskThemes
  <2>2. \/ OnlyMayChange("none")
        \/ /\ OnlyMayChange("macro")
           /\ \E answer \in ThemeAnswers : ValidateImpacts(answer) /\ reading'.macro = answer
    BY <1>0, <1>2, MoveLeaves, GatherBrings DEF AskThemes
  <2>3. reading'.macro \in Seq(Range(reading'.macro)) /\ AreSound(reading'.macro)
    BY <2>2, ValidatedIs DEF ReadingInv, OnlyMayChange
  <2>. QED
    BY <1>0, <2>1, <2>2, <2>3 DEF ReadingInv, OnlyMayChange
<1>3. CASE AskHoldings
  <2>. DEFINE asks == /\ LooksThrough(reading.fund.profile)
                      /\ reading.fund.views /\ reading.fund.top # <<>>
  <2>1. \/ Move([reading EXCEPT !.at = "measure"]) /\ UNCHANGED asked
        \/ asks /\ Gather("holdings", "measure", HoldingAnswers)
    BY <1>3 DEF AskHoldings
  <2>2. reading'.at \in {"holdings", "measure", "died"}
    <3>1. CASE Move([reading EXCEPT !.at = "measure"]) /\ UNCHANGED asked
      BY <1>0, <3>1, MoveGoes DEF Move, Goes
    <3>2. CASE Gather("holdings", "measure", HoldingAnswers)
      BY <1>0, <1>3, <3>2, GatherGoes DEF AskHoldings, Goes
    <3>. QED
      BY <2>1, <3>1, <3>2
  <2>3. \/ OnlyMayChange("none")
        \/ /\ OnlyMayChange("holdings") /\ asks
           /\ \E answer \in HoldingAnswers : ValidateImpacts(answer) /\ reading'.holdings = answer
    BY <1>0, <2>1, MoveLeaves, GatherBrings
  <2>4. reading'.holdings \in Seq(Range(reading'.holdings)) /\ AreSound(reading'.holdings)
    BY <2>3, ValidatedIs DEF ReadingInv, OnlyMayChange
  <2>. QED
    BY <1>0, <2>2, <2>3, <2>4 DEF ReadingInv, OnlyMayChange
<1>4. CASE MeasureHoldings
  <2>1. PICK basket \in (IF LooksThrough(reading.fund.profile) /\ reading.fund.top # <<>>
                         THEN Baskets ELSE {NoBasket}),
             purchase \in {"limited", "open", "unlisted"} :
          reading' = [reading EXCEPT !.at = "score", !.basket = basket, !.purchase = purchase]
    BY <1>4 DEF MeasureHoldings
  <2>2. /\ reading'.at = "score" /\ reading'.basket = basket /\ reading'.purchase = purchase
        /\ reading'.fund = reading.fund /\ reading'.macro = reading.macro
        /\ reading'.holdings = reading.holdings
    BY <1>0, <2>1 DEF IsReading
  <2>. QED
    BY <1>0, <2>1, <2>2 DEF ReadingInv
<1>5. CASE Judge
  <2>1. /\ reading.at = "score" /\ reading'.at = "done"
        /\ reading'.fund = reading.fund /\ reading'.nav = reading.nav
        /\ reading'.macro = reading.macro /\ reading'.holdings = reading.holdings
        /\ reading'.basket = reading.basket /\ reading'.purchase = reading.purchase
    BY <1>0, <1>5 DEF Judge, IsReading
  <2>2. IsMeasured(reading')
    BY <1>0, <2>1 DEF ReadingInv, IsMeasured
  <2>3. BuildFactorScores(reading') = BuildFactorScores(reading)
    BY <2>1, SameReading
  <2>4. /\ outcome'.scores = BuildFactorScores(reading)
        /\ outcome'.published = PublishedState(
               ComputeSignal(reading.fund, outcome'.scores), ApplyEvalGate(reading))
    <3>. DEFINE scores == BuildFactorScores(reading)
                signal == ComputeSignal(reading.fund, scores)
                badge  == ApplyEvalGate(reading)
    <3>1. outcome' = [scores |-> scores, status |-> signal.status, bias |-> signal.bias,
                      badge |-> badge, published |-> PublishedState(signal, badge)]
      BY <1>5 DEF Judge
    <3>. HIDE DEF scores, badge
    <3>2. outcome'.scores = scores /\ outcome'.published = PublishedState(signal, badge)
      BY <3>1
    <3>. QED
      BY <3>2 DEF scores, badge
  <2>5. IsJudged(reading', outcome')
    BY <2>1, <2>2, <2>3, <2>4 DEF IsJudged
  <2>. QED
    BY <1>0, <2>1, <2>5 DEF ReadingInv
<1>6. CASE UNCHANGED signalVars
  BY <1>0, <1>6 DEF ReadingInv, signalVars
<1>. QED
  BY <1>1, <1>2, <1>3, <1>4, <1>5, <1>6 DEF SignalNext

\* What is published of a fund is earned: by a long and recent history, sound
\* rows and suites that do not freshly fail, and by enough weight that, unless the
\* fund's bands are close together, no missing factor could have turned the call
\* round, whatever its own weights; and no basket of dear stocks adds to
\* it, whose factors are what the board shows (signal.py:84, eval/gate.py:36,
\* _dual_track.py:65).
THEOREM SignalsKeepTheirWord == SignalSpec => []SignalKeepsItsWord
<1>1. ReadingInv => SignalKeepsItsWord
  <2>. SUFFICES ASSUME ReadingInv PROVE SignalKeepsItsWord
    OBVIOUS
  <2>1. CASE reading.at = "done"
    <3>1. IsJudged(reading, outcome)
      BY <2>1 DEF ReadingInv
    <3>2. MissingCannotReverse /\ BasketIsNotFlattered
      BY <3>1, JudgedIsEarned, JudgedIsNotFlattered
    <3>. QED
      BY <3>2 DEF SignalKeepsItsWord, CallIsEarned, ReadingInv, SignalInv
  <2>2. CASE reading.at # "done"
    <3>1. outcome.published = "none"
      BY <2>2 DEF ReadingInv, SignalInv
    <3>2. MissingCannotReverse /\ BasketIsNotFlattered
      BY <2>2, <3>1 DEF MissingCannotReverse, BasketIsNotFlattered
    <3>. QED
      BY <3>2 DEF SignalKeepsItsWord, CallIsEarned, ReadingInv, SignalInv
  <2>. QED
    BY <2>1, <2>2
<1>. QED
  BY <1>1, ReadingInvAtFirst, ReadingInvKept, PTL DEF SignalSpec

-----------------------------------------------------------------------------
(* The two of them over one map of industries.                             *)

SeenStays ==
    \A s \in DOMAIN industryMap :
        \/ s \in DOMAIN industryMap' /\ industryMap'[s].seen >= industryMap[s].seen
        \/ brief.at \in {"record", "store"} /\ brief.map # industryMap
        \/ capture.at = "record" /\ capture.map # industryMap

LEMMA SameMapStays ==
    ASSUME MapShape, UNCHANGED industryMap
    PROVE  SeenStays
<1>1. \A s \in DOMAIN industryMap : industryMap[s].seen \in Int
  BY DEF MapShape, IsMap, Industry, CalendarDays
<1>. QED
  BY <1>1 DEF SeenStays

LEMMA MergedMapStays ==
    ASSUME MapShape, NEW seen, DOMAIN seen \subseteq Symbols,
           \A s \in DOMAIN seen : seen[s] \in Industries,
           industryMap' = MergeSeen(industryMap, seen)
    PROVE  SeenStays
BY MergeSeenIs DEF MapShape, SeenStays

LEMMA RadarKeepsSeen == RadarInv /\ [RadarNext]_radarVars => SeenStays
<1>. SUFFICES ASSUME RadarInv, [RadarNext]_radarVars PROVE SeenStays
  OBVIOUS
<1>0. MapShape
  BY DEF RadarInv
<1>1. CASE SeedStockMap
  <2>1. PICK answered \in SUBSET ((UNION {DOMAIN FundHoldings[f] : f \in holdings}) \ DOMAIN FreshSlice) :
          \E seen \in [answered -> Industries] : RecordSeen(seen)
    BY <1>1 DEF SeedStockMap
  <2>2. PICK seen \in [answered -> Industries] : RecordSeen(seen)
    BY <2>1
  <2>3. answered \subseteq Symbols
    BY RadarAssumption DEF RadarInv, RadarShape
  <2>4. DOMAIN seen \subseteq Symbols /\ \A s \in DOMAIN seen : seen[s] \in Industries
    BY <2>3
  <2>5. industryMap' = MergeSeen(industryMap, seen)
    BY <2>2 DEF RecordSeen
  <2>. QED
    BY <1>0, <2>4, <2>5, MergedMapStays
<1>2. CASE ~SeedStockMap
  <2>1. UNCHANGED industryMap
    BY <1>2 DEF RadarNext, RadarAbstains, Capture, WriteReport, AppendLedger, RadarDies,
                SeedStart, SeedBoard, SeedBoardFails, SeedHoldings, SeedDies, NextDay, radarVars
  <2>. QED
    BY <1>0, <2>1, SameMapStays
<1>. QED
  BY <1>1, <1>2

LEMMA MarketKeepsSeen == MarketInv /\ [MarketNext]_marketVars => SeenStays
<1>. SUFFICES ASSUME MarketInv, [MarketNext]_marketVars PROVE SeenStays
  OBVIOUS
<1>0. MapShape /\ IsAnswer(brief.seen, Industries) /\ IsAnswer(capture.seen, Industries)
  BY DEF MarketInv, StoresShape, IsBrief, IsCapture
<1>1. CASE BriefRecords \/ FallbackStores
  <2>1. brief.at \in {"record", "store"} /\ industryMap' = MergeSeen(brief.map, brief.seen)
    BY <1>1 DEF BriefRecords, FallbackStores
  <2>2. CASE brief.map = industryMap
    BY <1>0, <2>1, <2>2, MergedMapStays DEF IsAnswer
  <2>. QED
    BY <2>1, <2>2 DEF SeenStays
<1>2. CASE CaptureRecords
  <2>1. capture.at = "record" /\ industryMap' = MergeSeen(capture.map, capture.seen)
    BY <1>2 DEF CaptureRecords
  <2>2. CASE capture.map = industryMap
    BY <1>0, <2>1, <2>2, MergedMapStays DEF IsAnswer
  <2>. QED
    BY <2>1, <2>2 DEF SeenStays
<1>3. CASE ~(BriefRecords \/ FallbackStores \/ CaptureRecords)
  <2>1. UNCHANGED industryMap
    <3>1. CASE UNCHANGED marketVars
      BY <3>1 DEF marketVars
    <3>2. CASE StartBrief \/ BriefBatch \/ BriefServes \/ BriefFindsPe \/ BriefAsksPe \/ BriefFund
      BY <3>2 DEF StartBrief, BriefBatch, BriefServes, BriefFindsPe, BriefAsksPe, BriefFund
    <3>3. CASE AskSettles \/ AskFails \/ AskEnds \/ FallbackMerges \/ BriefEnds \/ KillBrief
      BY <3>3 DEF AskSettles, AskFails, AskEnds, FallbackMerges, BriefEnds, KillBrief
    <3>4. CASE StartCapture \/ CaptureCalendar \/ CaptureAppends \/ CaptureReadsMap
               \/ CaptureFindsPe \/ CaptureAsksPe \/ KillCapture
      BY <3>4 DEF StartCapture, CaptureCalendar, CaptureAppends, CaptureReadsMap,
                  CaptureFindsPe, CaptureAsksPe, KillCapture
    <3>5. CASE MarketCloses \/ NextMarketDay
      BY <3>5 DEF MarketCloses, NextMarketDay
    <3>. QED
      BY <1>3, <3>1, <3>2, <3>3, <3>4, <3>5 DEF MarketNext
  <2>. QED
    BY <1>0, <2>1, SameMapStays
<1>. QED
  BY <1>1, <1>2, <1>3

\* The invariant of whichever of the two is moving.
MoverInv ==
    /\ mover = "radar" => RadarInv
    /\ mover = "market" => MarketInv
    /\ MapShape

LEMMA MoverInvKept ==
    MoverInv /\ [MCMarketNext]_<<mover, radarVars, marketVars, signalVars, forwardVars>>
    => MoverInv' /\ (RowsSurvive \/ UNCHANGED radarVars) /\ (SeenStays \/ UNCHANGED marketVars)
<1>. SUFFICES ASSUME MoverInv,
                     [MCMarketNext]_<<mover, radarVars, marketVars, signalVars, forwardVars>>
              PROVE  MoverInv' /\ (RowsSurvive \/ UNCHANGED radarVars)
                               /\ (SeenStays \/ UNCHANGED marketVars)
  OBVIOUS
<1>1. CASE mover = "radar" /\ UNCHANGED mover /\ RadarNext /\ UNCHANGED marketOwn
  <2>1. RadarInv' /\ RowsSurvive /\ SeenStays
    BY <1>1, RadarInvKept, RadarKeepsRows, RadarKeepsSeen DEF MoverInv
  <2>2. MapShape'
    BY <2>1 DEF RadarInv
  <2>. QED
    BY <1>1, <2>1, <2>2 DEF MoverInv
<1>2. CASE mover = "market" /\ UNCHANGED mover /\ MarketNext /\ UNCHANGED radarOwn
  <2>1. MarketInv' /\ SeenStays
    BY <1>2, MarketInvKept, MarketKeepsSeen DEF MoverInv
  <2>2. MapShape'
    BY <2>1 DEF MarketInv, StoresShape
  <2>3. RowsSurvive
    BY <1>2 DEF RowsSurvive, radarOwn
  <2>. QED
    BY <1>2, <2>1, <2>2, <2>3 DEF MoverInv
<1>3. CASE UNCHANGED <<mover, radarVars, marketVars>>
  <2>1. MapShape'
    BY <1>3 DEF MoverInv, MapShape, IsMap, Industry, radarVars
  <2>2. mover = "radar" => RadarInv'
    BY <1>3, RadarInvKept DEF MoverInv
  <2>3. mover = "market" => MarketInv'
    BY <1>3, MarketInvKept DEF MoverInv
  <2>. QED
    BY <1>3, <2>1, <2>2, <2>3 DEF MoverInv
<1>. QED
  BY <1>1, <1>2, <1>3 DEF MCMarketNext

\* No run of the radar or of its seed loses a row captured live that is in
\* the window, unless the radar ran while the seed did; and no process puts
\* back the date on which a stock's industry was last seen, unless another
\* has written the map since it read it (industry_map.py, series_store.py).
THEOREM NothingIsForgotten == MCMarketSpec => NothingKnownIsLost
<1>1. MCMarketInit => MoverInv
  <2>. SUFFICES ASSUME MCMarketInit PROVE MoverInv
    OBVIOUS
  <2>1. RadarInv /\ MarketInv
    BY RadarInvAtFirst, MarketInvAtFirst DEF MCMarketInit
  <2>. QED
    BY <2>1 DEF MoverInv, RadarInv
<1>2. MoverInv /\ [MCMarketNext]_<<mover, radarVars, marketVars, signalVars, forwardVars>>
      => MoverInv' /\ [RowsSurvive]_radarVars /\ [SeenStays]_marketVars
  BY MoverInvKept
<1>3. MCMarketSpec => [][RowsSurvive]_radarVars /\ [][SeenStays]_marketVars
  BY <1>1, <1>2, PTL DEF MCMarketSpec
<1>. QED
  BY <1>3 DEF NothingKnownIsLost, LiveRowsSurvive, SeenGoesBackOnlyInARace, RowsSurvive, SeenStays

\* The shape of whatever the mover leaves alone.
WholeInv ==
    /\ MoverInv
    /\ RadarTypeOK /\ MarketTypeOK /\ SignalTypes /\ ForwardTypes

LEMMA RadarTypesAre == RadarInv => RadarTypeOK
<1>. SUFFICES ASSUME RadarInv PROVE RadarTypeOK
  OBVIOUS
<1>1. DayStoresTypeOK
  BY DEF RadarInv, MapShape, IsMap, DayStoresTypeOK
<1>2. \A b \in Boards : /\ DOMAIN boardSeries[b] \subseteq CalendarDays
                        /\ \A d \in DOMAIN boardSeries[b] : boardSeries[b][d] \in Row
  BY RowsAre DEF RadarInv, RadarShape
<1>. QED
  BY <1>1, <1>2 DEF RadarInv, RadarShape, ReportShape, RadarTypeOK

LEMMA MarketTypesAre == MarketInv => MarketTypeOK
<1>. SUFFICES ASSUME MarketInv PROVE MarketTypeOK
  OBVIOUS
<1>1. DayStoresTypeOK
  BY DEF MarketInv, StoresShape, MapShape, IsMap, DayStoresTypeOK
<1>2. today \in CalendarDays /\ LastDay \in Nat
  BY DayAssumption DEF MarketInv, StoresShape, MapShape
<1>3. DOMAIN peTables \subseteq CalendarDays
  BY <1>2 DEF MarketInv, StoresShape, CalendarDays
<1>4. DOMAIN flowStore = TopSymbols
  BY DEF MarketInv, StoresShape
<1>. QED
  BY <1>1, <1>3, <1>4 DEF MarketInv, StoresShape, IsBrief, IsAnswer, Settled, MarketTypeOK

LEMMA WholeInvAtFirst == MCMarketInit => WholeInv
<1>. SUFFICES ASSUME MCMarketInit PROVE WholeInv
  OBVIOUS
<1>1. RadarInv /\ MarketInv /\ SignalTypes /\ ForwardTypes
  BY RadarInvAtFirst, MarketInvAtFirst, SignalTypesAtFirst, ForwardTypesAtFirst DEF MCMarketInit
<1>. QED
  BY <1>1, RadarTypesAre, MarketTypesAre DEF WholeInv, MoverInv, RadarInv

LEMMA WholeInvKept ==
    WholeInv /\ [MCMarketNext]_<<mover, radarVars, marketVars, signalVars, forwardVars>> => WholeInv'
<1>. SUFFICES ASSUME WholeInv,
                     [MCMarketNext]_<<mover, radarVars, marketVars, signalVars, forwardVars>>
              PROVE  WholeInv'
  OBVIOUS
<1>0. MoverInv'
  BY MoverInvKept DEF WholeInv
<1>1. DayStoresTypeOK'
  BY <1>0 DEF MoverInv, MapShape, IsMap, DayStoresTypeOK
<1>2. RadarTypeOK'
  <2>1. CASE mover' = "radar"
    <3>1. RadarInv' => RadarTypeOK'
      BY RadarTypesAre, PTL
    <3>. QED
      BY <1>0, <2>1, <3>1 DEF MoverInv
  <2>2. CASE mover' # "radar"
    <3>1. UNCHANGED radarOwn
      BY <2>2 DEF MCMarketNext, radarVars, radarOwn
    <3>. QED
      BY <1>1, <3>1 DEF WholeInv, RadarTypeOK, radarOwn
  <2>. QED
    BY <2>1, <2>2
<1>3. MarketTypeOK'
  <2>1. CASE mover' = "market"
    <3>1. MarketInv' => MarketTypeOK'
      BY MarketTypesAre, PTL
    <3>. QED
      BY <1>0, <2>1, <3>1 DEF MoverInv
  <2>2. CASE mover' # "market"
    <3>1. UNCHANGED marketOwn
      BY <2>2 DEF MCMarketNext, marketVars, marketOwn
    <3>. QED
      BY <1>1, <3>1 DEF WholeInv, MarketTypeOK, marketOwn
  <2>. QED
    BY <2>1, <2>2
<1>4. SignalTypes'
  <2>1. [SignalNext]_signalVars
    BY DEF MCMarketNext
  <2>. QED
    BY <2>1, SignalTypesKept DEF WholeInv
<1>5. ForwardTypes'
  <2>1. [ForwardNext]_forwardVars
    BY DEF MCMarketNext
  <2>. QED
    BY <2>1, ForwardTypesKept DEF WholeInv
<1>. QED
  BY <1>0, <1>2, <1>3, <1>4, <1>5 DEF WholeInv

\* The stores, the reports, the readings and the runs in flight keep their
\* shape, whichever process moves.
THEOREM MarketTypes == MCMarketSpec => []MarketTypesOK
<1>1. WholeInv => MarketTypesOK
  BY DEF WholeInv, SignalTypes, ForwardTypes, MarketTypesOK
<1>. QED
  BY <1>1, WholeInvAtFirst, WholeInvKept, PTL DEF MCMarketSpec
=============================================================================
