----------------------------- MODULE MonitorProofs ----------------------------
(***************************************************************************)
(* What the monitor's track record promises, for any days, NAV calendar,   *)
(* horizon, engine versions, kills and reruns; and that the pages which    *)
(* end a scheduled run are the right ones, for any stocks and calendar.    *)
(***************************************************************************)
EXTENDS ForwardScore, Notify, SumTheorems

LEMMA MinIs ==
    ASSUME NEW S, S \subseteq Nat, S # {}
    PROVE  Min(S) \in S /\ \A m \in S : Min(S) <= m
<1>1. \E n \in S : \A m \in S : n <= m
  BY HasLeast
<1>. QED
  BY <1>1 DEF Min

LEMMA MaxIs ==
    ASSUME NEW n \in Nat, NEW S, S \subseteq 0..n, S # {}
    PROVE  Max(S) \in S /\ \A m \in S : m <= Max(S)
<1>. DEFINE left == {n - d : d \in S}
<1>7. \A d \in S : d \in 0..n
  OBVIOUS
<1>8. \A d \in S : n - d \in Nat
  BY <1>7
<1>1. left \subseteq Nat /\ left # {}
  BY <1>8
<1>2. PICK l \in left : \A m \in left : l <= m
  BY <1>1, HasLeast
<1>3. PICK d \in S : l = n - d
  BY <1>2
<1>4. \A e \in S : n - e \in left /\ e <= d
  BY <1>7, <1>2, <1>3
<1>5. \A y \in S : d >= y
  BY <1>4
<1>6. Max(S) \in S /\ \A y \in S : Max(S) >= y
  BY <1>5 DEF Max
<1>. QED
  BY <1>6

-----------------------------------------------------------------------------
(* The scorer.                                                             *)

\* The window from the entry to the outcome lies after the run and holds
\* Horizon observations and the entry.
LEMMA WindowIs ==
    ASSUME NEW series, series \subseteq 1..LastRunDay, NEW anchor \in Int, NEW today \in Int,
           EntryOutcome(series, anchor, today).reason = "ok"
    PROVE  LET w == EntryOutcome(series, anchor, today)
           IN  /\ w.entry \in Int /\ w.outcome \in Int /\ w.entry > anchor
               /\ Cardinality({d \in series : d >= w.entry /\ d <= w.outcome}) >= Horizon + 1
<1>. DEFINE later == FirstAfter(series, anchor)
            nth == {d \in later : Cardinality({e \in later : e < d}) = Horizon}
            w == EntryOutcome(series, anchor, today)
<1>0. LastRunDay \in Nat /\ Horizon \in Nat
  BY ForwardAssumption
<1>1. /\ later \subseteq series /\ \A d \in later : d > anchor
      /\ \A d \in later : d \in 1..LastRunDay
  BY DEF FirstAfter, After
<1>2. later # {} /\ nth # {} /\ w.entry = Min(later) /\ w.outcome = Max(nth)
  <2>. HIDE DEF later
  <2>. QED
    BY DEF EntryOutcome, later
<1>. HIDE DEF later, w
<1>3. Min(later) \in later /\ \A d \in later : Min(later) <= d
  <2>1. later \subseteq Nat
    BY <1>0, <1>1
  <2>. QED
    BY <1>2, <2>1, MinIs
<1>4. Max(nth) \in nth
  <2>1. \A d \in nth : d \in 0..LastRunDay
    BY <1>0, <1>1
  <2>. HIDE DEF nth
  <2>. QED
    BY <1>0, <1>2, <2>1, MaxIs
<1>. DEFINE out == Max(nth)
<1>. HIDE DEF out
<1>5. out \in later /\ Cardinality({e \in later : e < out}) = Horizon
  BY <1>4 DEF out
<1>. DEFINE before == {e \in later : e < out}
            window == {d \in series : d >= Min(later) /\ d <= out}
<1>6. IsFiniteSet(1..LastRunDay)
  BY <1>0, FS_Interval
<1>7. IsFiniteSet(series)
  BY <1>6, FS_Subset
<1>8. IsFiniteSet(before) /\ IsFiniteSet(window)
  BY <1>1, <1>7, FS_Subset
<1>9. out \in Int /\ out \notin before /\ before \cup {out} \subseteq window
  <2>1. out \in Int /\ Min(later) \in Int
    <3>1. out \in later /\ Min(later) \in later
      BY <1>3, <1>5
    <3>2. \A d \in later : d \in Int
      BY <1>0, <1>1
    <3>. QED
      BY <3>1, <3>2
  <2>2. \A e \in before \cup {out} : e \in later /\ e <= out
    BY <1>0, <1>1, <1>5, <2>1
  <2>3. \A e \in later : e \in Int /\ e \in series /\ e >= Min(later)
    BY <1>0, <1>1, <1>3
  <2>. QED
    BY <2>1, <2>2, <2>3
<1>10. Cardinality(before \cup {out}) = Horizon + 1
  <2>1. Cardinality(before) = Horizon
    BY <1>5
  <2>. HIDE DEF before
  <2>. QED
    BY <1>8, <1>9, <2>1, FS_AddElement
<1>11. Cardinality(before \cup {out}) <= Cardinality(window)
  <2>. HIDE DEF before, window
  <2>. QED
    BY <1>8, <1>9, FS_Subset
<1>12. Cardinality(window) >= Horizon + 1
  <2>1. Cardinality(window) \in Nat
    <3>. HIDE DEF window
    <3>. QED
      BY <1>8, FS_CardinalityType
  <2>. HIDE DEF window, before
  <2>. QED
    BY <1>0, <1>10, <1>11, <2>1
<1>13. w.entry \in Int /\ w.outcome \in Int /\ w.entry > anchor
  <2>1. Min(later) \in Int /\ Min(later) > anchor
    <3>1. \A d \in later : d \in Int /\ d > anchor
      BY <1>0, <1>1
    <3>. QED
      BY <1>3, <3>1
  <2>. QED
    BY <1>2, <1>9, <2>1 DEF out
<1>14. {d \in series : d >= w.entry /\ d <= w.outcome} = window
  BY <1>2 DEF out
<1>. QED
  BY <1>12, <1>13, <1>14 DEF w

-----------------------------------------------------------------------------
(* Types, and what was known when.                                         *)

TrackRows == [run : 1..LastRunDay, bias : Biases3, engine : Nat, asOf : Int,
               known : SUBSET NavDays]
MonitorRuns == [at : {"off", "ledger", "nav", "eval", "outputs", "sentinel"},
                known : SUBSET NavDays, bias : Biases3, prior : Int]

\* A run knows what was published by its day, and a row what its run knew.
ForwardTypes ==
    /\ ForwardTypeOK
    /\ ledger \in Seq(TrackRows)
    /\ monitorRun \in MonitorRuns /\ monitorRun.known \subseteq published
    /\ \A d \in published : d <= runDay
    /\ \A i \in DOMAIN ledger : \A d \in ledger[i].known : d <= ledger[i].run

LEMMA NoRunIs == NoRun \in MonitorRuns /\ NoRun.known = {}
  BY ForwardAssumption DEF NoRun, MonitorRuns

LEMMA EmptyLedgerIs == <<>> \in Seq(TrackRows) /\ DOMAIN <<>> = {}
  OBVIOUS

LEMMA ForwardTypesAtFirst == ForwardInit => ForwardTypes
<1>. SUFFICES ASSUME ForwardInit PROVE ForwardTypes
  OBVIOUS
<1>1. Min(Engines) \in Engines
  BY ForwardAssumption, MinIs
<1>2. DOMAIN NoDays = {}
  BY DEF NoDays
<1>3. 1 \in 1..LastRunDay /\ MaxForwardRuns \in Nat
  BY ForwardAssumption
<1>4. ForwardTypeOK
  BY <1>1, <1>2, <1>3, EmptyLedgerIs, NoRunIs DEF ForwardInit, ForwardTypeOK, NoRun
<1>. QED
  BY <1>4, EmptyLedgerIs, NoRunIs DEF ForwardInit, ForwardTypes

\* How the ledger grows.
LEMMA LedgerGrows ==
    ASSUME ForwardTypes, NEW row \in TrackRows, ledger' = Append(ledger, row)
    PROVE  /\ ledger' \in Seq(TrackRows)
           /\ DOMAIN ledger' = DOMAIN ledger \cup {Len(ledger) + 1}
           /\ \A i \in DOMAIN ledger : ledger'[i] = ledger[i]
           /\ ledger'[Len(ledger) + 1] = row
  BY DEF ForwardTypes

LEMMA RowIs ==
    ASSUME ForwardTypes
    PROVE  /\ LedgerRow(monitorRun) \in TrackRows
           /\ LedgerRow(monitorRun).run = runDay
           /\ \A d \in LedgerRow(monitorRun).known : d <= runDay
<1>1. runDay \in 1..LastRunDay /\ engineVersion \in Nat
  BY ForwardAssumption DEF ForwardTypes, ForwardTypeOK
<1>2. /\ monitorRun.known \subseteq NavDays /\ monitorRun.bias \in Biases3
      /\ \A d \in monitorRun.known : d <= runDay
  BY DEF ForwardTypes, MonitorRuns
<1>3. Max({0} \cup monitorRun.known) \in Int
  <2>. DEFINE S == {0} \cup monitorRun.known
  <2>1. LastRunDay \in Nat /\ S \subseteq 0..LastRunDay /\ S # {}
    <3>1. LastRunDay \in Nat /\ NavDays \subseteq 1..LastRunDay
      BY ForwardAssumption
    <3>2. \A x \in NavDays : x \in 0..LastRunDay
      BY <3>1
    <3>3. 0 \in 0..LastRunDay
      BY <3>1
    <3>. QED
      BY <1>2, <3>1, <3>2, <3>3
  <2>4. \A d \in S : d \in Int
    BY <2>1
  <2>. HIDE DEF S
  <2>2. Max(S) \in S
    BY <2>1, MaxIs
  <2>3. Max(S) \in Int
    BY <2>2, <2>4
  <2>. QED
    BY <2>3 DEF S
<1>. QED
  BY <1>1, <1>2, <1>3 DEF LedgerRow, TrackRows

LEMMA ForwardTypesKept == ForwardTypes /\ [ForwardNext]_forwardVars => ForwardTypes'
<1>. SUFFICES ASSUME ForwardTypes, [ForwardNext]_forwardVars PROVE ForwardTypes'
  OBVIOUS
<1>. USE ForwardAssumption
<1>1. CASE PublishNav
  BY <1>1 DEF PublishNav, ForwardTypes, ForwardTypeOK
<1>2. CASE NextRunDay
  <2>1. /\ runDay' = runDay + 1 /\ runDay' \in 1..LastRunDay
        /\ UNCHANGED <<published, navHistory, ledger, engineVersion, signals, monitorRun,
                       forwardRuns>>
    BY <1>2 DEF NextRunDay, ForwardTypes, ForwardTypeOK
  <2>2. \A d \in published : d \in Int
    BY DEF ForwardTypes, ForwardTypeOK
  <2>3. ForwardTypeOK'
    BY <2>1 DEF ForwardTypes, ForwardTypeOK
  <2>. QED
    BY <2>1, <2>2, <2>3 DEF ForwardTypes, ForwardTypeOK
<1>3. CASE Release
  BY <1>3 DEF Release, ForwardTypes, ForwardTypeOK
<1>4. CASE StartMonitor
  <2>1. PICK known \in {published, {}}, bias \in Biases3 :
          monitorRun' = [at |-> "ledger", known |-> known,
                         bias |-> IF known = {} THEN "none" ELSE bias,
                         prior |-> Max({0} \cup (DOMAIN signals \ {runDay}))]
    BY <1>4 DEF StartMonitor
  <2>2. /\ forwardRuns' \in 0..MaxForwardRuns
        /\ UNCHANGED <<runDay, published, navHistory, ledger, engineVersion, signals>>
    BY <1>4 DEF StartMonitor, ForwardTypes, ForwardTypeOK
  <2>3. Max({0} \cup (DOMAIN signals \ {runDay})) \in Int
    <3>. DEFINE S == {0} \cup (DOMAIN signals \ {runDay})
    <3>1. runDay \in Nat /\ S \subseteq 0..runDay /\ S # {}
      BY DEF ForwardTypes, ForwardTypeOK
    <3>4. \A d \in S : d \in Int
      BY <3>1
    <3>. HIDE DEF S
    <3>2. Max(S) \in S
      BY <3>1, MaxIs
    <3>3. Max(S) \in Int
      BY <3>2, <3>4
    <3>. QED
      BY <3>3 DEF S
  <2>4. monitorRun' \in MonitorRuns /\ monitorRun'.known \subseteq published /\ monitorRun'.at = "ledger"
    BY <2>1, <2>3 DEF MonitorRuns, ForwardTypes, ForwardTypeOK
  <2>. QED
    BY <2>2, <2>4 DEF ForwardTypes, ForwardTypeOK
<1>5. CASE AppendForwardRow
  <2>1. /\ monitorRun' = [monitorRun EXCEPT !.at = "nav"]
        /\ UNCHANGED <<runDay, published, navHistory, engineVersion, signals, forwardRuns>>
    BY <1>5 DEF AppendForwardRow
  <2>2. monitorRun' \in MonitorRuns /\ monitorRun'.known = monitorRun.known /\ monitorRun'.at = "nav"
    BY <2>1 DEF ForwardTypes, MonitorRuns
  <2>3. CASE ledger' = ledger
    BY <2>1, <2>2, <2>3 DEF ForwardTypes, ForwardTypeOK
  <2>4. CASE ledger' = Append(ledger, LedgerRow(monitorRun))
    <3>. DEFINE row == LedgerRow(monitorRun)
    <3>1. row \in TrackRows /\ row.run = runDay /\ \A d \in row.known : d <= runDay
      BY RowIs
    <3>. HIDE DEF row
    <3>2. ledger' = Append(ledger, row)
      BY <2>4 DEF row
    <3>3. /\ ledger' \in Seq(TrackRows)
          /\ DOMAIN ledger' = DOMAIN ledger \cup {Len(ledger) + 1}
          /\ \A i \in DOMAIN ledger : ledger'[i] = ledger[i]
          /\ ledger'[Len(ledger) + 1] = row
      BY <3>1, <3>2, LedgerGrows
    <3>4. row.bias \in Biases3 /\ row.known \subseteq NavDays
      BY <3>1 DEF TrackRows
    <3>5. runDay \in 1..runDay
      BY DEF ForwardTypes, ForwardTypeOK
    <3>6. \A i \in DOMAIN ledger' : /\ ledger'[i].run \in 1..runDay
                                    /\ ledger'[i].bias \in Biases3
                                    /\ ledger'[i].known \subseteq NavDays
                                    /\ \A d \in ledger'[i].known : d <= ledger'[i].run
      BY <3>1, <3>3, <3>4, <3>5 DEF ForwardTypes, ForwardTypeOK
    <3>. QED
      BY <2>1, <2>2, <3>3, <3>6 DEF ForwardTypes, ForwardTypeOK
  <2>. QED
    BY <1>5, <2>3, <2>4 DEF AppendForwardRow
<1>6. CASE AppendNavHistory
  <2>1. /\ monitorRun' = [monitorRun EXCEPT !.at = "eval"]
        /\ navHistory' \subseteq navHistory \cup monitorRun.known
        /\ UNCHANGED <<runDay, published, ledger, engineVersion, signals, forwardRuns>>
    BY <1>6 DEF AppendNavHistory, NavTail
  <2>2. monitorRun' \in MonitorRuns /\ monitorRun'.known = monitorRun.known /\ monitorRun'.at = "eval"
    BY <2>1 DEF ForwardTypes, MonitorRuns
  <2>. QED
    BY <2>1, <2>2 DEF ForwardTypes, ForwardTypeOK
<1>7. CASE RunForwardEval \/ WriteSignal
  <2>1. /\ \E a \in {"outputs", "sentinel"} : monitorRun' = [monitorRun EXCEPT !.at = a]
        /\ DOMAIN signals' \subseteq DOMAIN signals \cup {runDay}
        /\ UNCHANGED <<runDay, published, navHistory, ledger, engineVersion, forwardRuns>>
    BY <1>7 DEF RunForwardEval, WriteSignal
  <2>2. /\ monitorRun' \in MonitorRuns /\ monitorRun'.known = monitorRun.known
        /\ monitorRun'.at \in {"outputs", "sentinel"}
    BY <2>1 DEF ForwardTypes, MonitorRuns
  <2>3. runDay \in 1..runDay
    BY DEF ForwardTypes, ForwardTypeOK
  <2>. QED
    BY <2>1, <2>2, <2>3 DEF ForwardTypes, ForwardTypeOK
<1>8. CASE WriteSentinel \/ KillMonitor
  <2>1. /\ monitorRun' = NoRun /\ NoRun.at = "off"
        /\ UNCHANGED <<runDay, published, navHistory, ledger, engineVersion, signals, forwardRuns>>
    BY <1>8 DEF WriteSentinel, KillMonitor, NoRun
  <2>. QED
    BY <2>1, NoRunIs DEF ForwardTypes, ForwardTypeOK
<1>9. CASE UNCHANGED forwardVars
  BY <1>9 DEF forwardVars, ForwardTypes, ForwardTypeOK
<1>. QED
  BY <1>1, <1>2, <1>3, <1>4, <1>5, <1>6, <1>7, <1>8, <1>9 DEF ForwardNext

-----------------------------------------------------------------------------
(* The scores and the timeline.                                            *)

Window(s, series) == {d \in series : d >= s.entry /\ d <= s.outcome}

\* What the last report rests on, now and after later appends.
ScoredWell ==
    /\ \A s \in scored :
          /\ s.row \in DOMAIN ledger /\ s.entry \in Int /\ s.outcome \in Int
          /\ s.entry > ledger[s.row].run
          /\ Cardinality(Window(s, navHistory)) >= Horizon + 1
    /\ \A s, t \in scored : ledger[s.row].engine = ledger[t.row].engine
TimelineIsLedger == monitorRun.at = "outputs" => timeline = BiasTimeline(ledger)

LEMMA ScoresAre ==
    ASSUME NEW rows \in Seq(TrackRows), NEW series, series \subseteq 1..LastRunDay,
           NEW today \in Int, NEW s \in ScoreForward(rows, series, today)
    PROVE  /\ s.row \in DOMAIN rows /\ s.entry \in Int /\ s.outcome \in Int
           /\ s.entry > rows[s.row].run
           /\ Cardinality(Window(s, series)) >= Horizon + 1
           /\ rows[s.row].engine = TargetEngine(rows)
<1>1. PICK i \in Prefiltered(rows) :
        /\ EntryOutcome(series, rows[i].run, today).reason = "ok"
        /\ s = [row |-> i, run |-> rows[i].run, bias |-> rows[i].bias,
                entry |-> EntryOutcome(series, rows[i].run, today).entry,
                outcome |-> EntryOutcome(series, rows[i].run, today).outcome]
  BY DEF ScoreForward
<1>2. i \in DOMAIN rows /\ rows[i].engine = TargetEngine(rows)
  BY DEF Prefiltered
<1>3. rows[i].run \in Int
  <2>1. rows[i] \in TrackRows
    BY <1>2
  <2>2. rows[i].run \in 1..LastRunDay
    BY <2>1 DEF TrackRows
  <2>. QED
    BY <2>2, ForwardAssumption
<1>. DEFINE w == EntryOutcome(series, rows[i].run, today)
<1>4. /\ w.entry \in Int /\ w.outcome \in Int /\ w.entry > rows[i].run
      /\ Cardinality({d \in series : d >= w.entry /\ d <= w.outcome}) >= Horizon + 1
  BY <1>1, <1>3, WindowIs
<1>. HIDE DEF w
<1>5. s.row = i /\ s.entry = w.entry /\ s.outcome = w.outcome
  BY <1>1 DEF w
<1>6. Window(s, series) = {d \in series : d >= w.entry /\ d <= w.outcome}
  BY <1>5 DEF Window
<1>. QED
  BY <1>2, <1>4, <1>5, <1>6

LEMMA WindowGrows ==
    ASSUME NEW s, NEW a, NEW b, a \subseteq b, b \subseteq 1..LastRunDay
    PROVE  /\ Cardinality(Window(s, a)) \in Nat /\ Cardinality(Window(s, b)) \in Nat
           /\ Cardinality(Window(s, a)) <= Cardinality(Window(s, b))
<1>1. IsFiniteSet(1..LastRunDay)
  BY ForwardAssumption, FS_Interval
<1>2. Window(s, a) \subseteq Window(s, b) /\ Window(s, b) \subseteq 1..LastRunDay
  BY DEF Window
<1>. QED
  BY <1>1, <1>2, FS_Subset, FS_CardinalityType

\* A step that adds to the two files at most leaves the report what it was.
LEMMA AppendsKeepScores ==
    ASSUME ForwardTypes, ScoredWell, UNCHANGED scored,
           DOMAIN ledger \subseteq DOMAIN ledger',
           \A i \in DOMAIN ledger : ledger'[i] = ledger[i],
           navHistory \subseteq navHistory', navHistory' \subseteq 1..LastRunDay
    PROVE  ScoredWell'
<1>1. ASSUME NEW s \in scored
      PROVE  /\ s.row \in DOMAIN ledger' /\ s.entry \in Int /\ s.outcome \in Int
             /\ s.entry > ledger'[s.row].run
             /\ Cardinality(Window(s, navHistory')) >= Horizon + 1
  <2>1. /\ s.row \in DOMAIN ledger /\ s.entry \in Int /\ s.outcome \in Int
        /\ s.entry > ledger[s.row].run
        /\ Cardinality(Window(s, navHistory)) >= Horizon + 1
    BY DEF ScoredWell
  <2>2. /\ Cardinality(Window(s, navHistory)) \in Nat /\ Cardinality(Window(s, navHistory')) \in Nat
        /\ Cardinality(Window(s, navHistory)) <= Cardinality(Window(s, navHistory'))
    BY WindowGrows
  <2>. QED
    BY <2>1, <2>2, ForwardAssumption
<1>2. \A s, t \in scored : ledger'[s.row].engine = ledger'[t.row].engine
  BY DEF ScoredWell
<1>. QED
  BY <1>1, <1>2 DEF ScoredWell

LEMMA ScoredWellKept ==
    ForwardTypes /\ ForwardTypes' /\ ScoredWell /\ [ForwardNext]_forwardVars => ScoredWell'
<1>. SUFFICES ASSUME ForwardTypes, ForwardTypes', ScoredWell, [ForwardNext]_forwardVars
              PROVE  ScoredWell'
  OBVIOUS
<1>0. navHistory \subseteq 1..LastRunDay /\ navHistory' \subseteq 1..LastRunDay
  BY ForwardAssumption DEF ForwardTypes, ForwardTypeOK
<1>1. CASE RunForwardEval
  <2>1. /\ UNCHANGED <<ledger, navHistory>>
        /\ scored' = {} \/ scored' = ScoreForward(ledger, navHistory, runDay)
    BY <1>1 DEF RunForwardEval
  <2>2. ledger \in Seq(TrackRows) /\ runDay \in Int
    BY DEF ForwardTypes, ForwardTypeOK
  <2>3. CASE scored' = {}
    BY <2>3 DEF ScoredWell
  <2>4. CASE scored' = ScoreForward(ledger, navHistory, runDay)
    <3>1. \A s \in scored' :
            /\ s.row \in DOMAIN ledger /\ s.entry \in Int /\ s.outcome \in Int
            /\ s.entry > ledger[s.row].run
            /\ Cardinality(Window(s, navHistory)) >= Horizon + 1
            /\ ledger[s.row].engine = TargetEngine(ledger)
      BY <1>0, <2>2, <2>4, ScoresAre
    <3>2. \A s, t \in scored' : ledger[s.row].engine = ledger[t.row].engine
      BY <3>1
    <3>. QED
      BY <2>1, <3>1, <3>2 DEF ScoredWell
  <2>. QED
    BY <2>1, <2>3, <2>4
<1>2. CASE AppendForwardRow
  <2>1. UNCHANGED <<scored, navHistory>>
    BY <1>2 DEF AppendForwardRow
  <2>2. DOMAIN ledger \subseteq DOMAIN ledger' /\ \A i \in DOMAIN ledger : ledger'[i] = ledger[i]
    <3>1. CASE ledger' = ledger
      BY <3>1
    <3>2. CASE ledger' = Append(ledger, LedgerRow(monitorRun))
      <4>. DEFINE row == LedgerRow(monitorRun)
      <4>1. row \in TrackRows
        BY RowIs
      <4>. HIDE DEF row
      <4>2. ledger' = Append(ledger, row)
        BY <3>2 DEF row
      <4>. QED
        BY <4>1, <4>2, LedgerGrows
    <3>. QED
      BY <1>2, <3>1, <3>2 DEF AppendForwardRow
  <2>. QED
    BY <1>0, <2>1, <2>2, AppendsKeepScores
<1>3. CASE AppendNavHistory
  <2>1. UNCHANGED <<scored, ledger>> /\ navHistory \subseteq navHistory'
    BY <1>3 DEF AppendNavHistory
  <2>. QED
    BY <1>0, <2>1, AppendsKeepScores
<1>4. CASE UNCHANGED <<scored, ledger, navHistory>>
  BY <1>4 DEF ScoredWell
<1>5. [ForwardNext]_forwardVars => \/ RunForwardEval \/ AppendForwardRow \/ AppendNavHistory
                                   \/ UNCHANGED <<scored, ledger, navHistory>>
  BY DEF ForwardNext, PublishNav, NextRunDay, Release, StartMonitor, WriteSignal,
         WriteSentinel, KillMonitor, forwardVars
<1>. QED
  BY <1>1, <1>2, <1>3, <1>4, <1>5

LEMMA TimelineKept ==
    ForwardTypes /\ TimelineIsLedger /\ [ForwardNext]_forwardVars => TimelineIsLedger'
<1>. SUFFICES ASSUME ForwardTypes, TimelineIsLedger, [ForwardNext]_forwardVars
              PROVE  TimelineIsLedger'
  OBVIOUS
<1>1. CASE RunForwardEval
  BY <1>1 DEF RunForwardEval, TimelineIsLedger
<1>2. CASE UNCHANGED <<monitorRun, timeline, ledger>>
  BY <1>2 DEF TimelineIsLedger
<1>3. CASE monitorRun'.at # "outputs"
  BY <1>3 DEF TimelineIsLedger
<1>4. [ForwardNext]_forwardVars => \/ RunForwardEval \/ UNCHANGED <<monitorRun, timeline, ledger>>
                                   \/ monitorRun'.at # "outputs"
  BY DEF ForwardNext, PublishNav, NextRunDay, Release, StartMonitor, AppendForwardRow,
         AppendNavHistory, WriteSignal, WriteSentinel, KillMonitor, forwardVars, NoRun,
         ForwardTypes, MonitorRuns
<1>. QED
  BY <1>1, <1>2, <1>3, <1>4

LEMMA TrackAlways == ForwardSpec => [](ForwardTypes /\ ScoredWell /\ TimelineIsLedger)
<1>1. ForwardInit => ScoredWell /\ TimelineIsLedger
  BY DEF ForwardInit, ScoredWell, TimelineIsLedger, NoRun
<1>. QED
  BY <1>1, ForwardTypesAtFirst, ForwardTypesKept, ScoredWellKept, TimelineKept, PTL
  DEF ForwardSpec

\* Ledger, NAV history, signals and the run in flight keep their shape.
THEOREM TrackTypes == ForwardSpec => []ForwardTypeOK
  BY TrackAlways, PTL DEF ForwardTypes

\* The row the timeline draws of a day is the last one written on it.
LEMMA TimelineShowsLast ==
    ASSUME NEW rows \in Seq(TrackRows), NEW d \in DOMAIN BiasTimeline(rows)
    PROVE  LET last == Max({i \in DOMAIN rows : rows[i].run = d})
           IN  BiasTimeline(rows)[d] = IF rows[last].bias = "none" THEN "NEUTRAL"
                                       ELSE rows[last].bias
<1>. DEFINE written == {i \in DOMAIN rows : rows[i].run = d}
            last == Max(written)
            drawn == CHOOSE i \in LatestPerKey(rows) : rows[i].run = d
<1>1. PICK i \in LatestPerKey(rows) : rows[i].run = d
  BY DEF BiasTimeline
<1>2. drawn \in LatestPerKey(rows) /\ rows[drawn].run = d
  BY <1>1
<1>3. BiasTimeline(rows)[d] = IF rows[drawn].bias = "none" THEN "NEUTRAL" ELSE rows[drawn].bias
  BY DEF BiasTimeline
<1>. HIDE DEF drawn
<1>4. drawn \in written /\ \A j \in written : j <= drawn
  BY <1>2 DEF LatestPerKey
<1>5. Len(rows) \in Nat /\ \A j \in written : j \in 0..Len(rows) /\ j \in Int
  OBVIOUS
<1>. HIDE DEF written
<1>6. last \in written /\ \A j \in written : j <= last
  <2>1. written \subseteq 0..Len(rows) /\ written # {}
    BY <1>4, <1>5
  <2>. QED
    BY <1>5, <2>1, MaxIs
<1>. HIDE DEF last
<1>7. drawn = last
  BY <1>4, <1>5, <1>6
<1>. QED
  BY <1>3, <1>7 DEF last, written

\* A report is scored over NAVs that were unknown when its signals were given,
\* by one engine and over whole windows, and its timeline shows of every day
\* what was written last, for any horizon and calendar, and through every kill,
\* rerun and release.
THEOREM TrackRecordHolds == ForwardSpec => []TrackRecordIsHonest
<1>1. ForwardTypes /\ ScoredWell /\ TimelineIsLedger => TrackRecordIsHonest
  <2>. SUFFICES ASSUME ForwardTypes, ScoredWell, TimelineIsLedger PROVE TrackRecordIsHonest
    OBVIOUS
  <2>1. ScoresAreOutOfSample
    <3>. SUFFICES ASSUME NEW s \in scored, NEW d \in ledger[s.row].known, d >= s.entry
                  PROVE  FALSE
      BY DEF ScoresAreOutOfSample
    <3>1. s.row \in DOMAIN ledger /\ s.entry \in Int /\ s.entry > ledger[s.row].run
      BY DEF ScoredWell
    <3>2. ledger[s.row] \in TrackRows
      BY <3>1 DEF ForwardTypes
    <3>3. ledger[s.row].run \in 1..LastRunDay /\ ledger[s.row].known \subseteq NavDays
      BY <3>2 DEF TrackRows
    <3>4. ledger[s.row].run \in Int
      BY <3>3, ForwardAssumption
    <3>6. d \in Int
      <4>1. d \in NavDays
        BY <3>3
      <4>2. NavDays \subseteq 1..LastRunDay /\ LastRunDay \in Int
        BY ForwardAssumption
      <4>. QED
        BY <4>1, <4>2
    <3>5. d <= ledger[s.row].run
      BY <3>1 DEF ForwardTypes
    <3>. QED
      BY <3>1, <3>4, <3>5, <3>6
  <2>2. \A s, t \in scored : ledger[s.row].engine = ledger[t.row].engine
    BY DEF ScoredWell
  <2>3. \A s \in scored :
           Cardinality({d \in navHistory : d >= s.entry /\ d <= s.outcome}) >= Horizon + 1
    BY DEF ScoredWell, Window
  <2>4. ASSUME NEW d \in DOMAIN timeline, monitorRun.at = "outputs"
        PROVE  LET last == Max({i \in DOMAIN ledger : ledger[i].run = d})
               IN  timeline[d] = IF ledger[last].bias = "none" THEN "NEUTRAL"
                                 ELSE ledger[last].bias
    <3>1. timeline = BiasTimeline(ledger) /\ ledger \in Seq(TrackRows)
      BY <2>4 DEF TimelineIsLedger, ForwardTypes
    <3>. QED
      BY <3>1, TimelineShowsLast
  <2>. QED
    BY <2>1, <2>2, <2>3, <2>4 DEF TrackRecordIsHonest
<1>. QED
  BY <1>1, TrackAlways, PTL

-----------------------------------------------------------------------------
(* The pages.                                                              *)

LEMMA NotifyFacts ==
    /\ NotifyDays \subseteq Nat \ {0} /\ FirstNotifyDay \in NotifyDays
    /\ LastNotifyDay \in Nat /\ FirstNotifyDay \in Nat \ {0}
  BY NotifyAssumption DEF NotifyDays

\* What a decision comes to.
Blameless(o) ==
    /\ o.output = TRUE /\ o.unreadable = FALSE /\ o.rc = 0 /\ o.halted = FALSE /\ o.stale = FALSE
    /\ o.sells = 0 /\ o.buys = 0 /\ o.promotions = 0
Outcome(o) ==
    /\ o.output \in BOOLEAN /\ o.unreadable \in BOOLEAN /\ o.halted \in BOOLEAN
    /\ o.stale \in BOOLEAN /\ o.sells \in {NoCount, 0, 1} /\ o.buys \in 0..1
    /\ o.promotions \in 0..1 /\ o.force \in BOOLEAN

LEMMA CleanIs ==
    ASSUME NEW o, Outcome(o), NEW onClean \in BOOLEAN
    PROVE  LET d == ClassifyRunOutcome(o, onClean)
           IN  /\ d.severity = "clean" => Blameless(o) /\ ~HasWarnings(o.health)
               /\ Blameless(o) /\ ~HasWarnings(o.health) => d.severity = "clean"
               /\ d.notify = (o.force \/ d.severity # "clean" \/ onClean)
<1>. DEFINE base == Decide(o)
            d == ClassifyRunOutcome(o, onClean)
<1>1. d.severity = ApplyHealth(o, base) /\ d.notify = (o.force \/ d.severity # "clean" \/ onClean)
  BY DEF ClassifyRunOutcome
<1>2. base = "clean" => Blameless(o)
  BY DEF Decide, Blameless, Outcome, NoCount
<1>3. Blameless(o) => base = "clean"
  BY DEF Decide, Blameless, Outcome, NoCount
<1>. HIDE DEF base, d
<1>4. ApplyHealth(o, base) = "clean" => base = "clean" /\ ~HasWarnings(o.health)
  BY DEF ApplyHealth
<1>5. base = "clean" /\ ~HasWarnings(o.health) => ApplyHealth(o, base) = "clean"
  BY DEF ApplyHealth
<1>6. /\ d.severity = "clean" => Blameless(o) /\ ~HasWarnings(o.health)
      /\ Blameless(o) /\ ~HasWarnings(o.health) => d.severity = "clean"
  BY <1>1, <1>2, <1>3, <1>4, <1>5
<1>. QED
  BY <1>1, <1>6 DEF d

LEMMA SayIs ==
    ASSUME NEW kind, NEW o, NEW onClean \in BOOLEAN, Outcome(o), Say(kind, o, onClean)
    PROVE  /\ said'.kind = kind /\ said'.outcome = o
           /\ said'.severity = "clean" => Blameless(o) /\ ~HasWarnings(o.health)
           /\ ~said'.notify => said'.severity = "clean"
           /\ said'.notify => said'.sent = Channels \ said'.down
           /\ Blameless(o) /\ ~HasWarnings(o.health) /\ ~o.force /\ ~onClean => said'.sent = {}
<1>. DEFINE d == ClassifyRunOutcome(o, onClean)
<1>1. PICK down \in SUBSET Channels :
        said' = [kind |-> kind, outcome |-> o, severity |-> d.severity,
                 notify |-> d.notify, down |-> down, sent |-> Dispatch(d, down)]
  BY DEF Say
<1>2. /\ d.severity = "clean" => Blameless(o) /\ ~HasWarnings(o.health)
      /\ Blameless(o) /\ ~HasWarnings(o.health) => d.severity = "clean"
      /\ d.notify = (o.force \/ d.severity # "clean" \/ onClean)
  BY CleanIs
<1>. HIDE DEF d
<1>3. /\ said'.kind = kind /\ said'.outcome = o /\ said'.severity = d.severity
      /\ said'.notify = d.notify /\ said'.down = down /\ said'.sent = Dispatch(d, down)
  BY <1>1
<1>4. /\ d.notify => Dispatch(d, down) = Channels \ down
      /\ ~d.notify => Dispatch(d, down) = {}
  BY DEF Dispatch
<1>. QED
  BY <1>2, <1>3, <1>4

NotifyTypes ==
    /\ nday \in NotifyDays /\ radars \in [NotifyDays -> RadarFile]
    /\ newest \in [FlowSymbols -> 0..LastNotifyDay]
    /\ flowFile \in {"readable", "unreadable"}
    /\ DOMAIN chain = {"at", "rc", "rotated", "runs"} /\ chain.rc \in {0, 1, 124}

\* A batch misses too many stocks if it misses more than one in five.
LEMMA PartialIs ==
    ASSUME NEW whole, IsFiniteSet(whole), NEW part, part \subseteq whole
    PROVE  Partial(part, whole) = ~(5 * Cardinality(whole \ part) <= Cardinality(whole))
<1>1. Cardinality(whole \ part) = Cardinality(whole) - Cardinality(whole \cap part)
  BY FS_Difference
<1>2. whole \cap part = part
  OBVIOUS
<1>3. Cardinality(whole) \in Nat /\ Cardinality(part) \in Nat
  BY FS_Subset, FS_CardinalityType
<1>. DEFINE w == Cardinality(whole)
            p == Cardinality(part)
<1>4. Cardinality(whole \ part) = w - p
  BY <1>1, <1>2
<1>. HIDE DEF w, p
<1>5. w \in Nat /\ p \in Nat
  BY <1>3 DEF w, p
<1>6. (100 * p < 80 * w) = ~(5 * (w - p) <= w)
  BY <1>5
<1>. QED
  BY <1>4, <1>6 DEF Partial, w, p

LEMMA StoreIsFinite == IsFiniteSet(InStore) /\ \A d : At(d) \subseteq InStore
<1>1. IsFiniteSet(FlowSymbols) /\ InStore \subseteq FlowSymbols
  BY NotifyAssumption DEF InStore
<1>. QED
  BY <1>1, FS_Subset DEF At

\* Counting the trading days back from a day reaches each of the last four.
OpenBetween(o, d) == {p \in OpenDays : o <= p /\ p <= d}

LEMMA OpenBetweenIsFinite ==
    ASSUME NEW o \in Nat, NEW d \in Nat
    PROVE  IsFiniteSet(OpenBetween(o, d)) /\ Cardinality(OpenBetween(o, d)) \in Nat
<1>1. IsFiniteSet(0..d)
  BY FS_Interval
<1>2. \A p \in OpenDays : p \in Nat
  BY NotifyAssumption
<1>3. OpenBetween(o, d) \subseteq 0..d
  BY <1>2 DEF OpenBetween
<1>. QED
  BY <1>1, <1>3, FS_Subset, FS_CardinalityType

LEMMA RecentDayIs ==
    ASSUME NEW d \in NotifyDays, NEW n \in 1..4
    PROVE  LET o == RecentTradingDay(d, n)
           IN  /\ o \in OpenDays /\ o \in Nat /\ o <= d
               /\ Cardinality(OpenBetween(o, d)) = n
<1>. DEFINE S == {o \in 0..d : Cardinality(OpenBetween(o, d)) >= n}
<1>0. d \in Nat
  BY NotifyFacts
<1>6. \A p \in OpenDays : p \in Nat
  BY NotifyAssumption
<1>1. 0 \in S
  <2>1. OpenBetween(0, d) = {o \in OpenDays : o <= d}
    BY <1>6 DEF OpenBetween
  <2>2. Cardinality(OpenBetween(0, d)) >= 4
    BY <2>1, NotifyAssumption
  <2>3. Cardinality(OpenBetween(0, d)) \in Nat
    BY <1>0, OpenBetweenIsFinite
  <2>. QED
    BY <1>0, <2>2, <2>3
<1>. DEFINE m == Max(S)
<1>2. m \in S /\ \A o \in S : o <= m
  <2>1. S \subseteq 0..d /\ S # {}
    BY <1>1
  <2>. HIDE DEF S
  <2>. QED
    BY <1>0, <2>1, MaxIs
<1>. HIDE DEF m
<1>3. m \in Nat /\ m <= d /\ Cardinality(OpenBetween(m, d)) >= n
  BY <1>0, <1>2
<1>4. /\ IsFiniteSet(OpenBetween(m, d)) /\ Cardinality(OpenBetween(m, d)) \in Nat
      /\ IsFiniteSet(OpenBetween(m + 1, d)) /\ Cardinality(OpenBetween(m + 1, d)) \in Nat
  <2>1. m + 1 \in Nat
    BY <1>3
  <2>. QED
    BY <1>0, <1>3, <2>1, OpenBetweenIsFinite
<1>5. Cardinality(OpenBetween(m + 1, d)) < n
  <2>1. CASE m + 1 \in 0..d
    BY <1>2, <1>3, <1>4, <2>1
  <2>2. CASE m = d
    <3>1. OpenBetween(m + 1, d) = {}
      BY <1>0, <1>6, <2>2 DEF OpenBetween
    <3>. QED
      BY <3>1, FS_EmptySet
  <2>. QED
    BY <1>0, <1>3, <2>1, <2>2
<1>7. m \in OpenDays
  <2>1. ASSUME m \notin OpenDays PROVE OpenBetween(m, d) = OpenBetween(m + 1, d)
    BY <1>3, <1>6, <2>1 DEF OpenBetween
  <2>. QED
    BY <1>3, <1>4, <1>5, <2>1
<1>8. Cardinality(OpenBetween(m, d)) = n
  <2>1. OpenBetween(m, d) = OpenBetween(m + 1, d) \cup {m}
    <3>1. \A p \in OpenDays : m <= p <=> (p = m \/ m + 1 <= p)
      BY <1>3, <1>6
    <3>2. m <= d /\ m \in OpenDays
      BY <1>3, <1>7
    <3>. QED
      BY <3>1, <3>2 DEF OpenBetween
  <2>2. m \notin OpenBetween(m + 1, d)
    BY <1>3 DEF OpenBetween
  <2>3. Cardinality(OpenBetween(m, d)) = Cardinality(OpenBetween(m + 1, d)) + 1
    BY <1>4, <2>1, <2>2, FS_AddElement
  <2>. QED
    BY <1>3, <1>4, <1>5, <2>3
<1>9. \E o \in OpenDays : o <= d /\ Cardinality({p \in OpenDays : o <= p /\ p <= d}) = n
  BY <1>3, <1>7, <1>8 DEF OpenBetween
<1>10. /\ RecentTradingDay(d, n) \in OpenDays /\ RecentTradingDay(d, n) <= d
       /\ Cardinality({p \in OpenDays : RecentTradingDay(d, n) <= p /\ p <= d}) = n
  BY <1>9 DEF RecentTradingDay
<1>. QED
  BY <1>6, <1>10 DEF OpenBetween

LEMMA WarningsAre ==
    /\ \A A, B : HasWarnings(A \cup B) <=> HasWarnings(A) \/ HasWarnings(B)
    /\ ~HasWarnings({}) /\ HasWarnings(HealthUnknown)
    /\ \A code : HasWarnings({Warn(code)}) /\ ~HasWarnings({Info(code)})
  BY DEF HasWarnings, Warn, Info, HealthUnknown

WholeCapture ==
    /\ radars[nday] = "ok" /\ flowFile = "readable"
    /\ InStore # {} /\ 5 * Cardinality(InStore \ At(nday)) <= Cardinality(InStore)

LEMMA ChainHealthIs ==
    ASSUME NotifyTypes
    PROVE  HasWarnings(FlowCaptureHealth(nday)) <=> ~WholeCapture
<1>1. radars[nday] \in RadarFile
  BY DEF NotifyTypes
<1>. DEFINE head == IF Recovered(nday) THEN {Info("rotation_recovered")}
                    ELSE RotationHealth(radars[nday])
            tail == CaptureCoverageItems(nday)
<1>2. HasWarnings(head) <=> radars[nday] # "ok"
  <2>1. HasWarnings(RotationHealth(radars[nday])) <=> radars[nday] # "ok"
    BY <1>1, WarningsAre DEF RotationHealth, RadarFile
  <2>2. Recovered(nday) => radars[nday] = "ok"
    BY DEF Recovered
  <2>. QED
    BY <2>1, <2>2, WarningsAre
<1>3. HasWarnings(tail) <=>
        ~(/\ flowFile = "readable" /\ InStore # {}
          /\ 5 * Cardinality(InStore \ At(nday)) <= Cardinality(InStore))
  <2>1. Partial(At(nday), InStore) = ~(5 * Cardinality(InStore \ At(nday)) <= Cardinality(InStore))
    BY StoreIsFinite, PartialIs
  <2>2. flowFile \in {"readable", "unreadable"}
    BY DEF NotifyTypes
  <2>. QED
    BY <2>1, <2>2, WarningsAre DEF CaptureCoverageItems
<1>. HIDE DEF head, tail
<1>4. HasWarnings(head \cup tail) <=> HasWarnings(head) \/ HasWarnings(tail)
  BY WarningsAre
<1>. QED
  BY <1>2, <1>3, <1>4 DEF head, tail, FlowCaptureHealth, WholeCapture

\* The stocks' rows are as young as the reader of the flow is promised.
FlowIsYoung ==
    /\ \A s \in InStore : Cardinality({o \in OpenDays : newest[s] <= o /\ o <= nday}) <= 4
    /\ \/ InStore = {}
       \/ \E s \in InStore : Cardinality({o \in OpenDays : newest[s] < o /\ o <= nday}) <= 1

LEMMA NoFewerDays ==
    ASSUME NEW a \in Nat, NEW b \in Nat, a <= b, NEW d \in Nat
    PROVE  Cardinality(OpenBetween(b, d)) <= Cardinality(OpenBetween(a, d))
<1>1. OpenBetween(b, d) \subseteq OpenBetween(a, d)
  <2>1. \A p \in OpenDays : p \in Nat
    BY NotifyAssumption
  <2>. QED
    BY <2>1 DEF OpenBetween
<1>. QED
  BY <1>1, OpenBetweenIsFinite, FS_Subset

LEMMA FlowHealthIs ==
    ASSUME NotifyTypes, ~HasWarnings(FlowItems(nday))
    PROVE  FlowIsYoung
<1>. DEFINE youngest == Max({newest[s] : s \in InStore})
            fourth == RecentTradingDay(nday, 4)
            second == RecentTradingDay(nday, 2)
<1>0. nday \in Nat /\ nday \in NotifyDays /\ \A p \in OpenDays : p \in Nat
  BY NotifyFacts, NotifyAssumption DEF NotifyTypes
<1>1. \A s \in InStore : newest[s] \in 0..LastNotifyDay /\ newest[s] \in Nat
  BY NotifyFacts DEF NotifyTypes, InStore
<1>2. /\ fourth \in Nat /\ Cardinality(OpenBetween(fourth, nday)) = 4
      /\ second \in Nat /\ Cardinality(OpenBetween(second, nday)) = 2
      /\ second \in OpenDays /\ second <= nday
  <2>1. 4 \in 1..4 /\ 2 \in 1..4
    OBVIOUS
  <2>. QED
    BY <1>0, <2>1, RecentDayIs
<1>3. CASE InStore = {}
  BY <1>3 DEF FlowIsYoung
<1>4. CASE InStore # {}
  <2>1. /\ youngest \in {newest[s] : s \in InStore}
        /\ \A s \in InStore : newest[s] <= youngest
    <3>. DEFINE S == {newest[s] : s \in InStore}
    <3>1. S \subseteq 0..LastNotifyDay /\ S # {} /\ \A s \in InStore : newest[s] \in S
      BY <1>1, <1>4
    <3>. HIDE DEF S
    <3>2. Max(S) \in S /\ \A n \in S : n <= Max(S)
      BY <3>1, NotifyFacts, MaxIs
    <3>. QED
      BY <3>1, <3>2 DEF S
  <2>. HIDE DEF fourth, second
  <2>2. /\ {s \in InStore : newest[s] < fourth} = {} \/ At(youngest) = InStore
        /\ ~(youngest < second)
    <3>1. /\ ~({s \in InStore : newest[s] < fourth} # {} /\ At(youngest) # InStore)
          /\ ~(youngest < second)
      BY <1>4, WarningsAre DEF FlowItems, fourth, second
    <3>. QED
      BY <3>1
  <2>. HIDE DEF youngest
  <2>3. youngest \in Nat
    BY <1>1, <2>1
  <2>4. ASSUME NEW s \in InStore
        PROVE  Cardinality({o \in OpenDays : newest[s] <= o /\ o <= nday}) <= 4
    <3>1. fourth <= newest[s] \/ second <= newest[s]
      <4>1. CASE {r \in InStore : newest[r] < fourth} = {}
        BY <1>1, <1>2, <4>1
      <4>2. CASE At(youngest) = InStore
        BY <1>2, <2>2, <2>3, <4>2 DEF At
      <4>. QED
        BY <2>2, <4>1, <4>2
    <3>2. newest[s] \in Nat /\ Cardinality(OpenBetween(newest[s], nday)) \in Nat
      BY <1>0, <1>1, OpenBetweenIsFinite
    <3>3. Cardinality(OpenBetween(newest[s], nday)) <= 4
      <4>1. CASE fourth <= newest[s]
        BY <1>0, <1>2, <3>2, <4>1, NoFewerDays
      <4>2. CASE second <= newest[s]
        <5>1. Cardinality(OpenBetween(newest[s], nday)) <= 2
          BY <1>0, <1>2, <3>2, <4>2, NoFewerDays
        <5>. QED
          BY <3>2, <5>1
      <4>. QED
        BY <3>1, <4>1, <4>2
    <3>. QED
      BY <3>3 DEF OpenBetween
  <2>5. PICK s \in InStore : newest[s] = youngest
    BY <2>1
  <2>6. Cardinality({o \in OpenDays : newest[s] < o /\ o <= nday}) <= 1
    <3>. DEFINE later == {o \in OpenDays : newest[s] < o /\ o <= nday}
    <3>1. second <= newest[s] /\ newest[s] \in Nat
      BY <1>2, <2>2, <2>3, <2>5
    <3>2. later \subseteq OpenBetween(second, nday) \ {second}
      <4>1. \A o \in OpenDays : newest[s] < o => second <= o /\ o # second
        BY <1>0, <1>2, <3>1
      <4>. QED
        BY <4>1 DEF OpenBetween
    <3>3. IsFiniteSet(OpenBetween(second, nday)) /\ second \in OpenBetween(second, nday)
      BY <1>0, <1>2, OpenBetweenIsFinite DEF OpenBetween
    <3>4. /\ IsFiniteSet(OpenBetween(second, nday) \ {second})
          /\ Cardinality(OpenBetween(second, nday) \ {second}) = 1
      BY <1>2, <3>3, FS_RemoveElement
    <3>. HIDE DEF later
    <3>5. Cardinality(later) <= 1
      BY <3>2, <3>4, FS_Subset
    <3>. QED
      BY <3>5 DEF later
  <2>. QED
    BY <2>4, <2>6 DEF FlowIsYoung
<1>. QED
  BY <1>3, <1>4

\* The radars the recovery is read off: today's, and the last before it.
Before(d) == {e \in NotifyDays : e < d /\ radars[e] \in {"unknown", "ok", "abstain", "degraded"}}

LEMMA RecoveredIs ==
    ASSUME NotifyTypes
    PROVE  Recovered(nday) <=>
             /\ radars[nday] = "ok" /\ Before(nday) # {}
             /\ radars[Max(Before(nday))] \in {"abstain", "degraded"}
<1>. DEFINE earlier == Before(nday)
            recent == RecentRadarDays(nday)
<1>0. nday \in NotifyDays /\ nday \in Nat /\ \A e \in NotifyDays : e \in Nat /\ e <= LastNotifyDay
  BY NotifyFacts, NotifyAssumption DEF NotifyTypes, NotifyDays
<1>. SUFFICES ASSUME radars[nday] = "ok"
              PROVE  DetectRotationRecovery(recent) <=>
                       earlier # {} /\ radars[Max(earlier)] \in {"abstain", "degraded"}
  BY DEF Recovered
<1>1. ReadableDays(nday) = earlier \cup {nday} /\ nday \notin earlier
  <2>1. \A e \in NotifyDays :
           radars[e] \notin {"absent", "unreadable"}
               <=> radars[e] \in {"unknown", "ok", "abstain", "degraded"}
    BY DEF NotifyTypes, RadarFile
  <2>2. \A e \in NotifyDays : e <= nday <=> (e < nday \/ e = nday)
    BY <1>0
  <2>3. nday \in ReadableDays(nday)
    BY <1>0 DEF ReadableDays
  <2>4. \A e : e \in ReadableDays(nday) <=> e \in Before(nday) \cup {nday}
    BY <2>1, <2>2, <2>3 DEF ReadableDays, Before
  <2>5. nday \notin Before(nday)
    BY <1>0 DEF Before
  <2>. QED
    BY <2>4, <2>5
<1>2. \A e \in earlier : e \in Nat /\ e < nday
  BY <1>0 DEF Before
<1>. HIDE DEF earlier
<1>3. recent \subseteq earlier \cup {nday} /\ nday \in recent
  <2>1. {x \in ReadableDays(nday) : x > nday} = {}
    BY <1>0, <1>1, <1>2
  <2>2. Cardinality({x \in ReadableDays(nday) : x > nday}) < RadarWindow
    <3>1. 0 < RadarWindow
      BY NotifyAssumption
    <3>. QED
      BY <2>1, <3>1, FS_EmptySet
  <2>. QED
    BY <1>1, <2>2 DEF RecentRadarDays
<1>4. recent \subseteq 0..nday
  BY <1>0, <1>2, <1>3
<1>5. Max(recent) = nday
  <2>. HIDE DEF recent
  <2>1. Max(recent) \in recent /\ nday <= Max(recent)
    BY <1>0, <1>3, <1>4, MaxIs
  <2>2. Max(recent) \in 0..nday
    BY <1>4, <2>1
  <2>. QED
    BY <1>0, <2>1, <2>2
<1>6. CASE earlier = {}
  <2>1. recent = {nday}
    BY <1>3, <1>6
  <2>2. Cardinality(recent) = 1
    BY <2>1, FS_Singleton
  <2>. HIDE DEF recent
  <2>. QED
    BY <1>6, <2>2 DEF DetectRotationRecovery
<1>7. CASE earlier # {}
  <2>. DEFINE m == Max(earlier)
  <2>1. m \in earlier /\ \A e \in earlier : e <= m
    <3>1. earlier \subseteq 0..nday
      BY <1>0, <1>2
    <3>. QED
      BY <1>0, <1>7, <3>1, MaxIs
  <2>. HIDE DEF m
  <2>2. m \in recent
    <3>1. {x \in ReadableDays(nday) : x > m} = {nday}
      BY <1>0, <1>1, <1>2, <2>1
    <3>2. Cardinality({x \in ReadableDays(nday) : x > m}) < RadarWindow
      BY <3>1, FS_Singleton, NotifyAssumption
    <3>. QED
      BY <1>1, <2>1, <3>2 DEF RecentRadarDays
  <2>. HIDE DEF recent
  <2>3. m # nday /\ m \in recent \ {nday} /\ recent \ {nday} \subseteq earlier
    BY <1>1, <1>3, <2>1, <2>2
  <2>4. Max(recent \ {nday}) = m
    <3>. DEFINE others == recent \ {nday}
    <3>1. others \subseteq 0..nday /\ others # {}
      BY <1>4, <2>3
    <3>2. m \in others /\ others \subseteq earlier
      BY <2>3
    <3>. HIDE DEF others
    <3>3. Max(others) \in others /\ m <= Max(others)
      BY <1>0, <3>1, <3>2, MaxIs
    <3>4. Max(others) <= m /\ Max(others) \in Nat /\ m \in Nat
      BY <1>2, <2>1, <3>2, <3>3
    <3>5. Max(others) = m
      BY <3>3, <3>4
    <3>. QED
      BY <3>5 DEF others
  <2>5. Cardinality(recent) >= 2
    <3>1. IsFiniteSet(recent)
      <4>1. IsFiniteSet(0..nday)
        BY <1>0, FS_Interval
      <4>. QED
        BY <1>4, <4>1, FS_Subset
    <3>2. Cardinality({m, nday}) = 2
      <4>1. IsFiniteSet({m}) /\ Cardinality({m}) = 1
        BY FS_Singleton
      <4>2. Cardinality({m} \cup {nday}) = 2
        BY <2>3, <4>1, FS_AddElement
      <4>3. {m} \cup {nday} = {m, nday}
        OBVIOUS
      <4>. QED
        BY <4>2, <4>3
    <3>3. {m, nday} \subseteq recent
      BY <1>3, <2>2
    <3>4. Cardinality({m, nday}) <= Cardinality(recent) /\ Cardinality(recent) \in Nat
      BY <3>1, <3>3, FS_Subset, FS_CardinalityType
    <3>. QED
      BY <3>2, <3>4
  <2>. QED
    BY <1>5, <1>7, <2>4, <2>5 DEF DetectRotationRecovery, IsDegraded, m
<1>. QED
  BY <1>6, <1>7

LEMMA NotifyTypesAtFirst == NotifyInit => NotifyTypes
<1>. SUFFICES ASSUME NotifyInit PROVE NotifyTypes
  OBVIOUS
<1>1. FirstNotifyDay - 1 \in 0..LastNotifyDay /\ 0 \in 0..LastNotifyDay
  BY NotifyAssumption
<1>2. newest \in [FlowSymbols -> 0..LastNotifyDay]
  BY <1>1 DEF NotifyInit
<1>3. radars \in [NotifyDays -> RadarFile]
  BY DEF NotifyInit, RadarFile
<1>. QED
  BY <1>2, <1>3, NotifyFacts DEF NotifyInit, NotifyTypes

LEMMA NotifyTypesKept == NotifyTypes /\ [NotifyNext]_notifyVars => NotifyTypes'
<1>. SUFFICES ASSUME NotifyTypes, [NotifyNext]_notifyVars PROVE NotifyTypes'
  OBVIOUS
<1>. USE DEF NotifyTypes
<1>1. CASE ChainCaptures
  <2>1. /\ UNCHANGED <<nday, radars>> /\ flowFile' \in {flowFile, "readable"}
        /\ chain' = [at |-> "captured", rc |-> 0, rotated |-> "pending", runs |-> chain.runs + 1]
    BY <1>1 DEF ChainCaptures
  <2>2. PICK C \in Captures \cup {{}} : newest' = [s \in FlowSymbols |->
                              IF s \in C THEN nday
                              ELSE IF flowFile = "unreadable" /\ C # {} THEN 0 ELSE newest[s]]
    BY <1>1 DEF ChainCaptures
  <2>3. nday \in 0..LastNotifyDay /\ 0 \in 0..LastNotifyDay
    BY NotifyAssumption DEF NotifyDays
  <2>4. newest' \in [FlowSymbols -> 0..LastNotifyDay]
    BY <2>2, <2>3
  <2>. QED
    BY <2>1, <2>4
<1>2. CASE ChainCaptureFails
  <2>1. PICK rc \in {1, 124} : chain' = [at |-> "captured", rc |-> rc, rotated |-> "pending",
                                        runs |-> chain.runs + 1]
    BY <1>2 DEF ChainCaptureFails
  <2>2. DOMAIN chain' = {"at", "rc", "rotated", "runs"} /\ chain'.rc \in {0, 1, 124}
    BY <2>1
  <2>3. UNCHANGED <<nday, radars, newest, flowFile>>
    BY <1>2 DEF ChainCaptureFails
  <2>. QED
    BY <2>2, <2>3
<1>3. CASE ChainRotates
  <2>1. radars' \in [NotifyDays -> RadarFile]
    BY <1>3 DEF ChainRotates, RadarFile
  <2>2. DOMAIN chain' = DOMAIN chain /\ chain'.rc = chain.rc /\ UNCHANGED <<nday, newest, flowFile>>
    BY <1>3 DEF ChainRotates
  <2>. QED
    BY <2>1, <2>2
<1>4. CASE ChainNotifies
  BY <1>4 DEF ChainNotifies
<1>5. CASE MonitorNotifies \/ WeeklyNotifies
  <2>1. UNCHANGED <<nday, radars, newest, flowFile, chain>>
    BY <1>5, Zenon DEF MonitorNotifies, WeeklyNotifies
  <2>. QED
    BY <2>1
<1>6. CASE NotifyDayTurns
  <2>1. nday' \in NotifyDays
    <3>1. nday' = nday + 1 /\ nday < LastNotifyDay
      BY <1>6 DEF NotifyDayTurns
    <3>2. nday \in FirstNotifyDay..LastNotifyDay /\ LastNotifyDay \in Nat /\ FirstNotifyDay \in Nat
      BY NotifyFacts DEF NotifyDays
    <3>. QED
      BY <3>1, <3>2 DEF NotifyDays
  <2>. QED
    BY <1>6, <2>1 DEF NotifyDayTurns
<1>7. CASE RadarGoesBad
  BY <1>7 DEF RadarGoesBad, RadarFile
<1>8. CASE FlowStoreGoesBad
  BY <1>8 DEF FlowStoreGoesBad
<1>9. CASE UNCHANGED notifyVars
  BY <1>9 DEF notifyVars
<1>. QED
  BY <1>1, <1>2, <1>3, <1>4, <1>5, <1>6, <1>7, <1>8, <1>9 DEF NotifyNext

LEMMA PlainIs ==
    ASSUME NEW rc, NEW output \in BOOLEAN, NEW health, NEW force \in BOOLEAN
    PROVE  /\ Outcome(PlainOutcome(rc, output, health, force))
           /\ PlainOutcome(rc, output, health, force).rc = rc
           /\ PlainOutcome(rc, output, health, force).output = output
           /\ PlainOutcome(rc, output, health, force).health = health
           /\ PlainOutcome(rc, output, health, force).force = force
           /\ Blameless(PlainOutcome(rc, output, health, force)) <=> output = TRUE /\ rc = 0
  BY DEF PlainOutcome, Outcome, Blameless, NoCount

\* A radar of today is the work of a chain of today.
RadarIsOfToday ==
    /\ chain.runs \in Nat /\ (chain.at # "idle" => chain.runs # 0)
    /\ chain.at = "captured" => chain.rotated = "pending"
    /\ chain.at = "rotated" => chain.rotated \in {"ran", "died"}
    /\ \A d \in NotifyDays : d > nday => radars[d] = "absent"
    /\ chain.runs = 0 \/ (chain.runs = 1 /\ chain.rotated # "ran") => radars[nday] = "absent"

LEMMA RadarIsOfTodayAtFirst == NotifyInit => RadarIsOfToday
<1>. SUFFICES ASSUME NotifyInit PROVE RadarIsOfToday
  OBVIOUS
<1>1. chain.at = "idle" /\ chain.runs = 0 /\ nday \in NotifyDays
  BY NotifyFacts DEF NotifyInit
<1>2. \A d \in NotifyDays : radars[d] = "absent"
  BY DEF NotifyInit
<1>. QED
  BY <1>1, <1>2 DEF RadarIsOfToday

LEMMA RadarIsOfTodayKept ==
    NotifyTypes /\ RadarIsOfToday /\ [NotifyNext]_notifyVars => RadarIsOfToday'
<1>. SUFFICES ASSUME NotifyTypes, RadarIsOfToday, [NotifyNext]_notifyVars PROVE RadarIsOfToday'
  OBVIOUS
<1>. USE DEF RadarIsOfToday
<1>1. CASE ChainCaptures \/ ChainCaptureFails
  <2>1. PICK rc \in {0, 1, 124} :
           chain' = [at |-> "captured", rc |-> rc, rotated |-> "pending", runs |-> chain.runs + 1]
    <3>1. CASE ChainCaptures
      BY <3>1 DEF ChainCaptures
    <3>2. CASE ChainCaptureFails
      BY <3>2 DEF ChainCaptureFails
    <3>. QED
      BY <1>1, <3>1, <3>2
  <2>2. chain'.at = "captured" /\ chain'.rotated = "pending" /\ chain'.runs = chain.runs + 1
    BY <2>1
  <2>3. UNCHANGED <<nday, radars>>
    BY <1>1 DEF ChainCaptures, ChainCaptureFails
  <2>4. chain.runs + 1 > 0 /\ chain.runs + 1 # 0 /\ (chain.runs + 1 = 1 => chain.runs = 0)
        /\ chain.runs + 1 \in Nat
    BY SMTT(30) DEF RadarIsOfToday
  <2>. QED
    BY <2>2, <2>3, <2>4, Zenon
<1>2. CASE ChainRotates
  <2>1. /\ nday' = nday /\ chain'.at = "rotated" /\ chain'.runs = chain.runs /\ chain.runs # 0
        /\ \/ chain'.rotated = "ran" /\ \E s : radars' = [radars EXCEPT ![nday] = s]
           \/ chain'.rotated = "died" /\ radars' = radars
    BY <1>2 DEF ChainRotates, NotifyTypes
  <2>2. nday \in NotifyDays /\ nday \in Nat
    BY NotifyFacts DEF NotifyTypes
  <2>3. CASE chain'.rotated = "ran"
    <3>1. \A d \in NotifyDays : d > nday => radars'[d] = radars[d]
      BY <2>1, <2>2, <2>3, NotifyFacts DEF NotifyTypes
    <3>. QED
      BY <2>1, <2>3, <3>1
  <2>4. CASE chain'.rotated # "ran"
    <3>1. radars' = radars
      BY <2>1, <2>4
    <3>2. chain.at = "captured"
      BY <1>2 DEF ChainRotates
    <3>. QED
      BY <2>1, <3>1, <3>2
  <2>. QED
    BY <2>3, <2>4
<1>3. CASE ChainNotifies
  BY <1>3 DEF ChainNotifies, NotifyTypes
<1>4. CASE MonitorNotifies \/ WeeklyNotifies
  <2>1. UNCHANGED <<nday, radars, chain>>
    BY <1>4, Zenon DEF MonitorNotifies, WeeklyNotifies
  <2>. QED
    BY <2>1
<1>5. CASE NotifyDayTurns
  <2>1. nday' = nday + 1 /\ nday < LastNotifyDay /\ radars' = radars
        /\ chain'.runs = 0 /\ chain'.at = "idle"
    BY <1>5 DEF NotifyDayTurns
  <2>2. nday \in Nat /\ nday' \in NotifyDays /\ NotifyDays \subseteq Nat
    BY <2>1, NotifyFacts DEF NotifyTypes, NotifyDays
  <2>3. \A d \in NotifyDays : d > nday' => d > nday
    BY <2>1, <2>2
  <2>4. radars[nday'] = "absent"
    BY <2>1, <2>2
  <2>. QED
    BY <2>1, <2>3, <2>4
<1>6. CASE RadarGoesBad
  <2>1. PICK d \in NotifyDays, s \in {"unreadable", "unknown"} : radars[d] # "absent" /\ radars' = [radars EXCEPT ![d] = s]
    BY <1>6 DEF RadarGoesBad
  <2>2. \A e \in NotifyDays : radars[e] = "absent" => radars'[e] = "absent"
    BY <2>1 DEF NotifyTypes
  <2>3. UNCHANGED <<nday, chain>> /\ nday \in NotifyDays
    BY <1>6 DEF RadarGoesBad, NotifyTypes
  <2>. QED
    BY <2>2, <2>3
<1>7. CASE FlowStoreGoesBad \/ UNCHANGED notifyVars
  BY <1>7 DEF FlowStoreGoesBad, notifyVars
<1>. QED
  BY <1>1, <1>2, <1>3, <1>4, <1>5, <1>6, <1>7 DEF NotifyNext

LEMMA ChainTells == NotifyTypes /\ RadarIsOfToday /\ ChainNotifies => NotifierKeepsItsWord'
<1>. SUFFICES ASSUME NotifyTypes, RadarIsOfToday, ChainNotifies PROVE NotifierKeepsItsWord'
  OBVIOUS
<1>. DEFINE written == radars[nday] # "absent"
            o == PlainOutcome(chain.rc, written, FlowCaptureHealth(nday), Recovered(nday))
<1>0. /\ UNCHANGED <<nday, radars, newest, flowFile>> /\ chain'.rc = chain.rc
      /\ chain'.rotated = chain.rotated /\ chain'.runs = chain.runs /\ chain.at = "rotated"
      /\ Say("flow-capture", o, FALSE)
  BY DEF ChainNotifies, NotifyTypes
<1>1. written \in BOOLEAN /\ Recovered(nday) \in BOOLEAN
  BY DEF Recovered, DetectRotationRecovery
<1>2. /\ Outcome(o) /\ o.health = FlowCaptureHealth(nday) /\ o.force = Recovered(nday)
      /\ Blameless(o) <=> written = TRUE /\ chain.rc = 0
  <2>. HIDE DEF written
  <2>1. Blameless(o) <=> written = TRUE /\ chain.rc = 0
    BY <1>1, PlainIs
  <2>2. Outcome(o)
    BY <1>1, PlainIs
  <2>. DEFINE health == FlowCaptureHealth(nday)
              force == Recovered(nday)
  <2>. HIDE DEF health, force
  <2>3. o = PlainOutcome(chain.rc, written, health, force)
    BY DEF o, health, force
  <2>4. o.health = health /\ o.force = force
    BY <2>3 DEF PlainOutcome
  <2>. QED
    BY <2>1, <2>2, <2>4 DEF health, force
<1>. HIDE DEF o, written
<1>3. /\ said'.kind = "flow-capture" /\ said'.outcome = o
      /\ said'.severity = "clean" => Blameless(o) /\ ~HasWarnings(o.health)
      /\ ~said'.notify => said'.severity = "clean"
      /\ said'.notify => said'.sent = Channels \ said'.down
      /\ Blameless(o) /\ ~HasWarnings(o.health) /\ ~o.force => said'.sent = {}
  BY <1>0, <1>2, SayIs
<1>4. HasWarnings(o.health) <=> ~WholeCapture
  BY <1>2, ChainHealthIs
<1>5. FilesAreWell' <=> chain.rc = 0 /\ WholeCapture
  BY <1>0 DEF FilesAreWell, WholeCapture, InStore, At
<1>6. WholeCapture => written = TRUE
  BY DEF WholeCapture, written
<1>7. SilenceMeansWell'
  <2>1. said'.severity = "clean" => FilesAreWell'
    BY <1>2, <1>3, <1>4, <1>5
  <2>2. chain'.rotated = "ran" \/ (chain'.rotated = "died" /\ (FilesAreWell' => chain'.runs > 1))
    BY <1>0, <1>5 DEF RadarIsOfToday, WholeCapture
  <2>. QED
    BY <1>3, <2>1, <2>2 DEF SilenceMeansWell, ChainIsWell, CrashIsMasked
<1>8. PagesArrive'
  BY <1>2, <1>3, <1>4, <1>5, <1>6 DEF PagesArrive
<1>9. RecoveryIsTold'
  <2>1. Before(nday)' = Before(nday)
    BY <1>0 DEF Before
  <2>2. said'.outcome.force <=>
           /\ radars[nday] = "ok" /\ Before(nday) # {}
           /\ radars[Max(Before(nday))] \in {"abstain", "degraded"}
    BY <1>2, <1>3, RecoveredIs
  <2>. QED
    BY <1>0, <2>2 DEF RecoveryIsTold, Before
<1>. QED
  BY <1>7, <1>8, <1>9 DEF NotifierKeepsItsWord, SilenceIsEarned

LEMMA MonitorTells == NotifyTypes /\ MonitorNotifies => NotifierKeepsItsWord'
<1>. SUFFICES ASSUME NotifyTypes, MonitorNotifies PROVE NotifierKeepsItsWord'
  OBVIOUS
<1>0. PICK rc \in {0, 1, 124}, written \in BOOLEAN, onClean \in BOOLEAN :
        \E trace \in [shape : {"good"}, pe : {"FRESH", "STALE", "DARK"}, signals : {"ok", "not ok"}]
                     \cup {[shape |-> "bad"]} :
           Say("monitor", PlainOutcome(rc, written, MonitorHealth(trace, nday), FALSE), onClean)
  BY DEF MonitorNotifies
<1>1. PICK trace :
        Say("monitor", PlainOutcome(rc, written, MonitorHealth(trace, nday), FALSE), onClean)
  BY <1>0
<1>2. UNCHANGED <<nday, newest, flowFile>>
  BY DEF MonitorNotifies
<1>. DEFINE o == PlainOutcome(rc, written, MonitorHealth(trace, nday), FALSE)
<1>3. /\ Outcome(o) /\ o.health = MonitorHealth(trace, nday) /\ o.rc = rc /\ o.output = written
      /\ Blameless(o) <=> written = TRUE /\ rc = 0
  <2>. DEFINE health == MonitorHealth(trace, nday)
  <2>. DEFINE code == rc
              output == written
              force == FALSE
              plain == PlainOutcome(code, output, health, force)
  <2>0. force \in BOOLEAN /\ output \in BOOLEAN
    OBVIOUS
  <2>. HIDE DEF health, force, code, output, o
  <2>1. /\ Outcome(plain) /\ plain.health = health /\ plain.rc = code /\ plain.output = output
        /\ Blameless(plain) <=> output = TRUE /\ code = 0
    <3>1. Outcome(plain)
      BY <2>0, PlainIs
    <3>2. plain.health = health
      BY DEF PlainOutcome
    <3>3. plain.rc = code
      BY DEF PlainOutcome
    <3>4. plain.output = output
      BY DEF PlainOutcome
    <3>5. Blameless(plain) <=> output = TRUE /\ code = 0
      BY <2>0, PlainIs
    <3>. QED
      BY <3>1, <3>2, <3>3, <3>4, <3>5
  <2>2. o = plain
    BY DEF o, health, force, code, output
  <2>. HIDE DEF plain
  <2>. QED
    BY <2>1, <2>2 DEF health, code, output
<1>4. Say("monitor", o, onClean)
  BY <1>1
<1>. HIDE DEF o
<1>5. /\ said'.kind = "monitor" /\ said'.outcome = o
      /\ said'.severity = "clean" => Blameless(o) /\ ~HasWarnings(o.health)
      /\ ~said'.notify => said'.severity = "clean"
      /\ said'.notify => said'.sent = Channels \ said'.down
  BY <1>3, <1>4, SayIs
<1>6. ~HasWarnings(MonitorHealth(trace, nday)) =>
         flowFile = "readable" /\ ~HasWarnings(FlowItems(nday))
  <2>. DEFINE first == IF trace.shape = "bad" THEN HealthUnknown
                       ELSE (CASE trace.pe = "DARK"  -> {Warn("board_pe_dark")}
                               [] trace.pe = "STALE" -> {Info("board_pe_stale")}
                               [] OTHER -> {})
                            \cup (IF flowFile = "readable" THEN FlowItems(nday) ELSE {})
                            \cup (IF trace.signals = "not ok" THEN {Warn("signal_not_ok")} ELSE {})
              last == IF flowFile = "unreadable" THEN HealthUnknown ELSE {}
  <2>1. MonitorHealth(trace, nday) = first \cup last
    BY DEF MonitorHealth
  <2>2. ~HasWarnings(last) => flowFile = "readable"
    BY WarningsAre DEF NotifyTypes
  <2>3. flowFile = "readable" /\ ~HasWarnings(first) => ~HasWarnings(FlowItems(nday))
    <3>. SUFFICES ASSUME flowFile = "readable", ~HasWarnings(first)
                  PROVE  ~HasWarnings(FlowItems(nday))
      OBVIOUS
    <3>1. trace.shape # "bad"
      BY WarningsAre
    <3>. DEFINE pe == CASE trace.pe = "DARK"  -> {Warn("board_pe_dark")}
                        [] trace.pe = "STALE" -> {Info("board_pe_stale")}
                        [] OTHER -> {}
                rest == IF trace.signals = "not ok" THEN {Warn("signal_not_ok")} ELSE {}
    <3>2. first = pe \cup FlowItems(nday) \cup rest
      BY <3>1
    <3>. HIDE DEF first, pe, rest
    <3>. QED
      BY <3>2, WarningsAre
  <2>. HIDE DEF first, last
  <2>4. HasWarnings(first \cup last) <=> HasWarnings(first) \/ HasWarnings(last)
    BY WarningsAre
  <2>. QED
    BY <2>1, <2>2, <2>3, <2>4
<1>7. ~HasWarnings(FlowItems(nday)) => FlowIsYoung'
  <2>1. ~HasWarnings(FlowItems(nday)) => FlowIsYoung
    BY FlowHealthIs
  <2>. QED
    BY <1>2, <2>1 DEF FlowIsYoung, InStore
<1>8. SilenceMeansWell'
  <2>1. said'.severity = "clean" => MonitorIsWell'
    BY <1>2, <1>3, <1>5, <1>6, <1>7 DEF MonitorIsWell, FlowIsYoung
  <2>. QED
    BY <1>5, <2>1 DEF SilenceMeansWell
<1>9. PagesArrive' /\ RecoveryIsTold'
  BY <1>5 DEF PagesArrive, RecoveryIsTold
<1>. QED
  BY <1>8, <1>9 DEF NotifierKeepsItsWord, SilenceIsEarned

LEMMA WeeklyTells == NotifyTypes /\ WeeklyNotifies => NotifierKeepsItsWord'
<1>. SUFFICES ASSUME NotifyTypes, WeeklyNotifies PROVE NotifierKeepsItsWord'
  OBVIOUS
<1>0. PICK rc \in {0, 5, 124}, dir \in BOOLEAN, marks \in SUBSET {"halted", "stale"},
           report \in Reports, gold \in {"bad", "old", "some", "fresh"}, onClean \in BOOLEAN :
        IF dir /\ report.file = "misshapen"
        THEN DieBeforeSaying("weekly", WeeklyOutcome(rc, dir, marks, report, gold))
        ELSE Say("weekly", WeeklyOutcome(rc, dir, marks, report, gold), onClean)
  BY DEF WeeklyNotifies
<1>. DEFINE o == WeeklyOutcome(rc, dir, marks, report, gold)
<1>1. Outcome(o)
  <2>1. /\ report.sells \in {NoCount, 0, 1} /\ report.buys \in 0..1 /\ report.promotions \in 0..1
    BY DEF Reports
  <2>2. CASE ~dir
    BY <2>2, PlainIs DEF WeeklyOutcome
  <2>3. CASE dir
    <3>. DEFINE halted == "halted" \in marks
                stale == "stale" \in marks
                unreadable == report.file = "unreadable"
    <3>1. /\ o.output = TRUE /\ o.unreadable = unreadable /\ o.halted = halted /\ o.stale = stale
          /\ o.sells = report.sells /\ o.buys = report.buys /\ o.promotions = report.promotions
          /\ o.force = FALSE
      BY <2>3 DEF WeeklyOutcome
    <3>2. halted \in BOOLEAN /\ stale \in BOOLEAN /\ unreadable \in BOOLEAN
      OBVIOUS
    <3>. HIDE DEF o, halted, stale, unreadable
    <3>. QED
      BY <2>1, <3>1, <3>2 DEF Outcome
  <2>. QED
    BY <2>2, <2>3
<1>. HIDE DEF o
<1>2. Say("weekly", o, onClean) \/ DieBeforeSaying("weekly", o)
  BY <1>0 DEF o
<1>3. /\ said'.kind = "weekly" /\ said'.outcome = o
      /\ said'.severity = "clean" => Blameless(o)
      /\ ~said'.notify => said'.severity \in {"clean", "died"}
      /\ said'.notify => said'.sent = Channels \ said'.down
  <2>1. CASE Say("weekly", o, onClean)
    BY <1>1, <2>1, SayIs
  <2>2. CASE DieBeforeSaying("weekly", o)
    BY <2>2 DEF DieBeforeSaying
  <2>. QED
    BY <1>2, <2>1, <2>2
<1>4. SilenceMeansWell'
  BY <1>3 DEF SilenceMeansWell, WeeklyIsWell, Blameless
<1>5. PagesArrive' /\ RecoveryIsTold'
  BY <1>3 DEF PagesArrive, RecoveryIsTold
<1>. QED
  BY <1>4, <1>5 DEF NotifierKeepsItsWord, SilenceIsEarned

\* A wrapper is silent only of a run that was well, by its files and not by its
\* exit codes alone, of a rotation that died behind the radar of an earlier chain
\* of the day, and when notify-status itself dies of a misshapen report; a page
\* reaches every channel that works; and a recovery of the radar is told when the
\* last radar anybody could read was degraded, for any stocks, calendar, failures
\* and files gone bad.
THEOREM PagesAreEarned == NotifySpec => []NotifierKeepsItsWord
<1>. DEFINE NotifyInv == NotifyTypes /\ RadarIsOfToday /\ NotifierKeepsItsWord
<1>1. said.kind = "none" => NotifierKeepsItsWord
  BY DEF NotifierKeepsItsWord, SilenceIsEarned, SilenceMeansWell, PagesArrive, RecoveryIsTold
<1>2. NotifyInit => NotifyInv
  <2>. SUFFICES ASSUME NotifyInit PROVE NotifyInv
    OBVIOUS
  <2>1. said.kind = "none"
    BY DEF NotifyInit, NoPage
  <2>2. NotifierKeepsItsWord
    BY <1>1, <2>1
  <2>. QED
    BY <2>2, NotifyTypesAtFirst, RadarIsOfTodayAtFirst
<1>3. NotifyInv /\ [NotifyNext]_notifyVars => NotifyInv'
  <2>. SUFFICES ASSUME NotifyInv, [NotifyNext]_notifyVars PROVE NotifyInv'
    OBVIOUS
  <2>1. CASE ChainNotifies \/ MonitorNotifies \/ WeeklyNotifies
    BY <2>1, NotifyTypesKept, RadarIsOfTodayKept, ChainTells, MonitorTells, WeeklyTells
  <2>2. CASE said' = NoPage
    <3>1. said'.kind = "none"
      BY <2>2 DEF NoPage
    <3>2. NotifierKeepsItsWord'
      BY <3>1 DEF NotifierKeepsItsWord, SilenceIsEarned, SilenceMeansWell, PagesArrive,
                  RecoveryIsTold
    <3>. QED
      BY <3>2, NotifyTypesKept, RadarIsOfTodayKept
  <2>3. CASE UNCHANGED notifyVars
    <3>1. NotifierKeepsItsWord'
      BY <2>3 DEF notifyVars, NotifierKeepsItsWord, SilenceIsEarned, SilenceMeansWell, PagesArrive,
                  RecoveryIsTold, ChainIsWell, CrashIsMasked, FilesAreWell, MonitorIsWell,
                  WeeklyIsWell, InStore, At
    <3>. QED
      BY <3>1, NotifyTypesKept, RadarIsOfTodayKept
  <2>4. NotifyNext => ChainNotifies \/ MonitorNotifies \/ WeeklyNotifies \/ said' = NoPage
    BY DEF NotifyNext, ChainCaptures, ChainCaptureFails, ChainRotates, NotifyDayTurns,
           RadarGoesBad, FlowStoreGoesBad
  <2>. QED
    BY <2>1, <2>2, <2>3, <2>4
<1>. QED
  BY <1>2, <1>3, PTL DEF NotifySpec
=============================================================================
