------------------------------ MODULE ForwardScore ------------------------------
(***************************************************************************)
(* The monitor's track record of one fund: what each `irc monitor` appends *)
(* to forward_ledger.jsonl and nav_history.jsonl, how the inline scorer    *)
(* joins the two, and what the report shows of the days before.  A run is  *)
(* killed between any two of its writes; the wrapper then runs again, for  *)
(* monitor.json is written last, and a run by hand asks nobody.            *)
(***************************************************************************)
EXTENDS Integers, FiniteSets, Sequences, SequencesExt, FiniteSetsExt

CONSTANTS
    LastRunDay,    \* bounds the days
    NavDays,       \* the days the fund has a NAV for
    Horizon,       \* FORWARD_H
    NavAppendDays, \* NAV_APPEND_DAYS
    TimelineDays,  \* _TIMELINE_MAX_DATES
    Engines,       \* the engine versions, in the order they are released
    Biases3,       \* what a signal may say, "none" for a signal that is not ok
    MaxForwardRuns \* bounds the runs

ASSUME ForwardAssumption ==
    /\ LastRunDay \in Nat \ {0} /\ NavDays \subseteq 1 .. LastRunDay
    /\ Horizon \in Nat \ {0} /\ NavAppendDays \in Nat /\ TimelineDays \in Nat \ {0}
    /\ Engines \subseteq Nat /\ Engines # {} /\ "none" \in Biases3
    /\ MaxForwardRuns \in Nat

VARIABLES
    runDay,        \* the day it is
    published,     \* the days whose NAV the source has published
    navHistory,    \* the days in nav_history.jsonl
    ledger,        \* the rows of forward_ledger.jsonl, in the order written
    engineVersion, \* _ENGINE_VERSION of the code installed
    sentinel,      \* whether today's monitor.json is there
    signals,       \* day -> the bias in its signal.json
    scored,        \* the rows of the scorer's last report
    monitorRun,    \* the run in flight
    timeline,      \* the bias timeline of the last report
    forwardRuns

forwardVars == <<runDay, published, navHistory, ledger, engineVersion, sentinel,
                 signals, scored, monitorRun, timeline, forwardRuns>>

NoRun == [at |-> "off", known |-> {}, bias |-> "none", prior |-> 0]
NoDays == [d \in {} |-> "none"]

ForwardInit ==
    /\ runDay = 1 /\ published = {} /\ navHistory = {} /\ ledger = <<>>
    /\ engineVersion = Min(Engines)
    /\ sentinel = FALSE /\ signals = NoDays /\ scored = {}
    /\ monitorRun = NoRun /\ timeline = NoDays /\ forwardRuns = 0
-----------------------------------------------------------------------------
(* The pure scorer.                                                        *)

AfterOrOn(d, anchor) == d >= anchor
After(d, anchor) == d > anchor
FirstAfter(series, anchor) == {d \in series : After(d, anchor)}

\* The NAV the trade would have been entered at and the one it is judged at:
\* the first day after the run, and the one Horizon observations later.
EntryOutcome(series, anchor, today) ==
    LET later == FirstAfter(series, anchor)
        nth(n) == {d \in later : Cardinality({e \in later : e < d}) = n}
    IN  IF later = {} THEN [reason |-> "no_entry_obs", entry |-> 0, outcome |-> 0]
        ELSE IF nth(Horizon) = {} \/ Max(nth(Horizon)) > today
        THEN [reason |-> "not_matured", entry |-> Min(later), outcome |-> 0]
        ELSE [reason |-> "ok", entry |-> Min(later), outcome |-> Max(nth(Horizon))]

\* Rows of an older engine, and rows without a NAV, are not scored.
TargetEngine(rows) == Max({rows[i].engine : i \in DOMAIN rows})
Prefiltered(rows) ==
    {i \in DOMAIN rows : /\ rows[i].engine = TargetEngine(rows)
                         /\ rows[i].asOf # 0 /\ rows[i].asOf <= rows[i].run}

ScoreForward(rows, series, today) ==
    {[row |-> i, run |-> rows[i].run, bias |-> rows[i].bias,
      entry |-> EntryOutcome(series, rows[i].run, today).entry,
      outcome |-> EntryOutcome(series, rows[i].run, today).outcome] :
        i \in {j \in Prefiltered(rows) :
                 EntryOutcome(series, rows[j].run, today).reason = "ok"}}

\* One row per run day, the last one written.
FirstPerKey(rows) ==
    {i \in DOMAIN rows : \A j \in DOMAIN rows : rows[j].run = rows[i].run => j >= i}
LatestPerKey(rows) ==
    {i \in DOMAIN rows : \A j \in DOMAIN rows : rows[j].run = rows[i].run => j <= i}

\* A signal that is not ok is drawn as NEUTRAL.
BiasTimeline(rows) ==
    LET latest == LatestPerKey(rows)
        days   == {rows[i].run : i \in latest}
        shown  == {d \in days : Cardinality({e \in days : e > d}) < TimelineDays}
        row(d) == CHOOSE i \in latest : rows[i].run = d
    IN  [d \in shown |-> IF rows[row(d)].bias = "none" THEN "NEUTRAL" ELSE rows[row(d)].bias]
-----------------------------------------------------------------------------
(* The world.                                                              *)

PublishNav ==
    /\ \E d \in {e \in NavDays \ published : e <= runDay} :
          /\ \A e \in NavDays : e < d => e \in published
          /\ published' = published \cup {d}
    /\ UNCHANGED <<runDay, navHistory, ledger, engineVersion, sentinel, signals, scored,
                   monitorRun, timeline, forwardRuns>>

\* A run that crosses midnight is not modelled.
NextRunDay ==
    /\ monitorRun.at = "off" /\ runDay < LastRunDay
    /\ runDay' = runDay + 1 /\ sentinel' = FALSE
    /\ UNCHANGED <<published, navHistory, ledger, engineVersion, signals, scored,
                   monitorRun, timeline, forwardRuns>>

Release ==
    /\ monitorRun.at = "off"
    /\ \E v \in Engines : /\ v > engineVersion
                          /\ \A w \in Engines : w > engineVersion => v <= w
                          /\ engineVersion' = v
    /\ UNCHANGED <<runDay, published, navHistory, ledger, sentinel, signals, scored,
                   monitorRun, timeline, forwardRuns>>
-----------------------------------------------------------------------------
(* `irc monitor`, from the NAV it fetched to its last output.              *)

\* By the wrapper unless today's monitor.json is there, or by hand.
StartMonitor ==
    /\ monitorRun.at = "off" /\ forwardRuns < MaxForwardRuns
    /\ forwardRuns' = forwardRuns + 1
    /\ \E byHand \in BOOLEAN, known \in {published, {}}, bias \in Biases3 :
          /\ byHand \/ ~sentinel
          /\ monitorRun' = [at |-> "ledger", known |-> known,
                            bias |-> IF known = {} THEN "none" ELSE bias,
                            prior |-> Max({0} \cup (DOMAIN signals \ {runDay}))]
    /\ UNCHANGED <<runDay, published, navHistory, ledger, engineVersion, sentinel,
                   signals, scored, timeline>>

LedgerRow(r) == [run |-> runDay, bias |-> r.bias, engine |-> engineVersion,
                 asOf |-> Max({0} \cup r.known), known |-> r.known]

\* The two appends are best effort: a failure is logged and the run goes on.
AppendForwardRow ==
    /\ monitorRun.at = "ledger"
    /\ ledger' \in {ledger, Append(ledger, LedgerRow(monitorRun))}
    /\ monitorRun' = [monitorRun EXCEPT !.at = "nav"]
    /\ UNCHANGED <<runDay, published, navHistory, engineVersion, sentinel, signals, scored,
                   timeline, forwardRuns>>

NavTail(known) == {d \in known : d >= runDay - NavAppendDays}

AppendNavHistory ==
    /\ monitorRun.at = "nav"
    /\ navHistory' \in {navHistory, navHistory \cup NavTail(monitorRun.known)}
    /\ monitorRun' = [monitorRun EXCEPT !.at = "eval"]
    /\ UNCHANGED <<runDay, published, ledger, engineVersion, sentinel, signals, scored,
                   timeline, forwardRuns>>

\* Without either file the scorer reports that it has no input.
RunForwardEval ==
    /\ monitorRun.at = "eval"
    /\ scored' = IF ledger = <<>> \/ navHistory = {} THEN {}
                 ELSE ScoreForward(ledger, navHistory, runDay)
    /\ timeline' = BiasTimeline(ledger)
    /\ monitorRun' = [monitorRun EXCEPT !.at = "outputs"]
    /\ UNCHANGED <<runDay, published, navHistory, ledger, engineVersion, sentinel, signals,
                   forwardRuns>>

\* report.html, signal.json, ..., monitor.json, in that order.
WriteSignal ==
    /\ monitorRun.at = "outputs"
    /\ signals' = [d \in DOMAIN signals \cup {runDay} |->
                      IF d = runDay THEN monitorRun.bias ELSE signals[d]]
    /\ monitorRun' = [monitorRun EXCEPT !.at = "sentinel"]
    /\ UNCHANGED <<runDay, published, navHistory, ledger, engineVersion, sentinel, scored,
                   timeline, forwardRuns>>

WriteSentinel ==
    /\ monitorRun.at = "sentinel"
    /\ sentinel' = TRUE /\ monitorRun' = NoRun
    /\ UNCHANGED <<runDay, published, navHistory, ledger, engineVersion, signals, scored,
                   timeline, forwardRuns>>

KillMonitor ==
    /\ monitorRun.at # "off"
    /\ monitorRun' = NoRun
    /\ UNCHANGED <<runDay, published, navHistory, ledger, engineVersion, sentinel, signals,
                   scored, timeline, forwardRuns>>

ForwardNext ==
    \/ PublishNav \/ NextRunDay \/ Release
    \/ StartMonitor \/ AppendForwardRow \/ AppendNavHistory \/ RunForwardEval
    \/ WriteSignal \/ WriteSentinel \/ KillMonitor

ForwardSpec == ForwardInit /\ [][ForwardNext]_forwardVars
-----------------------------------------------------------------------------
(* Properties                                                              *)

ForwardTypeOK ==
    /\ runDay \in 1 .. LastRunDay /\ navHistory \subseteq published
    /\ published \subseteq NavDays /\ engineVersion \in Engines
    /\ \A i \in DOMAIN ledger : /\ ledger[i].run \in 1 .. runDay
                                /\ ledger[i].bias \in Biases3
                                /\ ledger[i].known \subseteq NavDays
    /\ monitorRun.at \in {"off", "ledger", "nav", "eval", "outputs", "sentinel"}
    /\ DOMAIN signals \subseteq 1 .. runDay /\ forwardRuns \in 0 .. MaxForwardRuns

\* A signal is judged by NAVs nobody could know when it was given: every day of
\* the window it is scored over was unpublished when its row was written, be the
\* row of an evening rerun that already saw that day's NAV (join.py:26).
ScoresAreOutOfSample ==
    \A s \in scored :
        \A d \in navHistory : d >= s.entry /\ d <= s.outcome => d \notin ledger[s.row].known

\* The rows of one report are of one engine, each scored over a window of the NAV
\* history that holds its entry and Horizon observations after it; and the timeline
\* beside them shows of every day what the run that wrote last said, whether it was killed
\* afterwards or not.
TrackRecordIsHonest ==
    /\ ScoresAreOutOfSample
    /\ \A s, t \in scored : ledger[s.row].engine = ledger[t.row].engine
    /\ \A s \in scored :
          Cardinality({d \in navHistory : d >= s.entry /\ d <= s.outcome}) >= Horizon + 1
    /\ \A d \in DOMAIN timeline :
          monitorRun.at = "outputs" =>
              LET last == Max({i \in DOMAIN ledger : ledger[i].run = d})
              IN  timeline[d] = IF ledger[last].bias = "none" THEN "NEUTRAL"
                                ELSE ledger[last].bias

\* A day the monitor ran twice is scored once.
EachDayIsScoredOnce == \A s, t \in scored : s.run = t.run => s = t
=============================================================================
