-------------------------------- MODULE Notify --------------------------------
(***************************************************************************)
(* `irc notify-status', the last thing a launchd wrapper does: it reads    *)
(* what the run left on disk (commands/notify_cmd.py, notify_health.py),   *)
(* judges it (notify/classify.py, notify/health.py) and pages, or not.     *)
(*                                                                         *)
(* The 15:45 chain is modelled over days: the flow capture writes the flow *)
(* store, the rotation writes the radar of the day, the notifier compares  *)
(* today's radar with those of the days before.  Either command may fail,  *)
(* time out or be fooled by a bad batch and still exit 0; either file may  *)
(* be found unreadable.  The tails of the monitor and the weekly wrapper   *)
(* read what their run left, which is any of the outcomes enumerated.      *)
(***************************************************************************)
EXTENDS Integers, FiniteSets, FiniteSetsExt

CONSTANTS
    FirstNotifyDay, LastNotifyDay,  \* the days of the model
    OpenDays,       \* the CN trading days, those before the first included
    FlowSymbols,    \* the stocks the flow store may hold
    Captures,       \* the sets of stocks a batch may answer for
    RadarWindow,    \* notify_health.py, _RECENT_RADAR_DAYS
    Channels,       \* macOS, and Feishu when its URL is set
    MaxChains       \* bound: chains run on one day

NotifyDays == FirstNotifyDay..LastNotifyDay
NoCount == -1                       \* a JSON null: never derived

ASSUME NotifyAssumption ==
    /\ FirstNotifyDay \in Nat \ {0} /\ LastNotifyDay \in Nat /\ FirstNotifyDay <= LastNotifyDay
    /\ IsFiniteSet(FlowSymbols)
    /\ OpenDays \subseteq Nat
    /\ \A d \in NotifyDays : Cardinality({o \in OpenDays : o <= d}) >= 4
    /\ Captures \subseteq SUBSET FlowSymbols
    /\ RadarWindow \in Nat \ {0, 1} /\ MaxChains \in Nat

\* What rotation_radar.json of a day is to its reader.  "unknown" parses but
\* has no data_status.
RadarFile == {"absent", "unreadable", "unknown", "ok", "abstain", "degraded"}

VARIABLES
    nday,       \* today in Shanghai
    radars,     \* the radar file of each day
    newest,     \* the newest row of each stock in the flow store, 0: no row
    flowFile,   \* fund_flow_series.json: "readable" or "unreadable"
    chain,      \* [at, rc, rotated, runs]: the 15:45 chain of today
    said        \* what the last notify-status decided and sent

notifyVars == <<nday, radars, newest, flowFile, chain, said>>

(***************************************************************************)
(* The classifier: notify/classify.py.                                     *)
(***************************************************************************)
Warn(code) == [code |-> code, level |-> "warn"]
Info(code) == [code |-> code, level |-> "info"]
HealthUnknown    == {Warn("health_unknown")}
HasWarnings(items) == \E i \in items : i.level = "warn"

\* A run with nothing to report but its exit code, its output and its health.
PlainOutcome(rc, output, health, force) ==
    [ rc |-> rc, output |-> output, unreadable |-> FALSE, halted |-> FALSE,
      stale |-> FALSE, buys |-> 0, sells |-> 0, promotions |-> 0,
      health |-> health, force |-> force ]

Decide(o) ==
    IF ~o.output \/ o.unreadable \/ o.rc # 0 THEN "failed"
    ELSE IF o.halted THEN "halted"
    ELSE IF o.stale THEN "stale"
    ELSE IF o.sells = NoCount \/ o.buys > 0 \/ o.sells > 0 \/ o.promotions > 0
         THEN "action"
    ELSE "clean"

ApplyHealth(o, base) ==
    IF HasWarnings(o.health) /\ base \in {"clean", "action"} THEN "degraded" ELSE base

ClassifyRunOutcome(o, onClean) ==
    LET severity == ApplyHealth(o, Decide(o))
    IN  [severity |-> severity,
         notify |-> o.force \/ severity # "clean" \/ onClean]

\* Each channel is tried whatever became of the other.
Dispatch(decision, down) ==
    IF decision.notify THEN Channels \ down ELSE {}

Say(kind, o, onClean) ==
    \E down \in SUBSET Channels :
        LET decision == ClassifyRunOutcome(o, onClean)
        IN  said' = [ kind |-> kind, outcome |-> o, severity |-> decision.severity,
                      notify |-> decision.notify, down |-> down,
                      sent |-> Dispatch(decision, down) ]

\* notify-status raises before it decides, and says nothing.
DieBeforeSaying(kind, o) ==
    said' = [ kind |-> kind, outcome |-> o, severity |-> "died",
              notify |-> FALSE, down |-> {}, sent |-> {} ]

(***************************************************************************)
(* The health digests: notify/health.py, commands/notify_health.py.        *)
(***************************************************************************)
InStore == {s \in FlowSymbols : newest[s] > 0}
At(d) == {s \in InStore : newest[s] = d}
Partial(part, whole) == 100 * Cardinality(part) < 80 * Cardinality(whole)

\* The n-th most recent trading day, today the first if it is one.
RecentTradingDay(d, n) ==
    CHOOSE o \in OpenDays :
        o <= d /\ Cardinality({p \in OpenDays : o <= p /\ p <= d}) = n

CaptureCoverageItems(d) ==
    IF flowFile = "unreadable" \/ InStore = {} THEN HealthUnknown
    ELSE IF Partial(At(d), InStore) THEN {Warn("flow_capture_partial")}
    ELSE {}

FlowItems(d) ==
    LET runNewest == Max({newest[s] : s \in InStore})
        staler    == {s \in InStore : newest[s] < RecentTradingDay(d, 4)}
    IN  IF InStore = {} THEN {}
        ELSE IF staler # {} /\ At(runNewest) # InStore THEN {Warn("flow_symbol_stale")}
        ELSE IF runNewest < RecentTradingDay(d, 2) \/ Partial(At(runNewest), InStore)
             THEN {Warn("flow_stale")}
        ELSE {}

\* trace: eval_trace.json as the monitor left it, "bad" when it is missing or
\* its shape is not the expected one.
MonitorHealth(trace, d) ==
    (IF trace.shape = "bad" THEN HealthUnknown
     ELSE (CASE trace.pe = "DARK"  -> {Warn("board_pe_dark")}
             [] trace.pe = "STALE" -> {Info("board_pe_stale")}
             [] OTHER -> {})
          \cup (IF flowFile = "readable" THEN FlowItems(d) ELSE {})
          \cup (IF trace.signals = "not ok" THEN {Warn("signal_not_ok")} ELSE {}))
    \cup (IF flowFile = "unreadable" THEN HealthUnknown ELSE {})

WeeklyHealth(gold) ==
    CASE gold = "bad"   -> HealthUnknown
      [] gold = "old"   -> {Warn("macro_driver_stale")}
      [] gold = "some"  -> {Info("driver_unavailable")}
      [] gold = "fresh" -> {}

\* The statuses of the radars up to day d that can be read, newest first of
\* all; a day whose file does not parse is as if it were not there.
ReadableDays(d) ==
    {e \in NotifyDays : e <= d /\ radars[e] \notin {"absent", "unreadable"}}
RecentRadarDays(d) ==
    {e \in ReadableDays(d) :
        Cardinality({x \in ReadableDays(d) : x > e}) < RadarWindow}
IsDegraded(status) == status \in {"abstain", "degraded"}

\* detect_rotation_recovery: an ok day right after degraded ones.
DetectRotationRecovery(days) ==
    /\ Cardinality(days) >= 2
    /\ radars[Max(days)] = "ok"
    /\ IsDegraded(radars[Max(days \ {Max(days)})])

RotationHealth(file) ==
    CASE file \in {"absent", "unreadable", "unknown"} -> HealthUnknown
      [] file = "abstain"  -> {Warn("rotation_abstain")}
      [] file = "degraded" -> {Warn("rotation_degraded")}
      [] OTHER -> {}

Recovered(d) == radars[d] = "ok" /\ DetectRotationRecovery(RecentRadarDays(d))
HealthOfRecoveryAlone(d) ==    \* a defect: good news hides the coverage
    IF Recovered(d) THEN {Info("rotation_recovered")}
    ELSE RotationHealth(radars[d]) \cup CaptureCoverageItems(d)
FlowCaptureHealth(d) ==
    (IF Recovered(d) THEN {Info("rotation_recovered")} ELSE RotationHealth(radars[d]))
    \cup CaptureCoverageItems(d)

(***************************************************************************)
(* The 15:45 chain: run-flow-capture.sh.                                   *)
(***************************************************************************)
NoPage == [ kind |-> "none", outcome |-> PlainOutcome(0, TRUE, {}, FALSE),
            severity |-> "clean", notify |-> FALSE, down |-> {}, sent |-> {} ]

NotifyInit ==
    /\ nday = FirstNotifyDay
    /\ radars = [d \in NotifyDays |-> "absent"]
    /\ newest \in { [s \in FlowSymbols |-> IF s \in C THEN FirstNotifyDay - 1 ELSE 0] :
                        C \in Captures }
    /\ flowFile = "readable"
    /\ chain = [at |-> "idle", rc |-> 0, rotated |-> "pending", runs |-> 0]
    /\ said = NoPage

\* `irc monitor flow-capture' appends today's row of each stock the batch
\* answers for, none if the batch fails: it exits 0 all the same.  A store it
\* cannot read it starts again.
ChainCaptures ==
    /\ chain.at \in {"idle", "told"} /\ chain.runs < MaxChains
    /\ nday \in OpenDays
    /\ \E C \in Captures \cup {{}} :
         /\ newest' = [s \in FlowSymbols |->
                          IF s \in C THEN nday
                          ELSE IF flowFile = "unreadable" /\ C # {} THEN 0
                          ELSE newest[s]]
         /\ flowFile' = IF C = {} THEN flowFile ELSE "readable"
    /\ chain' = [at |-> "captured", rc |-> 0, rotated |-> "pending", runs |-> chain.runs + 1]
    /\ said' = NoPage
    /\ UNCHANGED <<nday, radars>>

\* It crashes, or the watchdog ends it.
ChainCaptureFails ==
    /\ chain.at \in {"idle", "told"} /\ chain.runs < MaxChains
    /\ nday \in OpenDays
    /\ \E rc \in {1, 124} :
         chain' = [at |-> "captured", rc |-> rc, rotated |-> "pending", runs |-> chain.runs + 1]
    /\ said' = NoPage
    /\ UNCHANGED <<nday, radars, newest, flowFile>>

\* `irc rotation' writes today's radar over the one it finds, or dies before;
\* its exit code is logged and forgotten.
ChainRotates ==
    /\ chain.at = "captured"
    /\ \/ /\ \E s \in {"ok", "abstain", "degraded"} : radars' = [radars EXCEPT ![nday] = s]
          /\ chain' = [chain EXCEPT !.at = "rotated", !.rotated = "ran"]
       \/ /\ chain' = [chain EXCEPT !.at = "rotated", !.rotated = "died"]
          /\ UNCHANGED radars
    /\ said' = NoPage
    /\ UNCHANGED <<nday, newest, flowFile>>

\* _flow_capture_outcome, with --no-notify-on-clean.
ChainNotifies ==
    /\ chain.at = "rotated"
    /\ Say("flow-capture",
           PlainOutcome(chain.rc, radars[nday] # "absent", FlowCaptureHealth(nday),
                        Recovered(nday)),
           FALSE)
    /\ chain' = [chain EXCEPT !.at = "told"]
    /\ UNCHANGED <<nday, radars, newest, flowFile>>

(***************************************************************************)
(* The tails of run-monitor.sh and run-weekly.sh.                          *)
(***************************************************************************)
\* monitor.json is the last file the monitor writes: the run is whole if it
\* is there.
MonitorNotifies ==
    /\ chain.at = "idle" /\ said = NoPage /\ nday \in OpenDays
    /\ \E rc \in {0, 1, 124}, written \in BOOLEAN, onClean \in BOOLEAN :
       \E trace \in [shape : {"good"}, pe : {"FRESH", "STALE", "DARK"}, signals : {"ok", "not ok"}]
                    \cup {[shape |-> "bad"]} :
           Say("monitor",
               PlainOutcome(rc, written, MonitorHealth(trace, nday), FALSE), onClean)
    /\ UNCHANGED <<nday, radars, newest, flowFile, chain>>

Reports ==
    [file : {"read"}, buys : 0..1, sells : {NoCount, 0, 1}, promotions : 0..1]
    \cup [file : {"absent", "unreadable", "misshapen"}, buys : {0}, sells : {NoCount},
          promotions : {0}]

\* A report that is not there counts as an empty one: the sells are unknown.  One
\* that is not JSON is told; only that error is caught: JSON that is no object, a
\* count that is no number or bytes that are no text ("misshapen") raise.
WeeklyOutcome(rc, dir, marks, report, gold) ==
    IF ~dir THEN PlainOutcome(rc, FALSE, WeeklyHealth("bad"), FALSE)
    ELSE [ rc |-> rc, output |-> TRUE, unreadable |-> report.file = "unreadable",
           halted |-> "halted" \in marks, stale |-> "stale" \in marks,
           buys |-> report.buys, sells |-> report.sells, promotions |-> report.promotions,
           health |-> WeeklyHealth(gold), force |-> FALSE ]

WeeklyNotifies ==
    /\ chain.at = "idle" /\ said = NoPage /\ nday = FirstNotifyDay
    /\ \E rc \in {0, 5, 124}, dir \in BOOLEAN, marks \in SUBSET {"halted", "stale"},
          report \in Reports, gold \in {"bad", "old", "some", "fresh"}, onClean \in BOOLEAN :
           LET outcome == WeeklyOutcome(rc, dir, marks, report, gold)
           IN  IF dir /\ report.file = "misshapen" THEN DieBeforeSaying("weekly", outcome)
                                                   ELSE Say("weekly", outcome, onClean)
    /\ UNCHANGED <<nday, radars, newest, flowFile, chain>>

(***************************************************************************)
(* The days, and the files that go bad on disk.                            *)
(***************************************************************************)
NotifyDayTurns ==
    /\ nday < LastNotifyDay /\ chain.at \in {"idle", "told"}
    /\ nday' = nday + 1
    /\ chain' = [at |-> "idle", rc |-> 0, rotated |-> "pending", runs |-> 0]
    /\ said' = NoPage
    /\ UNCHANGED <<radars, newest, flowFile>>

RadarGoesBad ==
    /\ chain.at \in {"idle", "rotated"}
    /\ \E d \in NotifyDays :
         /\ radars[d] \notin {"absent", "unreadable", "unknown"}
         /\ \E s \in {"unreadable", "unknown"} : radars' = [radars EXCEPT ![d] = s]
    /\ said' = NoPage
    /\ UNCHANGED <<nday, newest, flowFile, chain>>

FlowStoreGoesBad ==
    /\ chain.at \in {"idle", "rotated"} /\ flowFile = "readable"
    /\ flowFile' = "unreadable"
    /\ said' = NoPage
    /\ UNCHANGED <<nday, radars, newest, chain>>

NotifyNext ==
    \/ ChainCaptures \/ ChainCaptureFails \/ ChainRotates \/ ChainNotifies
    \/ MonitorNotifies \/ WeeklyNotifies
    \/ NotifyDayTurns \/ RadarGoesBad \/ FlowStoreGoesBad

NotifySpec == NotifyInit /\ [][NotifyNext]_notifyVars

-----------------------------------------------------------------------------
Items == [ code : { "health_unknown", "board_pe_dark", "board_pe_stale", "flow_symbol_stale",
                    "flow_stale", "signal_not_ok", "flow_capture_partial", "rotation_abstain",
                    "rotation_degraded", "rotation_recovered", "macro_driver_stale",
                    "driver_unavailable" },
           level : {"warn", "info"} ]

\* The days, the files and the last page have the shape the reader expects.
NotifyTypeOK ==
    /\ nday \in NotifyDays
    /\ radars \in [NotifyDays -> RadarFile]
    /\ newest \in [FlowSymbols -> 0..LastNotifyDay]
    /\ flowFile \in {"readable", "unreadable"}
    /\ chain \in [ at : {"idle", "captured", "rotated", "told"}, rc : {0, 1, 124},
                   rotated : {"pending", "ran", "died"}, runs : 0..MaxChains ]
    /\ said.kind \in {"none", "flow-capture", "monitor", "weekly"}
    /\ said.severity \in {"failed", "halted", "stale", "degraded", "action", "clean", "died"}
    /\ said.outcome.health \subseteq Items
    /\ said.sent \subseteq Channels

\* What it takes for a run to be worth no page, said of the files and the exit
\* codes and not of the classifier.
FilesAreWell ==
    /\ chain.rc = 0 /\ radars[nday] = "ok" /\ flowFile = "readable"
    /\ InStore # {} /\ 5 * Cardinality(InStore \ At(nday)) <= Cardinality(InStore)
ChainIsWell == FilesAreWell /\ chain.rotated = "ran"
\* The radar an earlier chain of the day left stands in for a rotation that died.
CrashIsMasked == FilesAreWell /\ chain.rotated = "died" /\ chain.runs > 1
MonitorIsWell ==
    /\ said.outcome.rc = 0 /\ said.outcome.output /\ flowFile = "readable"
    /\ \A s \in InStore : Cardinality({o \in OpenDays : newest[s] <= o /\ o <= nday}) <= 4
    /\ \/ InStore = {}
       \/ \E s \in InStore : Cardinality({o \in OpenDays : newest[s] < o /\ o <= nday}) <= 1
WeeklyIsWell ==
    LET o == said.outcome
    IN  o.rc = 0 /\ o.output /\ ~o.unreadable /\ ~o.halted /\ ~o.stale
        /\ o.buys = 0 /\ o.sells = 0 /\ o.promotions = 0

SilenceMeansWell ==
    said.kind # "none" /\ (~said.notify \/ said.severity = "clean") =>
        CASE said.kind = "flow-capture" -> ChainIsWell \/ CrashIsMasked
          [] said.kind = "monitor"      -> MonitorIsWell
          [] said.kind = "weekly"       -> WeeklyIsWell \/ said.severity = "died"
PagesArrive ==
    /\ said.kind # "none" /\ said.notify => said.sent = Channels \ said.down
    /\ said.kind = "flow-capture" /\ FilesAreWell /\ ~said.outcome.force => said.sent = {}

\* "silent on a fully-ok chain" (run-flow-capture.sh), and but for two gaps on
\* nothing else: no wrapper ends without a page when its run failed, abstained,
\* went on with bad data or found something to do, in whatever order its commands
\* failed, and a page reaches every channel that works.  The exit code of the
\* capture says nothing of its batch, and the one of the rotation is dropped: a
\* rotation that dies in the first chain of a day is paged, for its radar is
\* missing, but in a later one the radar of the earlier hides it.  The other gap
\* is a decision report that notify-status itself dies of.
SilenceIsEarned == SilenceMeansWell /\ PagesArrive

\* The 15:45 page of a radar that works again is sent exactly when today's
\* radar is ok and the last one before it that anybody could read was not:
\* a corrupt file, today's or an older one, neither hides the recovery nor
\* repeats the one of another day.
RecoveryIsTold ==
    said.kind = "flow-capture" =>
        LET before == {d \in NotifyDays :
                          d < nday /\ radars[d] \in {"unknown", "ok", "abstain", "degraded"}}
        IN  said.outcome.force <=>
                /\ radars[nday] = "ok"
                /\ before # {} /\ radars[Max(before)] \in {"abstain", "degraded"}

\* No page is missing that should be sent, and no recovery is told twice.
NotifierKeepsItsWord == SilenceIsEarned /\ RecoveryIsTold
=============================================================================
