------------------------------ MODULE Pipeline ------------------------------
(***************************************************************************)
(* The staged pipeline behind `irc run` (commands/run_cmd.py): one process *)
(* runs the stages of STAGE_NAMES in order, checks after each that its     *)
(* required outputs exist, and on a failure leaves three files in          *)
(* outputs/<date>/ for the operator and for a later `irc run --resume`:    *)
(*                                                                         *)
(*   .halt_reason.json      the sidecar a failing stage leaves behind      *)
(*   PIPELINE_HALTED.md     the marker, which names a stage; the decision  *)
(*                          stage blocks every action while it exists      *)
(*   .pipeline_state.json   the checkpoint --resume starts from            *)
(*                                                                         *)
(* Each file operation of the runner is a step of its own, so the process  *)
(* may be killed between any two of them.  Stages can also be run on their *)
(* own (`irc ingest`, `irc decision`, ...), between runs and, when Overlap *)
(* holds, during one.  Every stage reads the calendar for itself, so a     *)
(* stage begun after midnight writes to another directory than the runner  *)
(* checks.                                                                 *)
(*                                                                         *)
(* Stages are numbered by their place in STAGE_NAMES; 0 is "no stage".     *)
(***************************************************************************)
EXTENDS Integers, FiniteSets

CONSTANTS
    LastStage,      \* number of stages; the last one is decision
    Optional,       \* stages a run leaves out unless asked: {research}
    Manifested,     \* stages with an entry in STAGE_REQUIRED_OUTPUTS
    Needs,          \* stage -> the stages whose outputs it refuses to miss
    Silent,         \* stages that may return 0 having written nothing
    Solo,           \* stages the operator also runs on their own
    Overlap,        \* may such a command run during a pipeline run?
    Crashes,        \* may the runner be killed (watchdog, Ctrl-C, kernel)?
    LastDay,        \* days 1..LastDay; bounds the calendar
    MaxInvocations  \* bounds the commands started

Stages   == 1..LastStage
NoStage  == 0
Ingest   == 1
Memo     == LastStage - 1
Decision == LastStage
Days     == 1..LastDay

ASSUME StageAssumption ==
    /\ LastStage \in Nat /\ LastStage >= 3
    /\ Optional \subseteq Stages \ {Ingest, Memo, Decision}
    /\ Manifested \subseteq Stages \ ({Ingest} \cup Optional)
    /\ Silent \subseteq Manifested \ {Decision}
    /\ Solo \subseteq Stages
    /\ Needs \in [Stages -> SUBSET Stages]
    /\ \A s \in Stages : \A n \in Needs[s] : n < s
ASSUME EnvironmentAssumption ==
    /\ Overlap \in BOOLEAN /\ Crashes \in BOOLEAN
    /\ LastDay \in Nat \ {0}
    /\ MaxInvocations \in Nat

VARIABLES
    clock,      \* today in China
    dirs,       \* the days whose outputs/<day>/ exists
    marker,     \* day -> stage PIPELINE_HALTED.md names, NoStage if absent
    state,      \* day -> failed_stage of .pipeline_state.json
    sidecar,    \* day -> stage of .halt_reason.json
    out,        \* day -> stage -> command that last wrote its outputs, or 0
    sheet       \* day -> what the last decision report said of the halt

disk == <<dirs, marker, state, sidecar, out, sheet>>

VARIABLES
    pc,         \* the next step of the running `irc run`, or "idle"
    run,        \* its parameters and progress
    at,         \* the stage in flight
    sday,       \* the day that stage read from the calendar
    outcome,    \* how the last run ended
    invs        \* commands started so far

runner == <<pc, run, at, sday, outcome>>

\* Never read by the program: what the chain of runs behind a day's
\* checkpoint set out to do and had completed, and the command that saved it.
VARIABLE owed

vars == <<clock, disk, runner, invs, owed>>

Steps == {"idle", "begin", "body", "check", "mark", "unlink", "save",
          "clear", "unmark"}

Runs == [no : Nat, day : Days, first : Stages, plan : SUBSET Stages,
         want : SUBSET Stages, got : SUBSET Stages]

Nothing == [want |-> {}, got |-> {}, by |-> 0]

TypeOK ==
    /\ clock \in Days
    /\ dirs \subseteq Days
    /\ marker \in [Days -> Stages \cup {NoStage}]
    /\ state \in [Days -> Stages \cup {NoStage}]
    /\ sidecar \in [Days -> Stages \cup {NoStage}]
    /\ out \in [Days -> [Stages -> Nat]]
    /\ sheet \in [Days -> {"none", "clear", "halted"}]
    /\ pc \in Steps
    /\ run \in Runs
    /\ at \in Stages
    /\ sday \in Days
    /\ outcome \in {"none", "ok", "halted", "died"}
    /\ invs \in Nat
    /\ owed \in [Days -> [want : SUBSET Stages, got : SUBSET Stages, by : Nat]]

Init ==
    /\ clock = 1
    /\ dirs = {}
    /\ marker = [d \in Days |-> NoStage]
    /\ state = [d \in Days |-> NoStage]
    /\ sidecar = [d \in Days |-> NoStage]
    /\ out = [d \in Days |-> [s \in Stages |-> 0]]
    /\ sheet = [d \in Days |-> "none"]
    /\ pc = "idle"
    /\ run = [no |-> 0, day |-> 1, first |-> Ingest, plan |-> {},
              want |-> {}, got |-> {}]
    /\ at = Ingest /\ sday = 1
    /\ outcome = "none"
    /\ invs = 0
    /\ owed = [d \in Days |-> Nothing]

Tick ==
    /\ clock < LastDay
    /\ clock' = clock + 1
    /\ UNCHANGED <<disk, runner, invs, owed>>

-----------------------------------------------------------------------------
(* What a stage does to the disk, whoever calls it.                        *)

\* The directory a decision report goes to: today's, or when there is none
\* the latest.  Every other stage writes to the day it read.
IsTarget(s, d, t) ==
    IF s = Decision /\ d \notin dirs /\ dirs # {}
    THEN t \in dirs /\ \A e \in dirs : e <= t
    ELSE t = d

\* The inputs whose absence makes a stage return 2.  Decision wants them all
\* in the one directory; the others fall back on the latest day that has one.
InputsReady(s, t) ==
    \A n \in Needs[s] :
        IF s = Decision THEN out[t][n] # 0
                        ELSE \E d \in Days : d <= clock /\ out[d][n] # 0

Written(s, t, no) == [out EXCEPT ![t][s] = no]

\* A good ingest withdraws the marker of its day.
\* Bug: it leaves it alone.
NotWithdrawn(s, d) == marker
Withdrawn(s, d)    == IF s = Ingest THEN [marker EXCEPT ![d] = NoStage] ELSE marker

\* The stage returns 0, having written its outputs.  `side' is the
\* sidecar it starts from.
StageWrites(s, d, no, side) ==
    \E t \in Days :
        /\ IsTarget(s, d, t)
        /\ InputsReady(s, t)
        /\ out' = Written(s, t, no)
        /\ dirs' = IF s = Ingest THEN dirs ELSE dirs \cup {t}
        /\ marker' = Withdrawn(s, d)
        /\ sheet' = IF s = Decision
                    THEN [sheet EXCEPT ![t] = IF marker[t] = NoStage
                                              THEN "clear" ELSE "halted"]
                    ELSE sheet
        /\ sidecar' = side
        /\ UNCHANGED state

\* The stage returns 0 and has written nothing.
StageWritesNothing(s) ==
    /\ s \in Silent
    /\ UNCHANGED disk

\* The stage returns non-zero or raises.  Only ingest explains itself in a
\* sidecar, and not on every path; a memo the audit refuses is published as
\* memo_blocked.md.  The freshness gate of some stages leaves its banner.
StageBreaks(s, d, no, side) ==
    /\ \/ /\ dirs' \in {dirs} \cup (IF s = Decision THEN {} ELSE {dirs \cup {d}})
          /\ sidecar' = side
          /\ out' = out
       \/ /\ s = Ingest
          /\ dirs' = dirs \cup {d}
          /\ sidecar' = [side EXCEPT ![d] = Ingest]
          /\ out' = out
       \/ /\ s = Memo
          /\ dirs' = dirs \cup {d}
          /\ sidecar' = side
          /\ out' = Written(s, d, no)
    /\ UNCHANGED <<marker, state, sheet>>

\* Ingest starts by removing the sidecar of its own day.
StaleGuard(s, d) ==
    IF s = Ingest THEN [sidecar EXCEPT ![d] = NoStage] ELSE sidecar

-----------------------------------------------------------------------------
(* Starting a run.                                                         *)

PlanFrom(first, only, research) ==
    LET asked == IF only THEN {first} ELSE {s \in Stages : s >= first}
    IN  IF research \/ first \in Optional THEN asked ELSE asked \ Optional

\* Bug: a run starts by clearing the day's checkpoint, and may then be killed.
LaunchAfresh(first, plan, want, got) ==
    /\ pc = "idle"
    /\ invs < MaxInvocations
    /\ invs' = invs + 1
    /\ run' = [no |-> invs', day |-> clock, first |-> first, plan |-> plan,
               want |-> want, got |-> got]
    /\ at' = first
    /\ pc' = "begin"
    /\ outcome' = "none"
    /\ dirs' = dirs \cup {clock}
    /\ state' = [state EXCEPT ![clock] = NoStage]
    /\ UNCHANGED <<clock, marker, sidecar, out, sheet, sday, owed>>

Launch(first, plan, want, got) ==
    /\ pc = "idle"
    /\ invs < MaxInvocations
    /\ invs' = invs + 1
    /\ run' = [no |-> invs', day |-> clock, first |-> first, plan |-> plan,
               want |-> want, got |-> got]
    /\ at' = first
    /\ pc' = "begin"
    /\ outcome' = "none"
    /\ dirs' = dirs \cup {clock}          \* the gate writes spend_estimate.json
    /\ UNCHANGED <<clock, marker, state, sidecar, out, sheet, sday, owed>>

\* irc run, irc run --from X, irc run --only X, with or without
\* RESEARCH_ENABLED.  A full run is --from ingest.
Start ==
    \E first \in Stages, only, research \in BOOLEAN :
        LET plan == PlanFrom(first, only, research)
        IN  Launch(first, plan, plan, {})

\* irc run --resume: today's checkpoint decides where to start.
Resume ==
    \E research \in BOOLEAN :
        /\ state[clock] # NoStage
        /\ LET plan == PlanFrom(state[clock], FALSE, research)
           IN  Launch(state[clock], plan, owed[clock].want \cup plan,
                      owed[clock].got)

\* The spend gate refuses (rc 5) after writing its estimate.
Refuse ==
    /\ pc = "idle"
    /\ clock \notin dirs
    /\ dirs' = dirs \cup {clock}
    /\ UNCHANGED <<clock, marker, state, sidecar, out, sheet, runner, invs, owed>>

-----------------------------------------------------------------------------
(* The stage loop.                                                         *)

StageBegins ==
    /\ pc = "begin"
    /\ sday' = clock
    /\ sidecar' = StaleGuard(at, clock)
    /\ pc' = "body"
    /\ UNCHANGED <<clock, dirs, marker, state, out, sheet, run, at, outcome,
                   invs, owed>>

StageSucceeds ==
    /\ pc = "body"
    /\ StageWrites(at, sday, run.no, sidecar) \/ StageWritesNothing(at)
    /\ pc' = "check"
    /\ UNCHANGED <<clock, run, at, sday, outcome, invs, owed>>

\* Bug: a failed stage with its outputs in place is taken for a good one.
StageFailsUnseen ==
    /\ pc = "body"
    /\ StageBreaks(at, sday, run.no, sidecar)
    /\ pc' = IF at \in Manifested /\ out[run.day][at] # 0 THEN "check" ELSE "mark"
    /\ UNCHANGED <<clock, run, at, sday, outcome, invs, owed>>

StageFails ==
    /\ pc = "body"
    /\ StageBreaks(at, sday, run.no, sidecar)
    /\ pc' = "mark"
    /\ UNCHANGED <<clock, run, at, sday, outcome, invs, owed>>

OutputsMissing == at \in Manifested /\ out[run.day][at] = 0

\* Bug: a silent stage is run again, with no limit.
CheckRetries ==
    /\ pc = "check"
    /\ OutputsMissing
    /\ pc' = "begin"
    /\ UNCHANGED <<clock, disk, run, at, sday, outcome, invs, owed>>

\* rc 0, but a required output is not there: the runner writes the sidecar.
CheckFails ==
    /\ pc = "check"
    /\ OutputsMissing
    /\ sidecar' = [sidecar EXCEPT ![run.day] = at]
    /\ pc' = "mark"
    /\ UNCHANGED <<clock, dirs, marker, state, out, sheet, run, at, sday,
                   outcome, invs, owed>>

Later == {s \in run.plan : s > at}

CheckPasses ==
    /\ pc = "check"
    /\ ~OutputsMissing
    /\ run' = [run EXCEPT !.got = @ \cup {at}]
    /\ \/ /\ Later = {}
          /\ pc' = "clear"
          /\ at' = at
       \/ /\ at' \in Later
          /\ \A s \in Later : at' <= s
          /\ pc' = "begin"
    /\ UNCHANGED <<clock, disk, sday, outcome, invs, owed>>

\* write_halted_structured with the sidecar's stage, or write_halted.
Named ==
    IF sidecar[run.day] # NoStage THEN sidecar[run.day] ELSE at

MarkIn(d) ==
    /\ pc = "mark"
    /\ marker' = [marker EXCEPT ![d] = Named]
    /\ pc' = IF sidecar[run.day] # NoStage THEN "unlink" ELSE "save"
    /\ UNCHANGED <<clock, dirs, state, sidecar, out, sheet, run, at, sday,
                   outcome, invs, owed>>

Mark      == MarkIn(run.day)

Unlink ==
    /\ pc = "unlink"
    /\ sidecar' = [sidecar EXCEPT ![run.day] = NoStage]
    /\ pc' = "save"
    /\ UNCHANGED <<clock, dirs, marker, state, out, sheet, run, at, sday,
                   outcome, invs, owed>>

SaveAs(d, s) ==
    /\ pc = "save"
    /\ state' = [state EXCEPT ![d] = s]
    /\ owed' = [owed EXCEPT ![d] =
                  [want |-> run.want, got |-> run.got, by |-> run.no]]
    /\ pc' = "idle"
    /\ outcome' = "halted"
    /\ UNCHANGED <<clock, dirs, marker, sidecar, out, sheet, run, at, sday, invs>>

\* Bugs: the checkpoint names the stage after the failed one; it goes to the
\* directory of the day of the halt.
SaveNext  == SaveAs(run.day, at + 1)
SaveToday == SaveAs(clock, at)
Save      == SaveAs(run.day, at)

\* Bug: a run that succeeds leaves the checkpoint of an earlier halt.
ClearForgotten ==
    /\ pc = "clear"
    /\ pc' = "unmark"
    /\ UNCHANGED <<clock, disk, run, at, sday, outcome, invs, owed>>

Clear ==
    /\ pc = "clear"
    /\ state' = [state EXCEPT ![run.day] = NoStage]
    /\ owed' = [owed EXCEPT ![run.day] = Nothing]
    /\ pc' = "unmark"
    /\ UNCHANGED <<clock, dirs, marker, sidecar, out, sheet, run, at, sday,
                   outcome, invs>>

Unmark ==
    /\ pc = "unmark"
    /\ marker' = [marker EXCEPT ![run.day] = NoStage]
    /\ pc' = "idle"
    /\ outcome' = "ok"
    /\ UNCHANGED <<clock, dirs, state, sidecar, out, sheet, run, at, sday,
                   invs, owed>>

\* The process dies: KeyboardInterrupt is re-raised, the watchdog kills the
\* process group, the machine goes down.  Nothing is written on the way out.
Die ==
    /\ Crashes
    /\ pc # "idle"
    /\ pc' = "idle"
    /\ outcome' = "died"
    /\ UNCHANGED <<clock, disk, run, at, sday, invs, owed>>

-----------------------------------------------------------------------------
\* `irc <stage>` on its own: no halt handling, no output check.
Standalone(s) ==
    /\ pc = "idle" \/ Overlap
    /\ invs < MaxInvocations
    /\ invs' = invs + 1
    /\ \/ StageWrites(s, clock, invs', StaleGuard(s, clock))
       \/ StageBreaks(s, clock, invs', StaleGuard(s, clock))
    /\ UNCHANGED <<clock, runner, owed>>

StageStep  == StageBegins \/ StageSucceeds \/ StageFails
RunnerStep == \/ StageStep
              \/ CheckFails \/ CheckPasses
              \/ Mark \/ Unlink \/ Save
              \/ Clear \/ Unmark

Next ==
    \/ Tick
    \/ Start \/ Resume \/ Refuse
    \/ RunnerStep
    \/ Die
    \/ \E s \in Solo : Standalone(s)

Spec == Init /\ [][Next]_vars

\* The runner is one sequential process, and each step of it ends: a stage
\* that hangs is killed by the watchdog (Die), or never returns at all.
FairSpec == Spec /\ WF_vars(RunnerStep)

-----------------------------------------------------------------------------
(* Safety.                                                                 *)

Idle == pc = "idle"

\* No stage is skipped on the way to a checkpoint or to the end of a run:
\* along a chain of a run and its resumptions, every stage before the stage in
\* flight, before the checkpoint, or at all once the chain has ended well, has
\* returned 0 with its outputs in place -- the optional ones apart.
CompletedBefore(chain, s) ==
    \A t \in chain.want \ Optional : t < s => t \in chain.got

ResumeSkipsNothing ==
    /\ ~Idle => CompletedBefore(run, at)
    /\ \A d \in Days : state[d] # NoStage => CompletedBefore(owed[d], state[d])
    /\ outcome = "ok" => CompletedBefore(run, LastStage + 1)

\* A halted run can be found and resumed: its checkpoint names the stage that
\* failed, and its marker is there unless an ingest has succeeded since.
HaltIsRecorded ==
    Idle /\ outcome = "halted" =>
        /\ state[run.day] = at
        /\ \/ marker[run.day] # NoStage
           \/ out[run.day][Ingest] >= run.no

\* A checkpoint without a marker tells the operator nothing and lets decision
\* act: only an ingest later than the halt may have brought that about.
CheckpointIsAnnounced ==
    \A d \in Days :
        state[d] # NoStage /\ marker[d] = NoStage =>
            out[d][Ingest] > owed[d].by

\* A run that reports success left every required output of its chain in the
\* directory of its day, whichever run of the chain produced it.
OkRunHasItsOutputs ==
    Idle /\ outcome = "ok" =>
        \A s \in run.want \cap Manifested : out[run.day][s] # 0

\* The marker of a halted run names the stage that failed.
HaltNamesItsStage ==
    Idle /\ outcome = "halted" => marker[run.day] \in {at, NoStage}

\* The same of runs that start with ingest and see no midnight: whatever
\* sidecar was lying about, ingest's stale guard has removed it.
FullRunNamesItsStage ==
    run.first = Ingest /\ clock = run.day => HaltNamesItsStage

\* The decision report of a run that succeeded is not blocked by a marker.
OkSheetIsClean ==
    Idle /\ outcome = "ok" /\ Decision \in run.plan => sheet[run.day] # "halted"

\* The same of runs that start with ingest and see no midnight.
FullRunSheetIsClean ==
    run.first = Ingest /\ clock = run.day => OkSheetIsClean

\* Today's checkpoint is where the latest run failed.
CheckpointIsLatestHalt ==
    Idle /\ state[clock] # NoStage => outcome = "halted" /\ at = state[clock]

\* A run that reports success wrote every output of its plan itself.
OkRunWroteItsOutputs ==
    Idle /\ outcome = "ok" =>
        \A s \in run.plan \cap Manifested : out[run.day][s] >= run.no

\* No output of a chain that ended well is older than an input of it.
OkRunIsOrdered ==
    Idle /\ outcome = "ok" =>
        \A s \in run.want \cap Manifested : \A n \in Needs[s] \cap Manifested :
            out[run.day][n] <= out[run.day][s]

-----------------------------------------------------------------------------
(* Liveness.                                                               *)

\* Every run ends, in success, in a recorded halt or dead.
RunsReturn == ~Idle ~> Idle

-----------------------------------------------------------------------------
(* What the runs ask, each question as one.                                *)

\* A run that starts with ingest and sees no midnight tells no lies: a halt of
\* it is announced under the name of the stage that failed, and a success of
\* it has a decision report that no older halt blocks.
FullRunIsSound == FullRunNamesItsStage /\ FullRunSheetIsClean

\* A run that succeeds, resumed or not, wrote every output of its plan itself
\* and left none older than what it was made from.
OkRunIsWhole == OkRunWroteItsOutputs /\ OkRunIsOrdered

\* Without kills the checkpoint and the marker say what the latest run did.
HaltIsTold == CheckpointIsLatestHalt /\ HaltNamesItsStage

\* Midnight in a run, an ingest beside it and kills leave each halt to be
\* found and resumed, none unannounced, and no success without its outputs.
MidnightIsHarmless == HaltIsRecorded /\ CheckpointIsAnnounced /\ OkRunHasItsOutputs
=============================================================================
