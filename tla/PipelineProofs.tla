--------------------------- MODULE PipelineProofs ---------------------------
(***************************************************************************)
(* Type correctness of Pipeline, that resuming skips nothing, that the     *)
(* checkpoint is kept as ResumableJob says and that halts are kept and     *)
(* told, for any number of stages and days and any environment; and what a *)
(* calm day guarantees, for any number of stages and of runs.              *)
(***************************************************************************)
EXTENDS MCMidnight, TLAPS

\* A stage that writes its outputs leaves the disk well-formed, whatever the
\* command and its day.
LEMMA StageWritesTyped ==
    ASSUME TypeOK,
           NEW s \in Stages, NEW d \in Days, NEW no \in Nat,
           NEW side \in [Days -> Stages \cup {NoStage}],
           StageWrites(s, d, no, side)
    PROVE  /\ dirs' \subseteq Days
           /\ marker' \in [Days -> Stages \cup {NoStage}]
           /\ state' = state
           /\ sidecar' \in [Days -> Stages \cup {NoStage}]
           /\ out' \in [Days -> [Stages -> Nat]]
           /\ sheet' \in [Days -> {"none", "clear", "halted"}]
<1>1. PICK t \in Days :
        /\ out' = Written(s, t, no)
        /\ dirs' = IF s = Ingest THEN dirs ELSE dirs \cup {t}
        /\ marker' = Withdrawn(s, d)
        /\ sheet' = IF s = Decision
                    THEN [sheet EXCEPT ![t] = IF marker[t] = NoStage
                                              THEN "clear" ELSE "halted"]
                    ELSE sheet
        /\ sidecar' = side
        /\ UNCHANGED state
  BY DEF StageWrites
<1>2. out' \in [Days -> [Stages -> Nat]]
  BY <1>1 DEF TypeOK, Written
<1>3. marker' \in [Days -> Stages \cup {NoStage}]
  BY <1>1 DEF TypeOK, Withdrawn
<1>4. sheet' \in [Days -> {"none", "clear", "halted"}]
  BY <1>1 DEF TypeOK
<1> QED
  BY <1>1, <1>2, <1>3, <1>4 DEF TypeOK

\* So does a stage that breaks.
LEMMA StageBreaksTyped ==
    ASSUME TypeOK,
           NEW s \in Stages, NEW d \in Days, NEW no \in Nat,
           NEW side \in [Days -> Stages \cup {NoStage}],
           StageBreaks(s, d, no, side)
    PROVE  /\ dirs' \subseteq Days
           /\ marker' = marker
           /\ state' = state
           /\ sidecar' \in [Days -> Stages \cup {NoStage}]
           /\ out' \in [Days -> [Stages -> Nat]]
           /\ sheet' = sheet
<1>1. Ingest \in Stages
  BY StageAssumption DEF Stages, Ingest
<1>2. Written(s, d, no) \in [Days -> [Stages -> Nat]]
  BY DEF TypeOK, Written
<1>3. [side EXCEPT ![d] = Ingest] \in [Days -> Stages \cup {NoStage}]
  BY <1>1
<1> QED
  BY <1>2, <1>3 DEF TypeOK, StageBreaks

LEMMA PlanTyped ==
    ASSUME NEW first \in Stages, NEW only \in BOOLEAN, NEW research \in BOOLEAN
    PROVE  /\ PlanFrom(first, only, research) \subseteq Stages
           /\ \A s \in PlanFrom(first, only, research) : s >= first
BY DEF PlanFrom, Stages

LEMMA LaunchTyped ==
    ASSUME TypeOK, NEW first \in Stages, NEW plan \in SUBSET Stages,
           NEW want \in SUBSET Stages, NEW got \in SUBSET Stages,
           Launch(first, plan, want, got)
    PROVE  TypeOK'
BY DEF TypeOK, Launch, Runs, Steps

-----------------------------------------------------------------------------
LEMMA InitTyped == Init => TypeOK
<1> SUFFICES ASSUME Init PROVE TypeOK
  OBVIOUS
<1>1. Ingest \in Stages /\ 1 \in Days
  BY StageAssumption, EnvironmentAssumption DEF Stages, Ingest, Days
<1> QED
  BY <1>1 DEF Init, TypeOK, Runs, Steps, Nothing

LEMMA StepTyped == TypeOK /\ [Next]_vars => TypeOK'
<1> SUFFICES ASSUME TypeOK, [Next]_vars PROVE TypeOK'
  OBVIOUS
<1>1. CASE Tick
  <2>1. clock' \in Days
    BY <1>1, EnvironmentAssumption DEF Tick, TypeOK, Days
  <2> QED
    BY <1>1, <2>1 DEF Tick, TypeOK, disk, runner
<1>2. CASE Start
  <2>1. PICK first \in Stages, only \in BOOLEAN, research \in BOOLEAN :
          LET plan == PlanFrom(first, only, research)
          IN  Launch(first, plan, plan, {})
    BY <1>2 DEF Start
  <2> QED
    BY <2>1, PlanTyped, LaunchTyped
<1>3. CASE Resume
  <2>1. PICK research \in BOOLEAN :
          /\ state[clock] # NoStage
          /\ LET plan == PlanFrom(state[clock], FALSE, research)
             IN  Launch(state[clock], plan, owed[clock].want \cup plan,
                        owed[clock].got)
    BY <1>3 DEF Resume
  <2>2. /\ state[clock] \in Stages
        /\ owed[clock].want \subseteq Stages
        /\ owed[clock].got \subseteq Stages
    BY <2>1 DEF TypeOK
  <2> QED
    BY <2>1, <2>2, PlanTyped, LaunchTyped
<1>4. CASE Refuse
  BY <1>4 DEF Refuse, TypeOK, runner
<1>5. CASE StageBegins
  BY <1>5 DEF StageBegins, TypeOK, StaleGuard, Steps
<1>6. CASE StageSucceeds
  <2>1. run.no \in Nat
    BY DEF TypeOK, Runs
  <2>2. CASE StageWrites(at, sday, run.no, sidecar)
    BY <1>6, <2>1, <2>2, StageWritesTyped DEF StageSucceeds, TypeOK, Steps
  <2>3. CASE StageWritesNothing(at)
    BY <1>6, <2>3 DEF StageSucceeds, StageWritesNothing, disk, TypeOK, Steps
  <2> QED
    BY <1>6, <2>2, <2>3 DEF StageSucceeds
<1>7. CASE StageFails
  <2>1. run.no \in Nat
    BY DEF TypeOK, Runs
  <2> QED
    BY <1>7, <2>1, StageBreaksTyped DEF StageFails, TypeOK, Steps
<1>8. CASE CheckFails
  BY <1>8 DEF CheckFails, TypeOK, Steps
<1>9. CASE CheckPasses
  BY <1>9 DEF CheckPasses, Later, TypeOK, Runs, Steps, disk
<1>10. CASE Mark
  BY <1>10 DEF Mark, MarkIn, Named, TypeOK, Steps
<1>11. CASE Unlink
  BY <1>11 DEF Unlink, TypeOK, Steps
<1>12. CASE Save
  <2>1. [want |-> run.want, got |-> run.got, by |-> run.no]
          \in [want : SUBSET Stages, got : SUBSET Stages, by : Nat]
    BY DEF TypeOK, Runs
  <2> QED
    BY <1>12, <2>1 DEF Save, SaveAs, TypeOK, Steps
<1>13. CASE Clear
  BY <1>13 DEF Clear, Nothing, TypeOK, Steps
<1>14. CASE Unmark
  BY <1>14 DEF Unmark, TypeOK, Steps
<1>15. CASE Die
  BY <1>15 DEF Die, disk, TypeOK, Steps
<1>16. CASE \E s \in Solo : Standalone(s)
  <2>1. PICK s \in Solo : Standalone(s)
    BY <1>16
  <2>2. s \in Stages /\ invs' \in Nat /\ clock \in Days
    BY <2>1, StageAssumption DEF Standalone, TypeOK
  <2>3. StaleGuard(s, clock) \in [Days -> Stages \cup {NoStage}]
    BY DEF StaleGuard, TypeOK
  <2>4. CASE StageWrites(s, clock, invs', StaleGuard(s, clock))
    BY <2>1, <2>2, <2>3, <2>4, StageWritesTyped DEF Standalone, runner, TypeOK
  <2>5. CASE StageBreaks(s, clock, invs', StaleGuard(s, clock))
    BY <2>1, <2>2, <2>3, <2>5, StageBreaksTyped DEF Standalone, runner, TypeOK
  <2> QED
    BY <2>1, <2>4, <2>5 DEF Standalone
<1>17. CASE UNCHANGED vars
  BY <1>17 DEF vars, disk, runner, TypeOK
<1> QED
  BY <1>1, <1>2, <1>3, <1>4, <1>5, <1>6, <1>7, <1>8, <1>9, <1>10, <1>11, <1>12,
     <1>13, <1>14, <1>15, <1>16, <1>17 DEF Next, RunnerStep, StageStep

\* Every reachable state of the pipeline is well-formed.
THEOREM TypeCorrect == Spec => []TypeOK
BY InitTyped, StepTyped, PTL DEF Spec

-----------------------------------------------------------------------------
(* ResumeSkipsNothing is not inductive: that a stage before the next one   *)
(* has been completed needs that the plan holds everything wanted from the *)
(* first stage on, and that the loop left nothing when it came to its end. *)

PlanCovers ==
    /\ \A s \in run.want \ Optional : s >= run.first => s \in run.plan
    /\ \A s \in run.plan : s >= run.first

AtIsPlanned == ~Idle => at \in run.plan

LoopIsDone ==
    pc \in {"clear", "unmark"} => CompletedBefore(run, LastStage + 1)

\* An inductive strengthening of ResumeSkipsNothing.
ChainInv == TypeOK /\ PlanCovers /\ AtIsPlanned /\ LoopIsDone /\ ResumeSkipsNothing

LEMMA InitChain == Init => ChainInv
<1> SUFFICES ASSUME Init PROVE ChainInv
  OBVIOUS
<1>1. TypeOK
  BY InitTyped
<1>2. PlanCovers /\ AtIsPlanned /\ LoopIsDone
  BY DEF Init, PlanCovers, AtIsPlanned, LoopIsDone, Idle
<1>3. ResumeSkipsNothing
  BY DEF Init, ResumeSkipsNothing, Idle
<1> QED
  BY <1>1, <1>2, <1>3 DEF ChainInv

\* A run that starts with a plan reaching to the last wanted stage, its
\* earlier stages being completed, starts in the invariant.
LEMMA LaunchChain ==
    ASSUME ChainInv, TypeOK', NEW first \in Stages, NEW plan \in SUBSET Stages,
           NEW want \in SUBSET Stages, NEW got \in SUBSET Stages,
           Launch(first, plan, want, got),
           first \in plan,
           \A s \in plan : s >= first,
           \A s \in want \ Optional : s >= first => s \in plan,
           \A s \in want \ Optional : s < first => s \in got
    PROVE  ChainInv'
<1>1. /\ run'.first = first /\ run'.plan = plan /\ run'.want = want
      /\ run'.got = got
      /\ at' = first /\ pc' = "begin" /\ outcome' = "none"
      /\ UNCHANGED <<state, owed>>
  BY DEF Launch
<1>2. PlanCovers' /\ AtIsPlanned' /\ LoopIsDone'
  BY <1>1 DEF PlanCovers, AtIsPlanned, LoopIsDone, Idle
<1>3. ResumeSkipsNothing'
  BY <1>1 DEF ChainInv, ResumeSkipsNothing, CompletedBefore, Idle
<1> QED
  BY <1>2, <1>3 DEF ChainInv

\* A step that leaves the runner's plan, its place in the stage loop and the
\* checkpoints alone leaves the invariant alone.
LEMMA FrameChain ==
    ASSUME ChainInv, TypeOK',
           UNCHANGED <<run, at, state, owed>>,
           pc' = pc \/ {pc, pc'} \subseteq {"begin", "body", "check", "mark",
                                            "unlink", "save"},
           outcome' = outcome
    PROVE  ChainInv'
<1>1. PlanCovers' /\ AtIsPlanned' /\ LoopIsDone'
  BY DEF ChainInv, PlanCovers, AtIsPlanned, LoopIsDone, CompletedBefore, Idle
<1>2. ResumeSkipsNothing'
  BY DEF ChainInv, ResumeSkipsNothing, CompletedBefore, Idle
<1> QED
  BY <1>1, <1>2 DEF ChainInv

LEMMA PlanFromFirst ==
    ASSUME NEW first \in Stages, NEW only \in BOOLEAN, NEW research \in BOOLEAN
    PROVE  first \in PlanFrom(first, only, research)
BY DEF PlanFrom, Stages

LEMMA StepChain == ChainInv /\ [Next]_vars => ChainInv'
<1> SUFFICES ASSUME ChainInv, [Next]_vars PROVE ChainInv'
  OBVIOUS
<1> TypeOK /\ TypeOK'
  BY StepTyped DEF ChainInv
<1>1. CASE Tick
  BY <1>1, FrameChain DEF Tick, disk, runner
<1>2. CASE Start
  <2>1. PICK first \in Stages, only \in BOOLEAN, research \in BOOLEAN :
          LET plan == PlanFrom(first, only, research)
          IN  Launch(first, plan, plan, {})
    BY <1>2 DEF Start
  <2> DEFINE plan == PlanFrom(first, only, research)
  <2>2. plan \subseteq Stages /\ first \in plan /\ \A s \in plan : s >= first
    BY PlanTyped, PlanFromFirst
  <2>3. \A s \in plan : ~(s < first)
    BY <2>2 DEF Stages
  <2> QED
    BY <2>1, <2>2, <2>3, LaunchChain
<1>3. CASE Resume
  <2>1. PICK research \in BOOLEAN :
          /\ state[clock] # NoStage
          /\ LET plan == PlanFrom(state[clock], FALSE, research)
             IN  Launch(state[clock], plan, owed[clock].want \cup plan,
                        owed[clock].got)
    BY <1>3 DEF Resume
  <2> DEFINE first == state[clock]
             plan == PlanFrom(first, FALSE, research)
             want == owed[clock].want \cup plan
  <2>2. /\ first \in Stages
        /\ owed[clock].want \subseteq Stages
        /\ owed[clock].got \subseteq Stages
    BY <2>1 DEF TypeOK
  <2>3. plan \subseteq Stages /\ first \in plan /\ \A s \in plan : s >= first
    BY <2>2, PlanTyped, PlanFromFirst
  <2>4. \A s \in want \ Optional : s >= first => s \in plan
    BY <2>2, <2>3 DEF PlanFrom
  <2>5. \A s \in want \ Optional : s < first => s \in owed[clock].got
    <3>1. CompletedBefore(owed[clock], first)
      BY <2>1 DEF ChainInv, ResumeSkipsNothing, TypeOK
    <3>2. \A s, f \in Stages : s >= f => ~(s < f)
      BY DEF Stages
    <3>3. \A s \in plan : ~(s < first)
      BY <2>2, <2>3, <3>2
    <3> QED
      BY <3>1, <3>3 DEF CompletedBefore
  <2> HIDE DEF first, plan, want
  <2>6. Launch(first, plan, want, owed[clock].got)
    BY <2>1 DEF first, plan, want
  <2>7. want \subseteq Stages
    BY <2>2, <2>3 DEF want
  <2> QED
    BY <2>2, <2>3, <2>4, <2>5, <2>6, <2>7, LaunchChain
<1>4. CASE Refuse
  BY <1>4, FrameChain DEF Refuse, runner
<1>5. CASE StageBegins
  BY <1>5, FrameChain DEF StageBegins
<1>6. CASE StageSucceeds
  <2>1. UNCHANGED state
    BY <1>6 DEF StageSucceeds, StageWrites, StageWritesNothing, disk
  <2> QED
    BY <1>6, <2>1, FrameChain DEF StageSucceeds
<1>7. CASE StageFails
  BY <1>7, FrameChain DEF StageFails, StageBreaks
<1>8. CASE CheckFails
  BY <1>8, FrameChain DEF CheckFails
<1>9. CASE CheckPasses
  <2>1. /\ run'.plan = run.plan /\ run'.first = run.first
        /\ run'.want = run.want /\ run'.got = run.got \cup {at}
        /\ UNCHANGED <<state, owed, outcome>> /\ pc = "check"
    BY <1>9 DEF CheckPasses, TypeOK, Runs, disk
  <2>2. CompletedBefore(run, at) /\ at \in run.plan /\ at \in Stages
    BY <2>1 DEF ChainInv, ResumeSkipsNothing, AtIsPlanned, Idle, TypeOK
  <2>3. run.want \subseteq Stages /\ run.plan \subseteq Stages /\ run.first \in Stages
    BY DEF TypeOK, Runs
  <2>4. \A s \in run.want \ Optional : s > at => s \in Later
    BY <2>2, <2>3 DEF ChainInv, PlanCovers, Later, Stages
  <2>5. PlanCovers'
    BY <2>1 DEF ChainInv, PlanCovers
  <2>6. outcome = "ok" => CompletedBefore(run', LastStage + 1)
    BY <2>1 DEF ChainInv, ResumeSkipsNothing, CompletedBefore
  <2>7. CASE Later = {} /\ pc' = "clear" /\ at' = at
    <3>1. CompletedBefore(run', LastStage + 1)
      BY <2>1, <2>2, <2>3, <2>4, <2>7 DEF CompletedBefore, Stages
    <3>2. CompletedBefore(run', at')
      BY <2>1, <2>2, <2>7 DEF CompletedBefore
    <3>3. AtIsPlanned' /\ LoopIsDone'
      BY <2>1, <2>2, <2>7, <3>1 DEF AtIsPlanned, LoopIsDone, CompletedBefore
    <3> QED
      BY <2>1, <2>5, <2>6, <3>1, <3>2, <3>3
         DEF ChainInv, ResumeSkipsNothing, CompletedBefore
  <2>8. CASE at' \in Later /\ (\A s \in Later : at' <= s) /\ pc' = "begin"
    <3>1. CompletedBefore(run', at')
      BY <2>1, <2>2, <2>3, <2>4, <2>8 DEF CompletedBefore, Later, Stages
    <3>2. AtIsPlanned' /\ LoopIsDone'
      BY <2>1, <2>8 DEF AtIsPlanned, LoopIsDone, Later
    <3> QED
      BY <2>1, <2>5, <2>6, <3>1, <3>2
         DEF ChainInv, ResumeSkipsNothing, CompletedBefore
  <2> QED
    BY <1>9, <2>7, <2>8 DEF CheckPasses
<1>10. CASE Mark
  BY <1>10, FrameChain DEF Mark, MarkIn
<1>11. CASE Unlink
  BY <1>11, FrameChain DEF Unlink
<1>12. CASE Save
  <2>1. /\ UNCHANGED <<run, at>> /\ pc = "save" /\ pc' = "idle"
        /\ outcome' = "halted"
        /\ state' = [state EXCEPT ![run.day] = at]
        /\ owed' = [owed EXCEPT ![run.day] =
                      [want |-> run.want, got |-> run.got, by |-> run.no]]
    BY <1>12 DEF Save, SaveAs
  <2>2. CompletedBefore(run, at)
    BY <2>1 DEF ChainInv, ResumeSkipsNothing, Idle
  <2>3. \A d \in Days : state'[d] # NoStage => CompletedBefore(owed'[d], state'[d])
    BY <2>1, <2>2 DEF ChainInv, ResumeSkipsNothing, CompletedBefore, TypeOK
  <2>4. PlanCovers' /\ AtIsPlanned' /\ LoopIsDone'
    BY <2>1 DEF ChainInv, PlanCovers, AtIsPlanned, LoopIsDone, Idle
  <2> QED
    BY <2>1, <2>3, <2>4 DEF ChainInv, ResumeSkipsNothing, CompletedBefore, Idle
<1>13. CASE Clear
  <2>1. /\ UNCHANGED <<run, at, outcome>> /\ pc = "clear" /\ pc' = "unmark"
        /\ state' = [state EXCEPT ![run.day] = NoStage]
        /\ owed' = [owed EXCEPT ![run.day] = Nothing]
    BY <1>13 DEF Clear
  <2>2. \A d \in Days : state'[d] # NoStage => CompletedBefore(owed'[d], state'[d])
    BY <2>1 DEF ChainInv, ResumeSkipsNothing, CompletedBefore, TypeOK
  <2>3. PlanCovers' /\ AtIsPlanned' /\ LoopIsDone'
    BY <2>1 DEF ChainInv, PlanCovers, AtIsPlanned, LoopIsDone, CompletedBefore, Idle
  <2> QED
    BY <2>1, <2>2, <2>3 DEF ChainInv, ResumeSkipsNothing, CompletedBefore, Idle
<1>14. CASE Unmark
  <2>1. UNCHANGED <<run, at, state, owed>> /\ pc = "unmark" /\ pc' = "idle"
    BY <1>14 DEF Unmark
  <2>2. CompletedBefore(run, LastStage + 1)
    BY <2>1 DEF ChainInv, LoopIsDone
  <2>3. PlanCovers' /\ AtIsPlanned' /\ LoopIsDone'
    BY <2>1 DEF ChainInv, PlanCovers, AtIsPlanned, LoopIsDone, Idle
  <2> QED
    BY <2>1, <2>2, <2>3 DEF ChainInv, ResumeSkipsNothing, CompletedBefore, Idle
<1>15. CASE Die
  <2>1. UNCHANGED <<run, at, state, owed>> /\ pc' = "idle" /\ outcome' = "died"
    BY <1>15 DEF Die, disk
  <2>2. PlanCovers' /\ AtIsPlanned' /\ LoopIsDone'
    BY <2>1 DEF ChainInv, PlanCovers, AtIsPlanned, LoopIsDone, Idle
  <2> QED
    BY <2>1, <2>2 DEF ChainInv, ResumeSkipsNothing, CompletedBefore, Idle
<1>16. CASE \E s \in Solo : Standalone(s)
  <2>1. PICK s \in Solo : Standalone(s)
    BY <1>16
  <2>2. UNCHANGED state
    BY <2>1 DEF Standalone, StageWrites, StageBreaks
  <2> QED
    BY <2>1, <2>2, FrameChain DEF Standalone, runner
<1>17. CASE UNCHANGED vars
  BY <1>17, FrameChain DEF vars, disk, runner
<1> QED
  BY <1>1, <1>2, <1>3, <1>4, <1>5, <1>6, <1>7, <1>8, <1>9, <1>10, <1>11, <1>12,
     <1>13, <1>14, <1>15, <1>16, <1>17 DEF Next, RunnerStep, StageStep

\* Along a chain of a run and its resumptions no stage is skipped.
THEOREM NothingSkipped == Spec => []ResumeSkipsNothing
<1>1. ChainInv => ResumeSkipsNothing
  BY DEF ChainInv
<1> QED
  BY InitChain, StepChain, <1>1, PTL DEF Spec

-----------------------------------------------------------------------------
(* The runner implements the resumable job.                                *)

LEMMA DayIsNotZero == \A d \in Days : d # 0
BY DEF Days

LEMMA InitJob == Init => Job!Init
BY DEF Init, Job!Init, JobDay, JobTodo, NoStage

\* What the job sees of a step that leaves plan, place and checkpoint alone
\* is nothing.
LEMMA FrameJob ==
    ASSUME UNCHANGED <<run, at, state>>,
           pc' = pc \/ {pc, pc'} \subseteq {"begin", "body", "check", "mark",
                                            "unlink", "save"}
    PROVE  UNCHANGED Job!vars
BY DEF Job!vars, JobDay, JobTodo

LEMMA LaunchJob ==
    ASSUME TypeOK, NEW first \in Stages, NEW plan \in SUBSET Stages,
           NEW want, NEW got,
           Launch(first, plan, want, got), first \in plan
    PROVE  Job!Begin
<1>1. /\ pc = "idle" /\ pc' = "begin" /\ at' = first /\ UNCHANGED state
      /\ run'.plan = plan /\ run'.day = clock
  BY DEF Launch
<1>2. first \in {s \in plan : s >= first}
  BY DEF Stages
<1> QED
  BY <1>1, <1>2 DEF Job!Begin, JobDay, JobTodo, TypeOK

LEMMA StepJob == ChainInv /\ [Next]_vars => [Job!Next]_(Job!vars)
<1> SUFFICES ASSUME ChainInv, [Next]_vars PROVE [Job!Next]_(Job!vars)
  OBVIOUS
<1> TypeOK
  BY DEF ChainInv
<1> USE DEF Job!Next
<1>1. CASE Tick
  BY <1>1, FrameJob DEF Tick, disk, runner
<1>2. CASE Start
  <2>1. PICK first \in Stages, only \in BOOLEAN, research \in BOOLEAN :
          LET plan == PlanFrom(first, only, research)
          IN  Launch(first, plan, plan, {})
    BY <1>2 DEF Start
  <2> QED
    BY <2>1, PlanTyped, PlanFromFirst, LaunchJob
<1>3. CASE Resume
  <2>1. PICK research \in BOOLEAN :
          /\ state[clock] # NoStage
          /\ LET plan == PlanFrom(state[clock], FALSE, research)
             IN  Launch(state[clock], plan, owed[clock].want \cup plan,
                        owed[clock].got)
    BY <1>3 DEF Resume
  <2>2. state[clock] \in Stages
    BY <2>1 DEF TypeOK
  <2> QED
    BY <2>1, <2>2, PlanTyped, PlanFromFirst, LaunchJob
<1>4. CASE Refuse
  BY <1>4, FrameJob DEF Refuse, runner
<1>5. CASE StageBegins
  BY <1>5, FrameJob DEF StageBegins
<1>6. CASE StageSucceeds
  <2>1. UNCHANGED state
    BY <1>6 DEF StageSucceeds, StageWrites, StageWritesNothing, disk
  <2> QED
    BY <1>6, <2>1, FrameJob DEF StageSucceeds
<1>7. CASE StageFails
  BY <1>7, FrameJob DEF StageFails, StageBreaks
<1>8. CASE CheckFails
  BY <1>8, FrameJob DEF CheckFails
<1>9. CASE CheckPasses
  <2>1. /\ run'.plan = run.plan /\ run'.day = run.day
        /\ UNCHANGED state /\ pc = "check"
    BY <1>9 DEF CheckPasses, TypeOK, Runs, disk
  <2>2. at \in run.plan /\ at \in Stages /\ run.plan \subseteq Stages /\ run.day # 0
    BY <2>1, DayIsNotZero DEF ChainInv, AtIsPlanned, Idle, TypeOK, Runs
  <2>3. JobDay = run.day /\ JobTodo = {s \in run.plan : s >= at}
    BY <2>1 DEF JobDay, JobTodo
  <2>4. Job!IsNext(at)
    BY <2>2, <2>3 DEF Job!IsNext, Stages
  <2>5. JobTodo \ {at} = Later
    BY <2>2, <2>3 DEF Later, Stages
  <2>6. JobDay' = JobDay /\ JobTodo' = Later
    <3>1. CASE Later = {} /\ pc' = "clear" /\ at' = at
      BY <2>1, <2>3, <3>1 DEF JobDay, JobTodo
    <3>2. CASE at' \in Later /\ (\A s \in Later : at' <= s) /\ pc' = "begin"
      <4>1. {s \in run.plan : s >= at'} = Later
        BY <2>2, <3>2 DEF Later, Stages
      <4> QED
        BY <2>1, <2>3, <3>2, <4>1 DEF JobDay, JobTodo
    <3> QED
      BY <1>9, <3>1, <3>2 DEF CheckPasses
  <2>7. at \in JobTodo
    BY <2>4 DEF Job!IsNext
  <2> QED
    BY <2>1, <2>2, <2>3, <2>4, <2>5, <2>6, <2>7 DEF Job!StepDone
<1>10. CASE Mark
  BY <1>10, FrameJob DEF Mark, MarkIn
<1>11. CASE Unlink
  BY <1>11, FrameJob DEF Unlink
<1>12. CASE Save
  <2>1. /\ pc = "save" /\ pc' = "idle"
        /\ state' = [state EXCEPT ![run.day] = at]
    BY <1>12 DEF Save, SaveAs
  <2>2. at \in run.plan /\ at \in Stages /\ run.plan \subseteq Stages /\ run.day # 0
    BY <2>1, DayIsNotZero DEF ChainInv, AtIsPlanned, Idle, TypeOK, Runs
  <2>3. JobDay = run.day /\ JobTodo = {s \in run.plan : s >= at}
    BY <2>1 DEF JobDay, JobTodo
  <2>4. Job!IsNext(at) /\ at \in JobTodo
    BY <2>2, <2>3 DEF Job!IsNext, Stages
  <2>5. JobDay' = 0 /\ JobTodo' = {}
    BY <2>1 DEF JobDay, JobTodo
  <2> QED
    BY <2>1, <2>2, <2>3, <2>4, <2>5 DEF Job!StepFailed
<1>13. CASE Clear
  <2>1. pc = "clear" /\ pc' = "unmark" /\ state' = [state EXCEPT ![run.day] = NoStage]
    BY <1>13 DEF Clear
  <2>2. run.day # 0
    BY DayIsNotZero DEF TypeOK, Runs
  <2> QED
    BY <2>1, <2>2 DEF Job!Finished, JobDay, JobTodo, NoStage
<1>14. CASE Unmark
  BY <1>14 DEF Unmark, Job!vars, JobDay, JobTodo
<1>15. CASE Die
  <2>1. UNCHANGED <<run, at, state>> /\ pc # "idle" /\ pc' = "idle"
    BY <1>15 DEF Die, disk
  <2>2. CASE pc = "unmark"
    BY <2>1, <2>2 DEF Job!vars, JobDay, JobTodo
  <2>3. CASE pc # "unmark"
    <3>1. run.day # 0
      BY DayIsNotZero DEF TypeOK, Runs
    <3> QED
      BY <2>1, <2>3, <3>1 DEF Job!Dies, JobDay, JobTodo
  <2> QED
    BY <2>2, <2>3
<1>16. CASE \E s \in Solo : Standalone(s)
  <2>1. PICK s \in Solo : Standalone(s)
    BY <1>16
  <2>2. UNCHANGED state
    BY <2>1 DEF Standalone, StageWrites, StageBreaks
  <2> QED
    BY <2>1, <2>2, FrameJob DEF Standalone, runner
<1>17. CASE UNCHANGED vars
  BY <1>17, FrameJob DEF vars, disk, runner
<1> QED
  BY <1>1, <1>2, <1>3, <1>4, <1>5, <1>6, <1>7, <1>8, <1>9, <1>10, <1>11, <1>12,
     <1>13, <1>14, <1>15, <1>16, <1>17 DEF Next, RunnerStep, StageStep

\* The checkpoint of every day is kept as ResumableJob says: only a run's
\* ending changes it, to the stage that run could not finish or to none.
THEOREM CheckpointKept == Spec => ImplementsJob
<1>1. Spec => []ChainInv
  BY InitChain, StepChain, PTL DEF Spec
<1>2. Spec => Job!Spec
  BY <1>1, InitJob, StepJob, PTL DEF Spec, Job!Spec
<1> QED
  BY <1>2 DEF ImplementsJob

-----------------------------------------------------------------------------
(* No halt is lost and no success is without its outputs.  The commands    *)
(* are numbered in the order they start, which says of an output or of a   *)
(* checkpoint whether it is older than the run in flight.                  *)

RunIsLatest ==
    /\ run.no <= invs
    /\ \A d \in Days : owed[d].by <= invs
    /\ ~Idle => run.no >= 1 /\ \A d \in Days : owed[d].by < run.no

\* The marker precedes the checkpoint, and goes first when a run succeeds.
MarkIsMade ==
    pc \in {"unlink", "save"} =>
        marker[run.day] # NoStage \/ out[run.day][Ingest] > run.no

ClearIsDone == pc = "unmark" => state[run.day] = NoStage

HaltIsSaved ==
    Idle /\ outcome = "halted" => state[run.day] = at /\ owed[run.day].by = run.no

\* What a chain has completed is in the directory of its day.
GotIsThere ==
    /\ \A s \in run.got \cap Manifested : out[run.day][s] # 0
    /\ \A d \in Days : \A s \in owed[d].got \cap Manifested : out[d][s] # 0

\* An inductive strengthening of MidnightIsHarmless.
HaltInv ==
    /\ ChainInv
    /\ RunIsLatest /\ MarkIsMade /\ ClearIsDone /\ HaltIsSaved /\ GotIsThere
    /\ CheckpointIsAnnounced

LEMMA HaltInvIsHarmless == HaltInv => MidnightIsHarmless
<1> SUFFICES ASSUME HaltInv PROVE MidnightIsHarmless
  OBVIOUS
<1>1. HaltIsRecorded
  <2> SUFFICES ASSUME Idle, outcome = "halted"
               PROVE  /\ state[run.day] = at
                      /\ marker[run.day] # NoStage \/ out[run.day][Ingest] >= run.no
    BY DEF HaltIsRecorded
  <2>1. state[run.day] = at /\ owed[run.day].by = run.no
    BY DEF HaltInv, HaltIsSaved
  <2>2. /\ at # NoStage /\ run.day \in Days /\ run.no \in Nat
        /\ out[run.day][Ingest] \in Nat
    BY StageAssumption DEF HaltInv, ChainInv, TypeOK, Runs, Stages, NoStage, Ingest
  <2> QED
    BY <2>1, <2>2 DEF HaltInv, CheckpointIsAnnounced
<1>2. OkRunHasItsOutputs
  <2> SUFFICES ASSUME outcome = "ok", NEW s \in run.want \cap Manifested
               PROVE  out[run.day][s] # 0
    BY DEF OkRunHasItsOutputs
  <2>1. s \in Stages /\ s \notin Optional /\ s < LastStage + 1
    BY StageAssumption DEF HaltInv, ChainInv, TypeOK, Runs, Stages
  <2>2. s \in run.got
    BY <2>1 DEF HaltInv, ChainInv, ResumeSkipsNothing, CompletedBefore
  <2> QED
    BY <2>2 DEF HaltInv, GotIsThere
<1> QED
  BY <1>1, <1>2 DEF MidnightIsHarmless, HaltInv

LEMMA InitHalt == Init => HaltInv
<1> SUFFICES ASSUME Init PROVE HaltInv
  OBVIOUS
<1>1. ChainInv /\ TypeOK
  BY InitChain DEF ChainInv
<1> QED
  BY <1>1 DEF Init, HaltInv, RunIsLatest, MarkIsMade, ClearIsDone, HaltIsSaved,
     GotIsThere, CheckpointIsAnnounced, Idle, Nothing

\* What a stage, or a command, of number no does to the files of a day.
LEMMA StageEffects ==
    ASSUME TypeOK, NEW s \in Stages, NEW d \in Days, NEW no \in Nat,
           NEW side \in [Days -> Stages \cup {NoStage}],
           StageWrites(s, d, no, side) \/ StageBreaks(s, d, no, side)
    PROVE  /\ state' = state
           /\ \A e \in Days, u \in Stages : out'[e][u] = out[e][u] \/ out'[e][u] = no
           /\ \A e \in Days : marker'[e] = marker[e] \/ out'[e][Ingest] = no
<1>1. CASE StageWrites(s, d, no, side)
  <2>1. PICK t \in Days : /\ IsTarget(s, d, t)
                          /\ out' = Written(s, t, no)
                          /\ marker' = Withdrawn(s, d)
                          /\ UNCHANGED state
    BY <1>1 DEF StageWrites
  <2>2. \A e \in Days, u \in Stages : out'[e][u] = out[e][u] \/ out'[e][u] = no
    BY <2>1 DEF Written, TypeOK
  <2>3. CASE s = Ingest
    <3>1. Ingest # Decision
      BY StageAssumption DEF Ingest, Decision
    <3>2. t = d
      BY <2>1, <2>3, <3>1 DEF IsTarget
    <3>3. out'[d][Ingest] = no
      BY <2>1, <2>3, <3>2 DEF Written, TypeOK
    <3>4. \A e \in Days \ {d} : marker'[e] = marker[e]
      BY <2>1 DEF Withdrawn, TypeOK
    <3> QED
      BY <2>1, <2>2, <3>3, <3>4
  <2>4. CASE s # Ingest
    BY <2>1, <2>2, <2>4 DEF Withdrawn
  <2> QED
    BY <2>3, <2>4
<1>2. CASE StageBreaks(s, d, no, side)
  <2>1. out' = out \/ out' = Written(s, d, no)
    BY <1>2 DEF StageBreaks
  <2>2. UNCHANGED <<marker, state>>
    BY <1>2 DEF StageBreaks
  <2>3. \A e \in Days, u \in Stages : out'[e][u] = out[e][u] \/ out'[e][u] = no
    <3>1. CASE out' = Written(s, d, no)
      BY <3>1 DEF Written, TypeOK
    <3> QED
      BY <2>1, <3>1
  <2> QED
    BY <2>2, <2>3
<1> QED
  BY <1>1, <1>2

\* A stage of a number later than every checkpoint, and than a run that has
\* left its mark, keeps the invariant.
LEMMA StageHalt ==
    ASSUME HaltInv, ChainInv', NEW no \in Nat, no >= 1,
           \A e \in Days, u \in Stages : out'[e][u] = out[e][u] \/ out'[e][u] = no,
           \A e \in Days : marker'[e] = marker[e] \/ out'[e][Ingest] = no,
           \A d \in Days : owed[d].by < no,
           pc \in {"unlink", "save"} => run.no < no,
           UNCHANGED <<run, at, state, owed, outcome>>,
           pc' = pc \/ (pc = "body" /\ pc' \in {"check", "mark"}),
           invs' \in Nat, invs' >= invs
    PROVE  HaltInv'
<1> TypeOK /\ TypeOK' /\ Ingest \in Stages
  BY StageAssumption DEF HaltInv, ChainInv, Stages, Ingest
<1>1. run.day \in Days /\ run.no \in Nat /\ run.got \subseteq Stages
      /\ \A d \in Days : owed[d].by \in Nat /\ owed[d].got \subseteq Stages
  BY DEF TypeOK, Runs
<1>2. \A d \in Days : out[d][Ingest] \in Nat /\ out'[d][Ingest] \in Nat
  BY DEF TypeOK
<1>3. RunIsLatest'
  BY <1>1 DEF HaltInv, RunIsLatest, Idle, TypeOK
<1>4. MarkIsMade'
  BY <1>1, <1>2 DEF HaltInv, MarkIsMade
<1>5. ClearIsDone' /\ HaltIsSaved'
  BY DEF HaltInv, ClearIsDone, HaltIsSaved, Idle
<1>6. GotIsThere'
  BY <1>1 DEF HaltInv, GotIsThere
<1>7. CheckpointIsAnnounced'
  BY <1>1, <1>2 DEF HaltInv, CheckpointIsAnnounced
<1> QED
  BY <1>3, <1>4, <1>5, <1>6, <1>7 DEF HaltInv

LEMMA LaunchHalt ==
    ASSUME HaltInv, ChainInv', NEW first, NEW plan, NEW want, NEW got,
           Launch(first, plan, want, got),
           \A s \in got \cap Manifested : out[clock][s] # 0
    PROVE  HaltInv'
<1>1. /\ run'.no = invs + 1 /\ invs' = invs + 1 /\ run'.day = clock /\ run'.got = got
      /\ pc' = "begin" /\ outcome' = "none" /\ UNCHANGED <<marker, state, out, owed>>
  BY DEF Launch
<1>2. invs \in Nat /\ \A d \in Days : owed[d].by \in Nat
  BY DEF HaltInv, ChainInv, TypeOK
<1>3. RunIsLatest'
  BY <1>1, <1>2 DEF HaltInv, RunIsLatest, Idle
<1>4. MarkIsMade' /\ ClearIsDone' /\ HaltIsSaved'
  BY <1>1 DEF MarkIsMade, ClearIsDone, HaltIsSaved, Idle
<1>5. GotIsThere' /\ CheckpointIsAnnounced'
  BY <1>1 DEF HaltInv, GotIsThere, CheckpointIsAnnounced
<1> QED
  BY <1>3, <1>4, <1>5 DEF HaltInv

LEMMA StepHalt == HaltInv /\ [Next]_vars => HaltInv'
<1> SUFFICES ASSUME HaltInv, [Next]_vars PROVE HaltInv'
  OBVIOUS
<1> ChainInv /\ ChainInv' /\ TypeOK /\ TypeOK'
  BY StepChain DEF HaltInv, ChainInv
<1> USE DEF HaltInv
<1>0. /\ run.day \in Days /\ run.no \in Nat /\ invs \in Nat /\ at \in Stages
      /\ \A d \in Days : owed[d].by \in Nat
  BY DEF TypeOK, Runs
<1>1. CASE Tick \/ Refuse \/ UNCHANGED vars
  BY <1>1 DEF Tick, Refuse, vars, disk, runner, RunIsLatest, MarkIsMade, ClearIsDone,
     HaltIsSaved, GotIsThere, CheckpointIsAnnounced, Idle
<1>2. CASE Start
  BY <1>2, LaunchHalt DEF Start
<1>3. CASE Resume
  <2>1. PICK research \in BOOLEAN :
          LET plan == PlanFrom(state[clock], FALSE, research)
          IN  Launch(state[clock], plan, owed[clock].want \cup plan, owed[clock].got)
    BY <1>3 DEF Resume
  <2>2. \A s \in owed[clock].got \cap Manifested : out[clock][s] # 0
    BY DEF GotIsThere, TypeOK
  <2> QED
    BY <2>1, <2>2, LaunchHalt
<1>4. CASE StageBegins
  BY <1>4 DEF StageBegins, RunIsLatest, MarkIsMade, ClearIsDone,
     HaltIsSaved, GotIsThere, CheckpointIsAnnounced, Idle
<1>5. CASE StageSucceeds
  <2>1. pc = "body" /\ pc' = "check" /\ UNCHANGED <<run, at, outcome, invs, owed>>
        /\ run.no >= 1 /\ \A d \in Days : owed[d].by < run.no
    BY <1>5 DEF StageSucceeds, RunIsLatest, Idle
  <2>2. /\ state' = state
        /\ \A e \in Days, u \in Stages : out'[e][u] = out[e][u] \/ out'[e][u] = run.no
        /\ \A e \in Days : marker'[e] = marker[e] \/ out'[e][Ingest] = run.no
    <3>1. CASE StageWrites(at, sday, run.no, sidecar)
      BY <1>0, <3>1, StageEffects DEF TypeOK
    <3>2. CASE StageWritesNothing(at)
      BY <3>2 DEF StageWritesNothing, disk
    <3> QED
      BY <1>5, <3>1, <3>2 DEF StageSucceeds
  <2> QED
    BY <1>0, <2>1, <2>2, StageHalt
<1>6. CASE StageFails
  <2>1. pc = "body" /\ pc' = "mark" /\ UNCHANGED <<run, at, outcome, invs, owed>>
        /\ run.no >= 1 /\ \A d \in Days : owed[d].by < run.no
    BY <1>6 DEF StageFails, RunIsLatest, Idle
  <2>2. /\ state' = state
        /\ \A e \in Days, u \in Stages : out'[e][u] = out[e][u] \/ out'[e][u] = run.no
        /\ \A e \in Days : marker'[e] = marker[e] \/ out'[e][Ingest] = run.no
    BY <1>0, <1>6, StageEffects DEF StageFails, TypeOK
  <2> QED
    BY <1>0, <2>1, <2>2, StageHalt
<1>7. CASE CheckFails
  BY <1>7 DEF CheckFails, RunIsLatest, MarkIsMade, ClearIsDone, HaltIsSaved,
     GotIsThere, CheckpointIsAnnounced, Idle
<1>8. CASE CheckPasses
  <2>1. /\ run'.got = run.got \cup {at} /\ run'.no = run.no /\ run'.day = run.day
        /\ UNCHANGED <<marker, state, out, owed, outcome, invs>>
        /\ pc = "check" /\ pc' \in {"clear", "begin"} /\ ~OutputsMissing
    BY <1>8 DEF CheckPasses, TypeOK, Runs, disk
  <2>2. GotIsThere'
    BY <2>1 DEF GotIsThere, OutputsMissing
  <2> QED
    BY <2>1, <2>2 DEF RunIsLatest, MarkIsMade, ClearIsDone, HaltIsSaved,
       CheckpointIsAnnounced, Idle
<1>9. CASE Mark
  <2>1. /\ pc = "mark" /\ pc' \in {"unlink", "save"}
        /\ marker' = [marker EXCEPT ![run.day] = Named]
        /\ UNCHANGED <<run, at, state, out, owed, outcome, invs>>
    BY <1>9 DEF Mark, MarkIn
  <2>2. Named # NoStage
    BY <1>0, StageAssumption DEF Named, Stages, NoStage
  <2>3. /\ marker'[run.day] # NoStage
        /\ \A d \in Days \ {run.day} : marker'[d] = marker[d]
    BY <1>0, <2>1, <2>2 DEF TypeOK
  <2>4. CheckpointIsAnnounced' /\ MarkIsMade'
    BY <2>1, <2>3 DEF CheckpointIsAnnounced, MarkIsMade
  <2> QED
    BY <2>1, <2>4 DEF RunIsLatest, ClearIsDone, HaltIsSaved, GotIsThere, Idle
<1>10. CASE Unlink
  BY <1>10 DEF Unlink, RunIsLatest, MarkIsMade, ClearIsDone, HaltIsSaved, GotIsThere,
     CheckpointIsAnnounced, Idle
<1>11. CASE Save
  <2>1. /\ pc = "save" /\ pc' = "idle" /\ outcome' = "halted"
        /\ state' = [state EXCEPT ![run.day] = at]
        /\ owed' = [owed EXCEPT ![run.day] =
                      [want |-> run.want, got |-> run.got, by |-> run.no]]
        /\ UNCHANGED <<run, at, marker, out, invs>>
    BY <1>11 DEF Save, SaveAs
  <2>2. /\ state'[run.day] = at /\ owed'[run.day].by = run.no
        /\ owed'[run.day].got = run.got
        /\ \A d \in Days \ {run.day} : state'[d] = state[d] /\ owed'[d] = owed[d]
    BY <1>0, <2>1 DEF TypeOK
  <2>3. CheckpointIsAnnounced'
    BY <1>0, <2>1, <2>2 DEF CheckpointIsAnnounced, MarkIsMade
  <2>4. RunIsLatest'
    BY <1>0, <2>1, <2>2 DEF RunIsLatest, Idle
  <2>5. HaltIsSaved' /\ MarkIsMade' /\ ClearIsDone'
    BY <2>1, <2>2 DEF HaltIsSaved, MarkIsMade, ClearIsDone
  <2>6. GotIsThere'
    BY <2>1, <2>2 DEF GotIsThere
  <2> QED
    BY <2>3, <2>4, <2>5, <2>6
<1>12. CASE Clear
  <2>1. /\ pc = "clear" /\ pc' = "unmark"
        /\ state' = [state EXCEPT ![run.day] = NoStage]
        /\ owed' = [owed EXCEPT ![run.day] = Nothing]
        /\ UNCHANGED <<run, at, marker, out, invs, outcome>>
    BY <1>12 DEF Clear
  <2>2. /\ state'[run.day] = NoStage /\ owed'[run.day].by = 0
        /\ owed'[run.day].got = {}
        /\ \A d \in Days \ {run.day} : state'[d] = state[d] /\ owed'[d] = owed[d]
    BY <1>0, <2>1 DEF TypeOK, Nothing
  <2>3. CheckpointIsAnnounced' /\ GotIsThere'
    BY <2>1, <2>2 DEF CheckpointIsAnnounced, GotIsThere
  <2>4. RunIsLatest'
    BY <1>0, <2>1, <2>2 DEF RunIsLatest, Idle
  <2>5. HaltIsSaved' /\ MarkIsMade' /\ ClearIsDone'
    BY <2>1, <2>2 DEF HaltIsSaved, MarkIsMade, ClearIsDone, Idle
  <2> QED
    BY <2>3, <2>4, <2>5
<1>13. CASE Unmark
  <2>1. /\ pc = "unmark" /\ pc' = "idle" /\ outcome' = "ok"
        /\ marker' = [marker EXCEPT ![run.day] = NoStage]
        /\ UNCHANGED <<run, at, state, owed, out, invs>>
    BY <1>13 DEF Unmark
  <2>2. \A d \in Days \ {run.day} : marker'[d] = marker[d]
    BY <2>1 DEF TypeOK
  <2>3. CheckpointIsAnnounced'
    BY <2>1, <2>2 DEF CheckpointIsAnnounced, ClearIsDone
  <2> QED
    BY <2>1, <2>3 DEF RunIsLatest, MarkIsMade, ClearIsDone, HaltIsSaved, GotIsThere, Idle
<1>14. CASE Die
  BY <1>14 DEF Die, disk, RunIsLatest, MarkIsMade, ClearIsDone, HaltIsSaved, GotIsThere,
     CheckpointIsAnnounced, Idle
<1>15. CASE \E s \in Solo : Standalone(s)
  <2>1. PICK s \in Solo : Standalone(s)
    BY <1>15
  <2>2. /\ s \in Stages /\ invs' = invs + 1 /\ clock \in Days
        /\ StaleGuard(s, clock) \in [Days -> Stages \cup {NoStage}]
        /\ UNCHANGED <<pc, run, at, outcome, owed>>
    BY <2>1, StageAssumption DEF Standalone, TypeOK, StaleGuard, runner
  <2>3. /\ state' = state
        /\ \A e \in Days, u \in Stages : out'[e][u] = out[e][u] \/ out'[e][u] = invs'
        /\ \A e \in Days : marker'[e] = marker[e] \/ out'[e][Ingest] = invs'
    <3>1. invs' \in Nat
      BY <1>0, <2>2
    <3>2. \/ StageWrites(s, clock, invs', StaleGuard(s, clock))
          \/ StageBreaks(s, clock, invs', StaleGuard(s, clock))
      BY <2>1 DEF Standalone
    <3> QED
      BY <2>2, <3>1, <3>2, StageEffects
  <2>4. /\ invs' \in Nat /\ invs' >= 1 /\ invs' >= invs /\ run.no < invs'
        /\ \A d \in Days : owed[d].by < invs'
    BY <1>0, <2>2 DEF RunIsLatest
  <2> QED
    BY <2>2, <2>3, <2>4, StageHalt
<1> QED
  BY <1>1, <1>2, <1>3, <1>4, <1>5, <1>6, <1>7, <1>8, <1>9, <1>10, <1>11, <1>12,
     <1>13, <1>14, <1>15 DEF Next, RunnerStep, StageStep

\* However midnights, kills, silent stages and other commands fall into a run,
\* a halt can be found and resumed and none is unannounced, and no run succeeds
\* without the outputs of its chain.
THEOREM HaltsAreKept == Spec => []MidnightIsHarmless
BY InitHalt, StepHalt, HaltInvIsHarmless, PTL DEF Spec

-----------------------------------------------------------------------------
(* A run that starts with ingest and sees no midnight tells no lies.  Its  *)
(* ingest has removed the marker and the sidecar of older runs, and while  *)
(* no other command runs beside it nothing can put them back.              *)

Today == run.first = Ingest /\ clock = run.day

DayIsThere ==
    /\ run.day <= clock
    /\ ~Idle \/ outcome # "none" => run.day \in dirs

StageIsOfTheDay == Today /\ pc \in {"body", "check"} => sday = run.day

PastIngest ==
    \/ pc \in {"check", "clear", "unmark"}
    \/ pc \in {"begin", "body"} /\ at # Ingest
    \/ Idle /\ outcome = "ok"

NoMarker == Today /\ PastIngest => marker[run.day] = NoStage

NoSidecar ==
    Today /\ (pc \in {"body", "check"} \/ (pc = "begin" /\ at # Ingest)) =>
        sidecar[run.day] = NoStage

\* From the failure on, what is on disk is this run's.
OwnHalt ==
    Today =>
        /\ pc = "mark" => sidecar[run.day] \in {NoStage, at}
        /\ pc \in {"unlink", "save"} => marker[run.day] = at
        /\ Idle /\ outcome = "halted" => marker[run.day] \in {at, NoStage}

PastDecision ==
    \/ pc \in {"clear", "unmark"}
    \/ pc = "check" /\ at = Decision
    \/ Idle /\ outcome = "ok"

CleanSheet ==
    Today /\ Decision \in run.plan /\ PastDecision => sheet[run.day] # "halted"

\* An inductive strengthening of FullRunIsSound.
FullInv ==
    /\ ChainInv
    /\ DayIsThere /\ StageIsOfTheDay /\ NoMarker /\ NoSidecar /\ OwnHalt /\ CleanSheet

LEMMA FullInvIsSound == FullInv => FullRunIsSound
BY DEF FullInv, FullRunIsSound, FullRunNamesItsStage, HaltNamesItsStage,
       FullRunSheetIsClean, OkSheetIsClean, OwnHalt, CleanSheet, PastDecision, Today

LEMMA InitFull == Init => FullInv
<1> SUFFICES ASSUME Init PROVE FullInv
  OBVIOUS
<1>1. ChainInv
  BY InitChain
<1> QED
  BY <1>1 DEF Init, FullInv, DayIsThere, StageIsOfTheDay, NoMarker, NoSidecar, OwnHalt,
     CleanSheet, PastIngest, PastDecision, Idle

\* What a stage writes, by its day.
LEMMA StageOfTheDay ==
    ASSUME TypeOK, NEW s \in Stages, NEW d \in dirs, NEW no \in Nat,
           NEW side \in [Days -> Stages \cup {NoStage}],
           StageWrites(s, d, no, side)
    PROVE  /\ sidecar' = side /\ dirs \subseteq dirs'
           /\ \A e \in Days : marker'[e] \in {marker[e], NoStage}
           /\ s = Ingest => marker'[d] = NoStage
           /\ s # Decision => sheet' = sheet
           /\ s = Decision => /\ \A e \in Days \ {d} : sheet'[e] = sheet[e]
                              /\ marker[d] = NoStage => sheet'[d] = "clear"
<1>1. PICK t \in Days :
        /\ IsTarget(s, d, t)
        /\ dirs' = IF s = Ingest THEN dirs ELSE dirs \cup {t}
        /\ marker' = Withdrawn(s, d)
        /\ sheet' = IF s = Decision
                    THEN [sheet EXCEPT ![t] = IF marker[t] = NoStage
                                              THEN "clear" ELSE "halted"]
                    ELSE sheet
        /\ sidecar' = side
  BY DEF StageWrites
<1>2. d \in Days /\ t = d
  BY <1>1 DEF IsTarget, TypeOK
<1>3. /\ \A e \in Days : marker'[e] \in {marker[e], NoStage}
      /\ s = Ingest => marker'[d] = NoStage
  BY <1>1, <1>2 DEF Withdrawn, TypeOK
<1>4. s = Decision => /\ \A e \in Days \ {d} : sheet'[e] = sheet[e]
                      /\ marker[d] = NoStage => sheet'[d] = "clear"
  BY <1>1, <1>2 DEF TypeOK
<1> QED
  BY <1>1, <1>3, <1>4

LEMMA LaunchFull ==
    ASSUME FullInv, ChainInv', NEW first, NEW plan, NEW want, NEW got,
           Launch(first, plan, want, got)
    PROVE  FullInv'
<1>1. /\ run'.day = clock /\ run'.first = first /\ at' = first /\ pc' = "begin"
      /\ clock' = clock /\ clock \in dirs' /\ clock \in Int
  BY DEF Launch, FullInv, ChainInv, TypeOK, Days
<1>2. DayIsThere'
  BY <1>1 DEF DayIsThere, Idle
<1> QED
  BY <1>1, <1>2 DEF FullInv, StageIsOfTheDay, NoMarker, NoSidecar, OwnHalt,
     CleanSheet, PastIngest, PastDecision, Today, Idle

LEMMA StepFull ==
    ASSUME ~Overlap
    PROVE  FullInv /\ [Next]_vars => FullInv'
<1> SUFFICES ASSUME FullInv, [Next]_vars PROVE FullInv'
  OBVIOUS
<1> ChainInv /\ ChainInv' /\ TypeOK /\ TypeOK'
  BY StepChain DEF FullInv, ChainInv
<1> USE DEF FullInv
<1>0. /\ run.day \in Days /\ run.no \in Nat /\ at \in Stages /\ run.day \in Int
      /\ clock \in Days /\ clock \in Int
      /\ Ingest \in Stages /\ Decision \in Stages /\ Ingest # Decision
  BY StageAssumption DEF TypeOK, Runs, Days, Stages, Ingest, Decision
<1>1. CASE Tick
  <2>1. clock' = clock + 1 /\ UNCHANGED <<run, pc, outcome, dirs>>
    BY <1>1 DEF Tick, runner, disk
  <2>2. ~Today' /\ DayIsThere'
    BY <1>0, <2>1 DEF DayIsThere, Today, Idle
  <2> QED
    BY <2>2 DEF StageIsOfTheDay, NoMarker, NoSidecar, OwnHalt, CleanSheet
<1>2. CASE Refuse \/ UNCHANGED vars
  BY <1>2 DEF Refuse, vars, disk, runner, DayIsThere, StageIsOfTheDay, NoMarker,
     NoSidecar, OwnHalt, CleanSheet, PastIngest, PastDecision, Today, Idle
<1>3. CASE Start \/ Resume
  BY <1>3, LaunchFull DEF Start, Resume
<1>4. CASE StageBegins
  <2>1. /\ pc = "begin" /\ pc' = "body" /\ sday' = clock
        /\ sidecar' = StaleGuard(at, clock)
        /\ UNCHANGED <<clock, dirs, marker, sheet, run, at, outcome>>
    BY <1>4 DEF StageBegins
  <2>2. NoSidecar'
    BY <1>0, <2>1 DEF NoSidecar, StaleGuard, Today, TypeOK
  <2> QED
    BY <2>1, <2>2 DEF DayIsThere, StageIsOfTheDay, NoMarker, OwnHalt, CleanSheet,
       PastIngest, PastDecision, Today, Idle
<1>5. CASE StageSucceeds
  <2>1. /\ pc = "body" /\ pc' = "check" /\ UNCHANGED <<clock, run, at, sday, outcome>>
        /\ run.day \in dirs
    BY <1>5 DEF StageSucceeds, DayIsThere, Idle
  <2>2. CASE StageWritesNothing(at)
    <3>1. at # Ingest /\ at # Decision
      BY <2>2, StageAssumption DEF StageWritesNothing
    <3> QED
      BY <2>1, <2>2, <3>1 DEF StageWritesNothing, disk, DayIsThere, StageIsOfTheDay,
         NoMarker, NoSidecar, OwnHalt, CleanSheet, PastIngest, PastDecision, Today, Idle
  <2>3. CASE StageWrites(at, sday, run.no, sidecar)
    <3>1. dirs \subseteq dirs' /\ DayIsThere'
      <4>1. dirs \subseteq dirs'
        BY <2>3 DEF StageWrites
      <4> QED
        BY <2>1, <4>1 DEF DayIsThere
    <3>2. CASE ~Today
      <4>1. ~Today'
        BY <2>1, <3>2 DEF Today
      <4> QED
        BY <3>1, <4>1 DEF StageIsOfTheDay, NoMarker, NoSidecar, OwnHalt, CleanSheet
    <3>3. CASE Today
      <4>1. sday = run.day /\ sidecar[run.day] = NoStage
        BY <2>1, <3>3 DEF StageIsOfTheDay, NoSidecar
      <4>2. /\ sidecar' = sidecar
            /\ marker'[run.day] \in {marker[run.day], NoStage}
            /\ at = Ingest => marker'[run.day] = NoStage
            /\ at = Decision /\ marker[run.day] = NoStage => sheet'[run.day] = "clear"
        BY <1>0, <2>1, <2>3, <4>1, StageOfTheDay DEF TypeOK
      <4>3. at # Ingest => marker[run.day] = NoStage
        BY <2>1, <3>3 DEF NoMarker, PastIngest
      <4> QED
        BY <1>0, <2>1, <3>1, <4>1, <4>2, <4>3 DEF StageIsOfTheDay, NoMarker, NoSidecar,
           OwnHalt, CleanSheet, PastIngest, PastDecision, Today, Idle
    <3> QED
      BY <3>2, <3>3
  <2> QED
    BY <1>5, <2>2, <2>3 DEF StageSucceeds
<1>6. CASE StageFails
  <2>1. /\ pc = "body" /\ pc' = "mark"
        /\ UNCHANGED <<clock, run, at, sday, outcome, marker, sheet>>
        /\ dirs \subseteq dirs'
        /\ \/ sidecar' = sidecar
           \/ at = Ingest /\ sidecar' = [sidecar EXCEPT ![sday] = Ingest]
    <3>1. StageBreaks(at, sday, run.no, sidecar)
      BY <1>6 DEF StageFails
    <3>2. dirs \subseteq dirs' /\ UNCHANGED <<marker, sheet>>
      BY <3>1 DEF StageBreaks
    <3>3. \/ sidecar' = sidecar
          \/ at = Ingest /\ sidecar' = [sidecar EXCEPT ![sday] = Ingest]
      BY <3>1 DEF StageBreaks
    <3> QED
      BY <1>6, <3>2, <3>3 DEF StageFails
  <2>2. Today => sidecar'[run.day] \in {NoStage, at}
    BY <1>0, <2>1 DEF StageIsOfTheDay, NoSidecar, TypeOK
  <2> QED
    BY <2>1, <2>2 DEF DayIsThere, StageIsOfTheDay, NoMarker, NoSidecar, OwnHalt, CleanSheet,
       PastIngest, PastDecision, Today, Idle
<1>7. CASE CheckFails
  <2>1. /\ pc = "check" /\ pc' = "mark" /\ sidecar' = [sidecar EXCEPT ![run.day] = at]
        /\ UNCHANGED <<clock, dirs, marker, sheet, run, at, sday, outcome>>
    BY <1>7 DEF CheckFails
  <2>2. sidecar'[run.day] = at
    BY <1>0, <2>1 DEF TypeOK
  <2> QED
    BY <2>1, <2>2 DEF DayIsThere, StageIsOfTheDay, NoMarker, NoSidecar, OwnHalt, CleanSheet,
       PastIngest, PastDecision, Today, Idle
<1>8. CASE CheckPasses
  <2>1. /\ run'.plan = run.plan /\ run'.first = run.first /\ run'.day = run.day
        /\ UNCHANGED <<clock, dirs, marker, sidecar, sheet, sday, outcome>>
        /\ pc = "check"
        /\ \/ Later = {} /\ pc' = "clear" /\ at' = at
           \/ at' \in Later /\ pc' = "begin"
    BY <1>8 DEF CheckPasses, TypeOK, Runs, disk
  <2>2. at' \in Later => at' # Ingest
    BY <1>0 DEF Later, Stages, Ingest, TypeOK, Runs
  <2>3. Later = {} /\ Decision \in run.plan => at = Decision
    BY <1>0, StageAssumption DEF Later, Stages, Decision
  <2>4. DayIsThere' /\ StageIsOfTheDay' /\ NoMarker' /\ NoSidecar' /\ OwnHalt'
    BY <2>1, <2>2 DEF DayIsThere, StageIsOfTheDay, NoMarker, NoSidecar, OwnHalt,
       PastIngest, Today, Idle
  <2>5. CleanSheet'
    BY <2>1, <2>3 DEF CleanSheet, PastDecision, Today, Idle
  <2> QED
    BY <2>4, <2>5
<1>9. CASE Mark
  <2>1. /\ pc = "mark" /\ pc' \in {"unlink", "save"}
        /\ marker' = [marker EXCEPT ![run.day] = Named]
        /\ UNCHANGED <<clock, dirs, sheet, run, at, outcome>>
    BY <1>9 DEF Mark, MarkIn
  <2>2. Today => marker'[run.day] = at
    BY <1>0, <2>1 DEF OwnHalt, Named, TypeOK
  <2> QED
    BY <2>1, <2>2 DEF DayIsThere, StageIsOfTheDay, NoMarker, NoSidecar, OwnHalt, CleanSheet,
       PastIngest, PastDecision, Today, Idle
<1>10. CASE Unlink \/ Save \/ Clear \/ Die
  BY <1>10 DEF Unlink, Save, SaveAs, Clear, Die, disk, DayIsThere, StageIsOfTheDay, NoMarker,
     NoSidecar, OwnHalt, CleanSheet, PastIngest, PastDecision, Today, Idle
<1>11. CASE Unmark
  <2>1. /\ pc = "unmark" /\ pc' = "idle" /\ outcome' = "ok"
        /\ marker' = [marker EXCEPT ![run.day] = NoStage]
        /\ UNCHANGED <<clock, dirs, sheet, run, at>>
    BY <1>11 DEF Unmark
  <2>2. marker'[run.day] = NoStage
    BY <1>0, <2>1 DEF TypeOK
  <2> QED
    BY <2>1, <2>2 DEF DayIsThere, StageIsOfTheDay, NoMarker, NoSidecar, OwnHalt, CleanSheet,
       PastIngest, PastDecision, Today, Idle
<1>12. CASE \E s \in Solo : Standalone(s)
  <2>1. PICK s \in Solo : Standalone(s)
    BY <1>12
  <2>2. /\ s \in Stages /\ invs' \in Nat /\ pc = "idle"
        /\ StaleGuard(s, clock) \in [Days -> Stages \cup {NoStage}]
        /\ UNCHANGED <<clock, pc, run, at, sday, outcome>>
    BY <2>1, StageAssumption DEF Standalone, TypeOK, StaleGuard, runner
  <2>3. /\ dirs \subseteq dirs'
        /\ Today /\ outcome # "none" =>
             /\ marker'[run.day] \in {marker[run.day], NoStage}
             /\ marker[run.day] = NoStage => sheet'[run.day] \in {sheet[run.day], "clear"}
    <3>1. CASE StageWrites(s, clock, invs', StaleGuard(s, clock))
      <4>1. dirs \subseteq dirs'
        BY <3>1 DEF StageWrites
      <4>2. ASSUME Today, outcome # "none"
            PROVE  /\ marker'[run.day] \in {marker[run.day], NoStage}
                   /\ marker[run.day] = NoStage => sheet'[run.day] \in {sheet[run.day], "clear"}
        <5>1. clock \in dirs /\ clock = run.day
          BY <4>2 DEF Today, DayIsThere
        <5> QED
          BY <1>0, <2>2, <3>1, <5>1, StageOfTheDay
      <4> QED
        BY <4>1, <4>2
    <3>2. CASE StageBreaks(s, clock, invs', StaleGuard(s, clock))
      BY <3>2 DEF StageBreaks
    <3> QED
      BY <2>1, <3>1, <3>2 DEF Standalone
  <2>4. DayIsThere'
    BY <2>2, <2>3 DEF DayIsThere, Idle
  <2>5. StageIsOfTheDay' /\ NoSidecar'
    BY <2>2 DEF StageIsOfTheDay, NoSidecar
  <2>6. NoMarker' /\ OwnHalt'
    BY <2>2, <2>3 DEF NoMarker, OwnHalt, PastIngest, Today, Idle
  <2>7. CleanSheet'
    BY <2>2, <2>3 DEF NoMarker, CleanSheet, PastIngest, PastDecision, Today, Idle
  <2> QED
    BY <2>4, <2>5, <2>6, <2>7
<1> QED
  BY <1>1, <1>2, <1>3, <1>4, <1>5, <1>6, <1>7, <1>8, <1>9, <1>10, <1>11, <1>12
     DEF Next, RunnerStep, StageStep

\* While nothing else runs beside it, a run that starts with ingest and ends on
\* its day names the stage it halted at and leaves a sheet no older halt blocks,
\* whatever kills and silent stages there are and whatever came before it.
THEOREM FullRunsAreSound ==
    ASSUME ~Overlap
    PROVE  Spec => []FullRunIsSound
BY InitFull, StepFull, FullInvIsSound, PTL DEF Spec

-----------------------------------------------------------------------------
(* A calm day: runs only, one after the other, none killed, and no stage   *)
(* that says it wrote what it did not.                                     *)

\* The actions of Calm, Launch without its bound on the commands.
Launches(first, plan, want, got) ==
    /\ pc = "idle" /\ pc' = "begin"
    /\ invs' = invs + 1
    /\ run' = [no |-> invs', day |-> clock, first |-> first, plan |-> plan,
               want |-> want, got |-> got]
    /\ at' = first /\ outcome' = "none"
    /\ dirs' = dirs \cup {clock}
    /\ UNCHANGED <<clock, marker, state, sidecar, out, sheet, sday, owed>>

Starts ==
    \E first \in Stages, only, research \in BOOLEAN :
        Launches(first, PlanFrom(first, only, research), PlanFrom(first, only, research), {})

Resumes ==
    \E research \in BOOLEAN :
        /\ state[clock] # NoStage
        /\ Launches(state[clock], PlanFrom(state[clock], FALSE, research),
                    owed[clock].want \cup PlanFrom(state[clock], FALSE, research),
                    owed[clock].got)

StageWritten ==
    /\ pc = "body" /\ pc' = "check"
    /\ StageWrites(at, sday, run.no, sidecar)
    /\ UNCHANGED <<clock, run, at, sday, outcome, invs, owed>>

CalmStep ==
    /\ UNCHANGED clock
    /\ \/ Starts \/ Resumes \/ Refuse
       \/ StageBegins \/ StageWritten \/ StageFails
       \/ CheckFails \/ CheckPasses \/ Mark \/ Unlink \/ Save \/ Clear \/ Unmark

LEMMA CalmSteps == clock \in Days /\ Calm!Next /\ UNCHANGED clock => CalmStep
<1>. SUFFICES ASSUME clock \in Days, Calm!Next, UNCHANGED clock PROVE CalmStep
  OBVIOUS
<1>. USE DEF CalmStep
<1>1. CASE Calm!Start
  BY <1>1 DEF Calm!Start, Calm!Launch, Calm!PlanFrom, Calm!Stages, Calm!NoStage,
              Starts, Launches, PlanFrom, Stages
<1>2. CASE Calm!Resume
  BY <1>2 DEF Calm!Resume, Calm!Launch, Calm!PlanFrom, Calm!Stages, Calm!NoStage,
              Resumes, Launches, PlanFrom, Stages, NoStage
<1>3. CASE Calm!Refuse
  BY <1>3 DEF Calm!Refuse, Calm!runner, Refuse, runner
<1>4. CASE Calm!StageBegins
  BY <1>4 DEF Calm!StageBegins, Calm!StaleGuard, Calm!Ingest, Calm!NoStage,
              StageBegins, StaleGuard, Ingest, NoStage
<1>5. CASE Calm!StageSucceeds
  <2>1. ~Calm!StageWritesNothing(at)
    BY DEF Calm!StageWritesNothing, None
  <2>. QED
    BY <1>5, <2>1 DEF Calm!StageSucceeds, Calm!StageWrites, Calm!IsTarget, Calm!InputsReady,
       Calm!Written, Calm!Withdrawn, Calm!Days, Calm!Decision, Calm!Ingest, Calm!NoStage,
       StageWritten, StageWrites, IsTarget, InputsReady, Written, Withdrawn, Days,
       Decision, Ingest, NoStage
<1>6. CASE Calm!StageFails
  BY <1>6 DEF Calm!StageFails, Calm!StageBreaks, Calm!Written, Calm!Decision, Calm!Ingest,
              Calm!Memo, StageFails, StageBreaks, Written, Decision, Ingest, Memo
<1>7. CASE Calm!CheckFails
  BY <1>7 DEF Calm!CheckFails, Calm!OutputsMissing, CheckFails, OutputsMissing
<1>8. CASE Calm!CheckPasses
  BY <1>8 DEF Calm!CheckPasses, Calm!OutputsMissing, Calm!Later, Calm!disk,
              CheckPasses, OutputsMissing, Later, disk
<1>9. CASE Calm!Mark
  BY <1>9 DEF Calm!Mark, Calm!MarkIn, Calm!Named, Calm!NoStage, Mark, MarkIn, Named, NoStage
<1>10. CASE Calm!Unlink
  BY <1>10 DEF Calm!Unlink, Calm!NoStage, Unlink, NoStage
<1>11. CASE Calm!Save
  BY <1>11 DEF Calm!Save, Calm!SaveAs, Save, SaveAs
<1>12. CASE Calm!Clear
  BY <1>12 DEF Calm!Clear, Calm!Nothing, Calm!NoStage, Clear, Nothing, NoStage
<1>13. CASE Calm!Unmark
  BY <1>13 DEF Calm!Unmark, Calm!NoStage, Unmark, NoStage
<1>14. ~Calm!Tick /\ ~Calm!Die /\ ~(\E s \in None : Calm!Standalone(s))
  <2>1. clock' # clock \/ ~Calm!Tick
    BY EnvironmentAssumption DEF Calm!Tick, Days
  <2>. QED
    BY <2>1 DEF Calm!Die, None
<1>. QED
  BY <1>1, <1>2, <1>3, <1>4, <1>5, <1>6, <1>7, <1>8, <1>9, <1>10, <1>11, <1>12, <1>13, <1>14
     DEF Calm!Next, Calm!RunnerStep, Calm!StageStep

-----------------------------------------------------------------------------
\* What a stage left behind: nothing it was made from is newer.
Ordered(s) == \A n \in Needs[s] \cap Manifested : out[clock][n] <= out[clock][s]

\* The part of a chain that is behind the runner, once it has not failed.
Behind(s) ==
    \/ s < at
    \/ pc = "check" /\ s = at
    \/ pc \in {"clear", "unmark", "idle"}

Sound == ~Idle \/ outcome = "ok"

CalmDay ==
    /\ run.day = clock
    /\ run.no = invs
    /\ \A s \in Stages : out[clock][s] <= run.no
    /\ pc \in {"body", "check"} => sday = clock
    /\ ~Idle => clock \in dirs

CalmPlan ==
    /\ PlanCovers
    /\ AtIsPlanned
    /\ pc \in {"clear", "unmark"} => \A s \in run.plan : s <= at

CalmWritten ==
    Sound => \A s \in run.plan \cap Manifested : Behind(s) => out[clock][s] >= run.no

CalmOrdered ==
    /\ Sound => \A s \in run.want \cap Manifested : Behind(s) => Ordered(s)
    /\ Idle /\ state[clock] # NoStage =>
         \A s \in owed[clock].want \cap Manifested : s < state[clock] => Ordered(s)

CalmFiles ==
    /\ sidecar[clock] # NoStage => pc \in {"mark", "unlink"} /\ sidecar[clock] = at
    /\ pc \in {"unlink", "save"} \/ (Idle /\ outcome = "halted") => marker[clock] = at
    /\ pc = "unmark" => state[clock] = NoStage
    /\ CheckpointIsLatestHalt

CalmInv ==
    /\ TypeOK
    /\ CalmDay /\ CalmPlan /\ CalmWritten /\ CalmOrdered /\ CalmFiles

LEMMA CalmInvIsSound == CalmInv => OkRunIsWhole /\ HaltIsTold
<1>. SUFFICES ASSUME CalmInv PROVE OkRunIsWhole /\ HaltIsTold
  OBVIOUS
<1>1. OkRunWroteItsOutputs
  BY DEF CalmInv, CalmDay, CalmWritten, Behind, Sound, Idle, OkRunWroteItsOutputs
<1>2. OkRunIsOrdered
  BY DEF CalmInv, CalmDay, CalmOrdered, Behind, Sound, Idle, Ordered, OkRunIsOrdered
<1>3. HaltIsTold
  BY DEF CalmInv, CalmDay, CalmFiles, HaltIsTold, HaltNamesItsStage
<1>. QED
  BY <1>1, <1>2, <1>3 DEF OkRunIsWhole

LEMMA InitCalm == Init => CalmInv
<1>. SUFFICES ASSUME Init PROVE CalmInv
  OBVIOUS
<1>. TypeOK /\ ChainInv
  BY InitTyped, InitChain
<1>1. clock \in Days /\ Ingest \in Stages
  BY DEF TypeOK, Init
<1>2. CalmDay /\ CalmPlan
  BY <1>1 DEF Init, ChainInv, CalmDay, CalmPlan, Idle
<1>3. CalmWritten /\ CalmOrdered
  BY <1>1 DEF Init, CalmWritten, CalmOrdered, Sound, Idle, NoStage
<1>4. CalmFiles
  BY <1>1 DEF Init, CalmFiles, CheckpointIsLatestHalt, Idle, NoStage
<1>. QED
  BY <1>2, <1>3, <1>4 DEF CalmInv

LEMMA CalmTyped == TypeOK /\ CalmStep => TypeOK'
<1>. SUFFICES ASSUME TypeOK, CalmStep PROVE TypeOK'
  OBVIOUS
<1>. UNCHANGED clock
  BY DEF CalmStep
<1>. USE DEF NoStage
<1>0. ASSUME NEW first \in Stages, NEW plan \in SUBSET Stages,
             NEW want \in SUBSET Stages, NEW got \in SUBSET Stages,
             Launches(first, plan, want, got)
      PROVE  TypeOK'
  BY <1>0 DEF Launches, TypeOK, Runs, Steps
<1>1. CASE Starts
  BY <1>0, <1>1, PlanTyped DEF Starts
<1>2. CASE Resumes
  <2>1. PICK research \in BOOLEAN :
          /\ state[clock] # NoStage
          /\ Launches(state[clock], PlanFrom(state[clock], FALSE, research),
                    owed[clock].want \cup PlanFrom(state[clock], FALSE, research),
                    owed[clock].got)
    BY <1>2 DEF Resumes
  <2>2. state[clock] \in Stages /\ owed[clock].want \subseteq Stages
        /\ owed[clock].got \subseteq Stages
    BY <2>1 DEF TypeOK
  <2>3. PlanFrom(state[clock], FALSE, research) \subseteq Stages
    BY <2>2, PlanTyped
  <2>. QED
    BY <1>0, <2>1, <2>2, <2>3
<1>3. CASE Refuse
  BY <1>3 DEF Refuse, runner, TypeOK
<1>4. CASE StageBegins
  BY <1>4 DEF StageBegins, StaleGuard, TypeOK, Steps
<1>5. CASE StageWritten
  <2>1. run.no \in Nat /\ at \in Stages /\ sday \in Days
        /\ sidecar \in [Days -> Stages \cup {NoStage}]
    BY DEF TypeOK, Runs
  <2>. QED
    BY <1>5, <2>1, StageWritesTyped DEF StageWritten, TypeOK, Steps
<1>6. CASE StageFails
  <2>1. run.no \in Nat /\ at \in Stages /\ sday \in Days
        /\ sidecar \in [Days -> Stages \cup {NoStage}]
    BY DEF TypeOK, Runs
  <2>2. StageBreaks(at, sday, run.no, sidecar)
    BY <1>6 DEF StageFails
  <2>. QED
    BY <1>6, <2>1, <2>2, StageBreaksTyped DEF StageFails, StageBreaks, TypeOK, Steps
<1>7. CASE CheckFails
  BY <1>7 DEF CheckFails, TypeOK, Steps, Runs
<1>8. CASE CheckPasses
  <2>1. run' = [run EXCEPT !.got = @ \cup {at}]
    BY <1>8 DEF CheckPasses
  <2>2. run' \in Runs
    BY <2>1 DEF TypeOK, Runs
  <2>3. at' \in Stages /\ pc' \in Steps
    BY <1>8 DEF CheckPasses, Later, TypeOK, Runs, Steps
  <2>. QED
    BY <1>8, <2>2, <2>3 DEF CheckPasses, disk, TypeOK
<1>9. CASE Mark
  BY <1>9 DEF Mark, MarkIn, Named, TypeOK, Steps, Runs
<1>10. CASE Unlink
  BY <1>10 DEF Unlink, TypeOK, Steps, Runs
<1>11. CASE Save
  BY <1>11 DEF Save, SaveAs, TypeOK, Steps, Runs
<1>12. CASE Clear
  BY <1>12 DEF Clear, Nothing, TypeOK, Steps, Runs
<1>13. CASE Unmark
  BY <1>13 DEF Unmark, TypeOK, Steps, Runs
<1>. QED
  BY <1>1, <1>2, <1>3, <1>4, <1>5, <1>6, <1>7, <1>8, <1>9, <1>10, <1>11, <1>12, <1>13
     DEF CalmStep

-----------------------------------------------------------------------------
\* A run that starts with a plan holding all that is wanted from its first
\* stage on, the rest being in order, starts in the invariant.
LEMMA LaunchCalm ==
    ASSUME CalmInv, TypeOK', NEW first \in Stages, NEW plan \in SUBSET Stages,
           NEW want \in SUBSET Stages, NEW got,
           Launches(first, plan, want, got),
           first \in plan,
           \A s \in plan : s >= first,
           \A s \in want \ Optional : s >= first => s \in plan,
           \A s \in want \cap Manifested : s < first => Ordered(s)
    PROVE  CalmInv'
<1>. TypeOK /\ clock \in Days /\ invs \in Nat
  BY DEF CalmInv, TypeOK
<1>0. \A s \in plan : ~(s < first)
  BY StageAssumption DEF Stages
<1>1. /\ pc = "idle" /\ pc' = "begin" /\ run'.no = invs + 1 /\ invs' = invs + 1
      /\ run'.day = clock /\ run'.first = first /\ run'.plan = plan
      /\ run'.want = want /\ at' = first /\ outcome' = "none"
      /\ dirs' = dirs \cup {clock}
      /\ UNCHANGED <<clock, marker, state, sidecar, out, owed>>
  BY DEF Launches
<1>2. CalmDay'
  <2>1. \A s \in Stages : out[clock][s] <= invs /\ out[clock][s] \in Nat
    BY DEF CalmInv, CalmDay, TypeOK
  <2>. QED
    BY <1>1, <2>1 DEF CalmDay, Idle
<1>3. CalmPlan'
  BY <1>1 DEF CalmPlan, PlanCovers, AtIsPlanned, Idle
<1>4. CalmWritten'
  BY <1>0, <1>1 DEF CalmWritten, Behind
<1>5. CalmOrdered'
  BY <1>1 DEF CalmOrdered, Behind, Ordered, Idle
<1>6. CalmFiles'
  BY <1>1 DEF CalmInv, CalmFiles, CheckpointIsLatestHalt, Idle
<1>. QED
  BY <1>2, <1>3, <1>4, <1>5, <1>6 DEF CalmInv

\* A step that writes no output and, of the runner, moves only pc, inside the
\* loop.
LEMMA FrameCalm ==
    ASSUME CalmInv, TypeOK',
           UNCHANGED <<clock, run, at, outcome, invs, out, state, owed>>,
           dirs \subseteq dirs',
           pc # "idle",
           pc' \in {"body", "mark", "unlink", "save"},
           pc' = "body" => sday' = clock
    PROVE  CalmDay' /\ CalmPlan' /\ CalmWritten' /\ CalmOrdered'
<1>. TypeOK /\ at \in Stages
  BY DEF CalmInv, TypeOK
<1>1. CalmDay'
  BY DEF CalmInv, CalmDay, Idle
<1>2. CalmPlan'
  BY DEF CalmInv, CalmPlan, PlanCovers, AtIsPlanned, Idle
<1>3. CalmWritten' /\ CalmOrdered'
  BY DEF CalmInv, CalmWritten, CalmOrdered, Behind, Sound, Ordered, Idle
<1>. QED
  BY <1>1, <1>2, <1>3

\* What the stage in flight writes disturbs no stage before it.
LEMMA WriteCalm ==
    ASSUME CalmInv, pc = "body", out' = Written(at, clock, run.no),
           UNCHANGED <<clock, at>>
    PROVE  /\ out'[clock][at] = run.no
           /\ \A s \in Stages : s # at => out'[clock][s] = out[clock][s]
           /\ \A s \in Stages : out'[clock][s] <= run.no
           /\ \A s \in Stages : s < at /\ Ordered(s) => Ordered(s)'
           /\ Ordered(at)'
<1>. TypeOK /\ clock \in Days /\ at \in Stages /\ run.no \in Nat
  BY DEF CalmInv, TypeOK, Runs
<1>1. out'[clock][at] = run.no /\ \A s \in Stages : s # at => out'[clock][s] = out[clock][s]
  BY DEF Written, TypeOK
<1>2. \A s \in Stages : out'[clock][s] <= run.no
  BY <1>1 DEF CalmInv, CalmDay
<1>3. ASSUME NEW s \in Stages, s < at, Ordered(s)
      PROVE  Ordered(s)'
  <2>1. \A n \in Needs[s] : n \in Stages /\ n < s
    BY StageAssumption
  <2>2. \A n \in Needs[s] : n # at
    BY <1>3, <2>1 DEF Stages
  <2>. QED
    BY <1>1, <1>3, <2>1, <2>2 DEF Ordered, Stages
<1>4. Ordered(at)'
  <2>1. \A n \in Needs[at] : n \in Stages
    BY StageAssumption
  <2>. QED
    BY <1>1, <1>2, <2>1 DEF Ordered
<1>. QED
  BY <1>1, <1>2, <1>3, <1>4

LEMMA StepCalm == CalmInv /\ CalmStep => CalmInv'
<1>. SUFFICES ASSUME CalmInv, CalmStep PROVE CalmInv'
  OBVIOUS
<1>. TypeOK /\ TypeOK'
  BY CalmTyped DEF CalmInv
<1>. UNCHANGED clock /\ clock \in Days /\ at \in Stages /\ run \in Runs
  BY DEF CalmStep, TypeOK
<1>. run.no \in Nat /\ run.plan \subseteq Stages /\ run.want \subseteq Stages
     /\ run.first \in Stages /\ run.day = clock
  BY DEF Runs, CalmInv, CalmDay
<1>1. CASE Starts
  <2>1. PICK first \in Stages, only \in BOOLEAN, research \in BOOLEAN :
          Launches(first, PlanFrom(first, only, research),
                   PlanFrom(first, only, research), {})
    BY <1>1 DEF Starts
  <2>2. /\ first \in PlanFrom(first, only, research)
        /\ PlanFrom(first, only, research) \subseteq Stages
        /\ \A s \in PlanFrom(first, only, research) : s >= first
    BY PlanFromFirst, PlanTyped
  <2>3. \A s \in PlanFrom(first, only, research) : ~(s < first)
    BY <2>2 DEF Stages
  <2>. QED
    BY <2>1, <2>2, <2>3, LaunchCalm
<1>2. CASE Resumes
  <2>1. PICK research \in BOOLEAN :
          /\ state[clock] # NoStage
          /\ Launches(state[clock], PlanFrom(state[clock], FALSE, research),
                    owed[clock].want \cup PlanFrom(state[clock], FALSE, research),
                    owed[clock].got)
    BY <1>2 DEF Resumes
  <2> DEFINE first == state[clock]
             plan  == PlanFrom(first, FALSE, research)
             want  == owed[clock].want \cup plan
  <2>2. first \in Stages /\ owed[clock].want \subseteq Stages
    BY <2>1 DEF TypeOK
  <2>3. first \in plan /\ plan \subseteq Stages /\ \A s \in plan : s >= first
    BY <2>2, PlanFromFirst, PlanTyped
  <2>4. \A s \in want \ Optional : s >= first => s \in plan
    BY <2>2, <2>3 DEF PlanFrom
  <2>5. pc = "idle"
    BY <2>1 DEF Launches
  <2>6. \A s \in want \cap Manifested : s < first => Ordered(s)
    <3>1. \A s \in plan : ~(s < first)
      <4>. HIDE DEF plan, first
      <4>. QED
        BY <2>2, <2>3, StageAssumption DEF Stages
    <3>. QED
      BY <2>1, <2>5, <3>1 DEF CalmInv, CalmOrdered, Idle
  <2>7. Launches(first, plan, want, owed[clock].got)
    BY <2>1
  <2>. HIDE DEF first, plan, want
  <2>8. want \subseteq Stages
    BY <2>2, <2>3 DEF want
  <2>. QED
    BY <2>2, <2>3, <2>4, <2>6, <2>7, <2>8, LaunchCalm
<1>3. CASE Refuse
  <2>1. UNCHANGED <<marker, state, sidecar, out, pc, run, at, sday, outcome, invs, owed>>
        /\ dirs \subseteq dirs'
    BY <1>3 DEF Refuse, runner
  <2>2. CalmDay' /\ CalmPlan'
    BY <2>1 DEF CalmInv, CalmDay, CalmPlan, PlanCovers, AtIsPlanned, Idle
  <2>3. CalmWritten' /\ CalmOrdered' /\ CalmFiles'
    BY <2>1 DEF CalmInv, CalmWritten, CalmOrdered, CalmFiles, CheckpointIsLatestHalt,
       Behind, Sound, Ordered, Idle
  <2>. QED
    BY <2>2, <2>3 DEF CalmInv
<1>4. CASE StageBegins
  <2>1. /\ pc = "begin" /\ pc' = "body" /\ sday' = clock
        /\ UNCHANGED <<clock, dirs, marker, state, out, run, at, outcome, invs, owed>>
    BY <1>4 DEF StageBegins
  <2>2. sidecar'[clock] = NoStage
    BY <1>4, <2>1 DEF StageBegins, StaleGuard, CalmInv, CalmFiles, TypeOK
  <2>3. CalmFiles'
    BY <2>1, <2>2 DEF CalmInv, CalmFiles, CheckpointIsLatestHalt, Idle
  <2>. QED
    BY <2>1, <2>3, FrameCalm DEF CalmInv
<1>5. CASE StageWritten
  <2>1. /\ pc = "body" /\ pc' = "check" /\ sday = clock /\ clock \in dirs
        /\ UNCHANGED <<clock, run, at, sday, outcome, invs, owed>>
        /\ StageWrites(at, clock, run.no, sidecar)
    BY <1>5 DEF StageWritten, CalmInv, CalmDay, Idle
  <2>2. PICK t \in Days :
          /\ IsTarget(at, clock, t)
          /\ out' = Written(at, t, run.no)
          /\ dirs' = IF at = Ingest THEN dirs ELSE dirs \cup {t}
          /\ sidecar' = sidecar
          /\ UNCHANGED state
    BY <2>1 DEF StageWrites
  <2>3. t = clock
    BY <2>1, <2>2 DEF IsTarget
  <2>4. /\ out'[clock][at] = run.no
        /\ \A s \in Stages : s # at => out'[clock][s] = out[clock][s]
        /\ \A s \in Stages : out'[clock][s] <= run.no
        /\ \A s \in Stages : s < at /\ Ordered(s) => Ordered(s)'
        /\ Ordered(at)'
    BY <2>1, <2>2, <2>3, WriteCalm
  <2>5. CalmDay'
    BY <2>1, <2>2, <2>4 DEF CalmInv, CalmDay, Idle
  <2>6. CalmPlan'
    BY <2>1 DEF CalmInv, CalmPlan, PlanCovers, AtIsPlanned, Idle
  <2>7. CalmWritten'
    <3>1. \A s \in Stages : Behind(s)' => s < at \/ s = at
      BY <2>1 DEF Behind
    <3>2. \A s \in Stages : s < at => Behind(s) /\ s # at
      BY DEF Behind, Stages
    <3>. QED
      BY <2>1, <2>4, <3>1, <3>2 DEF CalmInv, CalmWritten, Sound, Idle
  <2>8. CalmOrdered'
    <3>1. \A s \in Stages : Behind(s)' => s < at \/ s = at
      BY <2>1 DEF Behind
    <3>2. \A s \in Stages : s < at => Behind(s)
      BY DEF Behind
    <3>. QED
      BY <2>1, <2>4, <3>1, <3>2 DEF CalmInv, CalmOrdered, Sound, Idle
  <2>9. CalmFiles'
    BY <2>1, <2>2 DEF CalmInv, CalmFiles, CheckpointIsLatestHalt, Idle
  <2>. QED
    BY <2>5, <2>6, <2>7, <2>8, <2>9 DEF CalmInv
<1>6. CASE StageFails
  <2>1. /\ pc = "body" /\ pc' = "mark" /\ sday = clock
        /\ UNCHANGED <<clock, run, at, sday, outcome, invs, owed, marker, state>>
        /\ dirs \subseteq dirs'
        /\ out' = out \/ out' = Written(at, clock, run.no)
        /\ sidecar' = sidecar \/ (at = Ingest /\ sidecar' = [sidecar EXCEPT ![clock] = Ingest])
    BY <1>6 DEF StageFails, StageBreaks, CalmInv, CalmDay
  <2>2. CalmFiles'
    BY <2>1 DEF CalmInv, CalmFiles, CheckpointIsLatestHalt, Idle, TypeOK
  <2>3. CASE out' = out
    BY <2>1, <2>2, <2>3, FrameCalm DEF CalmInv
  <2>4. CASE out' = Written(at, clock, run.no)
    <3>1. /\ \A s \in Stages : s # at => out'[clock][s] = out[clock][s]
          /\ \A s \in Stages : out'[clock][s] <= run.no
          /\ \A s \in Stages : s < at /\ Ordered(s) => Ordered(s)'
      BY <2>1, <2>4, WriteCalm
    <3>2. CalmDay' /\ CalmPlan'
      BY <2>1, <3>1 DEF CalmInv, CalmDay, CalmPlan, PlanCovers, AtIsPlanned, Idle
    <3>3. \A s \in Stages : Behind(s)' => s < at /\ Behind(s) /\ s # at
      BY <2>1 DEF Behind, Stages
    <3>4. CalmWritten' /\ CalmOrdered'
      BY <2>1, <3>1, <3>3 DEF CalmInv, CalmWritten, CalmOrdered, Sound, Idle
    <3>. QED
      BY <2>2, <3>2, <3>4 DEF CalmInv
  <2>. QED
    BY <2>1, <2>3, <2>4
<1>7. CASE CheckFails
  <2>1. /\ pc = "check" /\ pc' = "mark" /\ sidecar' = [sidecar EXCEPT ![clock] = at]
        /\ UNCHANGED <<clock, dirs, marker, state, out, run, at, sday, outcome, invs, owed>>
    BY <1>7 DEF CheckFails
  <2>2. CalmFiles'
    BY <2>1 DEF CalmInv, CalmFiles, CheckpointIsLatestHalt, Idle, TypeOK
  <2>. QED
    BY <2>1, <2>2, FrameCalm DEF CalmInv
<1>8. CASE CheckPasses
  <2>1. /\ pc = "check" /\ run' = [run EXCEPT !.got = @ \cup {at}]
        /\ UNCHANGED <<clock, dirs, marker, state, sidecar, out, outcome, invs, owed>>
        /\ \/ Later = {} /\ pc' = "clear" /\ at' = at
           \/ at' \in Later /\ (\A s \in Later : at' <= s) /\ pc' = "begin"
    BY <1>8 DEF CheckPasses, disk
  <2>2. /\ run'.no = run.no /\ run'.day = run.day /\ run'.plan = run.plan
        /\ run'.want = run.want /\ run'.first = run.first
    BY <2>1 DEF Runs
  <2>3. at \in run.plan /\ at >= run.first
    BY <2>1 DEF CalmInv, CalmPlan, PlanCovers, AtIsPlanned, Idle
  <2>4. \A s \in run.plan : s <= at \/ s \in Later
    BY DEF Later, Stages
  <2>5. \A s \in run.plan : Behind(s)' => Behind(s)
    BY <2>1, <2>4 DEF Behind, Later, Stages
  <2>6. \A s \in run.want \cap Manifested : Behind(s)' => Behind(s)
    <3>1. ASSUME NEW s \in run.want \cap Manifested, s > at
          PROVE  s \in run.plan
      <4>1. s \in run.want \ Optional /\ s >= run.first
        BY <2>3, <3>1, StageAssumption DEF Stages
      <4>. QED
        BY <4>1 DEF CalmInv, CalmPlan, PlanCovers
    <3>2. \A s \in run.want \cap Manifested : s <= at => Behind(s)
      BY <2>1 DEF Behind, Stages
    <3>. QED
      BY <2>5, <3>1, <3>2 DEF Stages
  <2>7. CalmDay'
    BY <2>1, <2>2 DEF CalmInv, CalmDay, Idle
  <2>8. CalmPlan'
    BY <2>1, <2>2, <2>3, <2>4 DEF CalmInv, CalmPlan, PlanCovers, AtIsPlanned, Idle, Later
  <2>9. CalmWritten'
    BY <2>1, <2>2, <2>5 DEF CalmInv, CalmWritten, Sound, Idle
  <2>10. CalmOrdered'
    BY <2>1, <2>2, <2>6 DEF CalmInv, CalmOrdered, Sound, Ordered, Idle
  <2>11. CalmFiles'
    BY <2>1 DEF CalmInv, CalmFiles, CheckpointIsLatestHalt, Idle
  <2>. QED
    BY <2>7, <2>8, <2>9, <2>10, <2>11 DEF CalmInv
<1>9. CASE Mark
  <2>1. /\ pc = "mark" /\ marker' = [marker EXCEPT ![clock] = Named]
        /\ pc' = IF sidecar[clock] # NoStage THEN "unlink" ELSE "save"
        /\ UNCHANGED <<clock, dirs, state, sidecar, out, run, at, sday, outcome, invs, owed>>
    BY <1>9 DEF Mark, MarkIn
  <2>2. Named = at
    BY <2>1 DEF Named, CalmInv, CalmFiles
  <2>3. CalmFiles'
    BY <2>1, <2>2 DEF CalmInv, CalmFiles, CheckpointIsLatestHalt, Idle, TypeOK
  <2>. QED
    BY <2>1, <2>3, FrameCalm DEF CalmInv
<1>10. CASE Unlink
  <2>1. /\ pc = "unlink" /\ pc' = "save" /\ sidecar' = [sidecar EXCEPT ![clock] = NoStage]
        /\ UNCHANGED <<clock, dirs, marker, state, out, run, at, sday, outcome, invs, owed>>
    BY <1>10 DEF Unlink
  <2>2. CalmFiles'
    BY <2>1 DEF CalmInv, CalmFiles, CheckpointIsLatestHalt, Idle, TypeOK
  <2>. QED
    BY <2>1, <2>2, FrameCalm DEF CalmInv
<1>11. CASE Save
  <2>1. /\ pc = "save" /\ pc' = "idle" /\ outcome' = "halted"
        /\ state'[clock] = at
        /\ owed'[clock].want = run.want
        /\ UNCHANGED <<clock, dirs, marker, sidecar, out, run, at, sday, invs>>
    BY <1>11 DEF Save, SaveAs, TypeOK
  <2>2. CalmDay' /\ CalmPlan'
    BY <2>1 DEF CalmInv, CalmDay, CalmPlan, PlanCovers, AtIsPlanned, Idle
  <2>3. CalmWritten'
    BY <2>1 DEF CalmWritten, Sound, Idle
  <2>4. CalmOrdered'
    BY <2>1 DEF CalmInv, CalmOrdered, Sound, Behind, Ordered, Idle
  <2>5. CalmFiles'
    BY <2>1 DEF CalmInv, CalmFiles, CheckpointIsLatestHalt, Idle
  <2>. QED
    BY <2>2, <2>3, <2>4, <2>5 DEF CalmInv
<1>12. CASE Clear
  <2>1. /\ pc = "clear" /\ pc' = "unmark" /\ state'[clock] = NoStage
        /\ UNCHANGED <<clock, dirs, marker, sidecar, out, run, at, sday, outcome, invs>>
    BY <1>12 DEF Clear, TypeOK
  <2>2. CalmDay' /\ CalmPlan'
    BY <2>1 DEF CalmInv, CalmDay, CalmPlan, PlanCovers, AtIsPlanned, Idle
  <2>3. CalmWritten' /\ CalmOrdered'
    BY <2>1 DEF CalmInv, CalmWritten, CalmOrdered, Sound, Behind, Ordered, Idle
  <2>4. CalmFiles'
    BY <2>1 DEF CalmInv, CalmFiles, CheckpointIsLatestHalt, Idle
  <2>. QED
    BY <2>2, <2>3, <2>4 DEF CalmInv
<1>13. CASE Unmark
  <2>1. /\ pc = "unmark" /\ pc' = "idle" /\ outcome' = "ok"
        /\ UNCHANGED <<clock, dirs, state, sidecar, out, run, at, sday, invs, owed>>
    BY <1>13 DEF Unmark
  <2>2. CalmDay' /\ CalmPlan'
    BY <2>1 DEF CalmInv, CalmDay, CalmPlan, PlanCovers, AtIsPlanned, Idle
  <2>3. state[clock] = NoStage
    BY <2>1 DEF CalmInv, CalmFiles
  <2>4. CalmWritten' /\ CalmOrdered'
    BY <2>1, <2>3 DEF CalmInv, CalmWritten, CalmOrdered, Sound, Behind, Ordered, Idle
  <2>5. CalmFiles'
    BY <2>1, <2>3 DEF CalmInv, CalmFiles, CheckpointIsLatestHalt, Idle
  <2>. QED
    BY <2>2, <2>4, <2>5 DEF CalmInv
<1>. QED
  BY <1>1, <1>2, <1>3, <1>4, <1>5, <1>6, <1>7, <1>8, <1>9, <1>10, <1>11, <1>12, <1>13
     DEF CalmStep

LEMMA StutterCalm == CalmInv /\ UNCHANGED vars => CalmInv'
BY DEF vars, disk, runner, CalmInv, TypeOK, CalmDay, CalmPlan, CalmWritten, CalmOrdered,
   CalmFiles, PlanCovers, AtIsPlanned, CheckpointIsLatestHalt, Behind, Sound, Ordered, Idle

\* Any number of runs of one calm day, each resumed or not: one that succeeds
\* wrote every output of its plan itself and left none older than what it was
\* made from, and the checkpoint and the marker say what the latest run did.
CalmSpec == Init /\ [][CalmStep]_vars

THEOREM CalmDayIsSound == CalmSpec => [](OkRunIsWhole /\ HaltIsTold)
<1>1. CalmInv /\ [CalmStep]_vars => CalmInv'
  BY StepCalm, StutterCalm
<1>. QED
  BY <1>1, InitCalm, CalmInvIsSound, PTL DEF CalmSpec

LEMMA CalmBehaviours == MCMidnightSpec => [](CalmRunIsWhole /\ CalmHaltIsTold)
<1>. DEFINE Inv == mover = "calm" => CalmInv
<1>1. MCMidnightInit => Inv
  BY InitCalm DEF MCMidnightInit
<1>2. Inv /\ [MCMidnightNext]_<<mover, vars>> => Inv'
  <2>. SUFFICES ASSUME Inv, [MCMidnightNext]_<<mover, vars>>, mover' = "calm"
                PROVE  CalmInv'
    OBVIOUS
  <2>1. CASE MCMidnightNext
    <3>1. mover = "calm" /\ CalmInv /\ Calm!Next /\ UNCHANGED clock
      BY <2>1 DEF MCMidnightNext
    <3>2. clock \in Days
      BY <3>1 DEF CalmInv, TypeOK
    <3>. QED
      BY <3>1, <3>2, CalmSteps, StepCalm
  <2>2. CASE UNCHANGED <<mover, vars>>
    BY <2>2, StutterCalm
  <2>. QED
    BY <2>1, <2>2
<1>3. Inv => CalmRunIsWhole /\ CalmHaltIsTold
  BY CalmInvIsSound DEF CalmRunIsWhole, CalmHaltIsTold
<1>. QED
  BY <1>1, <1>2, <1>3, PTL DEF MCMidnightSpec

\* On the calm day of MCMidnight, which starts at most four runs, a run that
\* succeeds, resumed or not, wrote every output of its plan itself and left
\* none older than what it was made from.
THEOREM CalmRunsAreWhole == MCMidnightSpec => []CalmRunIsWhole
BY CalmBehaviours, PTL

\* On that day the checkpoint and the marker say what the latest run did.
THEOREM CalmHaltsAreTold == MCMidnightSpec => []CalmHaltIsTold
BY CalmBehaviours, PTL
=============================================================================
