----------------------------- MODULE PipelineJob -----------------------------
(***************************************************************************)
(* The runner of Pipeline seen as the resumable job of ResumableJob.  The  *)
(* job is over once the checkpoint is cleared, though the marker is still  *)
(* to be removed; the steps between a failure and the saved checkpoint     *)
(* stutter.                                                                *)
(***************************************************************************)
EXTENDS Pipeline

JobDay  == IF pc \in {"idle", "unmark"} THEN 0 ELSE run.day
JobTodo == IF pc \in {"idle", "clear", "unmark"} THEN {}
           ELSE {s \in run.plan : s >= at}

Job == INSTANCE ResumableJob WITH
           Steps <- Stages, checkpoint <- state, day <- JobDay, todo <- JobTodo

\* The day's checkpoint changes only as a resumable job's may: see
\* ResumableJob.
ImplementsJob == Job!Spec
=============================================================================
