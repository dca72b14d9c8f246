----------------------------- MODULE MCMidnight -----------------------------
(***************************************************************************)
(* Two days of the five stages of MCPipeline, with midnight, kills and an   *)
(* ingest of its own beside the run.  In behaviours of their own, four runs *)
(* of one calm day: no kill, no silent stage, no command but `irc run`.     *)
(***************************************************************************)
EXTENDS MCPipeline

VARIABLE mover   \* "night" or "calm"

Calm == INSTANCE Pipeline WITH
            Solo <- None, Silent <- None, Overlap <- FALSE, Crashes <- FALSE,
            MaxInvocations <- 4

MCMidnightInit == mover \in {"night", "calm"} /\ Init
MCMidnightNext ==
    /\ UNCHANGED mover
    /\ \/ mover = "night" /\ Next
       \/ mover = "calm" /\ Calm!Next /\ UNCHANGED clock
MCMidnightSpec == MCMidnightInit /\ [][MCMidnightNext]_<<mover, vars>>

\* On a calm day (run_cmd.py:115-194) a run that succeeds, resumed or not, wrote
\* every output of its plan itself, and none is older than what it was made from.
CalmRunIsWhole == mover = "calm" => OkRunIsWhole

\* On a calm day (run_cmd.py:155-189) the checkpoint and the marker say what the
\* latest run did.
CalmHaltIsTold == mover = "calm" => HaltIsTold
=============================================================================
