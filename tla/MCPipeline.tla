----------------------------- MODULE MCPipeline -----------------------------
(***************************************************************************)
(* Five stages for TLC: 1 ingest, 2 research (optional, no required        *)
(* outputs), 3 score, 4 memo, 5 decision.  PipelineDay has no memo, and its *)
(* last stage, 4, is decision.                                             *)
(***************************************************************************)
EXTENDS PipelineJob

MCOptional   == {2}
MCManifested == {3, 4, 5}
MCNeeds      == <<{}, {}, {}, {3}, {3, 4}>>

DayManifested == {3, 4}
DayNeeds      == <<{}, {}, {}, {3}>>

None          == {}
AllButOptional == {1, 3, 4}
IngestOnly    == {1}
DecisionOnly  == {5}
ScoreSilent   == {3}
=============================================================================
