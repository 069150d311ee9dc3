-------------------------- MODULE MCResearchTracker --------------------------
(***************************************************************************)
(* Small instances of ResearchTracker for TLC.                             *)
(***************************************************************************)
EXTENDS ResearchTracker, TLC

CONSTANT t1

MCTopics == {t1}
=============================================================================
