-------------------------- MODULE MCMissionHistory --------------------------
(***************************************************************************)
(* The track of MCMission, with the history of the route.                  *)
(***************************************************************************)
EXTENDS MCMission, MissionHistory
=============================================================================
