-------------------------------- MODULE MCDesk --------------------------------
(***************************************************************************)
(* Four parts of the desktop program that share no state, checked in one   *)
(* run: a behaviour follows one of them.                                   *)
(***************************************************************************)
EXTENDS ProfileSessions, DesktopRecords, VisionService, RuntimePanel

VARIABLE part

Init ==
  /\ part \in {"sessions", "records", "vision", "panel"}
  /\ SessionsInit /\ RecordsInit /\ VisionInit /\ PanelInit

Next ==
  /\ UNCHANGED part
  /\ \/ part = "sessions" /\ SessionsNext /\ UNCHANGED <<recordsVars, visionVars, panelVars>>
     \/ part = "records" /\ RecordsNext /\ UNCHANGED <<sessionsVars, visionVars, panelVars>>
     \/ part = "vision" /\ VisionNext /\ UNCHANGED <<sessionsVars, recordsVars, panelVars>>
     \/ part = "panel" /\ PanelNext /\ UNCHANGED <<sessionsVars, recordsVars, visionVars>>

vars == <<part, sessionsVars, recordsVars, visionVars, panelVars>>

Spec == Init /\ [][Next]_vars
FairSpec == Spec /\ (part = "panel" => PanelFairness)
=============================================================================
