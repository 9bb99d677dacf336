------------------------------ MODULE MCLobby ------------------------------
(***************************************************************************)
(* What the hooks do to menus, skulls and missions, for TLC: MissionMenu,  *)
(* ForcedSkulls, ButtonCollapse and MissionFlow side by side.  They share  *)
(* no state, so that each need only be explored with the others at rest.   *)
(* Five missions with ten allocations, other screens with as many as the   *)
(* code expects of them at most, a skull of each kind, three navigations,  *)
(* three missions started.                                                 *)
(***************************************************************************)
EXTENDS MissionMenu, ForcedSkulls, ButtonCollapse, MissionFlow

MCScoring == {"famine"}
MCNonScoring == {"bandana"}
MCOthers == {"cowbell"}
MCCompletions == {{}, Missions \ {OverrunCell}}

vars == <<menuVars, skullVars, collapseVars, flowVars>>

Init == MenuInit /\ SkullInit /\ CollapseInit /\ FlowInit

MenuMoves ==
  /\ SkullInit /\ CollapseInit /\ FlowInit
  /\ MenuNext /\ UNCHANGED <<skullVars, collapseVars, flowVars>>
SkullsMove ==
  /\ MenuInit /\ CollapseInit /\ FlowInit
  /\ SkullNext /\ UNCHANGED <<menuVars, collapseVars, flowVars>>
ButtonsMove ==
  /\ MenuInit /\ SkullInit /\ FlowInit
  /\ CollapseNext /\ UNCHANGED <<menuVars, skullVars, flowVars>>
FlowMoves ==
  /\ MenuInit /\ SkullInit /\ CollapseInit
  /\ FlowNext /\ UNCHANGED <<menuVars, skullVars, collapseVars>>

Next == MenuMoves \/ SkullsMove \/ ButtonsMove \/ FlowMoves

\* The worker, the collapse threads and the engine wait for nothing but time.
Spec ==
  /\ Init /\ [][Next]_vars
  /\ WF_vars(ApplyForcedSkulls /\ UNCHANGED <<menuVars, collapseVars, flowVars>>)
  /\ CollapseFairness /\ FlowFairness

\* The types of the menu and the skulls; the worker's masks lag behind the
\* shared ones (mission_select_block.cpp:94-96, skull_hook.cpp:415-492).
LobbyTypeOK == MenuTypeOK /\ SkullTypeOK

=============================================================================
