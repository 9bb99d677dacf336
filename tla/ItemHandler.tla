---------------------------- MODULE ItemHandler ----------------------------
(***************************************************************************)
(* The rules of the DLL's ItemHandler (HaloAP_DLL/item_handler.cpp) and    *)
(* the decoding of the launcher's COMPLETED message by the DLL's pipe      *)
(* reader (HaloAP_DLL/pipe_client.cpp).  Constant-level: the state these   *)
(* operators work on belongs to module LauncherSession.                    *)
(***************************************************************************)
EXTENDS Integers

\* The number of campaign missions, 10 in the code.
CONSTANT MISSION_COUNT

ASSUME MissionCountAssumption == MISSION_COUNT \in Nat \ {0}

CE_OFFSET == 100000
CE_SKULL_OFFSET == 90000
SKULL_DISABLER_COUNT == 23

Missions == 0 .. MISSION_COUNT - 1

\* The mission an item unlocks, or -1 when it is no mission item.
translateItemToMission(itemID) ==
  LET offset == itemID - CE_OFFSET
  IN  IF offset \in 1000 .. 1000 * MISSION_COUNT /\ offset % 1000 = 0
        THEN offset \div 1000 - 1
        ELSE -1

\* The skull a disabler item unlocks, or -1 when it is no disabler.
translateItemToSkullDisabler(itemID) ==
  LET idx == itemID - CE_SKULL_OFFSET - 1
  IN  IF idx \in 0 .. SKULL_DISABLER_COUNT - 1 THEN idx ELSE -1

\* Mutation: the loop over the cells starts at the second.
BugSkipFirstCell(missionId, unlocked, completed, final) ==
  \/ missionId \notin Missions
  \/ missionId = final /\ Missions \ {0, final} \subseteq completed
  \/ missionId # final /\ missionId \in unlocked

\* A mission outside the table is always allowed, the final one once every
\* other is completed, any other once its item has arrived.
isMissionAllowed(missionId, unlocked, completed, final) ==
  \/ missionId \notin Missions
  \/ missionId = final /\ Missions \ {final} \subseteq completed
  \/ missionId # final /\ missionId \in unlocked

-----------------------------------------------------------------------------
\* The reader decodes COMPLETED into `bool completed[9]` and then hands it to
\* setMissionCompletions, which copies 10 cells.  The last mission's cell lies
\* behind the array: it holds TRUE when the message names that mission (the
\* decoder writes it there) and whatever the stack held otherwise.
OverrunCell == MISSION_COUNT - 1

\* Mutation: the empty list is decoded too, and atoi("") is 0.
BugEmptyIsZero(named) ==
  LET read == IF named = {} THEN {0} ELSE named
  IN  {read, read \cup {OverrunCell}}

DecodedCompletions(named) == {named, named \cup {OverrunCell}}

=============================================================================
