---------------------------- MODULE MissionMenu ----------------------------
(***************************************************************************)
(* The mission select of the game as the DLL filters it                    *)
(* (HaloAP_DLL/hooks/mission_select_block.cpp).  Three detours have to     *)
(* agree: the setup of a screen, the allocation of an item's messages, two *)
(* for each item, and the adding of the item.  The setup cannot tell the   *)
(* missions from the difficulties before it has counted the allocations.   *)
(*                                                                         *)
(* The pipe reader unlocks missions and overwrites the completions while a *)
(* screen is populated.                                                    *)
(***************************************************************************)
EXTENDS ItemHandler

CONSTANTS
  OtherItems,       \* how many items a screen other than the missions has
  MaxOtherAllocs,   \* the most allocations of such a screen, 8 in the code
  FinalMission,     \* the slot's final mission
  Completions       \* the sets of completed missions the launcher names

Screens == {"missions", "difficulty", "other"}

\* The other ones have screen numbers of at most 18.
MayBeMissions(s) == s # "other"

ItemCount(s) == IF s = "missions" THEN MISSION_COUNT ELSE OtherItems

ASSUME MenuAssumption ==
  /\ OtherItems \in Nat \ {0} /\ MaxOtherAllocs \in Nat
  /\ 2 * OtherItems <= MaxOtherAllocs
  /\ 2 * MISSION_COUNT > MaxOtherAllocs
  /\ FinalMission \in Missions
  /\ Completions \subseteq SUBSET Missions

VARIABLES
  m_unlockedMissions, m_missionCompleted, m_finalMission,
  \* the game's user interface thread
  screen,           \* the screen last opened
  step,             \* where its setup is: "shown" when it has ended
  item,             \* the item being built
  shown,            \* the items of the screen
  again,            \* whether the setup is in its unfiltered second run
  allowedOnce,      \* history: the missions allowed at a moment of the setup
  allowedAlways,    \* history: those allowed at each of its moments
  g_populatingMissions, g_missionCounter, g_nextItemLocked

handlerVars == <<m_unlockedMissions, m_missionCompleted, m_finalMission>>
filterVars == <<g_populatingMissions, g_missionCounter, g_nextItemLocked>>
allowedVars == <<allowedOnce, allowedAlways>>
screenVars == <<screen, step, item, shown, again>>
menuVars == <<handlerVars, allowedVars, screenVars, filterVars>>

MenuInit ==
  /\ m_unlockedMissions = {} /\ m_missionCompleted = {}
  /\ m_finalMission = MISSION_COUNT - 1
  /\ screen = "other" /\ step = "shown" /\ item = 0
  /\ shown = 0 .. OtherItems - 1 /\ again = FALSE
  /\ allowedOnce = {} /\ allowedAlways = {}
  /\ g_populatingMissions = FALSE /\ g_missionCounter = 0
  /\ g_nextItemLocked = FALSE

Allowed(m) ==
  isMissionAllowed(m, m_unlockedMissions, m_missionCompleted, m_finalMission)

AllowedMissions == {m \in Missions : Allowed(m)}

-----------------------------------------------------------------------------
(***************************************************************************)
(* The pipe reader.                                                        *)
(***************************************************************************)

\* What it changes during a setup the histories take in.
Remember ==
  IF step = "shown" THEN UNCHANGED allowedVars
  ELSE /\ allowedOnce' = allowedOnce \cup AllowedMissions'
       /\ allowedAlways' = allowedAlways \cap AllowedMissions'

UnlockMission(m) ==
  /\ m_unlockedMissions' = m_unlockedMissions \cup {m}
  /\ UNCHANGED <<m_missionCompleted, m_finalMission, screenVars, filterVars>>
  /\ Remember

SetFinalMission ==
  /\ m_finalMission' = FinalMission
  /\ UNCHANGED <<m_unlockedMissions, m_missionCompleted, screenVars, filterVars>>
  /\ Remember

\* Every cell is overwritten, the last one with what lies behind the decoder's
\* array unless the message names it: a completion may go as well as come.
SetMissionCompletions(named) ==
  /\ m_missionCompleted' \in DecodedCompletions(named)
  /\ UNCHANGED <<m_unlockedMissions, m_finalMission, screenVars, filterVars>>
  /\ Remember

-----------------------------------------------------------------------------
(***************************************************************************)
(* The detours.                                                            *)
(***************************************************************************)

\* Mutation: the count goes on from the screen before.
BugKeepCounter(s) ==
  /\ step = "shown"
  /\ screen' = s /\ step' = "data" /\ item' = 0 /\ shown' = {}
  /\ again' = FALSE
  /\ allowedOnce' = AllowedMissions /\ allowedAlways' = AllowedMissions
  /\ g_nextItemLocked' = FALSE
  /\ g_populatingMissions' = MayBeMissions(s)
  /\ UNCHANGED <<handlerVars, g_missionCounter>>

\* DetourChapterTabSetup up to the call of the original.
ChapterTabSetup(s) ==
  /\ step = "shown"
  /\ screen' = s /\ step' = "data" /\ item' = 0 /\ shown' = {}
  /\ again' = FALSE
  /\ allowedOnce' = AllowedMissions /\ allowedAlways' = AllowedMissions
  /\ g_missionCounter' = 0 /\ g_nextItemLocked' = FALSE
  /\ g_populatingMissions' = MayBeMissions(s)
  /\ UNCHANGED handlerVars

\* Mutation: the item's number is taken from the next allocation.
BugNextItem(counter) ==
  g_nextItemLocked' = (counter % 2 = 1 /\ ~Allowed((counter + 1) \div 2))

Flag(counter) ==
  g_nextItemLocked' = (counter % 2 = 1 /\ ~Allowed(counter \div 2))

\* DetourAllocItem for a handleArrayMessage: an item's data, then its visual.
AllocItem ==
  /\ step \in {"data", "visual"}
  /\ step' = IF step = "data" THEN "visual" ELSE "add"
  /\ IF g_populatingMissions
       THEN /\ Flag(g_missionCounter)
            /\ g_missionCounter' = g_missionCounter + 1
       ELSE UNCHANGED <<g_missionCounter, g_nextItemLocked>>
  /\ UNCHANGED <<handlerVars, allowedVars, screen, item, shown, again,
                 g_populatingMissions>>

Skipped == g_populatingMissions /\ g_nextItemLocked

\* DetourAddItem.
AddItem ==
  /\ step = "add"
  /\ shown' = IF Skipped THEN shown ELSE shown \cup {item}
  /\ g_nextItemLocked' = FALSE
  /\ item' = item + 1
  /\ step' = IF item + 1 = ItemCount(screen) THEN "populated" ELSE "data"
  /\ UNCHANGED <<handlerVars, allowedVars, screen, again,
                 g_populatingMissions, g_missionCounter>>

\* Mutation: no screen is set up a second time.
BugNoRerun == FALSE

\* Few allocations: the screen was not the missions and is set up again.
Rerun ==
  MayBeMissions(screen) /\ ~again /\ g_missionCounter <= MaxOtherAllocs

\* The rest of DetourChapterTabSetup, after each call of the original.
Populated ==
  /\ step = "populated"
  /\ g_populatingMissions' = FALSE
  /\ IF Rerun
       THEN /\ again' = TRUE /\ g_missionCounter' = 0
            /\ step' = "data" /\ item' = 0 /\ shown' = {}
       ELSE /\ step' = "shown"
            /\ UNCHANGED <<again, g_missionCounter, item, shown>>
  /\ g_nextItemLocked' = FALSE
  /\ UNCHANGED <<handlerVars, allowedVars, screen>>

Populate == AllocItem \/ AddItem \/ Populated

MenuNext ==
  \/ \E m \in Missions : UnlockMission(m)
  \/ SetFinalMission
  \/ \E named \in Completions : SetMissionCompletions(named)
  \/ \E s \in Screens : ChapterTabSetup(s)
  \/ Populate

MenuSpec == MenuInit /\ [][MenuNext]_menuVars

-----------------------------------------------------------------------------
(***************************************************************************)
(* Properties.                                                             *)
(***************************************************************************)

\* The type invariant.  (mission_select_block.cpp:94-96, 550-606)
MenuTypeOK ==
  /\ m_unlockedMissions \subseteq Missions
  /\ m_missionCompleted \subseteq Missions
  /\ m_finalMission \in {MISSION_COUNT - 1, FinalMission}
  /\ screen \in Screens
  /\ step \in {"data", "visual", "add", "populated", "shown"}
  /\ item \in 0 .. ItemCount(screen)
  /\ shown \subseteq 0 .. ItemCount(screen) - 1
  /\ again \in BOOLEAN
  /\ allowedOnce \subseteq Missions /\ allowedAlways \subseteq allowedOnce
  /\ g_populatingMissions \in BOOLEAN /\ g_nextItemLocked \in BOOLEAN
  /\ g_missionCounter \in 0 .. 2 * ItemCount(screen)

\* "Locked missions will not appear in the mission select"
\* (Docs/randomization.md:25): unlocks, the final mission and completions that
\* come and go arrive between the detours, and still the screen offers no
\* mission that was locked throughout its setup, misses none that was allowed
\* throughout, and but for the final missions, which depend on the completions,
\* offers only missions whose item has come (mission_select_block.cpp:491-544).
MissionsFiltered ==
  screen = "missions" /\ step = "shown"
    => /\ shown \subseteq allowedOnce /\ allowedAlways \subseteq shown
       /\ shown \ {MISSION_COUNT - 1, FinalMission} \subseteq m_unlockedMissions

\* The filter leaves every other screen complete, the difficulties too, which
\* it takes for missions at first (mission_select_block.cpp:582-606).
OthersComplete ==
  screen # "missions" /\ step = "shown" => shown = 0 .. ItemCount(screen) - 1

=============================================================================
