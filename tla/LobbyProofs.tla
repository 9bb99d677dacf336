---------------------------- MODULE LobbyProofs ----------------------------
(***************************************************************************)
(* What holds of the menus, the skulls and the collapsing of buttons for   *)
(* any number of missions, items, skulls and navigations.                  *)
(***************************************************************************)
EXTENDS MCLobby, FlowProofs

-----------------------------------------------------------------------------
(***************************************************************************)
(* The mission select.                                                     *)
(***************************************************************************)
\* The detours work on what may be the missions and is not yet known not to be.
Filtering == step # "shown" /\ MayBeMissions(screen) /\ ~again

\* How many messages of the current item have been allocated.
Allocated == CASE step = "visual" -> 1 [] step = "add" -> 2 [] OTHER -> 0

HandlerTypes ==
  /\ m_unlockedMissions \subseteq Missions
  /\ m_missionCompleted \subseteq Missions
  /\ m_finalMission \in {MISSION_COUNT - 1, FinalMission}

\* The three detours agree on the item, and on whether they filter.
CountInv ==
  /\ screen \in Screens
  /\ step \in {"data", "visual", "add", "populated", "shown"}
  /\ item \in Nat
  /\ step \in {"data", "visual", "add"} => item < ItemCount(screen)
  /\ step \in {"populated"} => item = ItemCount(screen)
  /\ item <= ItemCount(screen)
  /\ again => screen = "difficulty"
  /\ Filtering => g_missionCounter = 2 * item + Allocated
  /\ step # "shown" /\ ~Filtering => g_missionCounter = 0
  /\ g_missionCounter \in 0 .. 2 * ItemCount(screen)

\* The game's calls and the reader's in between keep the flags Boolean.
BooleanInv ==
  /\ again \in BOOLEAN /\ g_nextItemLocked \in BOOLEAN
  /\ g_populatingMissions = Filtering

\* What of the screen has been built so far.
BuiltInv ==
  /\ shown \subseteq 0 .. ItemCount(screen) - 1
  /\ allowedOnce \subseteq Missions /\ allowedAlways \subseteq allowedOnce
  /\ Filtering => shown \subseteq 0 .. item - 1
  /\ step # "shown" /\ ~Filtering => shown = 0 .. item - 1
  /\ OthersComplete

BuildInv == HandlerTypes /\ CountInv /\ BooleanInv /\ BuiltInv

Reading ==
  \/ \E m \in Missions : UnlockMission(m)
  \/ SetFinalMission
  \/ \E named \in Completions : SetMissionCompletions(named)

LEMMA BuildStarts == MenuInit => BuildInv
<1> SUFFICES ASSUME MenuInit PROVE BuildInv
  OBVIOUS
<1> USE MenuAssumption, MissionCountAssumption DEF MenuInit
<1>1. HandlerTypes /\ ~Filtering
  BY DEF HandlerTypes, Filtering
<1>2. CountInv
  BY DEF CountInv, Filtering, Screens, ItemCount
<1>3. BooleanInv
  BY Zenon DEF BooleanInv, Filtering
<1>4. BuiltInv
  BY <1>1 DEF BuiltInv, ItemCount, OthersComplete
<1> QED BY <1>1, <1>2, <1>3, <1>4 DEF BuildInv

\* What the reader changes the detours do not count with.
LEMMA BuildReading == BuildInv /\ Reading => BuildInv'
<1> SUFFICES ASSUME BuildInv, Reading PROVE BuildInv'
  OBVIOUS
<1>1. UNCHANGED <<screenVars, filterVars>> /\ Remember
  BY DEF Reading, UnlockMission, SetFinalMission, SetMissionCompletions
<1>2. HandlerTypes'
  <2>1. ASSUME NEW m \in Missions, UnlockMission(m) PROVE HandlerTypes'
    BY <2>1 DEF BuildInv, HandlerTypes, UnlockMission
  <2>2. CASE SetFinalMission
    BY <2>2 DEF BuildInv, HandlerTypes, SetFinalMission
  <2>3. ASSUME NEW named \in Completions, SetMissionCompletions(named)
        PROVE  HandlerTypes'
    <3>1. named \subseteq Missions /\ OverrunCell \in Missions
      BY MenuAssumption, MissionCountAssumption DEF OverrunCell, Missions
    <3> QED BY <2>3, <3>1
            DEF BuildInv, HandlerTypes, SetMissionCompletions, DecodedCompletions
  <2> QED BY <2>1, <2>2, <2>3 DEF Reading
<1>3. CountInv'
  BY <1>1 DEF BuildInv, CountInv, Filtering, Allocated, screenVars, filterVars
<1>4. BooleanInv'
  BY <1>1 DEF BuildInv, BooleanInv, Filtering, screenVars, filterVars
<1>5. BuiltInv'
  <2>1. allowedOnce' \subseteq Missions /\ allowedAlways' \subseteq allowedOnce'
    BY <1>1 DEF BuildInv, BuiltInv, Remember, allowedVars, AllowedMissions
  <2> QED BY <1>1, <2>1
          DEF BuildInv, BuiltInv, Filtering, OthersComplete, screenVars
<1> QED BY <1>2, <1>3, <1>4, <1>5 DEF BuildInv

LEMMA BuildSetup ==
  ASSUME BuildInv, NEW s \in Screens, ChapterTabSetup(s)
  PROVE  BuildInv'
<1> USE MenuAssumption, MissionCountAssumption DEF ChapterTabSetup
<1>1. HandlerTypes'
  BY DEF BuildInv, HandlerTypes, handlerVars
<1>2. CountInv'
  BY DEF CountInv, Filtering, Allocated, ItemCount, MayBeMissions, Screens
<1>3. BooleanInv'
  BY DEF BooleanInv, Filtering, MayBeMissions
<1>4. BuiltInv'
  BY DEF BuiltInv, Filtering, ItemCount, OthersComplete, AllowedMissions
<1> QED BY <1>1, <1>2, <1>3, <1>4 DEF BuildInv

LEMMA BuildAlloc == BuildInv /\ AllocItem => BuildInv'
<1> SUFFICES ASSUME BuildInv, AllocItem PROVE BuildInv'
  OBVIOUS
<1> USE MenuAssumption, MissionCountAssumption
<1>1. HandlerTypes'
  BY DEF BuildInv, HandlerTypes, handlerVars, AllocItem
<1>2. Filtering' = Filtering
  BY DEF AllocItem, Filtering
<1>3. CountInv'
  <2>1. CASE Filtering
    BY <2>1, <1>2 DEF BuildInv, CountInv, BooleanInv, Allocated, AllocItem, Flag,
                      ItemCount
  <2>2. CASE ~Filtering
    BY <2>2, <1>2 DEF BuildInv, CountInv, BooleanInv, AllocItem, ItemCount
  <2> QED BY <2>1, <2>2
<1>4. BooleanInv'
  <2>1. g_nextItemLocked' \in BOOLEAN
    BY Zenon DEF BuildInv, BooleanInv, AllocItem, Flag
  <2> QED BY <1>2, <2>1, Zenon DEF BuildInv, BooleanInv, AllocItem
<1>5. BuiltInv'
  BY <1>2 DEF BuildInv, BuiltInv, AllocItem, OthersComplete, allowedVars
<1> QED BY <1>1, <1>3, <1>4, <1>5 DEF BuildInv

LEMMA BuildAdd == BuildInv /\ AddItem => BuildInv'
<1> SUFFICES ASSUME BuildInv, AddItem PROVE BuildInv'
  OBVIOUS
<1> USE MenuAssumption, MissionCountAssumption
<1>1. HandlerTypes'
  BY DEF BuildInv, HandlerTypes, handlerVars, AddItem
<1>2. /\ item \in Nat /\ item < ItemCount(screen) /\ item' = item + 1
      /\ ItemCount(screen) \in Nat /\ ItemCount(screen)' = ItemCount(screen)
      /\ step = "add" /\ step' \in {"data", "populated"}
      /\ UNCHANGED <<screen, again, allowedVars>>
  BY DEF AddItem, BuildInv, CountInv, ItemCount
<1>3. Filtering' = Filtering
  BY <1>2 DEF Filtering
<1>4. CountInv'
  BY <1>2, <1>3 DEF BuildInv, CountInv, Allocated, AddItem, ItemCount
<1>5. BooleanInv'
  BY <1>2, <1>3, Zenon DEF BuildInv, BooleanInv, AddItem
<1>6. BuiltInv'
  <2>1. shown' = IF Filtering /\ g_nextItemLocked THEN shown ELSE shown \cup {item}
    BY DEF BuildInv, BooleanInv, AddItem, Skipped
  <2>2. shown \subseteq 0 .. item - 1 /\ (~Filtering => shown = 0 .. item - 1)
    BY <1>2 DEF BuildInv, BuiltInv
  <2>3. /\ shown' \subseteq 0 .. item' - 1
        /\ shown' \subseteq 0 .. ItemCount(screen) - 1
    BY <1>2, <2>1, <2>2
  <2>4. ~Filtering => shown' = 0 .. item' - 1
    <3>1. (0 .. item - 1) \cup {item} = 0 .. item' - 1
      BY <1>2
    <3> QED BY <2>1, <2>2, <3>1
  <2> QED BY <1>2, <1>3, <2>3, <2>4
          DEF BuildInv, BuiltInv, OthersComplete, allowedVars
<1> QED BY <1>1, <1>4, <1>5, <1>6 DEF BuildInv

\* A run that filtered the difficulties is told from one that filtered the
\* missions by its allocations, and is repeated.
LEMMA BuildPopulated ==
  ASSUME BuildInv, Populated
  PROVE  /\ BuildInv'
         /\ Rerun <=> screen = "difficulty" /\ ~again
<1> USE MenuAssumption, MissionCountAssumption
<1>1. HandlerTypes'
  BY DEF BuildInv, HandlerTypes, handlerVars, Populated
<1>2. /\ step = "populated" /\ item = ItemCount(screen)
      /\ ItemCount(screen) \in Nat \ {0} /\ screen \in Screens
      /\ UNCHANGED <<screen, allowedVars>>
  BY DEF Populated, BuildInv, CountInv, ItemCount
<1>3. Filtering => g_missionCounter = 2 * ItemCount(screen)
  BY <1>2 DEF BuildInv, CountInv, Allocated
<1>4. Rerun <=> screen = "difficulty" /\ ~again
  BY <1>2, <1>3 DEF Rerun, MayBeMissions, Filtering, ItemCount, Screens
<1>5. CASE Rerun
  <2>1. /\ screen = "difficulty" /\ again' = TRUE /\ ~Filtering'
        /\ g_missionCounter' = 0 /\ step' = "data" /\ item' = 0 /\ shown' = {}
        /\ g_populatingMissions' = FALSE /\ g_nextItemLocked' = FALSE
    BY <1>4, <1>5 DEF Populated, Filtering
  <2>2. CountInv'
    BY <1>2, <2>1 DEF CountInv, ItemCount, Screens
  <2>3. BooleanInv'
    BY <2>1, Zenon DEF BooleanInv, Filtering
  <2>4. BuiltInv'
    BY <1>2, <2>1 DEF BuildInv, BuiltInv, OthersComplete, allowedVars
  <2> QED BY <1>1, <1>4, <2>2, <2>3, <2>4 DEF BuildInv
<1>6. CASE ~Rerun
  <2>1. /\ step' = "shown" /\ ~Filtering'
        /\ UNCHANGED <<again, g_missionCounter, item, shown>>
        /\ g_populatingMissions' = FALSE /\ g_nextItemLocked' = FALSE
    BY <1>6 DEF Populated, Filtering
  <2>2. CountInv'
    BY <1>2, <2>1 DEF BuildInv, CountInv, ItemCount
  <2>3. BooleanInv'
    BY <2>1, Zenon DEF BuildInv, BooleanInv, Filtering
  <2>4. screen # "missions" => ~Filtering
    BY <1>2, <1>4, <1>6 DEF Filtering, MayBeMissions, Screens
  <2>5. BuiltInv'
    BY <1>2, <2>1, <2>4 DEF BuildInv, BuiltInv, OthersComplete, ItemCount, allowedVars
  <2> QED BY <1>1, <1>4, <2>2, <2>3, <2>5 DEF BuildInv
<1> QED BY <1>5, <1>6

LEMMA BuildSteps == BuildInv /\ [MenuNext]_menuVars => BuildInv'
<1> SUFFICES ASSUME BuildInv, [MenuNext]_menuVars PROVE BuildInv'
  OBVIOUS
<1>1. CASE Reading
  BY <1>1, BuildReading
<1>2. CASE \E s \in Screens : ChapterTabSetup(s)
  BY <1>2, BuildSetup
<1>3. CASE Populate
  BY <1>3, BuildAlloc, BuildAdd, BuildPopulated DEF Populate
<1>4. CASE UNCHANGED menuVars
  BY <1>4 DEF menuVars, handlerVars, filterVars, screenVars, allowedVars, BuildInv,
              HandlerTypes, CountInv, BooleanInv, BuiltInv, Filtering, Allocated,
              OthersComplete
<1> QED BY <1>1, <1>2, <1>3, <1>4 DEF MenuNext, Reading

LEMMA BuildHolds == MenuSpec => []BuildInv
BY BuildStarts, BuildSteps, PTL DEF MenuSpec

\* No other screen loses an item to the filter, the difficulties neither,
\* whatever the slot's completions are and whenever they arrive.
THEOREM OtherScreensComplete == MenuSpec => []OthersComplete
<1>1. BuildInv => OthersComplete
  BY DEF BuildInv, BuiltInv
<1> QED BY <1>1, BuildHolds, PTL

LEMMA BuildTypes == BuildInv => MenuTypeOK
<1> SUFFICES ASSUME BuildInv PROVE MenuTypeOK
  OBVIOUS
<1>1. g_populatingMissions \in BOOLEAN
  BY Zenon DEF BuildInv, BooleanInv, Filtering
<1>2. item \in 0 .. ItemCount(screen)
  BY MenuAssumption, MissionCountAssumption DEF BuildInv, CountInv, ItemCount
<1> QED BY <1>1, <1>2, Zenon
        DEF BuildInv, HandlerTypes, CountInv, BooleanInv, BuiltInv, MenuTypeOK

\* Type correctness; the count of allocations never exceeds two for each item.
THEOREM MenuTypes == MenuSpec => []MenuTypeOK
BY BuildTypes, BuildHolds, PTL

-----------------------------------------------------------------------------
(***************************************************************************)
(* The filter.                                                             *)
(***************************************************************************)
\* A mission the screen may offer: it was allowed at a moment of the setup and,
\* unless its permission depends on the completions, its item has come.
Offered(m) ==
  /\ m \in allowedOnce
  /\ m \in {MISSION_COUNT - 1, FinalMission} \/ m \in m_unlockedMissions

\* What was allowed throughout is kept, what is kept may be offered.
FilterInv ==
  /\ step # "shown" =>
       allowedAlways \subseteq AllowedMissions /\ AllowedMissions \subseteq allowedOnce
  /\ Filtering /\ screen = "missions" =>
       /\ \A m \in shown : Offered(m)
       /\ allowedAlways \cap (0 .. item - 1) \subseteq shown
       /\ step = "add" =>
            IF g_nextItemLocked THEN item \notin allowedAlways ELSE Offered(item)
  /\ screen = "missions" /\ step = "shown" =>
       /\ \A m \in shown : Offered(m)
       /\ allowedAlways \subseteq shown

\* Whatever the reader changes, what could be offered still can be and what was
\* not allowed throughout is not either.  (isMissionAllowed)
LEMMA OfferedStays ==
  ASSUME HandlerTypes, Reading
  PROVE  /\ \A m : Offered(m) => Offered(m)'
         /\ allowedAlways' \subseteq allowedAlways
         /\ step # "shown" => /\ allowedAlways' \subseteq AllowedMissions'
                              /\ AllowedMissions' \subseteq allowedOnce'
         /\ step = "shown" => UNCHANGED allowedVars
<1>1. Remember /\ m_unlockedMissions \subseteq m_unlockedMissions'
  BY DEF Reading, UnlockMission, SetFinalMission, SetMissionCompletions
<1>2. allowedOnce \subseteq allowedOnce' /\ allowedAlways' \subseteq allowedAlways
  BY <1>1 DEF Remember, allowedVars
<1>3. \A m : Offered(m) => Offered(m)'
  BY <1>1, <1>2 DEF Offered
<1>4. step # "shown" => /\ allowedAlways' \subseteq AllowedMissions'
                        /\ AllowedMissions' \subseteq allowedOnce'
  BY <1>1 DEF Remember
<1> QED BY <1>1, <1>2, <1>3, <1>4 DEF Remember

LEMMA AllowedUnchanged ==
  ASSUME UNCHANGED <<handlerVars, allowedVars>>
  PROVE  /\ \A m : Offered(m)' = Offered(m)
         /\ UNCHANGED <<AllowedMissions, allowedOnce, allowedAlways>>
BY DEF handlerVars, allowedVars, Allowed, AllowedMissions, Offered

\* Of an item's two allocations the second, with the odd count, decides.
LEMMA FilterAlloc ==
  ASSUME BuildInv, FilterInv, AllocItem PROVE FilterInv'
<1>1. /\ UNCHANGED <<screen, item, shown, again>>
      /\ Filtering' = Filtering /\ step \in {"data", "visual"} /\ step' # "shown"
      /\ step' = "add" => step = "visual"
  BY DEF AllocItem, Filtering
<1>2. /\ \A m : Offered(m)' = Offered(m)
      /\ UNCHANGED <<AllowedMissions, allowedOnce, allowedAlways>>
  BY AllowedUnchanged DEF AllocItem
<1>3. ASSUME Filtering, screen = "missions", step = "visual"
      PROVE  IF g_nextItemLocked' THEN item \notin allowedAlways ELSE Offered(item)
  <2>1. g_missionCounter = 2 * item + 1 /\ item \in Missions
    BY <1>3, MissionCountAssumption
       DEF BuildInv, CountInv, Allocated, ItemCount, Missions
  <2>2. g_missionCounter % 2 = 1 /\ g_missionCounter \div 2 = item
    BY <2>1 DEF Missions
  <2>3. g_nextItemLocked' = ~Allowed(item)
    BY <1>3, <2>2, Zenon DEF BuildInv, BooleanInv, AllocItem, Flag
  <2>4. ~Allowed(item) => item \notin allowedAlways
    BY <1>3 DEF FilterInv, AllowedMissions
  <2>5. ASSUME Allowed(item) PROVE Offered(item)
    <3>1. item \in allowedOnce
      BY <1>3, <2>1, <2>5 DEF FilterInv, AllowedMissions
    <3> QED BY <2>1, <2>5, <3>1
            DEF BuildInv, HandlerTypes, Allowed, isMissionAllowed, Offered
  <2> QED BY <2>3, <2>4, <2>5
<1> QED BY <1>1, <1>2, <1>3 DEF FilterInv

LEMMA FilterAdd ==
  ASSUME BuildInv, FilterInv, AddItem PROVE FilterInv'
<1>1. /\ item \in Nat /\ item' = item + 1 /\ step = "add"
      /\ step' \in {"data", "populated"}
      /\ UNCHANGED <<screen, again>>
  BY DEF AddItem, BuildInv, CountInv
<1>2. /\ Filtering' = Filtering
      /\ shown' = IF Filtering /\ g_nextItemLocked THEN shown ELSE shown \cup {item}
  <2>1. Filtering' = Filtering
    BY <1>1 DEF Filtering
  <2>2. shown' = IF Filtering /\ g_nextItemLocked THEN shown ELSE shown \cup {item}
    BY DEF BuildInv, BooleanInv, AddItem, Skipped
  <2> QED BY <2>1, <2>2
<1>3. /\ \A m : Offered(m)' = Offered(m)
      /\ UNCHANGED <<AllowedMissions, allowedOnce, allowedAlways>>
  BY AllowedUnchanged DEF AddItem
<1>4. ASSUME Filtering, screen = "missions"
      PROVE  /\ \A m \in shown' : Offered(m)
             /\ allowedAlways \cap (0 .. item' - 1) \subseteq shown'
  <2>1. \A m \in 0 .. item' - 1 : m \in 0 .. item - 1 \/ m = item
    BY <1>1
  <2> QED BY <1>1, <1>2, <1>4, <2>1 DEF FilterInv
<1> QED BY <1>1, <1>2, <1>3, <1>4 DEF FilterInv

\* The missions are never set up again, and every one has been looked at.
LEMMA FilterPopulated ==
  ASSUME BuildInv, FilterInv, Populated PROVE FilterInv'
<1>1. /\ step = "populated" /\ item = ItemCount(screen)
      /\ UNCHANGED screen /\ ~Filtering'
  BY BuildPopulated DEF Populated, BuildInv, CountInv, Filtering
<1>2. /\ \A m : Offered(m)' = Offered(m)
      /\ UNCHANGED <<AllowedMissions, allowedOnce, allowedAlways>>
  BY AllowedUnchanged DEF Populated
<1>3. ASSUME screen = "missions"
      PROVE  /\ UNCHANGED shown /\ \A m \in shown : Offered(m)
             /\ allowedAlways \subseteq shown
  <2>1. Filtering /\ ~Rerun
    BY <1>1, <1>3, BuildPopulated DEF Filtering, MayBeMissions, BuildInv, CountInv
  <2>2. allowedAlways \subseteq 0 .. item - 1
    BY <1>1, <1>3 DEF BuildInv, BuiltInv, ItemCount, Missions
  <2> QED BY <1>3, <2>1, <2>2 DEF FilterInv, Populated
<1> QED BY <1>1, <1>2, <1>3 DEF FilterInv

LEMMA FilterSteps == BuildInv /\ FilterInv /\ [MenuNext]_menuVars => FilterInv'
<1> SUFFICES ASSUME BuildInv, FilterInv, [MenuNext]_menuVars PROVE FilterInv'
  OBVIOUS
<1>1. CASE Reading
  <2>1. UNCHANGED <<screenVars, filterVars>>
    BY <1>1 DEF Reading, UnlockMission, SetFinalMission, SetMissionCompletions
  <2>2. /\ \A m : Offered(m) => Offered(m)'
        /\ allowedAlways' \subseteq allowedAlways
        /\ step # "shown" => /\ allowedAlways' \subseteq AllowedMissions'
                             /\ AllowedMissions' \subseteq allowedOnce'
    BY <1>1, OfferedStays DEF BuildInv
  <2> QED BY <2>1, <2>2 DEF FilterInv, Filtering, screenVars, filterVars
<1>2. ASSUME NEW s \in Screens, ChapterTabSetup(s) PROVE FilterInv'
  <2>1. AllowedMissions' = AllowedMissions
    BY <1>2 DEF ChapterTabSetup, handlerVars, AllowedMissions, Allowed
  <2>2. \A m : m \notin 0 .. -1
    OBVIOUS
  <2> QED BY <1>2, <2>1, <2>2 DEF ChapterTabSetup, FilterInv
<1>3. CASE Populate
  BY <1>3, FilterAlloc, FilterAdd, FilterPopulated DEF Populate
<1>4. CASE UNCHANGED menuVars
  <2>1. /\ \A m : Offered(m)' = Offered(m)
        /\ UNCHANGED <<AllowedMissions, allowedOnce, allowedAlways>>
    BY <1>4, AllowedUnchanged DEF menuVars
  <2> QED BY <1>4, <2>1 DEF menuVars, screenVars, filterVars, FilterInv, Filtering
<1> QED BY <1>1, <1>2, <1>3, <1>4 DEF MenuNext, Reading

LEMMA FilterStarts == MenuInit => FilterInv
BY DEF MenuInit, FilterInv, Filtering

\* The mission select offers no mission that was locked throughout its setup,
\* and all that were allowed throughout, for any number of missions, whatever
\* items and completions arrive in between and whatever the last cell holds.
THEOREM MissionSelectFiltered == MenuSpec => []MissionsFiltered
<1>1. FilterInv => MissionsFiltered
  BY DEF FilterInv, MissionsFiltered, Offered
<1> QED BY <1>1, BuildHolds, FilterStarts, FilterSteps, PTL DEF MenuSpec

-----------------------------------------------------------------------------
(***************************************************************************)
(* The skulls.                                                             *)
(***************************************************************************)
\* The sets of the type; the tier is set before anything was copied from it.
MasksInv ==
  /\ g_forcedOnMask \subseteq Scoring /\ g_forcedOffMask \subseteq ForcedAll
  /\ g_unlockedMask \subseteq ForcedAll
  /\ forcedOn \subseteq g_forcedOnMask /\ forcedOff \subseteq g_forcedOffMask
  /\ unlocked \subseteq g_unlockedMask /\ current \subseteq Skulls
  /\ bitmask \subseteq Skulls /\ lockIcons \subseteq Managed

PhasesInv ==
  /\ g_inMission \in BOOLEAN /\ resolvable \in BOOLEAN
  /\ apply \in {"sleep", "checkMission", "read", "write"}
  /\ playing \in {"no", "yes", "leaving"}

LEMMA SkullStarts == SkullInit => MasksInv /\ PhasesInv
BY DEF SkullInit, MasksInv, PhasesInv

\* What the worker has copied stays part of the shared masks: the unlocked ones
\* only grow, the forced ones are set while none of them are.
LEMMA MasksStep == MasksInv /\ [SkullNext]_skullVars => MasksInv'
<1> SUFFICES ASSUME MasksInv, [SkullNext]_skullVars PROVE MasksInv'
  OBVIOUS
<1> USE DEF MasksInv, Managed, ForcedAll, Skulls, maskVars, applyVars, gameVars
<1>1. CASE Managed = {} /\ \E tier \in Tiers : SetSkullsanityTier(tier)
  <2> PICK tier \in Tiers : SetSkullsanityTier(tier)
    BY <1>1
  <2>1. ForcedOn(tier) \subseteq Scoring /\ ForcedOff(tier) \subseteq ForcedAll
    BY DEF ForcedOn, ForcedOff
  <2> QED BY <1>1, <2>1 DEF SetSkullsanityTier
<1>2. CASE \E skull \in ForcedAll : UnlockSkull(skull)
  BY <1>2 DEF UnlockSkull
<1>3. CASE TakeMasks \/ CheckMission
  BY <1>3 DEF TakeMasks, CheckMission, Return
<1>4. CASE ReadBitmask
  BY <1>4 DEF ReadBitmask, Return
<1>5. CASE WriteBitmask
  BY <1>5 DEF WriteBitmask, Return, Updated
<1>6. CASE LoadMission \/ MissionLeft \/ ChainChanges
             \/ \E msg \in {"resume", "teardown", "other"} : ShellCommand(msg)
  BY <1>6 DEF LoadMission, MissionLeft, ChainChanges, ShellCommand
<1>7. CASE \E skull \in Skulls : DrawSkull(skull)
  BY <1>7 DEF DrawSkull, DrawnLocked
<1>8. CASE \E skull \in Skulls : ToggleSkull(skull)
  BY <1>8 DEF ToggleSkull
<1>9. CASE UNCHANGED skullVars
  BY <1>9 DEF skullVars
<1> QED BY <1>1, <1>2, <1>3, <1>4, <1>5, <1>6, <1>7, <1>8, <1>9
        DEF SkullNext, Reader, ApplyForcedSkulls, Game

LEMMA PhasesStep == PhasesInv /\ [SkullNext]_skullVars => PhasesInv'
<1> SUFFICES ASSUME PhasesInv, [SkullNext]_skullVars PROVE PhasesInv'
  OBVIOUS
<1> USE DEF PhasesInv, maskVars, applyVars, gameVars
<1>1. CASE Reader
  BY <1>1 DEF Reader, SetSkullsanityTier, UnlockSkull
<1>2. CASE ApplyForcedSkulls
  BY <1>2 DEF ApplyForcedSkulls, TakeMasks, CheckMission, ReadBitmask,
              WriteBitmask, Return
<1>3. CASE \E msg \in {"resume", "teardown", "other"} : ShellCommand(msg)
  BY <1>3, Zenon DEF ShellCommand, ClearInMission
<1>4. CASE LoadMission \/ MissionLeft
             \/ \E skull \in Skulls : DrawSkull(skull) \/ ToggleSkull(skull)
  BY <1>4 DEF LoadMission, MissionLeft, DrawSkull, ToggleSkull
<1>5. CASE ChainChanges
  BY <1>5, Zenon DEF ChainChanges
<1>6. CASE UNCHANGED skullVars
  BY <1>6 DEF skullVars
<1> QED BY <1>1, <1>2, <1>3, <1>4, <1>5, <1>6 DEF SkullNext, Game

LEMMA SkullsHold == SkullSpec => [](MasksInv /\ PhasesInv)
BY SkullStarts, MasksStep, PhasesStep, PTL DEF SkullSpec

\* Type correctness, with the worker's copies behind the shared masks.
THEOREM SkullTypes == SkullSpec => []SkullTypeOK
<1>1. MasksInv /\ PhasesInv => SkullTypeOK
  BY DEF MasksInv, PhasesInv, SkullTypeOK, Managed, ForcedAll, Skulls
<1> QED BY <1>1, SkullsHold, PTL

\* For any skulls and tiers: a skull of the player is never drawn locked, and
\* the worker's write, however late, changes none.
THEOREM PlayersSkullsKept == SkullSpec => []FreeSkullsKept
<1>1. MasksInv => FreeSkullsKept
  BY DEF MasksInv, FreeSkullsKept, Updated, Managed
<1> QED BY <1>1, SkullsHold, PTL

-----------------------------------------------------------------------------
(***************************************************************************)
(* The collapsing of the buttons.                                          *)
(***************************************************************************)
\* A navigation creates the thread of its own generation, which no navigation
\* before has used.
CollapseInv ==
  /\ generation \in 0 .. MaxNavs
  /\ nav \in {"none", "original", "returned"}
  /\ nav # "none" => generation \in Generations
  /\ thread \in [Generations -> {"none", "created", "sleeping", "sweeping",
                                 "leaving", "overtaken", "done"}]
  /\ \A g \in Generations :
       g > generation \/ (g = generation /\ nav # "none") => thread[g] = "none"

RunningInv ==
  /\ running \in BOOLEAN
  /\ \A g, h \in Generations : Inside(g) /\ Inside(h) => g = h
  /\ running => \E g \in Generations : Inside(g)
  /\ \A g \in Generations : Inside(g) => running

LEMMA CollapseStarts == CollapseInit => CollapseInv /\ RunningInv
<1> SUFFICES ASSUME CollapseInit PROVE CollapseInv /\ RunningInv
  OBVIOUS
<1>1. CollapseInv
  BY CollapseAssumption DEF CollapseInit, CollapseInv, Generations
<1>2. running = FALSE /\ \A g \in Generations : ~Inside(g)
  BY DEF CollapseInit, Inside
<1> QED BY <1>1, <1>2 DEF RunningInv

LEMMA CollapseStep == CollapseInv /\ [CollapseNext]_collapseVars => CollapseInv'
<1> SUFFICES ASSUME CollapseInv, [CollapseNext]_collapseVars PROVE CollapseInv'
  OBVIOUS
<1> USE CollapseAssumption
    DEF CollapseInv, Generations, threadVars, navVars, historyVars
<1>1. CASE \E label \in Labels : MenuNav(label)
  BY <1>1 DEF MenuNav
<1>2. CASE MenuNavOriginal
  BY <1>2 DEF MenuNavOriginal
<1>3. CASE MenuNavEnd
  BY <1>3 DEF MenuNavEnd, ThisGen
<1>4. CASE \E g \in Generations : CollapseThread(g)
  BY <1>4 DEF CollapseThread, Enter, Wake, Sweep, Leave, Move
<1>5. CASE UNCHANGED collapseVars
  BY <1>5 DEF collapseVars
<1> QED BY <1>1, <1>2, <1>3, <1>4, <1>5 DEF CollapseNext

\* Only the exchange at the start of a thread sets the flag, and only the
\* thread that has set it clears it.
LEMMA RunningStep ==
  CollapseInv /\ RunningInv /\ [CollapseNext]_collapseVars => RunningInv'
<1> SUFFICES ASSUME CollapseInv, RunningInv, [CollapseNext]_collapseVars
             PROVE  RunningInv'
  OBVIOUS
<1> USE DEF RunningInv, Inside, threadVars, navVars, historyVars
<1>1. CASE \E label \in Labels : MenuNav(label)
  BY <1>1 DEF MenuNav
<1>2. CASE MenuNavOriginal
  BY <1>2 DEF MenuNavOriginal
<1>3. CASE MenuNavEnd
  <2>1. ASSUME nav = "returned" PROVE generation \in Generations /\ ~Inside(generation)
    BY <2>1 DEF CollapseInv
  <2>2. \A g \in Generations : Inside(g)' = Inside(g)
    BY <1>3, <2>1 DEF MenuNavEnd, ThisGen, CollapseInv
  <2> QED BY <1>3, <2>2 DEF MenuNavEnd
<1>4. ASSUME NEW g \in Generations, Enter(g) PROVE RunningInv'
  <2>1. \A h \in Generations : h # g => Inside(h)' = Inside(h)
    BY <1>4 DEF Enter, Move, CollapseInv
  <2>2. running' = TRUE
    BY <1>4 DEF Enter
  <2>3. CASE running
    <3>1. ~Inside(g) /\ ~Inside(g)'
      BY <1>4, <2>3 DEF Enter, Move, CollapseInv
    <3> QED BY <2>1, <2>2, <2>3, <3>1
  <2>4. CASE ~running
    <3>1. Inside(g)' /\ \A h \in Generations : ~Inside(h)
      BY <1>4, <2>4 DEF Enter, Move, CollapseInv
    <3> QED BY <2>1, <2>2, <3>1
  <2> QED BY <2>3, <2>4
<1>5. ASSUME NEW g \in Generations, Wake(g) \/ Sweep(g) PROVE RunningInv'
  <2>1. \A h \in Generations : Inside(h)' = Inside(h)
    <3>1. Inside(g) /\ Inside(g)'
      BY <1>5 DEF Wake, Sweep, Move, CollapseInv
    <3>2. \A h \in Generations : h # g => thread'[h] = thread[h]
      BY <1>5 DEF Wake, Sweep, Move, CollapseInv
    <3> QED BY <3>1, <3>2
  <2>2. running' = running
    BY <1>5 DEF Wake, Sweep
  <2> QED BY <2>1, <2>2
<1>6. ASSUME NEW g \in Generations, Leave(g) PROVE RunningInv'
  <2>1. Inside(g) /\ ~Inside(g)' /\ \A h \in Generations : h # g => Inside(h)' = Inside(h)
    BY <1>6 DEF Leave, Move, CollapseInv
  <2>2. running' = FALSE
    BY <1>6 DEF Leave
  <2> QED BY <2>1, <2>2
<1>7. CASE UNCHANGED collapseVars
  BY <1>7 DEF collapseVars
<1> QED BY <1>1, <1>2, <1>3, <1>4, <1>5, <1>6, <1>7 DEF CollapseNext, CollapseThread

\* For any number of navigations at most one thread walks the engine's objects,
\* and the flag says whether there is one.
THEOREM CollapsersExclusive == CollapseSpec => []OneCollapser
<1>1. RunningInv => OneCollapser
  BY DEF RunningInv, OneCollapser
<1> QED BY <1>1, CollapseStarts, CollapseStep, RunningStep, PTL DEF CollapseSpec

-----------------------------------------------------------------------------
(***************************************************************************)
(* The four side by side.                                                  *)
(***************************************************************************)
\* Each keeps to its own specification while the others move.
THEOREM LobbyComposes == Spec => MenuSpec /\ SkullSpec /\ CollapseSpec /\ FlowSpec
<1>1. Init => MenuInit /\ SkullInit /\ CollapseInit /\ FlowInit
  BY DEF Init
<1>2. [Next]_vars => /\ [MenuNext]_menuVars /\ [SkullNext]_skullVars
                     /\ [CollapseNext]_collapseVars /\ [FlowNext]_flowVars
  <2>1. UNCHANGED vars => UNCHANGED <<menuVars, skullVars, collapseVars, flowVars>>
    BY DEF vars
  <2> QED BY <2>1 DEF Next, MenuMoves, SkullsMove, ButtonsMove, FlowMoves
<1> QED BY <1>1, <1>2, PTL
        DEF Spec, MenuSpec, SkullSpec, CollapseSpec, FlowSpec

\* The types of the menu and of the skulls hold of the whole, whatever the slot's
\* completions are.
THEOREM LobbyTypesHold == Spec => []LobbyTypeOK
BY LobbyComposes, MenuTypes, SkullTypes, PTL DEF LobbyTypeOK

\* So does what is proved of each part.
THEOREM LobbyKeepsParts ==
  Spec => /\ [](MissionsFiltered /\ OthersComplete)
          /\ [](FreeSkullsKept /\ OneCollapser)
          /\ [](InMissionKept /\ LobbyClear) /\ QuitsOwnMission
BY LobbyComposes, MissionSelectFiltered, OtherScreensComplete, PlayersSkullsKept,
   CollapsersExclusive, MissionKeepsFlag, LobbyIsClear, MissionQuitsOwn, PTL

=============================================================================
