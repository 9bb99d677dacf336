---------------------------- MODULE ForcedSkulls ----------------------------
(***************************************************************************)
(* The skulls of the DLL (HaloAP_DLL/hooks/skull_hook.cpp): the tier says  *)
(* which ones the randomizer holds on or off, a disabler item frees one,   *)
(* and the worker writes what is still held into the game's skull bitmask  *)
(* while no mission runs.  A mask is the set of its skulls.                *)
(*                                                                         *)
(* The worker reads the masks, the mission flag and the bitmask at         *)
(* different times, while the pipe reader frees skulls, the player toggles *)
(* others and missions begin and end.                                      *)
(***************************************************************************)
EXTENDS Naturals

CONSTANTS
  Scoring,      \* kScoringOnly: the skulls that score
  NonScoring,   \* kForcedNonScoring
  Others,       \* the game's skulls that no tier holds
  Tiers         \* the skullsanity tiers a slot can have

ASSUME SkullAssumption ==
  /\ Scoring \cap NonScoring = {}
  /\ Others \cap (Scoring \cup NonScoring) = {}
  /\ Tiers \subseteq Nat

ForcedAll == Scoring \cup NonScoring
Skulls == ForcedAll \cup Others

VARIABLES
  g_forcedOnMask, g_forcedOffMask, g_unlockedMask,  \* under g_skullMutex
  g_inMission,
  \* the worker inside ApplyForcedSkulls
  apply, forcedOn, forcedOff, unlocked, current,
  \* the game
  bitmask,      \* the skulls that are on
  resolvable,   \* whether the pointer chain to the bitmask can be walked
  playing,      \* "no", "yes", or "leaving" once the teardown is posted
  lockIcons     \* the skulls whose widgets were last drawn locked

maskVars == <<g_forcedOnMask, g_forcedOffMask, g_unlockedMask>>
applyVars == <<apply, forcedOn, forcedOff, unlocked, current>>
gameVars == <<bitmask, resolvable, playing, lockIcons>>
skullVars == <<maskVars, g_inMission, applyVars, gameVars>>

SkullInit ==
  /\ g_forcedOnMask = {} /\ g_forcedOffMask = {} /\ g_unlockedMask = {}
  /\ g_inMission = FALSE
  /\ apply = "sleep"
  /\ forcedOn = {} /\ forcedOff = {} /\ unlocked = {} /\ current = {}
  /\ bitmask = {}
  /\ resolvable = FALSE /\ playing = "no" /\ lockIcons = {}

-----------------------------------------------------------------------------
(***************************************************************************)
(* The pipe reader.                                                        *)
(***************************************************************************)
ForcedOn(tier) == IF tier = 2 THEN Scoring ELSE {}
ForcedOff(tier) ==
  CASE tier \in {1, 2} -> NonScoring
    [] tier = 3        -> ForcedAll
    [] OTHER           -> {}

SetSkullsanityTier(tier) ==
  /\ g_forcedOnMask' = ForcedOn(tier)
  /\ g_forcedOffMask' = ForcedOff(tier)
  /\ UNCHANGED <<g_unlockedMask, g_inMission, applyVars, gameVars>>

UnlockSkull(skull) ==
  /\ g_unlockedMask' = g_unlockedMask \cup {skull}
  /\ UNCHANGED <<g_forcedOnMask, g_forcedOffMask, g_inMission, applyVars,
                 gameVars>>

-----------------------------------------------------------------------------
(***************************************************************************)
(* ApplyForcedSkulls, once per tick of the worker.                         *)
(***************************************************************************)

\* Mutation: a tier that holds no skull on is taken for none.
BugForcesNothing == g_forcedOnMask = {}

ForcesNothing == g_forcedOnMask = {} /\ g_forcedOffMask = {}

\* The return; the locals are gone.
Return ==
  /\ apply' = "sleep"
  /\ forcedOn' = {} /\ forcedOff' = {} /\ unlocked' = {} /\ current' = {}

TakeMasks ==
  /\ apply = "sleep" /\ ~ForcesNothing
  /\ forcedOn' = g_forcedOnMask
  /\ forcedOff' = g_forcedOffMask
  /\ unlocked' = g_unlockedMask
  /\ apply' = "checkMission"
  /\ UNCHANGED <<maskVars, g_inMission, current, gameVars>>

CheckMission ==
  /\ apply = "checkMission"
  /\ IF g_inMission
       THEN Return
       ELSE /\ apply' = "read"
            /\ UNCHANGED <<forcedOn, forcedOff, unlocked, current>>
  /\ UNCHANGED <<maskVars, g_inMission, gameVars>>

\* ResolveSkullBitmask, and the read.
ReadBitmask ==
  /\ apply = "read"
  /\ IF resolvable
       THEN /\ apply' = "write" /\ current' = bitmask
            /\ UNCHANGED <<forcedOn, forcedOff, unlocked>>
       ELSE Return
  /\ UNCHANGED <<maskVars, g_inMission, gameVars>>

\* Mutation: what is to be off is turned off without regard to what is free.
BugUpdated == (current \cup (forcedOn \ unlocked)) \ forcedOff

Updated == (current \cup (forcedOn \ unlocked)) \ (forcedOff \ unlocked)

WriteBitmask ==
  /\ apply = "write"
  /\ bitmask' = IF Updated # current THEN Updated ELSE bitmask
  /\ Return
  /\ UNCHANGED <<maskVars, g_inMission, resolvable, playing, lockIcons>>

ApplyForcedSkulls == TakeMasks \/ CheckMission \/ ReadBitmask \/ WriteBitmask

-----------------------------------------------------------------------------
(***************************************************************************)
(* The game, and the hooks in it.                                          *)
(***************************************************************************)

\* DetourBeginMissionLoad sets the flag before the mission is loaded.
LoadMission ==
  /\ playing = "no"
  /\ playing' = "yes" /\ g_inMission' = TRUE
  /\ UNCHANGED <<maskVars, applyVars, bitmask, resolvable, lockIcons>>

\* Mutation: the teardown is taken for any other message.
BugResumeOnly(msg) ==
  g_inMission' = IF msg = "resume" THEN FALSE ELSE g_inMission

ClearInMission(msg) ==
  g_inMission' = IF msg \in {"resume", "teardown"} THEN FALSE ELSE g_inMission

\* DetourShellCommand, with neither quit flag set.
ShellCommand(msg) ==
  /\ playing = "yes"
  /\ ClearInMission(msg)
  /\ playing' = IF msg = "teardown" THEN "leaving" ELSE "yes"
  /\ UNCHANGED <<maskVars, applyVars, bitmask, resolvable, lockIcons>>

MissionLeft ==
  /\ playing = "leaving"
  /\ playing' = "no"
  /\ UNCHANGED <<maskVars, g_inMission, applyVars, bitmask, resolvable,
                 lockIcons>>

\* The objects on the way to the bitmask come and go.
ChainChanges ==
  /\ resolvable' = ~resolvable
  /\ UNCHANGED <<maskVars, g_inMission, applyVars, bitmask, playing, lockIcons>>

Managed == g_forcedOnMask \cup g_forcedOffMask

\* Mutation: every skull that has not been received is drawn locked.
BugLockAll(skull) == skull \notin g_unlockedMask

DrawnLocked(skull) == skull \in Managed /\ skull \notin g_unlockedMask

\* DetourSkullSetEnabled: a managed skull is drawn by its state, any other as
\* the game wants it.  The masks are read one after the other, but only grow.
DrawSkull(skull) ==
  /\ lockIcons' = IF DrawnLocked(skull) THEN lockIcons \cup {skull}
                                        ELSE lockIcons \ {skull}
  /\ UNCHANGED <<maskVars, g_inMission, applyVars, bitmask, resolvable,
                 playing>>

\* The player toggles a skull whose widget is not locked.
ToggleSkull(skull) ==
  /\ playing = "no" /\ skull \notin lockIcons
  /\ bitmask' = IF skull \in bitmask THEN bitmask \ {skull}
                                     ELSE bitmask \cup {skull}
  /\ UNCHANGED <<maskVars, g_inMission, applyVars, resolvable, playing,
                 lockIcons>>

-----------------------------------------------------------------------------
\* The game's bitmask is as the tier and the received disablers have it.
Conforms ==
  /\ g_forcedOnMask \ g_unlockedMask \subseteq bitmask
  /\ bitmask \cap (g_forcedOffMask \ g_unlockedMask) = {}

\* The tier of the slot is replayed, so that it is set once; only what a tier
\* can hold has a disabler.
Reader ==
  \/ Managed = {} /\ \E tier \in Tiers : SetSkullsanityTier(tier)
  \/ \E skull \in ForcedAll : UnlockSkull(skull)

Game ==
  \/ LoadMission
  \/ \E msg \in {"resume", "teardown", "other"} : ShellCommand(msg)
  \/ MissionLeft \/ ChainChanges
  \/ \E skull \in Skulls : DrawSkull(skull) \/ ToggleSkull(skull)

SkullNext == Reader \/ ApplyForcedSkulls \/ Game

SkullSpec == SkullInit /\ [][SkullNext]_skullVars

-----------------------------------------------------------------------------
(***************************************************************************)
(* Properties.                                                             *)
(***************************************************************************)

\* The type invariant; the masks of the worker lag behind the shared ones.
\* (skull_hook.cpp:415-492)
SkullTypeOK ==
  /\ g_forcedOnMask \subseteq Scoring /\ g_forcedOffMask \subseteq ForcedAll
  /\ g_unlockedMask \subseteq ForcedAll /\ g_inMission \in BOOLEAN
  /\ apply \in {"sleep", "checkMission", "read", "write"}
  /\ forcedOn \subseteq g_forcedOnMask /\ forcedOff \subseteq g_forcedOffMask
  /\ unlocked \subseteq g_unlockedMask /\ current \subseteq Skulls
  /\ bitmask \subseteq Skulls /\ lockIcons \subseteq Skulls
  /\ resolvable \in BOOLEAN /\ playing \in {"no", "yes", "leaving"}

\* The skulls that are the player's own: one the tier does not manage is never
\* drawn locked, and the worker is about to change neither such a skull nor one
\* that was free when it took the masks
\* (skull_hook.cpp:478-482, mission_select_block.cpp:263-290).
FreeSkullsKept ==
  /\ lockIcons \subseteq Managed
  /\ apply = "write" =>
       \A skull \in Skulls :
         (skull \in Updated) # (skull \in current)
           => skull \in Managed \ unlocked

\* When the player stays out of missions and the bitmask can be reached, the
\* skulls the tier holds get and keep getting their state, whatever is toggled
\* and freed meanwhile (skull_hook.h:13-14, "Called each worker tick to keep
\* forced skulls active").
SkullsForced == <>[](playing = "no" /\ resolvable) => []<>Conforms

=============================================================================
