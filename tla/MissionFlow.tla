----------------------------- MODULE MissionFlow -----------------------------
(***************************************************************************)
(* How a mission is left that is locked or has been won: the detours of    *)
(* BeginMissionLoad, game_won and the shell's commands, which share two    *)
(* flags (HaloAP_DLL/hooks/mission_load.cpp, mission_complete.cpp,         *)
(* shell_command.cpp).                                                     *)
(*                                                                         *)
(* The engine's thread loads, wins and tears down missions; the shell's    *)
(* thread posts commands to it.  A flag set on the first is consumed by    *)
(* the next command on the second, whatever command that is.               *)
(***************************************************************************)
EXTENDS Naturals, Sequences

CONSTANTS MaxLoads,   \* bound: the missions the player starts
          MaxPosted   \* bound: the commands waiting for the engine

ASSUME FlowAssumption == MaxLoads \in Nat /\ MaxPosted \in Nat \ {0}

Commands == {"pause", "teardown", "resume", "other"}   \* 0x0, 0xD, 0x1, others

VARIABLES
  \* the engine's thread
  mission,               \* "none", "loading", "running" or "won"
  locked,                \* isLocked: whether it was locked at its load
  loadDetour,            \* in DetourBeginMissionLoad: "none", "original", "flag"
  loads,                 \* the missions started so far
  halo1,                 \* whether the engine's module is loaded
  \* the shell's thread
  posted,                \* what the engine has not handled yet
  quitting,              \* what DetourShellCommand still has to do
  \* the flags
  inMission,             \* skull_hook.cpp's g_inMission
  g_quitAfterComplete, g_quitLockedMission,
  \* history
  cleared,               \* inMission was cleared on behalf of this mission
  crossed                \* a mission ended before its flag was consumed

engineVars == <<mission, locked, loadDetour, loads, halo1>>
flagVars == <<inMission, g_quitAfterComplete, g_quitLockedMission>>
flowVars == <<engineVars, posted, quitting, flagVars, cleared, crossed>>

Flagged == g_quitAfterComplete \/ g_quitLockedMission

TeardownPending ==
  \/ \E n \in 1 .. Len(posted) : posted[n] = "teardown"
  \/ \E n \in 1 .. Len(quitting) : quitting[n] = "teardown"

FlowInit ==
  /\ mission = "none" /\ locked = FALSE /\ loadDetour = "none" /\ loads = 0
  /\ halo1 = TRUE /\ posted = <<>> /\ quitting = <<>>
  /\ inMission = FALSE
  /\ g_quitAfterComplete = FALSE /\ g_quitLockedMission = FALSE
  /\ cleared = FALSE /\ crossed = FALSE

-----------------------------------------------------------------------------
(***************************************************************************)
(* The engine's thread.                                                    *)
(***************************************************************************)
Handles(command) ==
  /\ loadDetour = "none" /\ posted # <<>> /\ Head(posted) = command
  /\ posted' = Tail(posted)

\* Mutation: the mission flag is left as it is.
BugNotMarked ==
  /\ Handles("load")
  /\ mission' = "loading" /\ loadDetour' = "original"
  /\ locked' \in BOOLEAN
  /\ cleared' = FALSE
  /\ crossed' = (crossed /\ (Flagged \/ TeardownPending))
  /\ UNCHANGED <<loads, halo1, quitting, flagVars>>

\* DetourBeginMissionLoad up to the call of the original.
LoadBegins ==
  /\ Handles("load")
  /\ mission' = "loading" /\ loadDetour' = "original"
  /\ locked' \in BOOLEAN
  /\ inMission' = TRUE
  /\ cleared' = FALSE
  /\ crossed' = (crossed /\ (Flagged \/ TeardownPending))
  /\ UNCHANGED <<loads, halo1, quitting, g_quitAfterComplete, g_quitLockedMission>>

LoadOriginal ==
  /\ loadDetour = "original"
  /\ loadDetour' = "flag" /\ mission' = "running"
  /\ UNCHANGED <<locked, loads, halo1, posted, quitting, flagVars, cleared, crossed>>

LoadEnds ==
  /\ loadDetour = "flag"
  /\ loadDetour' = "none"
  /\ g_quitLockedMission' = (g_quitLockedMission \/ locked)
  /\ UNCHANGED <<mission, locked, loads, halo1, posted, quitting, inMission,
                 g_quitAfterComplete, cleared, crossed>>

\* DetourGameWon.  A mission that is left already leaves its flag behind.
Won ==
  /\ mission = "running" /\ loadDetour = "none"
  /\ mission' = "won"
  /\ g_quitAfterComplete' = TRUE
  /\ crossed' = (crossed \/ g_quitLockedMission \/ TeardownPending)
  /\ UNCHANGED <<locked, loadDetour, loads, halo1, posted, quitting, inMission,
                 g_quitLockedMission, cleared>>

\* A teardown ends the mission, the other commands are the engine's own.
CommandHandled(command) ==
  /\ Handles(command)
  /\ mission' = IF command = "teardown" THEN "none" ELSE mission
  /\ UNCHANGED <<locked, loadDetour, loads, halo1, quitting, flagVars, cleared, crossed>>

\* The module goes with the mission in it; the worker notices, and it is back.
ModuleGone ==
  /\ loadDetour = "none" /\ quitting = <<>> /\ halo1
  /\ halo1' = FALSE /\ mission' = "none" /\ posted' = <<>>
  /\ crossed' = TRUE
  /\ UNCHANGED <<locked, loadDetour, loads, quitting, flagVars, cleared>>

ModuleBack ==
  /\ ~halo1
  /\ inMission' = FALSE /\ halo1' = TRUE
  /\ UNCHANGED <<mission, locked, loadDetour, loads, posted, quitting,
                 g_quitAfterComplete, g_quitLockedMission, cleared, crossed>>

-----------------------------------------------------------------------------
(***************************************************************************)
(* The shell's thread: it is in one detour at a time.                      *)
(***************************************************************************)
ShellFree == halo1 /\ quitting = <<>> /\ Len(posted) < MaxPosted

StartMission ==
  /\ ShellFree
  /\ mission = "none" /\ loads < MaxLoads
  /\ \A n \in 1 .. Len(posted) : posted[n] # "load"
  /\ loads' = loads + 1
  /\ posted' = Append(posted, "load")
  /\ UNCHANGED <<mission, locked, loadDetour, halo1, quitting, flagVars, cleared, crossed>>

\* Mutation: the mission flag is left to the game.
BugQuitSequence == <<"pause", "teardown", "resume">>

QuitSequence == <<"pause", "teardown", "resume", "SetInMission">>

\* Mutation: the flag stays for the commands after.
BugKeepsFlag ==
  /\ g_quitAfterComplete
  /\ quitting' = QuitSequence
  /\ cleared' = TRUE
  /\ UNCHANGED <<posted, flagVars, crossed>>

\* The first branch of DetourShellCommand; the command itself is dropped.
QuitAfterComplete ==
  /\ g_quitAfterComplete
  /\ g_quitAfterComplete' = FALSE
  /\ quitting' = QuitSequence
  /\ cleared' = TRUE
  /\ UNCHANGED <<posted, inMission, g_quitLockedMission, crossed>>

\* Mutation: the flag is consumed, the sequence forgotten.
BugQuitLocked ==
  /\ ~g_quitAfterComplete /\ g_quitLockedMission
  /\ g_quitLockedMission' = FALSE
  /\ inMission' = FALSE /\ cleared' = TRUE
  /\ UNCHANGED <<posted, quitting, g_quitAfterComplete, crossed>>

\* The second branch, which clears the mission flag before.
QuitLocked ==
  /\ ~g_quitAfterComplete /\ g_quitLockedMission
  /\ g_quitLockedMission' = FALSE
  /\ inMission' = FALSE /\ cleared' = TRUE
  /\ quitting' = <<"pause", "teardown", "resume">>
  /\ UNCHANGED <<posted, g_quitAfterComplete, crossed>>

\* Any other command goes to the engine.  A teardown during the load ends a
\* mission whose flag is stored after it.
PassOn(command) ==
  /\ ~Flagged
  /\ posted' = Append(posted, command)
  /\ inMission' = (inMission /\ command \notin {"resume", "teardown"})
  /\ cleared' = (cleared \/ command \in {"resume", "teardown"})
  /\ crossed' = (crossed \/ (command = "teardown" /\ loadDetour # "none"))
  /\ UNCHANGED <<quitting, g_quitAfterComplete, g_quitLockedMission>>

\* The shell pauses, resumes and ends missions, never where there is none.
DetourShellCommand(command) ==
  /\ ShellFree
  /\ mission # "none" \/ command = "other"
  /\ QuitAfterComplete \/ QuitLocked \/ PassOn(command)
  /\ UNCHANGED engineVars

\* The calls of the original in a quit sequence.
QuitStep ==
  /\ quitting # <<>>
  /\ quitting' = Tail(quitting)
  /\ IF Head(quitting) = "SetInMission"
       THEN inMission' = FALSE /\ UNCHANGED posted
       ELSE posted' = Append(posted, Head(quitting)) /\ UNCHANGED inMission
  /\ UNCHANGED <<engineVars, g_quitAfterComplete, g_quitLockedMission, cleared, crossed>>

EngineStep ==
  \/ LoadBegins \/ LoadOriginal \/ LoadEnds
  \/ \E command \in Commands : CommandHandled(command)

ShellStep == \E command \in Commands : DetourShellCommand(command)

FlowNext ==
  \/ EngineStep \/ Won \/ ModuleGone \/ ModuleBack
  \/ StartMission \/ ShellStep \/ QuitStep

FlowFairness ==
  WF_flowVars(EngineStep) /\ WF_flowVars(QuitStep) /\ WF_flowVars(ModuleBack)

FlowSpec == FlowInit /\ [][FlowNext]_flowVars /\ FlowFairness

-----------------------------------------------------------------------------
(***************************************************************************)
(* Properties.                                                             *)
(***************************************************************************)

\* The mission that is made to quit was locked or has been won, unless a mission
\* before it ended with its module, by a command that crossed with its flag,
\* or was won although it was to be left
\* (shell_command.cpp:41-63, mission_load.cpp:116, mission_complete.cpp:65).
QuitsOwnMission ==
  [][quitting = <<>> /\ quitting' # <<>> =>
       crossed \/ mission = "won" \/ (mission # "none" /\ locked)]_flowVars

\* While a mission runs the flag that keeps the worker off the skull bitmask
\* is set, until a command of this mission clears it or ends it: not by the end of a quit
\* sequence of the one before (shell_command.cpp:50, mission_load.cpp:87).
InMissionKept ==
  mission # "none" /\ ~cleared /\ ~TeardownPending => inMission

\* With no mission and nothing under way the flag is clear again, or the lobby
\* would keep its skulls unforced (skull_hook.h:24-26); only a quit sequence
\* that hits a wrong mission may leave it set.
LobbyClear ==
  mission = "none" /\ posted = <<>> /\ quitting = <<>> /\ halo1
    => ~inMission \/ crossed

\* As long as the shell posts commands a mission that is locked is left.
LockedLeft ==
  []<><<ShellStep>>_flowVars => []<>(mission = "none" \/ ~locked)

=============================================================================
