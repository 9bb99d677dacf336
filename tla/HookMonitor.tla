---------------------------- MODULE HookMonitor ----------------------------
(***************************************************************************)
(* The worker of HaloAP.dll (WorkerMain, HaloAP_DLL/dllmain.cpp): it hooks *)
(* the functions of halo1.dll through MinHook and keeps watch, because the *)
(* game unloads and reloads halo1.dll and creates its engine object anew   *)
(* while the worker runs.  Module and engine come and go between any two   *)
(* calls of the worker.                                                    *)
(*                                                                         *)
(* A hook is the name of one; its target is that function in the image of  *)
(* halo1.dll at some base, which is all that g_hookTarget has to hold.  In *)
(* which order the hooks of a group are installed or removed makes no      *)
(* difference: any order is allowed.                                       *)
(***************************************************************************)
EXTENDS Naturals

CONSTANTS
  HaloHooks,    \* what InstallHalo1Hooks installs
  Bases,        \* the addresses halo1.dll can be loaded at
  Engines,      \* the addresses the engine object can be created at
  Reuse,        \* when halo1.dll may return to a base it had before: after the
                \* worker has "noticed" its absence, or "unnoticed"
  MaxRetries,   \* the quick retries after a change of engine, 10 in the code
  MaxLoads,     \* bound: how often halo1.dll is loaded
  MaxEngines    \* bound: how often an engine object is created

VtableHooks == {"level_load", "shell_command"}
Hooks == HaloHooks \cup VtableHooks
Nothing == "nothing"    \* a null module, target, pointer or object

ASSUME HookAssumption ==
  /\ "mission_load" \in HaloHooks
  /\ HaloHooks \cap VtableHooks = {}
  /\ Nothing \notin Bases \cup Engines
  /\ Reuse \subseteq {"noticed", "unnoticed"}
  /\ MaxRetries \in Nat /\ MaxLoads \in Nat /\ MaxEngines \in Nat

VARIABLES
  \* the game
  halo1,            \* where halo1.dll is loaded
  engine,           \* the engine object, what halo1.dll's global points to
  patched,          \* the hooked functions of the loaded image
  usedBases, loads, engines,
  \* MinHook
  entries,          \* the targets of its hook entries, all enabled
  \* the hooks
  g_hookTarget,     \* of each hook
  g_engineGlobal,   \* the image whose engine global is cached
  g_inMission,
  \* the worker
  g_shutdown, pc, pending, after,
  currentHalo1, lastHalo1, lastEngineObj, vtableHooksInstalled, retry

gameVars == <<halo1, engine, patched, usedBases, loads, engines>>
hookVars == <<entries, patched, g_hookTarget>>
localVars == <<currentHalo1, lastHalo1, lastEngineObj, vtableHooksInstalled,
               retry>>
vars == <<gameVars, entries, g_hookTarget, g_engineGlobal, g_inMission,
          g_shutdown, pc, pending, after, localVars>>

Init ==
  /\ halo1 = Nothing /\ engine = Nothing /\ patched = {}
  /\ usedBases = {} /\ loads = 0 /\ engines = 0
  /\ entries = {}
  /\ g_hookTarget = [h \in Hooks |-> Nothing]
  /\ g_engineGlobal = Nothing /\ g_inMission = FALSE
  /\ g_shutdown = FALSE
  /\ pc = "start" /\ pending = {} /\ after = "tick"
  /\ currentHalo1 = Nothing /\ lastHalo1 = Nothing
  /\ lastEngineObj = Nothing
  /\ vtableHooksInstalled = FALSE /\ retry = 0

-----------------------------------------------------------------------------
(***************************************************************************)
(* MinHook, as the hooks use it.                                           *)
(***************************************************************************)
Targets == Bases \X Hooks

\* MH_CreateHook refuses a target it still has an entry for; MH_EnableHook
\* patches the function.
Hookable(h) == <<halo1, h>> \notin entries

CreateHook(h) ==
  /\ g_hookTarget' = [g_hookTarget EXCEPT ![h] = halo1]
  /\ IF Hookable(h)
       THEN /\ entries' = entries \cup {<<halo1, h>>}
            /\ patched' = patched \cup {h}
       ELSE UNCHANGED <<entries, patched>>

\* Mutation: the target is forgotten without MH_DisableHook and MH_RemoveHook.
BugForget(h) ==
  /\ g_hookTarget' = [g_hookTarget EXCEPT ![h] = Nothing]
  /\ UNCHANGED <<entries, patched>>

\* MH_DisableHook and MH_RemoveHook: where the image is gone, VirtualProtect
\* fails in both, and the entry stays, enabled.
RemoveHook(h) ==
  /\ g_hookTarget' = [g_hookTarget EXCEPT ![h] = Nothing]
  /\ IF <<halo1, h>> \in entries /\ g_hookTarget[h] = halo1
       THEN /\ entries' = entries \ {<<halo1, h>>}
            /\ patched' = patched \ {h}
       ELSE UNCHANGED <<entries, patched>>

-----------------------------------------------------------------------------
(***************************************************************************)
(* The worker: installing and removing groups of hooks.                    *)
(***************************************************************************)
Start ==
  /\ pc = "start"
  /\ lastHalo1' = halo1
  /\ pending' = IF halo1 # Nothing THEN HaloHooks ELSE {}
  /\ pc' = "install" /\ after' = "tick"
  /\ UNCHANGED <<gameVars, entries, g_hookTarget, g_engineGlobal, g_inMission,
                 g_shutdown, currentHalo1, lastEngineObj,
                 vtableHooksInstalled, retry>>

\* One Install... of InstallHalo1Hooks, each with a GetModuleHandle of its own.
Install(h) ==
  /\ pc = "install" /\ h \in pending
  /\ pending' = pending \ {h}
  /\ IF halo1 # Nothing THEN CreateHook(h) ELSE UNCHANGED hookVars
  /\ UNCHANGED <<halo1, engine, usedBases, loads, engines, g_engineGlobal,
                 g_inMission, g_shutdown, pc, after, localVars>>

Installed ==
  /\ pc = "install" /\ pending = {}
  /\ pc' = after
  /\ UNCHANGED <<gameVars, entries, g_hookTarget, g_engineGlobal, g_inMission,
                 g_shutdown, pending, after, localVars>>

\* One Uninstall...; that of the level load hook drops the cached global.
Uninstall(h) ==
  /\ pc = "uninstall" /\ h \in pending
  /\ pending' = pending \ {h}
  /\ RemoveHook(h)
  /\ g_engineGlobal' = IF h = "level_load" THEN Nothing ELSE g_engineGlobal
  /\ UNCHANGED <<halo1, engine, usedBases, loads, engines, g_inMission,
                 g_shutdown, pc, after, localVars>>

\* Mutation: the unloaded game is still in its mission.
BugStaysInMission == UNCHANGED g_inMission

LeaveMission ==
  g_inMission' = IF after = "vtable" /\ currentHalo1 = Nothing THEN FALSE
                                                          ELSE g_inMission

Uninstalled ==
  /\ pc = "uninstall" /\ pending = {}
  /\ IF after = "done"
       THEN pc' = "done" /\ UNCHANGED pending
       ELSE /\ pc' = "install"
            /\ pending' = IF after = "reinstall" \/ currentHalo1 # Nothing
                            THEN HaloHooks ELSE {}
  /\ LeaveMission
  /\ UNCHANGED <<gameVars, entries, g_hookTarget, g_engineGlobal, g_shutdown,
                 after, localVars>>

-----------------------------------------------------------------------------
(***************************************************************************)
(* The monitor loop.                                                       *)
(***************************************************************************)

\* Mutation: a reload keeps the flag of the vtable hooks.
BugKeepFlag ==
  /\ lastHalo1' = halo1 /\ UNCHANGED <<lastEngineObj, vtableHooksInstalled>>

NoteModule ==
  /\ lastHalo1' = halo1
  /\ lastEngineObj' = Nothing
  /\ vtableHooksInstalled' = FALSE

\* GetModuleHandle, compared with the last tick's.
Tick ==
  /\ pc = "tick" /\ ~g_shutdown
  /\ currentHalo1' = halo1
  /\ IF halo1 # lastHalo1
       THEN /\ NoteModule
            /\ pending' = Hooks
            /\ pc' = "uninstall" /\ after' = "vtable"
       ELSE /\ pc' = "vtable"
            /\ UNCHANGED <<lastHalo1, lastEngineObj, vtableHooksInstalled,
                           pending, after>>
  /\ UNCHANGED <<gameVars, entries, g_hookTarget, g_engineGlobal, g_inMission,
                 g_shutdown, retry>>

\* Mutation: the vtable hooks stay.
BugStopHalo1Only ==
  /\ pc = "tick" /\ g_shutdown
  /\ pending' = HaloHooks
  /\ pc' = "uninstall" /\ after' = "done"
  /\ UNCHANGED <<gameVars, entries, g_hookTarget, g_engineGlobal, g_inMission,
                 g_shutdown, localVars>>

\* The end of WorkerMain: UninstallAllHooks.
Stop ==
  /\ pc = "tick" /\ g_shutdown
  /\ pending' = Hooks
  /\ pc' = "uninstall" /\ after' = "done"
  /\ UNCHANGED <<gameVars, entries, g_hookTarget, g_engineGlobal, g_inMission,
                 g_shutdown, localVars>>

\* The engine global InstallShellLevelLoadHook reads: the cached one, if any.
Global == IF g_engineGlobal = Nothing THEN halo1 ELSE g_engineGlobal

\* The cached global lies in an image that is no longer loaded there.
GlobalGone == g_engineGlobal \notin {Nothing, halo1}

\* InstallShellLevelLoadHook, called at three places: where it leaves the worker
\* when it succeeds and when it does not.
LevelLoadHook(success, failure) ==
  LET hookable == halo1 # Nothing /\ engine # Nothing
  IN  /\ halo1 = Nothing \/ ~GlobalGone
      /\ g_engineGlobal' = Global
      /\ IF hookable THEN CreateHook("level_load") ELSE UNCHANGED hookVars
      /\ pc' = IF hookable /\ Hookable("level_load") THEN success ELSE failure
      /\ UNCHANGED <<halo1, engine, usedBases, loads, engines, g_inMission,
                     g_shutdown, pending, currentHalo1, lastHalo1,
                     lastEngineObj, vtableHooksInstalled>>

\* Mutation: the flag is set whether or not the hook could be installed.
BugIgnoreLevelLoad ==
  /\ pc = "vtable" /\ currentHalo1 # Nothing /\ ~vtableHooksInstalled
  /\ LevelLoadHook("command", "command")
  /\ UNCHANGED <<after, retry>>

InstallVtable ==
  /\ pc = "vtable" /\ currentHalo1 # Nothing /\ ~vtableHooksInstalled
  /\ LevelLoadHook("command", "sleep")
  /\ UNCHANGED <<after, retry>>

SkipVtable ==
  /\ pc = "vtable" /\ (currentHalo1 = Nothing \/ vtableHooksInstalled)
  /\ pc' = IF vtableHooksInstalled THEN "compare" ELSE "sleep"
  /\ UNCHANGED <<gameVars, entries, g_hookTarget, g_engineGlobal, g_inMission,
                 g_shutdown, pending, after, localVars>>

\* InstallShellCommandHook; its result is ignored.
InstallCommand ==
  /\ pc = "command"
  /\ IF halo1 # Nothing /\ engine # Nothing
       THEN CreateHook("shell_command")
       ELSE UNCHANGED hookVars
  /\ vtableHooksInstalled' = TRUE
  /\ pc' = "noteEngine"
  /\ UNCHANGED <<halo1, engine, usedBases, loads, engines, g_engineGlobal,
                 g_inMission, g_shutdown, pending, after, currentHalo1,
                 lastHalo1, lastEngineObj, retry>>

\* GetEngineObject reads the cached global.
NoteEngine ==
  /\ pc = "noteEngine" /\ ~GlobalGone
  /\ lastEngineObj' = engine
  /\ pc' = IF after = "reinstall" THEN "sleep" ELSE "compare"
  /\ UNCHANGED <<gameVars, entries, g_hookTarget, g_engineGlobal, g_inMission,
                 g_shutdown, pending, after, currentHalo1, lastHalo1,
                 vtableHooksInstalled, retry>>

\* A new engine object: all hooks are removed and installed again.
CompareEngine ==
  /\ pc = "compare" /\ ~GlobalGone
  /\ IF engine # lastEngineObj
       THEN /\ lastEngineObj' = engine
            /\ vtableHooksInstalled' = FALSE
            /\ pending' = Hooks
            /\ pc' = "uninstall" /\ after' = "reinstall"
       ELSE /\ pc' = "sleep"
            /\ UNCHANGED <<lastEngineObj, vtableHooksInstalled, pending, after>>
  /\ UNCHANGED <<gameVars, entries, g_hookTarget, g_engineGlobal, g_inMission,
                 g_shutdown, currentHalo1, lastHalo1, retry>>

\* The immediate attempt after that, and the quick retries, which look neither
\* for a new module nor at g_shutdown.
Reinstall ==
  /\ pc = "reinstall"
  /\ LevelLoadHook("command",
                   IF currentHalo1 # Nothing THEN "retry" ELSE "sleep")
  /\ retry' = 0
  /\ UNCHANGED after

\* Mutation: one retry too many.
BugOneMore ==
  /\ pc = "retry" /\ retry <= MaxRetries
  /\ LevelLoadHook("command", "retry")
  /\ retry' = retry + 1
  /\ UNCHANGED after

Retry ==
  /\ pc = "retry" /\ retry < MaxRetries
  /\ LevelLoadHook("command", "retry")
  /\ retry' = retry + 1
  /\ UNCHANGED after

GiveUpRetries ==
  /\ pc = "retry" /\ retry = MaxRetries
  /\ pc' = "sleep"
  /\ UNCHANGED <<gameVars, entries, g_hookTarget, g_engineGlobal, g_inMission,
                 g_shutdown, pending, after, localVars>>

\* ApplyForcedSkulls, which is in module ForcedSkulls, and the wait.
Sleep ==
  /\ pc = "sleep"
  /\ pc' = "tick" /\ after' = "tick" /\ retry' = 0
  /\ UNCHANGED <<gameVars, entries, g_hookTarget, g_engineGlobal, g_inMission,
                 g_shutdown, pending, currentHalo1, lastHalo1, lastEngineObj,
                 vtableHooksInstalled>>

\* Reading the engine global in an image that is gone ends the game.
ReadsGlobal ==
  \/ pc \in {"noteEngine", "compare"}
  \/ /\ halo1 # Nothing
     /\ \/ pc = "reinstall"
        \/ pc = "retry" /\ retry < MaxRetries
        \/ pc = "vtable" /\ currentHalo1 # Nothing /\ ~vtableHooksInstalled

Crash ==
  /\ ReadsGlobal /\ GlobalGone
  /\ pc' = "crashed"
  /\ UNCHANGED <<gameVars, entries, g_hookTarget, g_engineGlobal, g_inMission,
                 g_shutdown, pending, after, localVars>>

Worker ==
  \/ Start \/ Installed \/ Uninstalled \/ Tick \/ Stop
  \/ \E h \in Hooks : Install(h) \/ Uninstall(h)
  \/ InstallVtable \/ SkipVtable \/ InstallCommand \/ NoteEngine
  \/ CompareEngine \/ Reinstall \/ Retry \/ GiveUpRetries \/ Sleep \/ Crash

-----------------------------------------------------------------------------
(***************************************************************************)
(* The game.                                                               *)
(***************************************************************************)
workerVars == <<entries, g_hookTarget, g_engineGlobal, pc, pending, after,
                localVars>>

\* A fresh image carries no patch.
ModuleLoads(b) ==
  /\ halo1 = Nothing /\ loads < MaxLoads
  /\ \/ b \notin usedBases
     \/ (IF lastHalo1 = Nothing THEN "noticed" ELSE "unnoticed") \in Reuse
  /\ halo1' = b /\ patched' = {}
  /\ usedBases' = usedBases \cup {b} /\ loads' = loads + 1
  /\ UNCHANGED <<engine, engines, g_inMission, g_shutdown, workerVars>>

ModuleUnloads ==
  /\ halo1 # Nothing
  /\ halo1' = Nothing /\ engine' = Nothing /\ patched' = {}
  /\ UNCHANGED <<usedBases, loads, engines, g_inMission, g_shutdown,
                 workerVars>>

EngineCreated(e) ==
  /\ halo1 # Nothing /\ engine = Nothing /\ engines < MaxEngines
  /\ engine' = e /\ engines' = engines + 1
  /\ UNCHANGED <<halo1, patched, usedBases, loads, g_inMission, g_shutdown,
                 workerVars>>

EngineDestroyed ==
  /\ engine # Nothing
  /\ engine' = Nothing
  /\ UNCHANGED <<halo1, patched, usedBases, loads, engines, g_inMission,
                 g_shutdown, workerVars>>

\* DetourBeginMissionLoad.
BeginMissionLoad ==
  /\ engine # Nothing /\ "mission_load" \in patched
  /\ g_inMission' = TRUE
  /\ UNCHANGED <<gameVars, g_shutdown, workerVars>>

\* DetourShellCommand, for a resume or a teardown.
ShellCommand ==
  /\ engine # Nothing /\ "shell_command" \in patched
  /\ g_inMission' = FALSE
  /\ UNCHANGED <<gameVars, g_shutdown, workerVars>>

\* DLL_PROCESS_DETACH.
Shutdown ==
  /\ ~g_shutdown
  /\ g_shutdown' = TRUE
  /\ UNCHANGED <<gameVars, g_inMission, workerVars>>

Game ==
  /\ pc # "crashed"
  /\ \/ \E b \in Bases : ModuleLoads(b)
     \/ ModuleUnloads
     \/ \E e \in Engines : EngineCreated(e)
     \/ EngineDestroyed \/ BeginMissionLoad \/ ShellCommand \/ Shutdown

Next == Worker \/ Game

Spec == Init /\ [][Next]_vars

\* The worker is a thread that never waits for the game.
FairSpec == Spec /\ WF_vars(Worker)

-----------------------------------------------------------------------------
(***************************************************************************)
(* Properties.                                                             *)
(***************************************************************************)
Steps == {"start", "install", "uninstall", "tick", "vtable", "command",
          "noteEngine", "compare", "reinstall", "retry", "sleep", "done",
          "crashed"}

\* The type invariant.  (WorkerMain, dllmain.cpp:389-513)
TypeOK ==
  /\ halo1 \in Bases \cup {Nothing} /\ engine \in Engines \cup {Nothing}
  /\ patched \subseteq Hooks
  /\ usedBases \subseteq Bases /\ loads \in 0 .. MaxLoads
  /\ engines \in 0 .. MaxEngines
  /\ entries \subseteq Targets
  /\ g_hookTarget \in [Hooks -> Bases \cup {Nothing}]
  /\ g_engineGlobal \in Bases \cup {Nothing}
  /\ g_inMission \in BOOLEAN /\ g_shutdown \in BOOLEAN
  /\ pc \in Steps /\ after \in {"tick", "vtable", "reinstall", "done"}
  /\ pending \subseteq Hooks
  /\ currentHalo1 \in Bases \cup {Nothing}
  /\ lastHalo1 \in Bases \cup {Nothing}
  /\ lastEngineObj \in Engines \cup {Nothing}
  /\ vtableHooksInstalled \in BOOLEAN /\ retry \in 0 .. MaxRetries
  /\ halo1 = Nothing => engine = Nothing /\ patched = {}

\* Every function of the game that runs a detour can be restored: the hook
\* knows its target and MinHook holds an entry for it, so that the worker's
\* Uninstall... calls (dllmain.cpp:72-86) leave no jump into an unloaded DLL.
PatchesOwned ==
  \A h \in patched : g_hookTarget[h] = halo1 /\ <<halo1, h>> \in entries

\* A worker that has ended leaves no hook in the game, whatever was loaded or
\* unloaded while it removed them (UninstallAllHooks, dllmain.cpp:93-98): the
\* detours are part of a DLL that is about to be unloaded.
LeavesNoHook == pc = "done" => patched = {}

\* A worker that believes the vtable hooks installed in the module it last saw
\* has the level load hook there (dllmain.cpp:443-450): nothing else would ever
\* install it.
FlagMeansHooked ==
  /\ vtableHooksInstalled /\ halo1 # Nothing /\ halo1 = lastHalo1
  /\ after # "done"
  => "level_load" \in patched

Ended == pc = "crashed" \/ g_shutdown

\* When halo1.dll and its engine object stay, the monitor gets all hooks of
\* InstallHalo1Hooks and the level load hook in place, whatever came and went
\* before (dllmain.cpp:421-488, "Reinstalling hooks...").
HooksFollow ==
  <>[](halo1 # Nothing /\ engine # Nothing)
    => <>[](Ended \/ HaloHooks \cup {"level_load"} \subseteq patched)

\* When halo1.dll stays away, the worker notices that the mission is over
\* (dllmain.cpp:431-437), even if the game ended it without a shell command.
LobbyNoticed ==
  <>[](halo1 = Nothing) => <>[](Ended \/ ~g_inMission)

=============================================================================
