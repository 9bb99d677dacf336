------------------------- MODULE HookMonitorProofs -------------------------
(***************************************************************************)
(* What holds of the hooks for any number of hooks, loads of halo1.dll and *)
(* engine objects, and whether or not halo1.dll returns to an old base.    *)
(***************************************************************************)
EXTENDS HookMonitor, TLAPS

\* The part of the type that the ownership of the patches rests on.
HookType ==
  /\ halo1 \in Bases \cup {Nothing}
  /\ patched \subseteq Hooks
  /\ entries \subseteq Targets
  /\ g_hookTarget \in [Hooks -> Bases \cup {Nothing}]
  /\ pending \subseteq Hooks

\* An installation into the loaded image patches what it records.
\* (MH_CreateHook and MH_EnableHook in the Install... functions)
LEMMA Creating ==
  ASSUME HookType, PatchesOwned, NEW h \in Hooks, halo1 # Nothing,
         CreateHook(h), UNCHANGED halo1, pending' \subseteq Hooks
  PROVE  HookType' /\ PatchesOwned'
<1>1. HookType'
  BY DEF HookType, CreateHook, Hookable, Targets
<1>2. PatchesOwned'
  BY DEF HookType, PatchesOwned, CreateHook, Hookable, Targets
<1> QED BY <1>1, <1>2

\* A removal restores a patched function, because its hook owns it.
\* (MH_DisableHook and MH_RemoveHook in the Uninstall... functions)
LEMMA Removing ==
  ASSUME HookType, PatchesOwned, NEW h \in Hooks, RemoveHook(h),
         UNCHANGED halo1, pending' \subseteq Hooks
  PROVE  HookType' /\ PatchesOwned' /\ h \notin patched'
<1>1. HookType'
  BY DEF HookType, RemoveHook, Targets
<1>2. h \notin patched'
  BY DEF HookType, PatchesOwned, RemoveHook
<1>3. PatchesOwned'
  BY <1>2 DEF HookType, PatchesOwned, RemoveHook
<1> QED BY <1>1, <1>2, <1>3

\* A step of the game: a fresh or an unloaded image carries no patch.
LEMMA GameStep ==
  ASSUME HookType, PatchesOwned, Game
  PROVE  HookType' /\ PatchesOwned'
<1>1. CASE \E b \in Bases : ModuleLoads(b)
  BY <1>1 DEF ModuleLoads, HookType, PatchesOwned, workerVars
<1>2. CASE ModuleUnloads
  BY <1>2 DEF ModuleUnloads, HookType, PatchesOwned, workerVars
<1>3. CASE \E e \in Engines : EngineCreated(e)
  BY <1>3 DEF EngineCreated, HookType, PatchesOwned, workerVars
<1>4. CASE EngineDestroyed \/ BeginMissionLoad \/ ShellCommand \/ Shutdown
  BY <1>4 DEF EngineDestroyed, BeginMissionLoad, ShellCommand, Shutdown,
              HookType, PatchesOwned, workerVars, gameVars
<1> QED BY <1>1, <1>2, <1>3, <1>4 DEF Game

\* A call of InstallShellLevelLoadHook.
LEMMA LevelLoadStep ==
  ASSUME HookType, PatchesOwned, NEW success, NEW failure,
         LevelLoadHook(success, failure)
  PROVE  HookType' /\ PatchesOwned'
<1> "level_load" \in Hooks
  BY DEF Hooks, VtableHooks
<1>1. UNCHANGED <<halo1, pending>> /\ pending' \subseteq Hooks
  BY DEF LevelLoadHook, HookType
<1>2. CASE halo1 # Nothing /\ engine # Nothing
  BY <1>1, <1>2, Creating DEF LevelLoadHook
<1>3. CASE ~(halo1 # Nothing /\ engine # Nothing)
  BY <1>1, <1>3 DEF LevelLoadHook, hookVars, HookType, PatchesOwned
<1> QED BY <1>2, <1>3

\* A step of the worker.
LEMMA WorkerStep ==
  ASSUME HookType, PatchesOwned, Worker
  PROVE  HookType' /\ PatchesOwned'
<1>1. CASE \E h \in Hooks : Install(h)
  <2>1. PICK h \in Hooks : Install(h)
    BY <1>1
  <2>2. UNCHANGED halo1 /\ pending' \subseteq Hooks
    BY <2>1 DEF Install, HookType
  <2>3. CASE halo1 # Nothing
    BY <2>1, <2>2, <2>3, Creating DEF Install
  <2>4. CASE halo1 = Nothing
    BY <2>1, <2>2, <2>4 DEF Install, hookVars, HookType, PatchesOwned
  <2> QED BY <2>3, <2>4
<1>2. CASE \E h \in Hooks : Uninstall(h)
  <2>1. PICK h \in Hooks : Uninstall(h)
    BY <1>2
  <2>2. UNCHANGED halo1 /\ pending' \subseteq Hooks
    BY <2>1 DEF Uninstall, HookType
  <2> QED BY <2>1, <2>2, Removing DEF Uninstall
<1>3. CASE InstallVtable \/ Reinstall \/ Retry
  BY <1>3, LevelLoadStep DEF InstallVtable, Reinstall, Retry
<1>4. CASE InstallCommand
  <2>1. "shell_command" \in Hooks /\ UNCHANGED <<halo1, pending>>
    BY <1>4 DEF Hooks, VtableHooks, InstallCommand
  <2>2. CASE halo1 # Nothing /\ engine # Nothing
    BY <1>4, <2>1, <2>2, Creating DEF InstallCommand, HookType
  <2>3. CASE ~(halo1 # Nothing /\ engine # Nothing)
    BY <1>4, <2>1, <2>3 DEF InstallCommand, hookVars, HookType, PatchesOwned
  <2> QED BY <2>2, <2>3
<1>5. CASE Start \/ Installed \/ Uninstalled \/ Tick \/ Stop
  <2>1. UNCHANGED <<halo1, patched, entries, g_hookTarget>>
    BY <1>5 DEF Start, Installed, Uninstalled, Tick, Stop, gameVars
  <2>2. pending' \subseteq Hooks
    BY <1>5 DEF Start, Installed, Uninstalled, Tick, Stop, HookType, Hooks
  <2> QED BY <2>1, <2>2 DEF HookType, PatchesOwned
<1>6. CASE \/ SkipVtable \/ NoteEngine \/ CompareEngine \/ GiveUpRetries
           \/ Sleep \/ Crash
  <2>1. UNCHANGED <<halo1, patched, entries, g_hookTarget>>
    BY <1>6 DEF SkipVtable, NoteEngine, CompareEngine, GiveUpRetries, Sleep,
                Crash, gameVars
  <2>2. pending' \subseteq Hooks
    BY <1>6 DEF SkipVtable, NoteEngine, CompareEngine, GiveUpRetries, Sleep,
                Crash, HookType
  <2> QED BY <2>1, <2>2 DEF HookType, PatchesOwned
<1> QED BY <1>1, <1>2, <1>3, <1>4, <1>5, <1>6 DEF Worker

\* Whatever the game loads, unloads and creates while the worker runs, each
\* patched function of the loaded image is owned by its hook and by an entry of
\* MinHook.  (the install and uninstall functions, dllmain.cpp:59-98)
THEOREM PatchesAreOwned == Spec => []PatchesOwned
<1>1. Init => HookType /\ PatchesOwned
  BY DEF Init, HookType, PatchesOwned
<1>2. HookType /\ PatchesOwned /\ [Next]_vars => HookType' /\ PatchesOwned'
  <2> SUFFICES ASSUME HookType, PatchesOwned, [Next]_vars
               PROVE  HookType' /\ PatchesOwned'
    OBVIOUS
  <2>1. CASE Worker
    BY <2>1, WorkerStep
  <2>2. CASE Game
    BY <2>2, GameStep
  <2>3. CASE UNCHANGED vars
    BY <2>3 DEF vars, gameVars, HookType, PatchesOwned
  <2> QED BY <2>1, <2>2, <2>3 DEF Next
<1> QED BY <1>1, <1>2, PTL DEF Spec

\* While hooks are removed, the ones still to remove include all that are in
\* place: nothing else patches the game meanwhile.
Unhooking ==
  /\ pc = "uninstall" => patched \subseteq pending
  /\ pc = "install" => after # "done"
  /\ after \in {"tick", "vtable", "reinstall", "done"}
  /\ LeavesNoHook

\* It holds initially.
LEMMA UnhookingInit == Init => Unhooking
BY DEF Init, Unhooking, LeavesNoHook

\* The preservation by a step of the worker.
LEMMA UnhookingWorker ==
  ASSUME HookType, PatchesOwned, Unhooking, Worker
  PROVE  Unhooking'
<1> USE DEF Unhooking, LeavesNoHook
<1>1. CASE \E h \in Hooks : Install(h)
  BY <1>1 DEF Install, localVars
<1>2. CASE \E h \in Hooks : Uninstall(h)
  <2>1. PICK h \in Hooks : Uninstall(h)
    BY <1>2
  <2>2. /\ pc = "uninstall" /\ pc' = "uninstall"
        /\ pending' = pending \ {h} /\ after' = after
    BY <2>1 DEF Uninstall
  <2>3. h \notin patched'
    BY <2>1, <2>2, Removing DEF Uninstall, HookType
  <2>4. patched' \subseteq patched
    BY <2>1 DEF Uninstall, RemoveHook
  <2> QED BY <2>2, <2>3, <2>4
<1>3. CASE InstallVtable \/ Reinstall \/ Retry
  BY <1>3 DEF InstallVtable, Reinstall, Retry, LevelLoadHook
<1>4. CASE Start \/ Installed \/ Tick \/ Stop \/ InstallCommand
  <2>1. CASE Start
    BY <2>1 DEF Start
  <2>2. CASE Installed
    BY <2>2 DEF Installed, gameVars
  <2> QED BY <1>4, <2>1, <2>2 DEF Tick, Stop, InstallCommand, HookType, gameVars
<1>5. CASE Uninstalled
  BY <1>5 DEF Uninstalled, gameVars
<1>6. CASE \/ SkipVtable \/ NoteEngine \/ CompareEngine \/ GiveUpRetries
           \/ Sleep \/ Crash
  BY <1>6 DEF SkipVtable, NoteEngine, CompareEngine, GiveUpRetries, Sleep,
              Crash, HookType, gameVars
<1> QED BY <1>1, <1>2, <1>3, <1>4, <1>5, <1>6 DEF Worker

\* The game itself patches nothing.
LEMMA UnhookingGame ==
  ASSUME HookType, Unhooking, Game
  PROVE  Unhooking'
<1> USE DEF Unhooking, LeavesNoHook, workerVars, gameVars
<1>1. CASE \E b \in Bases : ModuleLoads(b)
  BY <1>1 DEF ModuleLoads
<1>2. CASE ModuleUnloads
  BY <1>2 DEF ModuleUnloads
<1>3. CASE \E e \in Engines : EngineCreated(e)
  BY <1>3 DEF EngineCreated
<1>4. CASE EngineDestroyed \/ BeginMissionLoad \/ ShellCommand \/ Shutdown
  BY <1>4 DEF EngineDestroyed, BeginMissionLoad, ShellCommand, Shutdown
<1> QED BY <1>1, <1>2, <1>3, <1>4 DEF Game

\* A worker that has ended leaves no hook in the game, whatever the game did
\* meanwhile.  (UninstallAllHooks, dllmain.cpp:93-98, 524)
THEOREM EndedIsUnhooked == Spec => []LeavesNoHook
<1> DEFINE Inv == HookType /\ PatchesOwned /\ Unhooking
<1>1. Init => Inv
  BY UnhookingInit DEF Init, HookType, PatchesOwned
<1>2. Inv /\ [Next]_vars => Inv'
  <2> SUFFICES ASSUME Inv, [Next]_vars PROVE Inv'
    OBVIOUS
  <2>1. CASE Worker
    BY <2>1, WorkerStep, UnhookingWorker
  <2>2. CASE Game
    BY <2>2, GameStep, UnhookingGame
  <2>3. CASE UNCHANGED vars
    BY <2>3 DEF vars, gameVars, HookType, PatchesOwned, Unhooking, LeavesNoHook
  <2> QED BY <2>1, <2>2, <2>3 DEF Next
<1>3. Inv => LeavesNoHook
  BY DEF Unhooking
<1> QED BY <1>1, <1>2, <1>3, PTL DEF Spec

LEMMA OwnedHold == Spec => [](HookType /\ PatchesOwned)
<1>1. Init => HookType /\ PatchesOwned
  BY DEF Init, HookType, PatchesOwned
<1>2. HookType /\ PatchesOwned /\ [Next]_vars => HookType' /\ PatchesOwned'
  <2> SUFFICES ASSUME HookType, PatchesOwned, [Next]_vars
               PROVE  HookType' /\ PatchesOwned'
    OBVIOUS
  <2>1. CASE UNCHANGED vars
    BY <2>1 DEF vars, gameVars, HookType, PatchesOwned
  <2> QED BY <2>1, WorkerStep, GameStep DEF Next
<1> QED BY <1>1, <1>2, PTL DEF Spec

-----------------------------------------------------------------------------
\* The rest of the type.  What the worker remembers of the module and of the
\* engine has been there, and without a module there is neither engine nor
\* patch.
WorkerType ==
  /\ usedBases \subseteq Bases /\ engine \in Engines \cup {Nothing}
  /\ g_engineGlobal \in Bases \cup {Nothing}
  /\ pc \in Steps /\ after \in {"tick", "vtable", "reinstall", "done"}
  /\ currentHalo1 \in Bases \cup {Nothing}
  /\ lastHalo1 \in Bases \cup {Nothing}
  /\ lastEngineObj \in Engines \cup {Nothing}
  /\ halo1 = Nothing => engine = Nothing /\ patched = {}

CountsOK ==
  loads \in 0 .. MaxLoads /\ engines \in 0 .. MaxEngines
    /\ retry \in 0 .. MaxRetries

FlagsOK ==
  g_inMission \in BOOLEAN /\ g_shutdown \in BOOLEAN
    /\ vtableHooksInstalled \in BOOLEAN

LEMMA WorkerTypeStep ==
  ASSUME HookType, WorkerType, Worker
  PROVE  WorkerType'
<1> USE DEF WorkerType, Steps, gameVars, localVars, hookVars
<1>1. CASE \E h \in Hooks : Install(h) \/ Uninstall(h)
  BY <1>1 DEF Install, Uninstall, CreateHook, RemoveHook
<1>2. CASE InstallVtable \/ Reinstall \/ Retry
  <2>1. Global \in Bases \cup {Nothing}
    BY DEF Global, HookType
  <2> QED BY <1>2, <2>1 DEF InstallVtable, Reinstall, Retry, LevelLoadHook, CreateHook
<1>3. CASE InstallCommand
  BY <1>3 DEF InstallCommand, CreateHook
<1>4. CASE Start \/ Installed \/ Uninstalled
  BY <1>4 DEF Start, Installed, Uninstalled, HookType
<1>5. CASE Tick \/ Stop
  BY <1>5 DEF Tick, NoteModule, Stop, HookType
<1>6. CASE \/ SkipVtable \/ NoteEngine \/ CompareEngine \/ GiveUpRetries
           \/ Sleep \/ Crash
  BY <1>6 DEF SkipVtable, NoteEngine, CompareEngine, GiveUpRetries, Sleep, Crash
<1> QED BY <1>1, <1>2, <1>3, <1>4, <1>5, <1>6 DEF Worker

LEMMA GameTypeStep ==
  ASSUME WorkerType, Game
  PROVE  WorkerType'
<1> USE DEF WorkerType, gameVars, workerVars, localVars
<1>1. CASE \E b \in Bases : ModuleLoads(b)
  BY <1>1, HookAssumption DEF ModuleLoads
<1>2. CASE ModuleUnloads
  BY <1>2 DEF ModuleUnloads
<1>3. CASE \E e \in Engines : EngineCreated(e)
  BY <1>3 DEF EngineCreated
<1>4. CASE EngineDestroyed \/ BeginMissionLoad \/ ShellCommand \/ Shutdown
  BY <1>4 DEF EngineDestroyed, BeginMissionLoad, ShellCommand, Shutdown
<1> QED BY <1>1, <1>2, <1>3, <1>4 DEF Game

LEMMA CountsStep == CountsOK /\ [Next]_vars => CountsOK'
<1> SUFFICES ASSUME CountsOK, [Next]_vars PROVE CountsOK'
  OBVIOUS
<1> USE HookAssumption DEF CountsOK, gameVars, workerVars, localVars
<1>1. CASE Game
  BY <1>1 DEF Game, ModuleLoads, ModuleUnloads, EngineCreated, EngineDestroyed,
              BeginMissionLoad, ShellCommand, Shutdown
<1>2. CASE \/ Start \/ Installed \/ Uninstalled \/ Tick \/ Stop
           \/ \E h \in Hooks : Install(h) \/ Uninstall(h)
  BY <1>2 DEF Start, Installed, Uninstalled, Tick, Stop, Install, Uninstall
<1>3. CASE InstallVtable \/ Reinstall \/ Retry \/ InstallCommand
  BY <1>3 DEF InstallVtable, Reinstall, Retry, InstallCommand, LevelLoadHook
<1>4. CASE \/ SkipVtable \/ NoteEngine \/ CompareEngine \/ GiveUpRetries
           \/ Sleep \/ Crash
  BY <1>4 DEF SkipVtable, NoteEngine, CompareEngine, GiveUpRetries, Sleep, Crash
<1>5. CASE UNCHANGED vars
  BY <1>5 DEF vars
<1> QED BY <1>1, <1>2, <1>3, <1>4, <1>5 DEF Next, Worker

LEMMA FlagsStep == FlagsOK /\ [Next]_vars => FlagsOK'
<1> SUFFICES ASSUME FlagsOK, [Next]_vars PROVE FlagsOK'
  OBVIOUS
<1> USE DEF FlagsOK, gameVars, workerVars, localVars
<1>1. CASE Game
  BY <1>1, Zenon DEF Game, ModuleLoads, ModuleUnloads, EngineCreated,
              EngineDestroyed, BeginMissionLoad, ShellCommand, Shutdown
<1>2. CASE \/ Start \/ Installed \/ Uninstalled \/ Stop
           \/ \E h \in Hooks : Install(h) \/ Uninstall(h)
  BY <1>2 DEF Start, Installed, Uninstalled, LeaveMission, Stop, Install,
              Uninstall
<1>3. CASE Tick
  BY <1>3 DEF Tick, NoteModule
<1>4. CASE InstallVtable \/ Reinstall \/ Retry
  BY <1>4 DEF InstallVtable, Reinstall, Retry, LevelLoadHook
<1>5. CASE InstallCommand
  BY <1>5 DEF InstallCommand
<1>6. CASE \/ SkipVtable \/ NoteEngine \/ CompareEngine \/ GiveUpRetries
           \/ Sleep \/ Crash
  BY <1>6 DEF SkipVtable, NoteEngine, CompareEngine, GiveUpRetries, Sleep, Crash
<1>7. CASE UNCHANGED vars
  BY <1>7 DEF vars
<1> QED BY <1>1, <1>2, <1>3, <1>4, <1>5, <1>6, <1>7 DEF Next, Worker

LEMMA TypesHold ==
  Spec => [](HookType /\ PatchesOwned /\ WorkerType /\ CountsOK /\ FlagsOK)
<1>1. Init => WorkerType /\ CountsOK
  BY HookAssumption DEF Init, WorkerType, CountsOK, Steps
<1>2. Init => FlagsOK
  BY Zenon DEF Init, FlagsOK
<1>3. HookType /\ WorkerType /\ [Next]_vars => WorkerType'
  <2>1. WorkerType /\ UNCHANGED vars => WorkerType'
    BY DEF WorkerType, vars, gameVars, localVars
  <2> QED BY <2>1, WorkerTypeStep, GameTypeStep DEF Next
<1> QED BY <1>1, <1>2, <1>3, CountsStep, FlagsStep, OwnedHold, PTL DEF Spec

\* Type correctness for any hooks, bases, engine objects and retries.
THEOREM HookTypes == Spec => []TypeOK
<1>1. HookType /\ WorkerType /\ CountsOK /\ FlagsOK => TypeOK
  BY DEF HookType, WorkerType, CountsOK, FlagsOK, TypeOK
<1> QED BY <1>1, TypesHold, PTL

-----------------------------------------------------------------------------
\* Where the flag is set, or about to be, the level load hook is in place in the
\* module the worker knows; a module that comes back lies elsewhere unless the
\* worker has noticed that it was gone.
HookedHere ==
  halo1 # Nothing /\ halo1 = lastHalo1 => "level_load" \in patched

FlagInv ==
  /\ halo1 # Nothing => halo1 \in usedBases
  /\ lastHalo1 # Nothing => lastHalo1 \in usedBases
  /\ after = "done" => pc \in {"uninstall", "done"}
  /\ pc \in {"start", "uninstall", "install"} /\ after # "done" => ~vtableHooksInstalled
  /\ pc = "command" => HookedHere
  /\ vtableHooksInstalled /\ after # "done" => HookedHere

LEMMA FlagWorker ==
  ASSUME HookType, WorkerType, FlagInv, Worker
  PROVE  FlagInv'
<1> USE DEF FlagInv, HookedHere, gameVars, localVars, hookVars
<1>1. CASE \E h \in Hooks : Install(h)
  BY <1>1 DEF Install, CreateHook
<1>2. CASE \E h \in Hooks : Uninstall(h)
  BY <1>2 DEF Uninstall
<1>3. CASE InstallVtable \/ Reinstall \/ Retry
  BY <1>3 DEF InstallVtable, Reinstall, Retry, LevelLoadHook, CreateHook
<1>4. CASE InstallCommand
  BY <1>4 DEF InstallCommand, CreateHook
<1>5. CASE Start \/ Installed \/ Uninstalled
  <2>1. CASE Start
    BY <2>1 DEF Start
  <2>2. CASE Installed
    BY <2>2 DEF Installed, WorkerType
  <2>3. CASE Uninstalled
    BY <2>3 DEF Uninstalled
  <2> QED BY <1>5, <2>1, <2>2, <2>3
<1>6. CASE Tick \/ Stop
  BY <1>6 DEF Tick, NoteModule, Stop
<1>7. CASE \/ SkipVtable \/ NoteEngine \/ CompareEngine \/ GiveUpRetries
           \/ Sleep \/ Crash
  BY <1>7 DEF SkipVtable, NoteEngine, CompareEngine, GiveUpRetries, Sleep, Crash,
              ReadsGlobal
<1> QED BY <1>1, <1>2, <1>3, <1>4, <1>5, <1>6, <1>7 DEF Worker

LEMMA FlagGame ==
  ASSUME WorkerType, FlagInv, Game, "unnoticed" \notin Reuse
  PROVE  FlagInv'
<1> USE DEF FlagInv, HookedHere, gameVars, workerVars, localVars
<1>1. CASE \E b \in Bases : ModuleLoads(b)
  <2>1. PICK b \in Bases : ModuleLoads(b)
    BY <1>1
  <2>2. halo1' # lastHalo1
    BY <2>1, HookAssumption DEF ModuleLoads
  <2> QED BY <2>1, <2>2 DEF ModuleLoads
<1>2. CASE ModuleUnloads
  BY <1>2 DEF ModuleUnloads
<1>3. CASE \E e \in Engines : EngineCreated(e)
  BY <1>3 DEF EngineCreated
<1>4. CASE EngineDestroyed \/ BeginMissionLoad \/ ShellCommand \/ Shutdown
  BY <1>4 DEF EngineDestroyed, BeginMissionLoad, ShellCommand, Shutdown
<1> QED BY <1>1, <1>2, <1>3, <1>4 DEF Game

\* Unless halo1.dll returns to its old base between two ticks, the flag means
\* that the level load hook is there: nothing else would install it.
THEOREM FlagIsHooked ==
  ASSUME "unnoticed" \notin Reuse
  PROVE  Spec => []FlagMeansHooked
<1>1. Init => FlagInv
  BY DEF Init, FlagInv, HookedHere
<1>2. HookType /\ WorkerType /\ FlagInv /\ [Next]_vars => FlagInv'
  <2>1. FlagInv /\ UNCHANGED vars => FlagInv'
    BY DEF FlagInv, HookedHere, vars, gameVars, localVars
  <2> QED BY <2>1, FlagWorker, FlagGame DEF Next
<1>3. FlagInv => FlagMeansHooked
  BY DEF FlagInv, HookedHere, FlagMeansHooked
<1> QED BY <1>1, <1>2, <1>3, TypesHold, PTL DEF Spec

=============================================================================
