# A specification of the Halo CE: Archipelago launcher and mod

The repository is a mod of Halo: Combat Evolved (in the Master Chief
Collection) that turns the campaign into an Archipelago slot. A console
program, the *launcher*, talks to the Archipelago server and prepares the
game's directory; a DLL inside the game, *HaloAP.dll*, hooks the engine,
enforces what is unlocked and reports what the player does. A named pipe
joins the two. This directory holds TLA+ modules of that program, the TLC
configurations that check them and proofs for TLAPS. `PROJECT.json` maps every
definition to the lines it models.

    tlc -workers 2 -config session_delivery.cfg MCSession
    tlc -workers 2 -config launcher.cfg MCLauncher
    tlc -workers 2 -config hook_monitor.cfg MCHookMonitor
    tlc -workers 2 -config lobby.cfg MCLobby
    tlapm SessionProofs.tla

## 1. Inventory

Paths are relative to `src/`; L = `HaloAP_launcher/`, D = `HaloAP_DLL/`.

| component | state it keeps | operations | interacts through |
|---|---|---|---|
| AP bridge, `L/ap_bridge.cpp` | slot connected, sent and checked locations, item buffer, final mission, tier, current mission; two mutexes | the APClient callbacks, `HandleDllMessage`, `SendLocation`, `SendCompletionState`, `ReplayBufferedItems` | called by all three launcher threads; calls APClient and `PipeServer::Send` |
| Pipe server, `L/pipe_server.cpp` | pipe handle, `m_connected`, its thread | accept, read loop, `Send` as two writes | the pipe; calls `HandleDllMessage` |
| Launcher `main`, `L/main.cpp` | the poll thread, locals of setup and cleanup | wait for the slot, start the pipe, set up files, launch, replay, monitor, clean up | everything in the launcher; the file system; an elevated `cmd.exe` |
| APClient, `L/thirdparty/apclientpp` | connection state, queue of checks | `poll`, `LocationChecks`, `StatusUpdate` | web socket; callbacks into the bridge |
| Pipe client, `D/pipe_client.cpp` | connection, reader and sender threads, send queue | `Connect`, reader, `HandleMessage`, `SendAsync`, sender | the pipe; `ItemHandler`, skull hook |
| Item handler, `D/item_handler.cpp` | unlocked missions, completions, final mission | `addItem`, `setMissionCompletions`, `setFinalMission`, `isMissionAllowed` | read by the hooks, written by the pipe reader |
| Mission hooks, `D/hooks/mission_load.cpp`, `mission_complete.cpp`, `shell_command.cpp`, ... | in-mission state, two quit flags | report a load or a win, leave a locked or completed mission | engine callbacks; `PipeClient::SendAsync` |
| Chapter and skull hooks, `D/hooks/chapter_title.cpp`, `skull_hook.cpp` | tier, released skulls, forced skulls | report a chapter or a skull; force skulls | same |
| Mission select hook, `D/hooks/mission_select_block.cpp` | allocation count, skip flag, navigation generation | leave locked missions out of the list, draw locks on held skulls, collapse buttons of the mode menu | the user interface's thread; reads `ItemHandler` and the skull masks |
| DLL worker, `D/dllmain.cpp` | which hooks are installed, for which `halo1.dll` | install, watch, reinstall, shut down | MinHook, all hooks |
| MinHook, `D/minhook` | hook entries | create, enable, disable, remove | called by the worker; modelled as far as the worker sees it |
| Proxy DLL, pattern scan, JSON/TLS/web socket libraries | - | - | not modelled |

What is hard here:

* **Three threads write one pipe.** The poll thread (items, completion state on
  connect), the pipe thread (completion state after a check) and `main` (the
  replay) call `PipeServer::Send`, which has no lock and writes twice.
* **The replay races the forwarding.** An item can arrive before the DLL, while
  `main` replays, or later.
* **Every COMPLETED replaces the DLL's whole completion state**, so stale ones
  must not overtake newer ones.
* **The server connection breaks and returns** while the game goes on
  reporting; what was sent to a dead socket is lost.
* **The mod's files change the game's directory**, over file operations that
  can fail, kills of the launcher, and runs that only see the names left behind.
* **The hooks act at times the engine chooses**: flags set in one hook are
  consumed in another one's next call.
* **The launcher stops while its threads run**: connection, monitor, enter key
  and the game's end race, and not every thread is joined.
* **The engine is unloaded and reloaded under the worker**: `halo1.dll` and its
  engine object come and go between any two of its calls.
* **The mission select is filtered by counting allocations**, while unlocks
  and completions arrive on another thread, and completions may be taken back by the
  cell the decoder overruns.
* **A chapter's mission is inferred**: a title is reported without its map, and the
  bridge credits it to the map of the last load whose path it could read.

What makes each component correct: the DLL learns every granted item and
every completion, never an unearned one, and never forgets one; locations and
the goal reach the server when earned, and nothing else does but a title taken for
one of another mission; the final mission opens only
when every other one is beaten; no mutex is held for ever; the game's original
library survives every run, and a clean run restores the vanilla install; the
hooks follow the engine and none outlives the DLL; the menu offers the
missions allowed while it was set up and no other; a skull the tier does not hold stays the player's; a mission
is only left for a reason of its own; the mod is not removed under a game that
plays with it, and stopping terminates.

## 2. Modules

| module | models | lines of the code |
|---|---|---|
| `ItemHandler` | the item tables, `isMissionAllowed`, the decoding of COMPLETED | `D/item_handler.cpp`, `D/pipe_client.cpp:238-259` |
| `LauncherSession` | one play session: server, connection, APClient, bridge, three launcher threads, pipe, DLL threads, hooks | see below |
| `Delivery` | what a session promises, without threads, pipe and connection | - |
| `SessionProperties` | the properties of a session; the refinement mapping to `Delivery` | - |
| `MCSession` | the constants TLC uses | - |
| `SessionProofs`, `OrderProofs`, `CreditProofs`, `ItemProofs` | types; order of the completion state; what is earned, and the refinement; nothing lost on its way down or up, and what ends the reader. Each extends the one before | - |
| `ModFiles`, `MCModFiles` | setup and cleanup of the mod's files, its instance | `L/main.cpp:157-373` |
| `LauncherLifecycle`, `MCLauncher` | the launcher's threads from start to exit, around `ModFiles` | `L/main.cpp:107-373`, `L/pipe_server.cpp:44-68, 162-229`, `L/ap_bridge.cpp:124-136` |
| `ModFilesProofs` | the proofs about both | - |
| `HookMonitor`, `MCHookMonitor`, `HookMonitorProofs` | the DLL's worker, MinHook and the engine it hooks | `D/dllmain.cpp:59-98, 389-546`, the install and uninstall functions |
| `MissionMenu` | the filter of the mission select; extends `ItemHandler` | `D/hooks/mission_select_block.cpp:94-96, 491-606` |
| `ForcedSkulls` | tier, freed skulls, `ApplyForcedSkulls`, lock icons | `D/hooks/skull_hook.cpp:415-492`, `mission_select_block.cpp:263-290` |
| `ButtonCollapse` | hiding two buttons of a game's menu, by a thread per navigation | `D/hooks/mission_select_block.cpp:330-486` |
| `MissionFlow` | the quit flags and the mission flag | `D/hooks/mission_load.cpp:85-118`, `mission_complete.cpp:53-70`, `shell_command.cpp:38-78` |
| `MCLobby`, `FlowProofs`, `LobbyProofs` | the instance of the last four; the proofs about the fourth, and about the others and all four together | - |

`HookMonitor` stands for one game process and does not share state with
`LauncherSession`: there the hooks are in place, here what they report is left
out. `LauncherLifecycle` and `LauncherSession` share `main` and the pipe: the
first leaves out what is sent, the second ends where `main` begins to watch.
`MissionMenu`, `ForcedSkulls`, `ButtonCollapse` and `MissionFlow` have no variable
in common, so that their behaviours together are those of each interleaved;
`MCLobby` explores each with the others at rest, which reaches every state of each
without their product. (`ForcedSkulls` and `MissionFlow` each have a mission flag:
the one asks what the worker does with it, the other who sets it when.)

### LauncherSession

Threads are the values `"poll"`, `"pipe"` and `"main"` of `pc`. A step of
a thread is what it does between two points where another thread can interfere:
taking a mutex, one `WriteFile`, reading or writing a shared flag.

* `PipeServer::Send` is `SendToNobody`, `WriteLength`, `WriteBody`. `down`
  holds one element per *write*, so writes of two threads can interleave.
  A writer blocks while the pipe holds `PipeCapacity` writes. A message holds
  what it says, not its text: prefix, item id or set of missions.
* `SendCompletionState` is `SkipCompletionState`, `SendCompleted` (takes
  `m_checkedMutex` and builds the message), `SendFinalMission` and
  `ReleaseChecked`, with the writes between them.
* The poll thread: `SlotConnected` is the handshake up to the `Connected` packet,
  in which APClient adopts the server's checks and flushes its queue;
  `MergeChecked`, `ReadSlotData` and the completion state follow
  `OnSlotConnected` in its order. `SocketClosed` and `SocketDisconnected` are
  apart because APClient's `_state` changes before the bridge's flag does.
  `ItemsReceived`, `BufferItem`, `ItemsDone` are `OnItemsReceived`.
* The pipe thread: one `Handle...` per branch of `HandleDllMessage`;
  `SendLocation` is `DropLocation`, `MarkSent`, `LocationChecks`,
  `TrackChecked`; `ReportGoal` ends the MISSION_COMPLETE branch.
* `main`: `SlotSeen`/`SlotTimeout`, `StartPipe`, `SetSendToDll`, then the
  replay (`ReplayTier`, `LockBuffer`, `ReplayItem`, `ReplayDone`).
* The DLL: `ReadMessage` takes a length and its body; `ReadMixedUp` is what
  happens when a length stands where a body should: the reader takes four
  characters of text for the next length, finds it above the maximum and leaves.
  `SendReport` is the sender thread.
* The hooks are the player's actions: `GameLoads`, `ShellCommand`, `GameWon`,
  `ChapterShown`, `SkullClaimed`. `earned` is a history variable: the
  locations the player has earned.
* A load is a map and whether its path is whole (`Loads`). The map is a mission or
  `OtherMap`, one outside the campaign, whose code the bridge stores like any other
  (`L/ap_bridge.cpp:168-175`). A path that is not whole, `"(null)"` included, has no
  `levels\` or no second backslash: it is reported all the same
  (`D/hooks/mission_load.cpp:98-103`) and leaves `m_mission` at the map of an earlier
  load (`Names`, `HandleMissionLoad`). The DLL finds a mission's code without the second
  backslash (`mission_load.cpp:42-53`), so that it may still recognise, and lock, the
  mission the bridge does not see.
* `named` is a history variable: the map of the last load with a path to read. A title
  shown while `named` is the map being played is earned. Shown while it is another,
  the title's own location is out of the launcher's reach and does not count as earned
  (`EarnedReachesUnbroken` says nothing of it); the location of the same index in the map
  `named`, if there is one, is what will be credited instead, and is collected in
  `mistitled`. `CreditedWasEarned` says that this is the only thing credited beyond
  what was earned, so that a code the bridge failed to store, or stored of another
  load, violates it.
* External: the server (`ServerReads`, `ServerGrants`) and the network
  (`LinkBreaks`, which loses what is in flight either way).

`bool completed[9]` (`D/pipe_client.cpp:240`) is one cell short of the ten that
are copied. `DecodedCompletions` lets the last mission's cell hold either value
when the message does not name that mission.

### Delivery

The promise behind `LauncherSession`: what is granted takes effect, never before;
what is recorded and credited was earned or is the location of a title shown under a
mistaken map (`Mistake`, which can add titles and nothing else); what the game shows as completed was
recorded; the goal is credited only when every mission was beaten; none of these
sets ever shrinks. `Promise` in `SessionProperties` instantiates it with the
mapping `granted <- Granted`, `open <- unlocked`, `recorded <- m_checkedLocations`,
`credited <- srvChecked`, `mistitled` for itself, `shown <- Decoded`, `won <- srvGoal`; all else of the
session is a stutter. A message or packet that is lost or repeated is a stutter as
well, unless it would take something back.

### ModFiles

`pc` follows `main` through setup, launch and cleanup; every file operation is
an action with a branch in which it fails. `alreadyRenamed` is decided by
`Start` from the presence of the renamed file, as the code does. `Killed` may
end the launcher anywhere, `Verify` (external) is Steam or the Store putting
`bink2w64.dll` back. `ElevatedSetup` and `ElevatedCleanup` are the elevated
command lines of a Windows Store install, cut short after any of their commands.
`failures` counts the operations of the run that failed (a history variable);
a run that is elevated after a failed rename and completes has recovered from
it, so it counts none.

### LauncherLifecycle

`main` says which part of `main()` runs: `"files"` while `ModFiles`' `pc` moves, then
the wait for the DLL, the replay, the watch, and the three joins of stopping.
`FileStep` is any file operation of `ModFiles`, `GameOver` its `Play`, `Return` its
`Exit`: every step here is one of `ModFiles` or leaves its variables alone, and
`LauncherImplementsFiles` proves it. The pipe thread accepts one connection
(`Accept`) and reads until it ends (`ReadEnds`); the poll thread polls and may be
inside `PipeServer::Send` (`"sending"`); the monitor thread and the detached input
thread set `gameExited`. `StopPipe`, `JoinPipe` are `PipeServer::Stop` before and
after its join, `JoinMonitor` is the end of the normal path with `APBridge::Stop`,
`JoinPoll` the join of a setup that is given up (`ThenJoin`). The game may run
without the launcher's pipe (`"orphan"`), survive the launcher and hold the
libraries it has loaded (`InUse`). `torn` is a history variable: what the poll
thread was using when `main` closed or reset it.

### ButtonCollapse

Each navigation has a generation. `MenuNav`, `MenuNavOriginal`, `MenuNavEnd` are
`DetourMenuNav` before, in and after the original; `Enter`, `Wake`, `Sweep`, `Leave`
are the `CollapseThread` of a generation. `cacheReady` becomes true at some sweep
or never: whether the engine's classes are found is not the code's to say.
`gameGeneration` and `swept` are history variables: which game's menu is shown, and
whether its buttons were hidden.

### MissionFlow

Two threads: the engine's takes commands from `posted` and runs the detours of
`BeginMissionLoad` (`LoadBegins`, `LoadOriginal`, `LoadEnds`) and `game_won`
(`Won`); the shell's runs `DetourShellCommand`, whose calls of the original are
`QuitStep`s. A command that comes while a quit flag is set is dropped and a quit
sequence posted instead, whatever the command was. `halo1.dll` may go with the
mission in it (`ModuleGone`), and the worker clears the mission flag (`ModuleBack`).
`crossed` is a history variable: a mission ended, or was about to, before its flag
was consumed. These are the orders in which a later mission may be made to quit
in its place; `QuitsOwnMission` says that there are no others.

### HookMonitor

`pc` follows `WorkerMain` from its first look for `halo1.dll` through the
monitor loop to `UninstallAllHooks`. A group of hooks is installed or removed
one hook at a time: `pending` holds those that are left, in any order, and
`after` is where the worker goes then. `halo1` and `engine` are the game's, and
change between any two steps; `currentHalo1`, `lastHalo1` and `lastEngineObj`
are what the worker remembers of them.

* `LevelLoadHook` is `InstallShellLevelLoadHook`, called by `InstallVtable`,
  `Reinstall` and `Retry`. Its cached `g_engineGlobal` may point into an image
  that is gone; reading it is `Crash`.
* MinHook is the set `entries`. `CreateHook` fails where there is an entry
  already. `RemoveHook` removes one only while its image is loaded: otherwise
  `VirtualProtect` fails and the entry stays, while the hook forgets its target.
* `Reuse` says when the game may load `halo1.dll` at a base it had before:
  never (`{}`), after the worker has noticed its absence (`"noticed"`), or before
  (`"unnoticed"`).

### MissionMenu

`ChapterTabSetup` opens a screen. The game builds each item by two allocations
(`AllocItem`) and adds it (`AddItem`); `Populated` ends the setup or, when fewer
items were allocated than missions need, runs it again unfiltered. `UnlockMission`,
`SetFinalMission` and `SetMissionCompletions` are the pipe reader, between any
two of these, with nothing assumed of what arrives: an item may be the final
mission's, and every cell of the completions is overwritten, the last one by either
value when the message does not name that mission (`DecodedCompletions`), so that a
completion and with it an allowed final mission may be taken back. `allowedOnce` and
`allowedAlways` are history variables: the missions allowed at some, and at every,
moment of the setup (`Remember`). `MissionsFiltered` compares the screen with both:
each item is decided at its own moment, so no more can be said while the answer changes.

### ForcedSkulls

`ApplyForcedSkulls` is `TakeMasks`, `CheckMission`, `ReadBitmask`, `WriteBitmask`,
since the masks, the mission flag and the bitmask are read at different times;
`Return` forgets the locals. `resolvable` is whether the pointer chain to the
bitmask can be walked. The pipe reader is `SetSkullsanityTier`, `UnlockSkull`;
the player's menu is `DrawSkull`, `ToggleSkull`. `ShellCommand` clears
`g_inMission` on a resume as well, as the code does.

## 3. Runs

Two missions suffice for the session: mission 0 opens with an item, mission 1 is
final, opens with the completion of mission 0, and is the one whose cell overruns
the array; every rule of the code tells apart only "this mission", "the final
one" and "the last cell".

| run | bounds | shows |
|---|---|---|
| `session_delivery` | 1 item, tier, pipe of 3 writes, 2 events, 1 break | items, completions and tier over all orders of the three writers and a reconnect: types, `CompletionsAreChecked`, `NoItemLost`, `CompletionsNeverRegress` |
| `session_campaign` | 1 item, 1 chapter, pipe of 2, 4 events (load, win, load, win), 1 report waiting, no break; mission 0 loaded by a whole path, mission 1 by one the bridge cannot read, and a map outside the campaign | `FinalMissionEarned`, `GoalEarned`, `CreditedWasEarned` from the first unlock to the goal; the refinement `KeepsPromise` |
| `session_arrivals` | a mission item, a skull and a chapter location, mission 0 checked earlier, pipe of 2, 2 events, 1 break, 2 of both together (`MaxTurmoil`), mission 1 loaded by a path the bridge cannot read | liveness: `ItemsArrive`, `CompletionsArrive`, `CheckedMutexReleased`, `EarnedReachesUnbroken`, `GoalReachesServer` |
| `launcher` | 3 runs of the launcher, both platforms | `OriginalKept`, `ProxyHasOriginal`, `CleanRunRestores`, `AbortedSetupUndone`; `LifecycleTypeOK`, `CleanupAfterGame`, `AbortStopsCleanly`; liveness: `StopTerminates`, `SeenExitCleaned` |
| `hook_monitor` | 2 plain and 2 vtable hooks, 2 loads, 2 engine objects, 2 quick retries, no base twice | `PatchesOwned`, `LeavesNoHook`, `FlagMeansHooked`; liveness: `HooksFollow`, `LobbyNoticed` |
| `lobby` | 5 missions (10 allocations), other screens of 4 items (8 allocations), mission 3 final, all completions but the overrun's cell named or none, a skull of each kind, tiers 0 to 3; 3 navigations, 3 rounds; 3 missions started, 3 waiting commands | `MissionsFiltered`, `OthersComplete`; `FreeSkullsKept`; `OneCollapser`; `InMissionKept`, `LobbyClear`, `QuitsOwnMission`; liveness: `SkullsForced`, `CollapserLeaves`, `UndisturbedCollapse`, `LockedLeft` |
| `framing` | 1 item | `ReaderSurvives` is violated |
| `final_unlocked` | final mission 0 | `FinalMissionEarned` is violated |
| `lost_check` | 2 events, 1 break | `EarnedReachesServer` is violated |
| `store_cleanup` | 1 run, Store | `CleanupKeepsOriginal` is violated |
| `hook_reload` | as `hook_monitor`, a base may return | `HooksFollow` is violated |
| `nav_collapse` | as `lobby` | `ButtonsCollapse` is violated |

Bounds. `PipeCapacity` 2 or 3 lets a writer block before its length, between
length and body, and lets one thread's length follow another's; one byte count
more would add no new order. Events are bounded by `MaxEvents`: 4 is the length
of the shortest campaign. One break is enough for a loss and for a second
`OnSlotConnected` beside the replay. `MaxTurmoil` bounds events and breaks together
where the events could otherwise all fall after the break. `MaxPending` bounds the reports the
bridge has still to handle: three in the other runs of the session; one in
`session_campaign`, which waits while the pipe thread is at the last one's location and,
the pipe being in order, is handled as it would be behind others. The
runs that speak of titles have one chapter, of mission 0: a load of another map, readable or
not, with the title shown after it, is each way of attributing it. `session_campaign`
leaves out breaks, which do not touch the attribution and would multiply the states of
three kinds of loads; `SessionKeepsPromise` and `CreditIsEarned` hold over any number of
them. The number of kills and failures in
`launcher` is not bounded, only the number of runs: the first can leave the mod
behind, the second recover and be cut off again, the third find what both left;
the files alone reach no new state after two.
Deadlock is not checked there: a launcher that is not started again ends every
behaviour.
In `hook_monitor` two of everything let each of module and engine object change
once under the worker; the worker treats the hooks of `InstallHalo1Hooks` alike, so
two of six suffice; two of ten retries let one succeed after one that failed.
Deadlock is not checked since the worker ends. In `lobby` the missions need more
allocations than the largest other screen, by two, as in the code (20 against at most 8
it expects); the one skull of each kind stands for all, since no rule relates
two skulls. Three navigations let a thread be overtaken by two later ones and two
threads compete for the flag; three missions let a flag of the first meet the
second while the third is about to start; three waiting commands are a whole quit
sequence. Deadlock is not checked: the player stops navigating and playing.

Fairness. In `hook_monitor` and `lobby`: weak fairness of the worker, which waits
for time only. `HooksFollow`, `LobbyNoticed` and `SkullsForced` promise something once
the game leaves module, engine or lobby alone, and the first two except a
crashed game. In `lobby` the collapse threads, the engine's handling of posted
commands and a quit sequence under way go on as well; `LockedLeft` assumes nothing
of the shell, it says what happens if commands keep coming. In `launcher` each of
the four threads goes on when it can; neither the game, nor the player, nor the
console window does anything by fairness. In the session: weak fairness of the poll, pipe and main threads, of the DLL's reader
and sender, and of the DLL's connecting: they are loops the operating system
schedules, none waits by its own decision. The server is assumed to read what it
receives. Nothing makes the player play, the server grant an item or the
connection break. Weak fairness of a thread is enough where it waits for a mutex
since `CheckedMutexReleased` has the holder release it, and in these instances a
thread competes for it finitely often.

The liveness properties of the session promise nothing once it has ended for the DLL:
`GivenUp` names the two ways (its reader has left its loop, see below; or `main`
gave up after ten seconds without a slot). `EarnedReachesUnbroken` and
`GoalReachesServer` hold for a connection that does not break; that earned
locations arrive over a break is refuted, which is a finding.
`UndisturbedCollapse` excepts the two ways in which `nav_collapse` shows buttons to
stay; `QuitsOwnMission` excepts the orders `crossed` names; `CleanupAfterGame` excepts
the enter key, which removes the mod under a playing game by intention;
`SeenExitCleaned` speaks of a DLL that `main` has seen: one that connects and leaves
between two looks, 200 ms apart, is waited for without an end.

## 4. What disagrees with the documentation

* `framing`: between length and body of one thread another can put its own. The
  protocol is described as "length prefix, then body" (`L/pipe_server.cpp:200`);
  the DLL's reader leaves for good and the game gets no more items.
* `final_unlocked`: "Final mission is unlocked by beating all other missions"
  (`Docs/randomization.md:8`); with a final mission that is not the last, the
  last one's completion may be read from behind `completed[9]`.
* `lost_check`: "Beating each mission sends a location"
  (`Docs/randomization.md:11`); one that is reported during a break, or whose
  packet was lost with the connection, is never sent again in the session.
* `store_cleanup`: the launcher "restores your vanilla install"
  (`Docs/setup.md:18`); when only `HaloAP.dll` could not be deleted, the elevated
  cleanup deletes the restored original.
* `hook_reload`: "halo1.dll reloaded ... Reinstalling hooks..."
  (`D/dllmain.cpp:425`) and "the monitor loop will retry"
  (`D/hooks/shell_level_load.cpp:138`): the hooks of an unloaded image are
  forgotten while MinHook keeps their entries (`hook.c:406`, `700-704`), so that
  at the same base `MH_CreateHook` refuses (`hook.c:656`) for good.
* `nav_collapse`: "Button collapse (hide Quickstart/Playlists)" and "will collapse
  buttons" (`D/hooks/mission_select_block.cpp:345, 480`): the thread of a newer
  navigation gives way to the older one (418), which then stops as outdated (424),
  and nobody hides the buttons. A click on the blocked QUICKSTART does the same to
  the thread of its own menu.

## 5. Proofs

The theorems hold for every value of the constants that satisfies
`MissionCountAssumption`, `SessionAssumption`, `ModFilesAssumption`,
`HookAssumption`, `CollapseAssumption`, `FlowAssumption` and those of the menu and
the skulls: any number of missions, items, events, breaks, runs, hooks, loads,
retries, skulls, navigations, rounds and waiting commands and any capacity of the
pipe. Where a theorem needs more it says so in its ASSUME; those are named below.

* `SessionProofs!TypeCorrect`: `TypeOK` is inductive. It says more than types:
  a thread inside `Send` holds a message of a kind that thread sends, without
  which `AfterSend` would not lead back into that thread's code.
* `OrderProofs!ChainHolds`: `CompletionChain`, the inductive invariant of the
  completion state. That no COMPLETED takes a completion back cannot be proved
  from what the DLL and the bridge hold alone: messages of three threads lie
  in the pipe between them. The strengthening says that whoever builds or writes
  the completion state has `m_checkedMutex` to itself; that the message being
  written names exactly the missions recorded; and that the messages in the pipe
  form a chain of growing sets from what the DLL decoded to what is recorded.
  `CompletionsChecked` and `CompletionsKept` follow, the second because
  `ReadMessage` is the only step that changes `completed`. The last mission's cell
  is left out of both (`Decoded`), since the array overrun makes it arbitrary.
  The proof has one lemma per way a step disturbs the chain (`ChainWrite`,
  `ChainSent`, `ChainRecord`, `ChainRead`, `ChainCallSend`, `ChainGoto`), and one
  per thread that applies them to its actions.
* `CreditProofs`. `CreditIsEarned` (`CreditedWasEarned`) needs an invariant about
  reports on their way, since a chapter names no mission: `StreamInv` says that each
  report in the pipe or the sender's queue is backed by what the player has done, or by
  a title mistaken for another one, under the map the bridge will have in effect when
  it arrives, and that after all of them this is the map of the last load with a path
  to read (`named`). `CreditInv` bounds by `Creditable`, what was earned or mistaken,
  what the bridge, APClient, the packets and the server hold. `MistakesAreTitles` says
  that no mistake adds anything but a title, which keeps the final mission and the goal
  out of it: `SessionAssumption` has the locations of titles apart from those of
  completions, as they are in the tables (`chapter_map.h`, `mission_map.h`). `FinalIsEarned`
  (`FinalMissionEarned`) and `GoalIsEarned` (`GoalEarned`) assume that the final
  mission is the last one (`LastIsFinal`), which run `final_unlocked` shows to be
  necessary: `MessageInv` says that no message names another final mission and
  only granted items, `GoalInv` that a report or packet of the goal stands for
  every mission beaten. Together with the completion chain they give
  `SessionKeepsPromise`: every step of the session is one of `Delivery` or a stutter
  (`KeepsPromise`, under `LastIsFinal`).
* `ItemProofs!NoItemIsLost` (`NoItemLost`). The buffer is replayed by `main` while the
  poll thread forwards, and either may find no DLL; the invariant follows an
  item through both. `PhaseInv` relates where `main` is to whether a pipe, a
  connection and a forwarding function exist, and what each thread's message is.
  `PairInv` says that a body in the pipe follows its own length and a thread between
  its two writes has its length last announced, so that a reader that still lives
  reads what was sent. `ReceivedInv` says that on a link that holds every granted item
  is in the connection, in the poll thread's hands or in the buffer. `ReplayInv` says
  that every buffered item `main` has passed was applied or is carried: in the pipe,
  or by a thread inside `Send`.
* `ItemProofs`, the way up. `EarnedIsKept` and `GoalIsKept` are the safety that
  `EarnedReachesUnbroken` and `GoalReachesServer` rest on, the converse of what
  `CreditProofs` shows: `EarnedInv` says that each earned location is at the server,
  in a packet, in the pipe thread's hands, or `Due`, that is, some report still to be
  handled will be credited with it under every mission that may then be in effect.
  `SendLocation` marks a location as sent before it sends it and drops one
  that is marked, so `MarkedInv` has to say that what is marked has been or is about to be
  sent. All of this holds until the first break (`Unbroken`): during one
  packets are swallowed, which is the finding of `lost_check`; and for a
  reader that lives, since a dead one's queue is dropped. `UnbrokenInv` says that until
  then socket, APClient and the bridge's flag agree. `GoalIsKept` assumes
  `LastIsFinal` and `FinalIsOpen`: the final mission's completion is no skull's location,
  as in the tables, and was not recorded in an
  earlier session, which would have reported the goal itself. `SettledIsComplete`
  and `SettledHasGoal` draw the conclusion: with every report handled and every
  packet read, the server has all that was earned and beyond it only mistaken titles,
  and the goal.
* `ItemProofs`, the way down. `RecordedIsShown` is the safety that
  `CompletionsArrive` rests on, the converse of `CompletionsChecked`: `ShownInv` says
  that while the DLL reads, each recorded completion is in the DLL, in a COMPLETED in
  the pipe, or still to be announced: by a thread that is about to call
  `SendCompletionState` or is writing its message, or by `main`, whose replay ends
  with one. That a thread's message names all that is recorded when it is written is
  `CompletionChain`'s, that it is read as sent `PairInv`'s. `SettledIsShown` draws
  the conclusion for a pipe that is empty; for the items `NoItemLost` says it.
* `ItemProofs!ReaderDiesOfTwo`: the step with which the reader gives up reads
  lengths of two different threads. `PairInv` gives the first, since a body never
  comes without its length before it; `TurnsInv` the difference, since the writes
  of one thread alternate. So `framing` shows the only way this can happen.
* `ModFilesProofs`: `FilesInv` relates the place `main` has reached to the files
  that must be there (after the rename the original is the backup, the proxy only
  stands beside it); `FailuresInv` adds what a run without failure, or with
  exactly one, has done so far. They give `OriginalIsKept`, `ProxyIsBacked`,
  `CleanRunIsVanilla`, `AbortIsUndone` and, with `LocalsInv` and
  `RunsInv`, `FilesTypeOK`. `LauncherImplementsFiles` shows that `LauncherLifecycle`
  implements `ModFiles` (the identity on its variables), so that the theorems hold
  of the launcher with its threads as well (`LauncherKeepsOriginal`,
  `LauncherRunIsVanilla`). `OnlyCleanupLoses` says where an install from the
  Windows Store may lose the original: in the elevated cleanup that follows a
  restored original and a `HaloAP.dll` that could not be deleted, which is the case
  `store_cleanup` shows, and nowhere else.
* `ModFilesProofs`, the threads. `PlaceInv` says which of its stops `main` has made at
  each place, and what they have ended; it gives `AbortIsClean` (`AbortStopsCleanly`).
  `GameInv` relates the game to the pipe thread: while a game plays and `main` has not
  begun to stop, that thread is there for it, and `main` takes the game to have
  ended only once it has gone or the player has pressed enter. A cleanup begins only
  then, whence `CleansUpAfterGame` (`CleanupAfterGame`). `LauncherTypesHold` is
  `LifecycleTypeOK`.
* `HookMonitorProofs`: `PatchesOwned` is inductive beside the types it rests on
  (`HookType`), also where `halo1.dll` returns to an old base, since a fresh image
  carries no patch (`PatchesAreOwned`). `LeavesNoHook` is not: `Unhooking`
  adds that a patched function is still to be removed while the worker removes, and
  that an installation is never the last thing it does (`EndedIsUnhooked`). Without
  `PatchesOwned` a removal could leave the patch behind. `HookTypes` is `TypeOK`.
  `FlagIsHooked` (`FlagMeansHooked`) assumes `"unnoticed" \notin Reuse`: the
  flag is wrong when the image returns to its base between two looks of the worker.
* `LobbyProofs`. `MissionSelectFiltered` and `OtherScreensComplete` rest on `BuildInv`,
  which ties the count of allocations to the item being built and the step it is
  in, and what is shown so far to the decisions made; `MenuTypes` is `MenuTypeOK`. The first
  assumes nothing of the completions, of the final mission or of what the overrun's
  cell holds: `FilterInv` compares each decision, from the allocation that takes it
  on, with what was allowed at the moments of the setup so far.
  `PlayersSkullsKept` (`FreeSkullsKept`) rests on what the worker's masks were taken
  from (`MasksInv`); `SkullTypes` is `SkullTypeOK`. `CollapsersExclusive`
  (`OneCollapser`) is inductive beside the type of the threads. `LobbyComposes` says
  that the four side by side implement each one's specification, so that
  all of this, and `FlowProofs`, holds of the whole (`LobbyTypesHold` for `LobbyTypeOK`,
  `LobbyKeepsParts` for the rest).
* `FlowProofs!MissionKeepsFlag` (`InMissionKept`): the end of a quit sequence clears
  the mission flag late, on the other thread. `LateInv` says that while it is still
  to come a mission that runs has its teardown waiting, and so has every load that
  waits; so it never hits a mission that goes on. `LobbyIsClear` (`LobbyClear`) and
  `MissionQuitsOwn` (`QuitsOwnMission`) rest on `LoadInv` and `LeaveInv`, which say that, until
  a mission has ended under its flag (`crossed`), each quit flag belongs to the
  mission there is and nothing posted ends it otherwise, and that a mission flag
  that outlives its mission has a quit sequence to clear it; `OneLoad` keeps a second
  load from waiting behind the first.

Only model-checked: the liveness properties (`ItemsArrive`, `CompletionsArrive`,
`CheckedMutexReleased`, `EarnedReachesUnbroken`, `GoalReachesServer`,
`StopTerminates`, `SeenExitCleaned`, `HooksFollow`, `LobbyNoticed`, `SkullsForced`,
`CollapserLeaves`, `UndisturbedCollapse`, `LockedLeft`). They need fairness, and with it
ENABLED, which is outside the prover's reach. Every invariant and every action
property of the passing runs has a theorem.

## 6. Assumptions and what is not modelled

* Each call of APClient is one step. In the program the pipe thread calls
  `LocationChecks` and `StatusUpdate` on an object the poll thread is polling
  (a data race, listed as a hazard). `main` writes `m_sendToDll` and the poll
  thread reads it, likewise without a lock; here it is an atomic flag.
* A length whose value happens to equal the number of bytes another writer put
  after it is not modelled; the reader always dies on a length in place of a body.
* Item and location ids are numbers. A path is its map and whether the bridge finds a
  code in it; a mission's code that matches none is `OtherMap`, one value for all of
  them, since the code treats them alike. A path in which even the DLL finds no mission
  (`"(null)"`) loads `OtherMap`: a mission's map is loaded by a path that names it. A slot that is refused, and a `final_mission`
  name missing from the table (which `operator[]` would turn into 0), are left out.
* The engine posts a shell command before a mission that was loaded although
  locked can be won.
* MissionFlow: the engine handles posted commands in order and none while a detour
  of its own thread runs; the shell does not start a mission before the last one has
  ended. What the engine does with a command is the game's.
* ButtonCollapse: one navigation at a time. `g_shouldCollapse` is static, so that a
  navigation inside another one would decide for both.
* LauncherLifecycle: the pipe accepts one connection per run, as in the code. What
  `torn` records on the normal path (the poll thread is not joined, APClient is reset and the
  pipe closed under it, its `std::thread` destroyed joinable) has no property, since
  nothing in the code or its documentation promises otherwise; the hazards list it.
  The console dialogue and the saved game directory (`L/main.cpp:1-105`) are left out.
* `TierArrives` is stated and TLC refutes it: `m_slotConnected` is published before
  the tier is read (`L/ap_bridge.cpp:266`), so `main` can replay the old tier. It
  is a hazard and not a run, because no sentence of the documentation promises it.
* `PipeClient::Stop` and the deletion of the DLL's pipe before its hooks are
  removed (`D/dllmain.cpp:520`): the hooks' own copies of the pointer dangle, whose
  outcome is not the code's.
* Not modelled at all: the proxy DLL, which forwards exports and loads `HaloAP.dll`
  once; the pattern scan, a pure search; the vendored libraries (JSON, sockets, TLS,
  web sockets, by far the largest part of the source tree), of which only what the
  bridge uses of APClient and the worker of MinHook is in the models.
* HookMonitor: an install or uninstall function is one step, which leaves out a
  thread of the game inside the detour that is removed. `HooksFollow` leaves
  out the shell command hook, whose result the worker ignores
  (`D/dllmain.cpp:447`). That `DLL_PROCESS_DETACH` waits two seconds for the worker
  is real time and not in the model.
* MissionMenu: two `handleArrayMessage` allocations precede each `AddItem`, and no other thread
  allocates one meanwhile; this is what the code expects of the game. The second run of a
  setup fills the list from the start. A screen that is shown is not set up again when
  something arrives, and may then be out of date, as in the code.
* ForcedSkulls: the tier is set once; disablers exist only for skulls a tier can
  hold. A lost toggle between the read and the write of the bitmask is in the
  model, without a property about it.
* ModFiles: `MoveFileA` replaces no file; an elevated command ends within its ten
  seconds; a game update that brings a new `bink2w64.dll` is not told apart from
  the old one. After `ElevatedSetup` a failed copy goes unnoticed in the code,
  and nothing is promised of the wait for the DLL that follows. `OriginalKept` speaks of
  Steam installs: run `store_cleanup` refutes it for the Store.

## 7. Plan

Done, in this order: `ItemHandler`, `LauncherSession` with its properties, types
and order proofs; `ModFiles`, `HookMonitor` with their proofs; `MissionMenu`,
`ForcedSkulls`; then `Delivery` and the refinement, `ButtonCollapse`, `MissionFlow`,
`LauncherLifecycle`, and the proofs of every invariant and action property of the runs, of both
refinements, and of what `EarnedReachesUnbroken`, `GoalReachesServer` and
`CompletionsArrive` rest on. What is left:

1. The safety behind `HooksFollow`: which hook is missing under which of the
   worker's flags, so that its next look installs it.
2. The stop of the pipe client together with the hooks that report through it.
