-------------------------- MODULE LauncherLifecycle --------------------------
(***************************************************************************)
(* The launcher from its start to its exit (HaloAP_launcher/main.cpp,      *)
(* pipe_server.cpp, ap_bridge.cpp): the threads it starts, how it notices  *)
(* that the game has ended, and how it stops.  What main does to the mod's *)
(* files is module ModFiles, of which each step here is a step or none.    *)
(*                                                                         *)
(*   main        sets up, waits for the DLL, waits for the end, cleans up  *)
(*   pipeThread  accepts one connection and reads until it ends            *)
(*   pollThread  polls APClient, whose callbacks write to the pipe         *)
(*   monitor     watches the connection; `input` waits for the enter key   *)
(***************************************************************************)
EXTENDS ModFiles

VARIABLES
  main,          \* where main is beside ModFiles' pc; "files" while that moves
  pipeThread, pollThread, monitor, input,
  m_connected, m_shutdown,   \* PipeServer
  apShutdown, m_stopped,     \* the poll thread's flag, APBridge's
  gameExited,
  game,          \* "off", "starting", "playing" with the DLL's end of the
                 \* pipe open, "orphan" without
  entered,       \* history: enter was pressed
  torn           \* history: what the poll thread lost while it used it,
                 \* of "pipe" and "client"

threads == <<pipeThread, pollThread, monitor, input>>
stopFlags == <<m_shutdown, apShutdown, m_stopped>>
lifeVars == <<main, threads, m_connected, stopFlags, gameExited, game, entered,
              torn>>
launcherVars == <<vars, lifeVars>>

LifeInit ==
  /\ main = "off"
  /\ pipeThread = "none" /\ pollThread = "none" /\ monitor = "none"
  /\ input = FALSE
  /\ m_connected = FALSE /\ m_shutdown = FALSE
  /\ apShutdown = FALSE /\ m_stopped = FALSE
  /\ gameExited = FALSE /\ game = "off" /\ entered = FALSE /\ torn = {}

LauncherInit == Init /\ LifeInit

MainGoto(from, to) == main = from /\ main' = to

-----------------------------------------------------------------------------
(***************************************************************************)
(* main.                                                                   *)
(***************************************************************************)
\* The slot is connected; the pipe is there before the files are.
StartLauncher ==
  /\ Start
  /\ MainGoto("off", "files")
  /\ pipeThread' = "accepting" /\ pollThread' = "idle" /\ monitor' = "none"
  /\ input' = FALSE /\ m_connected' = FALSE /\ m_shutdown' = FALSE
  /\ apShutdown' = FALSE /\ m_stopped' = FALSE
  /\ gameExited' = FALSE /\ entered' = FALSE /\ torn' = {}
  /\ UNCHANGED game

\* A library the game has loaded is neither deleted nor overwritten.
Alive == game \in {"playing", "orphan"}
InUse == Alive => (bink = "proxy" => bink' = "proxy") /\ (haloAP => haloAP')

FileStep ==
  /\ main = "files"
  /\ \/ Rename \/ ElevatedSetup \/ CopyProxy \/ CopyHaloAP \/ DeleteProxy
     \/ Undo \/ RemoveProxy \/ Restore \/ RemoveHaloAP \/ ElevatedCleanup
  /\ InUse
  /\ UNCHANGED lifeVars

LaunchGame ==
  /\ pc = "launch"
  /\ MainGoto("files", "waitDll")
  /\ game' = IF game = "off" THEN "starting" ELSE game
  /\ UNCHANGED <<vars, threads, m_connected, stopFlags, gameExited, entered,
                 torn>>

\* Mutation: the DLL's opening the pipe is taken for the connection.
BugSeesAccept == pipeThread # "accepting"

DllSeen == m_connected

\* The wait for the DLL, without a limit.
WaitForDll ==
  /\ DllSeen
  /\ MainGoto("waitDll", "replay")
  /\ UNCHANGED <<vars, threads, m_connected, stopFlags, gameExited, game,
                 entered, torn>>

Replay ==
  /\ MainGoto("replay", "watch")
  /\ monitor' = "watching" /\ input' = TRUE
  /\ UNCHANGED <<vars, pipeThread, pollThread, m_connected, stopFlags,
                 gameExited, game, entered, torn>>

GameOver ==
  /\ gameExited
  /\ MainGoto("watch", "files")
  /\ Play
  /\ UNCHANGED <<threads, m_connected, stopFlags, gameExited, game, entered,
                 torn>>

\* PipeServer::Stop up to the join of its thread.
StopPipe ==
  /\ pc \in {"aborted", "done", "completed"}
  /\ MainGoto("files", "joinPipe")
  /\ m_shutdown' = TRUE /\ m_connected' = FALSE
  /\ UNCHANGED <<vars, threads, apShutdown, m_stopped, gameExited, game, entered,
                 torn>>

\* Mutation: an aborted setup, too, leaves the poll thread to itself.
BugNeverJoin == "joinMonitor"

\* The poll thread is joined only when the setup was given up.
ThenJoin == IF pc = "aborted" THEN "joinPoll" ELSE "joinMonitor"

\* Its end closes the handles, whoever is inside Send.
JoinPipe ==
  /\ pipeThread = "ended"
  /\ MainGoto("joinPipe", ThenJoin)
  /\ apShutdown' = TRUE
  /\ torn' = IF pollThread = "sending" THEN torn \cup {"pipe"} ELSE torn
  /\ UNCHANGED <<vars, threads, m_connected, m_shutdown, m_stopped, gameExited,
                 game, entered>>

JoinPoll ==
  /\ pollThread = "ended"
  /\ MainGoto("joinPoll", "return")
  /\ UNCHANGED <<vars, threads, m_connected, stopFlags, gameExited, game,
                 entered, torn>>

\* APBridge::Stop resets the client, whoever polls it.
JoinMonitor ==
  /\ monitor \in {"none", "ended"}
  /\ MainGoto("joinMonitor", "return")
  /\ m_stopped' = TRUE
  /\ torn' = IF pollThread \in {"polling", "sending"}
               THEN torn \cup {"client"} ELSE torn
  /\ UNCHANGED <<vars, threads, m_connected, m_shutdown, apShutdown, gameExited,
                 game, entered>>

ProcessEnds ==
  /\ main' = "off"
  /\ pipeThread' = "none" /\ pollThread' = "none" /\ monitor' = "none"
  /\ input' = FALSE /\ m_connected' = FALSE
  /\ game' = IF game = "playing" THEN "orphan" ELSE game
  /\ UNCHANGED <<stopFlags, gameExited, entered, torn>>

Return == main = "return" /\ Exit /\ ProcessEnds

KillLauncher == Killed /\ ProcessEnds

MainStep ==
  \/ FileStep \/ LaunchGame \/ WaitForDll \/ Replay \/ GameOver
  \/ StopPipe \/ JoinPipe \/ JoinPoll \/ JoinMonitor \/ Return

-----------------------------------------------------------------------------
(***************************************************************************)
(* The other threads.                                                      *)
(***************************************************************************)
\* Mutation: the wait for the connection is not woken by the shutdown.
BugAcceptForever ==
  /\ pipeThread = "opened"
  /\ pipeThread' = "reading" /\ m_connected' = TRUE

\* ConnectNamedPipe has returned, or the shutdown has woken the wait.
Accept ==
  \/ /\ pipeThread = "opened"
     /\ pipeThread' = "reading" /\ m_connected' = TRUE
  \/ /\ pipeThread = "accepting" /\ m_shutdown
     /\ pipeThread' = "ended" /\ UNCHANGED m_connected

\* The read fails, or the loop sees the shutdown.
ReadEnds ==
  /\ pipeThread = "reading"
  /\ m_shutdown \/ game # "playing"
  /\ pipeThread' = "ended" /\ m_connected' = FALSE

PipeStep ==
  /\ Accept \/ ReadEnds
  /\ UNCHANGED <<vars, main, pollThread, monitor, input, stopFlags, gameExited,
                 game, entered, torn>>

\* The loop of the poll thread; a callback may call PipeServer::Send, which
\* returns when the DLL has read, the game is gone or the shutdown wakes it.
PollStep ==
  /\ \/ /\ pollThread = "idle"
        /\ pollThread' = IF apShutdown THEN "ended"
                         ELSE IF m_stopped THEN "idle" ELSE "polling"
     \/ /\ pollThread = "polling"
        /\ pollThread' \in {"idle"} \cup (IF m_connected THEN {"sending"} ELSE {})
     \/ pollThread = "sending" /\ pollThread' = "polling"
  /\ UNCHANGED <<vars, main, pipeThread, monitor, input, m_connected, stopFlags,
                 gameExited, game, entered, torn>>

\* Mutation: only the enter key ends the wait.
BugMonitorOnly == monitor = "watching" /\ gameExited

MonitorSees == monitor = "watching" /\ (~m_connected \/ gameExited)

MonitorStep ==
  /\ MonitorSees
  /\ monitor' = "ended" /\ gameExited' = TRUE
  /\ UNCHANGED <<vars, main, pipeThread, pollThread, input, m_connected,
                 stopFlags, game, entered, torn>>

EnterPressed ==
  /\ input
  /\ input' = FALSE /\ gameExited' = TRUE /\ entered' = TRUE
  /\ UNCHANGED <<vars, main, pipeThread, pollThread, monitor, m_connected,
                 stopFlags, game, torn>>

-----------------------------------------------------------------------------
(***************************************************************************)
(* The game and the player (external).                                     *)
(***************************************************************************)
\* The proxy has loaded HaloAP.dll and the original, and the DLL has opened
\* the pipe; or the game runs without it.
GameRuns ==
  /\ game = "starting"
  /\ IF bink = "proxy" /\ haloAP /\ backup = "original"
          /\ pipeThread = "accepting" /\ ~m_shutdown
       THEN game' = "playing" /\ pipeThread' = "opened"
       ELSE game' = "orphan" /\ UNCHANGED pipeThread
  /\ UNCHANGED <<vars, main, pollThread, monitor, input, m_connected, stopFlags,
                 gameExited, entered, torn>>

GameQuits ==
  /\ game # "off"
  /\ game' = "off"
  /\ UNCHANGED <<vars, main, threads, m_connected, stopFlags, gameExited, entered,
                 torn>>

VerifyFiles == Verify /\ ~Alive /\ UNCHANGED lifeVars

LauncherNext ==
  \/ StartLauncher \/ MainStep \/ KillLauncher
  \/ PipeStep \/ PollStep \/ MonitorStep \/ EnterPressed
  \/ GameRuns \/ GameQuits \/ VerifyFiles

LauncherFairness ==
  /\ WF_launcherVars(MainStep) /\ WF_launcherVars(PipeStep)
  /\ WF_launcherVars(PollStep) /\ WF_launcherVars(MonitorStep)

LauncherSpec == LauncherInit /\ [][LauncherNext]_launcherVars /\ LauncherFairness

-----------------------------------------------------------------------------
(***************************************************************************)
(* Properties.                                                             *)
(***************************************************************************)

\* Every variable keeps its type, and main is off exactly when its files are.
LifecycleTypeOK ==
  /\ TypeOK
  /\ main \in {"off", "files", "waitDll", "replay", "watch", "joinPipe",
               "joinPoll", "joinMonitor", "return"}
  /\ pipeThread \in {"none", "accepting", "opened", "reading", "ended"}
  /\ pollThread \in {"none", "idle", "polling", "sending", "ended"}
  /\ monitor \in {"none", "watching", "ended"}
  /\ game \in {"off", "starting", "playing", "orphan"}
  /\ \A b \in {input, m_connected, m_shutdown, apShutdown, m_stopped, gameExited,
               entered} : b \in BOOLEAN
  /\ torn \subseteq {"pipe", "client"}
  /\ (main = "off") = (pc = "off")

Cleaning == pc \in {"removeProxy", "restore", "removeHaloAP", "elevateCleanup"}

\* The mod is never removed under a game that plays with it, unless the player
\* asked for it: no other order of connection, replay and watch makes main
\* believe that the game has ended (main.cpp:274-306, pipe_server.cpp:196-228).
CleanupAfterGame == Cleaning /\ game = "playing" => entered

\* A setup that is given up, even while a game left over from the run before
\* connects, returns with its threads ended and the client never reset under the
\* poll thread (main.cpp:200-202, ap_bridge.cpp:131); the other way of stopping
\* gives neither.
AbortStopsCleanly ==
  main = "return" /\ pc = "aborted"
    => "client" \notin torn /\ pipeThread = "ended" /\ pollThread = "ended"

\* Stopping terminates, whatever the threads are doing when it begins: main
\* waits for ever for none of them (pipe_server.cpp:44-68).
StopTerminates == []<>(main \notin {"joinPipe", "joinPoll", "joinMonitor"})

\* "When you quit the game, it sends a cleanup signal to the launcher"
\* (Docs/setup.md:18): a game whose DLL main has seen is cleaned up after.
SeenExitCleaned == []<>~(main = "watch" /\ game # "playing")

=============================================================================
