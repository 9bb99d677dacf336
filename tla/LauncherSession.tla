-------------------------- MODULE LauncherSession --------------------------
(***************************************************************************)
(* One play session: the Archipelago server, the launcher's three threads, *)
(* the named pipe and the DLL inside the game.                             *)
(*                                                                         *)
(*   "poll"  the AP poll thread: every APBridge callback runs on it        *)
(*   "pipe"  PipeServer's thread: HandleDllMessage runs on it              *)
(*   "main"  main(): waits for the slot, starts the pipe, replays the items*)
(*                                                                         *)
(* All three call PipeServer::Send, which writes a message as two writes,  *)
(* length and body, under no lock of its own.  `down` is the pipe towards  *)
(* the DLL, one chunk per write; `up` the one towards the launcher, whose  *)
(* only writer is the DLL's sender thread.                                 *)
(***************************************************************************)
EXTENDS ItemHandler, Sequences, FiniteSets

CONSTANTS
  SlotFinal,        \* final_mission of the slot data, as a mission index
  SlotTier,         \* skullsanity of the slot data, -1 when it has none
  Items,            \* the item ids the server may grant to the slot
  SkullLocations,   \* the location ids the skull hook may report
  ChapterIndices,   \* the title indices the chapter hook may report
  ChapterLocation,  \* GetChapterMap: <<mission, index>> -> location id
  PipeCapacity,     \* the writes the pipe holds before a writer blocks
  PriorChecked,     \* locations the server recorded in earlier sessions
  Loads,            \* the loads there may be: <<map, whether its path is whole>>
  MaxEvents,        \* bound: the events the game produces
  MaxPending,       \* bound: the reports the bridge has still to handle
  MaxBreaks,        \* bound: the times the server connection breaks
  MaxTurmoil        \* bound: the events and the breaks together

CompletionLocation(m) == 101000 + 1000 * m
Titles == {ChapterLocation[k] : k \in DOMAIN ChapterLocation}
Locations == {CompletionLocation(m) : m \in Missions} \cup SkullLocations \cup Titles

NoMission == -1   \* m_mission still empty, the game in no map, a path not read
OtherMap == MISSION_COUNT   \* a map outside the campaign, a code of no mission

\* What m_mission may hold, and where the game may be.
Maps == Missions \cup {OtherMap}
MapCodes == Maps \cup {NoMission}

ASSUME SessionAssumption ==
  /\ SlotFinal \in Missions
  /\ SlotTier \in Nat \cup {-1}
  /\ Items \subseteq Int
  /\ SkullLocations \subseteq Int
  /\ ChapterIndices \subseteq Nat
  /\ DOMAIN ChapterLocation \subseteq Missions \X ChapterIndices
  /\ Titles \subseteq Int
  /\ \A m \in Missions : CompletionLocation(m) \notin Titles
  /\ PipeCapacity \in Nat \ {0}
  /\ PriorChecked \subseteq Locations
  /\ Loads \subseteq Maps \X BOOLEAN
  /\ MaxEvents \in Nat
  /\ MaxPending \in Nat
  /\ MaxBreaks \in Nat
  /\ MaxTurmoil \in Nat

Threads == {"poll", "pipe", "main"}
Nobody == "nobody"

\* What the launcher writes to the pipe, what the DLL reports, what goes to
\* the server.
NoMessage == [kind |-> "NONE"]
Messages ==
  [kind : {"COMPLETED"}, missions : SUBSET Missions]
    \cup [kind : {"FINAL_MISSION"}, mission : Missions]
    \cup [kind : {"ITEM_RECIVED"}, item : Items]
    \cup [kind : {"SKULLSANITY"}, tier : Nat]

Reports ==
  [kind : {"MISSION_LOAD"}, mission : MapCodes]
    \cup [kind : {"MISSION_COMPLETE"}, mission : Maps]
    \cup [kind : {"CHAPTER"}, index : ChapterIndices]
    \cup [kind : {"LOCATION_CHECKED"}, location : SkullLocations]

Packets ==
  [cmd : {"LocationChecks"}, locations : SUBSET Int]
    \cup {[cmd |-> "StatusUpdate"]}

VARIABLES
  \* the server
  srvChecked,       \* locations it has recorded for the slot
  srvItems,         \* items granted to the slot, in order
  srvGoal,          \* whether it has recorded the goal
  \* the connection to it
  link,             \* whether the socket still carries data
  toServer,         \* packets on their way to the server
  fromServer,       \* ReceivedItems on their way to the client
  breaks,           \* how often the connection broke
  \* APClient
  state,            \* _state: "DISCONNECTED" or "SLOT_CONNECTED"
  checkQueue,       \* _checkQueue
  clientChecked,    \* _checkedLocations
  \* APBridge
  m_slotConnected, m_sentLocations, m_checkedLocations, m_checkedMutex,
  m_itemBuffer, m_itemBufferMutex, m_finalMission, m_skullsanityTier,
  m_mission, m_sendToDll,
  \* the launcher's threads
  pc,               \* where each thread is
  msg,              \* the message a thread is sending
  todo,             \* poll thread: items of the callback still to handle
  replayed,         \* main thread: items of m_itemBuffer already replayed
  location,         \* pipe thread: the location being sent
  goalMission,      \* pipe thread: the mission whose completion it handles
  \* the pipe
  pipeConnected,    \* PipeServer's m_connected
  down,             \* writes of the launcher the DLL has not read
  up,               \* messages of the DLL the launcher has not read
  \* the DLL and the game
  dll,              \* "absent", "reading", or "dead" once its reader gave up
  sendQueue,        \* PipeClient's m_sendQueue
  unlocked,         \* ItemHandler's m_unlockedMissions
  skulls,           \* the skulls UnlockSkull has released
  completed,        \* ItemHandler's m_missionCompleted
  dllFinal,         \* ItemHandler's m_finalMission
  dllTier,          \* the tier SetSkullsanityTier last stored, -1 before
  playing,          \* the mission the game is in
  g_quitLockedMission,  \* whether that is locked and to be left
  events,           \* events the game has produced
  named,            \* history: the map of the last load with a path to read
  earned,           \* history: locations the player has earned
  mistitled         \* history: locations a title was shown for that is not theirs

serverVars == <<srvChecked, srvItems, srvGoal>>
linkVars == <<link, toServer, fromServer, breaks>>
clientVars == <<state, checkQueue, clientChecked>>
checkedVars == <<m_checkedLocations, m_checkedMutex>>
bufferVars == <<m_itemBuffer, m_itemBufferMutex>>
slotVars == <<m_slotConnected, m_finalMission, m_skullsanityTier>>
bridgeVars == <<m_sentLocations, m_mission, m_sendToDll>>
localVars == <<todo, replayed, location, goalMission>>
threadVars == <<pc, msg>>
pipeVars == <<pipeConnected, down, up>>
itemVars == <<unlocked, skulls, completed, dllFinal, dllTier>>
gameVars == <<sendQueue, playing, g_quitLockedMission, events, named, earned,
              mistitled>>

\* The larger groups: everything towards the server, the bridge, the game.
world == <<serverVars, linkVars, clientVars>>
bridge == <<checkedVars, bufferVars, slotVars, bridgeVars>>
dllVars == <<dll, itemVars, gameVars>>

vars == <<world, bridge, localVars, threadVars, pipeVars, dllVars>>

Init ==
  /\ srvChecked = PriorChecked /\ srvItems = <<>> /\ srvGoal = FALSE
  /\ link = FALSE /\ toServer = <<>> /\ fromServer = <<>> /\ breaks = 0
  /\ state = "DISCONNECTED" /\ checkQueue = {} /\ clientChecked = {}
  /\ m_slotConnected = FALSE /\ m_sentLocations = {}
  /\ m_checkedLocations = {} /\ m_checkedMutex = Nobody
  /\ m_itemBuffer = <<>> /\ m_itemBufferMutex = Nobody
  /\ m_finalMission = MISSION_COUNT - 1 /\ m_skullsanityTier = -1
  /\ m_mission = NoMission /\ m_sendToDll = FALSE
  /\ pc = [poll |-> "idle", pipe |-> "notStarted", main |-> "waitSlot"]
  /\ msg = [t \in Threads |-> NoMessage]
  /\ todo = <<>> /\ replayed = 0
  /\ location = 0 /\ goalMission = NoMission
  /\ pipeConnected = FALSE /\ down = <<>> /\ up = <<>>
  /\ dll = "absent" /\ sendQueue = <<>>
  /\ unlocked = {} /\ skulls = {} /\ completed = {}
  /\ dllFinal = MISSION_COUNT - 1 /\ dllTier = -1
  /\ playing = NoMission /\ g_quitLockedMission = FALSE
  /\ events = 0 /\ named = NoMission
  /\ earned = PriorChecked /\ mistitled = {}

Goto(t, label) == pc' = [pc EXCEPT ![t] = label]

-----------------------------------------------------------------------------
(***************************************************************************)
(* PipeServer::Send, called by every thread.  A call while the DLL is not  *)
(* connected (or before main has set m_sendToDll) writes nothing.          *)
(***************************************************************************)
CallSend(t, m) ==
  /\ pc' = [pc EXCEPT ![t] = "send"]
  /\ msg' = [msg EXCEPT ![t] = m]

\* Where a thread goes on after the Send of a message.
AfterSend(t) ==
  CASE msg[t].kind = "SKULLSANITY" -> "lockBuffer"
    [] msg[t].kind = "COMPLETED" -> "finalMission"
    [] msg[t].kind = "FINAL_MISSION" -> "unlock"
    [] msg[t].kind = "ITEM_RECIVED" /\ t = "main" -> "replay"
    [] OTHER -> "items"

Write(t, part) ==
  /\ Len(down) < PipeCapacity
  /\ down' = Append(down, [from |-> t, part |-> part, msg |-> msg[t]])

SendToNobody(t) ==
  /\ pc[t] = "send"
  /\ ~(m_sendToDll /\ pipeConnected)
  /\ Goto(t, AfterSend(t))
  /\ msg' = [msg EXCEPT ![t] = NoMessage]
  /\ UNCHANGED <<world, bridge, localVars, pipeVars, dllVars>>

WriteLength(t) ==
  /\ pc[t] = "send"
  /\ m_sendToDll /\ pipeConnected
  /\ Write(t, "length")
  /\ Goto(t, "body")
  /\ UNCHANGED <<world, bridge, localVars, msg, pipeConnected, up, dllVars>>

WriteBody(t) ==
  /\ pc[t] = "body"
  /\ Write(t, "body")
  /\ Goto(t, AfterSend(t))
  /\ msg' = [msg EXCEPT ![t] = NoMessage]
  /\ UNCHANGED <<world, bridge, localVars, pipeConnected, up, dllVars>>

(***************************************************************************)
(* APBridge::SendCompletionState: COMPLETED and FINAL_MISSION are built and*)
(* sent while m_checkedMutex is held.                                      *)
(***************************************************************************)
AfterCompletionState(t) ==
  CASE t = "poll" -> "idle" [] t = "pipe" -> "goal" [] OTHER -> "monitor"

CheckedMissions(locs) == {m \in Missions : CompletionLocation(m) \in locs}

SkipCompletionState(t) ==
  /\ pc[t] = "completionState"
  /\ ~m_sendToDll
  /\ Goto(t, AfterCompletionState(t))
  /\ UNCHANGED <<world, bridge, localVars, msg, pipeVars, dllVars>>

\* Mutation: the set is read under the mutex, the messages sent after it.
BugSendUnlocked(t) == m_checkedMutex = Nobody /\ UNCHANGED m_checkedMutex

LockChecked(t) == m_checkedMutex = Nobody /\ m_checkedMutex' = t

SendCompleted(t) ==
  /\ pc[t] = "completionState"
  /\ m_sendToDll
  /\ LockChecked(t)
  /\ CallSend(t, [kind |-> "COMPLETED",
                  missions |-> CheckedMissions(m_checkedLocations)])
  /\ UNCHANGED <<world, m_checkedLocations, bufferVars, slotVars, bridgeVars,
                 localVars, pipeVars, dllVars>>

\* Mutation: reading the final mission takes the mutex once more.
BugLockTwice(t) ==
  /\ pc[t] = "finalMission"
  /\ m_checkedMutex = Nobody
  /\ CallSend(t, [kind |-> "FINAL_MISSION", mission |-> m_finalMission])
  /\ UNCHANGED <<world, bridge, localVars, pipeVars, dllVars>>

SendFinalMission(t) ==
  /\ pc[t] = "finalMission"
  /\ CallSend(t, [kind |-> "FINAL_MISSION", mission |-> m_finalMission])
  /\ UNCHANGED <<world, bridge, localVars, pipeVars, dllVars>>

\* Leaving the scope releases m_checkedMutex, and for the replay by main
\* m_itemBufferMutex with it.
ReleaseChecked(t) ==
  /\ pc[t] = "unlock"
  /\ m_checkedMutex' = Nobody
  /\ m_itemBufferMutex' = IF t = "main" THEN Nobody ELSE m_itemBufferMutex
  /\ Goto(t, AfterCompletionState(t))
  /\ UNCHANGED <<world, m_checkedLocations, m_itemBuffer, slotVars,
                 bridgeVars, localVars, msg, pipeVars, dllVars>>

SendStep(t) ==
  \/ SendToNobody(t) \/ WriteLength(t) \/ WriteBody(t)
  \/ SkipCompletionState(t) \/ SendCompleted(t) \/ SendFinalMission(t)
  \/ ReleaseChecked(t)

-----------------------------------------------------------------------------
(***************************************************************************)
(* The poll thread: APClient::poll and the APBridge callbacks it runs.     *)
(***************************************************************************)
Polling == pc["poll"] = "idle" /\ pc["main"] # "exited"

\* APClient to server.  A dead socket swallows what is written to it.
ToServer(packet) ==
  toServer' = IF link THEN Append(toServer, packet) ELSE toServer

\* Socket, RoomInfo and ConnectSlot succeed and the server answers Connected;
\* APClient adopts the server's checks and flushes its queue, and
\* OnSlotConnected begins.  The server sends the slot's items right after.
SlotConnected ==
  /\ Polling
  /\ state = "DISCONNECTED"
  /\ link' = TRUE
  /\ state' = "SLOT_CONNECTED"
  /\ clientChecked' = srvChecked \cup checkQueue
  /\ toServer' = IF checkQueue = {} THEN <<>>
                 ELSE <<[cmd |-> "LocationChecks", locations |-> checkQueue]>>
  /\ checkQueue' = {}
  /\ fromServer' = IF srvItems = <<>> THEN <<>> ELSE <<srvItems>>
  /\ m_slotConnected' = TRUE
  /\ Goto("poll", "mergeChecked")
  /\ UNCHANGED <<serverVars, breaks, checkedVars, bufferVars, m_finalMission,
                 m_skullsanityTier, bridgeVars, localVars, msg, pipeVars,
                 dllVars>>

MergeChecked ==
  /\ pc["poll"] = "mergeChecked"
  /\ m_checkedMutex = Nobody
  /\ m_checkedLocations' = m_checkedLocations \cup clientChecked
  /\ Goto("poll", "slotData")
  /\ UNCHANGED <<world, m_checkedMutex, bufferVars, slotVars, bridgeVars,
                 localVars, msg, pipeVars, dllVars>>

\* Mutation: the table counts the missions from one.
BugOneBased == SlotFinal + 1

SlotMission == SlotFinal

ReadSlotData ==
  /\ pc["poll"] = "slotData"
  /\ m_finalMission' = SlotMission
  /\ m_skullsanityTier' = IF SlotTier = -1 THEN m_skullsanityTier ELSE SlotTier
  /\ Goto("poll", "completionState")
  /\ UNCHANGED <<world, checkedVars, bufferVars, m_slotConnected, bridgeVars,
                 localVars, msg, pipeVars, dllVars>>

\* onclose: _state first, then OnSocketDisconnected.
SocketClosed ==
  /\ Polling
  /\ state = "SLOT_CONNECTED" /\ ~link
  /\ state' = "DISCONNECTED"
  /\ Goto("poll", "closing")
  /\ UNCHANGED <<serverVars, linkVars, checkQueue, clientChecked, bridge,
                 localVars, msg, pipeVars, dllVars>>

SocketDisconnected ==
  /\ pc["poll"] = "closing"
  /\ m_slotConnected' = FALSE
  /\ Goto("poll", "idle")
  /\ UNCHANGED <<world, checkedVars, bufferVars, m_finalMission,
                 m_skullsanityTier, bridgeVars, localVars, msg, pipeVars,
                 dllVars>>

\* Mutation: an item is buffered only until forwarding is set up.
BugBufferOrForward(item) ==
  m_itemBuffer' = IF m_sendToDll THEN m_itemBuffer ELSE Append(m_itemBuffer, item)

PushItem(item) == m_itemBuffer' = Append(m_itemBuffer, item)

\* OnItemsReceived: each item is buffered, then forwarded.
ItemsReceived ==
  /\ Polling
  /\ fromServer # <<>>
  /\ todo' = Head(fromServer)
  /\ fromServer' = Tail(fromServer)
  /\ Goto("poll", "items")
  /\ UNCHANGED <<serverVars, link, toServer, breaks, clientVars, bridge,
                 replayed, location, goalMission, msg, pipeVars, dllVars>>

BufferItem ==
  /\ pc["poll"] = "items"
  /\ todo # <<>>
  /\ m_itemBufferMutex = Nobody
  /\ PushItem(Head(todo))
  /\ todo' = Tail(todo)
  /\ CallSend("poll", [kind |-> "ITEM_RECIVED", item |-> Head(todo)])
  /\ UNCHANGED <<world, checkedVars, m_itemBufferMutex, slotVars, bridgeVars,
                 replayed, location, goalMission, pipeVars, dllVars>>

ItemsDone ==
  /\ pc["poll"] = "items"
  /\ todo = <<>>
  /\ Goto("poll", "idle")
  /\ UNCHANGED <<world, bridge, localVars, msg, pipeVars, dllVars>>

PollStep ==
  \/ SlotConnected \/ MergeChecked \/ ReadSlotData
  \/ SocketClosed \/ SocketDisconnected
  \/ ItemsReceived \/ BufferItem \/ ItemsDone
  \/ SendStep("poll")

-----------------------------------------------------------------------------
(***************************************************************************)
(* The pipe thread: HandleDllMessage and SendLocation.                     *)
(***************************************************************************)
TakeReport(kind) ==
  /\ pc["pipe"] = "idle"
  /\ up # <<>>
  /\ Head(up).kind = kind
  /\ up' = Tail(up)

BeginSendLocation(loc, mission) ==
  /\ location' = loc
  /\ goalMission' = mission
  /\ Goto("pipe", "sendLocation")

PipeAccepts ==
  /\ pc["pipe"] = "listening"
  /\ dll # "absent"
  /\ pipeConnected' = TRUE
  /\ Goto("pipe", "idle")
  /\ UNCHANGED <<world, bridge, localVars, msg, down, up, dllVars>>

\* Mutation: a code that is no mission's is not stored.
BugKnownOnly(report) ==
  report.kind = "MISSION_LOAD" /\ report.mission \in Missions

\* The code is read between `levels\` and the next backslash; a path without
\* them leaves m_mission as it was.
Names(report) == report.kind = "MISSION_LOAD" /\ report.mission # NoMission

HandleMissionLoad ==
  /\ TakeReport("MISSION_LOAD")
  /\ m_mission' = IF Names(Head(up)) THEN Head(up).mission ELSE m_mission
  /\ UNCHANGED <<world, checkedVars, bufferVars, slotVars, m_sentLocations,
                 m_sendToDll, localVars, threadVars, pipeConnected, down,
                 dllVars>>

\* An unknown mission code is recognised and dropped.
HandleMissionComplete ==
  /\ TakeReport("MISSION_COMPLETE")
  /\ LET m == Head(up).mission
     IN  IF m \in Missions
           THEN BeginSendLocation(CompletionLocation(m), m)
           ELSE UNCHANGED <<location, goalMission, pc>>
  /\ UNCHANGED <<world, bridge, todo, replayed, msg, pipeConnected, down,
                 dllVars>>

\* A chapter is credited to the mission the last MISSION_LOAD with a path to
\* read named.
HandleChapter ==
  /\ TakeReport("CHAPTER")
  /\ LET key == <<m_mission, Head(up).index>>
     IN  IF key \in DOMAIN ChapterLocation
           THEN BeginSendLocation(ChapterLocation[key], NoMission)
           ELSE UNCHANGED <<location, goalMission, pc>>
  /\ UNCHANGED <<world, bridge, todo, replayed, msg, pipeConnected, down,
                 dllVars>>

HandleLocationChecked ==
  /\ TakeReport("LOCATION_CHECKED")
  /\ BeginSendLocation(Head(up).location, NoMission)
  /\ UNCHANGED <<world, bridge, todo, replayed, msg, pipeConnected, down,
                 dllVars>>

\* SendLocation's early returns: no slot, or sent before in this session.
DropLocation ==
  /\ pc["pipe"] = "sendLocation"
  /\ ~m_slotConnected \/ location \in m_sentLocations
  /\ Goto("pipe", "goal")
  /\ UNCHANGED <<world, bridge, localVars, msg, pipeVars, dllVars>>

MarkSent ==
  /\ pc["pipe"] = "sendLocation"
  /\ m_slotConnected /\ location \notin m_sentLocations
  /\ m_sentLocations' = m_sentLocations \cup {location}
  /\ Goto("pipe", "locationChecks")
  /\ UNCHANGED <<world, checkedVars, bufferVars, slotVars, m_mission,
                 m_sendToDll, localVars, msg, pipeVars, dllVars>>

\* Mutation: the check is queued although the slot is connected.
BugQueueWhenConnected == state = "DISCONNECTED"

CanSendChecks == state = "SLOT_CONNECTED"

LocationChecks ==
  /\ pc["pipe"] = "locationChecks"
  /\ IF CanSendChecks
       THEN /\ ToServer([cmd |-> "LocationChecks", locations |-> {location}])
            /\ UNCHANGED checkQueue
       ELSE /\ checkQueue' = checkQueue \cup {location}
            /\ UNCHANGED toServer
  /\ clientChecked' = clientChecked \cup {location}
  /\ Goto("pipe", "track")
  /\ UNCHANGED <<serverVars, link, fromServer, breaks, state, bridge,
                 localVars, msg, pipeVars, dllVars>>

TrackChecked ==
  /\ pc["pipe"] = "track"
  /\ m_checkedMutex = Nobody
  /\ m_checkedLocations' = m_checkedLocations \cup {location}
  /\ Goto("pipe", "completionState")
  /\ UNCHANGED <<world, m_checkedMutex, bufferVars, slotVars, bridgeVars,
                 localVars, msg, pipeVars, dllVars>>

\* Mutation: any completed mission is the goal.
BugAnyMissionIsGoal == goalMission # NoMission

\* Mutation: the completed mission is counted from one.
BugGoalOneBased == goalMission + 1 = m_finalMission

IsGoal == goalMission = m_finalMission

\* The end of the MISSION_COMPLETE branch; the other branches have no goal to
\* report.  Without a slot APClient only stores the status, for nobody.
ReportGoal ==
  /\ pc["pipe"] = "goal"
  /\ IF IsGoal /\ state = "SLOT_CONNECTED"
       THEN ToServer([cmd |-> "StatusUpdate"])
       ELSE UNCHANGED toServer
  /\ location' = 0
  /\ goalMission' = NoMission
  /\ Goto("pipe", "idle")
  /\ UNCHANGED <<serverVars, link, fromServer, breaks, clientVars, bridge,
                 todo, replayed, msg, pipeVars, dllVars>>

PipeStep ==
  \/ PipeAccepts
  \/ HandleMissionLoad \/ HandleMissionComplete
  \/ HandleChapter \/ HandleLocationChecked
  \/ DropLocation \/ MarkSent \/ LocationChecks \/ TrackChecked \/ ReportGoal
  \/ SendStep("pipe")

-----------------------------------------------------------------------------
(***************************************************************************)
(* The main thread, from the wait for the slot to the end of the replay.   *)
(***************************************************************************)
SlotSeen ==
  /\ pc["main"] = "waitSlot"
  /\ m_slotConnected
  /\ Goto("main", "startPipe")
  /\ UNCHANGED <<world, bridge, localVars, msg, pipeVars, dllVars>>

\* Ten seconds without a slot: main joins the poll thread and returns.
SlotTimeout ==
  /\ pc["main"] = "waitSlot"
  /\ ~m_slotConnected
  /\ pc["poll"] = "idle"
  /\ Goto("main", "exited")
  /\ UNCHANGED <<world, bridge, localVars, msg, pipeVars, dllVars>>

StartPipe ==
  /\ pc["main"] = "startPipe"
  /\ pc' = [pc EXCEPT !["main"] = "setSend", !["pipe"] = "listening"]
  /\ UNCHANGED <<world, bridge, localVars, msg, pipeVars, dllVars>>

SetSendToDll ==
  /\ pc["main"] = "setSend"
  /\ m_sendToDll' = TRUE
  /\ Goto("main", "waitDll")
  /\ UNCHANGED <<world, checkedVars, bufferVars, slotVars, m_sentLocations,
                 m_mission, localVars, msg, pipeVars, dllVars>>

\* ReplayBufferedItems: the tier outside the buffer's mutex, then every item
\* and the completion state under it.
ReplayTier ==
  /\ pc["main"] = "waitDll"
  /\ pipeConnected
  /\ IF m_skullsanityTier >= 0
       THEN CallSend("main", [kind |-> "SKULLSANITY", tier |-> m_skullsanityTier])
       ELSE Goto("main", "lockBuffer") /\ UNCHANGED msg
  /\ UNCHANGED <<world, bridge, localVars, pipeVars, dllVars>>

LockBuffer ==
  /\ pc["main"] = "lockBuffer"
  /\ m_itemBufferMutex = Nobody
  /\ m_itemBufferMutex' = "main"
  /\ Goto("main", "replay")
  /\ UNCHANGED <<world, checkedVars, m_itemBuffer, slotVars, bridgeVars,
                 localVars, msg, pipeVars, dllVars>>

ReplayItem ==
  /\ pc["main"] = "replay"
  /\ replayed < Len(m_itemBuffer)
  /\ replayed' = replayed + 1
  /\ CallSend("main",
              [kind |-> "ITEM_RECIVED", item |-> m_itemBuffer[replayed + 1]])
  /\ UNCHANGED <<world, bridge, todo, location, goalMission, pipeVars,
                 dllVars>>

\* Mutation: the replay ends with the items.
BugNoCompletionReplay ==
  /\ pc["main"] = "replay"
  /\ replayed = Len(m_itemBuffer)
  /\ m_itemBufferMutex' = Nobody
  /\ Goto("main", "monitor")
  /\ UNCHANGED <<world, checkedVars, m_itemBuffer, slotVars, bridgeVars, localVars,
                 msg, pipeVars, dllVars>>

ReplayDone ==
  /\ pc["main"] = "replay"
  /\ replayed = Len(m_itemBuffer)
  /\ Goto("main", "completionState")
  /\ UNCHANGED <<world, bridge, localVars, msg, pipeVars, dllVars>>

MainStep ==
  \/ SlotSeen \/ SlotTimeout \/ StartPipe \/ SetSendToDll
  \/ ReplayTier \/ LockBuffer \/ ReplayItem \/ ReplayDone
  \/ SendStep("main")

-----------------------------------------------------------------------------
(***************************************************************************)
(* The DLL: its pipe reader and sender threads, and the game's hooks.      *)
(***************************************************************************)
DllConnects ==
  /\ dll = "absent"
  /\ pc["pipe"] = "listening"
  /\ dll' = "reading"
  /\ UNCHANGED <<world, bridge, localVars, threadVars, pipeVars, itemVars,
                 gameVars>>

\* addItem: a mission item, else a skull disabler, else nothing.
ApplyItem(item) ==
  LET mission == translateItemToMission(item)
      skull == translateItemToSkullDisabler(item)
  IN  /\ unlocked' = IF mission >= 0 THEN unlocked \cup {mission} ELSE unlocked
      /\ skulls' = IF mission < 0 /\ skull >= 0 THEN skulls \cup {skull}
                                                ELSE skulls
      /\ UNCHANGED <<completed, dllFinal, dllTier>>

\* PipeClient::HandleMessage.
HandleMessage(m) ==
  \/ /\ m.kind = "ITEM_RECIVED"
     /\ ApplyItem(m.item)
  \/ /\ m.kind = "COMPLETED"
     /\ completed' \in DecodedCompletions(m.missions)
     /\ UNCHANGED <<unlocked, skulls, dllFinal, dllTier>>
  \/ /\ m.kind = "FINAL_MISSION"
     /\ dllFinal' = m.mission
     /\ UNCHANGED <<unlocked, skulls, completed, dllTier>>
  \/ /\ m.kind = "SKULLSANITY"
     /\ dllTier' = m.tier
     /\ UNCHANGED <<unlocked, skulls, completed, dllFinal>>

\* The reader takes a length and as many bytes after it.
LengthRead == dll = "reading" /\ Len(down) >= 2

ReadMessage ==
  /\ LengthRead
  /\ down[2].part = "body"
  /\ HandleMessage(down[2].msg)
  /\ down' = Tail(Tail(down))
  /\ UNCHANGED <<world, bridge, localVars, threadVars, pipeConnected, up, dll,
                 gameVars>>

\* Two writers' lengths follow each other: the body starts with the bytes of a
\* length, which no prefix matches, and the next length is four characters of
\* text, above kMaxMessageSize.  The reader leaves its loop.
ReadMixedUp ==
  /\ LengthRead
  /\ down[2].part = "length"
  /\ dll' = "dead"
  /\ down' = Tail(Tail(down))
  /\ UNCHANGED <<world, bridge, localVars, threadVars, pipeConnected, up,
                 itemVars, gameVars>>

\* SenderThreadMain; once the reader is dead m_connected is false and Send
\* drops the message.
SendReport ==
  /\ sendQueue # <<>>
  /\ sendQueue' = Tail(sendQueue)
  /\ up' = IF dll = "reading" THEN Append(up, Head(sendQueue)) ELSE up
  /\ UNCHANGED <<world, bridge, localVars, threadVars, pipeConnected, down,
                 dll, itemVars, playing, g_quitLockedMission, events, named,
                 earned, mistitled>>

\* A hook reports to the launcher, as long as the DLL believes it connected.
Report(report) ==
  /\ dll = "reading"
  /\ events < MaxEvents /\ events + breaks < MaxTurmoil
  /\ Len(sendQueue) + Len(up) < MaxPending
  /\ events' = events + 1
  /\ sendQueue' = Append(sendQueue, report)
  /\ UNCHANGED <<world, bridge, localVars, threadVars, pipeVars, dll,
                 itemVars>>

\* DetourBeginMissionLoad reports every path, and flags a locked mission to be
\* left.  The DLL needs no second backslash to know the mission, so the path that
\* is not whole hides the map from the bridge alone.
GameLoads(map, whole) ==
  /\ Report([kind |-> "MISSION_LOAD", mission |-> IF whole THEN map ELSE NoMission])
  /\ playing' = map
  /\ named' = IF whole THEN map ELSE named
  /\ g_quitLockedMission' =
       (g_quitLockedMission \/ ~isMissionAllowed(map, unlocked, completed, dllFinal))
  /\ UNCHANGED <<earned, mistitled>>

\* DetourShellCommand: the shell's next command is replaced by the sequence
\* that leaves the flagged mission.
ShellCommand ==
  /\ g_quitLockedMission
  /\ g_quitLockedMission' = FALSE
  /\ playing' = NoMission
  /\ UNCHANGED <<world, bridge, localVars, threadVars, pipeVars, dll, itemVars,
                 sendQueue, events, named, earned, mistitled>>

\* DetourGameWon; the map's name may be unreadable, and the game is then sent
\* back to its menu either way.  The shell posts a command before a mission is
\* won, so no flagged one is.
GameWon(readable) ==
  /\ playing # NoMission /\ ~g_quitLockedMission
  /\ Report([kind |-> "MISSION_COMPLETE",
             mission |-> IF readable THEN playing ELSE OtherMap])
  /\ playing' = NoMission
  /\ earned' = IF readable /\ playing \in Missions
                 THEN earned \cup {CompletionLocation(playing)} ELSE earned
  /\ UNCHANGED <<g_quitLockedMission, named, mistitled>>

\* The location of a title of a map.
TitleOf(map, i) ==
  {ChapterLocation[k] : k \in {<<map, i>>} \cap DOMAIN ChapterLocation}

\* DetourCinematicSetTitle reports the title without its map.  Where the bridge
\* takes another map for the one played the launcher cannot tell the title's own
\* location, which then does not count as earned; what it will tell of instead
\* is kept apart.
ChapterShown(i) ==
  /\ playing # NoMission
  /\ Report([kind |-> "CHAPTER", index |-> i])
  /\ IF named = playing
       THEN /\ earned' = earned \cup TitleOf(playing, i)
            /\ UNCHANGED mistitled
       ELSE /\ mistitled' = mistitled \cup TitleOf(named, i)
            /\ UNCHANGED earned
  /\ UNCHANGED <<playing, g_quitLockedMission, named>>

\* DetourOnSkullClaimed
SkullClaimed(loc) ==
  /\ playing # NoMission
  /\ Report([kind |-> "LOCATION_CHECKED", location |-> loc])
  /\ earned' = earned \cup {loc}
  /\ UNCHANGED <<playing, g_quitLockedMission, named, mistitled>>

DllStep == ReadMessage \/ ReadMixedUp

GameStep ==
  \/ \E load \in Loads : GameLoads(load[1], load[2])
  \/ \E readable \in BOOLEAN : GameWon(readable)
  \/ \E i \in ChapterIndices : ChapterShown(i)
  \/ \E loc \in SkullLocations : SkullClaimed(loc)
  \/ ShellCommand

-----------------------------------------------------------------------------
(***************************************************************************)
(* The server and the network (external).                                  *)
(***************************************************************************)
ServerReads ==
  /\ toServer # <<>>
  /\ toServer' = Tail(toServer)
  /\ IF Head(toServer).cmd = "LocationChecks"
       THEN /\ srvChecked' = srvChecked \cup Head(toServer).locations
            /\ UNCHANGED srvGoal
       ELSE /\ srvGoal' = TRUE
            /\ UNCHANGED srvChecked
  /\ UNCHANGED <<srvItems, link, fromServer, breaks, clientVars, bridge,
                 localVars, threadVars, pipeVars, dllVars>>

Granted == {srvItems[n] : n \in 1 .. Len(srvItems)}

ServerGrants(item) ==
  /\ item \notin Granted
  /\ srvItems' = Append(srvItems, item)
  /\ fromServer' = IF link THEN Append(fromServer, <<item>>) ELSE fromServer
  /\ UNCHANGED <<srvChecked, srvGoal, link, toServer, breaks, clientVars,
                 bridge, localVars, threadVars, pipeVars, dllVars>>

\* What is in flight either way is lost with the connection.
LinkBreaks ==
  /\ link
  /\ breaks < MaxBreaks /\ events + breaks < MaxTurmoil
  /\ link' = FALSE
  /\ breaks' = breaks + 1
  /\ toServer' = <<>>
  /\ fromServer' = <<>>
  /\ UNCHANGED <<serverVars, clientVars, bridge, localVars, threadVars,
                 pipeVars, dllVars>>

Next ==
  \/ PollStep \/ PipeStep \/ MainStep
  \/ DllConnects \/ DllStep \/ SendReport \/ GameStep
  \/ ServerReads \/ LinkBreaks
  \/ \E item \in Items : ServerGrants(item)

Spec == Init /\ [][Next]_vars

\* Every thread runs, the server answers and the game is started; nothing
\* makes the player play, the server grant items or the connection break.
Fairness ==
  /\ WF_vars(PollStep) /\ WF_vars(PipeStep) /\ WF_vars(MainStep)
  /\ WF_vars(DllConnects) /\ WF_vars(DllStep) /\ WF_vars(SendReport)
  /\ WF_vars(ServerReads)

FairSpec == Spec /\ Fairness

=============================================================================
