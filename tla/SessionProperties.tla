------------------------- MODULE SessionProperties -------------------------
(***************************************************************************)
(* What a play session must and must not do: the types, the invariants, the*)
(* action properties and the liveness of LauncherSession.                  *)
(***************************************************************************)
EXTENDS LauncherSession

\* Where each thread can be, and what it can be sending.
SendLabels == {"send", "body", "completionState", "finalMission", "unlock"}

PollLabels == SendLabels \cup {"idle", "mergeChecked", "slotData", "closing",
                               "items"}
PipeLabels == SendLabels \cup {"notStarted", "listening", "idle",
                               "sendLocation", "locationChecks", "track", "goal"}
MainLabels == SendLabels \cup {"waitSlot", "startPipe", "setSend", "waitDll",
                               "lockBuffer", "replay", "monitor", "exited"}

AllLabels == PollLabels \cup PipeLabels \cup MainLabels

Labels(t) == IF t = "poll" THEN PollLabels
             ELSE IF t = "pipe" THEN PipeLabels ELSE MainLabels

CompletionKinds == {"COMPLETED", "FINAL_MISSION"}

Kinds(t) == IF t = "pipe" THEN CompletionKinds
            ELSE IF t = "poll" THEN CompletionKinds \cup {"ITEM_RECIVED"}
            ELSE CompletionKinds \cup {"ITEM_RECIVED", "SKULLSANITY"}

Sending(t) == pc[t] \in {"send", "body"}

Chunks == [from : Threads, part : {"length", "body"}, msg : Messages]

ServerTypeOK ==
  /\ srvChecked \subseteq Int
  /\ srvItems \in Seq(Items)
  /\ srvGoal \in BOOLEAN
  /\ link \in BOOLEAN
  /\ toServer \in Seq(Packets)
  /\ fromServer \in Seq(Seq(Items))
  /\ breaks \in Nat
  /\ state \in {"DISCONNECTED", "SLOT_CONNECTED"}
  /\ checkQueue \subseteq Int
  /\ clientChecked \subseteq Int

BridgeTypeOK ==
  /\ m_slotConnected \in BOOLEAN
  /\ m_sendToDll \in BOOLEAN
  /\ m_sentLocations \subseteq Int
  /\ m_checkedLocations \subseteq Int
  /\ m_checkedMutex \in Threads \cup {Nobody}
  /\ m_itemBuffer \in Seq(Items)
  /\ m_itemBufferMutex \in Threads \cup {Nobody}
  /\ m_finalMission \in Missions
  /\ m_skullsanityTier \in Nat \cup {-1}
  /\ m_mission \in MapCodes

ThreadTypeOK ==
  /\ pc \in [Threads -> AllLabels]
  /\ \A t \in Threads : pc[t] \in Labels(t)
  /\ msg \in [Threads -> Messages \cup {NoMessage}]
  /\ \A t \in Threads : Sending(t) => /\ msg[t] \in Messages
                                     /\ msg[t].kind \in Kinds(t)

LocalTypeOK ==
  /\ todo \in Seq(Items)
  /\ replayed \in Nat
  /\ location \in Int
  /\ goalMission \in Missions \cup {NoMission}

PipeTypeOK ==
  /\ pipeConnected \in BOOLEAN
  /\ down \in Seq(Chunks)
  /\ up \in Seq(Reports)

DllTypeOK ==
  /\ dll \in {"absent", "reading", "dead"}
  /\ sendQueue \in Seq(Reports)
  /\ unlocked \subseteq Missions
  /\ skulls \subseteq 0 .. SKULL_DISABLER_COUNT - 1
  /\ completed \subseteq Missions
  /\ dllFinal \in Missions
  /\ dllTier \in Nat \cup {-1}
  /\ playing \in MapCodes
  /\ g_quitLockedMission \in BOOLEAN
  /\ events \in Nat
  /\ named \in MapCodes
  /\ earned \subseteq Int
  /\ mistitled \subseteq Int

\* Every variable keeps its type, and a thread inside Send has a message.
TypeOK ==
  /\ ServerTypeOK /\ BridgeTypeOK /\ ThreadTypeOK /\ LocalTypeOK
  /\ PipeTypeOK /\ DllTypeOK

\* The cells of the DLL's m_missionCompleted that COMPLETED really decodes.
Decoded == completed \ {OverrunCell}

\* A mission the DLL holds for completed stays completed: each COMPLETED
\* overwrites all cells (setMissionCompletions), from three threads, so the
\* messages have to reach the DLL in the order of the sets they carry.
CompletionsNeverRegress == [][Decoded \subseteq completed']_vars

\* The DLL holds no mission for completed that the bridge has not recorded as
\* checked (SendCompletionState against m_checkedLocations).
CompletionsAreChecked == Decoded \subseteq CheckedMissions(m_checkedLocations)

\* Nothing is credited that the player did not earn, neither by the server nor
\* by the bridge, but for the titles shown while the bridge took another map for
\* the one played: a path it could not read left m_mission at an earlier load's,
\* and such a title is credited to that mission and to no other.
CreditedWasEarned == srvChecked \cup m_checkedLocations \subseteq earned \cup mistitled

\* A thread between taking m_checkedMutex in SendCompletionState and the end
\* of the scope.
Holding(t) == \/ pc[t] \in {"finalMission", "unlock"}
              \/ Sending(t) /\ msg[t].kind \in CompletionKinds

Named(n) == down[n].msg.missions
CompletedChunks == {n \in 1 .. Len(down) : down[n].msg.kind = "COMPLETED"}

\* Why the two above hold: whoever builds and writes the completion state has
\* m_checkedMutex to itself, so the COMPLETED it is writing names exactly the
\* missions recorded, and those in the pipe form a growing chain between what
\* the DLL decoded last and what the bridge has recorded (SendCompletionState).
CompletionChain ==
  /\ \A t \in Threads : Holding(t) => m_checkedMutex = t
  /\ \A t \in Threads : Sending(t) /\ msg[t].kind = "COMPLETED" =>
       msg[t].missions = CheckedMissions(m_checkedLocations)
  /\ \A n \in CompletedChunks :
       /\ Decoded \subseteq Named(n)
       /\ Named(n) \subseteq CheckedMissions(m_checkedLocations)
  /\ \A i, j \in CompletedChunks : i < j => Named(i) \subseteq Named(j)
  /\ CompletionsAreChecked

Applied(item) ==
  /\ translateItemToMission(item) >= 0 =>
       translateItemToMission(item) \in unlocked
  /\ translateItemToSkullDisabler(item) >= 0 =>
       translateItemToSkullDisabler(item) \in skulls

Carries(m, item) == m.kind = "ITEM_RECIVED" /\ m.item = item

\* An item the server will send (again), the client has not handled yet, a
\* thread is sending, or the pipe holds.
Underway(item) ==
  \/ ~link
  \/ \E n \in 1 .. Len(fromServer) : \E k \in 1 .. Len(fromServer[n]) :
       fromServer[n][k] = item
  \/ \E n \in 1 .. Len(todo) : todo[n] = item
  \/ \E t \in Threads : Carries(msg[t], item)
  \/ \E n \in 1 .. Len(down) : Carries(down[n].msg, item)

\* Between the replay by main and the forwarding by the poll thread no item
\* falls through: once main has replayed, each item the server granted has
\* been applied by the DLL or is underway to it.
NoItemLost ==
  pc["main"] = "monitor" /\ dll = "reading" =>
    \A item \in Granted : Applied(item) \/ Underway(item)

\* The final mission is played on, not flagged to be left, only when every other
\* mission was completed (isMissionAllowed, over the state COMPLETED and
\* FINAL_MISSION left).
FinalMissionEarned ==
  playing = SlotFinal /\ ~g_quitLockedMission =>
    \A m \in Missions \ {SlotFinal} : CompletionLocation(m) \in earned

\* The server records the goal only after every mission has been completed.
GoalEarned == srvGoal => \A m \in Missions : CompletionLocation(m) \in earned

\* The abstract session: what of the state it speaks of is here.
Promise == INSTANCE Delivery WITH
  CompletionOf <- [m \in Missions |-> CompletionLocation(m)],
  granted <- Granted,
  open <- unlocked,
  freed <- skulls,
  recorded <- m_checkedLocations,
  credited <- srvChecked,
  shown <- Decoded,
  won <- srvGoal

\* With three threads, a pipe, a replay and a connection in between, the
\* session does what Delivery promises: nothing takes effect, is recorded,
\* credited or shown before its time, and none of it is taken back.
KeepsPromise == Promise!Spec

\* The DLL's reader always finds a length and its own body.
ReaderSurvives == dll # "dead"

\* The session is over for the DLL: its reader gave up, or main left without
\* ever starting the pipe.
GivenUp == dll = "dead" \/ pc["main"] = "exited"

\* The connection has broken: what was under way with it may be lost.
Broken == breaks > 0

\* Every granted item is applied by the DLL, over reconnects and the replay.
ItemsArrive == []<>(GivenUp \/ \A item \in Granted : Applied(item))

\* The missions the bridge has recorded become completed in the DLL.
CompletionsArrive ==
  []<>(GivenUp \/ CheckedMissions(m_checkedLocations) \ {OverrunCell} \subseteq completed)

\* The mutex held while two messages are written is released again.
CheckedMutexReleased == []<>(GivenUp \/ m_checkedMutex = Nobody)

\* What the player earns reaches the server.
EarnedReachesServer == []<>(GivenUp \/ earned \subseteq srvChecked)

\* So it does at least while the connection holds; after a break the launcher
\* forgets what it has lost (SendLocation).
EarnedReachesUnbroken == []<>(GivenUp \/ Broken \/ earned \subseteq srvChecked)

\* Beating the final mission reaches the server as the goal, on a connection
\* that holds.
GoalReachesServer ==
  []<>(GivenUp \/ Broken \/ srvGoal \/ CompletionLocation(SlotFinal) \notin earned)

\* The tier of the slot data reaches the DLL.
TierArrives == <>(dllTier = SlotTier \/ GivenUp)

=============================================================================
