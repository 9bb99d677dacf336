--------------------------- MODULE SessionProofs ---------------------------
(***************************************************************************)
(* Theorems about a play session, for every value of the constants.        *)
(***************************************************************************)
EXTENDS SessionProperties, SequenceTheorems, TLAPS

\* The item table maps an id to a mission of the campaign or to -1.
LEMMA MissionOfItem ==
  ASSUME NEW item \in Int
  PROVE  translateItemToMission(item) \in Missions \cup {-1}
BY MissionCountAssumption DEF translateItemToMission, Missions, CE_OFFSET

LEMMA SkullOfItem ==
  ASSUME NEW item \in Int
  PROVE  translateItemToSkullDisabler(item)
           \in (0 .. SKULL_DISABLER_COUNT - 1) \cup {-1}
BY DEF translateItemToSkullDisabler, CE_SKULL_OFFSET, SKULL_DISABLER_COUNT

LEMMA LastMission == MISSION_COUNT - 1 \in Missions
BY MissionCountAssumption DEF Missions

\* The messages and packets the launcher builds are well formed.
LEMMA MessageTypes ==
  /\ \A S \in SUBSET Missions : [kind |-> "COMPLETED", missions |-> S] \in Messages
  /\ \A m \in Missions : [kind |-> "FINAL_MISSION", mission |-> m] \in Messages
  /\ \A i \in Items : [kind |-> "ITEM_RECIVED", item |-> i] \in Messages
  /\ \A n \in Nat : [kind |-> "SKULLSANITY", tier |-> n] \in Messages
BY DEF Messages

\* After a Send a thread is at a place of its own again.
LEMMA AfterSendLabel ==
  ASSUME NEW t \in Threads, msg[t].kind \in Kinds(t)
  PROVE  AfterSend(t) \in Labels(t) \ {"send", "body"}
<1>1. CASE t = "poll"
  BY <1>1 DEF AfterSend, Labels, Kinds, CompletionKinds, PollLabels, SendLabels
<1>2. CASE t = "pipe"
  BY <1>2 DEF AfterSend, Labels, Kinds, CompletionKinds, PipeLabels, SendLabels
<1>3. CASE t = "main"
  BY <1>3 DEF AfterSend, Labels, Kinds, CompletionKinds, MainLabels, SendLabels
<1> QED BY <1>1, <1>2, <1>3 DEF Threads

LEMMA AfterCompletionLabel ==
  ASSUME NEW t \in Threads
  PROVE  AfterCompletionState(t) \in Labels(t) \ {"send", "body"}
<1>1. CASE t = "poll"
  BY <1>1 DEF AfterCompletionState, Labels, PollLabels
<1>2. CASE t = "pipe"
  BY <1>2 DEF AfterCompletionState, Labels, PipeLabels
<1>3. CASE t = "main"
  BY <1>3 DEF AfterCompletionState, Labels, MainLabels
<1> QED BY <1>1, <1>2, <1>3 DEF Threads

\* Wherever it is, a thread may be inside Send.
LEMMA SendLabel ==
  ASSUME NEW t \in Threads
  PROVE  SendLabels \subseteq Labels(t)
BY DEF Threads, Labels, PollLabels, PipeLabels, MainLabels, SendLabels

LEMMA LabelsTogether ==
  ASSUME NEW t \in Threads
  PROVE  Labels(t) \subseteq AllLabels
BY DEF Threads, Labels, AllLabels

\* A thread that moves on without entering Send keeps the types.
LEMMA GotoType ==
  ASSUME ThreadTypeOK, NEW t \in Threads, NEW l \in Labels(t) \ {"send", "body"},
         Goto(t, l), msg' = msg \/ msg' = [msg EXCEPT ![t] = NoMessage]
  PROVE  ThreadTypeOK'
<1>1. pc' \in [Threads -> AllLabels]
  BY LabelsTogether DEF ThreadTypeOK, Goto
<1>2. ASSUME NEW u \in Threads PROVE pc'[u] \in Labels(u)
  BY DEF ThreadTypeOK, Goto
<1>3. msg' \in [Threads -> Messages \cup {NoMessage}]
  BY DEF ThreadTypeOK
<1>4. ASSUME NEW u \in Threads, Sending(u)'
      PROVE  msg'[u] \in Messages /\ msg'[u].kind \in Kinds(u)
  BY <1>4 DEF ThreadTypeOK, Goto, Sending
<1> QED BY <1>1, <1>2, <1>3, <1>4 DEF ThreadTypeOK, Sending

\* So does a thread that enters Send with a message it may send.
LEMMA CallSendType ==
  ASSUME ThreadTypeOK, NEW t \in Threads, NEW m \in Messages,
         m.kind \in Kinds(t), CallSend(t, m)
  PROVE  ThreadTypeOK'
<1>1. pc' \in [Threads -> AllLabels]
  BY SendLabel, LabelsTogether DEF ThreadTypeOK, CallSend, SendLabels
<1>2. ASSUME NEW u \in Threads PROVE pc'[u] \in Labels(u)
  BY SendLabel DEF ThreadTypeOK, CallSend, SendLabels
<1>3. msg' \in [Threads -> Messages \cup {NoMessage}]
  BY DEF ThreadTypeOK, CallSend
<1>4. ASSUME NEW u \in Threads, Sending(u)'
      PROVE  msg'[u] \in Messages /\ msg'[u].kind \in Kinds(u)
  BY <1>4 DEF ThreadTypeOK, CallSend, Sending
<1> QED BY <1>1, <1>2, <1>3, <1>4 DEF ThreadTypeOK, Sending

LEMMA WriteType ==
  ASSUME ThreadTypeOK, down \in Seq(Chunks), NEW t \in Threads, Sending(t),
         NEW part \in {"length", "body"}, Write(t, part)
  PROVE  down' \in Seq(Chunks)
BY DEF ThreadTypeOK, Write, Chunks

\* The groups of variables stand for their members in every proof below.
USE DEF world, serverVars, linkVars, clientVars, bridge, checkedVars,
        bufferVars, slotVars, bridgeVars, localVars, pipeVars, dllVars,
        itemVars, gameVars, threadVars

\* The steps of Send and SendCompletionState keep every type.
LEMMA SendStepType ==
  ASSUME TypeOK, NEW t \in Threads, SendStep(t)
  PROVE  TypeOK'
<1> USE DEF TypeOK
<1>a. UNCHANGED <<world, localVars, dllVars>>
  BY DEF SendStep, SendToNobody, WriteLength, WriteBody, SkipCompletionState,
         SendCompleted, SendFinalMission, ReleaseChecked
<1>b. LocalTypeOK'
  BY <1>a DEF LocalTypeOK
<1>c. DllTypeOK'
  BY <1>a DEF DllTypeOK
<1>d. ServerTypeOK'
  BY <1>a DEF ServerTypeOK
<1>0. LocalTypeOK' /\ DllTypeOK' /\ ServerTypeOK'
  BY <1>b, <1>c, <1>d
<1>1. CASE SendToNobody(t)
  <2>1. ThreadTypeOK'
    BY <1>1, AfterSendLabel, GotoType DEF SendToNobody, ThreadTypeOK, Sending
  <2> QED BY <1>0, <1>1, <2>1 DEF SendToNobody, BridgeTypeOK, PipeTypeOK
<1>2. CASE WriteLength(t)
  <2>1. ThreadTypeOK'
    BY <1>2, SendLabel, LabelsTogether DEF WriteLength, ThreadTypeOK, Sending, Goto, SendLabels
  <2>2. down' \in Seq(Chunks)
    BY <1>2, WriteType DEF WriteLength, PipeTypeOK, Sending
  <2> QED BY <1>0, <1>2, <2>1, <2>2 DEF WriteLength, BridgeTypeOK, PipeTypeOK
<1>3. CASE WriteBody(t)
  <2>1. ThreadTypeOK'
    BY <1>3, AfterSendLabel, GotoType DEF WriteBody, ThreadTypeOK, Sending
  <2>2. down' \in Seq(Chunks)
    BY <1>3, WriteType DEF WriteBody, PipeTypeOK, Sending
  <2> QED BY <1>0, <1>3, <2>1, <2>2 DEF WriteBody, BridgeTypeOK, PipeTypeOK
<1>4. CASE SkipCompletionState(t)
  <2>1. ThreadTypeOK'
    BY <1>4, AfterCompletionLabel, GotoType DEF SkipCompletionState
  <2> QED BY <1>0, <1>4, <2>1 DEF SkipCompletionState, BridgeTypeOK, PipeTypeOK
<1>5. CASE SendCompleted(t)
  <2>1. ThreadTypeOK'
    <3>1. CheckedMissions(m_checkedLocations) \in SUBSET Missions
      BY DEF CheckedMissions
    <3>2. "COMPLETED" \in Kinds(t)
      BY DEF Kinds, CompletionKinds
    <3> QED BY <1>5, <3>1, <3>2, MessageTypes, CallSendType DEF SendCompleted
  <2> QED BY <1>0, <1>5, <2>1 DEF SendCompleted, LockChecked, BridgeTypeOK, PipeTypeOK
<1>6. CASE SendFinalMission(t)
  <2>1. ThreadTypeOK'
    <3>2. "FINAL_MISSION" \in Kinds(t)
      BY DEF Kinds, CompletionKinds
    <3> QED BY <1>6, <3>2, MessageTypes, CallSendType DEF SendFinalMission, BridgeTypeOK
  <2> QED BY <1>0, <1>6, <2>1 DEF SendFinalMission, BridgeTypeOK, PipeTypeOK
<1>7. CASE ReleaseChecked(t)
  <2>1. ThreadTypeOK'
    BY <1>7, AfterCompletionLabel, GotoType DEF ReleaseChecked
  <2> QED BY <1>0, <1>7, <2>1 DEF ReleaseChecked, BridgeTypeOK, PipeTypeOK
<1> QED BY <1>1, <1>2, <1>3, <1>4, <1>5, <1>6, <1>7 DEF SendStep

\* The poll thread keeps every type.
LEMMA PollStepType ==
  ASSUME TypeOK, PollStep
  PROVE  TypeOK'
<1> USE DEF TypeOK
<1>0. "poll" \in Threads
  BY DEF Threads
<1>1. CASE SlotConnected
  <2>1. ThreadTypeOK'
    BY <1>0, <1>1, GotoType DEF SlotConnected, Labels, PollLabels
  <2>2. ServerTypeOK'
    <3>1. [cmd |-> "LocationChecks", locations |-> checkQueue] \in Packets
      BY DEF ServerTypeOK, Packets
    <3>2. toServer' \in Seq(Packets)
      BY <1>1, <3>1 DEF SlotConnected
    <3>3. fromServer' \in Seq(Seq(Items))
      BY <1>1 DEF SlotConnected, ServerTypeOK
    <3> QED BY <1>1, <3>2, <3>3 DEF SlotConnected, ServerTypeOK
  <2> QED BY <1>1, <2>1, <2>2
          DEF SlotConnected, BridgeTypeOK, LocalTypeOK, PipeTypeOK, DllTypeOK
<1>2. CASE MergeChecked
  <2>1. ThreadTypeOK'
    BY <1>0, <1>2, GotoType DEF MergeChecked, Labels, PollLabels
  <2>2. BridgeTypeOK'
    BY <1>2 DEF MergeChecked, BridgeTypeOK, ServerTypeOK
  <2> QED BY <1>2, <2>1, <2>2
          DEF MergeChecked, ServerTypeOK, LocalTypeOK, PipeTypeOK, DllTypeOK
<1>3. CASE ReadSlotData
  <2>1. ThreadTypeOK'
    BY <1>0, <1>3, GotoType DEF ReadSlotData, Labels, PollLabels, SendLabels
  <2>2. BridgeTypeOK'
    BY <1>3, SessionAssumption DEF ReadSlotData, BridgeTypeOK, SlotMission
  <2> QED BY <1>3, <2>1, <2>2
          DEF ReadSlotData, ServerTypeOK, LocalTypeOK, PipeTypeOK, DllTypeOK
<1>4. CASE SocketClosed
  <2>1. ThreadTypeOK'
    BY <1>0, <1>4, GotoType DEF SocketClosed, Labels, PollLabels
  <2> QED BY <1>4, <2>1 DEF SocketClosed, ServerTypeOK, BridgeTypeOK,
                            LocalTypeOK, PipeTypeOK, DllTypeOK
<1>5. CASE SocketDisconnected
  <2>1. ThreadTypeOK'
    BY <1>0, <1>5, GotoType DEF SocketDisconnected, Labels, PollLabels
  <2>2. BridgeTypeOK'
    BY <1>5 DEF SocketDisconnected, BridgeTypeOK
  <2> QED BY <1>5, <2>1, <2>2 DEF SocketDisconnected, ServerTypeOK,
                                  LocalTypeOK, PipeTypeOK, DllTypeOK
<1>6. CASE ItemsReceived
  <2>1. ThreadTypeOK'
    BY <1>0, <1>6, GotoType DEF ItemsReceived, Labels, PollLabels
  <2>2. Head(fromServer) \in Seq(Items) /\ Tail(fromServer) \in Seq(Seq(Items))
    BY <1>6 DEF ItemsReceived, ServerTypeOK
  <2>3. ServerTypeOK' /\ LocalTypeOK'
    BY <1>6, <2>2 DEF ItemsReceived, ServerTypeOK, LocalTypeOK
  <2> QED BY <1>6, <2>1, <2>3 DEF ItemsReceived, BridgeTypeOK, PipeTypeOK,
                                  DllTypeOK
<1>7. CASE BufferItem
  <2>1. Head(todo) \in Items /\ Tail(todo) \in Seq(Items)
    BY <1>7 DEF BufferItem, LocalTypeOK
  <2>2. "ITEM_RECIVED" \in Kinds("poll")
    BY DEF Kinds
  <2>3. ThreadTypeOK'
    BY <1>0, <1>7, <2>1, <2>2, MessageTypes, CallSendType DEF BufferItem
  <2>4. BridgeTypeOK'
    BY <1>7, <2>1 DEF BufferItem, PushItem, BridgeTypeOK
  <2> QED BY <1>7, <2>1, <2>3, <2>4 DEF BufferItem, ServerTypeOK, LocalTypeOK,
                                        PipeTypeOK, DllTypeOK
<1>8. CASE ItemsDone
  <2>1. ThreadTypeOK'
    BY <1>0, <1>8, GotoType DEF ItemsDone, Labels, PollLabels
  <2> QED BY <1>8, <2>1 DEF ItemsDone, ServerTypeOK, BridgeTypeOK,
                            LocalTypeOK, PipeTypeOK, DllTypeOK
<1> QED BY <1>0, <1>1, <1>2, <1>3, <1>4, <1>5, <1>6, <1>7, <1>8, SendStepType
        DEF PollStep

LEMMA ToServerType ==
  ASSUME toServer \in Seq(Packets), NEW packet \in Packets, ToServer(packet)
  PROVE  toServer' \in Seq(Packets)
BY DEF ToServer

\* The pipe thread keeps every type.
LEMMA PipeStepType ==
  ASSUME TypeOK, PipeStep
  PROVE  TypeOK'
<1> USE DEF TypeOK
<1>0. "pipe" \in Threads
  BY DEF Threads
<1>1. CASE PipeAccepts
  <2>1. ThreadTypeOK'
    BY <1>0, <1>1, GotoType DEF PipeAccepts, Labels, PipeLabels
  <2>2. PipeTypeOK'
    BY <1>1 DEF PipeAccepts, PipeTypeOK
  <2> QED BY <1>1, <2>1, <2>2 DEF PipeAccepts, ServerTypeOK, BridgeTypeOK,
                                  LocalTypeOK, DllTypeOK
<1>2. ASSUME NEW kind, TakeReport(kind)
      PROVE  Head(up) \in Reports /\ up' \in Seq(Reports)
  BY <1>2 DEF TakeReport, PipeTypeOK
<1>3. CASE HandleMissionLoad
  <2>1. m_mission' \in MapCodes
    BY <1>2, <1>3 DEF HandleMissionLoad, TakeReport, Reports, Names, BridgeTypeOK
  <2>2. BridgeTypeOK' /\ PipeTypeOK'
    BY <1>2, <1>3, <2>1 DEF HandleMissionLoad, BridgeTypeOK, PipeTypeOK
  <2> QED BY <1>3, <2>2 DEF HandleMissionLoad, ServerTypeOK, ThreadTypeOK, Sending,
                            LocalTypeOK, DllTypeOK
<1>4. ASSUME NEW loc \in Int, NEW m \in Missions \cup {NoMission},
             BeginSendLocation(loc, m), UNCHANGED <<msg, todo, replayed>>
      PROVE  ThreadTypeOK' /\ LocalTypeOK'
  <2>1. ThreadTypeOK'
    BY <1>0, <1>4, GotoType DEF BeginSendLocation, Labels, PipeLabels
  <2> QED BY <1>4, <2>1 DEF BeginSendLocation, LocalTypeOK
<1>5. ASSUME UNCHANGED <<pc, msg, todo, replayed, location, goalMission>>
      PROVE  ThreadTypeOK' /\ LocalTypeOK'
  BY <1>5 DEF ThreadTypeOK, LocalTypeOK, Sending
<1>6. CASE HandleMissionComplete
  <2>1. \A m \in Missions : CompletionLocation(m) \in Int
    BY MissionCountAssumption DEF CompletionLocation, Missions
  <2>2. ThreadTypeOK' /\ LocalTypeOK'
    <3>1. CASE Head(up).mission \in Missions
      BY <1>4, <1>6, <2>1, <3>1 DEF HandleMissionComplete
    <3>2. CASE Head(up).mission \notin Missions
      BY <1>5, <1>6, <3>2 DEF HandleMissionComplete
    <3> QED BY <3>1, <3>2
  <2>3. PipeTypeOK'
    BY <1>2, <1>6 DEF HandleMissionComplete, PipeTypeOK
  <2> QED BY <1>6, <2>2, <2>3 DEF HandleMissionComplete, ServerTypeOK,
                                  BridgeTypeOK, DllTypeOK
<1>7. CASE HandleChapter
  <2>1. ThreadTypeOK' /\ LocalTypeOK'
    <3>1. CASE <<m_mission, Head(up).index>> \in DOMAIN ChapterLocation
      BY <1>4, <1>7, <3>1, SessionAssumption DEF HandleChapter, Titles
    <3>2. CASE <<m_mission, Head(up).index>> \notin DOMAIN ChapterLocation
      BY <1>5, <1>7, <3>2 DEF HandleChapter
    <3> QED BY <3>1, <3>2
  <2>2. PipeTypeOK'
    BY <1>2, <1>7 DEF HandleChapter, PipeTypeOK
  <2> QED BY <1>7, <2>1, <2>2 DEF HandleChapter, ServerTypeOK, BridgeTypeOK,
                                  DllTypeOK
<1>8. CASE HandleLocationChecked
  <2>1. Head(up).location \in Int
    BY <1>2, <1>8, SessionAssumption DEF HandleLocationChecked, TakeReport, Reports
  <2>2. ThreadTypeOK' /\ LocalTypeOK'
    BY <1>4, <1>8, <2>1 DEF HandleLocationChecked
  <2>3. PipeTypeOK'
    BY <1>2, <1>8 DEF HandleLocationChecked, PipeTypeOK
  <2> QED BY <1>8, <2>2, <2>3 DEF HandleLocationChecked, ServerTypeOK,
                                  BridgeTypeOK, DllTypeOK
<1>9. CASE DropLocation
  <2>1. ThreadTypeOK'
    BY <1>0, <1>9, GotoType DEF DropLocation, Labels, PipeLabels
  <2> QED BY <1>9, <2>1 DEF DropLocation, ServerTypeOK, BridgeTypeOK,
                            LocalTypeOK, PipeTypeOK, DllTypeOK
<1>10. CASE MarkSent
  <2>1. ThreadTypeOK'
    BY <1>0, <1>10, GotoType DEF MarkSent, Labels, PipeLabels
  <2>2. BridgeTypeOK'
    BY <1>10 DEF MarkSent, BridgeTypeOK, LocalTypeOK
  <2> QED BY <1>10, <2>1, <2>2 DEF MarkSent, ServerTypeOK, LocalTypeOK,
                                   PipeTypeOK, DllTypeOK
<1>11. CASE LocationChecks
  <2>1. ThreadTypeOK'
    BY <1>0, <1>11, GotoType DEF LocationChecks, Labels, PipeLabels
  <2>2. [cmd |-> "LocationChecks", locations |-> {location}] \in Packets
    BY DEF Packets, LocalTypeOK
  <2>3. toServer' \in Seq(Packets)
    BY <1>11, <2>2, ToServerType DEF LocationChecks, ServerTypeOK
  <2>4. checkQueue' \subseteq Int /\ clientChecked' \subseteq Int
    BY <1>11 DEF LocationChecks, ServerTypeOK, LocalTypeOK
  <2>5. ServerTypeOK'
    BY <1>11, <2>3, <2>4 DEF LocationChecks, ServerTypeOK
  <2> QED BY <1>11, <2>1, <2>5 DEF LocationChecks, BridgeTypeOK, LocalTypeOK,
                                   PipeTypeOK, DllTypeOK
<1>12. CASE TrackChecked
  <2>1. ThreadTypeOK'
    BY <1>0, <1>12, GotoType DEF TrackChecked, Labels, PipeLabels, SendLabels
  <2>2. BridgeTypeOK'
    BY <1>12 DEF TrackChecked, BridgeTypeOK, LocalTypeOK
  <2> QED BY <1>12, <2>1, <2>2 DEF TrackChecked, ServerTypeOK, LocalTypeOK,
                                   PipeTypeOK, DllTypeOK
<1>13. CASE ReportGoal
  <2>1. ThreadTypeOK'
    BY <1>0, <1>13, GotoType DEF ReportGoal, Labels, PipeLabels
  <2>2. toServer' \in Seq(Packets)
    <3>1. [cmd |-> "StatusUpdate"] \in Packets
      BY DEF Packets
    <3> QED BY <1>13, <3>1, ToServerType DEF ReportGoal, ServerTypeOK
  <2>3. ServerTypeOK' /\ LocalTypeOK'
    BY <1>13, <2>2 DEF ReportGoal, ServerTypeOK, LocalTypeOK
  <2> QED BY <1>13, <2>1, <2>3 DEF ReportGoal, BridgeTypeOK, PipeTypeOK,
                                   DllTypeOK
<1> QED BY <1>0, <1>1, <1>3, <1>6, <1>7, <1>8, <1>9, <1>10, <1>11, <1>12,
           <1>13, SendStepType
        DEF PipeStep

\* The main thread keeps every type.
LEMMA MainStepType ==
  ASSUME TypeOK, MainStep
  PROVE  TypeOK'
<1> USE DEF TypeOK
<1>0. "main" \in Threads
  BY DEF Threads
<1>1. CASE SlotSeen
  <2>1. ThreadTypeOK'
    BY <1>0, <1>1, GotoType DEF SlotSeen, Labels, MainLabels
  <2> QED BY <1>1, <2>1 DEF SlotSeen, ServerTypeOK, BridgeTypeOK, LocalTypeOK,
                            PipeTypeOK, DllTypeOK
<1>8. CASE SlotTimeout
  <2>1. ThreadTypeOK'
    BY <1>0, <1>8, GotoType DEF SlotTimeout, Labels, MainLabels
  <2> QED BY <1>8, <2>1 DEF SlotTimeout, ServerTypeOK, BridgeTypeOK,
                            LocalTypeOK, PipeTypeOK, DllTypeOK
<1>2. CASE StartPipe
  <2>1. ThreadTypeOK'
    BY <1>2 DEF StartPipe, ThreadTypeOK, Sending, Threads, Labels, MainLabels,
                PipeLabels, AllLabels
  <2> QED BY <1>2, <2>1 DEF StartPipe, ServerTypeOK, BridgeTypeOK,
                            LocalTypeOK, PipeTypeOK, DllTypeOK
<1>3. CASE SetSendToDll
  <2>1. ThreadTypeOK'
    BY <1>0, <1>3, GotoType DEF SetSendToDll, Labels, MainLabels
  <2>2. BridgeTypeOK'
    BY <1>3 DEF SetSendToDll, BridgeTypeOK
  <2> QED BY <1>3, <2>1, <2>2 DEF SetSendToDll, ServerTypeOK, LocalTypeOK,
                                  PipeTypeOK, DllTypeOK
<1>4. CASE ReplayTier
  <2>1. ThreadTypeOK'
    <3>1. CASE m_skullsanityTier >= 0
      <4>1. m_skullsanityTier \in Nat
        BY <3>1 DEF BridgeTypeOK
      <4>2. "SKULLSANITY" \in Kinds("main")
        BY DEF Kinds
      <4> QED BY <1>0, <1>4, <3>1, <4>1, <4>2, MessageTypes, CallSendType
              DEF ReplayTier
    <3>2. CASE ~(m_skullsanityTier >= 0)
      BY <1>0, <1>4, <3>2, GotoType DEF ReplayTier, Labels, MainLabels
    <3> QED BY <3>1, <3>2
  <2> QED BY <1>4, <2>1 DEF ReplayTier, ServerTypeOK, BridgeTypeOK,
                            LocalTypeOK, PipeTypeOK, DllTypeOK
<1>5. CASE LockBuffer
  <2>1. ThreadTypeOK'
    BY <1>0, <1>5, GotoType DEF LockBuffer, Labels, MainLabels
  <2>2. BridgeTypeOK'
    BY <1>0, <1>5 DEF LockBuffer, BridgeTypeOK
  <2> QED BY <1>5, <2>1, <2>2 DEF LockBuffer, ServerTypeOK, LocalTypeOK,
                                  PipeTypeOK, DllTypeOK
<1>6. CASE ReplayItem
  <2>1. m_itemBuffer[replayed + 1] \in Items
    BY <1>6 DEF ReplayItem, BridgeTypeOK, LocalTypeOK
  <2>2. "ITEM_RECIVED" \in Kinds("main")
    BY DEF Kinds
  <2>3. ThreadTypeOK'
    BY <1>0, <1>6, <2>1, <2>2, MessageTypes, CallSendType DEF ReplayItem
  <2>4. LocalTypeOK'
    BY <1>6 DEF ReplayItem, LocalTypeOK
  <2> QED BY <1>6, <2>3, <2>4 DEF ReplayItem, ServerTypeOK, BridgeTypeOK,
                                  PipeTypeOK, DllTypeOK
<1>7. CASE ReplayDone
  <2>1. ThreadTypeOK'
    BY <1>0, <1>7, GotoType DEF ReplayDone, Labels, MainLabels, SendLabels
  <2> QED BY <1>7, <2>1 DEF ReplayDone, ServerTypeOK, BridgeTypeOK,
                            LocalTypeOK, PipeTypeOK, DllTypeOK
<1> QED BY <1>0, <1>1, <1>2, <1>3, <1>4, <1>5, <1>6, <1>7, <1>8,
           SendStepType
        DEF MainStep

LEMMA RestIsSeq ==
  ASSUME NEW S, NEW s \in Seq(S), Len(s) >= 1
  PROVE  Tail(s) \in Seq(S)
<1>1. s # <<>>
  BY EmptySeq
<1> QED BY <1>1

\* The DLL's reader and sender and the game's hooks keep every type.
LEMMA DllStepType ==
  ASSUME TypeOK, DllConnects \/ DllStep \/ SendReport
  PROVE  TypeOK'
<1> USE DEF TypeOK
<1>1. CASE DllConnects
  BY <1>1 DEF DllConnects, ServerTypeOK, BridgeTypeOK, ThreadTypeOK, Sending,
              LocalTypeOK, PipeTypeOK, DllTypeOK
<1>2. ASSUME LengthRead
      PROVE  down[2] \in Chunks /\ Tail(Tail(down)) \in Seq(Chunks)
  <2>1. down \in Seq(Chunks) /\ Len(down) >= 2
    BY <1>2 DEF LengthRead, PipeTypeOK
  <2>2. down # <<>> /\ down[2] \in Chunks
    BY <2>1
  <2>3. Tail(down) \in Seq(Chunks) /\ Len(Tail(down)) = Len(down) - 1
    BY <2>1, <2>2
  <2>4. Tail(Tail(down)) \in Seq(Chunks)
    <3>1. Len(Tail(down)) >= 1
      BY <2>1, <2>3
    <3> DEFINE rest == Tail(down)
    <3>2. rest \in Seq(Chunks) /\ Len(rest) >= 1
      BY <2>3, <3>1
    <3> HIDE DEF rest
    <3>3. Tail(rest) \in Seq(Chunks)
      BY <3>2, RestIsSeq
    <3> QED BY <3>3 DEF rest
  <2> QED BY <2>2, <2>4
<1>3. CASE ReadMessage
  <2>1. down[2].msg \in Messages /\ PipeTypeOK'
    BY <1>2, <1>3 DEF ReadMessage, Chunks, PipeTypeOK
  <2>2. ASSUME NEW m \in Messages, m.kind = "ITEM_RECIVED", ApplyItem(m.item)
        PROVE  unlocked' \subseteq Missions
                 /\ skulls' \subseteq 0 .. SKULL_DISABLER_COUNT - 1
    <3>1. m.item \in Int
      BY <2>2, SessionAssumption DEF Messages
    <3>2. translateItemToMission(m.item) \in Missions \cup {-1}
      BY <3>1, MissionOfItem
    <3>3. translateItemToSkullDisabler(m.item)
            \in (0 .. SKULL_DISABLER_COUNT - 1) \cup {-1}
      BY <3>1, SkullOfItem
    <3>4. unlocked' \subseteq Missions
      BY <2>2, <3>2 DEF ApplyItem, DllTypeOK
    <3>5. skulls' \subseteq 0 .. SKULL_DISABLER_COUNT - 1
      <4> DEFINE skull == translateItemToSkullDisabler(m.item)
      <4>1. CASE skull >= 0
        <5>1. skull \in 0 .. SKULL_DISABLER_COUNT - 1
          BY <3>3, <4>1 DEF SKULL_DISABLER_COUNT
        <5>2. skulls' = skulls \/ skulls' = skulls \cup {skull}
          BY <2>2 DEF ApplyItem
        <5> HIDE DEF skull
        <5> QED BY <5>1, <5>2 DEF DllTypeOK
      <4>2. CASE ~(skull >= 0)
        BY <2>2, <4>2 DEF ApplyItem, DllTypeOK
      <4> QED BY <4>1, <4>2
    <3> QED BY <3>4, <3>5
  <2>3. ASSUME NEW m \in Messages, HandleMessage(m), UNCHANGED <<dll, gameVars>>
        PROVE  DllTypeOK'
    <3>1. CASE m.kind = "ITEM_RECIVED"
      <4>1. ApplyItem(m.item)
        BY <2>3, <3>1 DEF HandleMessage
      <4> QED BY <2>2, <2>3, <3>1, <4>1 DEF ApplyItem, DllTypeOK
    <3>2. CASE m.kind = "COMPLETED"
      <4>1. m.missions \subseteq Missions
        BY <3>2 DEF Messages
      <4>2. completed' \subseteq Missions
        BY <2>3, <3>2, <4>1, LastMission
           DEF HandleMessage, DecodedCompletions, OverrunCell
      <4> QED BY <2>3, <3>2, <4>2 DEF HandleMessage, DllTypeOK
    <3>3. CASE m.kind = "FINAL_MISSION"
      <4>1. m.mission \in Missions
        BY <3>3 DEF Messages
      <4> QED BY <2>3, <3>3, <4>1 DEF HandleMessage, DllTypeOK
    <3>4. CASE m.kind = "SKULLSANITY"
      <4>1. m.tier \in Nat
        BY <3>4 DEF Messages
      <4> QED BY <2>3, <3>4, <4>1 DEF HandleMessage, DllTypeOK
    <3> QED BY <2>3, <3>1, <3>2, <3>3, <3>4 DEF HandleMessage
  <2>4. DllTypeOK'
    BY <1>3, <2>1, <2>3 DEF ReadMessage
  <2>5. ThreadTypeOK' /\ LocalTypeOK'
    BY <1>3 DEF ReadMessage, ThreadTypeOK, Sending, LocalTypeOK
  <2> QED BY <1>3, <2>1, <2>4, <2>5 DEF ReadMessage, ServerTypeOK, BridgeTypeOK
<1>4. CASE ReadMixedUp
  <2>1. PipeTypeOK' /\ DllTypeOK'
    BY <1>2, <1>4 DEF ReadMixedUp, PipeTypeOK, DllTypeOK
  <2>2. ThreadTypeOK' /\ LocalTypeOK'
    BY <1>4 DEF ReadMixedUp, ThreadTypeOK, Sending, LocalTypeOK
  <2> QED BY <1>4, <2>1, <2>2 DEF ReadMixedUp, ServerTypeOK, BridgeTypeOK
<1>5. CASE SendReport
  <2>1. Head(sendQueue) \in Reports /\ Tail(sendQueue) \in Seq(Reports)
    BY <1>5 DEF SendReport, DllTypeOK
  <2>2. PipeTypeOK' /\ DllTypeOK'
    BY <1>5, <2>1 DEF SendReport, PipeTypeOK, DllTypeOK
  <2>3. ThreadTypeOK' /\ LocalTypeOK'
    BY <1>5 DEF SendReport, ThreadTypeOK, Sending, LocalTypeOK
  <2> QED BY <1>5, <2>2, <2>3 DEF SendReport, ServerTypeOK, BridgeTypeOK
<1> QED BY <1>1, <1>3, <1>4, <1>5 DEF DllStep

LEMMA ReportType ==
  ASSUME TypeOK, NEW report \in Reports, Report(report),
         playing' \in MapCodes, named' \in MapCodes, earned' \subseteq Int,
         mistitled' \subseteq Int, g_quitLockedMission' \in BOOLEAN
  PROVE  TypeOK'
<1>1. DllTypeOK'
  BY DEF Report, TypeOK, DllTypeOK
<1>2. ThreadTypeOK' /\ LocalTypeOK'
  BY DEF Report, TypeOK, ThreadTypeOK, Sending, LocalTypeOK
<1> QED BY <1>1, <1>2 DEF Report, TypeOK, ServerTypeOK, BridgeTypeOK, PipeTypeOK

LEMMA TitleType == \A m, i : TitleOf(m, i) \subseteq Int
BY SessionAssumption DEF TitleOf, Titles

LEMMA GameStepType ==
  ASSUME TypeOK, GameStep
  PROVE  TypeOK'
<1> USE DEF TypeOK
<1>m. Maps \subseteq MapCodes /\ NoMission \in MapCodes /\ OtherMap \in Maps
  BY DEF Maps, MapCodes
<1>1. ASSUME NEW load \in Loads, GameLoads(load[1], load[2]) PROVE TypeOK'
  <2>1. load[1] \in MapCodes
    BY <1>m, SessionAssumption
  <2>2. [kind |-> "MISSION_LOAD",
         mission |-> IF load[2] THEN load[1] ELSE NoMission] \in Reports
    BY <1>m, <2>1, Zenon DEF Reports
  <2>3. playing' \in MapCodes /\ earned' \subseteq Int /\ mistitled' \subseteq Int
    BY <1>1, <2>1 DEF GameLoads, DllTypeOK
  <2>4. named' \in MapCodes
    BY <1>1, <2>1 DEF GameLoads, DllTypeOK
  <2>5. g_quitLockedMission' \in BOOLEAN
    BY <1>1 DEF GameLoads
  <2> QED BY <1>1, <2>2, <2>3, <2>4, <2>5, ReportType DEF GameLoads
<1>2. ASSUME NEW readable \in BOOLEAN, GameWon(readable) PROVE TypeOK'
  <2>1. playing \in Maps
    BY <1>2 DEF GameWon, DllTypeOK, MapCodes
  <2>2. [kind |-> "MISSION_COMPLETE",
         mission |-> IF readable THEN playing ELSE OtherMap] \in Reports
    BY <1>m, <2>1 DEF Reports
  <2>3. earned' \subseteq Int
    <3>1. \A m \in Missions : CompletionLocation(m) \in Int
      BY MissionCountAssumption DEF CompletionLocation, Missions
    <3>2. earned \subseteq Int
      BY DEF DllTypeOK
    <3> QED BY <1>2, <3>1, <3>2 DEF GameWon
  <2>4. /\ playing' = NoMission
        /\ UNCHANGED <<g_quitLockedMission, named, mistitled>>
    BY <1>2 DEF GameWon
  <2>5. /\ playing' \in MapCodes /\ named' \in MapCodes
        /\ mistitled' \subseteq Int /\ g_quitLockedMission' \in BOOLEAN
    BY <1>m, <2>4 DEF DllTypeOK
  <2> QED BY <1>2, <2>2, <2>3, <2>5, ReportType DEF GameWon
<1>3. ASSUME NEW i \in ChapterIndices, ChapterShown(i) PROVE TypeOK'
  <2>1. [kind |-> "CHAPTER", index |-> i] \in Reports
    BY DEF Reports
  <2>2. playing' \in MapCodes /\ named' \in MapCodes
    BY <1>3 DEF ChapterShown, DllTypeOK
  <2>3. earned' \subseteq Int /\ mistitled' \subseteq Int
    BY <1>3, TitleType DEF ChapterShown, DllTypeOK
  <2>4. g_quitLockedMission' \in BOOLEAN
    BY <1>3 DEF ChapterShown, DllTypeOK
  <2> QED BY <1>3, <2>1, <2>2, <2>3, <2>4, ReportType DEF ChapterShown
<1>4. ASSUME NEW loc \in SkullLocations, SkullClaimed(loc) PROVE TypeOK'
  <2>1. [kind |-> "LOCATION_CHECKED", location |-> loc] \in Reports
    BY DEF Reports
  <2>2. /\ playing' \in MapCodes /\ named' \in MapCodes
        /\ earned' \subseteq Int /\ mistitled' \subseteq Int
    BY <1>4, SessionAssumption DEF SkullClaimed, DllTypeOK
  <2>3. g_quitLockedMission' \in BOOLEAN
    BY <1>4 DEF SkullClaimed, DllTypeOK
  <2> QED BY <1>4, <2>1, <2>2, <2>3, ReportType DEF SkullClaimed
<1>5. CASE ShellCommand
  <2>1. playing' \in MapCodes /\ g_quitLockedMission' \in BOOLEAN
    BY <1>m, <1>5 DEF ShellCommand
  <2>2. DllTypeOK'
    BY <1>5, <2>1 DEF ShellCommand, DllTypeOK
  <2>3. ThreadTypeOK' /\ LocalTypeOK'
    BY <1>5 DEF ShellCommand, ThreadTypeOK, Sending, LocalTypeOK
  <2> QED BY <1>5, <2>2, <2>3
          DEF ShellCommand, ServerTypeOK, BridgeTypeOK, PipeTypeOK
<1> QED BY <1>1, <1>2, <1>3, <1>4, <1>5 DEF GameStep

\* The server and the network keep every type.
LEMMA ServerStepType ==
  ASSUME TypeOK,
         ServerReads \/ LinkBreaks \/ \E item \in Items : ServerGrants(item)
  PROVE  TypeOK'
<1> USE DEF TypeOK
<1>1. ASSUME UNCHANGED <<bridge, localVars, threadVars, pipeVars, dllVars>>
      PROVE  /\ BridgeTypeOK' /\ ThreadTypeOK' /\ LocalTypeOK'
             /\ PipeTypeOK' /\ DllTypeOK'
  <2>1. ThreadTypeOK'
    BY <1>1 DEF ThreadTypeOK, Sending
  <2> QED BY <1>1, <2>1 DEF BridgeTypeOK, LocalTypeOK, PipeTypeOK, DllTypeOK
<1>2. CASE ServerReads
  <2>1. Head(toServer) \in Packets /\ Tail(toServer) \in Seq(Packets)
    BY <1>2 DEF ServerReads, ServerTypeOK
  <2>2. Head(toServer).cmd = "LocationChecks"
          => Head(toServer).locations \subseteq Int
    BY <2>1 DEF Packets
  <2>3. ServerTypeOK'
    BY <1>2, <2>1, <2>2 DEF ServerReads, ServerTypeOK
  <2> QED BY <1>1, <1>2, <2>3 DEF ServerReads
<1>3. CASE LinkBreaks
  <2>1. toServer' \in Seq(Packets) /\ fromServer' \in Seq(Seq(Items))
    BY <1>3 DEF LinkBreaks
  <2>2. link' \in BOOLEAN
    BY <1>3 DEF LinkBreaks
  <2>3. breaks' \in Nat
    BY <1>3 DEF LinkBreaks, ServerTypeOK
  <2>4. UNCHANGED <<serverVars, clientVars>>
    BY <1>3 DEF LinkBreaks
  <2>5. ServerTypeOK'
    BY <2>1, <2>2, <2>3, <2>4 DEF ServerTypeOK
  <2> QED BY <1>1, <1>3, <2>5 DEF LinkBreaks
<1>4. ASSUME NEW item \in Items, ServerGrants(item) PROVE TypeOK'
  <2>1. <<item>> \in Seq(Items)
    OBVIOUS
  <2>2. ServerTypeOK'
    BY <1>4, <2>1 DEF ServerGrants, ServerTypeOK
  <2> QED BY <1>1, <1>4, <2>2 DEF ServerGrants
<1> QED BY <1>2, <1>3, <1>4

LEMMA TypeInit == Init => TypeOK
<1> SUFFICES ASSUME Init PROVE TypeOK
  OBVIOUS
<1>1. Locations \subseteq Int
  <2>1. \A m \in Missions : CompletionLocation(m) \in Int
    BY MissionCountAssumption DEF CompletionLocation, Missions
  <2> QED BY <2>1, SessionAssumption DEF Locations
<1>2. ServerTypeOK
  <2>1. PriorChecked \subseteq Int
    BY <1>1, SessionAssumption
  <2>2. /\ srvItems \in Seq(Items) /\ toServer \in Seq(Packets)
        /\ fromServer \in Seq(Seq(Items))
    BY DEF Init
  <2> QED BY <2>1, <2>2 DEF Init, ServerTypeOK
<1>3. BridgeTypeOK
  <2>1. m_itemBuffer \in Seq(Items)
    BY DEF Init
  <2> QED BY <2>1, LastMission DEF Init, BridgeTypeOK, MapCodes
<1>4. ThreadTypeOK
  BY DEF Init, ThreadTypeOK, Sending, Threads, Labels, PollLabels, PipeLabels,
         MainLabels, AllLabels
<1>5. LocalTypeOK /\ PipeTypeOK
  <2>1. todo \in Seq(Items) /\ down \in Seq(Chunks) /\ up \in Seq(Reports)
    BY DEF Init
  <2>2. LocalTypeOK
    BY <2>1 DEF Init, LocalTypeOK
  <2>3. PipeTypeOK
    BY <2>1 DEF Init, PipeTypeOK
  <2> QED BY <2>2, <2>3
<1>6. DllTypeOK
  <2>1. sendQueue \in Seq(Reports)
    BY DEF Init
  <2>2. PriorChecked \subseteq Int
    BY <1>1, SessionAssumption
  <2>3. g_quitLockedMission \in BOOLEAN
    BY DEF Init
  <2> QED BY <2>1, <2>2, <2>3, LastMission DEF Init, DllTypeOK, MapCodes
<1> QED BY <1>2, <1>3, <1>4, <1>5, <1>6 DEF TypeOK

\* Type correctness: in every session, whatever the number of missions, the
\* items, the pipe's capacity and the order of the threads' steps, every
\* variable keeps its type and a thread inside Send has a message of its own.
THEOREM TypeCorrect == Spec => []TypeOK
<1>1. Init => TypeOK
  BY TypeInit
<1>2. TypeOK /\ [Next]_vars => TypeOK'
  <2> SUFFICES ASSUME TypeOK, [Next]_vars PROVE TypeOK'
    OBVIOUS
  <2>1. CASE UNCHANGED vars
    <3>1. ThreadTypeOK'
      BY <2>1 DEF vars, TypeOK, ThreadTypeOK, Sending
    <3> QED BY <2>1, <3>1 DEF vars, TypeOK, ServerTypeOK, BridgeTypeOK,
                              LocalTypeOK, PipeTypeOK, DllTypeOK
  <2> QED BY <2>1, PollStepType, PipeStepType, MainStepType, DllStepType,
             GameStepType, ServerStepType DEF Next
<1> QED BY <1>1, <1>2, PTL DEF Spec

=============================================================================
