---------------------------- MODULE OrderProofs ----------------------------
(***************************************************************************)
(* The completions reach the DLL in order: CompletionChain is inductive,   *)
(* and CompletionsAreChecked and CompletionsNeverRegress follow from it.   *)
(***************************************************************************)
EXTENDS SessionProofs

USE DEF world, serverVars, linkVars, clientVars, bridge, checkedVars,
        bufferVars, slotVars, bridgeVars, localVars, pipeVars, dllVars,
        itemVars, gameVars, threadVars

Recorded == CheckedMissions(m_checkedLocations)

LEMMA ChainInit == Init => CompletionChain
BY DEF Init, CompletionChain, Holding, Sending, CompletedChunks,
       CompletionsAreChecked, Decoded, Threads

-----------------------------------------------------------------------------
(***************************************************************************)
(* Steps that leave the mutex, the recorded locations, the pipe and the    *)
(* DLL's missions alone keep the chain, unless a thread starts to write a  *)
(* completion state.                                                       *)
(***************************************************************************)
QuietWorld == UNCHANGED <<m_checkedMutex, m_checkedLocations, down, completed>>

\* The parts of the chain no thread's place appears in.
ChainParts ==
  /\ \A n \in CompletedChunks : Decoded \subseteq Named(n) /\ Named(n) \subseteq Recorded
  /\ \A i, j \in CompletedChunks : i < j => Named(i) \subseteq Named(j)
  /\ CompletionsAreChecked

LEMMA ChainSplit ==
  CompletionChain <=>
    /\ \A t \in Threads : Holding(t) => m_checkedMutex = t
    /\ \A t \in Threads : Sending(t) /\ msg[t].kind = "COMPLETED" =>
         msg[t].missions = Recorded
    /\ ChainParts
BY DEF CompletionChain, ChainParts, Recorded

LEMMA QuietParts ==
  ASSUME CompletionChain, QuietWorld
  PROVE  ChainParts'
BY ChainSplit DEF QuietWorld, ChainParts, CompletedChunks, Named, Decoded,
   Recorded, CompletionsAreChecked, CheckedMissions

LEMMA ChainKept ==
  ASSUME CompletionChain, ChainParts', UNCHANGED checkedVars,
         \A t \in Threads : Holding(t)' => Holding(t),
         \A t \in Threads : (Sending(t) /\ msg[t].kind = "COMPLETED")' =>
            Sending(t) /\ msg[t].kind = "COMPLETED" /\ msg'[t] = msg[t]
  PROVE  CompletionChain'
<1>1. Recorded' = Recorded
  BY DEF Recorded, CheckedMissions
<1>2. \A t \in Threads : Holding(t)' => m_checkedMutex' = t
  BY ChainSplit
<1>3. \A t \in Threads : (Sending(t) /\ msg[t].kind = "COMPLETED")' =>
        msg'[t].missions = Recorded'
  BY <1>1, ChainSplit
<1> QED BY <1>2, <1>3 DEF CompletionChain, ChainParts, Recorded

LEMMA ChainQuiet ==
  ASSUME CompletionChain, QuietWorld,
         \A t \in Threads : Holding(t)' => Holding(t),
         \A t \in Threads : (Sending(t) /\ msg[t].kind = "COMPLETED")' =>
            Sending(t) /\ msg[t].kind = "COMPLETED" /\ msg'[t] = msg[t]
  PROVE  CompletionChain'
BY QuietParts, ChainKept DEF QuietWorld

LEMMA ChainSameThreads ==
  ASSUME CompletionChain, QuietWorld, UNCHANGED threadVars
  PROVE  CompletionChain'
<1>1. pc' = pc /\ msg' = msg
  OBVIOUS
<1>2. \A t \in Threads : Holding(t)' = Holding(t) /\ Sending(t)' = Sending(t)
  BY <1>1 DEF Holding, Sending
<1> QED BY <1>1, <1>2, ChainQuiet

\* A thread that moves to a place outside Send and the completion state.
LEMMA ChainGoto ==
  ASSUME TypeOK, CompletionChain, QuietWorld, NEW t \in Threads, NEW label,
         label \notin {"send", "body", "finalMission", "unlock"},
         Goto(t, label), UNCHANGED msg
  PROVE  CompletionChain'
<1>1. pc' = [pc EXCEPT ![t] = label] /\ pc \in [Threads -> AllLabels]
  BY DEF Goto, TypeOK, ThreadTypeOK
<1>2. ~Sending(t)' /\ ~Holding(t)'
  BY <1>1 DEF Sending, Holding
<1>3. \A u \in Threads \ {t} : Sending(u)' = Sending(u) /\ Holding(u)' = Holding(u)
  BY <1>1 DEF Sending, Holding
<1> QED BY <1>2, <1>3, ChainQuiet

\* A thread that starts to send a message that is no completion state.
LEMMA ChainCallSend ==
  ASSUME TypeOK, CompletionChain, QuietWorld, NEW t \in Threads, NEW m,
         m.kind \notin CompletionKinds, CallSend(t, m)
  PROVE  CompletionChain'
<1>1. /\ pc' = [pc EXCEPT ![t] = "send"] /\ msg' = [msg EXCEPT ![t] = m]
      /\ pc \in [Threads -> AllLabels]
      /\ msg \in [Threads -> Messages \cup {NoMessage}]
  BY DEF CallSend, TypeOK, ThreadTypeOK
<1>2. msg'[t] = m /\ pc'[t] = "send"
  BY <1>1
<1>3. ~Holding(t)' /\ msg'[t].kind # "COMPLETED"
  BY <1>2 DEF Holding, CompletionKinds
<1>4. \A u \in Threads \ {t} : pc'[u] = pc[u] /\ msg'[u] = msg[u]
  BY <1>1
<1>5. \A u \in Threads \ {t} : Sending(u)' = Sending(u) /\ Holding(u)' = Holding(u)
  BY <1>4 DEF Sending, Holding
<1> QED BY <1>3, <1>4, <1>5, ChainQuiet

-----------------------------------------------------------------------------
(***************************************************************************)
(* Writing: a chunk of a COMPLETED names what is recorded, the most so far.*)
(***************************************************************************)
LEMMA AppendedChunk ==
  ASSUME NEW S, NEW s \in Seq(S), NEW e
  PROVE  /\ Len(Append(s, e)) = Len(s) + 1
         /\ \A n \in 1 .. Len(s) : Append(s, e)[n] = s[n]
         /\ Append(s, e)[Len(s) + 1] = e
OBVIOUS

LEMMA ChainWrite ==
  ASSUME TypeOK, CompletionChain, NEW t \in Threads, NEW part, Sending(t),
         Write(t, part), UNCHANGED <<m_checkedLocations, completed>>
  PROVE  ChainParts'
<1> DEFINE e == [from |-> t, part |-> part, msg |-> msg[t]]
           L == Len(down)
<1>1. down \in Seq(Chunks) /\ down' = Append(down, e)
  BY DEF TypeOK, PipeTypeOK, Write
<1>2. L \in Nat
  BY <1>1
<1>3. /\ Len(down') = L + 1
      /\ \A n \in 1 .. L : down'[n] = down[n]
      /\ down'[L + 1] = e
  BY <1>1, AppendedChunk
<1>4. Recorded' = Recorded /\ Decoded' = Decoded
  BY DEF Recorded, CheckedMissions, Decoded
<1>5. e.msg = msg[t]
  OBVIOUS
<1> HIDE DEF e, L
<1>6. \A n \in CompletedChunks' : n # L + 1 =>
        n \in CompletedChunks /\ Named(n)' = Named(n)
  BY <1>2, <1>3 DEF CompletedChunks, Named, L
<1>7. \A n \in CompletedChunks' : n = L + 1 => Named(n)' = Recorded
  <2> SUFFICES ASSUME NEW n \in CompletedChunks', n = L + 1
               PROVE  Named(n)' = Recorded
    OBVIOUS
  <2>1. down'[n].msg = msg[t]
    BY <1>3, <1>5
  <2>2. msg[t].kind = "COMPLETED"
    BY <2>1 DEF CompletedChunks
  <2>3. msg[t].missions = Recorded
    BY <2>2, ChainSplit
  <2> QED BY <2>1, <2>3 DEF Named
<1>8. Decoded \subseteq Recorded
  BY ChainSplit DEF ChainParts, CompletionsAreChecked, Recorded
<1>9. \A n \in CompletedChunks' :
        Decoded \subseteq Named(n)' /\ Named(n)' \subseteq Recorded
  BY <1>6, <1>7, <1>8, ChainSplit DEF ChainParts
<1>10. \A i, j \in CompletedChunks' : i < j => Named(i)' \subseteq Named(j)'
  <2> SUFFICES ASSUME NEW i \in CompletedChunks', NEW j \in CompletedChunks', i < j
               PROVE  Named(i)' \subseteq Named(j)'
    OBVIOUS
  <2>1. i \in 1 .. L + 1 /\ j \in 1 .. L + 1
    BY <1>3 DEF CompletedChunks
  <2>2. CASE j = L + 1
    BY <1>7, <1>9, <2>2
  <2>3. CASE j # L + 1
    <3>1. i # L + 1
      BY <1>2, <2>1, <2>3
    <3> QED BY <1>6, <2>3, <3>1, ChainSplit DEF ChainParts
  <2> QED BY <2>2, <2>3
<1> QED BY <1>4, <1>8, <1>9, <1>10 DEF ChainParts, CompletionsAreChecked, Recorded

-----------------------------------------------------------------------------
(***************************************************************************)
(* Send and SendCompletionState, by any thread.                            *)
(***************************************************************************)

\* The end of a Send: the thread holds the mutex after it only if it did so.
LEMMA ChainSent ==
  ASSUME TypeOK, CompletionChain, NEW t \in Threads, Sending(t),
         Goto(t, AfterSend(t)), msg' = [msg EXCEPT ![t] = NoMessage],
         UNCHANGED checkedVars, ChainParts'
  PROVE  CompletionChain'
<1>1. /\ pc \in [Threads -> AllLabels]
      /\ msg \in [Threads -> Messages \cup {NoMessage}]
      /\ msg[t].kind \in Kinds(t)
  BY DEF TypeOK, ThreadTypeOK
<1>2. pc'[t] = AfterSend(t) /\ msg'[t] = NoMessage
  BY <1>1 DEF Goto
<1>3. AfterSend(t) \in {"finalMission", "unlock"} =>
        msg[t].kind \in CompletionKinds
  BY <1>1 DEF AfterSend, CompletionKinds, Kinds, Threads
<1>4. AfterSend(t) \notin {"send", "body"}
  BY <1>1 DEF AfterSend
<1>5. ~Sending(t)' /\ (Holding(t)' => Holding(t))
  BY <1>2, <1>3, <1>4 DEF Sending, Holding
<1>6. \A u \in Threads \ {t} : pc'[u] = pc[u] /\ msg'[u] = msg[u]
  BY <1>1 DEF Goto
<1>7. \A u \in Threads \ {t} : Sending(u)' = Sending(u) /\ Holding(u)' = Holding(u)
  BY <1>6 DEF Sending, Holding
<1> QED BY <1>5, <1>6, <1>7, ChainKept

LEMMA SendStepChain ==
  ASSUME TypeOK, CompletionChain, NEW t \in Threads, SendStep(t)
  PROVE  CompletionChain'
<1>1. CASE SendToNobody(t)
  <2>1. QuietWorld
    BY <1>1 DEF SendToNobody, QuietWorld
  <2>2. Sending(t) /\ ChainParts'
    BY <1>1, <2>1, QuietParts DEF SendToNobody, Sending
  <2> QED BY <1>1, <2>2, ChainSent DEF SendToNobody
<1>2. CASE WriteLength(t)
  <2>1. Sending(t) /\ ChainParts'
    BY <1>2, ChainWrite DEF WriteLength, Sending
  <2>2. pc' = [pc EXCEPT ![t] = "body"] /\ msg' = msg /\ pc[t] = "send"
    BY <1>2 DEF WriteLength, Goto
  <2>3. pc \in [Threads -> AllLabels]
    BY DEF TypeOK, ThreadTypeOK
  <2>4. \A u \in Threads : Sending(u)' = Sending(u) /\ Holding(u)' = Holding(u)
    BY <2>2, <2>3 DEF Sending, Holding
  <2> QED BY <1>2, <2>1, <2>2, <2>4, ChainKept DEF WriteLength
<1>3. CASE WriteBody(t)
  <2>1. Sending(t) /\ ChainParts'
    BY <1>3, ChainWrite DEF WriteBody, Sending
  <2> QED BY <1>3, <2>1, ChainSent DEF WriteBody
<1>4. CASE SkipCompletionState(t)
  <2>1. QuietWorld
    BY <1>4 DEF SkipCompletionState, QuietWorld
  <2>2. AfterCompletionState(t) \notin {"send", "body", "finalMission", "unlock"}
    BY DEF AfterCompletionState
  <2> QED BY <1>4, <2>1, <2>2, ChainGoto DEF SkipCompletionState
<1>5. CASE SendCompleted(t)
  <2>1. /\ m_checkedMutex = Nobody /\ m_checkedMutex' = t
        /\ UNCHANGED <<m_checkedLocations, down, completed>>
    BY <1>5 DEF SendCompleted, LockChecked
  <2>2. /\ pc' = [pc EXCEPT ![t] = "send"]
        /\ msg' = [msg EXCEPT ![t] = [kind |-> "COMPLETED", missions |-> Recorded]]
    BY <1>5 DEF SendCompleted, CallSend, Recorded
  <2>3. /\ pc \in [Threads -> AllLabels]
        /\ msg \in [Threads -> Messages \cup {NoMessage}]
    BY DEF TypeOK, ThreadTypeOK
  <2>4. \A u \in Threads : ~Holding(u)
    BY <2>1, ChainSplit DEF Nobody, Threads
  <2>5. \A u \in Threads \ {t} : pc'[u] = pc[u] /\ msg'[u] = msg[u]
    BY <2>2, <2>3
  <2>6. \A u \in Threads \ {t} :
          ~Holding(u)' /\ ~(Sending(u) /\ msg[u].kind = "COMPLETED")'
    BY <2>4, <2>5 DEF Holding, Sending, CompletionKinds
  <2>7. Recorded' = Recorded
    BY <2>1 DEF Recorded, CheckedMissions
  <2>8. msg'[t].missions = Recorded'
    BY <2>2, <2>3, <2>7
  <2>9. ChainParts'
    BY <2>1, ChainSplit DEF ChainParts, CompletedChunks, Named, Decoded,
       Recorded, CompletionsAreChecked, CheckedMissions
  <2> QED BY <2>1, <2>6, <2>8, <2>9 DEF CompletionChain, ChainParts, Recorded
<1>6. CASE SendFinalMission(t)
  <2>1. QuietWorld /\ pc[t] = "finalMission"
    BY <1>6 DEF SendFinalMission, QuietWorld
  <2>2. /\ pc \in [Threads -> AllLabels]
        /\ msg \in [Threads -> Messages \cup {NoMessage}]
    BY DEF TypeOK, ThreadTypeOK
  <2>3. msg'[t].kind = "FINAL_MISSION"
    BY <1>6, <2>2 DEF SendFinalMission, CallSend
  <2>4. \A u \in Threads \ {t} : pc'[u] = pc[u] /\ msg'[u] = msg[u]
    BY <1>6, <2>2 DEF SendFinalMission, CallSend
  <2>5. \A u \in Threads \ {t} :
          Sending(u)' = Sending(u) /\ Holding(u)' = Holding(u)
    BY <2>4 DEF Sending, Holding
  <2>6. Holding(t) /\ ~(Sending(t) /\ msg[t].kind = "COMPLETED")'
    BY <2>1, <2>3 DEF Holding
  <2> QED BY <2>1, <2>4, <2>5, <2>6, ChainQuiet
<1>7. CASE ReleaseChecked(t)
  <2>1. /\ pc[t] = "unlock" /\ UNCHANGED <<m_checkedLocations, down, completed, msg>>
        /\ Goto(t, AfterCompletionState(t))
    BY <1>7 DEF ReleaseChecked
  <2>2. pc \in [Threads -> AllLabels]
    BY DEF TypeOK, ThreadTypeOK
  <2>3. m_checkedMutex = t
    BY <2>1, ChainSplit DEF Holding
  <2>4. \A u \in Threads \ {t} : ~Holding(u) /\ pc'[u] = pc[u]
    BY <2>1, <2>2, <2>3, ChainSplit DEF Goto
  <2>5. \A u \in Threads \ {t} : ~Holding(u)'
    BY <2>1, <2>4 DEF Holding, Sending
  <2>6. pc'[t] \notin {"send", "body", "finalMission", "unlock"}
    BY <2>1, <2>2 DEF Goto, AfterCompletionState
  <2>7. ~Holding(t)' /\ ~Sending(t)'
    BY <2>6 DEF Holding, Sending
  <2>8. \A u \in Threads \ {t} : ~(Sending(u) /\ msg[u].kind = "COMPLETED")'
    BY <2>5 DEF Holding, CompletionKinds
  <2>9. ChainParts'
    BY <2>1, ChainSplit DEF ChainParts, CompletedChunks, Named, Decoded,
       Recorded, CompletionsAreChecked, CheckedMissions
  <2> QED BY <2>5, <2>7, <2>8, <2>9 DEF CompletionChain, ChainParts, Recorded
<1> QED BY <1>1, <1>2, <1>3, <1>4, <1>5, <1>6, <1>7 DEF SendStep

-----------------------------------------------------------------------------
(***************************************************************************)
(* The threads' other steps.                                               *)
(***************************************************************************)

\* Recording locations, under the mutex: nobody is writing a completion state.
LEMMA ChainRecord ==
  ASSUME TypeOK, CompletionChain, NEW t \in Threads, NEW label,
         label \notin {"send", "body", "finalMission", "unlock"},
         Goto(t, label), m_checkedMutex = Nobody,
         m_checkedLocations \subseteq m_checkedLocations',
         UNCHANGED <<m_checkedMutex, msg, down, completed>>
  PROVE  CompletionChain'
<1>1. pc \in [Threads -> AllLabels]
  BY DEF TypeOK, ThreadTypeOK
<1>2. \A u \in Threads : ~Holding(u)
  BY ChainSplit DEF Nobody, Threads
<1>3. pc'[t] = label /\ \A u \in Threads \ {t} : pc'[u] = pc[u]
  BY <1>1 DEF Goto
<1>4. \A u \in Threads : ~Holding(u)'
  BY <1>2, <1>3 DEF Holding, Sending
<1>5. \A u \in Threads : ~(Sending(u) /\ msg[u].kind = "COMPLETED")'
  BY <1>4 DEF Holding, CompletionKinds
<1>6. Recorded \subseteq Recorded'
  BY DEF Recorded, CheckedMissions
<1>7. ChainParts'
  <2>1. CompletedChunks' = CompletedChunks /\ Decoded' = Decoded
    BY DEF CompletedChunks, Decoded
  <2>2. \A n \in CompletedChunks : Named(n)' = Named(n)
    BY DEF Named
  <2> QED BY <1>6, <2>1, <2>2, ChainSplit
          DEF ChainParts, CompletionsAreChecked, Recorded
<1> QED BY <1>4, <1>5, <1>7 DEF CompletionChain, ChainParts, Recorded

LEMMA PollStepChain ==
  ASSUME TypeOK, CompletionChain, PollStep
  PROVE  CompletionChain'
<1>0. "poll" \in Threads
  BY DEF Threads
<1>1. CASE SlotConnected
  BY <1>0, <1>1, ChainGoto DEF SlotConnected, QuietWorld
<1>2. CASE MergeChecked
  BY <1>0, <1>2, ChainRecord DEF MergeChecked
<1>3. CASE ReadSlotData
  BY <1>0, <1>3, ChainGoto DEF ReadSlotData, QuietWorld
<1>4. CASE SocketClosed
  BY <1>0, <1>4, ChainGoto DEF SocketClosed, QuietWorld
<1>5. CASE SocketDisconnected
  BY <1>0, <1>5, ChainGoto DEF SocketDisconnected, QuietWorld
<1>6. CASE ItemsReceived
  BY <1>0, <1>6, ChainGoto DEF ItemsReceived, QuietWorld
<1>7. CASE BufferItem
  BY <1>0, <1>7, ChainCallSend DEF BufferItem, QuietWorld, CompletionKinds
<1>8. CASE ItemsDone
  BY <1>0, <1>8, ChainGoto DEF ItemsDone, QuietWorld
<1> QED BY <1>0, <1>1, <1>2, <1>3, <1>4, <1>5, <1>6, <1>7, <1>8, SendStepChain
        DEF PollStep

LEMMA PipeStepChain ==
  ASSUME TypeOK, CompletionChain, PipeStep
  PROVE  CompletionChain'
<1>0. "pipe" \in Threads
  BY DEF Threads
<1>1. CASE PipeAccepts
  BY <1>0, <1>1, ChainGoto DEF PipeAccepts, QuietWorld
<1>2. CASE HandleMissionLoad
  BY <1>2, ChainSameThreads DEF HandleMissionLoad, QuietWorld
<1>3. ASSUME NEW loc, NEW mission, BeginSendLocation(loc, mission), UNCHANGED msg,
             QuietWorld
      PROVE  CompletionChain'
  BY <1>0, <1>3, ChainGoto DEF BeginSendLocation
<1>4. CASE HandleMissionComplete
  <2>1. QuietWorld /\ UNCHANGED msg
    BY <1>4 DEF HandleMissionComplete, QuietWorld
  <2>2. CASE Head(up).mission \in Missions
    BY <1>3, <1>4, <2>1, <2>2 DEF HandleMissionComplete
  <2>3. CASE Head(up).mission \notin Missions
    BY <1>4, <2>1, <2>3, ChainSameThreads DEF HandleMissionComplete
  <2> QED BY <2>2, <2>3
<1>5. CASE HandleChapter
  <2>1. QuietWorld /\ UNCHANGED msg
    BY <1>5 DEF HandleChapter, QuietWorld
  <2> DEFINE known == <<m_mission, Head(up).index>> \in DOMAIN ChapterLocation
  <2>2. CASE known
    BY <1>3, <1>5, <2>1, <2>2 DEF HandleChapter
  <2>3. CASE ~known
    BY <1>5, <2>1, <2>3, ChainSameThreads DEF HandleChapter
  <2> QED BY <2>2, <2>3
<1>6. CASE HandleLocationChecked
  <2>1. QuietWorld /\ UNCHANGED msg
    BY <1>6 DEF HandleLocationChecked, QuietWorld
  <2> QED BY <1>3, <1>6, <2>1 DEF HandleLocationChecked
<1>7. CASE DropLocation
  BY <1>0, <1>7, ChainGoto DEF DropLocation, QuietWorld
<1>8. CASE MarkSent
  BY <1>0, <1>8, ChainGoto DEF MarkSent, QuietWorld
<1>9. CASE LocationChecks
  BY <1>0, <1>9, ChainGoto DEF LocationChecks, QuietWorld
<1>10. CASE TrackChecked
  BY <1>0, <1>10, ChainRecord DEF TrackChecked
<1>11. CASE ReportGoal
  BY <1>0, <1>11, ChainGoto DEF ReportGoal, QuietWorld
<1> QED BY <1>0, <1>1, <1>2, <1>4, <1>5, <1>6, <1>7, <1>8, <1>9, <1>10, <1>11,
           SendStepChain DEF PipeStep

LEMMA MainStepChain ==
  ASSUME TypeOK, CompletionChain, MainStep
  PROVE  CompletionChain'
<1>0. "main" \in Threads
  BY DEF Threads
<1>1. CASE SlotSeen
  BY <1>0, <1>1, ChainGoto DEF SlotSeen, QuietWorld
<1>2. CASE SlotTimeout
  BY <1>0, <1>2, ChainGoto DEF SlotTimeout, QuietWorld
<1>3. CASE StartPipe
  <2>1. pc' = [pc EXCEPT !["main"] = "setSend", !["pipe"] = "listening"]
    BY <1>3 DEF StartPipe
  <2>2. pc \in [Threads -> AllLabels] /\ UNCHANGED msg /\ QuietWorld
    BY <1>3 DEF StartPipe, TypeOK, ThreadTypeOK, QuietWorld
  <2>3. \A t \in Threads :
          pc'[t] = pc[t] \/ pc'[t] \notin {"send", "body", "finalMission", "unlock"}
    BY <2>1, <2>2 DEF Threads
  <2>4. \A t \in Threads :
          (Sending(t)' => Sending(t)) /\ (Holding(t)' => Holding(t))
    BY <2>2, <2>3 DEF Sending, Holding
  <2> QED BY <2>2, <2>4, ChainQuiet
<1>4. CASE SetSendToDll
  BY <1>0, <1>4, ChainGoto DEF SetSendToDll, QuietWorld
<1>5. CASE ReplayTier
  <2>1. QuietWorld
    BY <1>5 DEF ReplayTier, QuietWorld
  <2>2. CASE m_skullsanityTier >= 0
    BY <1>0, <1>5, <2>1, <2>2, ChainCallSend DEF ReplayTier, CompletionKinds
  <2>3. CASE ~(m_skullsanityTier >= 0)
    BY <1>0, <1>5, <2>1, <2>3, ChainGoto DEF ReplayTier
  <2> QED BY <2>2, <2>3
<1>6. CASE LockBuffer
  BY <1>0, <1>6, ChainGoto DEF LockBuffer, QuietWorld
<1>7. CASE ReplayItem
  BY <1>0, <1>7, ChainCallSend DEF ReplayItem, QuietWorld, CompletionKinds
<1>8. CASE ReplayDone
  BY <1>0, <1>8, ChainGoto DEF ReplayDone, QuietWorld
<1> QED BY <1>0, <1>1, <1>2, <1>3, <1>4, <1>5, <1>6, <1>7, <1>8, SendStepChain
        DEF MainStep

-----------------------------------------------------------------------------
(***************************************************************************)
(* The DLL's reader takes two chunks; what follows them moves up by two.   *)
(***************************************************************************)
LEMMA RestByTwo ==
  ASSUME NEW S, NEW s \in Seq(S), Len(s) >= 2
  PROVE  /\ Len(Tail(Tail(s))) = Len(s) - 2
         /\ \A n \in 1 .. Len(s) - 2 : Tail(Tail(s))[n] = s[n + 2]
<1>1. s # <<>>
  BY EmptySeq
<1>2. /\ Tail(s) \in Seq(S) /\ Len(Tail(s)) = Len(s) - 1
      /\ \A n \in 1 .. Len(s) - 1 : Tail(s)[n] = s[n + 1]
  BY <1>1
<1> DEFINE r == Tail(s)
<1>3. r \in Seq(S) /\ Len(r) = Len(s) - 1 /\ Len(r) >= 1
  BY <1>2
<1>4. \A n \in 1 .. Len(s) - 1 : r[n] = s[n + 1]
  BY <1>2
<1> HIDE DEF r
<1>5. r # <<>>
  BY <1>3, EmptySeq
<1>6. Len(Tail(r)) = Len(r) - 1 /\ \A n \in 1 .. Len(r) - 1 : Tail(r)[n] = r[n + 1]
  BY <1>3, <1>5
<1>7. Len(Tail(r)) = Len(s) - 2
  BY <1>3, <1>6
<1>8. \A n \in 1 .. Len(s) - 2 : Tail(r)[n] = s[n + 2]
  <2> SUFFICES ASSUME NEW n \in 1 .. Len(s) - 2 PROVE Tail(r)[n] = s[n + 2]
    OBVIOUS
  <2>1. Tail(r)[n] = r[n + 1] /\ n + 1 \in 1 .. Len(s) - 1
    BY <1>3, <1>6
  <2>2. r[n + 1] = s[(n + 1) + 1] /\ (n + 1) + 1 = n + 2
    BY <1>4, <2>1
  <2> QED BY <2>1, <2>2
<1> QED BY <1>7, <1>8 DEF r

LEMMA ChainRead ==
  ASSUME TypeOK, CompletionChain, Len(down) >= 2, down' = Tail(Tail(down)),
         UNCHANGED <<checkedVars, threadVars>>,
         \/ completed' = completed
         \/ /\ 2 \in CompletedChunks
            /\ completed' \in DecodedCompletions(Named(2))
  PROVE  CompletionChain'
<1>1. down \in Seq(Chunks)
  BY DEF TypeOK, PipeTypeOK
<1>2. Len(down) \in Nat
  BY <1>1
<1>3. Len(down') = Len(down) - 2
  BY <1>1, RestByTwo
<1>4. \A n \in 1 .. Len(down) - 2 : down'[n] = down[n + 2]
  BY <1>1, RestByTwo
<1>5. \A n \in CompletedChunks' :
        /\ n \in Nat /\ n >= 1 /\ n + 2 \in CompletedChunks
        /\ Named(n)' = Named(n + 2)
  BY <1>2, <1>3, <1>4 DEF CompletedChunks, Named
<1>6. Recorded' = Recorded
  BY DEF Recorded, CheckedMissions
<1>7. ChainParts
  BY ChainSplit
<1>8. /\ Decoded' \subseteq Recorded
      /\ \A n \in CompletedChunks' : Decoded' \subseteq Named(n + 2)
  <2>1. CASE completed' = completed
    <3>1. Decoded' = Decoded
      BY <2>1 DEF Decoded
    <3> QED BY <1>5, <1>7, <3>1 DEF ChainParts, CompletionsAreChecked, Recorded
  <2>2. CASE /\ 2 \in CompletedChunks
             /\ completed' \in DecodedCompletions(Named(2))
    <3>1. Decoded' \subseteq Named(2)
      BY <2>2 DEF Decoded, DecodedCompletions
    <3>2. \A n \in CompletedChunks' : Named(2) \subseteq Named(n + 2)
      <4> SUFFICES ASSUME NEW n \in CompletedChunks' PROVE Named(2) \subseteq Named(n + 2)
        OBVIOUS
      <4>1. 2 < n + 2 /\ n + 2 \in CompletedChunks
        BY <1>5
      <4> QED BY <1>7, <2>2, <4>1 DEF ChainParts
    <3>3. Named(2) \subseteq Recorded
      BY <1>7, <2>2 DEF ChainParts
    <3> QED BY <3>1, <3>2, <3>3
  <2> QED BY <2>1, <2>2
<1>9. \A i, j \in CompletedChunks' : i < j => Named(i)' \subseteq Named(j)'
  <2> SUFFICES ASSUME NEW i \in CompletedChunks', NEW j \in CompletedChunks', i < j
               PROVE  Named(i)' \subseteq Named(j)'
    OBVIOUS
  <2>1. i + 2 < j + 2
    BY <1>5
  <2>2. Named(i + 2) \subseteq Named(j + 2)
    BY <1>5, <1>7, <2>1 DEF ChainParts
  <2> QED BY <1>5, <2>2
<1>10. \A n \in CompletedChunks' :
         Decoded' \subseteq Named(n)' /\ Named(n)' \subseteq Recorded'
  <2> SUFFICES ASSUME NEW n \in CompletedChunks'
               PROVE  Decoded' \subseteq Named(n)' /\ Named(n)' \subseteq Recorded'
    OBVIOUS
  <2>1. Named(n + 2) \subseteq Recorded
    BY <1>5, <1>7 DEF ChainParts
  <2> QED BY <1>5, <1>6, <1>8, <2>1
<1>11. ChainParts'
  BY <1>6, <1>8, <1>9, <1>10 DEF ChainParts, CompletionsAreChecked, Recorded
<1>12. \A t \in Threads : Sending(t)' = Sending(t) /\ Holding(t)' = Holding(t)
  BY DEF Sending, Holding
<1> QED BY <1>11, <1>12, ChainKept

LEMMA DllStepChain ==
  ASSUME TypeOK, CompletionChain, DllConnects \/ DllStep \/ SendReport \/ GameStep
  PROVE  CompletionChain'
<1>1. CASE DllConnects
  BY <1>1, ChainSameThreads DEF DllConnects, QuietWorld
<1>2. CASE ReadMessage
  <2>1. /\ Len(down) >= 2 /\ down' = Tail(Tail(down))
        /\ UNCHANGED <<checkedVars, threadVars>> /\ HandleMessage(down[2].msg)
    BY <1>2 DEF ReadMessage, LengthRead
  <2>2. \/ completed' = completed
        \/ /\ 2 \in CompletedChunks
           /\ completed' \in DecodedCompletions(Named(2))
    <3>1. Len(down) \in Nat
      BY DEF TypeOK, PipeTypeOK
    <3>2. 2 \in 1 .. Len(down)
      BY <2>1, <3>1
    <3> QED BY <2>1, <3>2
            DEF HandleMessage, ApplyItem, CompletedChunks, Named
  <2> QED BY <2>1, <2>2, ChainRead
<1>3. CASE ReadMixedUp
  BY <1>3, ChainRead DEF ReadMixedUp, LengthRead
<1>4. CASE SendReport
  BY <1>4, ChainSameThreads DEF SendReport, QuietWorld
<1>5. ASSUME NEW report, Report(report) PROVE CompletionChain'
  BY <1>5, ChainSameThreads DEF Report, QuietWorld
<1>6. CASE GameStep
  <2>1. CASE ShellCommand
    BY <2>1, ChainSameThreads DEF ShellCommand, QuietWorld
  <2> QED BY <1>5, <1>6, <2>1
          DEF GameStep, GameLoads, GameWon, ChapterShown, SkullClaimed
<1> QED BY <1>1, <1>2, <1>3, <1>4, <1>6 DEF DllStep

LEMMA ServerStepChain ==
  ASSUME CompletionChain,
         ServerReads \/ LinkBreaks \/ \E item \in Items : ServerGrants(item)
  PROVE  CompletionChain'
<1>1. QuietWorld /\ UNCHANGED threadVars
  BY DEF ServerReads, LinkBreaks, ServerGrants, QuietWorld
<1> QED BY <1>1, ChainSameThreads

-----------------------------------------------------------------------------
\* The chain of completions: in every session, from any of the three threads
\* that call SendCompletionState and at any point of their writes, the mutex
\* keeps the COMPLETED messages in the order of the sets they carry.
THEOREM ChainHolds == Spec => []CompletionChain
<1>1. Init => CompletionChain
  BY ChainInit
<1>2. TypeOK /\ CompletionChain /\ [Next]_vars => CompletionChain'
  <2> SUFFICES ASSUME TypeOK, CompletionChain, [Next]_vars PROVE CompletionChain'
    OBVIOUS
  <2>1. CASE UNCHANGED vars
    BY <2>1, ChainSameThreads DEF vars, QuietWorld
  <2> QED BY <2>1, PollStepChain, PipeStepChain, MainStepChain, DllStepChain,
             ServerStepChain DEF Next
<1> QED BY <1>1, <1>2, TypeCorrect, PTL DEF Spec

\* The DLL never holds a mission for completed that the bridge has not
\* recorded (CompletionsAreChecked), for any number of missions.
THEOREM CompletionsChecked == Spec => []CompletionsAreChecked
<1>1. CompletionChain => CompletionsAreChecked
  BY DEF CompletionChain
<1> QED BY <1>1, ChainHolds, PTL

\* Only the DLL's reader writes m_missionCompleted.
LEMMA OnlyReadMessage ==
  ASSUME Next, ~ReadMessage
  PROVE  completed' = completed
<1>1. ASSUME NEW t \in Threads, SendStep(t) PROVE completed' = completed
  BY <1>1 DEF SendStep, SendToNobody, WriteLength, WriteBody,
     SkipCompletionState, SendCompleted, SendFinalMission, ReleaseChecked
<1>2. CASE PollStep
  BY <1>1, <1>2 DEF PollStep, Threads, SlotConnected, MergeChecked, ReadSlotData,
     SocketClosed, SocketDisconnected, ItemsReceived, BufferItem, ItemsDone
<1>3. CASE PipeStep
  BY <1>1, <1>3 DEF PipeStep, Threads, PipeAccepts, HandleMissionLoad,
     HandleMissionComplete, HandleChapter, HandleLocationChecked, DropLocation,
     MarkSent, LocationChecks, TrackChecked, ReportGoal
<1>4. CASE MainStep
  BY <1>1, <1>4 DEF MainStep, Threads, SlotSeen, SlotTimeout, StartPipe,
     SetSendToDll, ReplayTier, LockBuffer, ReplayItem, ReplayDone
<1>5. CASE DllConnects \/ ReadMixedUp \/ SendReport
  BY <1>5 DEF DllConnects, ReadMixedUp, SendReport
<1>6. CASE GameStep
  BY <1>6 DEF GameStep, GameLoads, GameWon, ChapterShown, SkullClaimed,
     ShellCommand, Report
<1>7. CASE ServerReads \/ LinkBreaks \/ \E item \in Items : ServerGrants(item)
  BY <1>7 DEF ServerReads, LinkBreaks, ServerGrants
<1> QED BY <1>2, <1>3, <1>4, <1>5, <1>6, <1>7 DEF Next, DllStep

\* A completion the DLL has decoded is never taken back by a later COMPLETED.
THEOREM CompletionsKept == Spec => CompletionsNeverRegress
<1>1. TypeOK /\ CompletionChain /\ [Next]_vars => [Decoded \subseteq completed']_vars
  <2> SUFFICES ASSUME TypeOK, CompletionChain, Next
               PROVE  Decoded \subseteq completed'
    BY DEF Decoded
  <2>1. CASE ReadMessage
    <3>1. CASE down[2].msg.kind = "COMPLETED"
      <4>1. 2 \in CompletedChunks
        BY <2>1, <3>1 DEF ReadMessage, LengthRead, CompletedChunks, TypeOK, PipeTypeOK
      <4>2. Decoded \subseteq Named(2)
        BY <4>1, ChainSplit DEF ChainParts
      <4>3. completed' \in DecodedCompletions(Named(2))
        BY <2>1, <3>1 DEF ReadMessage, HandleMessage, Named
      <4> QED BY <4>2, <4>3 DEF DecodedCompletions
    <3>2. CASE down[2].msg.kind # "COMPLETED"
      BY <2>1, <3>2 DEF ReadMessage, HandleMessage, ApplyItem, Decoded
    <3> QED BY <3>1, <3>2
  <2>2. CASE ~ReadMessage
    <3>1. completed' = completed
      BY <2>2, OnlyReadMessage
    <3> QED BY <3>1 DEF Decoded
  <2> QED BY <2>1, <2>2
<1> QED BY <1>1, TypeCorrect, ChainHolds, PTL DEF Spec, CompletionsNeverRegress

=============================================================================
