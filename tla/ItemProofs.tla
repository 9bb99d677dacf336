---------------------------- MODULE ItemProofs ----------------------------
(***************************************************************************)
(* What passes through the session arrives or is still on its way.  No     *)
(* item is lost between the replay by main and the forwarding by the poll  *)
(* thread: whatever the buffer holds and main has passed was applied by    *)
(* the DLL or is in a message on its way, and such a message arrives with  *)
(* the length it was announced by.  On an unbroken connection no earned    *)
(* location and no goal is forgotten on its way up, and no recorded        *)
(* completion on its way down.  And the DLL's reader leaves its loop only  *)
(* where the lengths of two threads met.                                   *)
(***************************************************************************)
EXTENDS CreditProofs

USE DEF world, serverVars, linkVars, clientVars, bridge, checkedVars,
        bufferVars, slotVars, bridgeVars, localVars, pipeVars, dllVars,
        itemVars, gameVars, threadVars

\* Before place n of the stream s thread t wrote the length of m, and nothing
\* since.
Announced(s, n, t, m) ==
  \E k \in 1 .. n - 1 :
    /\ s[k].part = "length" /\ s[k].from = t /\ s[k].msg = m
    /\ \A j \in k + 1 .. n - 1 : s[j].from # t

\* A body in the pipe follows its own length.
Paired ==
  \A n \in 1 .. Len(down) :
    down[n].part = "body" => Announced(down, n, down[n].from, down[n].msg)

\* A thread that has still to write a body wrote its length last.
Open ==
  \A t \in Threads :
    pc[t] = "body" => Announced(down, Len(down) + 1, t, msg[t])

\* Where main is: without a connection, with the buffer still to be replayed,
\* replaying it, past the replay.
NoPipeYet == {"waitSlot", "startPipe", "setSend", "exited"}

Before == \/ pc["main"] \in {"waitSlot", "startPipe", "setSend", "waitDll",
                             "lockBuffer"}
          \/ Sending("main") /\ msg["main"].kind = "SKULLSANITY"

Replaying == \/ pc["main"] = "replay"
             \/ Sending("main") /\ msg["main"].kind = "ITEM_RECIVED"

After == \/ pc["main"] \in {"completionState", "finalMission", "unlock", "monitor"}
         \/ Sending("main") /\ msg["main"].kind \in CompletionKinds

Connected ==
  /\ pc["main"] \notin NoPipeYet => m_sendToDll
  /\ pc["main"] \notin NoPipeYet \cup {"waitDll"} => pipeConnected
  /\ pipeConnected => dll # "absent"

Carried(item) ==
  \/ \E t \in Threads : Carries(msg[t], item)
  \/ \E n \in 1 .. Len(down) : Carries(down[n].msg, item)

Reached(item) == Applied(item) \/ Carried(item)

Elements(s) == {s[n] : n \in 1 .. Len(s)}
ElementsOfAll(ss) == UNION {Elements(ss[n]) : n \in 1 .. Len(ss)}

\* The items the launcher has or is about to receive.
Received == ElementsOfAll(fromServer) \cup Elements(todo) \cup Elements(m_itemBuffer)

\* Between two messages a thread holds none, between two callbacks no items,
\* and before the replay none has been replayed.
MessageTidy == \A t \in Threads : ~Sending(t) => msg[t] = NoMessage

\* The pipe thread begins after main has seen the slot.
NotStarted == pc["main"] \in {"waitSlot", "startPipe"} => pc["pipe"] = "notStarted"

TodoTidy ==
  todo # <<>> => \/ pc["poll"] = "items"
                 \/ Sending("poll") /\ msg["poll"].kind = "ITEM_RECIVED"

ReplayTidy ==
  /\ replayed <= Len(m_itemBuffer)
  /\ Before => replayed = 0

PhaseInv == Connected /\ MessageTidy /\ NotStarted /\ TodoTidy /\ ReplayTidy

\* The items main has replayed, or would have.
Delivered ==
  /\ Replaying => \A n \in 1 .. replayed : Reached(m_itemBuffer[n])
  /\ After => \A n \in 1 .. Len(m_itemBuffer) : Reached(m_itemBuffer[n])

ReceivedInv == link => Granted \subseteq Received
PairInv == dll # "dead" => Paired /\ Open
ReplayInv == dll # "dead" => Delivered

-----------------------------------------------------------------------------
(***************************************************************************)
(* Sequences as sets.                                                      *)
(***************************************************************************)
LEMMA ElementsAppend ==
  ASSUME NEW S, NEW s \in Seq(S), NEW e
  PROVE  Elements(Append(s, e)) = Elements(s) \cup {e}
<1> DEFINE t == Append(s, e)
<1>1. /\ Len(t) = Len(s) + 1 /\ Len(s) \in Nat
      /\ \A n \in 1 .. Len(s) : t[n] = s[n]
      /\ t[Len(s) + 1] = e
  BY AppendedChunk
<1> HIDE DEF t
<1> QED BY <1>1 DEF Elements, t

LEMMA ElementsTail ==
  ASSUME NEW S, NEW s \in Seq(S), s # <<>>
  PROVE  Elements(s) = {Head(s)} \cup Elements(Tail(s))
<1> DEFINE t == Tail(s)
<1>1. /\ Len(t) = Len(s) - 1 /\ Len(s) \in Nat \ {0} /\ Head(s) = s[1]
      /\ \A n \in 1 .. Len(s) - 1 : t[n] = s[n + 1]
  BY RestOfStream
<1> HIDE DEF t
<1>2. ASSUME NEW n \in 1 .. Len(s) PROVE s[n] \in {Head(s)} \cup Elements(t)
  <2>1. CASE n = 1
    BY <1>1, <2>1
  <2>2. CASE n # 1
    <3>1. n - 1 \in 1 .. Len(t) /\ t[n - 1] = s[(n - 1) + 1] /\ (n - 1) + 1 = n
      BY <1>1, <2>2
    <3> QED BY <3>1 DEF Elements
  <2> QED BY <2>1, <2>2
<1>3. \A n \in 1 .. Len(t) : n + 1 \in 1 .. Len(s) /\ t[n] = s[n + 1]
  BY <1>1
<1>4. 1 \in 1 .. Len(s)
  BY <1>1
<1> QED BY <1>1, <1>2, <1>3, <1>4 DEF Elements, t

LEMMA ElementsOfAllAppend ==
  ASSUME NEW S, NEW ss \in Seq(S), NEW s
  PROVE  ElementsOfAll(Append(ss, s)) = ElementsOfAll(ss) \cup Elements(s)
<1> DEFINE t == Append(ss, s)
<1>1. /\ Len(t) = Len(ss) + 1 /\ Len(ss) \in Nat
      /\ \A n \in 1 .. Len(ss) : t[n] = ss[n]
      /\ t[Len(ss) + 1] = s
  BY AppendedChunk
<1> HIDE DEF t
<1>2. ASSUME NEW x PROVE x \in ElementsOfAll(t) <=> x \in ElementsOfAll(ss) \cup Elements(s)
  <2>1. x \in ElementsOfAll(t) <=> \E n \in 1 .. Len(t) : x \in Elements(t[n])
    BY DEF ElementsOfAll
  <2>2. x \in ElementsOfAll(ss) <=> \E n \in 1 .. Len(ss) : x \in Elements(ss[n])
    BY DEF ElementsOfAll
  <2>3. (\E n \in 1 .. Len(t) : x \in Elements(t[n]))
          <=> (\E n \in 1 .. Len(ss) : x \in Elements(ss[n])) \/ x \in Elements(s)
    <3>1. \A n \in 1 .. Len(t) : n \in 1 .. Len(ss) \/ n = Len(ss) + 1
      BY <1>1
    <3>2. Len(ss) + 1 \in 1 .. Len(t) /\ \A n \in 1 .. Len(ss) : n \in 1 .. Len(t)
      BY <1>1
    <3> QED BY <1>1, <3>1, <3>2
  <2> QED BY <2>1, <2>2, <2>3
<1> QED BY <1>2 DEF t

LEMMA ElementsOfAllTail ==
  ASSUME NEW S, NEW ss \in Seq(S), ss # <<>>
  PROVE  ElementsOfAll(ss) \subseteq Elements(Head(ss)) \cup ElementsOfAll(Tail(ss))
<1> DEFINE t == Tail(ss)
<1>1. /\ Len(t) = Len(ss) - 1 /\ Len(ss) \in Nat \ {0} /\ Head(ss) = ss[1]
      /\ \A n \in 1 .. Len(ss) - 1 : t[n] = ss[n + 1]
  BY RestOfStream
<1> HIDE DEF t
<1>2. ASSUME NEW n \in 1 .. Len(ss), NEW x \in Elements(ss[n])
      PROVE  x \in Elements(Head(ss)) \cup ElementsOfAll(t)
  <2>1. CASE n = 1
    BY <1>1, <2>1
  <2>2. CASE n # 1
    <3>1. n - 1 \in 1 .. Len(t) /\ t[n - 1] = ss[(n - 1) + 1] /\ (n - 1) + 1 = n
      BY <1>1, <2>2
    <3>2. x \in Elements(t[n - 1])
      BY <3>1
    <3> QED BY <3>1, <3>2 DEF ElementsOfAll
  <2> QED BY <2>1, <2>2
<1> QED BY <1>2 DEF ElementsOfAll, t

-----------------------------------------------------------------------------
(***************************************************************************)
(* Where the threads are.  What another thread does leaves main alone.     *)
(***************************************************************************)
MainStays == /\ pc'["main"] = pc["main"] /\ msg'["main"] = msg["main"]
             /\ UNCHANGED <<replayed, m_sendToDll>>

LEMMA SendStepStays ==
  ASSUME TypeOK, NEW t \in Threads, SendStep(t)
  PROVE  /\ \A u \in Threads \ {t} : pc'[u] = pc[u] /\ msg'[u] = msg[u]
         /\ UNCHANGED <<world, localVars, m_itemBuffer, m_sendToDll,
                       pipeConnected, dllVars>>
<1>1. pc \in [Threads -> AllLabels] /\ msg \in [Threads -> Messages \cup {NoMessage}]
  BY DEF TypeOK, ThreadTypeOK
<1>2. \A u \in Threads \ {t} : pc'[u] = pc[u] /\ msg'[u] = msg[u]
  BY <1>1 DEF SendStep, SendToNobody, WriteLength, WriteBody, SkipCompletionState,
     SendCompleted, SendFinalMission, ReleaseChecked, Goto, CallSend
<1>3. UNCHANGED <<world, localVars, m_itemBuffer, m_sendToDll, pipeConnected, dllVars>>
  BY DEF SendStep, SendToNobody, WriteLength, WriteBody, SkipCompletionState,
     SendCompleted, SendFinalMission, ReleaseChecked
<1> QED BY <1>1, <1>2, <1>3

LEMMA PollStepStays ==
  ASSUME TypeOK, PollStep
  PROVE  MainStays /\ UNCHANGED <<pipeConnected, dll>>
<1>1. CASE SendStep("poll")
  BY <1>1, SendStepStays DEF Threads, MainStays
<1>2. CASE ~SendStep("poll")
  <2>1. pc \in [Threads -> AllLabels] /\ msg \in [Threads -> Messages \cup {NoMessage}]
    BY DEF TypeOK, ThreadTypeOK
  <2>2. pc'["main"] = pc["main"] /\ msg'["main"] = msg["main"]
    BY <1>2, <2>1 DEF PollStep, SlotConnected, MergeChecked, ReadSlotData,
       SocketClosed, SocketDisconnected, ItemsReceived, BufferItem, ItemsDone,
       Goto, CallSend, Threads
  <2>3. UNCHANGED <<replayed, m_sendToDll, pipeConnected, dll>>
    BY <1>2 DEF PollStep, SlotConnected, MergeChecked, ReadSlotData, SocketClosed,
       SocketDisconnected, ItemsReceived, BufferItem, ItemsDone
  <2> QED BY <2>2, <2>3 DEF MainStays
<1> QED BY <1>1, <1>2

LEMMA PipeStepStays ==
  ASSUME TypeOK, PipeStep
  PROVE  /\ MainStays
         /\ pc'["poll"] = pc["poll"] /\ msg'["poll"] = msg["poll"]
         /\ UNCHANGED <<srvItems, link, fromServer, todo, m_itemBuffer, dll,
                        unlocked, skulls>>
<1>1. CASE SendStep("pipe")
  BY <1>1, SendStepStays DEF Threads, MainStays
<1>2. CASE ~SendStep("pipe")
  <2>1. pc \in [Threads -> AllLabels]
    BY DEF TypeOK, ThreadTypeOK
  <2>2. msg' = msg /\ (pc' = pc \/ \E l : pc' = [pc EXCEPT !["pipe"] = l])
    BY <1>2 DEF PipeStep, PipeAccepts, HandleMissionLoad, HandleMissionComplete,
       HandleChapter, HandleLocationChecked, TakeReport, BeginSendLocation,
       DropLocation, MarkSent, LocationChecks, TrackChecked, ReportGoal, Goto
  <2>3. UNCHANGED <<replayed, m_sendToDll, srvItems, link, fromServer, todo,
                    m_itemBuffer, dll, unlocked, skulls>>
    BY <1>2 DEF PipeStep, PipeAccepts, HandleMissionLoad, HandleMissionComplete,
       HandleChapter, HandleLocationChecked, TakeReport, BeginSendLocation,
       DropLocation, MarkSent, LocationChecks, TrackChecked, ReportGoal
  <2> QED BY <2>1, <2>2, <2>3 DEF MainStays, Threads
<1> QED BY <1>1, <1>2

LEMMA MainStepStays ==
  ASSUME TypeOK, MainStep
  PROVE  /\ pc'["poll"] = pc["poll"] /\ msg'["poll"] = msg["poll"]
         /\ UNCHANGED <<srvItems, link, fromServer, todo, m_itemBuffer,
                        pipeConnected, dllVars>>
<1>1. CASE SendStep("main")
  BY <1>1, SendStepStays DEF Threads
<1>2. CASE ~SendStep("main")
  <2>1. pc \in [Threads -> AllLabels] /\ msg \in [Threads -> Messages \cup {NoMessage}]
    BY DEF TypeOK, ThreadTypeOK
  <2>2. pc'["poll"] = pc["poll"] /\ msg'["poll"] = msg["poll"]
    BY <1>2, <2>1 DEF MainStep, SlotSeen, SlotTimeout, StartPipe, SetSendToDll,
       ReplayTier, LockBuffer, ReplayItem, ReplayDone, Goto, CallSend, Threads
  <2>3. UNCHANGED <<srvItems, link, fromServer, todo, m_itemBuffer, pipeConnected,
                    dllVars>>
    BY <1>2 DEF MainStep, SlotSeen, SlotTimeout, StartPipe, SetSendToDll,
       ReplayTier, LockBuffer, ReplayItem, ReplayDone
  <2> QED BY <2>2, <2>3
<1> QED BY <1>1, <1>2

\* A reader that has left its loop never returns to it.
LEMMA DeadStays ==
  ASSUME TypeOK, [Next]_vars
  PROVE  dll = "dead" => dll' = "dead"
<1>1. CASE PollStep \/ PipeStep \/ MainStep
  BY <1>1, PollStepStays, PipeStepStays, MainStepStays
<1> QED BY <1>1 DEF Next, vars, DllConnects, DllStep, ReadMessage, ReadMixedUp,
           LengthRead, SendReport, GameStep, GameLoads, GameWon, ChapterShown,
           SkullClaimed, ShellCommand, Report, ServerReads, LinkBreaks, ServerGrants

-----------------------------------------------------------------------------
(***************************************************************************)
(* A thread outside Send holds no message.                                 *)
(***************************************************************************)
LEMMA TidyGoto ==
  ASSUME TypeOK, MessageTidy, NEW t \in Threads, pc[t] \notin {"send", "body"},
         NEW label, Goto(t, label), UNCHANGED msg
  PROVE  MessageTidy'
BY DEF TypeOK, ThreadTypeOK, MessageTidy, Sending, Goto

LEMMA TidySent ==
  ASSUME TypeOK, MessageTidy, NEW t \in Threads, NEW label, Goto(t, label),
         msg' = [msg EXCEPT ![t] = NoMessage]
  PROVE  MessageTidy'
BY DEF TypeOK, ThreadTypeOK, MessageTidy, Sending, Goto

LEMMA TidyCall ==
  ASSUME TypeOK, MessageTidy, NEW t \in Threads, NEW m, CallSend(t, m)
  PROVE  MessageTidy'
BY DEF TypeOK, ThreadTypeOK, MessageTidy, Sending, CallSend

LEMMA TidySame ==
  ASSUME MessageTidy, UNCHANGED threadVars
  PROVE  MessageTidy'
BY DEF MessageTidy, Sending

LEMMA SendStepTidy ==
  ASSUME TypeOK, MessageTidy, NEW t \in Threads, SendStep(t)
  PROVE  MessageTidy'
<1>1. CASE SendToNobody(t) \/ WriteBody(t)
  BY <1>1, TidySent DEF SendToNobody, WriteBody
<1>2. CASE WriteLength(t)
  BY <1>2 DEF WriteLength, Goto, TypeOK, ThreadTypeOK, MessageTidy, Sending
<1>3. CASE SkipCompletionState(t) \/ ReleaseChecked(t)
  BY <1>3, TidyGoto DEF SkipCompletionState, ReleaseChecked
<1>4. CASE SendCompleted(t) \/ SendFinalMission(t)
  BY <1>4, TidyCall DEF SendCompleted, SendFinalMission
<1> QED BY <1>1, <1>2, <1>3, <1>4 DEF SendStep

LEMMA MessageTidyStep ==
  ASSUME TypeOK, MessageTidy, NotStarted, [Next]_vars
  PROVE  MessageTidy'
<1>0. "poll" \in Threads /\ "pipe" \in Threads /\ "main" \in Threads
  BY DEF Threads
<1>1. CASE PollStep
  <2>1. CASE SendStep("poll")
    BY <1>0, <2>1, SendStepTidy
  <2>2. CASE BufferItem
    BY <1>0, <2>2, TidyCall DEF BufferItem
  <2>3. CASE ~SendStep("poll") /\ ~BufferItem
    <3>1. UNCHANGED msg /\ pc["poll"] \notin {"send", "body"}
      BY <1>1, <2>3 DEF PollStep, SlotConnected, MergeChecked, ReadSlotData,
         SocketClosed, SocketDisconnected, ItemsReceived, ItemsDone, Polling
    <3>2. \E label : Goto("poll", label)
      BY <1>1, <2>3 DEF PollStep, SlotConnected, MergeChecked, ReadSlotData,
         SocketClosed, SocketDisconnected, ItemsReceived, ItemsDone
    <3> QED BY <1>0, <3>1, <3>2, TidyGoto
  <2> QED BY <2>1, <2>2, <2>3
<1>2. CASE PipeStep
  <2>1. CASE SendStep("pipe")
    BY <1>0, <2>1, SendStepTidy
  <2>2. CASE ~SendStep("pipe")
    <3>1. UNCHANGED msg /\ pc["pipe"] \notin {"send", "body"}
      BY <1>2, <2>2 DEF PipeStep, PipeAccepts, HandleMissionLoad,
         HandleMissionComplete, HandleChapter, HandleLocationChecked, TakeReport,
         DropLocation, MarkSent, LocationChecks, TrackChecked, ReportGoal
    <3>2. UNCHANGED pc \/ \E label : Goto("pipe", label)
      BY <1>2, <2>2 DEF PipeStep, PipeAccepts, HandleMissionLoad,
         HandleMissionComplete, HandleChapter, HandleLocationChecked,
         BeginSendLocation, DropLocation, MarkSent, LocationChecks, TrackChecked,
         ReportGoal
    <3> QED BY <1>0, <3>1, <3>2, TidyGoto, TidySame
  <2> QED BY <2>1, <2>2
<1>3. CASE MainStep
  <2>1. CASE SendStep("main")
    BY <1>0, <2>1, SendStepTidy
  <2>2. CASE ReplayTier
    <3>1. CASE m_skullsanityTier >= 0
      BY <1>0, <2>2, <3>1, TidyCall DEF ReplayTier
    <3>2. CASE ~(m_skullsanityTier >= 0)
      BY <1>0, <2>2, <3>2, TidyGoto DEF ReplayTier
    <3> QED BY <3>1, <3>2
  <2>3. CASE ReplayItem
    BY <1>0, <2>3, TidyCall DEF ReplayItem
  <2>4. CASE StartPipe
    <3>1. pc \in [Threads -> AllLabels]
      BY DEF TypeOK, ThreadTypeOK
    <3>2. /\ pc' = [pc EXCEPT !["main"] = "setSend", !["pipe"] = "listening"]
          /\ msg' = msg /\ pc["main"] = "startPipe"
      BY <2>4 DEF StartPipe
    <3>3. \A t \in Threads : ~Sending(t)' => ~Sending(t) \/ t = "pipe"
      BY <1>0, <3>1, <3>2 DEF Sending
    <3>4. ~Sending("pipe")
      BY <3>2 DEF NotStarted, Sending
    <3> QED BY <3>2, <3>3, <3>4 DEF MessageTidy
  <2>5. CASE SlotSeen \/ SlotTimeout \/ SetSendToDll \/ LockBuffer \/ ReplayDone
    <3>1. UNCHANGED msg /\ pc["main"] \notin {"send", "body"}
      BY <2>5 DEF SlotSeen, SlotTimeout, SetSendToDll, LockBuffer, ReplayDone
    <3>2. \E label : Goto("main", label)
      BY <2>5 DEF SlotSeen, SlotTimeout, SetSendToDll, LockBuffer, ReplayDone
    <3> QED BY <1>0, <3>1, <3>2, TidyGoto
  <2> QED BY <1>3, <2>1, <2>2, <2>3, <2>4, <2>5 DEF MainStep
<1>4. CASE DllConnects \/ DllStep \/ SendReport \/ GameStep \/ ServerReads
           \/ LinkBreaks \/ \E item \in Items : ServerGrants(item)
  BY <1>4, TidySame DEF DllConnects, DllStep, ReadMessage, ReadMixedUp, SendReport,
     GameStep, GameLoads, GameWon, ChapterShown, SkullClaimed, ShellCommand,
     Report, ServerReads, LinkBreaks, ServerGrants
<1>5. CASE UNCHANGED vars
  BY <1>5, TidySame DEF vars
<1> QED BY <1>1, <1>2, <1>3, <1>4, <1>5 DEF Next

\* Where main goes from Send and from the completion state.
LEMMA MainSendStep ==
  ASSUME TypeOK, SendStep("main")
  PROVE  pc'["main"] \notin {"waitSlot", "startPipe", "setSend", "waitDll", "exited"}
<1>0. "main" \in Threads /\ pc \in [Threads -> AllLabels]
  BY DEF Threads, TypeOK, ThreadTypeOK
<1>1. CASE SendToNobody("main") \/ WriteBody("main")
  <2>1. pc'["main"] = AfterSend("main")
    BY <1>0, <1>1 DEF SendToNobody, WriteBody, Goto
  <2> QED BY <2>1 DEF AfterSend
<1>2. CASE SkipCompletionState("main") \/ ReleaseChecked("main")
  <2>1. pc'["main"] = AfterCompletionState("main")
    BY <1>0, <1>2 DEF SkipCompletionState, ReleaseChecked, Goto
  <2> QED BY <2>1 DEF AfterCompletionState
<1>3. CASE WriteLength("main") \/ SendCompleted("main") \/ SendFinalMission("main")
  BY <1>0, <1>3 DEF WriteLength, SendCompleted, SendFinalMission, CallSend, Goto
<1> QED BY <1>1, <1>2, <1>3 DEF SendStep

LEMMA NotStartedStep ==
  ASSUME TypeOK, NotStarted, [Next]_vars
  PROVE  NotStarted'
<1>0. "main" \in Threads /\ "poll" \in Threads /\ "pipe" \in Threads
        /\ pc \in [Threads -> AllLabels]
  BY DEF Threads, TypeOK, ThreadTypeOK
<1>1. CASE PollStep
  <2>1. pc'["main"] = pc["main"]
    BY <1>1, PollStepStays DEF MainStays
  <2>2. pc'["pipe"] = pc["pipe"]
    <3>1. CASE SendStep("poll")
      BY <1>0, <3>1, SendStepStays
    <3>2. CASE ~SendStep("poll")
      BY <1>0, <1>1, <3>2 DEF PollStep, SlotConnected, MergeChecked, ReadSlotData,
         SocketClosed, SocketDisconnected, ItemsReceived, BufferItem, ItemsDone,
         Goto, CallSend
    <3> QED BY <3>1, <3>2
  <2> QED BY <2>1, <2>2 DEF NotStarted
<1>2. CASE PipeStep
  <2>1. pc["pipe"] # "notStarted"
    BY <1>2 DEF PipeStep, SendStep, SendToNobody, WriteLength, WriteBody,
       SkipCompletionState, SendCompleted, SendFinalMission, ReleaseChecked,
       PipeAccepts, HandleMissionLoad, HandleMissionComplete, HandleChapter,
       HandleLocationChecked, TakeReport, DropLocation, MarkSent, LocationChecks,
       TrackChecked, ReportGoal
  <2> QED BY <1>2, <2>1, PipeStepStays DEF NotStarted, MainStays
<1>3. CASE MainStep
  <2>1. CASE SendStep("main")
    BY <2>1, MainSendStep DEF NotStarted
  <2>2. CASE SlotSeen
    BY <1>0, <2>2 DEF SlotSeen, Goto, NotStarted
  <2>3. CASE ~SendStep("main") /\ ~SlotSeen
    <3>1. pc'["main"] \notin {"waitSlot", "startPipe"}
      BY <1>0, <1>3, <2>3 DEF MainStep, SlotTimeout, StartPipe, SetSendToDll,
         ReplayTier, LockBuffer, ReplayItem, ReplayDone, Goto, CallSend
    <3> QED BY <3>1 DEF NotStarted
  <2> QED BY <2>1, <2>2, <2>3
<1>4. CASE DllConnects \/ DllStep \/ SendReport \/ GameStep \/ ServerReads
           \/ LinkBreaks \/ \E item \in Items : ServerGrants(item)
  BY <1>4 DEF DllConnects, DllStep, ReadMessage, ReadMixedUp, SendReport,
     GameStep, GameLoads, GameWon, ChapterShown, SkullClaimed, ShellCommand,
     Report, ServerReads, LinkBreaks, ServerGrants, NotStarted
<1>5. CASE UNCHANGED vars
  BY <1>5 DEF vars, NotStarted
<1> QED BY <1>1, <1>2, <1>3, <1>4, <1>5 DEF Next

-----------------------------------------------------------------------------
(***************************************************************************)
(* Main's phases follow each other: before the replay, in it, after it.    *)
(***************************************************************************)
LEMMA MainSendPhases ==
  ASSUME TypeOK, SendStep("main")
  PROVE  (Before' => Before) /\ (Replaying' => Replaying) /\ (After' => After)
<1>0. /\ "main" \in Threads /\ pc \in [Threads -> AllLabels]
      /\ msg \in [Threads -> Messages \cup {NoMessage}]
      /\ Sending("main") => msg["main"].kind \in Kinds("main")
  BY DEF Threads, TypeOK, ThreadTypeOK
<1>1. CASE SendToNobody("main") \/ WriteBody("main")
  <2>1. pc'["main"] = AfterSend("main") /\ Sending("main")
    BY <1>0, <1>1 DEF SendToNobody, WriteBody, Goto, Sending
  <2>2. msg["main"].kind \in CompletionKinds \cup {"ITEM_RECIVED", "SKULLSANITY"}
    BY <1>0, <2>1 DEF Kinds
  <2> QED BY <2>1, <2>2 DEF AfterSend, Before, Replaying, After, Sending, CompletionKinds
<1>2. CASE WriteLength("main")
  BY <1>0, <1>2 DEF WriteLength, Goto, Before, Replaying, After, Sending
<1>3. CASE SkipCompletionState("main") \/ ReleaseChecked("main")
  <2>1. pc'["main"] = "monitor" /\ pc["main"] \in {"completionState", "unlock"}
    BY <1>0, <1>3 DEF SkipCompletionState, ReleaseChecked, Goto, AfterCompletionState
  <2> QED BY <2>1 DEF Before, Replaying, After, Sending
<1>4. CASE SendCompleted("main") \/ SendFinalMission("main")
  <2>1. /\ pc'["main"] = "send" /\ msg'["main"].kind \in CompletionKinds
        /\ pc["main"] \in {"completionState", "finalMission"}
    BY <1>0, <1>4 DEF SendCompleted, SendFinalMission, CallSend, CompletionKinds
  <2> QED BY <2>1 DEF Before, Replaying, After, Sending, CompletionKinds
<1> QED BY <1>1, <1>2, <1>3, <1>4 DEF SendStep

LEMMA MainPhases ==
  ASSUME TypeOK, MainStep
  PROVE  /\ Before' => Before
         /\ Replaying' => Replaying \/ LockBuffer
         /\ After' => After \/ ReplayDone
<1>0. /\ "main" \in Threads /\ pc \in [Threads -> AllLabels]
      /\ msg \in [Threads -> Messages \cup {NoMessage}]
  BY DEF Threads, TypeOK, ThreadTypeOK
<1>1. CASE SendStep("main")
  BY <1>1, MainSendPhases
<1>2. CASE ReplayTier
  <2>1. /\ pc["main"] = "waitDll"
        /\ \/ pc'["main"] = "lockBuffer"
           \/ pc'["main"] = "send" /\ msg'["main"].kind = "SKULLSANITY"
    BY <1>0, <1>2 DEF ReplayTier, CallSend, Goto
  <2> QED BY <2>1 DEF Before, Replaying, After, Sending, CompletionKinds
<1>3. CASE ReplayItem
  <2>1. pc["main"] = "replay" /\ pc'["main"] = "send" /\ msg'["main"].kind = "ITEM_RECIVED"
    BY <1>0, <1>3 DEF ReplayItem, CallSend
  <2> QED BY <2>1 DEF Before, Replaying, After, Sending, CompletionKinds
<1>4. CASE LockBuffer \/ ReplayDone
  BY <1>0, <1>4 DEF LockBuffer, ReplayDone, Goto, Before, Replaying, After, Sending
<1>5. CASE SlotSeen \/ SlotTimeout \/ StartPipe \/ SetSendToDll
  BY <1>0, <1>5 DEF SlotSeen, SlotTimeout, StartPipe, SetSendToDll, Goto, Before,
     Replaying, After, Sending
<1> QED BY <1>1, <1>2, <1>3, <1>4, <1>5 DEF MainStep

\* Steps that leave main's place alone leave its phase alone.
LEMMA SamePhase ==
  ASSUME pc'["main"] = pc["main"], msg'["main"] = msg["main"]
  PROVE  (Before' = Before) /\ (Replaying' = Replaying) /\ (After' = After)
BY DEF Before, Replaying, After, Sending

\* The buffer grows at its end, by what the poll thread goes on to forward.
LEMMA BufferGrows ==
  ASSUME TypeOK, [Next]_vars, m_itemBuffer' # m_itemBuffer
  PROVE  BufferItem
<1>1. CASE PollStep
  <2>1. CASE SendStep("poll")
    BY <2>1, SendStepStays DEF Threads
  <2> QED BY <1>1, <2>1 DEF PollStep, SlotConnected, MergeChecked, ReadSlotData,
             SocketClosed, SocketDisconnected, ItemsReceived, ItemsDone
<1>2. CASE PipeStep
  BY <1>2, PipeStepStays
<1>3. CASE MainStep
  BY <1>3, MainStepStays
<1>4. CASE DllConnects \/ DllStep \/ SendReport \/ GameStep \/ ServerReads
           \/ LinkBreaks \/ \E item \in Items : ServerGrants(item)
  BY <1>4 DEF DllConnects, DllStep, ReadMessage, ReadMixedUp, SendReport,
     GameStep, GameLoads, GameWon, ChapterShown, SkullClaimed, ShellCommand,
     Report, ServerReads, LinkBreaks, ServerGrants
<1> QED BY <1>1, <1>2, <1>3, <1>4 DEF Next, vars

LEMMA BufferedItem ==
  ASSUME TypeOK, BufferItem
  PROVE  /\ Head(todo) \in Items
         /\ Len(m_itemBuffer) \in Nat
         /\ Len(m_itemBuffer') = Len(m_itemBuffer) + 1
         /\ \A n \in 1 .. Len(m_itemBuffer) : m_itemBuffer'[n] = m_itemBuffer[n]
         /\ m_itemBuffer'[Len(m_itemBuffer) + 1] = Head(todo)
         /\ msg'["poll"] = [kind |-> "ITEM_RECIVED", item |-> Head(todo)]
         /\ pc'["poll"] = "send"
<1>1. /\ m_itemBuffer \in Seq(Items) /\ m_itemBuffer' = Append(m_itemBuffer, Head(todo))
      /\ todo \in Seq(Items) /\ todo # <<>>
  BY DEF BufferItem, PushItem, TypeOK, BridgeTypeOK, LocalTypeOK
<1>2. Head(todo) \in Items
  BY <1>1, HeadTailProperties
<1>3. /\ msg'["poll"] = [kind |-> "ITEM_RECIVED", item |-> Head(todo)]
      /\ pc'["poll"] = "send"
  BY DEF BufferItem, CallSend, TypeOK, ThreadTypeOK, Threads
<1> QED BY <1>1, <1>2, <1>3, AppendedChunk

LEMMA ConnectedStep ==
  ASSUME TypeOK, Connected, [Next]_vars
  PROVE  Connected'
<1>0. "main" \in Threads /\ pc \in [Threads -> AllLabels]
  BY DEF Threads, TypeOK, ThreadTypeOK
<1>1. CASE PollStep
  BY <1>1, PollStepStays DEF Connected, MainStays
<1>2. CASE PipeStep
  <2>1. \/ UNCHANGED pipeConnected
        \/ pipeConnected' = TRUE /\ dll # "absent"
    <3>1. CASE SendStep("pipe")
      <4>1. UNCHANGED pipeConnected
        BY <3>1, SendStepStays DEF Threads
      <4> QED BY <4>1
    <3>2. CASE ~SendStep("pipe")
      BY <1>2, <3>2 DEF PipeStep, PipeAccepts, HandleMissionLoad,
         HandleMissionComplete, HandleChapter, HandleLocationChecked,
         DropLocation, MarkSent, LocationChecks, TrackChecked, ReportGoal
    <3> QED BY <3>1, <3>2
  <2> QED BY <1>2, <2>1, PipeStepStays DEF Connected, MainStays
<1>3. CASE MainStep
  <2>1. UNCHANGED <<pipeConnected, dll>>
    BY <1>3, MainStepStays
  <2>2. CASE SendStep("main")
    <3>1. pc["main"] \in SendLabels /\ UNCHANGED m_sendToDll
      BY <1>0, <2>2, SendStepStays DEF SendStep, SendToNobody, WriteLength,
         WriteBody, SkipCompletionState, SendCompleted, SendFinalMission,
         ReleaseChecked, SendLabels
    <3>2. m_sendToDll /\ pipeConnected /\ dll # "absent"
      BY <3>1 DEF SendLabels, Connected, NoPipeYet
    <3> QED BY <2>1, <3>1, <3>2 DEF Connected
  <2>3. CASE SetSendToDll \/ SlotSeen \/ SlotTimeout \/ StartPipe
    <3>1. \/ pc'["main"] \in NoPipeYet /\ UNCHANGED m_sendToDll
          \/ pc'["main"] = "waitDll" /\ m_sendToDll'
      BY <1>0, <2>3 DEF SetSendToDll, SlotSeen, SlotTimeout, StartPipe, Goto,
         NoPipeYet
    <3> QED BY <2>1, <3>1 DEF Connected
  <2>4. CASE ReplayTier \/ LockBuffer \/ ReplayItem \/ ReplayDone
    <3>1. /\ pc["main"] \in {"waitDll", "lockBuffer", "replay"}
          /\ UNCHANGED m_sendToDll
          /\ pc["main"] = "waitDll" => pipeConnected
      BY <2>4 DEF ReplayTier, LockBuffer, ReplayItem, ReplayDone
    <3>2. m_sendToDll /\ pipeConnected /\ dll # "absent"
      BY <3>1 DEF Connected, NoPipeYet
    <3> QED BY <2>1, <3>1, <3>2 DEF Connected
  <2> QED BY <1>3, <2>2, <2>3, <2>4 DEF MainStep
<1>4. CASE DllConnects \/ DllStep \/ SendReport \/ GameStep \/ ServerReads
           \/ LinkBreaks \/ \E item \in Items : ServerGrants(item)
  <2>1. UNCHANGED <<threadVars, m_sendToDll, pipeConnected>>
    BY <1>4 DEF DllConnects, DllStep, ReadMessage, ReadMixedUp, SendReport,
       GameStep, GameLoads, GameWon, ChapterShown, SkullClaimed, ShellCommand,
       Report, ServerReads, LinkBreaks, ServerGrants
  <2>2. dll' = dll \/ dll' # "absent"
    BY <1>4 DEF DllConnects, DllStep, ReadMessage, ReadMixedUp, SendReport,
       GameStep, GameLoads, GameWon, ChapterShown, SkullClaimed, ShellCommand,
       Report, ServerReads, LinkBreaks, ServerGrants
  <2> QED BY <2>1, <2>2 DEF Connected
<1>5. CASE UNCHANGED vars
  BY <1>5 DEF vars, Connected
<1> QED BY <1>1, <1>2, <1>3, <1>4, <1>5 DEF Next

LEMMA TodoTidyStep ==
  ASSUME TypeOK, TodoTidy, [Next]_vars
  PROVE  TodoTidy'
<1>0. /\ "poll" \in Threads /\ pc \in [Threads -> AllLabels]
      /\ msg \in [Threads -> Messages \cup {NoMessage}]
  BY DEF Threads, TypeOK, ThreadTypeOK
<1>1. CASE PollStep
  <2>1. CASE SendStep("poll")
    <3>1. /\ todo' = todo
          /\ pc["poll"] \in {"send", "body", "completionState", "finalMission", "unlock"}
      BY <2>1, SendStepStays DEF SendStep, SendToNobody, WriteLength, WriteBody,
         SkipCompletionState, SendCompleted, SendFinalMission, ReleaseChecked, Threads
    <3>2. CASE todo = <<>>
      BY <3>1, <3>2 DEF TodoTidy
    <3>3. CASE todo # <<>>
      <4>1. Sending("poll") /\ msg["poll"].kind = "ITEM_RECIVED"
        BY <3>1, <3>3 DEF TodoTidy
      <4>2. CASE SendToNobody("poll") \/ WriteBody("poll")
        <5>1. pc'["poll"] = AfterSend("poll")
          BY <1>0, <4>2 DEF SendToNobody, WriteBody, Goto
        <5> QED BY <4>1, <5>1 DEF AfterSend, TodoTidy
      <4>3. CASE WriteLength("poll")
        BY <1>0, <4>1, <4>3 DEF WriteLength, Goto, TodoTidy, Sending
      <4> QED BY <2>1, <4>1, <4>2, <4>3 DEF SendStep, SkipCompletionState,
                 SendCompleted, SendFinalMission, ReleaseChecked, Sending
    <3> QED BY <3>2, <3>3
  <2>2. CASE BufferItem
    BY <2>2, BufferedItem DEF TodoTidy, Sending
  <2>3. CASE ItemsReceived
    BY <1>0, <2>3 DEF ItemsReceived, Goto, TodoTidy
  <2>4. CASE ~SendStep("poll") /\ ~BufferItem /\ ~ItemsReceived
    <3>1. todo' = todo /\ ~Sending("poll") /\ (pc["poll"] = "items" => todo = <<>>)
      BY <1>1, <2>4 DEF PollStep, SlotConnected, MergeChecked, ReadSlotData,
         SocketClosed, SocketDisconnected, ItemsDone, Polling, Sending
    <3> QED BY <3>1 DEF TodoTidy
  <2> QED BY <2>1, <2>2, <2>3, <2>4
<1>2. CASE PipeStep
  BY <1>2, PipeStepStays DEF TodoTidy, Sending
<1>3. CASE MainStep
  BY <1>3, MainStepStays DEF TodoTidy, Sending
<1>4. CASE DllConnects \/ DllStep \/ SendReport \/ GameStep \/ ServerReads
           \/ LinkBreaks \/ \E item \in Items : ServerGrants(item)
  BY <1>4 DEF DllConnects, DllStep, ReadMessage, ReadMixedUp, SendReport,
     GameStep, GameLoads, GameWon, ChapterShown, SkullClaimed, ShellCommand,
     Report, ServerReads, LinkBreaks, ServerGrants, TodoTidy, Sending
<1>5. CASE UNCHANGED vars
  BY <1>5 DEF vars, TodoTidy, Sending
<1> QED BY <1>1, <1>2, <1>3, <1>4, <1>5 DEF Next

LEMMA ReplayTidyStep ==
  ASSUME TypeOK, ReplayTidy, [Next]_vars
  PROVE  ReplayTidy'
<1>0. Len(m_itemBuffer) \in Nat /\ replayed \in Nat
  BY DEF TypeOK, BridgeTypeOK, LocalTypeOK
<1>1. Len(m_itemBuffer') = Len(m_itemBuffer) \/ Len(m_itemBuffer') = Len(m_itemBuffer) + 1
  BY BufferGrows, BufferedItem
<1>2. CASE MainStep
  <2>1. m_itemBuffer' = m_itemBuffer
    BY <1>2, MainStepStays
  <2>2. CASE ReplayItem
    <3>1. replayed' = replayed + 1 /\ replayed < Len(m_itemBuffer) /\ pc["main"] = "replay"
      BY <2>2 DEF ReplayItem
    <3>2. ~Before
      BY <3>1 DEF Before, Sending
    <3> QED BY <1>0, <1>2, <2>1, <3>1, <3>2, MainPhases DEF ReplayTidy
  <2>3. CASE ~ReplayItem
    <3>1. replayed' = replayed
      <4>1. CASE SendStep("main")
        BY <4>1, SendStepStays DEF Threads
      <4> QED BY <1>2, <2>3, <4>1 DEF MainStep, SlotSeen, SlotTimeout, StartPipe,
                 SetSendToDll, ReplayTier, LockBuffer, ReplayDone
    <3> QED BY <1>2, <2>1, <3>1, MainPhases DEF ReplayTidy
  <2> QED BY <2>2, <2>3
<1>3. CASE ~MainStep
  <2>1. MainStays \/ UNCHANGED <<threadVars, replayed>>
    BY <1>3, PollStepStays, PipeStepStays DEF Next, vars, DllConnects, DllStep,
       ReadMessage, ReadMixedUp, SendReport, GameStep, GameLoads, GameWon,
       ChapterShown, SkullClaimed, ShellCommand, Report, ServerReads, LinkBreaks,
       ServerGrants
  <2>2. replayed' = replayed /\ (Before' => Before)
    BY <2>1, SamePhase DEF MainStays
  <2> QED BY <1>0, <1>1, <2>2 DEF ReplayTidy
<1> QED BY <1>2, <1>3

THEOREM PhasesHold == Spec => []PhaseInv
<1>1. Init => PhaseInv
  BY DEF Init, PhaseInv, Connected, MessageTidy, NotStarted, TodoTidy, ReplayTidy,
     Before, Sending, NoPipeYet, Threads
<1>2. TypeOK /\ PhaseInv /\ [Next]_vars => PhaseInv'
  BY ConnectedStep, MessageTidyStep, NotStartedStep, TodoTidyStep, ReplayTidyStep
     DEF PhaseInv
<1> QED BY <1>1, <1>2, TypeCorrect, PTL DEF Spec

-----------------------------------------------------------------------------
(***************************************************************************)
(* Lengths and bodies: the reader takes a length and its body from the     *)
(* front, or finds two lengths and gives up.                               *)
(***************************************************************************)
LEMMA AnnouncedAppend ==
  ASSUME NEW S, NEW s \in Seq(S), NEW e, NEW t, NEW m
  PROVE  /\ \A n \in 1 .. Len(s) + 1 :
              Announced(s, n, t, m) => Announced(Append(s, e), n, t, m)
         /\ e.from # t /\ Announced(s, Len(s) + 1, t, m) =>
              Announced(Append(s, e), Len(s) + 2, t, m)
         /\ e.part = "length" /\ e.from = t /\ e.msg = m =>
              Announced(Append(s, e), Len(s) + 2, t, m)
<1> DEFINE r == Append(s, e)
           L == Len(s)
<1>1. /\ Len(r) = L + 1 /\ \A n \in 1 .. L : r[n] = s[n]
      /\ r[L + 1] = e /\ L \in Nat
  BY AppendedChunk
<1> HIDE DEF r, L
<1>2. ASSUME NEW n \in 1 .. L + 1, Announced(s, n, t, m)
      PROVE  Announced(r, n, t, m)
  BY <1>1, <1>2 DEF Announced
<1>3. ASSUME e.from # t, Announced(s, L + 1, t, m)
      PROVE  Announced(r, L + 2, t, m)
  <2>1. PICK k \in 1 .. L : /\ s[k].part = "length" /\ s[k].from = t /\ s[k].msg = m
                           /\ \A j \in k + 1 .. L : s[j].from # t
    BY <1>1, <1>3 DEF Announced
  <2>2. \A j \in k + 1 .. L + 1 : r[j].from # t
    BY <1>1, <1>3, <2>1
  <2>3. k \in 1 .. (L + 2) - 1 /\ (L + 2) - 1 = L + 1 /\ r[k] = s[k]
    BY <1>1, <2>1
  <2> QED BY <2>1, <2>2, <2>3 DEF Announced
<1>4. ASSUME e.part = "length", e.from = t, e.msg = m
      PROVE  Announced(r, L + 2, t, m)
  <2>1. L + 1 \in 1 .. (L + 2) - 1 /\ \A j \in (L + 1) + 1 .. (L + 2) - 1 : FALSE
    BY <1>1
  <2> QED BY <1>1, <1>4, <2>1 DEF Announced
<1> QED BY <1>2, <1>3, <1>4 DEF r, L

LEMMA AnnouncedRest ==
  ASSUME NEW S, NEW s \in Seq(S), Len(s) >= 2, s[2].part = "body",
         Announced(s, 2, s[2].from, s[2].msg),
         NEW n \in 1 .. Len(s) - 1, NEW t, NEW m, Announced(s, n + 2, t, m)
  PROVE  Announced(Tail(Tail(s)), n, t, m)
<1> DEFINE r == Tail(Tail(s))
<1>1. Len(s) \in Nat /\ \A i \in 1 .. Len(s) - 2 : r[i] = s[i + 2]
  BY RestByTwo
<1> HIDE DEF r
<1>2. s[1].from = s[2].from
  BY DEF Announced
<1>3. PICK k \in 1 .. n + 1 : /\ s[k].part = "length" /\ s[k].from = t /\ s[k].msg = m
                             /\ \A j \in k + 1 .. n + 1 : s[j].from # t
  <2>1. (n + 2) - 1 = n + 1
    BY <1>1
  <2>2. \E k \in 1 .. (n + 2) - 1 :
          /\ s[k].part = "length" /\ s[k].from = t /\ s[k].msg = m
          /\ \A j \in k + 1 .. (n + 2) - 1 : s[j].from # t
    BY DEF Announced
  <2> QED BY <2>1, <2>2
<1>4. k # 1 /\ k # 2
  BY <1>1, <1>2, <1>3
<1>5. /\ k - 2 \in 1 .. n - 1 /\ k - 2 \in 1 .. Len(s) - 2
      /\ r[k - 2] = s[(k - 2) + 2] /\ (k - 2) + 2 = k
  BY <1>1, <1>3, <1>4
<1>6. ASSUME NEW j \in (k - 2) + 1 .. n - 1 PROVE r[j].from # t
  <2>1. j + 2 \in k + 1 .. n + 1 /\ j \in 1 .. Len(s) - 2
    BY <1>1, <1>5
  <2> QED BY <1>1, <1>3, <2>1
<1> QED BY <1>3, <1>5, <1>6 DEF Announced, r

LEMMA PairQuiet ==
  ASSUME Paired, Open, UNCHANGED down,
         \A u \in Threads : pc'[u] = "body" => pc[u] = "body" /\ msg'[u] = msg[u]
  PROVE  Paired' /\ Open'
BY DEF Paired, Open

LEMMA PairWrite ==
  ASSUME TypeOK, Paired, Open, NEW t \in Threads, NEW part, Write(t, part),
         \A u \in Threads \ {t} : pc'[u] = pc[u] /\ msg'[u] = msg[u],
         \/ part = "length" /\ msg'[t] = msg[t]
         \/ part = "body" /\ pc[t] = "body" /\ pc'[t] # "body"
  PROVE  Paired' /\ Open'
<1> DEFINE e == [from |-> t, part |-> part, msg |-> msg[t]]
           L == Len(down)
<1>1. down \in Seq(Chunks) /\ down' = Append(down, e)
  BY DEF TypeOK, PipeTypeOK, Write
<1>2. /\ Len(down') = L + 1 /\ L \in Nat
      /\ \A n \in 1 .. L : down'[n] = down[n]
      /\ down'[L + 1] = e
  BY <1>1, AppendedChunk
<1>3. e.from = t /\ e.part = part /\ e.msg = msg[t]
  OBVIOUS
<1> HIDE DEF e, L
<1>4. ASSUME NEW n \in 1 .. Len(down'), down'[n].part = "body"
      PROVE  Announced(down', n, down'[n].from, down'[n].msg)
  <2>1. CASE n \in 1 .. L
    <3>1. Announced(down, n, down[n].from, down[n].msg) /\ down'[n] = down[n]
      BY <1>2, <1>4, <2>1 DEF Paired, L
    <3> QED BY <1>1, <1>2, <2>1, <3>1, AnnouncedAppend DEF L
  <2>2. CASE n = L + 1
    <3>1. part = "body" /\ Announced(down, L + 1, t, msg[t])
      BY <1>2, <1>3, <1>4, <2>2 DEF Open, L
    <3>2. L + 1 \in 1 .. L + 1
      BY <1>2
    <3>3. Announced(down', L + 1, t, msg[t])
      BY <1>1, <3>1, <3>2, AnnouncedAppend DEF L
    <3> QED BY <1>2, <1>3, <2>2, <3>3
  <2> QED BY <1>2, <2>1, <2>2
<1>5. ASSUME NEW u \in Threads, pc'[u] = "body"
      PROVE  Announced(down', Len(down') + 1, u, msg'[u])
  <2>0. Len(down') + 1 = Len(down) + 2
    BY <1>2 DEF L
  <2>1. CASE u = t
    <3>1. part = "length" /\ msg'[t] = msg[t]
      BY <1>5, <2>1
    <3> QED BY <1>1, <1>3, <2>0, <2>1, <3>1, AnnouncedAppend
  <2>2. CASE u # t
    <3>1. Announced(down, Len(down) + 1, u, msg[u]) /\ msg'[u] = msg[u]
      BY <1>5, <2>2 DEF Open
    <3> QED BY <1>1, <1>3, <2>0, <2>2, <3>1, AnnouncedAppend
  <2> QED BY <2>1, <2>2
<1> QED BY <1>4, <1>5 DEF Paired, Open

LEMMA PairRead ==
  ASSUME TypeOK, Paired, Open, Len(down) >= 2, down[2].part = "body",
         down' = Tail(Tail(down)), UNCHANGED threadVars
  PROVE  Paired' /\ Open'
<1>1. /\ down \in Seq(Chunks) /\ Len(down) \in Nat
      /\ Len(down') = Len(down) - 2
      /\ \A n \in 1 .. Len(down) - 2 : down'[n] = down[n + 2]
  BY RestByTwo DEF TypeOK, PipeTypeOK
<1>2. Announced(down, 2, down[2].from, down[2].msg)
  BY <1>1 DEF Paired
<1>3. ASSUME NEW n \in 1 .. Len(down'), down'[n].part = "body"
      PROVE  Announced(down', n, down'[n].from, down'[n].msg)
  <2>1. /\ n + 2 \in 1 .. Len(down) /\ n \in 1 .. Len(down) - 1
        /\ down'[n] = down[n + 2]
    BY <1>1
  <2>2. Announced(down, n + 2, down[n + 2].from, down[n + 2].msg)
    BY <1>3, <2>1 DEF Paired
  <2> QED BY <1>1, <1>2, <2>1, <2>2, AnnouncedRest
<1>4. ASSUME NEW t \in Threads, pc'[t] = "body"
      PROVE  Announced(down', Len(down') + 1, t, msg'[t])
  <2> DEFINE n == Len(down) - 1
  <2>1. /\ n \in 1 .. Len(down) - 1 /\ n + 2 = Len(down) + 1
        /\ Len(down') + 1 = n
    BY <1>1
  <2>2. Announced(down, Len(down) + 1, t, msg[t]) /\ msg' = msg
    BY <1>4 DEF Open
  <2> HIDE DEF n
  <2> QED BY <1>1, <1>2, <2>1, <2>2, AnnouncedRest
<1> QED BY <1>3, <1>4 DEF Paired, Open

LEMMA SendStepPairs ==
  ASSUME TypeOK, Paired, Open, NEW t \in Threads, SendStep(t)
  PROVE  Paired' /\ Open'
<1>0. /\ pc \in [Threads -> AllLabels] /\ msg \in [Threads -> Messages \cup {NoMessage}]
      /\ \A u \in Threads \ {t} : pc'[u] = pc[u] /\ msg'[u] = msg[u]
  BY SendStepStays DEF TypeOK, ThreadTypeOK
<1>1. CASE WriteLength(t)
  <2>1. Write(t, "length") /\ msg' = msg
    BY <1>1 DEF WriteLength
  <2> QED BY <1>0, <2>1, PairWrite
<1>2. CASE WriteBody(t)
  <2>1. Write(t, "body") /\ pc[t] = "body" /\ pc'[t] = AfterSend(t)
    BY <1>0, <1>2 DEF WriteBody, Goto
  <2>2. pc'[t] # "body"
    BY <2>1 DEF AfterSend
  <2> QED BY <1>0, <2>1, <2>2, PairWrite
<1>3. CASE ~WriteLength(t) /\ ~WriteBody(t)
  <2>1. pc'[t] # "body"
    BY <1>0, <1>3 DEF SendStep, SendToNobody, SkipCompletionState, SendCompleted,
       SendFinalMission, ReleaseChecked, Goto, CallSend, AfterSend,
       AfterCompletionState
  <2>2. UNCHANGED down
    BY <1>3 DEF SendStep, SendToNobody, SkipCompletionState, SendCompleted,
       SendFinalMission, ReleaseChecked
  <2> QED BY <1>0, <2>1, <2>2, PairQuiet
<1> QED BY <1>1, <1>2, <1>3

\* A thread step outside Send writes nothing and owes no body after it.
LEMMA ThreadStepPairs ==
  ASSUME TypeOK, Paired, Open, PollStep \/ PipeStep \/ MainStep
  PROVE  Paired' /\ Open'
<1>0. /\ pc \in [Threads -> AllLabels] /\ msg \in [Threads -> Messages \cup {NoMessage}]
      /\ "poll" \in Threads /\ "pipe" \in Threads /\ "main" \in Threads
  BY DEF TypeOK, ThreadTypeOK, Threads
<1>1. CASE SendStep("poll") \/ SendStep("pipe") \/ SendStep("main")
  BY <1>0, <1>1, SendStepPairs
<1>2. CASE PollStep /\ ~SendStep("poll")
  <2>1. UNCHANGED down /\ pc'["poll"] # "body"
    BY <1>0, <1>2 DEF PollStep, SlotConnected, MergeChecked, ReadSlotData,
       SocketClosed, SocketDisconnected, ItemsReceived, BufferItem, ItemsDone,
       Goto, CallSend
  <2>2. \A u \in Threads \ {"poll"} : pc'[u] = pc[u] /\ msg'[u] = msg[u]
    BY <1>0, <1>2 DEF PollStep, SlotConnected, MergeChecked, ReadSlotData,
       SocketClosed, SocketDisconnected, ItemsReceived, BufferItem, ItemsDone,
       Goto, CallSend
  <2> QED BY <2>1, <2>2, PairQuiet
<1>3. CASE PipeStep /\ ~SendStep("pipe")
  <2>1. UNCHANGED <<down, msg>> /\ (pc' = pc \/ pc'["pipe"] # "body")
    BY <1>0, <1>3 DEF PipeStep, PipeAccepts, HandleMissionLoad,
       HandleMissionComplete, HandleChapter, HandleLocationChecked, TakeReport,
       BeginSendLocation, DropLocation, MarkSent, LocationChecks, TrackChecked,
       ReportGoal, Goto
  <2>2. \A u \in Threads \ {"pipe"} : pc'[u] = pc[u]
    BY <1>0, <1>3 DEF PipeStep, PipeAccepts, HandleMissionLoad,
       HandleMissionComplete, HandleChapter, HandleLocationChecked, TakeReport,
       BeginSendLocation, DropLocation, MarkSent, LocationChecks, TrackChecked,
       ReportGoal, Goto
  <2> QED BY <2>1, <2>2, PairQuiet
<1>4. CASE MainStep /\ ~SendStep("main")
  <2>1. UNCHANGED down /\ \A u \in Threads : pc'[u] = "body" => pc[u] = "body"
    BY <1>0, <1>4 DEF MainStep, SlotSeen, SlotTimeout, StartPipe, SetSendToDll,
       ReplayTier, LockBuffer, ReplayItem, ReplayDone, Goto, CallSend
  <2>2. pc'["main"] # "body"
    BY <1>0, <1>4 DEF MainStep, SlotSeen, SlotTimeout, StartPipe, SetSendToDll,
       ReplayTier, LockBuffer, ReplayItem, ReplayDone, Goto, CallSend
  <2>3. \A u \in Threads \ {"main"} : msg'[u] = msg[u]
    BY <1>0, <1>4 DEF MainStep, SlotSeen, SlotTimeout, StartPipe, SetSendToDll,
       ReplayTier, LockBuffer, ReplayItem, ReplayDone, Goto, CallSend
  <2> QED BY <2>1, <2>2, <2>3, PairQuiet
<1> QED BY <1>1, <1>2, <1>3, <1>4

\* Until the reader gives up every body in the pipe follows its length.
THEOREM PairsHold == Spec => []PairInv
<1>1. Init => PairInv
  BY DEF Init, PairInv, Paired, Open, Threads
<1>2. TypeOK /\ PairInv /\ [Next]_vars => PairInv'
  <2> SUFFICES ASSUME TypeOK, PairInv, [Next]_vars, dll' # "dead"
               PROVE  Paired' /\ Open'
    BY DEF PairInv
  <2>1. dll # "dead"
    BY DeadStays
  <2>2. Paired /\ Open
    BY <2>1 DEF PairInv
  <2>3. CASE PollStep \/ PipeStep \/ MainStep
    BY <2>2, <2>3, ThreadStepPairs
  <2>4. CASE ReadMessage
    BY <2>2, <2>4, PairRead DEF ReadMessage, LengthRead
  <2>5. CASE DllConnects \/ SendReport \/ GameStep \/ ServerReads \/ LinkBreaks
             \/ \E item \in Items : ServerGrants(item)
    <3>1. UNCHANGED <<threadVars, down>>
      BY <2>5 DEF DllConnects, SendReport, GameStep, GameLoads, GameWon,
         ChapterShown, SkullClaimed, ShellCommand, Report, ServerReads, LinkBreaks,
         ServerGrants
    <3> QED BY <2>2, <3>1, PairQuiet
  <2>6. CASE UNCHANGED vars
    BY <2>2, <2>6, PairQuiet DEF vars
  <2>7. ~ReadMixedUp
    BY DEF ReadMixedUp
  <2> QED BY <2>3, <2>4, <2>5, <2>6, <2>7 DEF Next, DllStep
<1> QED BY <1>1, <1>2, TypeCorrect, PTL DEF Spec

-----------------------------------------------------------------------------
(***************************************************************************)
(* While the connection holds every granted item is with the launcher.     *)
(***************************************************************************)
receivedVars == <<srvItems, link, fromServer, todo, m_itemBuffer>>

LEMMA ReceivedQuiet ==
  ASSUME ReceivedInv, UNCHANGED receivedVars
  PROVE  ReceivedInv'
<1>1. Granted' = Granted /\ Received' = Received
  BY DEF receivedVars, Granted, Received
<1> QED BY <1>1 DEF receivedVars, ReceivedInv

LEMMA ItemsSent ==
  ASSUME TypeOK, SlotConnected
  PROVE  Granted' \subseteq ElementsOfAll(fromServer')
<1>1. /\ srvItems \in Seq(Items) /\ srvItems' = srvItems
      /\ fromServer' = IF srvItems = <<>> THEN <<>> ELSE <<srvItems>>
  BY DEF SlotConnected, TypeOK, ServerTypeOK
<1>2. Granted' = Elements(srvItems)
  BY <1>1 DEF Granted, Elements
<1>3. CASE srvItems = <<>>
  BY <1>2, <1>3 DEF Elements
<1>4. CASE srvItems # <<>>
  <2>1. Len(fromServer') = 1 /\ fromServer'[1] = srvItems
    BY <1>1, <1>4
  <2> QED BY <1>2, <2>1 DEF ElementsOfAll
<1> QED BY <1>3, <1>4

LEMMA PollStepReceived ==
  ASSUME TypeOK, PhaseInv, ReceivedInv, PollStep
  PROVE  ReceivedInv'
<1>0. /\ fromServer \in Seq(Seq(Items)) /\ todo \in Seq(Items)
      /\ m_itemBuffer \in Seq(Items)
  BY DEF TypeOK, ServerTypeOK, LocalTypeOK, BridgeTypeOK
<1>1. CASE SendStep("poll")
  <2>1. UNCHANGED receivedVars
    BY <1>1, SendStepStays DEF receivedVars, Threads
  <2> QED BY <2>1, ReceivedQuiet
<1>2. CASE SlotConnected
  BY <1>2, ItemsSent DEF ReceivedInv, Received
<1>3. CASE ItemsReceived
  <2>1. /\ todo = <<>> /\ todo' = Head(fromServer) /\ fromServer' = Tail(fromServer)
        /\ fromServer # <<>> /\ UNCHANGED <<srvItems, link, m_itemBuffer>>
    BY <1>3 DEF ItemsReceived, Polling, PhaseInv, TodoTidy, Sending
  <2>2. ElementsOfAll(fromServer)
          \subseteq Elements(Head(fromServer)) \cup ElementsOfAll(Tail(fromServer))
    BY <1>0, <2>1, ElementsOfAllTail
  <2>3. Elements(todo) = {}
    BY <2>1 DEF Elements
  <2>4. Received \subseteq Received'
    BY <2>1, <2>2, <2>3 DEF Received
  <2> QED BY <2>1, <2>4 DEF ReceivedInv, Granted
<1>4. CASE BufferItem
  <2>1. /\ todo # <<>> /\ todo' = Tail(todo)
        /\ m_itemBuffer' = Append(m_itemBuffer, Head(todo))
        /\ UNCHANGED <<srvItems, link, fromServer>>
    BY <1>4 DEF BufferItem, PushItem
  <2>2. Elements(todo) = {Head(todo)} \cup Elements(Tail(todo))
    BY <1>0, <2>1, ElementsTail
  <2>3. Elements(Append(m_itemBuffer, Head(todo)))
          = Elements(m_itemBuffer) \cup {Head(todo)}
    BY <1>0, ElementsAppend
  <2>4. Received \subseteq Received'
    BY <2>1, <2>2, <2>3 DEF Received
  <2> QED BY <2>1, <2>4 DEF ReceivedInv, Granted
<1>5. CASE MergeChecked \/ ReadSlotData \/ SocketClosed \/ SocketDisconnected
           \/ ItemsDone
  BY <1>5, ReceivedQuiet DEF MergeChecked, ReadSlotData, SocketClosed,
     SocketDisconnected, ItemsDone, receivedVars
<1> QED BY <1>1, <1>2, <1>3, <1>4, <1>5 DEF PollStep

\* Nothing the server has granted is lost on a connection that holds.
THEOREM ReceivedHolds == Spec => []ReceivedInv
<1>1. Init => ReceivedInv
  BY DEF Init, ReceivedInv
<1>2. TypeOK /\ PhaseInv /\ ReceivedInv /\ [Next]_vars => ReceivedInv'
  <2> SUFFICES ASSUME TypeOK, PhaseInv, ReceivedInv, [Next]_vars
               PROVE  ReceivedInv'
    OBVIOUS
  <2>1. CASE PipeStep \/ MainStep
    BY <2>1, PipeStepStays, MainStepStays, ReceivedQuiet DEF receivedVars
  <2>2. CASE LinkBreaks
    BY <2>2 DEF LinkBreaks, ReceivedInv
  <2>3. ASSUME NEW item \in Items, ServerGrants(item) PROVE ReceivedInv'
    <3>1. /\ srvItems' = Append(srvItems, item)
          /\ fromServer' = IF link THEN Append(fromServer, <<item>>) ELSE fromServer
          /\ UNCHANGED <<link, todo, m_itemBuffer>>
          /\ srvItems \in Seq(Items) /\ fromServer \in Seq(Seq(Items))
      BY <2>3 DEF ServerGrants, TypeOK, ServerTypeOK
    <3>2. Granted' = Granted \cup {item}
      BY <3>1, ElementsAppend DEF Granted, Elements
    <3>3. link => ElementsOfAll(fromServer') = ElementsOfAll(fromServer) \cup Elements(<<item>>)
      BY <3>1, ElementsOfAllAppend
    <3>4. item \in Elements(<<item>>)
      <4>1. Len(<<item>>) = 1 /\ <<item>>[1] = item
        OBVIOUS
      <4> QED BY <4>1 DEF Elements
    <3> QED BY <3>1, <3>2, <3>3, <3>4 DEF ReceivedInv, Received
  <2>4. CASE DllConnects \/ DllStep \/ SendReport \/ GameStep \/ ServerReads
    BY <2>4, ReceivedQuiet DEF DllConnects, DllStep, ReadMessage, ReadMixedUp,
       SendReport, GameStep, GameLoads, GameWon, ChapterShown, SkullClaimed,
       ShellCommand, Report, ServerReads, receivedVars
  <2>5. CASE UNCHANGED vars
    BY <2>5, ReceivedQuiet DEF vars, receivedVars
  <2> QED BY <2>1, <2>2, <2>3, <2>4, <2>5, PollStepReceived DEF Next
<1> QED BY <1>1, <1>2, TypeCorrect, PhasesHold, PTL DEF Spec

-----------------------------------------------------------------------------
(***************************************************************************)
(* While the DLL is connected an item on its way stays on its way until it *)
(* is applied.                                                             *)
(***************************************************************************)
Flowing == m_sendToDll /\ pipeConnected

\* What a thread was sending it still sends, or has put into the pipe.
MessageGoesOn ==
  \A u \in Threads : \/ msg'[u] = msg[u]
                     \/ msg[u] = NoMessage
                     \/ \E n \in 1 .. Len(down') : down'[n].msg = msg[u]

PipeKept ==
  \A n \in 1 .. Len(down) : n \in 1 .. Len(down') /\ down'[n] = down[n]

LEMMA ReachedOn ==
  ASSUME TypeOK, MessageGoesOn, PipeKept, UNCHANGED <<unlocked, skulls>>,
         NEW item, Reached(item)
  PROVE  Reached(item)'
<1>1. CASE Applied(item)
  BY <1>1 DEF Applied, Reached
<1>2. ASSUME NEW t \in Threads, Carries(msg[t], item) PROVE Reached(item)'
  <2>1. msg[t] # NoMessage
    BY <1>2 DEF Carries, NoMessage
  <2> QED BY <1>2, <2>1 DEF MessageGoesOn, Reached, Carried, Carries
<1>3. ASSUME NEW n \in 1 .. Len(down), Carries(down[n].msg, item)
      PROVE  Reached(item)'
  BY <1>3 DEF PipeKept, Reached, Carried, Carries
<1> QED BY <1>1, <1>2, <1>3 DEF Reached, Carried

LEMMA SendStepGoesOn ==
  ASSUME TypeOK, MessageTidy, Flowing, NEW t \in Threads, SendStep(t)
  PROVE  MessageGoesOn /\ PipeKept
<1>0. \A u \in Threads \ {t} : msg'[u] = msg[u]
  BY SendStepStays
<1>1. CASE WriteLength(t) \/ WriteBody(t)
  <2>1. PICK part : Write(t, part)
    BY <1>1 DEF WriteLength, WriteBody
  <2> DEFINE e == [from |-> t, part |-> part, msg |-> msg[t]]
  <2>2. down \in Seq(Chunks) /\ down' = Append(down, e) /\ e.msg = msg[t]
    BY <2>1 DEF Write, TypeOK, PipeTypeOK
  <2> HIDE DEF e
  <2>3. /\ Len(down') = Len(down) + 1 /\ Len(down) \in Nat
        /\ \A n \in 1 .. Len(down) : down'[n] = down[n]
        /\ down'[Len(down) + 1].msg = msg[t]
    BY <2>2, AppendedChunk
  <2>4. PipeKept
    BY <2>3 DEF PipeKept
  <2>5. Len(down) + 1 \in 1 .. Len(down')
    BY <2>3
  <2> QED BY <1>0, <2>3, <2>4, <2>5 DEF MessageGoesOn
<1>2. CASE SendCompleted(t) \/ SendFinalMission(t)
  <2>1. UNCHANGED down /\ msg[t] = NoMessage
    BY <1>2 DEF SendCompleted, SendFinalMission, MessageTidy, Sending
  <2> QED BY <1>0, <2>1 DEF MessageGoesOn, PipeKept
<1>3. CASE SkipCompletionState(t) \/ ReleaseChecked(t)
  BY <1>3 DEF SkipCompletionState, ReleaseChecked, MessageGoesOn, PipeKept
<1>4. ~SendToNobody(t)
  BY DEF SendToNobody, Flowing
<1> QED BY <1>1, <1>2, <1>3, <1>4 DEF SendStep

LEMMA ThreadStepGoesOn ==
  ASSUME TypeOK, MessageTidy, Flowing, PollStep \/ PipeStep \/ MainStep
  PROVE  MessageGoesOn /\ PipeKept
<1>0. /\ msg \in [Threads -> Messages \cup {NoMessage}]
      /\ "poll" \in Threads /\ "pipe" \in Threads /\ "main" \in Threads
  BY DEF TypeOK, ThreadTypeOK, Threads
<1>1. CASE SendStep("poll") \/ SendStep("pipe") \/ SendStep("main")
  BY <1>0, <1>1, SendStepGoesOn
<1>2. CASE PollStep /\ ~SendStep("poll")
  <2>1. CASE BufferItem
    <3>1. UNCHANGED down /\ msg["poll"] = NoMessage
      BY <1>0, <2>1 DEF BufferItem, MessageTidy, Sending
    <3>2. \A u \in Threads \ {"poll"} : msg'[u] = msg[u]
      BY <1>0, <2>1 DEF BufferItem, CallSend
    <3> QED BY <3>1, <3>2 DEF MessageGoesOn, PipeKept
  <2>2. CASE ~BufferItem
    <3>1. UNCHANGED <<down, msg>>
      BY <1>2, <2>2 DEF PollStep, SlotConnected, MergeChecked, ReadSlotData,
         SocketClosed, SocketDisconnected, ItemsReceived, ItemsDone
    <3> QED BY <3>1 DEF MessageGoesOn, PipeKept
  <2> QED BY <2>1, <2>2
<1>3. CASE PipeStep /\ ~SendStep("pipe")
  <2>1. UNCHANGED <<down, msg>>
    BY <1>3 DEF PipeStep, PipeAccepts, HandleMissionLoad, HandleMissionComplete,
       HandleChapter, HandleLocationChecked, TakeReport, BeginSendLocation,
       DropLocation, MarkSent, LocationChecks, TrackChecked, ReportGoal
  <2> QED BY <2>1 DEF MessageGoesOn, PipeKept
<1>4. CASE MainStep /\ ~SendStep("main")
  <2>1. UNCHANGED down /\ (msg' = msg \/ ~Sending("main"))
    BY <1>4 DEF MainStep, SlotSeen, SlotTimeout, StartPipe, SetSendToDll,
       ReplayTier, LockBuffer, ReplayItem, ReplayDone, Sending
  <2>2. \A u \in Threads \ {"main"} : msg'[u] = msg[u]
    BY <1>0, <1>4 DEF MainStep, SlotSeen, SlotTimeout, StartPipe, SetSendToDll,
       ReplayTier, LockBuffer, ReplayItem, ReplayDone, CallSend
  <2> QED BY <1>0, <2>1, <2>2 DEF MessageGoesOn, PipeKept, MessageTidy
<1> QED BY <1>1, <1>2, <1>3, <1>4

\* The DLL applies the item of the message it reads; the other messages move up.
LEMMA ReadReaches ==
  ASSUME TypeOK, Paired, ReadMessage, NEW item \in Int, Reached(item)
  PROVE  Reached(item)'
<1>1. /\ down \in Seq(Chunks) /\ Len(down) \in Nat /\ Len(down) >= 2
      /\ down[2].part = "body" /\ HandleMessage(down[2].msg)
      /\ down' = Tail(Tail(down)) /\ msg' = msg
  BY DEF ReadMessage, LengthRead, TypeOK, PipeTypeOK
<1>2. /\ Len(down') = Len(down) - 2
      /\ \A n \in 1 .. Len(down) - 2 : down'[n] = down[n + 2]
  BY <1>1, RestByTwo
<1>3. unlocked \subseteq unlocked' /\ skulls \subseteq skulls'
  BY <1>1 DEF HandleMessage, ApplyItem
<1>4. CASE Applied(item)
  BY <1>3, <1>4 DEF Reached, Applied
<1>5. ASSUME NEW t \in Threads, Carries(msg[t], item) PROVE Reached(item)'
  BY <1>1, <1>5 DEF Reached, Carried, Carries
<1>6. ASSUME NEW n \in 1 .. Len(down), Carries(down[n].msg, item)
      PROVE  Reached(item)'
  <2>1. CASE n \in {1, 2}
    <3>1. down[1].msg = down[2].msg
      BY <1>1 DEF Paired, Announced
    <3>2. down[2].msg.kind = "ITEM_RECIVED" /\ down[2].msg.item = item
      BY <1>6, <2>1, <3>1 DEF Carries
    <3>3. ApplyItem(item)
      BY <1>1, <3>2 DEF HandleMessage
    <3> DEFINE m == translateItemToMission(item)
               k == translateItemToSkullDisabler(item)
    <3>4. /\ unlocked' = IF m >= 0 THEN unlocked \cup {m} ELSE unlocked
          /\ skulls' = IF m < 0 /\ k >= 0 THEN skulls \cup {k} ELSE skulls
      BY <3>3 DEF ApplyItem
    <3>5. m \in Missions \cup {-1} /\ k \in Int /\ (m >= 0 => k = -1)
      <4>1. m \in Missions \cup {-1} /\ (m >= 0 => k = -1)
        BY MissionOfItem, ItemsApart
      <4>2. k \in (0 .. SKULL_DISABLER_COUNT - 1) \cup {-1}
        BY SkullOfItem
      <4> HIDE DEF m, k
      <4> QED BY <4>1, <4>2 DEF SKULL_DISABLER_COUNT
    <3>6. m \in Int
      BY <3>5, MissionCountAssumption DEF Missions
    <3> HIDE DEF m, k
    <3>7. (m >= 0 => m \in unlocked') /\ (k >= 0 => k \in skulls')
      BY <3>4, <3>5, <3>6
    <3> QED BY <3>7 DEF Reached, Applied, m, k
  <2>2. CASE n \notin {1, 2}
    <3>1. /\ n - 2 \in 1 .. Len(down) - 2 /\ n - 2 \in 1 .. Len(down')
          /\ down'[n - 2] = down[(n - 2) + 2] /\ (n - 2) + 2 = n
      BY <1>1, <1>2, <2>2
    <3> QED BY <1>6, <3>1 DEF Reached, Carried, Carries
  <2> QED BY <2>1, <2>2
<1> QED BY <1>4, <1>5, <1>6 DEF Reached, Carried

LEMMA ReachedKept ==
  ASSUME TypeOK, MessageTidy, Flowing, Paired, [Next]_vars, dll' # "dead",
         NEW item \in Int, Reached(item)
  PROVE  Reached(item)'
<1>1. CASE PollStep \/ PipeStep \/ MainStep
  <2>1. UNCHANGED <<unlocked, skulls>>
    <3>1. CASE MainStep \/ PipeStep
      <4>1. CASE MainStep
        BY <4>1, MainStepStays
      <4>2. CASE PipeStep
        BY <4>2, PipeStepStays
      <4> QED BY <3>1, <4>1, <4>2
    <3>2. CASE PollStep
      BY <3>2, PollStepQuiet
    <3> QED BY <1>1, <3>1, <3>2
  <2> QED BY <1>1, <2>1, ThreadStepGoesOn, ReachedOn
<1>2. CASE ReadMessage
  BY <1>2, ReadReaches
<1>3. CASE DllConnects \/ SendReport \/ GameStep \/ ServerReads \/ LinkBreaks
           \/ \E i \in Items : ServerGrants(i)
  <2>1. UNCHANGED <<msg, down, unlocked, skulls>>
    BY <1>3 DEF DllConnects, SendReport, GameStep, GameLoads, GameWon, ChapterShown,
       SkullClaimed, ShellCommand, Report, ServerReads, LinkBreaks, ServerGrants
  <2> QED BY <2>1 DEF Reached, Applied, Carried
<1>4. CASE UNCHANGED vars
  <2>1. UNCHANGED <<msg, down, unlocked, skulls>>
    BY <1>4 DEF vars
  <2> QED BY <2>1 DEF Reached, Applied, Carried
<1>5. ~ReadMixedUp
  BY DEF ReadMixedUp
<1> QED BY <1>1, <1>2, <1>3, <1>4, <1>5 DEF Next, DllStep

LEMMA ReplayStep ==
  ASSUME TypeOK, PhaseInv, PairInv, ReplayInv, [Next]_vars, dll' # "dead"
  PROVE  Delivered'
<1>1. dll # "dead"
  BY DeadStays
<1>2. Paired /\ Delivered /\ Connected /\ MessageTidy /\ ReplayTidy
  BY <1>1 DEF PairInv, ReplayInv, PhaseInv
<1>3. /\ Len(m_itemBuffer) \in Nat /\ replayed \in Nat /\ replayed <= Len(m_itemBuffer)
      /\ \A n \in 1 .. Len(m_itemBuffer) : m_itemBuffer[n] \in Int
  <2>1. m_itemBuffer \in Seq(Items) /\ replayed \in Nat /\ Items \subseteq Int
    BY SessionAssumption DEF TypeOK, BridgeTypeOK, LocalTypeOK
  <2>2. \A n \in 1 .. Len(m_itemBuffer) : m_itemBuffer[n] \in Items
    BY <2>1, ElementOfSeq
  <2>3. Len(m_itemBuffer) \in Nat
    BY <2>1
  <2>4. replayed <= Len(m_itemBuffer)
    BY <1>2 DEF ReplayTidy
  <2> QED BY <2>1, <2>2, <2>3, <2>4
<1>4. \A n \in 1 .. Len(m_itemBuffer) : m_itemBuffer'[n] = m_itemBuffer[n]
  BY BufferGrows, BufferedItem
<1>5. Replaying \/ After => \A item \in Int : Reached(item) => Reached(item)'
  <2>1. Replaying \/ After => Flowing
    BY <1>2 DEF Replaying, After, Sending, Connected, NoPipeYet, Flowing
  <2> QED BY <1>2, <2>1, ReachedKept
\* What was reached in the buffer still is.
<1>6. ASSUME NEW n \in 1 .. Len(m_itemBuffer), Replaying \/ After,
             Reached(m_itemBuffer[n])
      PROVE  Reached(m_itemBuffer[n])'
  <2> DEFINE item == m_itemBuffer[n]
  <2>1. item \in Int /\ m_itemBuffer'[n] = item
    BY <1>3, <1>4
  <2>2. Applied(item) \/ Carried(item)
    BY <1>6 DEF Reached
  <2> QED BY <1>5, <1>6, <2>1, <2>2 DEF Reached, Applied, Carried, Carries
<1>7. CASE MainStep
  <2>1. m_itemBuffer' = m_itemBuffer
    BY <1>7, MainStepStays
  <2>2. CASE ReplayItem
    <3>1. /\ Replaying /\ replayed' = replayed + 1 /\ replayed < Len(m_itemBuffer)
          /\ msg'["main"].kind = "ITEM_RECIVED"
          /\ msg'["main"].item = m_itemBuffer[replayed + 1]
          /\ pc'["main"] = "send"
      BY <2>2 DEF ReplayItem, CallSend, Replaying, TypeOK, ThreadTypeOK, Threads
    <3>2. Reached(m_itemBuffer[replayed])'
      BY <2>1, <3>1 DEF Reached, Carried, Carries, Threads
    <3>3. \A n \in 1 .. replayed : Reached(m_itemBuffer[n])'
      BY <1>2, <1>3, <1>6, <3>1 DEF Delivered
    <3>4. ~After'
      BY <3>1 DEF After, Sending, CompletionKinds
    <3>5. \A n \in 1 .. replayed' : n \in 1 .. replayed \/ n = replayed'
      BY <1>3, <3>1
    <3> QED BY <3>2, <3>3, <3>4, <3>5 DEF Delivered
  <2>3. CASE LockBuffer
    <3>1. Before /\ replayed' = replayed /\ pc'["main"] = "replay"
      BY <2>3 DEF LockBuffer, Goto, Before, TypeOK, ThreadTypeOK, Threads
    <3>2. replayed' = 0 /\ ~After'
      BY <1>2, <3>1 DEF ReplayTidy, After, Sending
    <3> QED BY <3>2 DEF Delivered
  <2>4. CASE ReplayDone
    <3>1. Replaying /\ replayed = Len(m_itemBuffer) /\ pc'["main"] = "completionState"
      BY <2>4 DEF ReplayDone, Goto, Replaying, TypeOK, ThreadTypeOK, Threads
    <3>2. \A n \in 1 .. Len(m_itemBuffer) : Reached(m_itemBuffer[n])'
      BY <1>2, <1>6, <3>1 DEF Delivered
    <3>3. ~Replaying'
      BY <3>1 DEF Replaying, Sending
    <3> QED BY <2>1, <3>2, <3>3 DEF Delivered
  <2>5. CASE ~ReplayItem /\ ~LockBuffer /\ ~ReplayDone
    <3>1. replayed' = replayed
      <4>1. CASE SendStep("main")
        BY <4>1, SendStepStays DEF Threads
      <4> QED BY <1>7, <2>5, <4>1 DEF MainStep, SlotSeen, SlotTimeout, StartPipe,
                 SetSendToDll, ReplayTier
    <3>2. (Replaying' => Replaying) /\ (After' => After)
      BY <1>7, <2>5, MainPhases
    <3>3. \A n \in 1 .. replayed : n \in 1 .. Len(m_itemBuffer)
      BY <1>3
    <3>4. Replaying' => \A n \in 1 .. replayed : Reached(m_itemBuffer[n])'
      BY <1>2, <1>6, <3>2, <3>3 DEF Delivered
    <3>5. After' => \A n \in 1 .. Len(m_itemBuffer) : Reached(m_itemBuffer[n])'
      BY <1>2, <1>6, <3>2 DEF Delivered
    <3> QED BY <2>1, <3>1, <3>4, <3>5 DEF Delivered
  <2> QED BY <2>2, <2>3, <2>4, <2>5
<1>8. CASE ~MainStep
  <2>1. /\ replayed' = replayed
        /\ (Replaying' => Replaying) /\ (After' => After)
    <3>1. MainStays \/ UNCHANGED <<threadVars, replayed>>
      BY <1>8, PollStepStays, PipeStepStays DEF Next, vars, DllConnects, DllStep,
         ReadMessage, ReadMixedUp, SendReport, GameStep, GameLoads, GameWon,
         ChapterShown, SkullClaimed, ShellCommand, Report, ServerReads, LinkBreaks,
         ServerGrants
    <3> QED BY <3>1, SamePhase DEF MainStays
  <2>2. \A n \in 1 .. replayed : n \in 1 .. Len(m_itemBuffer)
    BY <1>3
  <2>3. Replaying' => \A n \in 1 .. replayed : Reached(m_itemBuffer[n])'
    BY <1>2, <1>6, <2>1, <2>2 DEF Delivered
  <2>4. After' => \A n \in 1 .. Len(m_itemBuffer) : Reached(m_itemBuffer[n])'
    BY <1>2, <1>6, <2>1 DEF Delivered
  <2>5. After' => \A n \in 1 .. Len(m_itemBuffer') : Reached(m_itemBuffer[n])'
    <3>1. CASE m_itemBuffer' = m_itemBuffer
      BY <2>4, <3>1
    <3>2. CASE m_itemBuffer' # m_itemBuffer
      <4> DEFINE k == Len(m_itemBuffer) + 1
      <4>1. /\ Len(m_itemBuffer') = k
            /\ m_itemBuffer'[k] = Head(todo)
            /\ msg'["poll"].kind = "ITEM_RECIVED" /\ msg'["poll"].item = Head(todo)
        BY <3>2, BufferGrows, BufferedItem
      <4> HIDE DEF k
      <4>2. Carries(msg'["poll"], m_itemBuffer'[k])
        BY <4>1 DEF Carries
      <4>3. \A n \in 1 .. k : n \in 1 .. Len(m_itemBuffer) \/ n = k
        BY <1>3 DEF k
      <4>4. ASSUME NEW n, n = k PROVE Reached(m_itemBuffer[n])'
        BY <4>2, <4>4 DEF Reached, Carried, Carries, Threads
      <4> QED BY <2>4, <4>1, <4>3, <4>4
    <3> QED BY <3>1, <3>2
  <2> QED BY <2>1, <2>3, <2>5 DEF Delivered
<1> QED BY <1>7, <1>8

\* Main's replay and the forwarding leave no gap: once main has replayed, all
\* of the buffer is applied or on its way.
THEOREM ReplayHolds == Spec => []ReplayInv
<1>1. Init => ReplayInv
  BY DEF Init, ReplayInv, Delivered, Replaying, After, Sending
<1>2. TypeOK /\ PhaseInv /\ PairInv /\ ReplayInv /\ [Next]_vars => ReplayInv'
  BY ReplayStep DEF ReplayInv
<1> QED BY <1>1, <1>2, TypeCorrect, PhasesHold, PairsHold, PTL DEF Spec

\* NoItemLost for every number of missions and items and every capacity of the
\* pipe.
THEOREM NoItemIsLost == Spec => []NoItemLost
<1>1. ReceivedInv /\ ReplayInv => NoItemLost
  <2> SUFFICES ASSUME ReceivedInv, ReplayInv, pc["main"] = "monitor",
                      dll = "reading", NEW item \in Granted, ~Underway(item)
               PROVE  Applied(item)
    BY DEF NoItemLost
  <2>1. item \in Received
    BY DEF ReceivedInv, Underway
  <2>2. item \notin Elements(todo)
    BY DEF Underway, Elements
  <2>3. item \notin ElementsOfAll(fromServer)
    BY DEF Underway, Elements, ElementsOfAll
  <2>4. \A n \in 1 .. Len(m_itemBuffer) : Reached(m_itemBuffer[n])
    BY DEF ReplayInv, Delivered, After
  <2>5. Reached(item)
    BY <2>1, <2>2, <2>3, <2>4 DEF Received, Elements
  <2> QED BY <2>5 DEF Reached, Carried, Underway
<1> QED BY <1>1, ReceivedHolds, ReplayHolds, PTL

-----------------------------------------------------------------------------
(***************************************************************************)
(* No earned location is forgotten while the connection holds: the safety  *)
(* that EarnedReachesUnbroken rests on.  It is the converse of StreamInv:  *)
(* there each report is backed by something earned, here each location     *)
(* earned is at the server, on its way there, in the hands of the pipe     *)
(* thread, or what a report still to be handled will be credited with.     *)
(***************************************************************************)
Reported == up \o sendQueue

\* Report r, handled while mission x is in effect, is credited with loc.
Credits(r, x, loc) ==
  \/ /\ r.kind = "MISSION_COMPLETE" /\ r.mission \in Missions
     /\ loc = CompletionLocation(r.mission)
  \/ r.kind = "LOCATION_CHECKED" /\ loc = r.location
  \/ /\ r.kind = "CHAPTER" /\ <<x, r.index>> \in DOMAIN ChapterLocation
     /\ loc = ChapterLocation[<<x, r.index>>]

\* Some report of s will be, m being in effect before the first.
Due(s, m, loc) ==
  \E i \in 1 .. Len(s) : \A x \in MapCodes :
    InEffect(s, m, i, x) => Credits(s[i], x, loc)

Sent(loc) ==
  \/ loc \in srvChecked
  \/ \E n \in 1 .. Len(toServer) :
       toServer[n].cmd = "LocationChecks" /\ loc \in toServer[n].locations

InHand(loc) == pc["pipe"] \in {"sendLocation", "locationChecks"} /\ location = loc

\* The first connection: main starts the pipe on it, and what is written to it
\* is not swallowed.
Unbroken == breaks = 0
UnbrokenInv ==
  Unbroken => /\ m_slotConnected = link /\ (link <=> state = "SLOT_CONNECTED")
              /\ pc["poll"] # "closing"
              /\ pc["main"] \notin {"waitSlot", "exited"} => link
              /\ pc["pipe"] # "notStarted" => link
              /\ ~link => toServer = <<>>
              /\ checkQueue = {}

\* A location is marked as sent (m_sentLocations) right before it is.
MarkedInv ==
  Unbroken => \A loc \in m_sentLocations :
    Sent(loc) \/ (pc["pipe"] = "locationChecks" /\ location = loc)

EarnedInv ==
  Unbroken /\ dll # "dead" =>
    \A loc \in earned : Sent(loc) \/ InHand(loc) \/ Due(Reported, m_mission, loc)

\* A report behind the others changes nothing for them.
LEMMA InEffectAppend ==
  ASSUME NEW s \in Seq(Reports), NEW r, NEW m, NEW x, NEW i \in 1 .. Len(s) + 1,
         InEffect(Append(s, r), m, i, x)
  PROVE  InEffect(s, m, i, x)
<1> DEFINE t == Append(s, r)
           L == Len(s)
<1>1. Len(t) = L + 1 /\ (\A n \in 1 .. L : t[n] = s[n]) /\ L \in Nat
  BY AppendedChunk
<1> HIDE DEF t, L
<1>2. i \in 1 .. L + 1 /\ InEffect(t, m, i, x)
  BY DEF t, L
<1>3. \A j \in 1 .. i - 1 : t[j] = s[j]
  BY <1>1, <1>2
<1>4. \A j \in 1 .. i - 1 : Names(t[j]) <=> Names(s[j])
  BY <1>3
<1>5. \A j \in 1 .. i - 1 : \A k \in j + 1 .. i - 1 : k \in 1 .. i - 1
  BY <1>1, <1>2
<1> QED BY <1>2, <1>3, <1>4, <1>5, Zenon DEF InEffect

LEMMA DueAppend ==
  ASSUME NEW s \in Seq(Reports), NEW r, NEW m, NEW loc
  PROVE  /\ Due(s, m, loc) => Due(Append(s, r), m, loc)
         /\ (\A x \in MapCodes :
               InEffect(s, m, Len(s) + 1, x) => Credits(r, x, loc))
              => Due(Append(s, r), m, loc)
<1> DEFINE t == Append(s, r)
           L == Len(s)
<1>1. /\ Len(t) = L + 1 /\ \A n \in 1 .. L : t[n] = s[n]
      /\ t[L + 1] = r /\ L \in Nat
  BY AppendedChunk
<1>2. \A i \in 1 .. L + 1 : \A x : InEffect(t, m, i, x) => InEffect(s, m, i, x)
  BY InEffectAppend
<1> HIDE DEF t
<1>3. ASSUME NEW i \in 1 .. L, \A x \in MapCodes :
               InEffect(s, m, i, x) => Credits(s[i], x, loc)
      PROVE  Due(t, m, loc)
  <2>1. i \in 1 .. Len(t) /\ i \in 1 .. L + 1 /\ t[i] = s[i]
    BY <1>1
  <2> QED BY <1>2, <1>3, <2>1 DEF Due
<1>4. ASSUME \A x \in MapCodes :
               InEffect(s, m, L + 1, x) => Credits(r, x, loc)
      PROVE  Due(t, m, loc)
  <2>1. L + 1 \in 1 .. Len(t) /\ L + 1 \in 1 .. L + 1
    BY <1>1
  <2> QED BY <1>1, <1>2, <1>4, <2>1 DEF Due
<1> QED BY <1>3, <1>4 DEF Due, t

\* What is due is credited with the first report, or still due after it.
LEMMA DueTail ==
  ASSUME NEW s \in Seq(Reports), s # <<>>, NEW m \in MapCodes,
         NEW n, NEW loc,
         n = IF Names(s[1]) THEN s[1].mission ELSE m,
         Due(s, m, loc)
  PROVE  Credits(s[1], m, loc) \/ Due(Tail(s), n, loc)
<1> DEFINE t == Tail(s)
<1>1. /\ Len(t) = Len(s) - 1 /\ Len(s) \in Nat \ {0}
      /\ \A k \in 1 .. Len(s) - 1 : t[k] = s[k + 1]
  BY RestOfStream
<1>2. ASSUME NEW i \in 1 .. Len(s), NEW x, InEffect(t, n, i, x)
      PROVE  InEffect(s, m, i + 1, x)
  BY <1>2, InEffectTail
<1> HIDE DEF t
<1>3. PICK i \in 1 .. Len(s) : \A x \in MapCodes :
        InEffect(s, m, i, x) => Credits(s[i], x, loc)
  BY DEF Due
<1>4. CASE i = 1
  <2>1. InEffect(s, m, 1, m)
    BY DEF InEffect
  <2> QED BY <1>3, <1>4, <2>1
<1>5. CASE i # 1
  <2>1. i - 1 \in 1 .. Len(t) /\ i - 1 \in 1 .. Len(s) /\ t[i - 1] = s[i]
        /\ (i - 1) + 1 = i
    BY <1>1, <1>5
  <2>2. \A x \in MapCodes :
          InEffect(t, n, i - 1, x) => Credits(t[i - 1], x, loc)
    BY <1>2, <1>3, <2>1
  <2> QED BY <2>1, <2>2 DEF Due, t
<1> QED BY <1>4, <1>5

\* What is at the server or on its way stays so, on a connection that holds.
LEMMA SentKept ==
  ASSUME TypeOK, UNCHANGED srvChecked,
         UNCHANGED toServer \/ \E packet : toServer' = Append(toServer, packet),
         NEW loc, Sent(loc)
  PROVE  Sent(loc)'
<1>1. CASE UNCHANGED toServer
  BY <1>1 DEF Sent
<1>2. ASSUME NEW packet, toServer' = Append(toServer, packet) PROVE Sent(loc)'
  <2> DEFINE q == toServer'
             L == Len(toServer)
  <2>1. Len(q) = L + 1 /\ L \in Nat /\ \A n \in 1 .. L : q[n] = toServer[n]
    BY <1>2, AppendedChunk DEF TypeOK, ServerTypeOK
  <2> HIDE DEF q, L
  <2>2. \A n \in 1 .. L : n \in 1 .. Len(q)
    BY <2>1
  <2> QED BY <2>1, <2>2 DEF Sent, q, L
<1> QED BY <1>1, <1>2

LEMMA SentRead ==
  ASSUME TypeOK, ServerReads, NEW loc, Sent(loc)
  PROVE  Sent(loc)'
<1>1. /\ toServer \in Seq(Packets) /\ toServer # <<>>
      /\ toServer' = Tail(toServer) /\ Head(toServer) = toServer[1]
  BY DEF ServerReads, TypeOK, ServerTypeOK
<1>2. /\ Len(toServer') = Len(toServer) - 1 /\ Len(toServer) \in Nat \ {0}
      /\ \A n \in 1 .. Len(toServer) - 1 : toServer'[n] = toServer[n + 1]
  BY <1>1, RestOfStream
<1>3. CASE loc \in srvChecked
  BY <1>3 DEF ServerReads, Sent
<1>4. ASSUME NEW n \in 1 .. Len(toServer),
             toServer[n].cmd = "LocationChecks", loc \in toServer[n].locations
      PROVE  Sent(loc)'
  <2>1. CASE n = 1
    BY <1>1, <1>4, <2>1 DEF ServerReads, Sent
  <2>2. CASE n # 1
    <3>1. n - 1 \in 1 .. Len(toServer') /\ toServer'[n - 1] = toServer[n]
      BY <1>2, <2>2
    <3> QED BY <1>4, <3>1 DEF Sent
  <2> QED BY <2>1, <2>2
<1> QED BY <1>3, <1>4 DEF Sent
-----------------------------------------------------------------------------
(***************************************************************************)
(* The first connection, step by step.                                     *)
(***************************************************************************)
LEMMA PollStepUnbroken ==
  ASSUME TypeOK, UnbrokenInv, PollStep
  PROVE  UnbrokenInv'
<1>0. "poll" \in Threads /\ "main" \in Threads /\ "pipe" \in Threads
        /\ pc \in [Threads -> AllLabels] /\ breaks' = breaks
  <2>1. CASE SendStep("poll")
    BY <2>1, SendStepQuiet DEF Threads, TypeOK, ThreadTypeOK
  <2>2. CASE ~SendStep("poll")
    BY <2>2 DEF PollStep, SlotConnected, MergeChecked, ReadSlotData, SocketClosed,
       SocketDisconnected, ItemsReceived, BufferItem, ItemsDone, Threads, TypeOK,
       ThreadTypeOK
  <2> QED BY <2>1, <2>2
<1>1. CASE SendStep("poll")
  <2>1. pc'["main"] = pc["main"] /\ pc'["pipe"] = pc["pipe"] /\ UNCHANGED world
    BY <1>0, <1>1, SendStepStays DEF Threads
  <2>2. UNCHANGED m_slotConnected
    BY <1>1 DEF SendStep, SendToNobody, WriteLength, WriteBody, SkipCompletionState,
       SendCompleted, SendFinalMission, ReleaseChecked
  <2>3. pc'["poll"] # "closing"
    BY <1>0, <1>1 DEF SendStep, SendToNobody, WriteLength, WriteBody,
       SkipCompletionState, SendCompleted, SendFinalMission, ReleaseChecked,
       CallSend, Goto, AfterSend, AfterCompletionState
  <2> QED BY <2>1, <2>2, <2>3 DEF UnbrokenInv, Unbroken
<1>2. CASE SlotConnected
  BY <1>0, <1>2 DEF SlotConnected, Goto, UnbrokenInv, Unbroken
<1>3. CASE SocketClosed \/ SocketDisconnected
  <2>1. ~Unbroken
    BY <1>3 DEF SocketClosed, SocketDisconnected, UnbrokenInv
  <2> QED BY <1>0, <2>1 DEF UnbrokenInv, Unbroken
<1>4. CASE MergeChecked \/ ReadSlotData \/ ItemsReceived \/ BufferItem \/ ItemsDone
  <2>1. /\ UNCHANGED <<link, state, toServer, checkQueue, m_slotConnected>>
        /\ pc'["main"] = pc["main"] /\ pc'["pipe"] = pc["pipe"]
        /\ pc'["poll"] # "closing"
    BY <1>0, <1>4 DEF MergeChecked, ReadSlotData, ItemsReceived, BufferItem,
       ItemsDone, Goto, CallSend
  <2> QED BY <1>0, <2>1 DEF UnbrokenInv, Unbroken
<1> QED BY <1>1, <1>2, <1>3, <1>4 DEF PollStep

LEMMA PipeStarted ==
  ASSUME TypeOK, PipeStep
  PROVE  pc["pipe"] # "notStarted"
BY DEF PipeStep, SendStep, SendToNobody, WriteLength, WriteBody,
   SkipCompletionState, SendCompleted, SendFinalMission, ReleaseChecked,
   PipeAccepts, HandleMissionLoad, HandleMissionComplete, HandleChapter,
   HandleLocationChecked, TakeReport, DropLocation, MarkSent, LocationChecks,
   TrackChecked, ReportGoal

LEMMA PipeStepUnbroken ==
  ASSUME TypeOK, UnbrokenInv, PipeStep
  PROVE  UnbrokenInv'
<1>1. /\ pc'["poll"] = pc["poll"] /\ pc'["main"] = pc["main"]
      /\ link' = link /\ pc["pipe"] # "notStarted"
  BY PipeStepStays, PipeStarted DEF MainStays
<1>2. UNCHANGED <<breaks, state, m_slotConnected>>
      /\ (checkQueue' = checkQueue \/ state # "SLOT_CONNECTED")
  <2>1. CASE SendStep("pipe")
    BY <2>1 DEF SendStep, SendToNobody, WriteLength, WriteBody, SkipCompletionState,
       SendCompleted, SendFinalMission, ReleaseChecked
  <2>2. CASE ~SendStep("pipe")
    BY <2>2 DEF PipeStep, PipeAccepts, HandleMissionLoad, HandleMissionComplete,
       HandleChapter, HandleLocationChecked, TakeReport, BeginSendLocation,
       DropLocation, MarkSent, LocationChecks, CanSendChecks, TrackChecked, ReportGoal
  <2> QED BY <2>1, <2>2
<1> QED BY <1>1, <1>2 DEF UnbrokenInv, Unbroken

LEMMA MainStepUnbroken ==
  ASSUME TypeOK, UnbrokenInv, MainStep
  PROVE  UnbrokenInv'
<1>0. "main" \in Threads /\ pc \in [Threads -> AllLabels] /\ "pipe" \in Threads
  BY DEF Threads, TypeOK, ThreadTypeOK
<1>1. pc'["poll"] = pc["poll"] /\ UNCHANGED world
  BY MainStepStays, MainStepQuiet
<1>2. UNCHANGED m_slotConnected
  <2>1. CASE SendStep("main")
    BY <2>1 DEF SendStep, SendToNobody, WriteLength, WriteBody, SkipCompletionState,
       SendCompleted, SendFinalMission, ReleaseChecked
  <2>2. CASE ~SendStep("main")
    BY <2>2 DEF MainStep, SlotSeen, SlotTimeout, StartPipe, SetSendToDll,
       ReplayTier, LockBuffer, ReplayItem, ReplayDone
  <2> QED BY <2>1, <2>2
<1>3. pc'["pipe"] = pc["pipe"] \/ pc["main"] = "startPipe"
  <2>1. CASE SendStep("main")
    BY <1>0, <2>1, SendStepStays DEF Threads
  <2>2. CASE ~SendStep("main")
    BY <1>0, <2>2 DEF MainStep, SlotSeen, SlotTimeout, StartPipe, SetSendToDll,
       ReplayTier, LockBuffer, ReplayItem, ReplayDone, Goto, CallSend
  <2> QED BY <2>1, <2>2
<1>4. \/ pc["main"] \notin {"waitSlot", "exited"}
      \/ m_slotConnected
      \/ pc'["main"] = "exited"
  BY <1>0 DEF MainStep, SlotSeen, SlotTimeout, StartPipe, SetSendToDll, ReplayTier,
     LockBuffer, ReplayItem, ReplayDone, Goto, SendStep, SendToNobody, WriteLength,
     WriteBody, SkipCompletionState, SendCompleted, SendFinalMission, ReleaseChecked
<1> QED BY <1>1, <1>2, <1>3, <1>4 DEF UnbrokenInv, Unbroken

LEMMA UnbrokenStep ==
  ASSUME TypeOK, UnbrokenInv, [Next]_vars
  PROVE  UnbrokenInv'
<1>1. CASE UNCHANGED vars
  BY <1>1 DEF vars, UnbrokenInv, Unbroken
<1>2. CASE DllConnects \/ DllStep \/ SendReport \/ GameStep
  BY <1>2 DEF DllConnects, DllStep, ReadMessage, ReadMixedUp, SendReport,
     GameStep, GameLoads, GameWon, ChapterShown, SkullClaimed, ShellCommand,
     Report, UnbrokenInv, Unbroken
<1>3. CASE ServerReads
  BY <1>3 DEF ServerReads, UnbrokenInv, Unbroken
<1>4. CASE LinkBreaks
  BY <1>4 DEF LinkBreaks, UnbrokenInv, Unbroken, TypeOK, ServerTypeOK
<1>5. CASE \E item \in Items : ServerGrants(item)
  BY <1>5 DEF ServerGrants, UnbrokenInv, Unbroken
<1> QED BY <1>1, <1>2, <1>3, <1>4, <1>5, PollStepUnbroken, PipeStepUnbroken,
           MainStepUnbroken DEF Next

\* Until the first break the bridge's flag, APClient's state and the socket
\* agree, and the pipe thread runs only with all three.
THEOREM UnbrokenHolds == Spec => []UnbrokenInv
<1>1. Init => UnbrokenInv
  <2>1. Init => /\ ~link /\ ~m_slotConnected /\ state = "DISCONNECTED"
                /\ toServer = <<>> /\ checkQueue = {}
    BY DEF Init
  <2>2. Init => /\ pc["poll"] = "idle" /\ pc["main"] = "waitSlot"
                /\ pc["pipe"] = "notStarted"
    BY DEF Init
  <2>3. Init => m_slotConnected = link
    BY DEF Init
  <2> QED BY <2>1, <2>2, <2>3 DEF UnbrokenInv
<1>2. TypeOK /\ UnbrokenInv /\ [Next]_vars => UnbrokenInv'
  BY UnbrokenStep
<1> QED BY <1>1, <1>2, TypeCorrect, PTL DEF Spec
-----------------------------------------------------------------------------
(***************************************************************************)
(* What is earned, step by step.                                           *)
(***************************************************************************)
LEMMA MarkedQuiet ==
  ASSUME MarkedInv, Unbroken' => Unbroken, m_sentLocations' = m_sentLocations,
         \A loc : Unbroken /\ Sent(loc) => Sent(loc)',
         pc["pipe"] = "locationChecks" =>
           pc'["pipe"] = "locationChecks" /\ location' = location
  PROVE  MarkedInv'
BY DEF MarkedInv

\* What was accounted for in one of the three ways still is in one of them.
LEMMA EarnedQuiet ==
  ASSUME EarnedInv, Unbroken' => Unbroken, dll' # "dead" => dll # "dead",
         earned' = earned,
         \A loc : Unbroken /\ Sent(loc) => Sent(loc)',
         Unbroken => \A loc : InHand(loc) => InHand(loc)' \/ Sent(loc)',
         dll # "dead" => \A loc : Due(Reported, m_mission, loc) =>
                           Due(Reported, m_mission, loc)' \/ InHand(loc)'
  PROVE  EarnedInv'
BY DEF EarnedInv

LEMMA DueSame ==
  ASSUME UNCHANGED <<up, sendQueue, m_mission>>
  PROVE  \A loc : Due(Reported, m_mission, loc)' = Due(Reported, m_mission, loc)
BY DEF Due, Reported, InEffect, Credits

LEMMA DueMoved ==
  ASSUME NEW t, Reported' = t, NEW m, m_mission' = m, NEW loc
  PROVE  Due(Reported, m_mission, loc)' = Due(t, m, loc)
BY DEF Due, InEffect, Credits

LEMMA PollStepPasses ==
  ASSUME TypeOK, UnbrokenInv, PollStep
  PROVE  /\ UNCHANGED <<streamVars, serverVars, location, goalMission, breaks,
                        m_sentLocations>>
         /\ pc'["pipe"] = pc["pipe"]
         /\ Unbroken => UNCHANGED toServer
<1>1. pc'["pipe"] = pc["pipe"]
  <2>1. CASE SendStep("poll")
    BY <2>1, SendStepStays DEF Threads
  <2>2. CASE ~SendStep("poll")
    BY <2>2 DEF PollStep, SlotConnected, MergeChecked, ReadSlotData, SocketClosed,
       SocketDisconnected, ItemsReceived, BufferItem, ItemsDone, Goto, CallSend,
       TypeOK, ThreadTypeOK, Threads
  <2> QED BY <2>1, <2>2
<1>2. /\ UNCHANGED <<breaks, m_sentLocations>>
      /\ Unbroken => UNCHANGED toServer
  <2>1. CASE SendStep("poll")
    BY <2>1 DEF SendStep, SendToNobody, WriteLength, WriteBody,
       SkipCompletionState, SendCompleted, SendFinalMission, ReleaseChecked
  <2>2. CASE SlotConnected
    <3>1. Unbroken => ~link
      BY <2>2 DEF SlotConnected, UnbrokenInv
    <3>2. Unbroken => toServer = <<>> /\ checkQueue = {}
      BY <3>1 DEF UnbrokenInv
    <3> QED BY <2>2, <3>2 DEF SlotConnected
  <2>3. CASE ~SendStep("poll") /\ ~SlotConnected
    BY <2>3 DEF PollStep, MergeChecked, ReadSlotData, SocketClosed,
       SocketDisconnected, ItemsReceived, BufferItem, ItemsDone
  <2> QED BY <2>1, <2>2, <2>3
<1> QED BY <1>1, <1>2, PollStepQuiet

LEMMA MainStepPasses ==
  ASSUME TypeOK, PhaseInv, MainStep
  PROVE  /\ pc'["pipe"] = pc["pipe"] \/ pc["pipe"] = "notStarted"
         /\ UNCHANGED m_sentLocations
<1>0. "main" \in Threads /\ pc \in [Threads -> AllLabels] /\ "pipe" \in Threads
  BY DEF Threads, TypeOK, ThreadTypeOK
<1>1. pc'["pipe"] = pc["pipe"] \/ pc["pipe"] = "notStarted"
  <2>1. CASE SendStep("main")
    BY <1>0, <2>1, SendStepStays DEF Threads
  <2>2. CASE ~SendStep("main")
    BY <1>0, <2>2 DEF MainStep, SlotSeen, SlotTimeout, StartPipe, SetSendToDll,
       ReplayTier, LockBuffer, ReplayItem, ReplayDone, Goto, CallSend, PhaseInv,
       NotStarted
  <2> QED BY <2>1, <2>2
<1>2. UNCHANGED m_sentLocations
  <2>1. CASE SendStep("main")
    BY <2>1 DEF SendStep, SendToNobody, WriteLength, WriteBody, SkipCompletionState,
       SendCompleted, SendFinalMission, ReleaseChecked
  <2>2. CASE ~SendStep("main")
    BY <2>2 DEF MainStep, SlotSeen, SlotTimeout, StartPipe, SetSendToDll,
       ReplayTier, LockBuffer, ReplayItem, ReplayDone
  <2> QED BY <2>1, <2>2
<1> QED BY <1>1, <1>2

LEMMA ReportedKept ==
  ASSUME TypeOK, StreamInv, DllConnects \/ DllStep \/ SendReport
  PROVE  Reported' = Reported \/ dll = "dead"
<1>0. up \in Seq(Reports) /\ sendQueue \in Seq(Reports)
  BY DEF TypeOK, PipeTypeOK, DllTypeOK
<1>1. CASE DllConnects \/ DllStep
  BY <1>1 DEF DllConnects, DllStep, ReadMessage, ReadMixedUp, Reported
<1>2. CASE SendReport
  <2>1. /\ sendQueue # <<>> /\ sendQueue' = Tail(sendQueue)
        /\ up' = IF dll = "reading" THEN Append(up, Head(sendQueue)) ELSE up
    BY <1>2 DEF SendReport
  <2>2. dll \in {"reading", "dead"}
    BY <2>1 DEF StreamInv, TypeOK, DllTypeOK
  <2> QED BY <1>0, <2>1, <2>2, ReportMoved DEF Reported
<1> QED BY <1>1, <1>2

LEMMA PollStepEarned ==
  ASSUME TypeOK, UnbrokenInv, MarkedInv, EarnedInv, PollStep
  PROVE  MarkedInv' /\ EarnedInv'
<1>1. /\ UNCHANGED <<up, dll, sendQueue, m_mission, earned, srvChecked, location>>
      /\ pc'["pipe"] = pc["pipe"]
      /\ UNCHANGED <<breaks, m_sentLocations>>
      /\ Unbroken => UNCHANGED toServer
  BY PollStepPasses DEF streamVars
<1>2. Unbroken' = Unbroken /\ \A loc : Unbroken /\ Sent(loc) => Sent(loc)'
  BY <1>1 DEF Unbroken, Sent
<1>3. \A loc : InHand(loc) => InHand(loc)'
  BY <1>1 DEF InHand
<1> QED BY <1>1, <1>2, <1>3, DueSame, MarkedQuiet, EarnedQuiet

LEMMA MainStepEarned ==
  ASSUME TypeOK, PhaseInv, MarkedInv, EarnedInv, MainStep
  PROVE  MarkedInv' /\ EarnedInv'
<1>1. (pc'["pipe"] = pc["pipe"] \/ pc["pipe"] = "notStarted") /\ UNCHANGED m_sentLocations
  BY MainStepPasses
<1>2. /\ UNCHANGED <<up, dll, sendQueue, m_mission, earned, srvChecked, location,
                     breaks, toServer>>
  BY MainStepQuiet DEF streamVars
<1>3. Unbroken' = Unbroken /\ \A loc : Sent(loc) => Sent(loc)'
  BY <1>2 DEF Unbroken, Sent
<1>4. \A loc : InHand(loc) => InHand(loc)'
  BY <1>1, <1>2 DEF InHand
<1> QED BY <1>1, <1>2, <1>3, <1>4, DueSame, MarkedQuiet, EarnedQuiet

\* The pipe thread takes the first report: it has then in hand what the report
\* is credited with, and the rest stays due.
LEMMA TakenEarned ==
  ASSUME TypeOK, StreamInv, MarkedInv, EarnedInv, HandleReport
  PROVE  MarkedInv' /\ EarnedInv'
<1>1. /\ up # <<>> /\ up' = Tail(up) /\ pc["pipe"] = "idle" /\ Head(up) = up[1]
      /\ UNCHANGED <<dll, sendQueue, earned, srvChecked, toServer, breaks,
                     m_sentLocations>>
  BY DEF HandleReport, HandleMissionLoad, HandleMissionComplete, HandleChapter,
         HandleLocationChecked, TakeReport, BeginSendLocation, TypeOK, PipeTypeOK
<1>2. m_mission' = IF Names(up[1]) THEN up[1].mission ELSE m_mission
  BY <1>1 DEF HandleReport, HandleMissionLoad, HandleMissionComplete,
     HandleChapter, HandleLocationChecked, TakeReport, BeginSendLocation, Names
<1>3. /\ up \in Seq(Reports) /\ sendQueue \in Seq(Reports) /\ up[1] \in Reports
      /\ m_mission \in MapCodes /\ pc \in [Threads -> AllLabels]
      /\ "pipe" \in Threads
  BY <1>1, EmptySeq DEF TypeOK, PipeTypeOK, DllTypeOK, BridgeTypeOK, ThreadTypeOK,
     Threads
<1>4. /\ Reported # <<>> /\ Reported[1] = up[1] /\ Reported' = Tail(Reported)
      /\ Reported \in Seq(Reports)
  BY <1>1, <1>3, TailMoved, ConcatProperties DEF Reported
<1>5. \A loc : ~InHand(loc)
  BY <1>1 DEF InHand
<1>6. \A loc : Sent(loc) => Sent(loc)'
  BY <1>1 DEF Sent
<1>7. Unbroken' = Unbroken
  BY <1>1 DEF Unbroken
<1>8. ASSUME NEW loc, Credits(up[1], m_mission, loc) PROVE InHand(loc)'
  <2>1. CASE HandleMissionLoad
    BY <1>1, <1>8, <2>1 DEF HandleMissionLoad, TakeReport, Credits
  <2>2. CASE HandleMissionComplete
    BY <1>1, <1>3, <1>8, <2>2 DEF HandleMissionComplete, TakeReport,
       BeginSendLocation, Goto, Credits, InHand
  <2>3. CASE HandleChapter
    BY <1>1, <1>3, <1>8, <2>3 DEF HandleChapter, TakeReport, BeginSendLocation,
       Goto, Credits, InHand
  <2>4. CASE HandleLocationChecked
    BY <1>1, <1>3, <1>8, <2>4 DEF HandleLocationChecked, TakeReport,
       BeginSendLocation, Goto, Credits, InHand
  <2> QED BY <2>1, <2>2, <2>3, <2>4 DEF HandleReport
<1>9. ASSUME NEW loc, Due(Reported, m_mission, loc)
      PROVE  Due(Reported, m_mission, loc)' \/ InHand(loc)'
  <2> DEFINE s == Reported
             n == m_mission'
  <2>1. n = IF Names(s[1]) THEN s[1].mission ELSE m_mission
    BY <1>2, <1>4
  <2>2. s \in Seq(Reports) /\ s # <<>> /\ Due(s, m_mission, loc)
    BY <1>4, <1>9
  <2>3. Due(Tail(Reported), m_mission', loc) = Due(Reported, m_mission, loc)'
    BY <1>4, DueMoved
  <2> HIDE DEF s, n
  <2>4. Credits(s[1], m_mission, loc) \/ Due(Tail(s), n, loc)
    BY <1>3, <2>1, <2>2, DueTail
  <2> QED BY <1>4, <1>8, <2>3, <2>4 DEF s, n
<1>10. MarkedInv'
  BY <1>1, <1>6, <1>7, MarkedQuiet
<1>11. EarnedInv'
  BY <1>1, <1>5, <1>6, <1>7, <1>9, EarnedQuiet
<1> QED BY <1>10, <1>11

LEMMA PipeStepEarned ==
  ASSUME TypeOK, StreamInv, UnbrokenInv, MarkedInv, EarnedInv, PipeStep
  PROVE  MarkedInv' /\ EarnedInv'
<1>0. /\ "pipe" \in Threads /\ pc \in [Threads -> AllLabels]
      /\ pc["pipe"] # "notStarted"
  BY PipeStarted DEF Threads, TypeOK, ThreadTypeOK
<1>1. CASE HandleReport
  BY <1>1, TakenEarned
<1>2. CASE ~HandleReport
  <2>1. UNCHANGED <<up, dll, sendQueue, m_mission, earned>>
    BY <1>2, PipeStepQuiet DEF streamVars
  <2>2. CASE SendStep("pipe") \/ PipeAccepts \/ TrackChecked \/ ReportGoal
    <3>1. /\ UNCHANGED <<breaks, m_sentLocations, srvChecked>>
          /\ UNCHANGED toServer \/ \E packet : toServer' = Append(toServer, packet)
          /\ pc["pipe"] \notin {"sendLocation", "locationChecks"}
      BY <2>2 DEF SendStep, SendToNobody, WriteLength, WriteBody,
         SkipCompletionState, SendCompleted, SendFinalMission, ReleaseChecked,
         PipeAccepts, TrackChecked, ReportGoal, ToServer
    <3>2. Unbroken' = Unbroken /\ \A loc : Sent(loc) => Sent(loc)'
      BY <3>1, SentKept DEF Unbroken
    <3>3. \A loc : ~InHand(loc)
      BY <3>1 DEF InHand
    <3> QED BY <2>1, <3>1, <3>2, <3>3, DueSame, MarkedQuiet, EarnedQuiet
  <2>3. CASE DropLocation
    <3>1. /\ UNCHANGED <<breaks, m_sentLocations, srvChecked, toServer>>
          /\ pc["pipe"] = "sendLocation"
      BY <2>3 DEF DropLocation
    <3>2. Unbroken' = Unbroken /\ \A loc : Sent(loc)' = Sent(loc)
      BY <3>1 DEF Unbroken, Sent
    <3>3. Unbroken => location \in m_sentLocations
      BY <1>0, <2>3 DEF DropLocation, UnbrokenInv
    <3>4. Unbroken => \A loc : InHand(loc) => Sent(loc)'
      BY <3>1, <3>2, <3>3 DEF MarkedInv, InHand
    <3> QED BY <2>1, <3>1, <3>2, <3>4, DueSame, MarkedQuiet, EarnedQuiet
  <2>4. CASE MarkSent
    <3>1. /\ UNCHANGED <<breaks, srvChecked, toServer, location>>
          /\ m_sentLocations' = m_sentLocations \cup {location}
          /\ pc["pipe"] = "sendLocation" /\ pc'["pipe"] = "locationChecks"
      BY <1>0, <2>4 DEF MarkSent, Goto
    <3>2. Unbroken' = Unbroken /\ \A loc : Sent(loc)' = Sent(loc)
      BY <3>1 DEF Unbroken, Sent
    <3>3. \A loc : InHand(loc) => InHand(loc)'
      BY <3>1 DEF InHand
    <3>4. MarkedInv'
      BY <3>1, <3>2 DEF MarkedInv
    <3> QED BY <2>1, <3>2, <3>3, <3>4, DueSame, EarnedQuiet
  <2>5. CASE LocationChecks
    <3> DEFINE packet == [cmd |-> "LocationChecks", locations |-> {location}]
               q == toServer'
    <3>1. /\ UNCHANGED <<breaks, m_sentLocations, srvChecked, location>>
          /\ UNCHANGED toServer \/ q = Append(toServer, packet)
          /\ Unbroken => q = Append(toServer, packet)
      BY <1>0, <2>5 DEF LocationChecks, ToServer, CanSendChecks, UnbrokenInv
    <3>2. Unbroken' = Unbroken /\ \A loc : Sent(loc) => Sent(loc)'
      BY <3>1, SentKept DEF Unbroken
    <3>3. Unbroken => Sent(location)'
      <4>1. ASSUME Unbroken PROVE /\ Len(q) = Len(toServer) + 1
                                  /\ Len(toServer) \in Nat
                                  /\ q[Len(toServer) + 1] = packet
        BY <3>1, <4>1, AppendedChunk DEF TypeOK, ServerTypeOK
      <4>2. packet.cmd = "LocationChecks" /\ location \in packet.locations
        OBVIOUS
      <4> HIDE DEF packet, q
      <4>3. ASSUME Unbroken PROVE Len(toServer) + 1 \in 1 .. Len(q)
        BY <4>1, <4>3
      <4> QED BY <3>1, <4>1, <4>2, <4>3 DEF Sent, q
    <3>4. \A loc : InHand(loc) => loc = location
      BY DEF InHand
    <3>5. MarkedInv'
      BY <3>1, <3>2, <3>3 DEF MarkedInv
    <3>6. Unbroken => \A loc : InHand(loc) => Sent(loc)'
      BY <3>1, <3>3, <3>4
    <3> HIDE DEF q
    <3>7. EarnedInv'
      BY <2>1, <3>2, <3>6, DueSame, EarnedQuiet
    <3> QED BY <3>5, <3>7
  <2> QED BY <1>2, <2>2, <2>3, <2>4, <2>5 DEF PipeStep, HandleReport
<1> QED BY <1>1, <1>2

LEMMA DllStepEarned ==
  ASSUME TypeOK, StreamInv, MarkedInv, EarnedInv, DllConnects \/ DllStep \/ SendReport
  PROVE  MarkedInv' /\ EarnedInv'
<1>0. up \in Seq(Reports) /\ sendQueue \in Seq(Reports)
  BY DEF TypeOK, PipeTypeOK, DllTypeOK
<1>1. /\ UNCHANGED <<breaks, m_sentLocations, srvChecked, toServer, pc, location,
                     earned, m_mission>>
      /\ dll' # "dead" => dll # "dead"
  BY DEF DllConnects, DllStep, ReadMessage, ReadMixedUp, SendReport
<1>2. /\ Unbroken' = Unbroken /\ \A loc : Sent(loc)' = Sent(loc)
      /\ \A loc : InHand(loc)' = InHand(loc)
  BY <1>1 DEF Unbroken, Sent, InHand
<1>3. MarkedInv'
  BY <1>1, <1>2, MarkedQuiet
<1>4. Reported' = Reported \/ dll = "dead"
  BY ReportedKept
<1>5. dll # "dead" => \A loc : Due(Reported, m_mission, loc) =>
                                 Due(Reported, m_mission, loc)'
  BY <1>1, <1>4, DueMoved
<1>6. EarnedInv'
  BY <1>1, <1>2, <1>5, EarnedQuiet
<1> QED BY <1>3, <1>6

\* A hook reports what the player has just earned.
LEMMA ReportedEarned ==
  ASSUME TypeOK, MarkedInv, EarnedInv, NEW r \in Reports, Report(r),
         UNCHANGED <<up, m_mission, breaks, m_sentLocations, srvChecked, toServer,
                     pc, location>>,
         \A loc \in earned' \ earned : \A x \in MapCodes :
           InEffect(Stream, m_mission, Len(Stream) + 1, x) => Credits(r, x, loc)
  PROVE  MarkedInv' /\ EarnedInv'
<1>0. up \in Seq(Reports) /\ sendQueue \in Seq(Reports)
  BY DEF TypeOK, PipeTypeOK, DllTypeOK
<1>1. dll = "reading" /\ dll' = dll /\ sendQueue' = Append(sendQueue, r)
  BY DEF Report
<1>2. /\ Reported' = Append(Reported, r) /\ Stream = Reported
      /\ Reported \in Seq(Reports)
  BY <1>0, <1>1, AppendMoved, ConcatProperties DEF Reported, Stream
<1>3. /\ Unbroken' = Unbroken /\ \A loc : Sent(loc)' = Sent(loc)
      /\ \A loc : InHand(loc)' = InHand(loc)
  BY DEF Unbroken, Sent, InHand
<1>4. MarkedInv'
  BY <1>3, MarkedQuiet
<1>5. ASSUME NEW loc, Due(Append(Reported, r), m_mission, loc)
      PROVE  Due(Reported, m_mission, loc)'
  BY <1>2, <1>5, DueMoved
<1>6. ASSUME NEW loc, Due(Reported, m_mission, loc) \/ loc \in earned' \ earned
      PROVE  Due(Reported, m_mission, loc)'
  BY <1>2, <1>5, <1>6, DueAppend
<1>7. EarnedInv'
  BY <1>1, <1>3, <1>6 DEF EarnedInv
<1> QED BY <1>4, <1>7

LEMMA GameStepEarned ==
  ASSUME TypeOK, StreamInv, MarkedInv, EarnedInv, GameStep
  PROVE  MarkedInv' /\ EarnedInv'
<1>0. playing \in MapCodes
  BY DEF TypeOK, DllTypeOK
<1>1. ASSUME NEW load \in Loads, GameLoads(load[1], load[2])
      PROVE  MarkedInv' /\ EarnedInv'
  <2> DEFINE r == [kind |-> "MISSION_LOAD",
                   mission |-> IF load[2] THEN load[1] ELSE NoMission]
  <2>1. r \in Reports
    <3>1. load[1] \in MapCodes /\ NoMission \in MapCodes
      BY SessionAssumption DEF MapCodes
    <3> QED BY <3>1, Zenon DEF Reports
  <2>2. /\ Report(r) /\ UNCHANGED earned
        /\ UNCHANGED <<up, m_mission, breaks, m_sentLocations, srvChecked,
                       toServer, pc, location>>
    BY <1>1 DEF GameLoads, Report
  <2> HIDE DEF r
  <2> QED BY <2>1, <2>2, ReportedEarned
<1>2. ASSUME NEW readable \in BOOLEAN, GameWon(readable)
      PROVE  MarkedInv' /\ EarnedInv'
  <2> DEFINE r == [kind |-> "MISSION_COMPLETE",
                   mission |-> IF readable THEN playing ELSE OtherMap]
  <2>1. /\ Report(r) /\ playing # NoMission
        /\ earned' = IF readable /\ playing \in Missions
                       THEN earned \cup {CompletionLocation(playing)} ELSE earned
        /\ UNCHANGED <<up, m_mission, breaks, m_sentLocations, srvChecked,
                       toServer, pc, location>>
    BY <1>2 DEF GameWon, Report
  <2>2. r \in Reports
    BY <1>0, <2>1 DEF Reports, MapCodes, Maps
  <2>3. \A loc \in earned' \ earned : \A x : Credits(r, x, loc)
    BY <1>0, <2>1 DEF Credits
  <2> HIDE DEF r
  <2> QED BY <2>1, <2>2, <2>3, ReportedEarned
<1>3. ASSUME NEW i \in ChapterIndices, ChapterShown(i)
      PROVE  MarkedInv' /\ EarnedInv'
  <2> DEFINE r == [kind |-> "CHAPTER", index |-> i]
  <2>1. /\ Report(r)
        /\ \A loc \in earned' \ earned : loc \in TitleOf(named, i)
        /\ UNCHANGED <<up, m_mission, breaks, m_sentLocations, srvChecked,
                       toServer, pc, location>>
    BY <1>3 DEF ChapterShown, Report
  <2>2. r \in Reports
    BY DEF Reports
  <2>3. EndsIn(Stream, m_mission, named)
    BY <2>1 DEF Report, StreamInv
  <2>4. \A loc \in earned' \ earned : Credits(r, named, loc)
    BY <2>1 DEF Credits, TitleOf
  <2> HIDE DEF r
  <2>5. \A loc \in earned' \ earned : \A x \in MapCodes :
          InEffect(Stream, m_mission, Len(Stream) + 1, x) => Credits(r, x, loc)
    BY <2>3, <2>4 DEF EndsIn
  <2> QED BY <2>1, <2>2, <2>5, ReportedEarned
<1>4. ASSUME NEW l \in SkullLocations, SkullClaimed(l)
      PROVE  MarkedInv' /\ EarnedInv'
  <2> DEFINE r == [kind |-> "LOCATION_CHECKED", location |-> l]
  <2>1. /\ Report(r) /\ earned' = earned \cup {l}
        /\ UNCHANGED <<up, m_mission, breaks, m_sentLocations, srvChecked,
                       toServer, pc, location>>
    BY <1>4 DEF SkullClaimed, Report
  <2>2. r \in Reports
    BY DEF Reports
  <2>3. \A loc \in earned' \ earned : \A x : Credits(r, x, loc)
    BY <2>1 DEF Credits
  <2> HIDE DEF r
  <2> QED BY <2>1, <2>2, <2>3, ReportedEarned
<1>5. CASE ShellCommand
  <2>1. UNCHANGED <<up, dll, sendQueue, m_mission, breaks, m_sentLocations,
                    srvChecked, toServer, pc, location, earned>>
    BY <1>5 DEF ShellCommand
  <2>2. /\ Unbroken' = Unbroken /\ \A loc : Sent(loc)' = Sent(loc)
        /\ \A loc : InHand(loc)' = InHand(loc)
    BY <2>1 DEF Unbroken, Sent, InHand
  <2> QED BY <2>1, <2>2, DueSame, MarkedQuiet, EarnedQuiet
<1> QED BY <1>1, <1>2, <1>3, <1>4, <1>5 DEF GameStep

LEMMA ServerStepEarned ==
  ASSUME TypeOK, MarkedInv, EarnedInv,
         ServerReads \/ LinkBreaks \/ \E item \in Items : ServerGrants(item)
  PROVE  MarkedInv' /\ EarnedInv'
<1>1. UNCHANGED <<up, dll, sendQueue, m_mission, m_sentLocations, pc, location, earned>>
  BY DEF ServerReads, LinkBreaks, ServerGrants
<1>2. \A loc : InHand(loc)' = InHand(loc)
  BY <1>1 DEF InHand
<1>3. CASE LinkBreaks
  <2>1. ~Unbroken'
    BY <1>3 DEF LinkBreaks, Unbroken, TypeOK, ServerTypeOK
  <2> QED BY <2>1 DEF MarkedInv, EarnedInv
<1>4. CASE ~LinkBreaks
  <2>1. Unbroken' = Unbroken
    BY <1>4 DEF ServerReads, ServerGrants, Unbroken
  <2>2. \A loc : Sent(loc) => Sent(loc)'
    <3>1. CASE ServerReads
      BY <3>1, SentRead
    <3>2. CASE ~ServerReads
      BY <1>4, <3>2 DEF ServerGrants, Sent
    <3> QED BY <3>1, <3>2
  <2> QED BY <1>1, <1>2, <2>1, <2>2, DueSame, MarkedQuiet, EarnedQuiet
<1> QED BY <1>3, <1>4

LEMMA EarnedStep ==
  ASSUME TypeOK, PhaseInv, StreamInv, UnbrokenInv, MarkedInv, EarnedInv, [Next]_vars
  PROVE  MarkedInv' /\ EarnedInv'
<1>1. CASE UNCHANGED vars
  <2>1. UNCHANGED <<up, dll, sendQueue, m_mission, breaks, m_sentLocations,
                    srvChecked, toServer, pc, location, earned>>
    BY <1>1 DEF vars
  <2>2. /\ Unbroken' = Unbroken /\ \A loc : Sent(loc)' = Sent(loc)
        /\ \A loc : InHand(loc)' = InHand(loc)
    BY <2>1 DEF Unbroken, Sent, InHand
  <2> QED BY <2>1, <2>2, DueSame, MarkedQuiet, EarnedQuiet
<1> QED BY <1>1, PollStepEarned, PipeStepEarned, MainStepEarned, DllStepEarned,
           GameStepEarned, ServerStepEarned DEF Next

\* On a connection that holds, no location the player has earned is forgotten:
\* the server has it or will read it, the pipe thread is about to send it, or
\* a report still to be handled will be credited with it, over the loads that
\* decide which mission a title is credited to (SendLocation and its callers).
THEOREM EarnedIsKept == Spec => []EarnedInv
<1>1. Init => MarkedInv /\ EarnedInv
  BY DEF Init, MarkedInv, EarnedInv, Sent
<1>2. TypeOK /\ PhaseInv /\ StreamInv /\ UnbrokenInv /\ MarkedInv /\ EarnedInv
        /\ [Next]_vars => MarkedInv' /\ EarnedInv'
  BY EarnedStep
<1> QED BY <1>1, <1>2, TypeCorrect, PhasesHold, StreamHolds, UnbrokenHolds, PTL
        DEF Spec
-----------------------------------------------------------------------------
(***************************************************************************)
(* Nor is the goal, while the connection holds: the safety behind          *)
(* GoalReachesServer.                                                      *)
(***************************************************************************)
FinalLocation == CompletionLocation(SlotFinal)

\* The completion of the final mission is no skull's location, as in the tables
\* of the code, and was not recorded in an earlier session.
FinalIsOpen ==
  FinalLocation \notin PriorChecked \cup SkullLocations

GoalSent ==
  srvGoal \/ \E n \in 1 .. Len(toServer) : toServer[n].cmd = "StatusUpdate"

FinalReport(r) == r.kind = "MISSION_COMPLETE" /\ r.mission = SlotFinal

FinalDue == \E n \in 1 .. Len(Reported) : FinalReport(Reported[n])

\* Between two reports the pipe thread has no completion to handle.
GoalTidy ==
  pc["pipe"] \in {"notStarted", "listening", "idle"} => goalMission = NoMission

GoalKeptInv ==
  Unbroken /\ dll # "dead" /\ FinalLocation \in earned =>
    GoalSent \/ goalMission = SlotFinal \/ FinalDue

LEMMA OneCompletion ==
  ASSUME NEW m \in Missions, CompletionLocation(m) = FinalLocation
  PROVE  m = SlotFinal
BY FinalIsMission DEF CompletionLocation, FinalLocation, Missions

LEMMA GoalSentKept ==
  ASSUME TypeOK, srvGoal => srvGoal',
         UNCHANGED toServer \/ \E packet : toServer' = Append(toServer, packet)
  PROVE  GoalSent => GoalSent'
<1>1. CASE UNCHANGED toServer
  BY <1>1 DEF GoalSent
<1>2. ASSUME NEW packet, toServer' = Append(toServer, packet)
      PROVE  GoalSent => GoalSent'
  <2> DEFINE q == toServer'
             L == Len(toServer)
  <2>1. Len(q) = L + 1 /\ L \in Nat /\ \A n \in 1 .. L : q[n] = toServer[n]
    BY <1>2, AppendedChunk DEF TypeOK, ServerTypeOK
  <2> HIDE DEF q, L
  <2>2. \A n \in 1 .. L : n \in 1 .. Len(q)
    BY <2>1
  <2> QED BY <2>1, <2>2 DEF GoalSent, q, L
<1> QED BY <1>1, <1>2

LEMMA GoalSentRead ==
  ASSUME TypeOK, ServerReads
  PROVE  GoalSent => GoalSent'
<1>1. /\ toServer \in Seq(Packets) /\ toServer # <<>>
      /\ toServer' = Tail(toServer) /\ Head(toServer) = toServer[1]
  BY DEF ServerReads, TypeOK, ServerTypeOK
<1>2. /\ Len(toServer') = Len(toServer) - 1 /\ Len(toServer) \in Nat \ {0}
      /\ \A n \in 1 .. Len(toServer) - 1 : toServer'[n] = toServer[n + 1]
  BY <1>1, RestOfStream
<1>3. CASE srvGoal
  BY <1>3 DEF ServerReads, GoalSent
<1>4. ASSUME NEW n \in 1 .. Len(toServer), toServer[n].cmd = "StatusUpdate"
      PROVE  GoalSent'
  <2>1. CASE n = 1
    BY <1>1, <1>4, <2>1 DEF ServerReads, GoalSent
  <2>2. CASE n # 1
    <3>1. n - 1 \in 1 .. Len(toServer') /\ toServer'[n - 1] = toServer[n]
      BY <1>2, <2>2
    <3> QED BY <1>4, <3>1 DEF GoalSent
  <2> QED BY <2>1, <2>2
<1> QED BY <1>3, <1>4 DEF GoalSent

LEMMA GoalKeptQuiet ==
  ASSUME GoalKeptInv, Unbroken' => Unbroken, dll' # "dead" => dll # "dead",
         UNCHANGED earned, Unbroken => (GoalSent => GoalSent'),
         Unbroken /\ goalMission = SlotFinal => goalMission' = SlotFinal \/ GoalSent',
         dll # "dead" /\ FinalDue => FinalDue' \/ goalMission' = SlotFinal
  PROVE  GoalKeptInv'
BY DEF GoalKeptInv

LEMMA FinalDueSame ==
  ASSUME UNCHANGED <<up, sendQueue>>
  PROVE  FinalDue => FinalDue'
BY DEF FinalDue, Reported, FinalReport

-----------------------------------------------------------------------------
LEMMA PollStepGoalKept ==
  ASSUME TypeOK, UnbrokenInv, GoalTidy, GoalKeptInv, PollStep
  PROVE  GoalTidy' /\ GoalKeptInv'
<1>1. /\ UNCHANGED <<up, dll, sendQueue, earned, srvGoal, goalMission, breaks>>
      /\ pc'["pipe"] = pc["pipe"]
      /\ Unbroken => UNCHANGED toServer
  BY PollStepPasses DEF streamVars
<1>2. Unbroken' = Unbroken /\ (Unbroken => (GoalSent => GoalSent'))
  BY <1>1 DEF Unbroken, GoalSent
<1>3. GoalTidy'
  BY <1>1 DEF GoalTidy
<1> QED BY <1>1, <1>2, <1>3, FinalDueSame, GoalKeptQuiet

LEMMA MainStepGoalKept ==
  ASSUME TypeOK, PhaseInv, GoalTidy, GoalKeptInv, MainStep
  PROVE  GoalTidy' /\ GoalKeptInv'
<1>1. pc'["pipe"] = pc["pipe"] \/ pc["pipe"] = "notStarted"
  BY MainStepPasses
<1>2. UNCHANGED <<up, dll, sendQueue, earned, srvGoal, goalMission, breaks, toServer>>
  BY MainStepQuiet DEF streamVars
<1>3. Unbroken' = Unbroken /\ (GoalSent => GoalSent')
  BY <1>2 DEF Unbroken, GoalSent
<1>4. GoalTidy'
  BY <1>1, <1>2 DEF GoalTidy
<1> QED BY <1>2, <1>3, <1>4, FinalDueSame, GoalKeptQuiet

LEMMA TakenGoalKept ==
  ASSUME TypeOK, GoalTidy, GoalKeptInv, HandleReport
  PROVE  GoalTidy' /\ GoalKeptInv'
<1>1. /\ up # <<>> /\ up' = Tail(up) /\ pc["pipe"] = "idle" /\ Head(up) = up[1]
      /\ UNCHANGED <<dll, sendQueue, earned, srvGoal, toServer, breaks>>
  BY DEF HandleReport, HandleMissionLoad, HandleMissionComplete, HandleChapter,
         HandleLocationChecked, TakeReport, BeginSendLocation, TypeOK, PipeTypeOK
<1>2. /\ up \in Seq(Reports) /\ sendQueue \in Seq(Reports)
      /\ pc \in [Threads -> AllLabels] /\ "pipe" \in Threads
  BY DEF TypeOK, PipeTypeOK, DllTypeOK, ThreadTypeOK, Threads
<1>3. /\ Reported # <<>> /\ Reported[1] = up[1] /\ Reported' = Tail(Reported)
      /\ Reported \in Seq(Reports)
  BY <1>1, <1>2, TailMoved, ConcatProperties DEF Reported
<1>4. goalMission = NoMission
  BY <1>1 DEF GoalTidy
<1>5. GoalTidy'
  <2>1. UNCHANGED <<pc, goalMission>> \/ pc'["pipe"] = "sendLocation"
    BY <1>2 DEF HandleReport, HandleMissionLoad, HandleMissionComplete,
       HandleChapter, HandleLocationChecked, TakeReport, BeginSendLocation, Goto
  <2> QED BY <1>4, <2>1 DEF GoalTidy
<1>6. FinalReport(up[1]) => goalMission' = SlotFinal
  BY <1>1, FinalIsMission DEF FinalReport, HandleReport, HandleMissionLoad,
     HandleMissionComplete, HandleChapter, HandleLocationChecked, TakeReport,
     BeginSendLocation
<1>7. FinalDue => FinalDue' \/ goalMission' = SlotFinal
  <2> SUFFICES ASSUME NEW n \in 1 .. Len(Reported), FinalReport(Reported[n])
               PROVE  FinalDue' \/ goalMission' = SlotFinal
    BY DEF FinalDue
  <2>1. CASE n = 1
    BY <1>3, <1>6, <2>1
  <2>2. CASE n # 1
    <3> DEFINE s == Reported
               t == Tail(s)
    <3>1. /\ Len(t) = Len(s) - 1 /\ Len(s) \in Nat \ {0}
          /\ \A k \in 1 .. Len(s) - 1 : t[k] = s[k + 1]
      BY <1>3, RestOfStream
    <3> HIDE DEF s, t
    <3>2. n \in 1 .. Len(s)
      BY DEF s
    <3>3. n - 1 \in 1 .. Len(t) /\ t[n - 1] = s[n]
      BY <2>2, <3>1, <3>2
    <3>4. FinalReport(s[n]) /\ Reported' = t
      BY <1>3 DEF s, t
    <3> QED BY <3>3, <3>4 DEF FinalDue, FinalReport
  <2> QED BY <2>1, <2>2
<1>8. Unbroken' = Unbroken /\ (GoalSent => GoalSent')
  BY <1>1 DEF Unbroken, GoalSent
<1> QED BY <1>1, <1>4, <1>5, <1>7, <1>8, FinalIsMission, GoalKeptQuiet

LEMMA PipeStepGoalKept ==
  ASSUME TypeOK, UnbrokenInv, MessageInv, GoalTidy, GoalKeptInv, PipeStep
  PROVE  GoalTidy' /\ GoalKeptInv'
<1>0. /\ "pipe" \in Threads /\ pc \in [Threads -> AllLabels]
      /\ pc["pipe"] # "notStarted"
  BY PipeStarted DEF Threads, TypeOK, ThreadTypeOK
<1>1. CASE HandleReport
  BY <1>1, TakenGoalKept
<1>2. CASE ReportGoal
  <2> DEFINE packet == [cmd |-> "StatusUpdate"]
             q == toServer'
  <2>1. /\ goalMission' = NoMission
        /\ UNCHANGED <<up, dll, sendQueue, earned, breaks, srvGoal>>
        /\ UNCHANGED toServer \/ q = Append(toServer, packet)
        /\ Unbroken /\ goalMission = SlotFinal => q = Append(toServer, packet)
    BY <1>0, <1>2 DEF ReportGoal, ToServer, IsGoal, MessageInv, UnbrokenInv
  <2>2. Unbroken' = Unbroken /\ (GoalSent => GoalSent')
    BY <2>1, GoalSentKept DEF Unbroken
  <2>3. Unbroken /\ goalMission = SlotFinal => GoalSent'
    <3>1. ASSUME Unbroken, goalMission = SlotFinal
          PROVE  /\ Len(q) = Len(toServer) + 1 /\ Len(toServer) \in Nat
                 /\ q[Len(toServer) + 1] = packet
      BY <2>1, <3>1, AppendedChunk DEF TypeOK, ServerTypeOK
    <3>2. packet.cmd = "StatusUpdate"
      OBVIOUS
    <3> HIDE DEF packet, q
    <3>3. ASSUME Unbroken, goalMission = SlotFinal
          PROVE  Len(toServer) + 1 \in 1 .. Len(q)
      BY <3>1, <3>3
    <3> QED BY <3>1, <3>2, <3>3 DEF GoalSent, q
  <2>4. GoalTidy'
    BY <2>1 DEF GoalTidy
  <2> HIDE DEF q
  <2>5. GoalKeptInv'
    BY <2>1, <2>2, <2>3, FinalDueSame, GoalKeptQuiet
  <2> QED BY <2>4, <2>5
<1>3. CASE ~HandleReport /\ ~ReportGoal
  <2>1. /\ UNCHANGED <<up, dll, sendQueue, earned>>
    BY <1>3, PipeStepQuiet DEF streamVars
  <2>2. /\ UNCHANGED <<goalMission, srvGoal, breaks>>
        /\ UNCHANGED toServer \/ \E packet : toServer' = Append(toServer, packet)
    BY <1>3 DEF PipeStep, HandleReport, SendStep, SendToNobody, WriteLength,
       WriteBody, SkipCompletionState, SendCompleted, SendFinalMission,
       ReleaseChecked, PipeAccepts, DropLocation, MarkSent, LocationChecks,
       TrackChecked, ToServer
  <2>3. pc'["pipe"] \in {"notStarted", "listening", "idle"} => pc["pipe"] = "listening"
    <3>1. CASE SendStep("pipe")
      BY <1>0, <3>1 DEF SendStep, SendToNobody, WriteLength, WriteBody,
         SkipCompletionState, SendCompleted, SendFinalMission, ReleaseChecked,
         CallSend, Goto, AfterSend, AfterCompletionState
    <3>2. CASE ~SendStep("pipe")
      BY <1>0, <1>3, <3>2 DEF PipeStep, HandleReport, PipeAccepts, DropLocation,
         MarkSent, LocationChecks, TrackChecked, Goto
    <3> QED BY <3>1, <3>2
  <2>4. Unbroken' = Unbroken /\ (GoalSent => GoalSent')
    BY <2>2, GoalSentKept DEF Unbroken
  <2>5. GoalTidy'
    BY <2>2, <2>3 DEF GoalTidy
  <2> QED BY <2>1, <2>2, <2>4, <2>5, FinalDueSame, GoalKeptQuiet
<1> QED BY <1>1, <1>2, <1>3

LEMMA DllStepGoalKept ==
  ASSUME TypeOK, StreamInv, GoalTidy, GoalKeptInv, DllConnects \/ DllStep \/ SendReport
  PROVE  GoalTidy' /\ GoalKeptInv'
<1>0. up \in Seq(Reports) /\ sendQueue \in Seq(Reports)
  BY DEF TypeOK, PipeTypeOK, DllTypeOK
<1>1. /\ UNCHANGED <<breaks, srvGoal, toServer, pc, goalMission, earned>>
      /\ dll' # "dead" => dll # "dead"
  BY DEF DllConnects, DllStep, ReadMessage, ReadMixedUp, SendReport
<1>2. Reported' = Reported \/ dll = "dead"
  BY ReportedKept
<1>3. dll # "dead" => (FinalDue => FinalDue')
  BY <1>2 DEF FinalDue, FinalReport
<1>4. Unbroken' = Unbroken /\ (GoalSent => GoalSent')
  BY <1>1 DEF Unbroken, GoalSent
<1>5. GoalTidy'
  BY <1>1 DEF GoalTidy
<1> QED BY <1>1, <1>3, <1>4, <1>5, GoalKeptQuiet

\* A hook reports: when what it reports has earned the final location, it is
\* the final mission's completion.
LEMMA ReportedGoalKept ==
  ASSUME TypeOK, GoalTidy, GoalKeptInv, NEW r \in Reports, Report(r),
         UNCHANGED <<up, breaks, srvGoal, toServer, pc, goalMission>>,
         FinalLocation \in earned' \ earned => FinalReport(r)
  PROVE  GoalTidy' /\ GoalKeptInv'
<1>0. up \in Seq(Reports) /\ sendQueue \in Seq(Reports)
  BY DEF TypeOK, PipeTypeOK, DllTypeOK
<1>1. dll = "reading" /\ dll' = dll /\ sendQueue' = Append(sendQueue, r)
  BY DEF Report
<1>2. Reported' = Append(Reported, r) /\ Reported \in Seq(Reports)
  BY <1>0, <1>1, AppendMoved, ConcatProperties DEF Reported
<1>3. FinalDue \/ FinalReport(r) => FinalDue'
  <2> DEFINE s == Reported
             t == Append(s, r)
             L == Len(s)
  <2>1. /\ Len(t) = L + 1 /\ L \in Nat
        /\ \A n \in 1 .. L : t[n] = s[n]
        /\ t[L + 1] = r
    BY <1>2, AppendedChunk
  <2>2. Reported' = t
    BY <1>2
  <2> HIDE DEF s, t, L
  <2>3. L + 1 \in 1 .. Len(t) /\ \A n \in 1 .. L : n \in 1 .. Len(t)
    BY <2>1
  <2>4. FinalReport(r) => FinalDue'
    BY <2>1, <2>2, <2>3 DEF FinalDue, FinalReport
  <2>5. FinalDue => FinalDue'
    BY <2>1, <2>2, <2>3 DEF FinalDue, FinalReport, s, L
  <2> QED BY <2>4, <2>5
<1>4. Unbroken' = Unbroken /\ GoalSent' = GoalSent
  BY DEF Unbroken, GoalSent
<1>5. GoalTidy'
  BY DEF GoalTidy
<1>6. GoalKeptInv'
  BY <1>1, <1>3, <1>4 DEF GoalKeptInv, FinalLocation
<1> QED BY <1>5, <1>6

LEMMA GameStepGoalKept ==
  ASSUME FinalIsOpen, TypeOK, GoalTidy, GoalKeptInv, GameStep
  PROVE  GoalTidy' /\ GoalKeptInv'
<1>0. playing \in MapCodes
  BY DEF TypeOK, DllTypeOK
<1>1. ASSUME NEW load \in Loads, GameLoads(load[1], load[2])
      PROVE  GoalTidy' /\ GoalKeptInv'
  <2> DEFINE r == [kind |-> "MISSION_LOAD",
                   mission |-> IF load[2] THEN load[1] ELSE NoMission]
  <2>1. r \in Reports
    <3>1. load[1] \in MapCodes /\ NoMission \in MapCodes
      BY SessionAssumption DEF MapCodes
    <3> QED BY <3>1, Zenon DEF Reports
  <2>2. /\ Report(r) /\ UNCHANGED earned
        /\ UNCHANGED <<up, breaks, srvGoal, toServer, pc, goalMission>>
    BY <1>1 DEF GameLoads, Report
  <2> HIDE DEF r
  <2> QED BY <2>1, <2>2, ReportedGoalKept
<1>2. ASSUME NEW readable \in BOOLEAN, GameWon(readable)
      PROVE  GoalTidy' /\ GoalKeptInv'
  <2> DEFINE r == [kind |-> "MISSION_COMPLETE",
                   mission |-> IF readable THEN playing ELSE OtherMap]
  <2>1. /\ Report(r) /\ playing # NoMission
        /\ earned' = IF readable /\ playing \in Missions
                       THEN earned \cup {CompletionLocation(playing)} ELSE earned
        /\ UNCHANGED <<up, breaks, srvGoal, toServer, pc, goalMission>>
    BY <1>2 DEF GameWon, Report
  <2>2. r \in Reports
    BY <1>0, <2>1 DEF Reports, MapCodes, Maps
  <2>3. FinalLocation \in earned' \ earned => FinalReport(r)
    BY <1>0, <2>1, OneCompletion DEF FinalReport
  <2> HIDE DEF r
  <2> QED BY <2>1, <2>2, <2>3, ReportedGoalKept
<1>3. ASSUME NEW i \in ChapterIndices, ChapterShown(i)
      PROVE  GoalTidy' /\ GoalKeptInv'
  <2> DEFINE r == [kind |-> "CHAPTER", index |-> i]
  <2>1. /\ Report(r)
        /\ \A loc \in earned' \ earned : loc \in Titles
        /\ UNCHANGED <<up, breaks, srvGoal, toServer, pc, goalMission>>
    BY <1>3 DEF ChapterShown, Report, TitleOf, Titles
  <2>2. r \in Reports
    BY DEF Reports
  <2> HIDE DEF r
  <2>3. FinalLocation \notin Titles
    BY SessionAssumption DEF FinalLocation
  <2> QED BY <2>1, <2>2, <2>3, ReportedGoalKept
<1>4. ASSUME NEW l \in SkullLocations, SkullClaimed(l)
      PROVE  GoalTidy' /\ GoalKeptInv'
  <2> DEFINE r == [kind |-> "LOCATION_CHECKED", location |-> l]
  <2>1. /\ Report(r) /\ earned' = earned \cup {l}
        /\ UNCHANGED <<up, breaks, srvGoal, toServer, pc, goalMission>>
    BY <1>4 DEF SkullClaimed, Report
  <2>2. r \in Reports
    BY DEF Reports
  <2> HIDE DEF r
  <2> QED BY <2>1, <2>2, ReportedGoalKept DEF FinalIsOpen
<1>5. CASE ShellCommand
  <2>1. UNCHANGED <<up, dll, sendQueue, breaks, srvGoal, toServer, pc,
                    goalMission, earned>>
    BY <1>5 DEF ShellCommand
  <2>2. Unbroken' = Unbroken /\ GoalSent' = GoalSent /\ GoalTidy'
    BY <2>1 DEF Unbroken, GoalSent, GoalTidy
  <2> QED BY <2>1, <2>2, FinalDueSame, GoalKeptQuiet
<1> QED BY <1>1, <1>2, <1>3, <1>4, <1>5 DEF GameStep

LEMMA ServerStepGoalKept ==
  ASSUME TypeOK, GoalTidy, GoalKeptInv,
         ServerReads \/ LinkBreaks \/ \E item \in Items : ServerGrants(item)
  PROVE  GoalTidy' /\ GoalKeptInv'
<1>1. UNCHANGED <<up, dll, sendQueue, pc, goalMission, earned>>
  BY DEF ServerReads, LinkBreaks, ServerGrants
<1>2. GoalTidy'
  BY <1>1 DEF GoalTidy
<1>3. CASE LinkBreaks
  <2>1. ~Unbroken'
    BY <1>3 DEF LinkBreaks, Unbroken, TypeOK, ServerTypeOK
  <2> QED BY <1>2, <2>1 DEF GoalKeptInv
<1>4. CASE ~LinkBreaks
  <2>1. Unbroken' = Unbroken
    BY <1>4 DEF ServerReads, ServerGrants, Unbroken
  <2>2. GoalSent => GoalSent'
    <3>1. CASE ServerReads
      BY <3>1, GoalSentRead
    <3>2. CASE ~ServerReads
      BY <1>4, <3>2 DEF ServerGrants, GoalSent
    <3> QED BY <3>1, <3>2
  <2> QED BY <1>1, <1>2, <2>1, <2>2, FinalDueSame, GoalKeptQuiet
<1> QED BY <1>3, <1>4

LEMMA GoalKeptStep ==
  ASSUME FinalIsOpen, TypeOK, PhaseInv, StreamInv, UnbrokenInv, MessageInv,
         GoalTidy, GoalKeptInv, [Next]_vars
  PROVE  GoalTidy' /\ GoalKeptInv'
<1>1. CASE UNCHANGED vars
  <2>1. UNCHANGED <<up, dll, sendQueue, breaks, srvGoal, toServer, pc,
                    goalMission, earned>>
    BY <1>1 DEF vars
  <2>2. Unbroken' = Unbroken /\ GoalSent' = GoalSent /\ GoalTidy'
    BY <2>1 DEF Unbroken, GoalSent, GoalTidy
  <2> QED BY <2>1, <2>2, FinalDueSame, GoalKeptQuiet
<1> QED BY <1>1, PollStepGoalKept, PipeStepGoalKept, MainStepGoalKept,
           DllStepGoalKept, GameStepGoalKept, ServerStepGoalKept DEF Next

\* Nor is the goal forgotten: once the final mission is beaten, the server has
\* the goal or will read it, the pipe thread is handling that completion, or its
\* report is on its way (the end of the MISSION_COMPLETE branch).
THEOREM GoalIsKept ==
  ASSUME LastIsFinal, FinalIsOpen
  PROVE  Spec => [](GoalTidy /\ GoalKeptInv)
<1>1. Init => GoalTidy /\ GoalKeptInv
  <2>1. Init => goalMission = NoMission /\ earned = PriorChecked
    BY DEF Init
  <2> QED BY <2>1 DEF GoalTidy, GoalKeptInv, FinalIsOpen
<1>2. TypeOK /\ PhaseInv /\ StreamInv /\ UnbrokenInv /\ MessageInv
        /\ GoalTidy /\ GoalKeptInv /\ [Next]_vars => GoalTidy' /\ GoalKeptInv'
  BY GoalKeptStep
<1> QED BY <1>1, <1>2, TypeCorrect, PhasesHold, StreamHolds, UnbrokenHolds,
           MessagesSound, PTL DEF Spec
-----------------------------------------------------------------------------
(***************************************************************************)
(* Why the reader gives up: only where two threads' writes met.  A thread  *)
(* alone writes a body after each length of its own.                       *)
(***************************************************************************)
OwnLength(i, t) == down[i].part = "length" /\ down[i].from = t
OwnBody(k, t) == down[k].part = "body" /\ down[k].from = t

Alternating ==
  \A t \in Threads : \A i, j \in 1 .. Len(down) :
    i < j /\ OwnLength(i, t) /\ OwnLength(j, t) =>
      \E k \in 1 .. Len(down) : i < k /\ k < j /\ OwnBody(k, t)

Closed ==
  \A t \in Threads : \A i \in 1 .. Len(down) :
    pc[t] # "body" /\ OwnLength(i, t) =>
      \E k \in 1 .. Len(down) : i < k /\ OwnBody(k, t)

TurnsInv == dll # "dead" => Alternating /\ Closed

LEMMA TurnsQuiet ==
  ASSUME Alternating, Closed, UNCHANGED down,
         \A u \in Threads : pc[u] = "body" => pc'[u] = "body"
  PROVE  Alternating' /\ Closed'
BY DEF Alternating, Closed, OwnLength, OwnBody

LEMMA TurnsWrite ==
  ASSUME TypeOK, Alternating, Closed, NEW t \in Threads, NEW part, Write(t, part),
         \A u \in Threads \ {t} : pc'[u] = pc[u],
         \/ part = "length" /\ pc[t] # "body" /\ pc'[t] = "body"
         \/ part = "body"
  PROVE  Alternating' /\ Closed'
<1> DEFINE e == [from |-> t, part |-> part, msg |-> msg[t]]
           L == Len(down)
<1>1. down \in Seq(Chunks) /\ down' = Append(down, e)
  BY DEF TypeOK, PipeTypeOK, Write
<1>2. /\ Len(down') = L + 1 /\ L \in Nat
      /\ \A n \in 1 .. L : down'[n] = down[n]
      /\ down'[L + 1] = e
  BY <1>1, AppendedChunk
<1>3. e.from = t /\ e.part = part
  OBVIOUS
<1> HIDE DEF e, L
<1>4. ASSUME NEW n \in 1 .. L, NEW u
      PROVE  (OwnLength(n, u)' <=> OwnLength(n, u)) /\ (OwnBody(n, u)' <=> OwnBody(n, u))
  BY <1>2 DEF OwnLength, OwnBody
<1>5. ASSUME NEW n, n = L + 1
      PROVE  /\ \A u : OwnLength(n, u)' => u = t /\ part = "length"
             /\ part = "body" => OwnBody(n, t)'
  BY <1>2, <1>3, <1>5 DEF OwnLength, OwnBody
<1>6. ASSUME NEW u \in Threads, NEW i \in 1 .. L + 1, NEW j \in 1 .. L + 1,
             i < j, OwnLength(i, u)', OwnLength(j, u)'
      PROVE  \E k \in 1 .. L + 1 : i < k /\ k < j /\ OwnBody(k, u)'
  <2>0. i \in 1 .. L
    BY <1>2, <1>6
  <2>1. OwnLength(i, u)
    BY <1>4, <1>6, <2>0
  <2>2. PICK k \in 1 .. L : i < k /\ k < j /\ OwnBody(k, u)
    <3>1. CASE j \in 1 .. L
      <4>1. OwnLength(j, u)
        BY <1>4, <1>6, <3>1
      <4> QED BY <1>6, <2>0, <2>1, <3>1, <4>1 DEF Alternating, L
    <3>2. CASE j = L + 1
      <4>1. u = t /\ pc[t] # "body"
        BY <1>5, <1>6, <3>2
      <4>2. PICK k \in 1 .. L : i < k /\ OwnBody(k, u)
        BY <2>0, <2>1, <4>1 DEF Closed, L
      <4>3. k < j
        BY <1>2, <3>2, <4>2
      <4> QED BY <4>2, <4>3
    <3> QED BY <1>2, <3>1, <3>2
  <2>3. k \in 1 .. L + 1
    BY <1>2, <2>2
  <2>4. OwnBody(k, u)'
    BY <1>4, <2>2
  <2> QED BY <2>2, <2>3, <2>4
<1>7. ASSUME NEW u \in Threads, NEW i \in 1 .. L + 1, pc'[u] # "body", OwnLength(i, u)'
      PROVE  \E k \in 1 .. L + 1 : i < k /\ OwnBody(k, u)'
  <2>1. CASE i \in 1 .. L
    <3>1. CASE u = t /\ part = "body"
      <4>1. PICK k \in 1 .. L + 1 : k = L + 1 /\ i < k
        BY <1>2, <2>1
      <4> QED BY <1>5, <3>1, <4>1
    <3>2. CASE ~(u = t /\ part = "body")
      <4>1. u # t
        BY <1>7, <3>2
      <4>2. pc[u] # "body"
        BY <1>7, <4>1
      <4>3. OwnLength(i, u)
        BY <1>4, <1>7, <2>1
      <4>4. PICK k \in 1 .. L : i < k /\ OwnBody(k, u)
        BY <2>1, <4>2, <4>3 DEF Closed, L
      <4>5. k \in 1 .. L + 1
        BY <1>2, <4>4
      <4>6. OwnBody(k, u)'
        BY <1>4, <4>4
      <4> QED BY <4>4, <4>5, <4>6
    <3> QED BY <3>1, <3>2
  <2>2. CASE i = L + 1
    BY <1>5, <1>7, <2>2
  <2> QED BY <1>2, <2>1, <2>2
<1> QED BY <1>2, <1>6, <1>7 DEF Alternating, Closed

LEMMA TurnsRead ==
  ASSUME TypeOK, Alternating, Closed, Len(down) >= 2,
         down' = Tail(Tail(down)), UNCHANGED pc
  PROVE  Alternating' /\ Closed'
<1> DEFINE L == Len(down)
<1>1. /\ L \in Nat /\ Len(down') = L - 2
      /\ \A n \in 1 .. L - 2 : down'[n] = down[n + 2]
  BY RestByTwo DEF TypeOK, PipeTypeOK
<1> HIDE DEF L
<1>2. ASSUME NEW n \in 1 .. L - 2, NEW u
      PROVE  /\ OwnLength(n, u)' <=> OwnLength(n + 2, u)
             /\ OwnBody(n, u)' <=> OwnBody(n + 2, u)
  BY <1>1 DEF OwnLength, OwnBody
<1>3. ASSUME NEW u \in Threads, NEW i \in 1 .. L - 2, NEW j \in 1 .. L - 2,
             i < j, OwnLength(i, u)', OwnLength(j, u)'
      PROVE  \E k \in 1 .. L - 2 : i < k /\ k < j /\ OwnBody(k, u)'
  <2>1. i + 2 \in 1 .. L /\ j + 2 \in 1 .. L /\ i + 2 < j + 2
    BY <1>1, <1>3
  <2>2. OwnLength(i + 2, u) /\ OwnLength(j + 2, u)
    BY <1>2, <1>3
  <2>3. PICK k \in 1 .. L : i + 2 < k /\ k < j + 2 /\ OwnBody(k, u)
    BY <2>1, <2>2 DEF Alternating, L
  <2>4. k - 2 \in 1 .. L - 2 /\ (k - 2) + 2 = k /\ i < k - 2 /\ k - 2 < j
    BY <1>1, <2>3
  <2>5. OwnBody(k - 2, u)'
    BY <1>2, <2>3, <2>4
  <2> QED BY <2>4, <2>5
<1>4. ASSUME NEW u \in Threads, NEW i \in 1 .. L - 2, pc'[u] # "body", OwnLength(i, u)'
      PROVE  \E k \in 1 .. L - 2 : i < k /\ OwnBody(k, u)'
  <2>1. i + 2 \in 1 .. L /\ pc[u] # "body"
    BY <1>1, <1>4
  <2>2. OwnLength(i + 2, u)
    BY <1>2, <1>4
  <2>3. PICK k \in 1 .. L : i + 2 < k /\ OwnBody(k, u)
    BY <2>1, <2>2 DEF Closed, L
  <2>4. k - 2 \in 1 .. L - 2 /\ (k - 2) + 2 = k /\ i < k - 2
    BY <1>1, <2>3
  <2>5. OwnBody(k - 2, u)'
    BY <1>2, <2>3, <2>4
  <2> QED BY <2>4, <2>5
<1> QED BY <1>1, <1>3, <1>4 DEF Alternating, Closed, L

\* Only WriteBody leaves the place where a body is owed.
LEMMA BodyOwed ==
  ASSUME TypeOK, PhaseInv, [Next]_vars, NEW u \in Threads, pc[u] = "body",
         ~WriteBody(u)
  PROVE  pc'[u] = "body"
<1>0. pc \in [Threads -> AllLabels] /\ Threads = {"poll", "pipe", "main"}
  BY DEF TypeOK, ThreadTypeOK, Threads
<1>1. ASSUME NEW t \in Threads, SendStep(t) PROVE pc'[u] = "body"
  <2>1. CASE t = u
    BY <1>1, <2>1 DEF SendStep, SendToNobody, WriteLength, SkipCompletionState,
       SendCompleted, SendFinalMission, ReleaseChecked
  <2>2. CASE t # u
    BY <1>1, <2>2, SendStepStays
  <2> QED BY <2>1, <2>2
<1>2. CASE PollStep /\ ~SendStep("poll")
  BY <1>0, <1>2 DEF PollStep, SlotConnected, MergeChecked, ReadSlotData,
     SocketClosed, SocketDisconnected, ItemsReceived, BufferItem, ItemsDone,
     Polling, Goto, CallSend
<1>3. CASE PipeStep /\ ~SendStep("pipe")
  BY <1>0, <1>3 DEF PipeStep, PipeAccepts, HandleMissionLoad,
     HandleMissionComplete, HandleChapter, HandleLocationChecked, TakeReport,
     BeginSendLocation, DropLocation, MarkSent, LocationChecks, TrackChecked,
     ReportGoal, Goto
<1>4. CASE MainStep /\ ~SendStep("main") /\ ~StartPipe
  BY <1>0, <1>4 DEF MainStep, SlotSeen, SlotTimeout, SetSendToDll,
     ReplayTier, LockBuffer, ReplayItem, ReplayDone, Goto, CallSend
<1>5. CASE DllConnects \/ DllStep \/ SendReport \/ GameStep \/ ServerReads
           \/ LinkBreaks \/ (\E item \in Items : ServerGrants(item))
           \/ UNCHANGED vars
  BY <1>5 DEF DllConnects, DllStep, ReadMessage, ReadMixedUp, SendReport,
     GameStep, GameLoads, GameWon, ChapterShown, SkullClaimed, ShellCommand,
     Report, ServerReads, LinkBreaks, ServerGrants, vars
<1>6. CASE StartPipe
  <2>1. pc["pipe"] = "notStarted" /\ pc["main"] = "startPipe"
    BY <1>6 DEF StartPipe, PhaseInv, NotStarted
  <2>2. u = "poll"
    BY <1>0, <2>1
  <2> QED BY <1>0, <1>6, <2>2 DEF StartPipe
<1>7. PollStep \/ PipeStep \/ MainStep \/ ~(PollStep \/ PipeStep \/ MainStep)
  OBVIOUS
<1> QED BY <1>0, <1>1, <1>2, <1>3, <1>4, <1>5, <1>6, <1>7 DEF Next

LEMMA SendStepTurns ==
  ASSUME TypeOK, PhaseInv, Alternating, Closed, [Next]_vars,
         NEW t \in Threads, SendStep(t)
  PROVE  Alternating' /\ Closed'
<1>0. /\ pc \in [Threads -> AllLabels]
      /\ \A u \in Threads \ {t} : pc'[u] = pc[u]
  BY SendStepStays DEF TypeOK, ThreadTypeOK
<1>1. CASE WriteLength(t)
  <2>1. Write(t, "length") /\ pc[t] # "body" /\ pc'[t] = "body"
    BY <1>0, <1>1 DEF WriteLength, Goto
  <2> QED BY <1>0, <2>1, TurnsWrite
<1>2. CASE WriteBody(t)
  <2>1. Write(t, "body")
    BY <1>2 DEF WriteBody
  <2> QED BY <1>0, <2>1, TurnsWrite
<1>3. CASE ~WriteLength(t) /\ ~WriteBody(t)
  <2>1. UNCHANGED down /\ pc[t] # "body"
    BY <1>3 DEF SendStep, SendToNobody, SkipCompletionState, SendCompleted,
       SendFinalMission, ReleaseChecked
  <2>2. \A u \in Threads : pc[u] = "body" => pc'[u] = "body"
    BY <1>0, <2>1
  <2> QED BY <2>1, <2>2, TurnsQuiet
<1> QED BY <1>1, <1>2, <1>3

\* Only Send writes to the pipe, and only the reader reads from it.
LEMMA OnlySendsWrite ==
  ASSUME TypeOK, [Next]_vars, \A t \in Threads : ~SendStep(t), ~DllStep
  PROVE  UNCHANGED down
<1>0. ~SendStep("poll") /\ ~SendStep("pipe") /\ ~SendStep("main")
  BY DEF Threads
<1>1. CASE PollStep
  BY <1>0, <1>1 DEF PollStep, SlotConnected, MergeChecked, ReadSlotData,
     SocketClosed, SocketDisconnected, ItemsReceived, BufferItem, ItemsDone
<1>2. CASE PipeStep
  BY <1>0, <1>2 DEF PipeStep, PipeAccepts, HandleMissionLoad,
     HandleMissionComplete, HandleChapter, HandleLocationChecked, TakeReport,
     BeginSendLocation, DropLocation, MarkSent, LocationChecks, TrackChecked,
     ReportGoal
<1>3. CASE MainStep
  BY <1>0, <1>3 DEF MainStep, SlotSeen, SlotTimeout, StartPipe, SetSendToDll,
     ReplayTier, LockBuffer, ReplayItem, ReplayDone
<1> QED BY <1>1, <1>2, <1>3 DEF Next, vars, DllConnects, SendReport, GameStep,
           GameLoads, GameWon, ChapterShown, SkullClaimed, ShellCommand, Report,
           ServerReads, LinkBreaks, ServerGrants

LEMMA TurnsStep ==
  ASSUME TypeOK, PhaseInv, TurnsInv, [Next]_vars
  PROVE  TurnsInv'
<1> SUFFICES ASSUME dll' # "dead"
             PROVE  Alternating' /\ Closed'
  BY DEF TurnsInv
<1>1. dll # "dead"
  BY DeadStays
<1>2. Alternating /\ Closed
  BY <1>1 DEF TurnsInv
<1>3. CASE \E t \in Threads : SendStep(t)
  BY <1>2, <1>3, SendStepTurns
<1>4. CASE ReadMessage
  <2>1. Len(down) >= 2 /\ down' = Tail(Tail(down)) /\ UNCHANGED pc
    BY <1>4 DEF ReadMessage, LengthRead
  <2> QED BY <1>2, <2>1, TurnsRead
<1>5. CASE (\A t \in Threads : ~SendStep(t)) /\ ~ReadMessage
  <2>1. \A u \in Threads : pc[u] = "body" => pc'[u] = "body"
    BY <1>5, BodyOwed DEF SendStep
  <2>2. UNCHANGED down
    BY <1>5, OnlySendsWrite DEF DllStep, ReadMixedUp
  <2> QED BY <1>2, <2>1, <2>2, TurnsQuiet
<1> QED BY <1>3, <1>4, <1>5

\* While the reader reads, each thread's writes alternate in the pipe: after a
\* length of its own it writes the body (APBridge::Send, PipeServer::Send).
THEOREM TurnsHold == Spec => []TurnsInv
<1>1. Init => TurnsInv
  BY DEF Init, TurnsInv, Alternating, Closed
<1> QED BY <1>1, TurnsStep, TypeCorrect, PhasesHold, PTL DEF Spec

\* The reader leaves its loop for no other reason than an interleaving: the
\* length it read and the length it read for a body were written by two
\* different threads (PipeServer::Send makes two writes without a lock).
THEOREM ReaderDiesOfTwo ==
  Spec => [][dll # "dead" /\ dll' = "dead" =>
               /\ down[1].part = "length" /\ down[2].part = "length"
               /\ down[1].from # down[2].from]_vars
<1> DEFINE Mixed == /\ down[1].part = "length" /\ down[2].part = "length"
                   /\ down[1].from # down[2].from
<1>1. ASSUME TypeOK, PairInv, TurnsInv, [Next]_vars, dll # "dead", dll' = "dead"
      PROVE  Mixed
  <2>1. ReadMixedUp
    <3>1. CASE PollStep \/ PipeStep \/ MainStep
      BY <1>1, <3>1, PollStepStays, PipeStepStays, MainStepStays
    <3> QED BY <1>1, <3>1 DEF Next, vars, DllConnects, DllStep, ReadMessage,
               LengthRead, SendReport, GameStep, GameLoads, GameWon, ChapterShown,
               SkullClaimed, ShellCommand, Report, ServerReads, LinkBreaks,
               ServerGrants
  <2>2. /\ Len(down) >= 2 /\ down[2].part = "length"
        /\ down \in Seq(Chunks) /\ Len(down) \in Nat
    BY <1>1, <2>1 DEF ReadMixedUp, LengthRead, TypeOK, PipeTypeOK
  <2>3. 1 \in 1 .. Len(down) /\ 2 \in 1 .. Len(down)
    BY <2>2
  <2>4. down[1] \in Chunks /\ down[2] \in Chunks
    BY <2>2, <2>3
  <2>5. down[1].part = "length"
    BY <1>1, <2>3, <2>4 DEF PairInv, Paired, Announced, Chunks
  <2>6. down[1].from # down[2].from
    <3> SUFFICES ASSUME down[1].from = down[2].from PROVE FALSE
      OBVIOUS
    <3>1. PICK t \in Threads : OwnLength(1, t) /\ OwnLength(2, t)
      BY <2>2, <2>4, <2>5 DEF OwnLength, Chunks
    <3>2. PICK k \in 1 .. Len(down) : 1 < k /\ k < 2
      BY <1>1, <2>3, <3>1 DEF TurnsInv, Alternating
    <3> QED BY <2>2, <3>2
  <2> QED BY <2>2, <2>5, <2>6
<1>2. TypeOK /\ PairInv /\ TurnsInv /\ [Next]_vars
        => [dll # "dead" /\ dll' = "dead" => Mixed]_vars
  BY <1>1 DEF Mixed
<1> QED BY <1>2, TypeCorrect, PairsHold, TurnsHold, PTL DEF Spec
-----------------------------------------------------------------------------
(***************************************************************************)
(* Once every report has been handled and every packet read.               *)
(***************************************************************************)
Settled == up = <<>> /\ sendQueue = <<>> /\ toServer = <<>> /\ pc["pipe"] = "idle"

\* Then the server has every location that was earned and, beyond those, only
\* titles shown while the bridge took another map for the one played: what
\* EarnedReachesUnbroken waits for holds whenever nothing is under way
\* (SendLocation, and the MISSION_LOAD branch that may leave m_mission stale).
THEOREM SettledIsComplete ==
  Spec => [](Settled /\ Unbroken /\ dll # "dead"
               => /\ earned \subseteq srvChecked
                  /\ srvChecked \subseteq earned \cup (mistitled \cap Titles))
<1>1. ASSUME EarnedInv, CreditedWasEarned, TitlesMistaken, Settled, Unbroken,
             dll # "dead"
      PROVE  /\ earned \subseteq srvChecked
             /\ srvChecked \subseteq earned \cup (mistitled \cap Titles)
  <2>1. /\ Reported = <<>> \o <<>> /\ toServer = <<>> /\ pc["pipe"] = "idle"
    BY <1>1 DEF Settled, Reported
  <2>2. Reported = <<>>
    BY <2>1
  <2>3. ASSUME NEW loc \in earned PROVE loc \in srvChecked
    <3>1. ~Due(Reported, m_mission, loc)
      BY <2>2 DEF Due
    <3>2. ~InHand(loc)
      BY <2>1 DEF InHand
    <3> QED BY <1>1, <2>1, <2>3, <3>1, <3>2 DEF EarnedInv, Sent
  <2> QED BY <1>1, <2>3 DEF CreditedWasEarned, TitlesMistaken
<1> QED BY <1>1, EarnedIsKept, CreditIsEarned, MistakesAreTitles, PTL

\* The goal likewise, the final mission being the last one's (OnSlotConnected).
THEOREM SettledHasGoal ==
  ASSUME LastIsFinal, FinalIsOpen
  PROVE  Spec => [](Settled /\ Unbroken /\ dll # "dead" /\ FinalLocation \in earned
                      => srvGoal)
<1>1. ASSUME GoalTidy, GoalKeptInv, Settled, Unbroken, dll # "dead",
             FinalLocation \in earned
      PROVE  srvGoal
  <2>1. /\ Reported = <<>> \o <<>> /\ toServer = <<>> /\ goalMission = NoMission
    BY <1>1 DEF Settled, Reported, GoalTidy
  <2>2. ~FinalDue
    BY <2>1 DEF FinalDue
  <2>3. goalMission # SlotFinal
    BY <2>1, FinalIsMission DEF Missions, NoMission
  <2> QED BY <1>1, <2>1, <2>2, <2>3 DEF GoalKeptInv, GoalSent
<1> QED BY <1>1, GoalIsKept, PTL

-----------------------------------------------------------------------------
(***************************************************************************)
(* No recorded completion is forgotten on its way down: the safety that    *)
(* CompletionsArrive rests on.  A thread about to call                     *)
(* SendCompletionState, or writing COMPLETED, announces what is recorded   *)
(* by then.                                                                *)
(***************************************************************************)
Announcing(t) == \/ pc[t] \in {"slotData", "completionState"}
                 \/ Sending(t) /\ msg[t].kind = "COMPLETED"

ReplayAhead == Before \/ Replaying \/ pc["main"] = "exited"

OnTheWay ==
  \E n \in CompletedChunks : down[n].part = "body" /\ Named(n) = Recorded

Shown == Recorded \ {OverrunCell} \subseteq completed

Accounted == ReplayAhead \/ (\E t \in Threads : Announcing(t)) \/ OnTheWay \/ Shown

ShownInv == dll # "dead" => Accounted

\* What leaves the recorded locations, the pipe and the DLL alone, and stops no
\* thread from announcing.
LEMMA ShownQuiet ==
  ASSUME Accounted, UNCHANGED <<m_checkedLocations, down, completed>>,
         \A t \in Threads : Announcing(t) => \E u \in Threads : Announcing(u)',
         ReplayAhead => ReplayAhead' \/ \E u \in Threads : Announcing(u)'
  PROVE  Accounted'
<1>1. Recorded' = Recorded
  BY DEF Recorded, CheckedMissions
<1>2. OnTheWay' = OnTheWay /\ Shown' = Shown
  BY <1>1 DEF OnTheWay, Shown, CompletedChunks, Named
<1> QED BY <1>2 DEF Accounted

\* The same for a thread's step to a place where it sends nothing.
LEMMA ShownGoto ==
  ASSUME TypeOK, Accounted, NEW t \in Threads, pc[t] \notin {"slotData", "completionState"},
         ~Sending(t), \A u \in Threads \ {t} : pc'[u] = pc[u] /\ msg'[u] = msg[u],
         UNCHANGED <<m_checkedLocations, down, completed>>,
         t = "main" => (ReplayAhead => ReplayAhead' \/ Announcing(t)')
  PROVE  Accounted'
<1>1. \A u \in Threads : Announcing(u) => Announcing(u)'
  BY DEF Announcing, Sending
<1>2. t # "main" => (ReplayAhead => ReplayAhead')
  BY DEF ReplayAhead, Before, Replaying, Sending, Threads
<1> QED BY <1>1, <1>2, ShownQuiet

LEMMA ShownWrite ==
  ASSUME TypeOK, CompletionChain, Accounted, NEW t \in Threads, NEW part,
         Sending(t), Write(t, part), UNCHANGED <<m_checkedLocations, completed>>,
         \A u \in Threads \ {t} : pc'[u] = pc[u] /\ msg'[u] = msg[u],
         ReplayAhead => ReplayAhead',
         \/ part = "body"
         \/ Announcing(t) => Announcing(t)'
  PROVE  Accounted'
<1> DEFINE e == [from |-> t, part |-> part, msg |-> msg[t]]
           L == Len(down)
<1>1. down \in Seq(Chunks) /\ down' = Append(down, e)
  BY DEF TypeOK, PipeTypeOK, Write
<1>2. /\ Len(down') = L + 1 /\ L \in Nat
      /\ \A n \in 1 .. L : down'[n] = down[n]
      /\ down'[L + 1] = e
  BY <1>1, AppendedChunk
<1>3. e.part = part /\ e.msg = msg[t]
  OBVIOUS
<1> HIDE DEF e, L
<1>4. Recorded' = Recorded
  BY DEF Recorded, CheckedMissions
<1>5. OnTheWay => OnTheWay'
  <2> SUFFICES ASSUME NEW n \in CompletedChunks, down[n].part = "body",
                      Named(n) = Recorded
               PROVE  OnTheWay'
    BY DEF OnTheWay
  <2>1. n \in 1 .. L /\ n \in 1 .. L + 1
    BY <1>2 DEF CompletedChunks, L
  <2>2. n \in CompletedChunks' /\ Named(n)' = Named(n) /\ down'[n].part = "body"
    BY <1>2, <2>1 DEF CompletedChunks, Named
  <2> QED BY <1>4, <2>2 DEF OnTheWay
<1>6. Shown => Shown'
  BY <1>4 DEF Shown
<1>7. ASSUME NEW u \in Threads, Announcing(u)
      PROVE  OnTheWay' \/ \E v \in Threads : Announcing(v)'
  <2>1. CASE u # t
    BY <1>7, <2>1 DEF Announcing, Sending
  <2>2. CASE u = t /\ (Announcing(t) => Announcing(t)')
    BY <1>7, <2>2
  <2>3. CASE u = t /\ part = "body"
    <3>1. msg[t].kind = "COMPLETED"
      BY <1>7, <2>3 DEF Announcing, Sending
    <3>2. msg[t].missions = Recorded
      BY <3>1, ChainSplit
    <3>3. PICK n \in 1 .. L + 1 : n = L + 1
      BY <1>2
    <3>4. n \in CompletedChunks' /\ Named(n)' = Recorded /\ down'[n].part = "body"
      BY <1>2, <1>3, <2>3, <3>1, <3>2, <3>3 DEF CompletedChunks, Named
    <3> QED BY <1>4, <3>4 DEF OnTheWay
  <2> QED BY <2>1, <2>2, <2>3
<1> QED BY <1>5, <1>6, <1>7 DEF Accounted

LEMMA SendStepShown ==
  ASSUME TypeOK, PhaseInv, CompletionChain, Accounted, NEW t \in Threads, SendStep(t)
  PROVE  Accounted'
<1>0. /\ pc \in [Threads -> AllLabels] /\ msg \in [Threads -> Messages \cup {NoMessage}]
      /\ \A u \in Threads \ {t} : pc'[u] = pc[u] /\ msg'[u] = msg[u]
      /\ "main" \in Threads
  BY SendStepStays DEF TypeOK, ThreadTypeOK, Threads
<1>1. CASE SendToNobody(t) \/ SkipCompletionState(t)
  <2>1. /\ pc[t] \in {"send", "completionState"}
        /\ pc[t] = "send" => ~(m_sendToDll /\ pipeConnected)
        /\ pc[t] = "completionState" => ~m_sendToDll
    BY <1>1 DEF SendToNobody, SkipCompletionState
  <2>2. pc["main"] \in NoPipeYet \cup {"waitDll"}
    BY <2>1 DEF PhaseInv, Connected
  <2>3. t # "main"
    BY <2>1, <2>2 DEF NoPipeYet
  <2>4. pc'["main"] \in NoPipeYet \cup {"waitDll"}
    BY <1>0, <2>2, <2>3
  <2> QED BY <2>4 DEF Accounted, ReplayAhead, Before, NoPipeYet
<1>2. CASE WriteLength(t)
  <2>1. /\ pc[t] = "send" /\ pc'[t] = "body" /\ msg' = msg /\ Write(t, "length")
        /\ UNCHANGED <<m_checkedLocations, completed>>
    BY <1>0, <1>2 DEF WriteLength, Goto
  <2>2. Sending(t) /\ (Announcing(t) => Announcing(t)')
    BY <2>1 DEF Sending, Announcing
  <2>3. ReplayAhead => ReplayAhead'
    BY <1>0, <2>1 DEF ReplayAhead, Before, Replaying, Sending
  <2> QED BY <1>0, <2>1, <2>2, <2>3, ShownWrite
<1>3. CASE WriteBody(t)
  <2>1. /\ pc[t] = "body" /\ pc'[t] = AfterSend(t) /\ Write(t, "body")
        /\ UNCHANGED <<m_checkedLocations, completed>>
    BY <1>0, <1>3 DEF WriteBody, Goto
  <2>2. ReplayAhead => ReplayAhead'
    <3>1. CASE t = "main"
      BY <2>1, <3>1 DEF ReplayAhead, Before, Replaying, Sending, AfterSend
    <3>2. CASE t # "main"
      BY <1>0, <3>2 DEF ReplayAhead, Before, Replaying, Sending
    <3> QED BY <3>1, <3>2
  <2>3. Sending(t)
    BY <2>1 DEF Sending
  <2> QED BY <1>0, <2>1, <2>2, <2>3, ShownWrite
<1>4. CASE SendCompleted(t)
  <2>1. Announcing(t)'
    BY <1>0, <1>4 DEF SendCompleted, CallSend, Announcing, Sending
  <2> QED BY <2>1 DEF Accounted
<1>5. CASE SendFinalMission(t) \/ ReleaseChecked(t)
  <2>1. /\ pc[t] \in {"finalMission", "unlock"}
        /\ UNCHANGED <<m_checkedLocations, down, completed>>
    BY <1>5 DEF SendFinalMission, ReleaseChecked
  <2>2. t = "main" => ~ReplayAhead
    BY <2>1 DEF ReplayAhead, Before, Replaying, Sending
  <2>3. ~Sending(t)
    BY <2>1 DEF Sending
  <2> QED BY <1>0, <2>1, <2>2, <2>3, ShownGoto
<1> QED BY <1>1, <1>2, <1>3, <1>4, <1>5 DEF SendStep

LEMMA PollStepShown ==
  ASSUME TypeOK, Accounted, PollStep, ~SendStep("poll")
  PROVE  Accounted'
<1>0. /\ pc \in [Threads -> AllLabels] /\ msg \in [Threads -> Messages \cup {NoMessage}]
      /\ "poll" \in Threads
  BY DEF TypeOK, ThreadTypeOK, Threads
<1>1. CASE MergeChecked \/ ReadSlotData
  <2>1. Announcing("poll")'
    BY <1>0, <1>1 DEF MergeChecked, ReadSlotData, Goto, Announcing
  <2> QED BY <1>0, <2>1 DEF Accounted
<1>2. CASE ~MergeChecked /\ ~ReadSlotData
  <2>1. /\ pc["poll"] \notin {"slotData", "completionState", "send", "body"}
        /\ UNCHANGED <<m_checkedLocations, down, completed>>
    BY <1>2 DEF PollStep, SlotConnected, SocketClosed, SocketDisconnected,
       ItemsReceived, BufferItem, ItemsDone, Polling
  <2>2. \A u \in Threads \ {"poll"} : pc'[u] = pc[u] /\ msg'[u] = msg[u]
    BY <1>0, <1>2 DEF PollStep, SlotConnected, SocketClosed, SocketDisconnected,
       ItemsReceived, BufferItem, ItemsDone, Goto, CallSend
  <2>3. ~Sending("poll")
    BY <2>1 DEF Sending
  <2> QED BY <1>0, <2>1, <2>2, <2>3, ShownGoto
<1> QED BY <1>1, <1>2

LEMMA PipeStepShown ==
  ASSUME TypeOK, Accounted, PipeStep, ~SendStep("pipe")
  PROVE  Accounted'
<1>0. /\ pc \in [Threads -> AllLabels] /\ msg \in [Threads -> Messages \cup {NoMessage}]
      /\ "pipe" \in Threads
  BY DEF TypeOK, ThreadTypeOK, Threads
<1>1. CASE TrackChecked
  <2>1. Announcing("pipe")'
    BY <1>0, <1>1 DEF TrackChecked, Goto, Announcing
  <2> QED BY <1>0, <2>1 DEF Accounted
<1>2. CASE ~TrackChecked
  <2>1. /\ pc["pipe"] \notin {"slotData", "completionState", "send", "body"}
        /\ UNCHANGED <<m_checkedLocations, down, completed, msg>>
    BY <1>2 DEF PipeStep, PipeAccepts, HandleMissionLoad, HandleMissionComplete,
       HandleChapter, HandleLocationChecked, TakeReport, BeginSendLocation,
       DropLocation, MarkSent, LocationChecks, ReportGoal
  <2>2. \A u \in Threads \ {"pipe"} : pc'[u] = pc[u]
    BY <1>0, <1>2 DEF PipeStep, PipeAccepts, HandleMissionLoad,
       HandleMissionComplete, HandleChapter, HandleLocationChecked, TakeReport,
       BeginSendLocation, DropLocation, MarkSent, LocationChecks, ReportGoal, Goto
  <2>3. ~Sending("pipe")
    BY <2>1 DEF Sending
  <2> QED BY <1>0, <2>1, <2>2, <2>3, ShownGoto
<1> QED BY <1>1, <1>2

\* Until main has replayed, its own completion state is still to come.
LEMMA MainStepShown ==
  ASSUME TypeOK, MainStep, ~SendStep("main")
  PROVE  Accounted'
<1>0. /\ pc \in [Threads -> AllLabels] /\ msg \in [Threads -> Messages \cup {NoMessage}]
      /\ "main" \in Threads
  BY DEF TypeOK, ThreadTypeOK, Threads
<1>1. CASE ReplayDone
  <2>1. Announcing("main")'
    BY <1>0, <1>1 DEF ReplayDone, Goto, Announcing
  <2> QED BY <1>0, <2>1 DEF Accounted
<1>2. CASE ~ReplayDone
  <2>1. \/ pc'["main"] \in {"startPipe", "exited", "setSend", "waitDll", "lockBuffer",
                             "replay"}
        \/ /\ pc'["main"] = "send"
           /\ msg'["main"].kind \in {"SKULLSANITY", "ITEM_RECIVED"}
    BY <1>0, <1>2 DEF MainStep, SlotSeen, SlotTimeout, StartPipe, SetSendToDll,
       ReplayTier, LockBuffer, ReplayItem, Goto, CallSend
  <2>2. ReplayAhead'
    BY <2>1 DEF ReplayAhead, Before, Replaying, Sending
  <2> QED BY <2>2 DEF Accounted
<1> QED BY <1>1, <1>2

\* The reader takes a COMPLETED: what it decodes is no less than before.
LEMMA ReadShown ==
  ASSUME TypeOK, CompletionChain, Paired, Accounted, ReadMessage
  PROVE  Accounted'
<1>1. /\ Len(down) >= 2 /\ Len(down) \in Nat /\ down' = Tail(Tail(down))
      /\ down \in Seq(Chunks) /\ HandleMessage(down[2].msg)
      /\ UNCHANGED <<m_checkedLocations, pc, msg>> /\ down[2].part = "body"
  BY DEF ReadMessage, LengthRead, TypeOK, PipeTypeOK
<1>2. /\ Len(down') = Len(down) - 2
      /\ \A n \in 1 .. Len(down) - 2 : down'[n] = down[n + 2]
  BY <1>1, RestByTwo
<1>3. Recorded' = Recorded
  BY <1>1 DEF Recorded, CheckedMissions
<1>4. 2 \in CompletedChunks => completed' \in DecodedCompletions(Named(2))
  BY <1>1 DEF HandleMessage, CompletedChunks, Named
<1>5. 2 \notin CompletedChunks => completed' = completed
  BY <1>1 DEF HandleMessage, ApplyItem, CompletedChunks
<1>6. CASE OnTheWay
  <2>1. PICK n \in CompletedChunks : down[n].part = "body" /\ Named(n) = Recorded
    BY <1>6 DEF OnTheWay
  <2>2. n \in 1 .. Len(down)
    BY <2>1 DEF CompletedChunks
  <2>3. n # 1
    BY <2>1, <2>2 DEF Paired, Announced
  <2>4. CASE n = 2
    BY <1>3, <1>4, <2>1, <2>4 DEF Accounted, Shown, DecodedCompletions
  <2>5. CASE n # 2
    <3>1. PICK k \in 1 .. Len(down) - 2 : k + 2 = n
      <4>1. n - 2 \in 1 .. Len(down) - 2 /\ (n - 2) + 2 = n
        BY <1>1, <2>2, <2>3, <2>5
      <4> QED BY <4>1
    <3>2. down'[k] = down[n]
      BY <1>2, <3>1
    <3>3. k \in CompletedChunks' /\ Named(k)' = Named(n) /\ down'[k].part = "body"
      BY <1>2, <2>1, <3>1, <3>2 DEF CompletedChunks, Named
    <3> QED BY <1>3, <2>1, <3>3 DEF Accounted, OnTheWay
  <2> QED BY <2>4, <2>5
<1>7. CASE Shown
  <2>1. CASE 2 \in CompletedChunks
    <3>1. Decoded \subseteq Named(2) /\ Named(2) \subseteq completed'
      BY <1>4, <2>1, ChainSplit DEF ChainParts, DecodedCompletions
    <3>2. Recorded \ {OverrunCell} \subseteq Decoded
      BY <1>7 DEF Shown, Decoded
    <3> QED BY <1>3, <3>1, <3>2 DEF Accounted, Shown
  <2>2. CASE 2 \notin CompletedChunks
    BY <1>3, <1>5, <1>7, <2>2 DEF Accounted, Shown
  <2> QED BY <2>1, <2>2
<1>8. CASE ReplayAhead \/ \E t \in Threads : Announcing(t)
  BY <1>1, <1>8 DEF Accounted, ReplayAhead, Before, Replaying, Announcing, Sending
<1> QED BY <1>6, <1>7, <1>8 DEF Accounted

LEMMA ShownStep ==
  ASSUME TypeOK, PhaseInv, CompletionChain, PairInv, ShownInv, [Next]_vars
  PROVE  ShownInv'
<1> SUFFICES ASSUME dll' # "dead"
             PROVE  Accounted'
  BY DEF ShownInv
<1>1. dll # "dead"
  BY DeadStays
<1>2. Accounted /\ Paired
  BY <1>1 DEF ShownInv, PairInv
<1>3. CASE \E t \in Threads : SendStep(t)
  BY <1>2, <1>3, SendStepShown
<1>4. CASE (PollStep \/ PipeStep \/ MainStep) /\ \A t \in Threads : ~SendStep(t)
  BY <1>2, <1>4, PollStepShown, PipeStepShown, MainStepShown DEF Threads
<1>5. CASE ReadMessage
  BY <1>2, <1>5, ReadShown
<1>6. CASE DllConnects \/ SendReport \/ GameStep \/ ServerReads \/ LinkBreaks
           \/ (\E item \in Items : ServerGrants(item)) \/ UNCHANGED vars
  <2>1. UNCHANGED <<m_checkedLocations, down, completed, pc, msg>>
    BY <1>6 DEF DllConnects, SendReport, GameStep, GameLoads, GameWon, ChapterShown,
       SkullClaimed, ShellCommand, Report, ServerReads, LinkBreaks, ServerGrants, vars
  <2>2. /\ \A t \in Threads : Announcing(t) => Announcing(t)'
        /\ ReplayAhead => ReplayAhead'
    BY <2>1 DEF Announcing, ReplayAhead, Before, Replaying, Sending
  <2> QED BY <1>2, <2>1, <2>2, ShownQuiet
<1>7. ~ReadMixedUp
  BY DEF ReadMixedUp
<1> QED BY <1>3, <1>4, <1>5, <1>6, <1>7 DEF Next, DllStep

\* As long as the DLL reads, no recorded completion is forgotten: the DLL shows it,
\* a COMPLETED that names it is in the pipe, a thread is about to send one, or
\* main's replay is still to end with one (SendCompletionState and its callers).
THEOREM RecordedIsShown == Spec => []ShownInv
<1>1. Init => ShownInv
  BY DEF Init, ShownInv, Accounted, ReplayAhead, Before, Threads
<1> QED BY <1>1, ShownStep, TypeCorrect, PhasesHold, ChainHolds, PairsHold, PTL
        DEF Spec

\* Main watches, the threads rest and the pipe is empty under a living reader.
DownSettled ==
  /\ pc["main"] = "monitor" /\ dll # "dead" /\ down = <<>>
  /\ \A t \in Threads : ~Announcing(t)

SettledShows == DownSettled => completed \ {OverrunCell} = Recorded \ {OverrunCell}

\* Then the DLL holds exactly the missions the bridge has recorded, but for the
\* last cell, which the overrun of the array makes arbitrary: what
\* CompletionsArrive waits for.
THEOREM SettledIsShown == Spec => []SettledShows
<1>1. ASSUME ShownInv, CompletionsAreChecked, DownSettled
      PROVE  completed \ {OverrunCell} = Recorded \ {OverrunCell}
  <2>1. ~ReplayAhead /\ ~OnTheWay
    BY <1>1 DEF DownSettled, ReplayAhead, Before, Replaying, Sending, OnTheWay,
       CompletedChunks
  <2>2. Shown
    BY <1>1, <2>1 DEF DownSettled, ShownInv, Accounted
  <2> QED BY <1>1, <2>2 DEF Shown, CompletionsAreChecked, Decoded, Recorded
<1>2. ShownInv /\ CompletionsAreChecked => SettledShows
  BY <1>1 DEF SettledShows
<1> QED BY <1>2, RecordedIsShown, CompletionsChecked, PTL
=============================================================================
