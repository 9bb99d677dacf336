----------------------------- MODULE FlowProofs -----------------------------
(***************************************************************************)
(* What holds of the mission flags for any number of missions and of       *)
(* commands that wait for the engine.                                      *)
(***************************************************************************)
EXTENDS MissionFlow, TLAPS

Message == Commands \cup {"load"}

\* What a quit sequence can still have to do: with the mission flag last, its
\* teardown posted or not, or without.
OpenQuits == {<<"pause", "teardown", "resume", "SetInMission">>,
              <<"teardown", "resume", "SetInMission">>}
LateQuits == {<<"resume", "SetInMission">>, <<"SetInMission">>}
PlainQuits == {<<"pause", "teardown", "resume">>, <<"teardown", "resume">>,
               <<"resume">>, <<>>}

Quits == OpenQuits \cup LateQuits \cup PlainQuits

Waiting(message) == \E n \in 1 .. Len(posted) : posted[n] = message

\* A teardown waits behind every load.
Covered ==
  \A i \in 1 .. Len(posted) : posted[i] = "load"
    => \E j \in i + 1 .. Len(posted) : posted[j] = "teardown"

FlowTypes ==
  /\ mission \in {"none", "loading", "running", "won"}
  /\ posted \in Seq(Message)
  /\ quitting \in Quits
  /\ loadDetour = "original" => mission = "loading"
  /\ ~halo1 => mission = "none" /\ posted = <<>> /\ quitting = <<>>
                 /\ loadDetour = "none"

\* Those that still have the teardown before them.
Ending == OpenQuits \cup {<<"pause", "teardown", "resume">>,
                          <<"teardown", "resume">>}

LEMMA QuitEnding ==
  \A q \in Quits : (\E n \in 1 .. Len(q) : q[n] = "teardown") <=> q \in Ending
<1>1. \A q \in Ending : \E n \in 1 .. Len(q) : q[n] = "teardown"
  <2>1. \A q \in OpenQuits : \E n \in 1 .. Len(q) : q[n] = "teardown"
    BY DEF OpenQuits
  <2>2. \A q \in {<<"pause", "teardown", "resume">>, <<"teardown", "resume">>} :
          \E n \in 1 .. Len(q) : q[n] = "teardown"
    OBVIOUS
  <2> QED BY <2>1, <2>2 DEF Ending
<1>2. \A q \in LateQuits \cup {<<"resume">>, <<>>} :
        \A n \in 1 .. Len(q) : q[n] # "teardown"
  BY DEF LateQuits
<1>3. \A q \in Quits : q \in Ending \/ q \in LateQuits \cup {<<"resume">>, <<>>}
  BY DEF Quits, PlainQuits, Ending
<1> QED BY <1>1, <1>2, <1>3

LEMMA QuitHeads ==
  \A q \in Quits : q # <<>> =>
    /\ Head(q) \in Commands \cup {"SetInMission"}
    /\ Tail(q) \in Quits
    /\ Head(q) = "SetInMission" => q \in LateQuits /\ Tail(q) = <<>>
    /\ Tail(q) \in LateQuits => q \in LateQuits \/ Head(q) = "teardown"
    /\ q \in Ending => Head(q) = "teardown" \/ Tail(q) \in Ending
<1>1. LET q == <<"pause", "teardown", "resume", "SetInMission">>
      IN  Head(q) = "pause" /\ Tail(q) = <<"teardown", "resume", "SetInMission">>
  OBVIOUS
<1>2. LET q == <<"teardown", "resume", "SetInMission">>
      IN  Head(q) = "teardown" /\ Tail(q) = <<"resume", "SetInMission">>
  OBVIOUS
<1>3. LET q == <<"resume", "SetInMission">>
      IN  Head(q) = "resume" /\ Tail(q) = <<"SetInMission">>
  OBVIOUS
<1>4. LET q == <<"SetInMission">>
      IN  Head(q) = "SetInMission" /\ Tail(q) = <<>>
  OBVIOUS
<1>5. LET q == <<"pause", "teardown", "resume">>
      IN  Head(q) = "pause" /\ Tail(q) = <<"teardown", "resume">>
  OBVIOUS
<1>6. LET q == <<"teardown", "resume">>
      IN  Head(q) = "teardown" /\ Tail(q) = <<"resume">>
  OBVIOUS
<1>7. LET q == <<"resume">> IN Head(q) = "resume" /\ Tail(q) = <<>>
  OBVIOUS
<1>8. ~(<<"teardown", "resume", "SetInMission">> \in LateQuits)
      /\ ~(<<"teardown", "resume">> \in LateQuits)
      /\ ~(<<"resume">> \in LateQuits) /\ ~(<<>> \in LateQuits)
  BY DEF LateQuits
<1>9. ~(<<"resume", "SetInMission">> \in Ending) /\ ~(<<"SetInMission">> \in Ending)
      /\ ~(<<"resume">> \in Ending)
  BY DEF Ending, OpenQuits
<1> SUFFICES ASSUME NEW q \in Quits, q # <<>>
             PROVE  /\ Head(q) \in Commands \cup {"SetInMission"}
                    /\ Tail(q) \in Quits
                    /\ Head(q) = "SetInMission" => q \in LateQuits /\ Tail(q) = <<>>
                    /\ Tail(q) \in LateQuits => q \in LateQuits \/ Head(q) = "teardown"
                    /\ q \in Ending => Head(q) = "teardown" \/ Tail(q) \in Ending
  OBVIOUS
<1>10. CASE q \in OpenQuits
  BY <1>1, <1>2, <1>8, <1>10, Zenon DEF OpenQuits, Quits, LateQuits, Ending, Commands
<1>11. CASE q \in LateQuits
  BY <1>3, <1>4, <1>8, <1>9, <1>11, Zenon DEF LateQuits, Quits, PlainQuits, Commands
<1>12. CASE q \in PlainQuits
  BY <1>5, <1>6, <1>7, <1>8, <1>9, <1>12, Zenon DEF PlainQuits, Quits, Ending, Commands
<1> QED BY <1>10, <1>11, <1>12 DEF Quits

LEMMA TypesStep == FlowTypes /\ [FlowNext]_flowVars => FlowTypes'
<1> SUFFICES ASSUME FlowTypes, [FlowNext]_flowVars PROVE FlowTypes'
  OBVIOUS
<1> USE DEF FlowTypes, engineVars, flagVars, Message
<1>1. CASE LoadBegins \/ \E command \in Commands : CommandHandled(command)
  BY <1>1 DEF LoadBegins, CommandHandled, Handles
<1>2. CASE LoadOriginal \/ LoadEnds \/ Won
  BY <1>2 DEF LoadOriginal, LoadEnds, Won
<1>3. CASE ModuleGone \/ ModuleBack
  <2>1. <<>> \in Seq(Message)
    OBVIOUS
  <2> QED BY <1>3, <2>1 DEF ModuleGone, ModuleBack
<1>4. CASE StartMission
  BY <1>4 DEF StartMission, ShellFree
<1>5. CASE ShellStep
  <2>1. PICK command \in Commands : DetourShellCommand(command)
    BY <1>5 DEF ShellStep
  <2>2. CASE QuitAfterComplete \/ QuitLocked
    BY <2>1, <2>2 DEF DetourShellCommand, ShellFree, QuitAfterComplete, QuitLocked,
                      QuitSequence, Quits, OpenQuits,
                      PlainQuits
  <2>3. CASE PassOn(command)
    BY <2>1, <2>3 DEF DetourShellCommand, ShellFree, PassOn
  <2> QED BY <2>1, <2>2, <2>3 DEF DetourShellCommand
<1>6. CASE QuitStep
  BY <1>6, QuitHeads DEF QuitStep
<1>7. CASE UNCHANGED flowVars
  BY <1>7 DEF flowVars
<1> QED BY <1>1, <1>2, <1>3, <1>4, <1>5, <1>6, <1>7 DEF FlowNext, EngineStep

-----------------------------------------------------------------------------
(***************************************************************************)
(* The queue of commands.                                                  *)
(***************************************************************************)
\* The engine takes the first command.
LEMMA Popped ==
  ASSUME posted \in Seq(Message), posted # <<>>, posted' = Tail(posted)
  PROVE  /\ Waiting("teardown") => Head(posted) = "teardown" \/ Waiting("teardown")'
         /\ Covered => Covered'
         /\ Covered /\ Head(posted) = "load" => Waiting("teardown")'
<1>1. /\ Len(posted) \in Nat \ {0} /\ Len(posted') = Len(posted) - 1
      /\ Head(posted) = posted[1]
      /\ \A n \in 1 .. Len(posted) - 1 : posted'[n] = posted[n + 1]
  OBVIOUS
<1>2. ASSUME NEW n \in 2 .. Len(posted)
      PROVE  n - 1 \in 1 .. Len(posted') /\ posted'[n - 1] = posted[n]
  BY <1>1
<1>3. Waiting("teardown") => Head(posted) = "teardown" \/ Waiting("teardown")'
  <2> SUFFICES ASSUME NEW n \in 1 .. Len(posted), posted[n] = "teardown",
                      Head(posted) # "teardown"
               PROVE  Waiting("teardown")'
    BY DEF Waiting
  <2>1. n \in 2 .. Len(posted)
    BY <1>1
  <2> QED BY <1>2, <2>1 DEF Waiting
<1>4. ASSUME Covered, NEW i \in 1 .. Len(posted), posted[i] = "load"
      PROVE  \E j \in i .. Len(posted') : posted'[j] = "teardown"
  <2>1. PICK j \in i + 1 .. Len(posted) : posted[j] = "teardown"
    BY <1>4 DEF Covered
  <2>2. j - 1 \in i .. Len(posted') /\ posted'[j - 1] = "teardown"
    BY <1>1, <2>1
  <2> QED BY <2>2
<1>5. Covered => Covered'
  <2> SUFFICES ASSUME Covered, NEW i \in 1 .. Len(posted'), posted'[i] = "load"
               PROVE  \E j \in i + 1 .. Len(posted') : posted'[j] = "teardown"
    BY DEF Covered
  <2>1. i + 1 \in 1 .. Len(posted) /\ posted[i + 1] = "load"
    BY <1>1
  <2> QED BY <1>4, <2>1
<1>6. Covered /\ Head(posted) = "load" => Waiting("teardown")'
  BY <1>1, <1>4 DEF Waiting
<1> QED BY <1>3, <1>5, <1>6

\* The shell posts another.
LEMMA Pushed ==
  ASSUME posted \in Seq(Message), NEW c \in Message, posted' = Append(posted, c)
  PROVE  /\ Waiting("teardown") => Waiting("teardown")'
         /\ c = "teardown" => Waiting("teardown")' /\ Covered'
         /\ c # "load" /\ Covered => Covered'
<1>1. /\ Len(posted) \in Nat /\ Len(posted') = Len(posted) + 1
      /\ posted'[Len(posted) + 1] = c
      /\ \A n \in 1 .. Len(posted) : posted'[n] = posted[n]
  OBVIOUS
<1>2. Waiting("teardown") => Waiting("teardown")'
  BY <1>1 DEF Waiting
<1>3. c = "teardown" => Waiting("teardown")'
  BY <1>1 DEF Waiting
<1>4. ASSUME c = "teardown" PROVE Covered'
  <2> SUFFICES ASSUME NEW i \in 1 .. Len(posted'), posted'[i] = "load"
               PROVE  \E j \in i + 1 .. Len(posted') : posted'[j] = "teardown"
    BY DEF Covered
  <2>1. Len(posted) + 1 \in i + 1 .. Len(posted')
    BY <1>1, <1>4
  <2> QED BY <1>1, <1>4, <2>1
<1>5. ASSUME c # "load", Covered PROVE Covered'
  <2> SUFFICES ASSUME NEW i \in 1 .. Len(posted'), posted'[i] = "load"
               PROVE  \E j \in i + 1 .. Len(posted') : posted'[j] = "teardown"
    BY DEF Covered
  <2>1. i \in 1 .. Len(posted) /\ posted[i] = "load"
    BY <1>1, <1>5
  <2>2. PICK j \in i + 1 .. Len(posted) : posted[j] = "teardown"
    BY <1>5, <2>1 DEF Covered
  <2> QED BY <1>1, <2>1, <2>2
<1> QED BY <1>2, <1>3, <1>4, <1>5

LEMMA Pending ==
  FlowTypes => (TeardownPending <=> Waiting("teardown") \/ quitting \in Ending)
BY QuitEnding DEF FlowTypes, TeardownPending, Waiting

LEMMA PendingNext ==
  FlowTypes' => (TeardownPending' <=> Waiting("teardown")' \/ quitting' \in Ending)
BY QuitEnding DEF FlowTypes, TeardownPending, Waiting

-----------------------------------------------------------------------------
(***************************************************************************)
(* The mission flag.                                                       *)
(***************************************************************************)
\* A quit sequence that has still to clear the mission flag does so while the
\* mission it ends, or the one that was about to begin, is still to be ended:
\* no load that it does not end comes before its last step.
LateInv ==
  quitting \in LateQuits =>
    /\ mission # "none" /\ ~cleared => Waiting("teardown")
    /\ Covered

KeptInv == LateInv /\ InMissionKept

LEMMA NotLate == <<>> \notin LateQuits /\ QuitSequence \notin LateQuits
                   /\ <<"pause", "teardown", "resume">> \notin LateQuits
BY DEF LateQuits, QuitSequence

LEMMA KeptEngine ==
  ASSUME FlowTypes, FlowTypes', KeptInv,
         EngineStep \/ Won \/ ModuleGone \/ ModuleBack
  PROVE  KeptInv'
<1> USE DEF KeptInv, LateInv, InMissionKept
<1>1. CASE LoadBegins
  <2>1. /\ posted \in Seq(Message) /\ posted # <<>> /\ posted' = Tail(posted)
        /\ Head(posted) = "load" /\ inMission' = TRUE
        /\ UNCHANGED quitting
    BY <1>1 DEF LoadBegins, Handles, FlowTypes
  <2>2. /\ Covered => Covered'
        /\ Covered => Waiting("teardown")'
    BY <2>1, Popped
  <2>3. InMissionKept'
    BY <2>1
  <2>4. LateInv'
    BY <2>1, <2>2
  <2> QED BY <2>3, <2>4
<1>2. ASSUME NEW command \in Commands, CommandHandled(command) PROVE KeptInv'
  <2>1. /\ posted \in Seq(Message) /\ posted # <<>> /\ posted' = Tail(posted)
        /\ Head(posted) = command
        /\ UNCHANGED <<quitting, inMission, cleared>>
        /\ mission' = IF command = "teardown" THEN "none" ELSE mission
    BY <1>2 DEF CommandHandled, Handles, FlowTypes, flagVars
  <2>2. /\ Waiting("teardown") => command = "teardown" \/ Waiting("teardown")'
        /\ Covered => Covered'
    BY <2>1, Popped
  <2>3. CASE command = "teardown"
    BY <2>1, <2>2, <2>3
  <2>4. CASE command # "teardown"
    <3>1. TeardownPending => TeardownPending'
      BY <2>1, <2>2, <2>4, Pending, PendingNext DEF FlowTypes
    <3> QED BY <2>1, <2>2, <2>4, <3>1
  <2> QED BY <2>3, <2>4
<1>3. CASE LoadOriginal \/ LoadEnds \/ Won
  <2>1. /\ mission # "none" \/ mission' = "none"
        /\ UNCHANGED <<posted, quitting, inMission, cleared>>
    BY <1>3 DEF LoadOriginal, LoadEnds, Won, FlowTypes, flagVars
  <2> QED BY <2>1 DEF TeardownPending, Waiting, Covered
<1>4. CASE ModuleGone \/ ModuleBack
  <2>1. mission' = "none" /\ quitting' = <<>>
    BY <1>4 DEF ModuleGone, ModuleBack, FlowTypes
  <2> QED BY <2>1, NotLate
<1> QED BY <1>1, <1>2, <1>3, <1>4 DEF EngineStep

LEMMA KeptShell ==
  ASSUME FlowTypes, FlowTypes', KeptInv, StartMission \/ ShellStep \/ QuitStep
  PROVE  KeptInv'
<1> USE DEF KeptInv, LateInv, InMissionKept
<1>1. CASE StartMission
  <2>1. mission' = "none" /\ quitting' = <<>>
    BY <1>1 DEF StartMission, ShellFree
  <2> QED BY <2>1, NotLate
<1>2. CASE ShellStep
  <2>1. PICK command \in Commands : DetourShellCommand(command)
    BY <1>2 DEF ShellStep
  <2>2. quitting = <<>> /\ UNCHANGED mission
    BY <2>1 DEF DetourShellCommand, ShellFree, engineVars
  <2>3. CASE QuitAfterComplete \/ QuitLocked
    <3>1. cleared' = TRUE /\ quitting' \notin LateQuits
      BY <2>3, NotLate DEF QuitAfterComplete, QuitLocked
    <3> QED BY <3>1
  <2>4. CASE PassOn(command)
    <3>1. /\ posted' = Append(posted, command) /\ command \in Message
          /\ posted \in Seq(Message) /\ quitting' = <<>>
      BY <2>2, <2>4 DEF PassOn, FlowTypes, Message
    <3>2. cleared' \/ ((inMission => inMission') /\ (cleared => cleared'))
      BY <2>4, Zenon DEF PassOn
    <3>3. TeardownPending => TeardownPending'
      BY <2>2, <3>1, Pushed, Pending, PendingNext
    <3>4. inMission' \/ cleared' \/ TeardownPending' \/ mission' = "none"
      BY <2>2, <3>2, <3>3
    <3> QED BY <3>1, <3>4, NotLate
  <2> QED BY <2>1, <2>3, <2>4 DEF DetourShellCommand
<1>3. CASE QuitStep
  <2>1. /\ quitting # <<>> /\ quitting \in Quits /\ quitting' = Tail(quitting)
        /\ posted \in Seq(Message) /\ UNCHANGED <<mission, cleared>>
    BY <1>3 DEF QuitStep, FlowTypes, engineVars
  <2>2. CASE Head(quitting) = "SetInMission"
    <3>1. quitting \in LateQuits /\ quitting' = <<>> /\ UNCHANGED posted
      BY <1>3, <2>1, <2>2, QuitHeads DEF QuitStep
    <3>2. Waiting("teardown") => TeardownPending'
      BY <3>1 DEF Waiting, TeardownPending
    <3> QED BY <2>1, <3>1, <3>2, NotLate
  <2>3. CASE Head(quitting) # "SetInMission"
    <3>1. /\ posted' = Append(posted, Head(quitting)) /\ UNCHANGED inMission
          /\ Head(quitting) \in Message /\ Head(quitting) # "load"
      BY <1>3, <2>1, <2>3, QuitHeads DEF QuitStep, Message, Commands
    <3>2. /\ Waiting("teardown") => Waiting("teardown")'
          /\ Head(quitting) = "teardown" => Waiting("teardown")' /\ Covered'
          /\ Covered => Covered'
      BY <2>1, <3>1, Pushed
    <3>3. LateInv'
      BY <2>1, <3>1, <3>2, QuitHeads
    <3>4. TeardownPending => TeardownPending'
      BY <2>1, <3>2, Pending, PendingNext, QuitHeads
    <3> QED BY <2>1, <3>1, <3>3, <3>4
  <2> QED BY <2>2, <2>3
<1> QED BY <1>1, <1>2, <1>3

\* While a mission runs the worker keeps off the skulls: the flag of a mission
\* survives the end of a quit sequence of the one before, in any order in which
\* the shell posts and the engine handles commands, and for any number of them.
THEOREM MissionKeepsFlag == FlowSpec => []InMissionKept
<1>1. FlowInit => FlowTypes /\ KeptInv
  <2>1. FlowInit => FlowTypes
    BY DEF FlowInit, FlowTypes, Quits, PlainQuits
  <2>2. FlowInit => KeptInv
    BY NotLate DEF FlowInit, KeptInv, LateInv, InMissionKept
  <2> QED BY <2>1, <2>2
<1>2. FlowTypes /\ FlowTypes' /\ KeptInv /\ [FlowNext]_flowVars => KeptInv'
  <2>1. KeptInv /\ UNCHANGED flowVars => KeptInv'
    BY DEF KeptInv, LateInv, InMissionKept, flowVars, engineVars, flagVars,
           TeardownPending, Waiting, Covered
  <2> QED BY <2>1, KeptEngine, KeptShell DEF FlowNext
<1>3. KeptInv => InMissionKept
  BY DEF KeptInv
<1> QED BY <1>1, <1>2, <1>3, TypesStep, PTL DEF FlowSpec

-----------------------------------------------------------------------------
(***************************************************************************)
(* The flags that make a mission quit.                                     *)
(***************************************************************************)
\* The player has started no second mission before the first is loaded, and
\* no teardown has been posted behind it.
OneLoad ==
  \A i, j \in 1 .. Len(posted) : posted[i] = "load" /\ posted[j] = "load" => i = j
Unfollowed ==
  \A i, j \in 1 .. Len(posted) : posted[i] = "load" /\ i < j => posted[j] # "teardown"

\* A mission is waited for only where there is none.
LoadInv ==
  /\ loadDetour \in {"none", "original", "flag"}
  /\ OneLoad
  /\ Waiting("load") => mission = "none" /\ loadDetour = "none"
  /\ loadDetour = "flag" => mission = "running"

\* As long as no mission has ended under its flag, each flag belongs to the
\* mission there is, which nothing else ends; a load has nothing behind it that
\* would end its mission; and a mission flag that outlives its mission has a
\* quit sequence to clear it.
LeaveInv == ~crossed =>
  /\ g_quitAfterComplete => mission = "won" /\ ~TeardownPending
  /\ g_quitLockedMission => /\ mission = "running" /\ locked
                            /\ loadDetour = "none" /\ ~TeardownPending
  /\ loadDetour # "none" => ~g_quitLockedMission /\ ~TeardownPending
  /\ Waiting("load") => quitting \notin Ending
  /\ Unfollowed
  /\ inMission /\ halo1 /\ (mission = "none" \/ TeardownPending)
       => quitting \in OpenQuits \cup LateQuits

LEMMA LoadPopped ==
  ASSUME posted \in Seq(Message), posted # <<>>, posted' = Tail(posted)
  PROVE  /\ Waiting("load")' => Waiting("load")
         /\ Waiting("teardown")' => Waiting("teardown")
         /\ Head(posted) = "load" => Waiting("load")
         /\ Head(posted) = "teardown" => Waiting("teardown")
         /\ OneLoad => OneLoad'
         /\ Unfollowed => Unfollowed'
         /\ Head(posted) = "load" /\ OneLoad => ~Waiting("load")'
         /\ Head(posted) = "load" /\ Unfollowed => ~Waiting("teardown")'
<1>1. /\ Len(posted) \in Nat \ {0} /\ Len(posted') = Len(posted) - 1
      /\ Head(posted) = posted[1]
      /\ \A n \in 1 .. Len(posted) - 1 : posted'[n] = posted[n + 1]
  OBVIOUS
<1>2. ASSUME NEW n \in 1 .. Len(posted')
      PROVE  n + 1 \in 1 .. Len(posted) /\ posted'[n] = posted[n + 1] /\ 1 < n + 1
  BY <1>1
<1>3. 1 \in 1 .. Len(posted)
  BY <1>1
<1>4. /\ Waiting("load")' => Waiting("load")
      /\ Waiting("teardown")' => Waiting("teardown")
  BY <1>2 DEF Waiting
<1>5. /\ Head(posted) = "load" => Waiting("load")
      /\ Head(posted) = "teardown" => Waiting("teardown")
  BY <1>1, <1>3 DEF Waiting
<1>6. OneLoad => OneLoad'
  <2> SUFFICES ASSUME OneLoad, NEW i \in 1 .. Len(posted'), NEW j \in 1 .. Len(posted'),
                      posted'[i] = "load", posted'[j] = "load"
               PROVE  i = j
    BY DEF OneLoad
  <2>1. i + 1 = j + 1
    BY <1>2 DEF OneLoad
  <2> QED BY <2>1
<1>7. Unfollowed => Unfollowed'
  <2> SUFFICES ASSUME Unfollowed, NEW i \in 1 .. Len(posted'), NEW j \in 1 .. Len(posted'),
                      posted'[i] = "load", i < j
               PROVE  posted'[j] # "teardown"
    BY DEF Unfollowed
  <2>1. i + 1 < j + 1
    OBVIOUS
  <2> QED BY <1>2, <2>1 DEF Unfollowed
<1>8. Head(posted) = "load" /\ OneLoad => ~Waiting("load")'
  <2> SUFFICES ASSUME posted[1] = "load", OneLoad, NEW n \in 1 .. Len(posted'),
                      posted'[n] = "load"
               PROVE  FALSE
    BY <1>1 DEF Waiting
  <2> QED BY <1>2, <1>3 DEF OneLoad
<1>9. Head(posted) = "load" /\ Unfollowed => ~Waiting("teardown")'
  <2> SUFFICES ASSUME posted[1] = "load", Unfollowed, NEW n \in 1 .. Len(posted'),
                      posted'[n] = "teardown"
               PROVE  FALSE
    BY <1>1 DEF Waiting
  <2> QED BY <1>2, <1>3 DEF Unfollowed
<1> QED BY <1>4, <1>5, <1>6, <1>7, <1>8, <1>9

LEMMA LoadPushed ==
  ASSUME posted \in Seq(Message), NEW c \in Message, posted' = Append(posted, c)
  PROVE  /\ Waiting("load")' => Waiting("load") \/ c = "load"
         /\ Waiting("teardown")' => Waiting("teardown") \/ c = "teardown"
         /\ OneLoad /\ (c = "load" => ~Waiting("load")) => OneLoad'
         /\ Unfollowed /\ (c = "teardown" => ~Waiting("load")) => Unfollowed'
<1>1. /\ Len(posted) \in Nat /\ Len(posted') = Len(posted) + 1
      /\ posted'[Len(posted) + 1] = c
      /\ \A n \in 1 .. Len(posted) : posted'[n] = posted[n]
  OBVIOUS
<1>2. ASSUME NEW n \in 1 .. Len(posted')
      PROVE  \/ n \in 1 .. Len(posted) /\ posted'[n] = posted[n]
             \/ n = Len(posted) + 1 /\ posted'[n] = c
  BY <1>1
<1>3. /\ Waiting("load")' => Waiting("load") \/ c = "load"
      /\ Waiting("teardown")' => Waiting("teardown") \/ c = "teardown"
  BY <1>2 DEF Waiting
<1>4. OneLoad /\ (c = "load" => ~Waiting("load")) => OneLoad'
  <2> SUFFICES ASSUME OneLoad, c = "load" => ~Waiting("load"),
                      NEW i \in 1 .. Len(posted'), NEW j \in 1 .. Len(posted'),
                      posted'[i] = "load", posted'[j] = "load"
               PROVE  i = j
    BY DEF OneLoad
  <2> QED BY <1>2 DEF OneLoad, Waiting
<1>5. Unfollowed /\ (c = "teardown" => ~Waiting("load")) => Unfollowed'
  <2> SUFFICES ASSUME Unfollowed, c = "teardown" => ~Waiting("load"),
                      NEW i \in 1 .. Len(posted'), NEW j \in 1 .. Len(posted'),
                      posted'[i] = "load", i < j
               PROVE  posted'[j] # "teardown"
    BY DEF Unfollowed
  <2>1. i \in 1 .. Len(posted) /\ posted[i] = "load"
    BY <1>1, <1>2
  <2> QED BY <1>2, <2>1 DEF Unfollowed, Waiting
<1> QED BY <1>3, <1>4, <1>5

\* A quit sequence that has begun goes on to its end, and posts its teardown as
\* long as it has it before it.
LEMMA QuitTails ==
  \A q \in Quits : q # <<>> =>
    /\ Tail(q) \in Ending => q \in Ending
    /\ Head(q) = "teardown" => q \in Ending
    /\ q \in OpenQuits \cup LateQuits /\ Head(q) # "SetInMission"
         => Tail(q) \in OpenQuits \cup LateQuits
<1>1. LET q == <<"pause", "teardown", "resume", "SetInMission">>
      IN  Head(q) = "pause" /\ Tail(q) = <<"teardown", "resume", "SetInMission">>
  OBVIOUS
<1>2. LET q == <<"teardown", "resume", "SetInMission">>
      IN  Head(q) = "teardown" /\ Tail(q) = <<"resume", "SetInMission">>
  OBVIOUS
<1>3. LET q == <<"resume", "SetInMission">>
      IN  Head(q) = "resume" /\ Tail(q) = <<"SetInMission">>
  OBVIOUS
<1>4. LET q == <<"SetInMission">> IN Head(q) = "SetInMission" /\ Tail(q) = <<>>
  OBVIOUS
<1>5. LET q == <<"resume">> IN Head(q) = "resume" /\ Tail(q) = <<>>
  OBVIOUS
<1>6. ~(<<"resume", "SetInMission">> \in Ending) /\ ~(<<"SetInMission">> \in Ending)
      /\ ~(<<>> \in Ending)
  BY DEF Ending, OpenQuits
<1>7. \A q \in {<<"pause", "teardown", "resume">>, <<"teardown", "resume">>, <<"resume">>} :
        q \notin OpenQuits \cup LateQuits
  BY DEF OpenQuits, LateQuits
<1> SUFFICES ASSUME NEW q \in Quits, q # <<>>
             PROVE  /\ Tail(q) \in Ending => q \in Ending
                    /\ Head(q) = "teardown" => q \in Ending
                    /\ q \in OpenQuits \cup LateQuits /\ Head(q) # "SetInMission"
                         => Tail(q) \in OpenQuits \cup LateQuits
  OBVIOUS
<1>8. CASE q \in OpenQuits
  BY <1>1, <1>2, <1>8, Zenon DEF OpenQuits, LateQuits, Ending
<1>9. CASE q \in LateQuits
  BY <1>3, <1>4, <1>6, <1>9, Zenon DEF LateQuits
<1>10. CASE q \in PlainQuits
  <2>1. CASE q = <<"resume">>
    BY <1>5, <1>6, <1>7, <2>1, Zenon
  <2>2. CASE q # <<"resume">>
    BY <1>7, <1>10, <2>2, Zenon DEF PlainQuits, Ending
  <2> QED BY <2>1, <2>2
<1> QED BY <1>8, <1>9, <1>10 DEF Quits

LEMMA NotEnding ==
  /\ <<>> \notin Ending /\ <<>> \notin OpenQuits \cup LateQuits
  /\ QuitSequence \in Ending /\ QuitSequence \in OpenQuits
  /\ <<"pause", "teardown", "resume">> \in Ending
BY DEF Ending, OpenQuits, LateQuits, QuitSequence

LEMMA LoadStep ==
  ASSUME FlowTypes, FlowTypes', LoadInv, [FlowNext]_flowVars PROVE LoadInv'
<1> USE DEF LoadInv, engineVars, flagVars
<1>1. CASE LoadBegins
  <2>1. /\ posted \in Seq(Message) /\ posted # <<>> /\ posted' = Tail(posted)
        /\ Head(posted) = "load" /\ loadDetour' = "original"
    BY <1>1 DEF LoadBegins, Handles, FlowTypes
  <2> QED BY <2>1, LoadPopped
<1>2. ASSUME NEW command \in Commands, CommandHandled(command) PROVE LoadInv'
  <2>1. /\ posted \in Seq(Message) /\ posted # <<>> /\ posted' = Tail(posted)
        /\ loadDetour = "none" /\ loadDetour' = "none"
        /\ mission' = IF command = "teardown" THEN "none" ELSE mission
    BY <1>2 DEF CommandHandled, Handles, FlowTypes
  <2> QED BY <2>1, LoadPopped
<1>3. CASE LoadOriginal \/ LoadEnds \/ Won
  <2>1. /\ UNCHANGED posted
        /\ mission # "none" \/ loadDetour # "none"
        /\ loadDetour' \in {"none", "original", "flag"}
        /\ loadDetour' = "flag" => mission' = "running"
    BY <1>3 DEF LoadOriginal, LoadEnds, Won
  <2> QED BY <2>1 DEF Waiting, OneLoad
<1>4. CASE ModuleGone
  <2>1. posted' = <<>> /\ loadDetour' = "none"
    BY <1>4 DEF ModuleGone
  <2> QED BY <2>1 DEF OneLoad, Waiting
<1>5. CASE ModuleBack
  BY <1>5 DEF ModuleBack, OneLoad, Waiting
<1>6. CASE StartMission
  <2>1. /\ posted \in Seq(Message) /\ posted' = Append(posted, "load")
        /\ ~Waiting("load") /\ mission' = "none" /\ UNCHANGED loadDetour
        /\ mission = "none"
    BY <1>6 DEF StartMission, Waiting, FlowTypes
  <2>2. loadDetour = "none"
    BY <2>1 DEF FlowTypes
  <2> QED BY <2>1, <2>2, LoadPushed DEF Message
<1>7. CASE ShellStep
  <2>1. PICK command \in Commands : DetourShellCommand(command)
    BY <1>7 DEF ShellStep
  <2>2. UNCHANGED <<mission, loadDetour>>
    BY <2>1 DEF DetourShellCommand
  <2>3. CASE QuitAfterComplete \/ QuitLocked
    BY <2>2, <2>3 DEF QuitAfterComplete, QuitLocked, OneLoad, Waiting
  <2>4. CASE PassOn(command)
    BY <2>2, <2>4, LoadPushed DEF PassOn, FlowTypes, Message, Commands
  <2> QED BY <2>1, <2>3, <2>4 DEF DetourShellCommand
<1>8. CASE QuitStep
  <2>1. /\ quitting # <<>> /\ quitting \in Quits /\ posted \in Seq(Message)
        /\ UNCHANGED <<mission, loadDetour>>
    BY <1>8 DEF QuitStep, FlowTypes
  <2>2. CASE Head(quitting) = "SetInMission"
    BY <1>8, <2>1, <2>2 DEF QuitStep, OneLoad, Waiting
  <2>3. CASE Head(quitting) # "SetInMission"
    <3>1. /\ posted' = Append(posted, Head(quitting))
          /\ Head(quitting) \in Message /\ Head(quitting) # "load"
      BY <1>8, <2>1, <2>3, QuitHeads DEF QuitStep, Message, Commands
    <3> QED BY <2>1, <3>1, LoadPushed
  <2> QED BY <2>2, <2>3
<1>9. CASE UNCHANGED flowVars
  BY <1>9 DEF flowVars, OneLoad, Waiting
<1> QED BY <1>1, <1>2, <1>3, <1>4, <1>5, <1>6, <1>7, <1>8, <1>9
        DEF FlowNext, EngineStep

LEMMA LeaveEngine ==
  ASSUME FlowTypes, FlowTypes', LoadInv, LeaveInv,
         EngineStep \/ Won \/ ModuleGone \/ ModuleBack
  PROVE  LeaveInv'
<1> USE DEF LeaveInv, Flagged, flagVars
<1>1. CASE LoadBegins
  <2>1. /\ posted \in Seq(Message) /\ posted # <<>> /\ posted' = Tail(posted)
        /\ Head(posted) = "load" /\ mission' = "loading"
        /\ crossed' = (crossed /\ (Flagged \/ TeardownPending))
        /\ UNCHANGED <<halo1, quitting, g_quitAfterComplete, g_quitLockedMission>>
    BY <1>1 DEF LoadBegins, Handles, FlowTypes
  <2>2. /\ Waiting("load") /\ ~Waiting("load")'
        /\ Waiting("teardown")' => Waiting("teardown")
        /\ Unfollowed => Unfollowed' /\ ~Waiting("teardown")'
    BY <2>1, LoadPopped DEF LoadInv
  <2>3. TeardownPending' => TeardownPending
    BY <2>1, <2>2, Pending, PendingNext
  <2>4. mission = "none" /\ loadDetour = "none"
    BY <2>2 DEF LoadInv
  <2>5. SUFFICES ASSUME ~crossed' PROVE ~Flagged /\ ~TeardownPending' /\ Unfollowed'
    BY <2>1, <2>2
  <2>6. CASE ~crossed
    <3>1. ~Flagged /\ quitting \notin Ending /\ Unfollowed
      BY <2>2, <2>4, <2>6
    <3> QED BY <2>1, <2>2, <3>1, PendingNext
  <2>7. CASE crossed
    <3>1. ~Flagged /\ ~TeardownPending
      BY <2>1, <2>5, <2>7
    <3>2. Unfollowed
      BY <3>1 DEF TeardownPending, Unfollowed
    <3> QED BY <2>2, <2>3, <3>1, <3>2
  <2> QED BY <2>6, <2>7
<1>2. ASSUME NEW command \in Commands, CommandHandled(command) PROVE LeaveInv'
  <2>1. /\ posted \in Seq(Message) /\ posted # <<>> /\ posted' = Tail(posted)
        /\ Head(posted) = command /\ loadDetour = "none" /\ loadDetour' = "none"
        /\ UNCHANGED <<quitting, inMission, halo1, crossed, locked,
                       g_quitAfterComplete, g_quitLockedMission>>
        /\ mission' = IF command = "teardown" THEN "none" ELSE mission
    BY <1>2 DEF CommandHandled, Handles, FlowTypes
  <2>2. /\ Waiting("load")' => Waiting("load")
        /\ Waiting("teardown")' => Waiting("teardown")
        /\ command = "teardown" => Waiting("teardown")
        /\ Unfollowed => Unfollowed'
    BY <2>1, LoadPopped
  <2>3. /\ TeardownPending' => TeardownPending
        /\ command = "teardown" => TeardownPending
    BY <2>1, <2>2, Pending, PendingNext
  <2> QED BY <2>1, <2>2, <2>3
<1>3. CASE LoadOriginal
  <2>1. /\ UNCHANGED <<locked, halo1, posted, quitting, flagVars, crossed>>
        /\ loadDetour = "original" /\ mission = "loading" /\ mission' = "running"
    BY <1>3 DEF LoadOriginal, FlowTypes
  <2>2. UNCHANGED TeardownPending /\ UNCHANGED Waiting("load") /\ UNCHANGED Unfollowed
    BY <2>1 DEF TeardownPending, Waiting, Unfollowed
  <2> QED BY <2>1, <2>2
<1>4. CASE LoadEnds
  <2>1. /\ UNCHANGED <<locked, halo1, posted, quitting, inMission, crossed, mission,
                       g_quitAfterComplete>>
        /\ loadDetour = "flag" /\ mission = "running" /\ loadDetour' = "none"
        /\ g_quitLockedMission' => g_quitLockedMission \/ locked
    BY <1>4 DEF LoadEnds, LoadInv
  <2>2. UNCHANGED TeardownPending /\ UNCHANGED Waiting("load") /\ UNCHANGED Unfollowed
    BY <2>1 DEF TeardownPending, Waiting, Unfollowed
  <2> QED BY <2>1, <2>2
<1>5. CASE Won
  <2>1. /\ UNCHANGED <<locked, halo1, posted, quitting, inMission, loadDetour,
                       g_quitLockedMission>>
        /\ loadDetour = "none" /\ mission' = "won"
        /\ ~crossed' => ~crossed /\ ~g_quitLockedMission /\ ~TeardownPending
    BY <1>5 DEF Won
  <2>2. UNCHANGED TeardownPending /\ UNCHANGED Waiting("load") /\ UNCHANGED Unfollowed
    BY <2>1 DEF TeardownPending, Waiting, Unfollowed
  <2> QED BY <2>1, <2>2
<1>6. CASE ModuleGone
  BY <1>6 DEF ModuleGone
<1>7. CASE ModuleBack
  <2>1. /\ UNCHANGED <<mission, locked, loadDetour, posted, quitting, crossed,
                       g_quitAfterComplete, g_quitLockedMission>>
        /\ inMission' = FALSE
    BY <1>7 DEF ModuleBack
  <2>2. UNCHANGED TeardownPending /\ UNCHANGED Waiting("load") /\ UNCHANGED Unfollowed
    BY <2>1 DEF TeardownPending, Waiting, Unfollowed
  <2> QED BY <2>1, <2>2
<1> QED BY <1>1, <1>2, <1>3, <1>4, <1>5, <1>6, <1>7 DEF EngineStep

LEMMA LeaveShell ==
  ASSUME FlowTypes, FlowTypes', LoadInv, LeaveInv,
         StartMission \/ ShellStep \/ QuitStep
  PROVE  LeaveInv'
<1> USE DEF LeaveInv, Flagged, flagVars, engineVars
<1>1. CASE StartMission
  <2>1. /\ posted \in Seq(Message) /\ posted' = Append(posted, "load")
        /\ mission = "none" /\ quitting = <<>> /\ quitting' = <<>>
        /\ UNCHANGED <<mission, locked, loadDetour, halo1, flagVars, crossed>>
    BY <1>1 DEF StartMission, ShellFree, FlowTypes
  <2>2. /\ Waiting("teardown")' => Waiting("teardown")
        /\ Unfollowed => Unfollowed'
    BY <2>1, LoadPushed DEF Message
  <2>3. TeardownPending' => TeardownPending
    BY <2>1, <2>2, NotEnding, Pending, PendingNext
  <2> QED BY <2>1, <2>2, <2>3, NotEnding
<1>2. CASE ShellStep
  <2>1. PICK command \in Commands : DetourShellCommand(command)
    BY <1>2 DEF ShellStep
  <2>2. /\ quitting = <<>> /\ halo1 /\ UNCHANGED <<mission, locked, loadDetour, halo1>>
        /\ mission # "none" \/ command = "other"
    BY <2>1 DEF DetourShellCommand, ShellFree
  \* The flag is consumed by a command of its own mission.
  <2>3. CASE QuitAfterComplete \/ QuitLocked
    <3>1. /\ UNCHANGED <<posted, crossed>>
          /\ Flagged /\ (g_quitAfterComplete => ~g_quitAfterComplete')
          /\ \/ quitting' = QuitSequence /\ UNCHANGED g_quitLockedMission
                /\ g_quitAfterComplete
             \/ quitting' = <<"pause", "teardown", "resume">> /\ ~inMission'
                /\ UNCHANGED g_quitAfterComplete
                /\ ~g_quitLockedMission' /\ ~g_quitAfterComplete
      BY <2>3 DEF QuitAfterComplete, QuitLocked
    <3>2. UNCHANGED Waiting("load") /\ UNCHANGED Unfollowed
      BY <3>1 DEF Waiting, Unfollowed
    <3>3. SUFFICES ASSUME ~crossed PROVE LeaveInv'
      BY <3>1
    <3>4. mission # "none" /\ loadDetour = "none"
      BY <3>1, <3>3 DEF LoadInv, FlowTypes
    <3>5. ~Waiting("load") /\ Unfollowed
      BY <3>3, <3>4 DEF LoadInv
    <3>6. ~Flagged'
      BY <3>1, <3>3
    <3>7. inMission' => quitting' \in OpenQuits
      BY <3>1, NotEnding
    <3> QED BY <2>2, <3>2, <3>4, <3>5, <3>6, <3>7
  <2>4. CASE PassOn(command)
    <3>1. /\ posted \in Seq(Message) /\ command \in Message
          /\ posted' = Append(posted, command)
          /\ quitting' = <<>> /\ ~Flagged /\ ~Flagged'
          /\ command = "teardown" => ~inMission'
          /\ inMission' => inMission
          /\ ~crossed' => ~crossed /\ (command = "teardown" => loadDetour = "none")
      BY <2>2, <2>4 DEF PassOn, FlowTypes, Message, Commands
    <3>2. /\ Waiting("load")' => Waiting("load") \/ command = "load"
          /\ Waiting("teardown")' => Waiting("teardown") \/ command = "teardown"
          /\ Unfollowed /\ (command = "teardown" => ~Waiting("load")) => Unfollowed'
      BY <3>1, LoadPushed
    <3>3. command = "teardown" => ~Waiting("load")
      BY <2>2 DEF LoadInv
    <3>4. TeardownPending' => TeardownPending \/ command = "teardown"
      BY <2>2, <3>1, <3>2, NotEnding, Pending, PendingNext
    <3> QED BY <2>2, <3>1, <3>2, <3>3, <3>4, NotEnding DEF LoadInv
  <2> QED BY <2>1, <2>3, <2>4 DEF DetourShellCommand
<1>3. CASE QuitStep
  <2>1. /\ quitting # <<>> /\ quitting \in Quits /\ quitting' = Tail(quitting)
        /\ posted \in Seq(Message)
        /\ UNCHANGED <<mission, locked, loadDetour, halo1, crossed,
                       g_quitAfterComplete, g_quitLockedMission>>
    BY <1>3 DEF QuitStep, FlowTypes
  <2>2. /\ quitting' \in Ending => quitting \in Ending
        /\ Head(quitting) = "teardown" => quitting \in Ending
    BY <2>1, QuitTails
  <2>3. CASE Head(quitting) = "SetInMission"
    <3>1. inMission' = FALSE /\ UNCHANGED posted
      BY <1>3, <2>3 DEF QuitStep
    <3>2. UNCHANGED Waiting("load") /\ UNCHANGED Unfollowed
          /\ UNCHANGED Waiting("teardown")
      BY <3>1 DEF Waiting, Unfollowed
    <3>3. TeardownPending' => TeardownPending
      BY <2>2, <3>2, Pending, PendingNext
    <3> QED BY <2>1, <2>2, <3>1, <3>2, <3>3
  <2>4. CASE Head(quitting) # "SetInMission"
    <3>1. /\ posted' = Append(posted, Head(quitting)) /\ UNCHANGED inMission
          /\ Head(quitting) \in Message /\ Head(quitting) # "load"
      BY <1>3, <2>1, <2>4, QuitHeads DEF QuitStep, Message, Commands
    <3>2. /\ Waiting("load")' => Waiting("load")
          /\ Waiting("teardown")' => Waiting("teardown") \/ Head(quitting) = "teardown"
          /\ Unfollowed /\ (Head(quitting) = "teardown" => ~Waiting("load"))
               => Unfollowed'
      BY <2>1, <3>1, LoadPushed
    <3>3. TeardownPending' => TeardownPending
      BY <2>2, <3>2, Pending, PendingNext
    <3>4. quitting \in OpenQuits \cup LateQuits
            => quitting' \in OpenQuits \cup LateQuits
      BY <2>1, <2>4, QuitTails
    <3> QED BY <2>1, <2>2, <3>1, <3>2, <3>3, <3>4
  <2> QED BY <2>3, <2>4
<1> QED BY <1>1, <1>2, <1>3

LEMMA LeaveHolds == FlowSpec => [](FlowTypes /\ LoadInv /\ LeaveInv)
<1>1. FlowInit => FlowTypes /\ LoadInv /\ LeaveInv
  BY NotEnding DEF FlowInit, FlowTypes, Quits, PlainQuits, LoadInv, LeaveInv, Waiting,
                   OneLoad, Unfollowed
<1>2. FlowTypes /\ FlowTypes' /\ LoadInv /\ LeaveInv /\ [FlowNext]_flowVars
        => LeaveInv'
  <2>1. LeaveInv /\ UNCHANGED flowVars => LeaveInv'
    <3>1. UNCHANGED flowVars => UNCHANGED <<TeardownPending, Waiting("load"), Unfollowed>>
      BY DEF flowVars, TeardownPending, Waiting, Unfollowed
    <3> QED BY <3>1 DEF LeaveInv, flowVars, engineVars, flagVars
  <2> QED BY <2>1, LeaveEngine, LeaveShell DEF FlowNext
<1> QED BY <1>1, <1>2, TypesStep, LoadStep, PTL DEF FlowSpec

\* In the lobby the mission flag is clear once everything posted is handled,
\* for any number of missions and in any order of the two threads' steps, unless
\* a mission before ended without its flag.
THEOREM LobbyIsClear == FlowSpec => []LobbyClear
<1>1. FlowTypes /\ LeaveInv => LobbyClear
  BY NotEnding DEF LeaveInv, LobbyClear
<1> QED BY <1>1, LeaveHolds, PTL

\* The mission that a quit sequence ends is the one that was locked or won.
THEOREM MissionQuitsOwn == FlowSpec => QuitsOwnMission
<1> DEFINE Own == quitting = <<>> /\ quitting' # <<>> =>
                    crossed \/ mission = "won" \/ (mission # "none" /\ locked)
<1>1. ASSUME FlowTypes, LeaveInv, [FlowNext]_flowVars PROVE Own
  <2>1. CASE ShellStep
    <3>1. PICK command \in Commands : DetourShellCommand(command)
      BY <2>1 DEF ShellStep
    <3>2. Flagged \/ quitting' = quitting
      BY <3>1 DEF DetourShellCommand, QuitAfterComplete, QuitLocked, PassOn, Flagged
    <3> QED BY <1>1, <3>2 DEF LeaveInv, Flagged
  <2>2. CASE QuitStep
    BY <2>2 DEF QuitStep
  <2>3. CASE EngineStep \/ Won \/ ModuleGone \/ ModuleBack \/ StartMission
               \/ UNCHANGED flowVars
    <3>1. EngineStep => UNCHANGED quitting
      BY DEF EngineStep, LoadBegins, LoadOriginal, LoadEnds, CommandHandled
    <3> QED BY <2>3, <3>1 DEF Won, ModuleGone, ModuleBack, StartMission, flowVars
  <2> QED BY <1>1, <2>1, <2>2, <2>3 DEF FlowNext
<1> QED BY <1>1, LeaveHolds, PTL DEF FlowSpec, QuitsOwnMission

=============================================================================
