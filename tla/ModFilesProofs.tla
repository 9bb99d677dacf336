--------------------------- MODULE ModFilesProofs ---------------------------
(***************************************************************************)
(* The original library survives every failure and kill of a Steam         *)
(* install, and the proxy never stands without it, for any number of runs; *)
(* and with its threads, in any order they allow, the launcher does to the *)
(* files no more than that.                                                *)
(***************************************************************************)
EXTENDS LauncherLifecycle, TLAPS

USE DEF files, locals

\* Where main relies on the original standing under its other name.
Renamed == {"copyProxy", "copyHaloAP", "deleteProxy", "undo", "launch",
            "removeProxy", "restore"}

\* The inductive invariant: the original is under its other name while main
\* works with the proxy, and under its own when that name is free (a Steam
\* install); the elevated commands of the other kind of install may lose it,
\* but never leave the proxy without it.
FilesInv ==
  /\ bink \in {"none", "original", "proxy"}
  /\ backup \in {"none", "original"}
  /\ pc \in Labels
  /\ ~isWindowsStore => pc \notin {"elevate", "elevateCleanup", "completed"}
  /\ pc \in Renamed \ {"launch"} => backup = "original"
  /\ pc = "copyHaloAP" => bink = "proxy"
  /\ ~isWindowsStore /\ pc = "launch" =>
       bink = "proxy" /\ haloAP /\ backup = "original"
  /\ pc = "rename" => backup = "none"
  /\ pc = "elevate" => backup = "none"
  /\ bink = "proxy" => backup = "original"
  /\ ~isWindowsStore /\ backup = "none" => bink = "original"

LEMMA FilesInit == Init => FilesInv
BY ModFilesAssumption DEF Init, FilesInv, Labels, Renamed

LEMMA FilesNext == FilesInv /\ [Next]_vars => FilesInv'
<1> SUFFICES ASSUME FilesInv, [Next]_vars PROVE FilesInv'
  OBVIOUS
<1> USE DEF FilesInv, Labels, Renamed, Succeeds, Fails, MoveToBackup,
            MoveBack, DeleteBink, AfterRemoval
<1>1. CASE Start
  BY <1>1 DEF Start
<1>2. CASE Rename
  BY <1>2 DEF Rename
<1>3. CASE ElevatedSetup
  BY <1>3 DEF ElevatedSetup
<1>4. CASE CopyProxy
  BY <1>4 DEF CopyProxy
<1>5. CASE CopyHaloAP
  BY <1>5 DEF CopyHaloAP
<1>6. CASE DeleteProxy
  BY <1>6 DEF DeleteProxy
<1>7. CASE Undo
  BY <1>7 DEF Undo
<1>8. CASE Play
  BY <1>8 DEF Play
<1>9. CASE RemoveProxy
  BY <1>9 DEF RemoveProxy
<1>10. CASE Restore
  BY <1>10 DEF Restore
<1>11. CASE RemoveHaloAP
  BY <1>11 DEF RemoveHaloAP
<1>12. CASE ElevatedCleanup
  BY <1>12 DEF ElevatedCleanup
<1>13. CASE Exit
  BY <1>13 DEF Exit
<1>14. CASE Killed
  BY <1>14 DEF Killed
<1>15. CASE Verify
  BY <1>15 DEF Verify
<1>16. CASE UNCHANGED vars
  BY <1>16 DEF vars
<1> QED BY <1>1, <1>2, <1>3, <1>4, <1>5, <1>6, <1>7, <1>8, <1>9, <1>10, <1>11,
           <1>12, <1>13, <1>14, <1>15, <1>16 DEF Next

\* Whatever fails and wherever the launcher is killed, a Steam install keeps
\* its own bink2w64.dll under one of the two names.
THEOREM OriginalIsKept == Spec => []OriginalKept
<1>1. FilesInv => OriginalKept
  BY DEF FilesInv, OriginalKept
<1> QED BY <1>1, FilesInit, FilesNext, PTL DEF Spec

\* On either kind of install the proxy is never left without the original.
THEOREM ProxyIsBacked == Spec => []ProxyHasOriginal
<1>1. FilesInv => ProxyHasOriginal
  BY DEF FilesInv, ProxyHasOriginal
<1> QED BY <1>1, FilesInit, FilesNext, PTL DEF Spec

-----------------------------------------------------------------------------
\* What a run has failed at so far tells what the files are like.
FailuresInv ==
  /\ failures \in Nat
  /\ pc \in {"rename", "copyProxy", "copyHaloAP"} => failures = 0
  /\ pc \in {"elevate", "deleteProxy"} => failures = 1
  /\ pc = "undo" => failures >= 1
  /\ pc = "copyProxy" /\ ~alreadyRenamed => bink = "none"
  /\ pc = "deleteProxy" => bink = "proxy"
  /\ pc = "undo" /\ failures = 1 => bink = "none"
  /\ pc = "removeProxy" => bink = "proxy"
  /\ pc = "restore" => bink = "none"
  /\ pc = "removeHaloAP" /\ failures = 0 => bink = "original" /\ backup = "none"
  /\ AbortedSetupUndone
  /\ CleanRunRestores

LEMMA FailuresInit == Init => FailuresInv
BY DEF Init, FailuresInv, AbortedSetupUndone, CleanRunRestores

LEMMA FailuresNext == FilesInv /\ FailuresInv /\ [Next]_vars => FailuresInv'
<1> SUFFICES ASSUME FilesInv, FailuresInv, [Next]_vars PROVE FailuresInv'
  OBVIOUS
<1> USE DEF FilesInv, FailuresInv, AbortedSetupUndone, CleanRunRestores, Vanilla,
            Labels, Renamed, Succeeds, Fails, MoveToBackup, MoveBack, DeleteBink
<1>1. CASE Start
  BY <1>1 DEF Start
<1>2. CASE Rename
  BY <1>2 DEF Rename
<1>3. CASE ElevatedSetup
  BY <1>3 DEF ElevatedSetup
<1>4. CASE CopyProxy
  BY <1>4 DEF CopyProxy
<1>5. CASE CopyHaloAP
  BY <1>5 DEF CopyHaloAP
<1>6. CASE DeleteProxy
  BY <1>6 DEF DeleteProxy
<1>7. CASE Undo
  BY <1>7 DEF Undo
<1>8. CASE Play
  BY <1>8 DEF Play
<1>9. CASE RemoveProxy
  BY <1>9 DEF RemoveProxy
<1>10. CASE Restore
  BY <1>10 DEF Restore
<1>11. CASE RemoveHaloAP
  <2>1. pc = "removeHaloAP" /\ pc' \in {"elevateCleanup", "done"}
    BY <1>11 DEF RemoveHaloAP, AfterRemoval
  <2>2. UNCHANGED <<bink, backup>>
    BY <1>11 DEF RemoveHaloAP
  <2>3. \/ failures' = failures + 1
        \/ failures' = failures /\ haloAP' = FALSE
    BY <1>11 DEF RemoveHaloAP
  <2>4. failures' \in Nat
    BY <2>3
  <2>5. failures' = 0 => bink' = "original" /\ backup' = "none" /\ haloAP' = FALSE
    BY <2>1, <2>2, <2>3
  <2>6. CleanRunRestores'
    BY <2>5
  <2>7. AbortedSetupUndone'
    BY <2>1
  <2> HIDE DEF CleanRunRestores, AbortedSetupUndone
  <2> QED BY <2>1, <2>4, <2>6, <2>7
<1>12. CASE ElevatedCleanup
  <2>1. \/ pc' = "done" /\ failures' = failures + 1
        \/ pc' = "completed" /\ failures' = failures
    BY <1>12 DEF ElevatedCleanup
  <2> QED BY <2>1
<1>13. CASE Exit
  BY <1>13 DEF Exit
<1>14. CASE Killed
  BY <1>14 DEF Killed
<1>15. CASE Verify
  BY <1>15 DEF Verify
<1>16. CASE UNCHANGED vars
  BY <1>16 DEF vars
<1> QED BY <1>1, <1>2, <1>3, <1>4, <1>5, <1>6, <1>7, <1>8, <1>9, <1>10, <1>11,
           <1>12, <1>13, <1>14, <1>15, <1>16 DEF Next

LEMMA FailuresHold == Spec => [](FilesInv /\ FailuresInv)
BY FilesInit, FilesNext, FailuresInit, FailuresNext, PTL DEF Spec

\* A run in which nothing failed leaves the vanilla install, whatever the runs
\* before it left behind.
THEOREM CleanRunIsVanilla == Spec => []CleanRunRestores
<1>1. FailuresInv => CleanRunRestores
  BY DEF FailuresInv
<1> QED BY <1>1, FailuresHold, PTL

\* A setup that gives up at its first failure has put the original back.
THEOREM AbortIsUndone == Spec => []AbortedSetupUndone
<1>1. FailuresInv => AbortedSetupUndone
  BY DEF FailuresInv
<1> QED BY <1>1, FailuresHold, PTL

-----------------------------------------------------------------------------
\* Main comes to the elevated cleanup with the original restored only when it
\* could not delete HaloAP.dll.
RestoredInv ==
  /\ pc \in Renamed \cup {"rename", "elevate"} =>
       cleanupOk = TRUE /\ haloAPRemoved = FALSE
  /\ pc = "removeHaloAP" =>
       haloAPRemoved = FALSE /\ (cleanupOk = TRUE \/ backup = "original")
  /\ pc = "elevateCleanup" => haloAPRemoved = FALSE \/ backup = "original"

LEMMA RestoredNext == FilesInv /\ RestoredInv /\ [Next]_vars => RestoredInv'
<1> SUFFICES ASSUME FilesInv, RestoredInv, [Next]_vars PROVE RestoredInv'
  OBVIOUS
<1> USE DEF FilesInv, RestoredInv, Labels, Renamed, Succeeds, Fails, MoveToBackup,
            MoveBack, DeleteBink, AfterRemoval
<1>1. CASE Start
  BY <1>1 DEF Start
<1>2. CASE Rename
  BY <1>2 DEF Rename
<1>3. CASE ElevatedSetup
  BY <1>3 DEF ElevatedSetup
<1>4. CASE CopyProxy
  BY <1>4 DEF CopyProxy
<1>5. CASE CopyHaloAP
  BY <1>5 DEF CopyHaloAP
<1>6. CASE DeleteProxy
  BY <1>6 DEF DeleteProxy
<1>7. CASE Undo
  BY <1>7 DEF Undo
<1>8. CASE Play
  BY <1>8 DEF Play
<1>9. CASE RemoveProxy
  BY <1>9 DEF RemoveProxy
<1>10. CASE Restore
  BY <1>10 DEF Restore
<1>11. CASE RemoveHaloAP
  BY <1>11 DEF RemoveHaloAP
<1>12. CASE ElevatedCleanup
  BY <1>12 DEF ElevatedCleanup
<1>13. CASE Exit
  BY <1>13 DEF Exit
<1>14. CASE Killed
  BY <1>14 DEF Killed
<1>15. CASE Verify
  BY <1>15 DEF Verify
<1>16. CASE UNCHANGED vars
  BY <1>16 DEF vars
<1> QED BY <1>1, <1>2, <1>3, <1>4, <1>5, <1>6, <1>7, <1>8, <1>9, <1>10, <1>11,
           <1>12, <1>13, <1>14, <1>15, <1>16 DEF Next

Restored == /\ pc = "elevateCleanup" /\ haloAPRemoved = FALSE
            /\ bink = "original" /\ backup = "none"

LosesOnlyRestored ==
  "original" \in {bink, backup} /\ "original" \notin {bink', backup'} => Restored

\* Where a Windows Store install can lose its library, and nowhere else: in the
\* elevated cleanup, after main has restored the original and failed to delete
\* HaloAP.dll; its del takes the restored file for the proxy.
THEOREM OnlyCleanupLoses == Spec => [][LosesOnlyRestored]_vars
<1>1. Init => RestoredInv
  BY DEF Init, RestoredInv, Renamed
<1>2. ASSUME FilesInv, FailuresInv, RestoredInv, [Next]_vars,
             "original" \in {bink, backup}, "original" \notin {bink', backup'}
      PROVE  Restored
  <2> USE DEF FilesInv, Labels, Renamed, Restored, Succeeds, Fails, MoveToBackup,
              MoveBack, DeleteBink
  <2>1. CASE ElevatedCleanup
    <3>1. backup # "original"
      BY <1>2, <2>1 DEF ElevatedCleanup
    <3> QED BY <1>2, <2>1, <3>1 DEF ElevatedCleanup, RestoredInv
  <2>2. CASE Start \/ Play \/ RemoveHaloAP \/ Exit \/ Killed \/ Verify
             \/ UNCHANGED vars
    BY <1>2, <2>2 DEF Start, Play, RemoveHaloAP, Exit, Killed, Verify, vars
  <2>3. CASE Rename \/ ElevatedSetup \/ CopyProxy \/ CopyHaloAP \/ Undo \/ Restore
    BY <1>2, <2>3 DEF Rename, ElevatedSetup, CopyProxy, CopyHaloAP, Undo, Restore
  <2>4. CASE DeleteProxy \/ RemoveProxy
    BY <1>2, <2>4 DEF DeleteProxy, RemoveProxy
  <2> QED BY <1>2, <2>1, <2>2, <2>3, <2>4 DEF Next
<1>3. FilesInv /\ FailuresInv /\ RestoredInv /\ [Next]_vars
        => [LosesOnlyRestored]_vars
  BY <1>2 DEF LosesOnlyRestored
<1> QED BY <1>1, <1>3, FailuresHold, RestoredNext, PTL DEF Spec

-----------------------------------------------------------------------------
\* What main remembers.
LocalsInv ==
  /\ isWindowsStore \in BOOLEAN /\ haloAP \in BOOLEAN
  /\ alreadyRenamed \in BOOLEAN /\ haloAPRemoved \in BOOLEAN
  /\ cleanupOk \in BOOLEAN

LEMMA LocalsInit == Init => LocalsInv
<1> SUFFICES ASSUME Init PROVE LocalsInv
  OBVIOUS
<1>1. isWindowsStore \in BOOLEAN
  BY ModFilesAssumption DEF Init
<1>2. /\ haloAP = FALSE /\ alreadyRenamed = FALSE
      /\ haloAPRemoved = FALSE /\ cleanupOk = TRUE
  BY DEF Init
<1> QED BY <1>1, <1>2, Zenon DEF LocalsInv

RunsInv == runs \in Nat

LEMMA RunsNext == RunsInv /\ [Next]_vars => RunsInv'
<1> SUFFICES ASSUME [Next]_vars PROVE runs' = runs \/ runs' = runs + 1
  BY DEF RunsInv
<1>1. CASE Start
  BY <1>1 DEF Start
<1>2. CASE Rename \/ ElevatedSetup \/ CopyProxy \/ CopyHaloAP \/ DeleteProxy
             \/ Undo
  BY <1>2 DEF Rename, ElevatedSetup, CopyProxy, CopyHaloAP, DeleteProxy, Undo
<1>3. CASE Play \/ RemoveProxy \/ Restore \/ RemoveHaloAP \/ ElevatedCleanup
  BY <1>3 DEF Play, RemoveProxy, Restore, RemoveHaloAP, ElevatedCleanup
<1>4. CASE Exit \/ Killed \/ Verify \/ UNCHANGED vars
  BY <1>4 DEF Exit, Killed, Verify, vars
<1> QED BY <1>1, <1>2, <1>3, <1>4 DEF Next

LEMMA LocalsNext == LocalsInv /\ [Next]_vars => LocalsInv'
<1> SUFFICES ASSUME LocalsInv, [Next]_vars PROVE LocalsInv'
  OBVIOUS
<1> USE DEF LocalsInv, Succeeds, Fails, MoveToBackup, MoveBack, DeleteBink
<1>1. CASE Start
  BY <1>1 DEF Start
<1>2. CASE Rename
  BY <1>2 DEF Rename
<1>3. CASE ElevatedSetup
  BY <1>3 DEF ElevatedSetup
<1>4. CASE CopyProxy
  BY <1>4 DEF CopyProxy
<1>5. CASE CopyHaloAP
  BY <1>5 DEF CopyHaloAP
<1>6. CASE DeleteProxy
  BY <1>6 DEF DeleteProxy
<1>7. CASE Undo
  BY <1>7 DEF Undo
<1>8. CASE Play
  BY <1>8 DEF Play
<1>9. CASE RemoveProxy
  BY <1>9 DEF RemoveProxy
<1>10. CASE Restore
  BY <1>10 DEF Restore
<1>11. CASE RemoveHaloAP
  BY <1>11 DEF RemoveHaloAP
<1>12. CASE ElevatedCleanup
  BY <1>12 DEF ElevatedCleanup
<1>13. CASE Exit
  BY <1>13 DEF Exit
<1>14. CASE Killed
  BY <1>14 DEF Killed
<1>15. CASE Verify
  BY <1>15 DEF Verify
<1>16. CASE UNCHANGED vars
  BY <1>16 DEF vars
<1> QED BY <1>1, <1>2, <1>3, <1>4, <1>5, <1>6, <1>7, <1>8, <1>9, <1>10, <1>11,
           <1>12, <1>13, <1>14, <1>15, <1>16 DEF Next

\* Type correctness; above all, the renamed file is never the proxy, however
\* often the launcher is killed and started again.
THEOREM FilesTypeOK == Spec => []TypeOK
<1>1. FilesInv /\ FailuresInv /\ LocalsInv /\ RunsInv => TypeOK
  BY Zenon DEF FilesInv, FailuresInv, LocalsInv, RunsInv, TypeOK
<1>2. Init => RunsInv
  BY DEF Init, RunsInv
<1> QED BY <1>1, <1>2, FailuresHold, LocalsInit, LocalsNext, RunsNext, PTL
        DEF Spec

-----------------------------------------------------------------------------
(***************************************************************************)
(* The launcher with its threads and the game implements ModFiles: what is *)
(* proved of the mod's files in any order of main's steps holds in the     *)
(* orders that the connection, the watch and the shutdown allow.           *)
(***************************************************************************)
LEMMA FileSteps == LauncherNext => [Next]_vars
<1> SUFFICES ASSUME LauncherNext PROVE [Next]_vars
  OBVIOUS
<1>1. CASE StartLauncher
  BY <1>1 DEF StartLauncher, Next
<1>2. CASE MainStep
  <2>1. FileStep => Next
    BY DEF FileStep, Next
  <2>2. GameOver \/ Return => Next
    BY DEF GameOver, Return, Next
  <2>3. LaunchGame \/ WaitForDll \/ Replay \/ StopPipe \/ JoinPipe \/ JoinPoll
          \/ JoinMonitor => UNCHANGED vars
    BY DEF LaunchGame, WaitForDll, Replay, StopPipe, JoinPipe, JoinPoll,
           JoinMonitor
  <2> QED BY <1>2, <2>1, <2>2, <2>3 DEF MainStep
<1>3. CASE KillLauncher
  BY <1>3 DEF KillLauncher, Next
<1>4. CASE PipeStep \/ PollStep \/ MonitorStep \/ EnterPressed \/ GameRuns
             \/ GameQuits
  BY <1>4 DEF PipeStep, PollStep, MonitorStep, EnterPressed, GameRuns, GameQuits
<1>5. CASE VerifyFiles
  BY <1>5 DEF VerifyFiles, Next
<1> QED BY <1>1, <1>2, <1>3, <1>4, <1>5 DEF LauncherNext

\* Every behaviour of the launcher's threads is one of ModFiles.
THEOREM LauncherImplementsFiles == LauncherSpec => Spec
<1>1. LauncherInit => Init
  BY DEF LauncherInit
<1>2. UNCHANGED launcherVars => UNCHANGED vars
  BY DEF launcherVars
<1>3. [LauncherNext]_launcherVars => [Next]_vars
  BY FileSteps, <1>2
<1> QED BY <1>1, <1>3, PTL DEF LauncherSpec, Spec

\* A Steam install keeps the game's own library through every order in which
\* the game, the enter key and the console window end a run.
THEOREM LauncherKeepsOriginal == LauncherSpec => []OriginalKept
BY LauncherImplementsFiles, OriginalIsKept, PTL

\* So does a run in which no file operation fails leave the vanilla install.
THEOREM LauncherRunIsVanilla == LauncherSpec => []CleanRunRestores
BY LauncherImplementsFiles, CleanRunIsVanilla, PTL

-----------------------------------------------------------------------------
(***************************************************************************)
(* The threads.  Where main is tells what has been stopped, and whether it *)
(* believes the game to have ended tells what has become of the pipe.      *)
(***************************************************************************)
Stopping == {"joinPipe", "joinPoll", "joinMonitor", "return"}
Ended == {"aborted", "done", "completed"}

\* main's place, that in its work on the files, and the stops it has made.
PlaceInv ==
  /\ main = "off" <=> pc = "off"
  /\ main \in {"waitDll", "replay", "watch"} => pc = "launch"
  /\ main \in Stopping => pc \in Ended
  /\ main = "joinPoll" => pc = "aborted"
  /\ main = "joinMonitor" => pc # "aborted"
  /\ main # "off" => (m_shutdown <=> main \in Stopping)
  /\ main \in {"joinPoll", "joinMonitor", "return"} => pipeThread = "ended"
  /\ main = "return" /\ pc = "aborted" => pollThread = "ended"
  /\ main # "off" /\ "client" \in torn => main = "return" /\ pc # "aborted"

\* Until main stops it, the pipe thread reads as long as a game plays that has
\* opened the pipe; main takes the game to have ended only once that thread has,
\* or the player has pressed enter.
GameInv ==
  /\ main = "off" => game # "playing" /\ pipeThread = "none" /\ ~m_connected
                       /\ monitor = "none" /\ ~input
  /\ m_connected => pipeThread = "reading"
  /\ pipeThread = "reading" /\ ~m_shutdown => m_connected
  /\ game = "playing" /\ ~m_shutdown => pipeThread \in {"opened", "reading"}
  /\ main \in {"replay", "watch"} \/ monitor = "watching" =>
       pipeThread \in {"reading", "ended"}
  /\ main # "off" /\ ~m_shutdown /\ gameExited /\ ~entered => pipeThread = "ended"
  /\ Cleaning => gameExited

LEMMA LifeBegins == LauncherInit => PlaceInv /\ GameInv
BY DEF LauncherInit, Init, LifeInit, PlaceInv, GameInv, Stopping, Ended, Cleaning

\* A step on the files neither ends main nor begins the cleanup.
LEMMA FileMoves ==
  FileStep => /\ main = "files" /\ UNCHANGED lifeVars
              /\ pc # "off" /\ pc' # "off"
              /\ Cleaning' => Cleaning
<1> USE DEF Cleaning, Succeeds, Fails
<1>1. Rename => pc = "rename" /\ pc' \in {"copyProxy", "elevate", "aborted"}
  BY DEF Rename
<1>2. ElevatedSetup => pc = "elevate" /\ pc' \in {"aborted", "launch"}
  BY DEF ElevatedSetup
<1>3. CopyProxy => pc = "copyProxy" /\ pc' \in {"copyHaloAP", "aborted", "undo"}
  BY DEF CopyProxy
<1>4. CopyHaloAP => pc = "copyHaloAP" /\ pc' \in {"launch", "deleteProxy"}
  BY DEF CopyHaloAP
<1>5. DeleteProxy => pc = "deleteProxy" /\ pc' \in {"aborted", "undo"}
  BY DEF DeleteProxy
<1>6. Undo => pc = "undo" /\ pc' = "aborted"
  BY DEF Undo
<1>7. RemoveProxy => pc = "removeProxy" /\ pc' \in {"restore", "removeHaloAP"}
  BY DEF RemoveProxy
<1>8. Restore => pc = "restore" /\ pc' = "removeHaloAP"
  BY DEF Restore
<1>9. RemoveHaloAP => pc = "removeHaloAP" /\ pc' \in {"elevateCleanup", "done"}
  BY DEF RemoveHaloAP, AfterRemoval
<1>10. ElevatedCleanup => pc = "elevateCleanup" /\ pc' \in {"done", "completed"}
  BY DEF ElevatedCleanup
<1> QED BY <1>1, <1>2, <1>3, <1>4, <1>5, <1>6, <1>7, <1>8, <1>9, <1>10
        DEF FileStep

LEMMA MainKeeps ==
  ASSUME PlaceInv, GameInv, MainStep PROVE PlaceInv' /\ GameInv'
<1> USE DEF PlaceInv, GameInv, Stopping, Ended, Cleaning, threads, stopFlags,
            MainGoto
<1>1. CASE FileStep
  BY <1>1, FileMoves DEF lifeVars
<1>2. CASE LaunchGame
  BY <1>2 DEF LaunchGame, vars
<1>3. CASE WaitForDll
  BY <1>3 DEF WaitForDll, DllSeen, vars
<1>4. CASE Replay
  BY <1>4 DEF Replay, vars
<1>5. CASE GameOver
  BY <1>5 DEF GameOver, Play
<1>6. CASE StopPipe
  BY <1>6 DEF StopPipe, vars
<1>7. CASE JoinPipe
  BY <1>7 DEF JoinPipe, ThenJoin, vars
<1>8. CASE JoinPoll
  BY <1>8 DEF JoinPoll, vars
<1>9. CASE JoinMonitor
  BY <1>9 DEF JoinMonitor, vars
<1>10. CASE Return
  BY <1>10 DEF Return, Exit, ProcessEnds
<1> QED BY <1>1, <1>2, <1>3, <1>4, <1>5, <1>6, <1>7, <1>8, <1>9, <1>10,
           MainStep DEF MainStep

LEMMA ThreadsKeep ==
  ASSUME PlaceInv, GameInv,
         \/ StartLauncher \/ KillLauncher \/ PipeStep \/ PollStep \/ MonitorStep
         \/ EnterPressed \/ GameRuns \/ GameQuits \/ VerifyFiles
         \/ UNCHANGED launcherVars
  PROVE  PlaceInv' /\ GameInv'
<1> USE DEF PlaceInv, GameInv, Stopping, Ended, Cleaning, threads, stopFlags
<1>1. CASE StartLauncher
  BY <1>1 DEF StartLauncher, Start, MainGoto
<1>2. CASE KillLauncher
  BY <1>2 DEF KillLauncher, Killed, ProcessEnds
<1>3. CASE PipeStep
  BY <1>3 DEF PipeStep, Accept, ReadEnds, vars
<1>4. CASE PollStep
  BY <1>4 DEF PollStep, vars
<1>5. CASE MonitorStep
  BY <1>5 DEF MonitorStep, MonitorSees, vars
<1>6. CASE EnterPressed
  BY <1>6 DEF EnterPressed, vars
<1>7. CASE GameRuns
  BY <1>7 DEF GameRuns, vars
<1>8. CASE GameQuits
  BY <1>8 DEF GameQuits, vars
<1>9. CASE VerifyFiles
  BY <1>9 DEF VerifyFiles, Verify, lifeVars
<1>10. CASE UNCHANGED launcherVars
  BY <1>10 DEF launcherVars, lifeVars, vars
<1> QED BY <1>1, <1>2, <1>3, <1>4, <1>5, <1>6, <1>7, <1>8, <1>9, <1>10

LEMMA LifeHolds == LauncherSpec => [](PlaceInv /\ GameInv)
<1>1. PlaceInv /\ GameInv /\ [LauncherNext]_launcherVars => PlaceInv' /\ GameInv'
  BY MainKeeps, ThreadsKeep DEF LauncherNext
<1> QED BY <1>1, LifeBegins, PTL DEF LauncherSpec

\* The mod is never removed under a game that plays with it unless the player
\* pressed enter: in every order in which connection, replay, watch and the
\* game's own steps can come.
THEOREM CleansUpAfterGame == LauncherSpec => []CleanupAfterGame
<1>1. PlaceInv /\ GameInv => CleanupAfterGame
  BY DEF PlaceInv, GameInv, CleanupAfterGame, Cleaning, Stopping, Ended
<1> QED BY <1>1, LifeHolds, PTL

\* A setup that is given up returns with both its threads ended and the client
\* whole, also when a game left over from the run before connects meanwhile.
THEOREM AbortIsClean == LauncherSpec => []AbortStopsCleanly
<1>1. PlaceInv => AbortStopsCleanly
  BY DEF PlaceInv, AbortStopsCleanly
<1> QED BY <1>1, LifeHolds, PTL

-----------------------------------------------------------------------------
\* The types of the threads, apart from the flags'.
ThreadTypes ==
  /\ main \in {"off", "files", "waitDll", "replay", "watch", "joinPipe",
               "joinPoll", "joinMonitor", "return"}
  /\ pipeThread \in {"none", "accepting", "opened", "reading", "ended"}
  /\ pollThread \in {"none", "idle", "polling", "sending", "ended"}
  /\ monitor \in {"none", "watching", "ended"}
  /\ game \in {"off", "starting", "playing", "orphan"}
  /\ torn \subseteq {"pipe", "client"}

FlagTypes ==
  \A b \in {input, m_connected, m_shutdown, apShutdown, m_stopped, gameExited,
            entered} : b \in BOOLEAN

LEMMA ThreadTypesStep ==
  ASSUME ThreadTypes, [LauncherNext]_launcherVars PROVE ThreadTypes'
<1> USE DEF ThreadTypes, threads, MainGoto
<1>1. CASE StartLauncher \/ KillLauncher
  BY <1>1 DEF StartLauncher, KillLauncher, ProcessEnds
<1>2. CASE FileStep \/ VerifyFiles \/ UNCHANGED launcherVars
  <2>1. UNCHANGED lifeVars
    BY <1>2 DEF FileStep, VerifyFiles, launcherVars
  <2> QED BY <2>1 DEF lifeVars
<1>3. CASE LaunchGame \/ WaitForDll \/ Replay \/ GameOver
  BY <1>3 DEF LaunchGame, WaitForDll, Replay, GameOver
<1>4. CASE StopPipe \/ JoinPipe \/ JoinPoll \/ JoinMonitor \/ Return
  BY <1>4 DEF StopPipe, JoinPipe, ThenJoin, JoinPoll, JoinMonitor, Return,
              ProcessEnds
<1>5. CASE PipeStep
  BY <1>5 DEF PipeStep, Accept, ReadEnds
<1>6. CASE PollStep
  BY <1>6 DEF PollStep
<1>7. CASE MonitorStep \/ EnterPressed
  <2>1. /\ UNCHANGED <<main, pipeThread, pollThread, game, torn>>
        /\ monitor' = monitor \/ monitor' = "ended"
    BY <1>7 DEF MonitorStep, EnterPressed
  <2> QED BY <2>1
<1>8. CASE GameRuns \/ GameQuits
  BY <1>8 DEF GameRuns, GameQuits
<1> QED BY <1>1, <1>2, <1>3, <1>4, <1>5, <1>6, <1>7, <1>8
        DEF LauncherNext, MainStep

\* A step leaves each flag alone, sets it or clears it.
LEMMA FlagTypesStep ==
  ASSUME FlagTypes, [LauncherNext]_launcherVars PROVE FlagTypes'
<1> DEFINE Kept(b) == b' = b \/ b' = TRUE \/ b' = FALSE
<1> SUFFICES /\ Kept(input) /\ Kept(m_connected) /\ Kept(m_shutdown)
             /\ Kept(apShutdown) /\ Kept(m_stopped) /\ Kept(gameExited)
             /\ Kept(entered)
  BY Zenon DEF FlagTypes
<1> USE DEF threads, stopFlags
<1>1. CASE StartLauncher \/ KillLauncher
  BY <1>1 DEF StartLauncher, KillLauncher, ProcessEnds
<1>2. CASE FileStep \/ VerifyFiles \/ UNCHANGED launcherVars
  BY <1>2 DEF FileStep, VerifyFiles, launcherVars, lifeVars
<1>3. CASE LaunchGame \/ WaitForDll \/ Replay \/ GameOver
  BY <1>3 DEF LaunchGame, WaitForDll, Replay, GameOver
<1>4. CASE StopPipe \/ JoinPipe \/ JoinPoll \/ JoinMonitor \/ Return
  BY <1>4 DEF StopPipe, JoinPipe, JoinPoll, JoinMonitor, Return, ProcessEnds
<1>5. CASE PipeStep \/ PollStep
  BY <1>5 DEF PipeStep, Accept, ReadEnds, PollStep
<1>6. CASE MonitorStep \/ EnterPressed
  BY <1>6 DEF MonitorStep, EnterPressed
<1>7. CASE GameRuns \/ GameQuits
  BY <1>7 DEF GameRuns, GameQuits
<1> QED BY <1>1, <1>2, <1>3, <1>4, <1>5, <1>6, <1>7 DEF LauncherNext, MainStep

\* The launcher's types; above all, main has ended exactly when its work on the
\* files has, whichever of the two ways out it took.
THEOREM LauncherTypesHold == LauncherSpec => []LifecycleTypeOK
<1>1. LauncherInit => ThreadTypes /\ FlagTypes
  <2>1. LauncherInit => ThreadTypes
    BY DEF LauncherInit, LifeInit, ThreadTypes
  <2>2. LauncherInit => FlagTypes
    BY Zenon DEF LauncherInit, LifeInit, FlagTypes
  <2> QED BY <2>1, <2>2
<1>2. TypeOK /\ PlaceInv /\ ThreadTypes /\ FlagTypes => LifecycleTypeOK
  <2>1. PlaceInv => (main = "off") = (pc = "off")
    BY DEF PlaceInv
  <2> QED BY <2>1, Zenon DEF ThreadTypes, FlagTypes, LifecycleTypeOK
<1>3. LauncherSpec => []TypeOK
  BY LauncherImplementsFiles, FilesTypeOK, PTL
<1> QED BY <1>1, <1>2, <1>3, LifeHolds, ThreadTypesStep, FlagTypesStep, PTL
        DEF LauncherSpec

=============================================================================
