------------------------------ MODULE ModFiles ------------------------------
(***************************************************************************)
(* The mod's files in the game directory, over runs of the launcher (main, *)
(* HaloAP_launcher/main.cpp) that may be killed between any two of them.   *)
(* Every file operation may fail.  The game's bink2w64.dll is renamed and a*)
(* proxy of that name loads HaloAP.dll; a run that finds the renamed file  *)
(* takes it for the leftover of an unclean exit.                           *)
(***************************************************************************)
EXTENDS Naturals

CONSTANTS
  Platforms,   \* the values of isWindowsStore to consider
  MaxRuns      \* bound: how often the launcher is started

ASSUME ModFilesAssumption == Platforms \subseteq BOOLEAN /\ MaxRuns \in Nat

VARIABLES
  isWindowsStore,
  bink,            \* what bink2w64.dll is: "none", "original" or "proxy"
  backup,          \* the same of bink2w64_original.dll
  haloAP,          \* whether HaloAP.dll is there
  pc,              \* where main is, "off" when the launcher does not run
  alreadyRenamed, haloAPRemoved, cleanupOk,   \* locals of main
  runs,
  failures         \* operations of this run that failed (history)

files == <<bink, backup, haloAP>>
locals == <<alreadyRenamed, haloAPRemoved, cleanupOk>>
vars == <<isWindowsStore, files, pc, locals, runs, failures>>

Init ==
  /\ isWindowsStore \in Platforms
  /\ bink = "original" /\ backup = "none" /\ haloAP = FALSE
  /\ pc = "off" /\ runs = 0 /\ failures = 0
  /\ alreadyRenamed = FALSE /\ haloAPRemoved = FALSE /\ cleanupOk = TRUE

\* MoveFileA in either direction; it replaces no file.
MoveToBackup == /\ bink # "none" /\ backup = "none"
                /\ backup' = bink /\ bink' = "none"
                /\ UNCHANGED haloAP

MoveBack == /\ backup # "none" /\ bink = "none"
            /\ bink' = backup /\ backup' = "none"
            /\ UNCHANGED haloAP

DeleteBink == bink # "none" /\ bink' = "none" /\ UNCHANGED <<backup, haloAP>>

Succeeds(label) == pc' = label /\ UNCHANGED failures
Fails(label) == pc' = label /\ failures' = failures + 1 /\ UNCHANGED files

-----------------------------------------------------------------------------
(***************************************************************************)
(* Setting up the mod files.                                               *)
(***************************************************************************)

\* Mutation: a HaloAP.dll left behind is taken for the unclean exit.
BugLeftoverDll ==
  /\ pc = "off" /\ runs < MaxRuns /\ runs' = runs + 1 /\ failures' = 0
  /\ alreadyRenamed' = haloAP
  /\ haloAPRemoved' = FALSE /\ cleanupOk' = TRUE
  /\ pc' = IF haloAP THEN "copyProxy" ELSE "rename"
  /\ UNCHANGED <<isWindowsStore, files>>

Start ==
  /\ pc = "off" /\ runs < MaxRuns /\ runs' = runs + 1 /\ failures' = 0
  /\ alreadyRenamed' = (backup # "none")
  /\ haloAPRemoved' = FALSE /\ cleanupOk' = TRUE
  /\ pc' = IF backup # "none" THEN "copyProxy" ELSE "rename"
  /\ UNCHANGED <<isWindowsStore, files>>

\* Mutation: a failed rename is only reported.
BugIgnoreRename ==
  /\ pc = "rename"
  /\ \/ MoveToBackup /\ Succeeds("copyProxy")
     \/ Fails("copyProxy")
  /\ UNCHANGED <<isWindowsStore, locals, runs>>

Rename ==
  /\ pc = "rename"
  /\ \/ MoveToBackup /\ Succeeds("copyProxy")
     \/ Fails(IF isWindowsStore THEN "elevate" ELSE "aborted")
  /\ UNCHANGED <<isWindowsStore, locals, runs>>

\* `move && copy && copy` in an elevated cmd.exe, up to the step that fails.
\* main only looks for the renamed file afterwards.
ElevatedSetup ==
  /\ pc = "elevate"
  /\ \/ Fails("aborted")
     \/ /\ bink # "none"
        /\ backup' = bink
        /\ \/ /\ bink' = "none" /\ haloAP' = haloAP /\ failures' = failures
           \/ /\ bink' = "proxy" /\ haloAP' = haloAP /\ failures' = failures
           \/ /\ bink' = "proxy" /\ haloAP' = TRUE /\ failures' = failures - 1
        /\ pc' = "launch"
  /\ UNCHANGED <<isWindowsStore, locals, runs>>

CopyProxy ==
  /\ pc = "copyProxy"
  /\ \/ /\ bink' = "proxy" /\ UNCHANGED <<backup, haloAP>>
        /\ Succeeds("copyHaloAP")
     \/ Fails(IF alreadyRenamed THEN "aborted" ELSE "undo")
  /\ UNCHANGED <<isWindowsStore, locals, runs>>

\* Mutation: a failed copy of HaloAP.dll ends the setup at once.
BugAbortAtOnce ==
  /\ pc = "copyHaloAP"
  /\ \/ haloAP' = TRUE /\ UNCHANGED <<bink, backup>> /\ Succeeds("launch")
     \/ Fails("aborted")
  /\ UNCHANGED <<isWindowsStore, locals, runs>>

CopyHaloAP ==
  /\ pc = "copyHaloAP"
  /\ \/ haloAP' = TRUE /\ UNCHANGED <<bink, backup>> /\ Succeeds("launch")
     \/ Fails("deleteProxy")
  /\ UNCHANGED <<isWindowsStore, locals, runs>>

DeleteProxy ==
  /\ pc = "deleteProxy"
  /\ LET next == IF alreadyRenamed THEN "aborted" ELSE "undo"
     IN  \/ DeleteBink /\ Succeeds(next)
         \/ Fails(next)
  /\ UNCHANGED <<isWindowsStore, locals, runs>>

Undo ==
  /\ pc = "undo"
  /\ \/ MoveBack /\ Succeeds("aborted")
     \/ Fails("aborted")
  /\ UNCHANGED <<isWindowsStore, locals, runs>>

-----------------------------------------------------------------------------
(***************************************************************************)
(* The game, and the cleanup after it.                                     *)
(***************************************************************************)

\* The DLL connects only when the proxy finds it and the original; main waits
\* for that without a limit.  The game ends or the player presses enter.
Play ==
  /\ pc = "launch"
  /\ bink = "proxy" /\ haloAP /\ backup = "original"
  /\ pc' = "removeProxy"
  /\ UNCHANGED <<isWindowsStore, files, locals, runs, failures>>

\* Mutation: the original is restored only by the run that renamed it.
BugRestoreOwnOnly ==
  /\ pc = "removeProxy"
  /\ \/ /\ DeleteBink /\ UNCHANGED cleanupOk
        /\ Succeeds(IF alreadyRenamed THEN "removeHaloAP" ELSE "restore")
     \/ Fails("removeHaloAP") /\ cleanupOk' = FALSE
  /\ UNCHANGED <<isWindowsStore, alreadyRenamed, haloAPRemoved, runs>>

RemoveProxy ==
  /\ pc = "removeProxy"
  /\ \/ DeleteBink /\ Succeeds("restore") /\ UNCHANGED cleanupOk
     \/ Fails("removeHaloAP") /\ cleanupOk' = FALSE
  /\ UNCHANGED <<isWindowsStore, alreadyRenamed, haloAPRemoved, runs>>

Restore ==
  /\ pc = "restore"
  /\ \/ MoveBack /\ Succeeds("removeHaloAP") /\ UNCHANGED cleanupOk
     \/ Fails("removeHaloAP") /\ cleanupOk' = FALSE
  /\ UNCHANGED <<isWindowsStore, alreadyRenamed, haloAPRemoved, runs>>

AfterRemoval(ok) == IF ~ok /\ isWindowsStore THEN "elevateCleanup" ELSE "done"

RemoveHaloAP ==
  /\ pc = "removeHaloAP"
  /\ \/ /\ haloAP /\ haloAP' = FALSE /\ haloAPRemoved' = TRUE
        /\ UNCHANGED <<bink, backup, cleanupOk>>
        /\ Succeeds(AfterRemoval(cleanupOk))
     \/ /\ Fails(AfterRemoval(FALSE))
        /\ cleanupOk' = FALSE /\ UNCHANGED haloAPRemoved
  /\ UNCHANGED <<isWindowsStore, alreadyRenamed, runs>>

\* `del && move`, with `&& del` of HaloAP.dll unless that is gone, up to the
\* step that fails; del takes a missing file for a success.  What became of it
\* is not looked at: the launcher prints "Cleanup completed with admin rights".
ElevatedCleanup ==
  /\ pc = "elevateCleanup"
  /\ \/ Fails("done")
     \/ UNCHANGED files /\ Succeeds("completed")
     \/ /\ bink' = "none"
        /\ UNCHANGED <<backup, haloAP>> /\ Succeeds("completed")
     \/ /\ backup # "none"
        /\ bink' = backup /\ backup' = "none"
        /\ haloAP' \in {haloAP, FALSE}
        /\ Succeeds("completed")
  /\ UNCHANGED <<isWindowsStore, locals, runs>>

Exit ==
  /\ pc \in {"aborted", "done", "completed"}
  /\ pc' = "off"
  /\ UNCHANGED <<isWindowsStore, files, locals, runs, failures>>

\* The console window is closed, or the launcher crashes.
Killed ==
  /\ pc \notin {"off", "aborted", "done", "completed"}
  /\ pc' = "off"
  /\ UNCHANGED <<isWindowsStore, files, locals, runs, failures>>

\* The player has the game's files verified; unknown files are left alone.
Verify ==
  /\ pc = "off"
  /\ bink # "original"
  /\ bink' = "original"
  /\ UNCHANGED <<isWindowsStore, backup, haloAP, pc, locals, runs, failures>>

Next ==
  \/ Start \/ Rename \/ ElevatedSetup \/ CopyProxy \/ CopyHaloAP
  \/ DeleteProxy \/ Undo \/ Play \/ RemoveProxy \/ Restore \/ RemoveHaloAP
  \/ ElevatedCleanup \/ Exit \/ Killed \/ Verify

Spec == Init /\ [][Next]_vars

-----------------------------------------------------------------------------
Labels == {"off", "rename", "elevate", "copyProxy", "copyHaloAP", "deleteProxy",
           "undo", "launch", "removeProxy", "restore", "removeHaloAP",
           "elevateCleanup", "aborted", "done", "completed"}

\* Every variable keeps its type; the renamed file is never the proxy.
TypeOK ==
  /\ isWindowsStore \in BOOLEAN
  /\ bink \in {"none", "original", "proxy"}
  /\ backup \in {"none", "original"}
  /\ haloAP \in BOOLEAN
  /\ pc \in Labels
  /\ alreadyRenamed \in BOOLEAN /\ haloAPRemoved \in BOOLEAN
  /\ cleanupOk \in BOOLEAN
  /\ runs \in Nat /\ failures \in Nat

Vanilla == bink = "original" /\ backup = "none" /\ ~haloAP

\* Whatever fails and wherever the launcher is killed, the game's own library
\* is kept under one of the two names (a Steam install: no elevated commands).
OriginalKept == ~isWindowsStore => "original" \in {bink, backup}

\* The proxy never stands where the original it forwards to is missing.
ProxyHasOriginal == bink = "proxy" => backup = "original"

\* A run in which nothing fails leaves the vanilla install behind, also one
\* that started from the leftovers of a killed run.
CleanRunRestores == pc = "done" /\ failures = 0 => Vanilla

\* A setup given up at its first failure is undone, unless it was recovering.
AbortedSetupUndone ==
  pc = "aborted" /\ failures = 1 /\ ~alreadyRenamed =>
    bink = "original" /\ backup = "none"

\* The elevated cleanup of a Windows Store install, too, leaves the game's own
\* library under one of the two names.
CleanupKeepsOriginal == pc = "completed" => "original" \in {bink, backup}

=============================================================================
