----------------------------- MODULE MCLauncher -----------------------------
(* Instances of the launcher and the mod's files for TLC. *)
EXTENDS LauncherLifecycle

MCBoth == {TRUE, FALSE}

=============================================================================
