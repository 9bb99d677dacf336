--------------------------- MODULE MCHookMonitor ---------------------------
(* Values for checking HookMonitor with TLC: two of the six hooks of        *)
(* InstallHalo1Hooks, which the worker treats alike.                        *)
EXTENDS HookMonitor

MCHaloHooks == {"mission_load", "mission_complete"}
MCBases == {"a", "b"}
MCEngines == {"x", "y"}
=============================================================================
