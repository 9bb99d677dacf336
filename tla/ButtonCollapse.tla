--------------------------- MODULE ButtonCollapse ---------------------------
(***************************************************************************)
(* Hiding the buttons "QUICKSTART" and "PLAYLISTS" of a game's mode menu   *)
(* (HaloAP_DLL/hooks/mission_select_block.cpp).  Each navigation of the    *)
(* menu gets a generation of its own; one into a game starts a thread that *)
(* sweeps the buttons away three times, as long as no newer navigation has *)
(* begun and unless another such thread still runs.                        *)
(*                                                                         *)
(* The user interface's thread navigates while the threads sleep.          *)
(***************************************************************************)
EXTENDS Naturals

CONSTANTS MaxNavs,   \* bound: the navigations of the player
          Rounds     \* how often a thread sweeps, 3 in the code

ASSUME CollapseAssumption == MaxNavs \in Nat /\ Rounds \in Nat \ {0}

Generations == 1 .. MaxNavs
Labels == {"game", "QUICKSTART", "other"}   \* what a button leads to

VARIABLES
  generation,        \* g_collapseGeneration
  shouldCollapse,    \* g_shouldCollapse
  nav,               \* where DetourMenuNav is: "none", "original", "returned"
  thread,            \* where the CollapseThread of each generation is
  round,             \* its rounds so far
  running,           \* g_collapseRunning
  cacheReady,        \* g_ue4CacheReady
  gameGeneration,    \* history: the last navigation, if it led into a game, or 0
  swept              \* history: whether the buttons were swept away since

navVars == <<generation, shouldCollapse, nav>>
threadVars == <<thread, round, running>>
historyVars == <<gameGeneration, swept>>
collapseVars == <<navVars, threadVars, cacheReady, historyVars>>

CollapseInit ==
  /\ generation = 0 /\ shouldCollapse = FALSE /\ nav = "none"
  /\ thread = [g \in Generations |-> "none"]
  /\ round = [g \in Generations |-> 0]
  /\ running = FALSE /\ cacheReady = FALSE
  /\ gameGeneration = 0 /\ swept = TRUE

-----------------------------------------------------------------------------
(***************************************************************************)
(* DetourMenuNav, on the user interface's thread.                          *)
(***************************************************************************)
\* Up to the call of the original; a click on QUICKSTART goes no further.
MenuNav(label) ==
  /\ nav = "none" /\ generation < MaxNavs
  /\ generation' = generation + 1
  /\ IF label = "QUICKSTART"
       THEN UNCHANGED <<shouldCollapse, nav>>
       ELSE shouldCollapse' = (label = "game") /\ nav' = "original"
  /\ UNCHANGED <<threadVars, cacheReady, historyVars>>

\* The original changes the screen: the buttons of a game's menu are there.
MenuNavOriginal ==
  /\ nav = "original"
  /\ nav' = "returned"
  /\ gameGeneration' = IF shouldCollapse THEN generation ELSE 0
  /\ swept' = (swept /\ ~shouldCollapse)
  /\ UNCHANGED <<generation, shouldCollapse, threadVars, cacheReady>>

\* Mutation: the thread gets the generation before the navigation.
BugOldGeneration == IF generation > 1 THEN generation - 1 ELSE generation

ThisGen == generation

MenuNavEnd ==
  /\ nav = "returned"
  /\ nav' = "none"
  /\ thread' = IF shouldCollapse THEN [thread EXCEPT ![ThisGen] = "created"]
                                 ELSE thread
  /\ UNCHANGED <<generation, shouldCollapse, round, running, cacheReady,
                 historyVars>>

-----------------------------------------------------------------------------
(***************************************************************************)
(* CollapseThread.                                                         *)
(***************************************************************************)
Move(g, from, to) == thread[g] = from /\ thread' = [thread EXCEPT ![g] = to]

\* Mutation: the flag is read, but set only after the first sleep.
BugReadOnly(g) ==
  /\ Move(g, "created", IF running THEN "overtaken" ELSE "sleeping")
  /\ UNCHANGED <<running, navVars, round, cacheReady, historyVars>>

\* The compare-and-exchange at the start.
Enter(g) ==
  /\ Move(g, "created", IF running THEN "overtaken" ELSE "sleeping")
  /\ running' = TRUE
  /\ UNCHANGED <<navVars, round, cacheReady, historyVars>>

Wake(g) ==
  /\ Move(g, "sleeping", IF generation = g THEN "sweeping" ELSE "leaving")
  /\ UNCHANGED <<navVars, round, running, cacheReady, historyVars>>

\* CollapseGameModeButtons: without the cached classes it hides nothing, and
\* looking for them may fail.
Sweep(g) ==
  /\ Move(g, "sweeping", IF round[g] + 1 = Rounds THEN "leaving" ELSE "sleeping")
  /\ round' = [round EXCEPT ![g] = @ + 1]
  /\ cacheReady' \in {cacheReady, TRUE}
  /\ swept' = (swept \/ cacheReady')
  /\ UNCHANGED <<navVars, running, gameGeneration>>

\* Mutation: a thread that stops before its last round keeps the flag.
BugKeepFlag(g) ==
  /\ Move(g, "leaving", "done")
  /\ running' = (round[g] < Rounds)
  /\ UNCHANGED <<navVars, round, cacheReady, historyVars>>

Leave(g) ==
  /\ Move(g, "leaving", "done")
  /\ running' = FALSE
  /\ UNCHANGED <<navVars, round, cacheReady, historyVars>>

CollapseThread(g) == Enter(g) \/ Wake(g) \/ Sweep(g) \/ Leave(g)

CollapseNext ==
  \/ \E label \in Labels : MenuNav(label)
  \/ MenuNavOriginal \/ MenuNavEnd
  \/ \E g \in Generations : CollapseThread(g)

CollapseFairness ==
  /\ WF_collapseVars(MenuNavOriginal \/ MenuNavEnd)
  /\ \A g \in Generations : WF_collapseVars(CollapseThread(g))

CollapseSpec == CollapseInit /\ [][CollapseNext]_collapseVars /\ CollapseFairness

-----------------------------------------------------------------------------
(***************************************************************************)
(* Properties.                                                             *)
(***************************************************************************)
Inside(g) == thread[g] \in {"sleeping", "sweeping", "leaving"}

\* Two threads are never inside at once: they walk the engine's objects and
\* fill the cache under no other lock (mission_select_block.cpp:330-343, 418).
OneCollapser ==
  /\ \A g, h \in Generations : Inside(g) /\ Inside(h) => g = h
  /\ running <=> \E g \in Generations : Inside(g)

\* The flag that keeps other threads out is given back, also by a thread that
\* stops early (mission_select_block.cpp:424-427).
CollapserLeaves == []<>(~running)

\* A game's menu is shown, and its buttons are not hidden.
ButtonsLeft == gameGeneration # 0 /\ cacheReady /\ ~swept

\* "Navigating to game: '%s', will collapse buttons"
\* (mission_select_block.cpp:480): in the end no menu keeps its buttons.
ButtonsCollapse == []<>(~ButtonsLeft)

\* That much holds: the buttons of a game's menu go away unless a newer
\* navigation or an older thread comes between (mission_select_block.cpp:418,
\* 424).
UndisturbedCollapse ==
  []<>(~ButtonsLeft \/ generation # gameGeneration
         \/ thread[gameGeneration] = "overtaken")

=============================================================================
