------------------------------ MODULE Delivery ------------------------------
(***************************************************************************)
(* What a play session promises, with everything between the server and    *)
(* the game left out: no threads, no pipe, no connection that may break.   *)
(* What the server grants takes effect in the game, what the player earns  *)
(* is recorded by the launcher and credited by the server, the game shows  *)
(* recorded completions only, and nothing of this is ever taken back.  A   *)
(* chapter's title may be mistaken for another chapter's, nothing else.    *)
(***************************************************************************)
EXTENDS ItemHandler

CONSTANTS
  Items,         \* the items the server may grant
  PriorChecked,  \* the locations of earlier sessions
  CompletionOf,  \* the location of each mission's completion
  Titles         \* the locations of the chapters

VARIABLES
  granted,   \* the items granted
  open,      \* the missions their items have opened in the game
  freed,     \* the skulls their items have freed in the game
  earned,    \* the locations the player has earned
  mistitled, \* the locations of chapters another one's title was mistaken for
  recorded,  \* the locations the launcher has recorded
  credited,  \* the locations the server has recorded
  shown,     \* the missions the game shows as completed
  won        \* whether the server has recorded the goal

grants == <<granted, open, freed>>
checks == <<recorded, credited, shown>>
deeds == <<earned, mistitled>>
vars == <<grants, deeds, checks, won>>

Init ==
  /\ granted = {} /\ open = {} /\ freed = {}
  /\ earned = PriorChecked /\ mistitled = {} /\ credited = PriorChecked
  /\ recorded = {} /\ shown = {} /\ won = FALSE

Grant(item) ==
  /\ granted' = granted \cup {item}
  /\ UNCHANGED <<open, freed, deeds, checks, won>>

\* An item takes effect, never before it is granted, any number of times.
Apply(item) ==
  /\ open' = open \cup ({translateItemToMission(item)} \cap Missions)
  /\ freed' = freed \cup ({translateItemToSkullDisabler(item)} \cap Nat)
  /\ UNCHANGED <<granted, deeds, checks, won>>

\* The sets of locations grow; what is recorded or credited was earned or is a
\* chapter mistaken for another.
Earn ==
  /\ earned \subseteq earned'
  /\ UNCHANGED <<grants, mistitled, checks, won>>

Mistake ==
  /\ mistitled \subseteq mistitled' /\ mistitled' \subseteq mistitled \cup Titles
  /\ UNCHANGED <<grants, earned, checks, won>>

Record ==
  /\ recorded \subseteq recorded' /\ recorded' \subseteq earned \cup mistitled
  /\ UNCHANGED <<grants, deeds, credited, shown, won>>

Credit ==
  /\ credited \subseteq credited' /\ credited' \subseteq earned \cup mistitled
  /\ UNCHANGED <<grants, deeds, recorded, shown, won>>

\* So does the game's view of the completions, within what is recorded.
Show ==
  /\ shown \subseteq shown'
  /\ \A m \in shown' : m \in Missions /\ CompletionOf[m] \in recorded
  /\ UNCHANGED <<grants, deeds, recorded, credited, won>>

Win ==
  /\ \A m \in Missions : CompletionOf[m] \in earned
  /\ won' = TRUE
  /\ UNCHANGED <<grants, deeds, checks>>

Next ==
  \/ \E item \in Items : Grant(item)
  \/ \E item \in granted : Apply(item)
  \/ Earn \/ Mistake \/ Record \/ Credit \/ Show \/ Win

Spec == Init /\ [][Next]_vars

=============================================================================
