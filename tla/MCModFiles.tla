----------------------------- MODULE MCModFiles -----------------------------
(* Instances of the mod's files for TLC. *)
EXTENDS ModFiles

MCStore == {TRUE}

=============================================================================
