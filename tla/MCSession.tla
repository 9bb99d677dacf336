----------------------------- MODULE MCSession -----------------------------
(***************************************************************************)
(* Instances of a play session for TLC: two missions, mission 0 behind its *)
(* item and mission 1 behind the completion of mission 0.                  *)
(***************************************************************************)
EXTENDS SessionProperties

MCNone == {}
MCNoTier == -1
MCUnlock0 == {101000}
MCUnlock1 == {102000}
MCItems == {101000, 90001}
MCMission0 == {101000}
MCWhole == Missions \X {TRUE}
MCUnread == {<<0, TRUE>>, <<1, FALSE>>}
MCStray == MCUnread \cup {<<OtherMap, TRUE>>}
MCSkulls == {100001}
MCChapterIndices == {1}
MCNoChapters == <<>>
MCChapterLocation == [k \in {<<0, 1>>} |-> 201001]

=============================================================================
