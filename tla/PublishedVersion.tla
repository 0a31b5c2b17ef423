-------------------------- MODULE PublishedVersion --------------------------
(***************************************************************************)
(* What a knowledge document promises: it serves at most one version at a  *)
(* time, a version that was replaced never comes back, and an archived     *)
(* document serves none again.                                             *)
(***************************************************************************)
CONSTANTS Versions, None

VARIABLES active,   \* the document may still be published
          current,  \* the version served
          retired   \* the versions that were

vars == <<active, current, retired>>

Served == IF current = None THEN {} ELSE {current}

Init == active = TRUE /\ current = None /\ retired = {}

Publish(v) ==
    /\ active = TRUE
    /\ v \notin retired \cup Served
    /\ current' = v
    /\ retired' = retired \cup Served
    /\ UNCHANGED active

Archive ==
    /\ active = TRUE
    /\ active' = FALSE
    /\ current' = None
    /\ retired' = retired \cup Served

Next == Archive \/ \E v \in Versions : Publish(v)

Spec == Init /\ [][Next]_vars
=============================================================================
