--------------------------- MODULE MCTicketUpdates ---------------------------
(* Small instances of TicketUpdates for TLC.                               *)
EXTENDS TicketUpdates

Symmetry == Permutations(Agents) \cup Permutations(Details)
=============================================================================
