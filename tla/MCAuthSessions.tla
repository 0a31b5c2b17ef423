--------------------------- MODULE MCAuthSessions ---------------------------
(* Values for model checking AuthSessions.                                 *)
EXTENDS AuthSessions, TLC

Symmetry == Permutations(Users) \cup Permutations(Sessions) \cup Permutations(Workers)
=============================================================================
