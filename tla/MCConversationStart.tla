------------------------ MODULE MCConversationStart ------------------------
(* Small instances of ConversationStart for TLC.                           *)
EXTENDS ConversationStart, TLC

Symmetry == Permutations(Attempts)
=============================================================================
