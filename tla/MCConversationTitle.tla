------------------------ MODULE MCConversationTitle ------------------------
(* Small instances of ConversationTitle for TLC.                           *)
EXTENDS ConversationTitle, TLC

Symmetry == Permutations(Workers)
=============================================================================
