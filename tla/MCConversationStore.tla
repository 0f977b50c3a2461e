------------------------ MODULE MCConversationStore ------------------------
(* ConversationStore for TLC: conversations are interchangeable.           *)
EXTENDS ConversationStore, TLC

Symmetry == Permutations(Conversations)
=============================================================================
