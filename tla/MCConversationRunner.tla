------------------------ MODULE MCConversationRunner ------------------------
(* A small instance of ConversationRunner: three calls for a conversation,   *)
(* one slot in its channel and in the semaphore, and workers enough for one  *)
(* retirement and replacement.                                               *)
EXTENDS ConversationRunner

CONSTANTS a, j1, j2, j3, w1, w2

MCKeyOf == [j \in Jobs |-> a]
=============================================================================
