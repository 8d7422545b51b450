---------------------------- MODULE MCTaskIntake ----------------------------
(* Small instances of TaskIntake: two messages of one conversation.          *)
EXTENDS TaskIntake

CONSTANTS m1, m2
=============================================================================
