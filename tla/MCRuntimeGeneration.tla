------------------------- MODULE MCRuntimeGeneration -------------------------
(* A small instance of RuntimeGeneration: three bundles, a lease, the poller *)
(* and another caller of Reload, and two contents of the file.               *)
EXTENDS RuntimeGeneration

CONSTANTS b1, b2, b3, l1, poller, tester, red, blue
=============================================================================
