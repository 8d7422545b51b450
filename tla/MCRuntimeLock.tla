---------------------------- MODULE MCRuntimeLock ----------------------------
\* Small instances of RuntimeLock: two processes, which make two calls each.  The
\* calls of one process are alike.
EXTENDS RuntimeLock, TLC
CONSTANTS c1, c2, c3, c4, p1, p2, i1, i2, i3, i4

MCProcOf == c1 :> p1 @@ c2 :> p1 @@ c3 :> p2 @@ c4 :> p2
MCPidOf == p1 :> 1 @@ p2 :> 2
Alike == Permutations({c1, c2}) \cup Permutations({c3, c4})
=============================================================================
