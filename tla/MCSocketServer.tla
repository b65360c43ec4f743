---------------------------- MODULE MCSocketServer ----------------------------
(* Small instances of SocketServer for TLC.                                 *)
EXTENDS SocketServer, TLC

CONSTANTS c1, c2, c3, a1, a2

\* two clients behind one address, the third on its own
SharedAddress == [c \in Clients |-> IF c = c3 THEN a2 ELSE a1]
\* all of them behind one address
OneAddress == [c \in Clients |-> a1]
Symmetry == Permutations(Threads)
\* with OneAddress the clients are interchangeable as well
PoolSymmetry == Symmetry \cup Permutations(Clients)
===============================================================================
