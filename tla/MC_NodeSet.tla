----------------------------- MODULE MC_NodeSet -----------------------------
(* Small instances of NodeSet for TLC.                                     *)
EXTENDS NodeSet, TLC

CONSTANTS r1, r2, r3, n1, n2, n3, n4, sA, sB

MCReaders == {r1, r2, r3}
MCNodes == {n1, n2, n3, n4}
MCServers == {sA, sB}

(* Two node objects per server: a server can be created twice (a restart *)
(* after removal, a reseed, or a duplicate).                             *)
MCNodeServer == (n1 :> sA) @@ (n2 :> sA) @@ (n3 :> sB) @@ (n4 :> sB)

(* The liveness run uses two readers and one node object per server.   *)
MCReadersLive == {r1, r2}
MCNodesLive == {n1, n3}
MCNodeServerLive == (n1 :> sA) @@ (n3 :> sB)

(* Readers are interchangeable, and so are two objects of one server.   *)
MCSymmetry == Permutations(MCReaders) \cup Permutations({n1, n2})
                  \cup Permutations({n3, n4})
=============================================================================
