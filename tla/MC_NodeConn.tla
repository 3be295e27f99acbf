----------------------------- MODULE MC_NodeConn ----------------------------
(* Small instances of NodeConn for TLC.                                    *)
EXTENDS NodeConn, TLC

CONSTANTS t1, t2, f1, f2, f3

MCThreads == {t1, t2}
MCFds == {f1, f2, f3}

(* The liveness run uses two descriptors. *)
MCFdsLive == {f1, f2}

(* Threads are interchangeable, and so are descriptor numbers.            *)
MCSymmetry == Permutations(MCThreads) \cup Permutations(MCFds)
=============================================================================
