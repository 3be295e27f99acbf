---------------------------- MODULE MC_NodeRefresh ----------------------------
(* Model-checking instance of NodeRefresh: names are model values, the    *)
(* generation counter is 2 bits wide instead of 32.                       *)
EXTENDS NodeRefresh, TLC

CONSTANTS nA, nB, nEmpty
=============================================================================
