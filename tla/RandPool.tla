------------------------------ MODULE RandPool ------------------------------
(***************************************************************************)
(* What the random-byte functions of cf_random.c promise their callers:    *)
(* every successful call hands out bytes that no earlier call received.   *)
(*                                                                         *)
(* The source keeps a pool of unread random bytes.  A call either takes    *)
(* its bytes from the pool, or first replaces the whole pool by a fresh    *)
(* batch (bytes never handed out) and takes them from that batch, or fails *)
(* and changes nothing a caller can see.                                   *)
(***************************************************************************)
CONSTANT Bytes      \* every random byte the source can ever produce

VARIABLES
    pool,     \* bytes produced and not yet handed out
    issued,   \* bytes handed out so far
    got       \* the bytes the last call received

poolVars == <<pool, issued, got>>

Init ==
    /\ pool = {}
    /\ issued = {}
    /\ got = {}

(* A call receives the bytes S, taken from the pool.                        *)
Take(S) ==
    /\ got' = S
    /\ S \subseteq pool
    /\ pool' = pool \ S
    /\ issued' = issued \cup S

(* A call finds the pool too small, replaces it by a fresh batch (bytes   *)
(* never handed out) and receives the bytes S of that batch; what is left  *)
(* of the batch becomes the pool.                                          *)
RefillTake(S) ==
    LET batch == pool' \cup S IN
    /\ got' = S
    /\ batch \subseteq Bytes \ issued
    /\ pool' \cap S = {}
    /\ issued' = issued \cup S

(* A call that fails receives nothing and changes nothing else.            *)
Fail ==
    /\ got' = {}
    /\ UNCHANGED <<pool, issued>>

Next == Take(got') \/ RefillTake(got') \/ Fail

Spec == Init /\ [][Next]_poolVars

(* No byte is both in the pool and handed out: what makes the bytes fresh. *)
PoolFresh == pool \cap issued = {}

=============================================================================
