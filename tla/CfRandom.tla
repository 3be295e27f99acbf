------------------------------ MODULE CfRandom ------------------------------
(***************************************************************************)
(* The process-wide random byte buffer of cf_random.c, as built on Linux,  *)
(* HP-UX and AIX (the branch without __APPLE__).                           *)
(*                                                                         *)
(* rand_buf holds random bytes; the bytes below rand_buf_off are unread.   *)
(* cf_get_rand_buf, cf_get_rand64 and cf_get_rand32 each take their bytes  *)
(* from just below rand_buf_off, refilling the whole buffer first          *)
(* (cf_rand_reload) when too few are left.  The first refill seeds         *)
(* OpenSSL from /dev/urandom.  Each function runs its whole body under     *)
(* rand_buf_lock, so a call is one atomic step and the calling threads     *)
(* need not be told apart.                                                 *)
(*                                                                         *)
(* A byte is named by the refill that produced it and its position in     *)
(* rand_buf: <<fill, pos>>.  The buffer's contents are otherwise left out. *)
(***************************************************************************)
EXTENDS Integers

CONSTANTS
    BufSz,      \* sizeof(rand_buf)
    WordSz,     \* sizeof(uint64_t), what cf_get_rand64 and cf_get_rand32 take
    Lens,       \* the len arguments callers pass to cf_get_rand_buf
    MaxFills,   \* bound on the number of successful refills
    MaxLeaks,   \* bound on the descriptors a failed seeding can leave open
    UintMod     \* 2^32: the range of rand_buf_off's type, uint

ASSUME CfRandomAssumption ==
    /\ BufSz \in Nat \ {0}
    /\ WordSz \in 1..(BufSz - 1)
    /\ Lens \subseteq Int
    /\ MaxFills \in Nat
    /\ MaxLeaks \in Nat
    /\ UintMod \in Nat /\ BufSz < UintMod

(* Every byte rand_buf can hold over MaxFills refills.                     *)
Bytes == (1..MaxFills) \X (0..(BufSz - 1))

VARIABLES
    seeded,        \* static int seeded
    rand_buf_off,  \* static uint rand_buf_off
    fills,         \* successful refills so far: the bytes in rand_buf are of this fill
    openFds,       \* descriptors of /dev/urandom left open
    issued,        \* bytes handed to callers so far
    got,           \* the bytes the last call copied out
    ret            \* what the last call returned: "ok" or "fail"

vars == <<seeded, rand_buf_off, fills, openFds, issued, got, ret>>

(* The bytes of fill f at positions lo .. hi - 1.                          *)
FillBytes(f, lo, hi) == {<<f, p>> : p \in lo..(hi - 1)}

(* The memcpy to the caller's buffer: the call receives the bytes B.       *)
HandOut(B) ==
    /\ got' = B
    /\ issued' = issued \cup B

-----------------------------------------------------------------------------
(* cf_rand_reload, each outcome.  It succeeds: the first call seeds from  *)
(* /dev/urandom, then RAND_bytes fills rand_buf and rand_buf_off is set to *)
(* its size.                                                               *)
ReloadOK ==
    /\ fills < MaxFills
    /\ seeded' = TRUE
    /\ fills' = fills + 1
    /\ UNCHANGED openFds

(* It fails: open fails and read(-1) is short; or the read is short and    *)
(* the early return leaves rfd open; or seeding succeeds (or was done)     *)
(* and RAND_bytes fails.  rand_buf_off is left as it was.                  *)
ReloadFail ==
    /\ UNCHANGED fills
    /\ \/ ~seeded /\ UNCHANGED <<seeded, openFds>>
       \/ ~seeded /\ openFds < MaxLeaks /\ openFds' = openFds + 1 /\ UNCHANGED seeded
       \/ seeded' = TRUE /\ UNCHANGED openFds

(* rand_buf_off -= len, then the memcpy of the len bytes above it.  The   *)
(* subtraction is on a 32-bit unsigned offset.                             *)
TakeUnread(len) ==
    /\ rand_buf_off' = (rand_buf_off - len) % UintMod
    /\ HandOut(FillBytes(fills, rand_buf_off', rand_buf_off' + len))
    /\ ret' = "ok"

(* Seeded faults, each a plausible slip in the code it stands for.        *)

(* A failed cf_rand_reload does not return early: the offset wraps.       *)
DrawNoEarlyReturn(len) ==
    \/ rand_buf_off >= len /\ TakeUnread(len) /\ UNCHANGED <<seeded, fills, openFds>>
    \/ rand_buf_off < len /\ ReloadFail /\ TakeUnread(len)
    \/ /\ rand_buf_off < len
       /\ ReloadOK
       /\ rand_buf_off' = BufSz - len
       /\ HandOut(FillBytes(fills + 1, BufSz - len, BufSz))
       /\ ret' = "ok"

(* cf_get_rand32 moves the offset by sizeof(uint32_t) but still reads a   *)
(* uint64_t at the new offset.                                             *)
GetRand32Narrow ==
    \/ /\ rand_buf_off >= WordSz
       /\ rand_buf_off' = rand_buf_off - WordSz \div 2
       /\ HandOut(FillBytes(fills, rand_buf_off', rand_buf_off' + WordSz))
       /\ ret' = "ok"
       /\ UNCHANGED <<seeded, fills, openFds>>
    \/ /\ rand_buf_off < WordSz
       /\ ReloadFail
       /\ ret' = "fail"
       /\ got' = {} /\ UNCHANGED <<rand_buf_off, issued>>
    \/ /\ rand_buf_off < WordSz
       /\ ReloadOK
       /\ rand_buf_off' = BufSz - WordSz
       /\ HandOut(FillBytes(fills + 1, BufSz - WordSz, BufSz))
       /\ ret' = "ok"

(* The body shared by the three functions once the lock is held: refill  *)
(* if fewer than len bytes are unread, returning the failure value when   *)
(* cf_rand_reload fails; then take the len bytes below rand_buf_off.      *)
Draw(len) ==
    \/ rand_buf_off >= len /\ TakeUnread(len) /\ UNCHANGED <<seeded, fills, openFds>>
    \/ /\ rand_buf_off < len
       /\ ReloadFail
       /\ ret' = "fail"
       /\ got' = {} /\ UNCHANGED <<rand_buf_off, issued>>
    \/ /\ rand_buf_off < len
       /\ ReloadOK
       /\ rand_buf_off' = BufSz - len
       /\ HandOut(FillBytes(fills + 1, BufSz - len, BufSz))
       /\ ret' = "ok"

(* cf_get_rand_buf: a len that is not below sizeof(rand_buf) once cast to *)
(* uint (a negative len among them) is refused before the lock is taken.   *)
GetRandBuf(len) ==
    \/ /\ (len < 0 \/ len >= BufSz)
       /\ ret' = "fail"
       /\ got' = {}
       /\ UNCHANGED <<seeded, rand_buf_off, fills, openFds, issued>>
    \/ /\ len \in 0..(BufSz - 1)
       /\ Draw(len)

(* cf_get_rand64, and cf_get_rand32, which also takes sizeof(uint64_t)    *)
(* bytes and returns their low half.  Both return 0 when the reload fails. *)
GetRand64 == Draw(WordSz)
GetRand32 == Draw(WordSz)

Init ==
    /\ seeded = FALSE
    /\ rand_buf_off = 0
    /\ fills = 0
    /\ openFds = 0
    /\ issued = {}
    /\ got = {}
    /\ ret = "ok"

Next ==
    \/ \E len \in Lens : GetRandBuf(len)
    \/ GetRand64
    \/ GetRand32

Spec == Init /\ [][Next]_vars

-----------------------------------------------------------------------------
TypeOK ==
    /\ seeded \in BOOLEAN
    /\ rand_buf_off \in 0..BufSz
    /\ fills \in 0..MaxFills
    /\ openFds \in 0..MaxLeaks
    /\ issued \subseteq Bytes
    /\ got \subseteq Bytes
    /\ ret \in {"ok", "fail"}

(* The unread bytes below rand_buf_off, as the pool of the abstract        *)
(* specification: none before the first successful refill.                 *)
Pool == IF fills = 0 THEN {} ELSE FillBytes(fills, 0, rand_buf_off)

RP == INSTANCE RandPool WITH pool <- Pool

(* The buffer implements a pool of fresh random bytes: each call hands out *)
(* unread bytes of the current fill, or bytes of a fill no caller has      *)
(* seen, and never a byte an earlier call received (cf_get_rand_buf,       *)
(* cf_get_rand64, cf_get_rand32 with cf_rand_reload).                      *)
RandPoolRefined == RP!Spec

(* cf_rand_reload closes every descriptor it opens before it returns, so   *)
(* no call leaves /dev/urandom open.                                       *)
NoFdLeak == openFds = 0

=============================================================================
