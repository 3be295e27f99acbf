--------------------------- MODULE CfRandomProofs ---------------------------
(***************************************************************************)
(* Proofs about the random byte buffer of cf_random.c: the type invariant *)
(* and that the buffer implements the pool of fresh bytes of RandPool,    *)
(* for every buffer size, word size, set of request lengths and bound.    *)
(***************************************************************************)
EXTENDS CfRandom, TLAPS

USE CfRandomAssumption

(* Every byte handed out so far comes from a refill that has happened.    *)
IssuedFromPastFills == \A b \in issued : b[1] \in 1..fills

(* No unread byte of the current fill has been handed out: the pool and   *)
(* the handed-out bytes are disjoint.                                      *)
UnreadNotIssued == \A p \in 0..(rand_buf_off - 1) : <<fills, p>> \notin issued

(* Before the first successful refill nothing is unread.                  *)
NothingBeforeFirstFill == fills = 0 => rand_buf_off = 0

(* The inductive invariant.                                                *)
Inv == /\ TypeOK
       /\ IssuedFromPastFills
       /\ UnreadNotIssued
       /\ NothingBeforeFirstFill

-----------------------------------------------------------------------------
(* The bytes of one fill between two positions of the buffer exist.       *)
LEMMA FillBytesInBytes ==
    ASSUME NEW f \in 1..MaxFills, NEW lo \in Int, NEW hi \in Int,
           0 <= lo, hi <= BufSz
    PROVE  FillBytes(f, lo, hi) \subseteq Bytes
BY DEF FillBytes, Bytes

(* No byte lies between a position and itself.                            *)
LEMMA FillBytesEmpty ==
    ASSUME NEW f, NEW lo \in Int PROVE FillBytes(f, lo, lo) = {}
BY DEF FillBytes

(* Taking len bytes below the offset never wraps the unsigned offset.     *)
LEMMA NoWrap ==
    ASSUME NEW off \in 0..BufSz, NEW len \in 0..off
    PROVE  (off - len) % UintMod = off - len
BY SMT

(* The initial state satisfies the invariant.                             *)
LEMMA InitInv == Init => Inv
<1> SUFFICES ASSUME Init PROVE Inv
  OBVIOUS
<1>1. TypeOK
  <2>1. seeded \in BOOLEAN
    BY Zenon DEF Init
  <2>2. QED
    BY <2>1 DEF Init, TypeOK
<1>2. IssuedFromPastFills /\ UnreadNotIssued /\ NothingBeforeFirstFill
  BY DEF Init, IssuedFromPastFills, UnreadNotIssued, NothingBeforeFirstFill
<1>3. QED
  BY <1>1, <1>2 DEF Inv

(* A refused request changes nothing but the result and what the caller   *)
(* received: nothing.                                                      *)
LEMMA RefuseStep ==
    ASSUME Inv, ret' = "fail", got' = {},
           UNCHANGED <<seeded, rand_buf_off, fills, openFds, issued>>
    PROVE  Inv' /\ RP!Fail
<1>1. Inv'
  BY DEF Inv, TypeOK, IssuedFromPastFills, UnreadNotIssued,
         NothingBeforeFirstFill
<1>2. RP!Fail
  BY DEF RP!Fail, Pool
<1>3. QED
  BY <1>1, <1>2

(* Taking len unread bytes: the offset drops by len and the caller gets   *)
(* the bytes between the new and the old offset, which were in the pool.  *)
LEMMA TakeStep ==
    ASSUME Inv, NEW len \in 0..(BufSz - 1), rand_buf_off >= len,
           TakeUnread(len), UNCHANGED <<seeded, fills, openFds>>
    PROVE  Inv' /\ RP!Take(got')
<1> DEFINE off == rand_buf_off
<1>1. off \in 0..BufSz /\ fills \in 0..MaxFills /\ issued \subseteq Bytes
  BY DEF Inv, TypeOK
<1>2. rand_buf_off' = off - len
  BY <1>1, NoWrap DEF TakeUnread
<1>3. /\ got' = FillBytes(fills, off - len, off)
      /\ issued' = issued \cup got'
      /\ ret' = "ok"
  <2>1. rand_buf_off' + len = off
    BY <1>1, <1>2
  <2>2. got' = FillBytes(fills, rand_buf_off', rand_buf_off' + len)
    BY DEF TakeUnread, HandOut
  <2>3. QED
    BY <1>2, <2>1, <2>2 DEF TakeUnread, HandOut
<1>4. len # 0 => fills \in 1..MaxFills
  BY <1>1 DEF Inv, NothingBeforeFirstFill
<1>5. got' \subseteq Bytes
  <2>1. CASE len = 0
    BY <1>1, <1>3, <2>1, FillBytesEmpty
  <2>2. CASE len # 0
    <3>1. /\ fills \in 1..MaxFills /\ off - len \in Int /\ off \in Int
          /\ 0 <= off - len /\ off <= BufSz
      BY <1>1, <1>4, <2>2
    <3>2. FillBytes(fills, off - len, off) \subseteq Bytes
      BY <3>1, FillBytesInBytes
    <3>3. QED
      BY <1>3, <3>2
  <2>3. QED
    BY <2>1, <2>2
<1>6. TypeOK'
  <2>1. seeded' \in BOOLEAN
    BY Zenon DEF Inv, TypeOK
  <2>2. QED
    BY <1>1, <1>2, <1>3, <1>5, <2>1 DEF Inv, TypeOK
<1>7. IssuedFromPastFills'
  BY <1>1, <1>3, <1>4 DEF Inv, IssuedFromPastFills, FillBytes
<1>8. UnreadNotIssued'
  BY <1>1, <1>2, <1>3 DEF Inv, UnreadNotIssued, FillBytes
<1>9. NothingBeforeFirstFill'
  BY <1>1, <1>2 DEF Inv, NothingBeforeFirstFill
<1>10. RP!Take(got')
  <2>1. got' \subseteq Pool
    BY <1>1, <1>3 DEF Inv, NothingBeforeFirstFill, Pool, FillBytes
  <2>2. Pool' = Pool \ got'
    BY <1>1, <1>2, <1>3 DEF Inv, NothingBeforeFirstFill, Pool, FillBytes
  <2>3. QED
    BY <1>3, <2>1, <2>2 DEF RP!Take
<1>11. QED
  BY <1>6, <1>7, <1>8, <1>9, <1>10 DEF Inv

(* A failed cf_rand_reload may set seeded and leave a descriptor open, but *)
(* the buffer, the offset and the handed-out bytes stay as they were.      *)
LEMMA ReloadFailStep ==
    ASSUME Inv, ReloadFail, ret' = "fail", got' = {},
           UNCHANGED <<rand_buf_off, issued>>
    PROVE  Inv' /\ RP!Fail
<1>1. seeded' \in BOOLEAN /\ openFds' \in 0..MaxLeaks /\ fills' = fills
  <2>1. seeded' \in BOOLEAN
    BY Zenon DEF ReloadFail, Inv, TypeOK
  <2>2. openFds' \in 0..MaxLeaks /\ fills' = fills
    BY DEF ReloadFail, Inv, TypeOK
  <2>3. QED
    BY <2>1, <2>2
<1>2. Inv'
  BY <1>1 DEF Inv, TypeOK, IssuedFromPastFills, UnreadNotIssued,
              NothingBeforeFirstFill
<1>3. RP!Fail
  BY <1>1 DEF RP!Fail, Pool
<1>4. QED
  BY <1>2, <1>3

(* A successful refill starts a fill no caller has seen; the caller gets  *)
(* its top len bytes and the rest becomes the pool.                        *)
LEMMA RefillStep ==
    ASSUME Inv, NEW len \in 0..(BufSz - 1), ReloadOK,
           rand_buf_off' = BufSz - len,
           HandOut(FillBytes(fills + 1, BufSz - len, BufSz)), ret' = "ok"
    PROVE  Inv' /\ RP!RefillTake(got')
<1> DEFINE f == fills + 1
<1>1. /\ fills \in 0..MaxFills /\ issued \subseteq Bytes
      /\ fills' = f /\ f \in 1..MaxFills
      /\ openFds' = openFds /\ seeded' = TRUE
  BY DEF Inv, TypeOK, ReloadOK
<1>2. got' = FillBytes(f, BufSz - len, BufSz) /\ issued' = issued \cup got'
  BY DEF HandOut
<1>3. Pool' = FillBytes(f, 0, BufSz - len)
  BY <1>1 DEF Pool
<1>4. FillBytes(f, 0, BufSz) \subseteq Bytes
  <2>1. f \in 1..MaxFills /\ 0 \in Int /\ BufSz \in Int /\ 0 <= 0 /\ BufSz <= BufSz
    BY <1>1
  <2>2. QED
    BY <2>1, FillBytesInBytes
<1>5. \A b \in FillBytes(f, 0, BufSz) : b \notin issued
  BY <1>1 DEF Inv, IssuedFromPastFills, FillBytes
<1>6. TypeOK'
  <2>1. got' \subseteq Bytes
    BY <1>2, <1>4 DEF FillBytes
  <2>2. QED
    BY <1>1, <1>2, <2>1 DEF Inv, TypeOK
<1>7. IssuedFromPastFills'
  BY <1>1, <1>2 DEF Inv, IssuedFromPastFills, FillBytes
<1>8. UnreadNotIssued'
  BY <1>1, <1>2, <1>5 DEF UnreadNotIssued, FillBytes
<1>9. NothingBeforeFirstFill'
  BY <1>1 DEF NothingBeforeFirstFill
<1>10. RP!RefillTake(got')
  <2>1. Pool' \cup got' \subseteq Bytes \ issued
    BY <1>2, <1>3, <1>4, <1>5 DEF FillBytes
  <2>2. Pool' \cap got' = {}
    BY <1>2, <1>3 DEF FillBytes
  <2>3. QED
    BY <1>2, <2>1, <2>2 DEF RP!RefillTake
<1>11. QED
  BY <1>6, <1>7, <1>8, <1>9, <1>10 DEF Inv

(* The body shared by the three functions keeps the invariant and is a    *)
(* step of the pool.                                                       *)
LEMMA DrawStep ==
    ASSUME Inv, NEW len \in 0..(BufSz - 1), Draw(len)
    PROVE  Inv' /\ RP!Next
<1>1. CASE rand_buf_off >= len /\ TakeUnread(len) /\ UNCHANGED <<seeded, fills, openFds>>
  BY <1>1, TakeStep DEF RP!Next
<1>2. CASE /\ rand_buf_off < len /\ ReloadFail /\ ret' = "fail"
           /\ got' = {} /\ UNCHANGED <<rand_buf_off, issued>>
  BY <1>2, ReloadFailStep DEF RP!Next
<1>3. CASE /\ rand_buf_off < len /\ ReloadOK /\ rand_buf_off' = BufSz - len
           /\ HandOut(FillBytes(fills + 1, BufSz - len, BufSz)) /\ ret' = "ok"
  BY <1>3, RefillStep DEF RP!Next
<1>4. QED
  BY <1>1, <1>2, <1>3 DEF Draw

(* Every step of the buffer keeps the invariant and is a step of the pool *)
(* or leaves the pool, the handed-out bytes and the last result alone.     *)
LEMMA NextStep ==
    ASSUME Inv, [Next]_vars
    PROVE  Inv' /\ [RP!Next]_RP!poolVars
<1>1. ASSUME NEW len \in Lens, GetRandBuf(len) PROVE Inv' /\ [RP!Next]_RP!poolVars
  <2>1. CASE /\ (len < 0 \/ len >= BufSz) /\ ret' = "fail" /\ got' = {}
             /\ UNCHANGED <<seeded, rand_buf_off, fills, openFds, issued>>
    BY <2>1, RefuseStep DEF RP!Next
  <2>2. CASE len \in 0..(BufSz - 1) /\ Draw(len)
    BY <2>2, DrawStep
  <2>3. QED
    BY <1>1, <2>1, <2>2 DEF GetRandBuf
<1>2. CASE GetRand64 \/ GetRand32
  <2>1. WordSz \in 0..(BufSz - 1) /\ Draw(WordSz)
    BY <1>2 DEF GetRand64, GetRand32
  <2>2. QED
    BY <2>1, DrawStep
<1>3. CASE UNCHANGED vars
  BY <1>3 DEF vars, Inv, TypeOK, IssuedFromPastFills, UnreadNotIssued,
              NothingBeforeFirstFill, RP!poolVars, Pool
<1>4. QED
  BY <1>1, <1>2, <1>3 DEF Next

-----------------------------------------------------------------------------
(* The invariant holds in every reachable state.                          *)
THEOREM InvHolds == Spec => []Inv
BY InitInv, NextStep, PTL DEF Spec

(* The buffer's variables keep their types: the offset stays within       *)
(* rand_buf and every handed-out byte is a byte of some refill.            *)
THEOREM TypeCorrect == Spec => []TypeOK
<1>1. Inv => TypeOK
  BY DEF Inv
<1>2. QED
  BY <1>1, InvHolds, PTL

(* cf_get_rand_buf, cf_get_rand64 and cf_get_rand32 implement the pool of *)
(* fresh random bytes: under the mapping of the unread part of rand_buf to *)
(* the pool, no call ever receives a byte an earlier call received.        *)
THEOREM Refinement == Spec => RandPoolRefined
<1>1. Init => RP!Init
  BY DEF Init, RP!Init, Pool
<1>2. Inv /\ [Next]_vars => [RP!Next]_RP!poolVars
  BY NextStep
<1>3. QED
  BY <1>1, <1>2, InvHolds, PTL DEF Spec, RandPoolRefined, RP!Spec

=============================================================================
