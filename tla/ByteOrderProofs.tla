--------------------------- MODULE ByteOrderProofs ---------------------------
(***************************************************************************)
(* What the byte-order macros of cf_byte_order.h compute on the           *)
(* big-endian hosts (PowerPC, HP-UX): ___my_swab16 and ___my_swab32       *)
(* reverse the bytes of a value, so cf_swap_to_le16/32 leave in memory the *)
(* value's bytes least significant first, and cf_swap_from_le32 undoes    *)
(* cf_swap_to_le32.                                                        *)
(*                                                                         *)
(* Each proof reads the macro's value as a sum of its masked and shifted  *)
(* bytes, then reads the bytes of that sum back with \div and %.  The     *)
(* 64-bit macro is left out: the provers do not evaluate powers of two    *)
(* beyond 2^32, which its masks and shifts need.                          *)
(***************************************************************************)
EXTENDS ByteOrder, TLAPS

(* The powers of two the masks and shifts of the macros use.               *)
LEMMA Pow ==
    /\ 2^(8 * 0) = 1 /\ 2^(8 * 1) = 256 /\ 2^(8 * 2) = 65536 /\ 2^(8 * 3) = 16777216
    /\ 2^8 = 256 /\ 2^16 = 65536 /\ 2^24 = 16777216 /\ 2^32 = 4294967296
BY SMT

(* ___my_swab16 exchanges the two bytes of a 16-bit value.                 *)
LEMMA Swab16Bytes ==
    ASSUME NEW x \in U16
    PROVE  /\ ByteOf(Swab16(x), 0) = ByteOf(x, 1)
           /\ ByteOf(Swab16(x), 1) = ByteOf(x, 0)
BY SMT DEF Swab16, UInt, MaskByte, Shl, Shr, ByteOf, U16

(* ___my_swab32 is the sum of the bytes of x, byte k weighted 256^(3 - k). *)
LEMMA Swab32Sum ==
    ASSUME NEW x \in U32
    PROVE  Swab32(x) = ByteOf(x, 0) * 16777216 + ByteOf(x, 1) * 65536
                       + ByteOf(x, 2) * 256 + ByteOf(x, 3)
<1> DEFINE b0 == ByteOf(x, 0)  b1 == ByteOf(x, 1)  b2 == ByteOf(x, 2)  b3 == ByteOf(x, 3)
<1>1. x \in Nat /\ x <= 4294967295
  BY Pow, SMT DEF U32
<1>2. /\ b0 \in Nat /\ b0 <= 255
      /\ b1 \in Nat /\ b1 <= 255
      /\ b2 \in Nat /\ b2 <= 255
      /\ b3 \in Nat /\ b3 <= 255
  BY <1>1, Pow, SMT DEF ByteOf
<1>3. UInt(32, x) = x
  BY <1>1, Pow, SMT DEF UInt
<1>4. /\ MaskByte(x, 0) = b0
      /\ MaskByte(x, 1) = b1 * 256
      /\ MaskByte(x, 2) = b2 * 65536
      /\ MaskByte(x, 3) = b3 * 16777216
  BY <1>1, Pow, SMT DEF MaskByte, ByteOf
<1>5. /\ Shl(32, b0, 24) = b0 * 16777216
      /\ Shl(32, b1 * 256, 8) = b1 * 65536
      /\ Shr(b2 * 65536, 8) = b2 * 256
      /\ Shr(b3 * 16777216, 24) = b3
  BY <1>2, Pow, SMT DEF Shl, Shr
<1>6. Swab32(x) = b0 * 16777216 + b1 * 65536 + b2 * 256 + b3
  <2>1. Swab32(x) = Shl(32, MaskByte(x, 0), 24)
                    + Shl(32, MaskByte(x, 1), 8)
                    + Shr(MaskByte(x, 2), 8)
                    + Shr(MaskByte(x, 3), 24)
    BY <1>3 DEF Swab32
  <2>2. Swab32(x) = b0 * 16777216 + b1 * 65536 + b2 * 256 + b3
    BY <2>1, <1>4, <1>5
  <2> QED BY <2>2
<1> QED BY <1>6

(* ___my_swab32 puts byte 3 - a of a 32-bit value at byte a.               *)
LEMMA Swab32Bytes ==
    ASSUME NEW x \in U32
    PROVE  \A a \in 0..3 : ByteOf(Swab32(x), a) = ByteOf(x, 3 - a)
<1> DEFINE b0 == ByteOf(x, 0)  b1 == ByteOf(x, 1)  b2 == ByteOf(x, 2)  b3 == ByteOf(x, 3)
<1>1. x \in Nat /\ x <= 4294967295
  BY Pow, SMT DEF U32
<1>2. /\ b0 \in Nat /\ b0 <= 255
      /\ b1 \in Nat /\ b1 <= 255
      /\ b2 \in Nat /\ b2 <= 255
      /\ b3 \in Nat /\ b3 <= 255
  BY <1>1, Pow, SMT DEF ByteOf
<1>3. Swab32(x) = b0 * 16777216 + b1 * 65536 + b2 * 256 + b3
  BY Swab32Sum, SMT
<1> DEFINE y == Swab32(x)
<1> HIDE DEF b0, b1, b2, b3
<1>4. (y \div 1) % 256 = b3
  <2>1. y = b3 + 256 * (b2 + 256 * b1 + 65536 * b0)
    BY <1>2, <1>3, SMT
  <2>2. y \div 1 = b3 + 256 * (b2 + 256 * b1 + 65536 * b0)
    BY <1>2, <2>1, SMT
  <2> QED BY <1>2, <2>2, SMT
<1>5. (y \div 256) % 256 = b2
  <2>1. y = (b3) + 256 * (b2 + 256 * (b1 + 256 * b0))
    BY <1>2, <1>3, SMT
  <2>2. y \div 256 = b2 + 256 * (b1 + 256 * b0)
    BY <1>2, <2>1, SMT
  <2> QED BY <1>2, <2>2, SMT
<1>6. (y \div 65536) % 256 = b1
  <2>1. y = (b3 + 256 * b2) + 65536 * (b1 + 256 * (b0))
    BY <1>2, <1>3, SMT
  <2>2. y \div 65536 = b1 + 256 * (b0)
    BY <1>2, <2>1, SMT
  <2> QED BY <1>2, <2>2, SMT
<1>7. (y \div 16777216) % 256 = b0
  <2>1. y = (b3 + 256 * b2 + 65536 * b1) + 16777216 * (b0)
    BY <1>2, <1>3, SMT
  <2>2. y \div 16777216 = b0
    BY <1>2, <2>1, SMT
  <2> QED BY <1>2, <2>2, SMT
<1>8. /\ ByteOf(y, 0) = (y \div 1) % 256
      /\ ByteOf(y, 1) = (y \div 256) % 256
      /\ ByteOf(y, 2) = (y \div 65536) % 256
      /\ ByteOf(y, 3) = (y \div 16777216) % 256
  BY Pow DEF ByteOf
<1>9. /\ ByteOf(x, 0) = b0
      /\ ByteOf(x, 1) = b1
      /\ ByteOf(x, 2) = b2
      /\ ByteOf(x, 3) = b3
  BY DEF b0, b1, b2, b3
<1> QED BY <1>4, <1>5, <1>6, <1>7, <1>8, <1>9, SMT

(* A 32-bit value is the sum of its bytes.                                 *)
LEMMA Bytes32 ==
    ASSUME NEW x \in U32
    PROVE  x = ByteOf(x, 0) + 256 * ByteOf(x, 1) + 65536 * ByteOf(x, 2)
               + 16777216 * ByteOf(x, 3)
BY Pow, SMT DEF ByteOf, U32

(* On a big-endian host, cf_swap_to_le16 leaves in memory the two bytes   *)
(* of the value least significant first: the layout a little-endian host  *)
(* stores, which is what the macro's name promises.                       *)
THEOREM SwapToLE16Layout ==
    ASSUME NEW v \in U16
    PROVE  \A a \in 0..1 : StoredBE(SwapToLE16(v), 2, a) = ByteOf(v, a)
<1> SUFFICES ASSUME NEW a \in 0..1
             PROVE  StoredBE(SwapToLE16(v), 2, a) = ByteOf(v, a)
  OBVIOUS
<1>1. a = 0 \/ a = 1
  BY SMT
<1>2. /\ ByteOf(Swab16(v), 2 - 1 - 0) = ByteOf(v, 0)
      /\ ByteOf(Swab16(v), 2 - 1 - 1) = ByteOf(v, 1)
  BY Swab16Bytes, SMT
<1> QED BY <1>1, <1>2 DEF StoredBE, SwapToLE16

(* Likewise cf_swap_to_le32 leaves the four bytes of a 32-bit value in    *)
(* memory least significant first.                                        *)
THEOREM SwapToLE32Layout ==
    ASSUME NEW v \in U32
    PROVE  \A a \in 0..3 : StoredBE(SwapToLE32(v), 4, a) = ByteOf(v, a)
<1> SUFFICES ASSUME NEW a \in 0..3
             PROVE  StoredBE(SwapToLE32(v), 4, a) = ByteOf(v, a)
  OBVIOUS
<1>1. 4 - 1 - a \in 0..3 /\ 3 - (4 - 1 - a) = a
  BY SMT
<1>2. ByteOf(Swab32(v), 4 - 1 - a) = ByteOf(v, 3 - (4 - 1 - a))
  BY <1>1, Swab32Bytes
<1> QED BY <1>1, <1>2 DEF StoredBE, SwapToLE32

(* cf_swap_from_le32 undoes cf_swap_to_le32: a 32-bit value written in    *)
(* little-endian order is read back unchanged.                            *)
THEOREM SwapRoundTrip32 ==
    ASSUME NEW v \in U32
    PROVE  SwapFromLE32(SwapToLE32(v)) = v
<1> DEFINE y == Swab32(v)
<1>1. /\ ByteOf(v, 0) \in Nat /\ ByteOf(v, 0) <= 255
      /\ ByteOf(v, 1) \in Nat /\ ByteOf(v, 1) <= 255
      /\ ByteOf(v, 2) \in Nat /\ ByteOf(v, 2) <= 255
      /\ ByteOf(v, 3) \in Nat /\ ByteOf(v, 3) <= 255
  BY Pow, SMT DEF ByteOf, U32
<1>2. y = ByteOf(v, 0) * 16777216 + ByteOf(v, 1) * 65536
          + ByteOf(v, 2) * 256 + ByteOf(v, 3)
  BY Swab32Sum
<1>3. y \in U32
  BY <1>1, <1>2, Pow, SMT DEF U32
<1>4. Swab32(y) = ByteOf(y, 0) * 16777216 + ByteOf(y, 1) * 65536
                  + ByteOf(y, 2) * 256 + ByteOf(y, 3)
  BY <1>3, Swab32Sum
<1>5. /\ ByteOf(y, 0) = ByteOf(v, 3 - 0) /\ ByteOf(y, 1) = ByteOf(v, 3 - 1)
      /\ ByteOf(y, 2) = ByteOf(v, 3 - 2) /\ ByteOf(y, 3) = ByteOf(v, 3 - 3)
  <2>1. 0 \in 0..3 /\ 1 \in 0..3 /\ 2 \in 0..3 /\ 3 \in 0..3
    BY SMT
  <2> QED BY <2>1, Swab32Bytes
<1>6. /\ 3 - 0 = 3 /\ 3 - 1 = 2 /\ 3 - 2 = 1 /\ 3 - 3 = 0
  BY SMT
<1>7. v = ByteOf(v, 0) + 256 * ByteOf(v, 1) + 65536 * ByteOf(v, 2)
          + 16777216 * ByteOf(v, 3)
  BY Bytes32
<1>8. Swab32(y) = ByteOf(v, 3) * 16777216 + ByteOf(v, 2) * 65536
                  + ByteOf(v, 1) * 256 + ByteOf(v, 0)
  BY <1>4, <1>5, <1>6
<1>9. SwapFromLE32(SwapToLE32(v)) = Swab32(y)
  BY DEF SwapFromLE32, SwapToLE32
<1> QED BY <1>1, <1>7, <1>8, <1>9, SMT

=============================================================================
