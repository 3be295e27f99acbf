------------------------------ MODULE ByteOrder ------------------------------
(***************************************************************************)
(* The byte-order macros of cf_byte_order.h as built on big-endian PowerPC *)
(* and HP-UX (the __PPC__ || __hpux block): ___my_swab16/32/64 and the     *)
(* cf_swap_to/from_be/le macros defined on them.                           *)
(*                                                                         *)
(* A value is a natural number below 2^w.  x & mask, a shift, and the cast *)
(* to u_intW_t are written with \div and %.  The macros OR terms whose     *)
(* masks select disjoint bytes; such an OR is the sum of the terms.        *)
(***************************************************************************)
EXTENDS Naturals

(* (u_intW_t)(x): the value truncated to w bits.                           *)
UInt(w, x) == x % 2^w

(* The values of u_int16_t, u_int32_t and u_int64_t.                      *)
U16 == 0..(2^16 - 1)
U32 == 0..(2^32 - 1)
U64 == 0..(2^64 - 1)

(* x & (0xff << 8k): byte k of x, left in place.                           *)
MaskByte(x, k) == ((x \div 2^(8 * k)) % 256) * 2^(8 * k)

(* v << s and v >> s on a w-bit unsigned value.                            *)
Shl(w, v, s) == (v * 2^s) % 2^w
Shr(v, s) == v \div 2^s

(* ___my_swab16: the low byte moves up by 8 bits, the high byte down.      *)
Swab16(x) ==
    LET v == UInt(16, x) IN
    Shl(16, MaskByte(v, 0), 8) + Shr(MaskByte(v, 1), 8)

(* ___my_swab32: bytes 0, 1 move up by 24 and 8 bits, bytes 2, 3 down.     *)
Swab32(x) ==
    LET v == UInt(32, x) IN
      Shl(32, MaskByte(v, 0), 24) + Shl(32, MaskByte(v, 1), 8)
    + Shr(MaskByte(v, 2), 8) + Shr(MaskByte(v, 3), 24)

(* ___my_swab64: byte k moves up by 56 - 16k bits for k < 4, and down by   *)
(* 16k - 56 bits for k >= 4.                                                *)
Swab64(x) ==
    LET v == UInt(64, x) IN
      Shl(64, MaskByte(v, 0), 56) + Shl(64, MaskByte(v, 1), 40)
    + Shl(64, MaskByte(v, 2), 24) + Shl(64, MaskByte(v, 3), 8)
    + Shr(MaskByte(v, 4), 8) + Shr(MaskByte(v, 5), 24)
    + Shr(MaskByte(v, 6), 40) + Shr(MaskByte(v, 7), 56)

(* On these hosts the CPU order is big-endian: the be conversions are the *)
(* identity (__be64_to_cpu, __cpu_to_be64 and the 32, 16 bit ones) and  *)
(* the le conversions swap.                                                *)
SwapToBE16(x) == x
SwapToBE32(x) == x
SwapToBE64(x) == x
SwapFromBE16(x) == x
SwapFromBE32(x) == x
SwapFromBE64(x) == x
SwapToLE16(x) == Swab16(x)
SwapToLE32(x) == Swab32(x)
SwapToLE64(x) == Swab64(x)
SwapFromLE16(x) == Swab16(x)
SwapFromLE32(x) == Swab32(x)
SwapFromLE64(x) == Swab64(x)

-----------------------------------------------------------------------------
(* The reference: byte i of x, counting from the least significant.        *)
ByteOf(x, i) == (x \div 2^(8 * i)) % 256

(* How a big-endian CPU stores the n-byte value v: the byte at address     *)
(* offset a is the value's byte n - 1 - a.                                 *)
StoredBE(v, n, a) == ByteOf(v, n - 1 - a)

=============================================================================
