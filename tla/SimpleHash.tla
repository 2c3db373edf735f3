----------------------------- MODULE SimpleHash -----------------------------
(***************************************************************************)
(* JSHash (hash/simple_hash.cc), the hash Mapper::Shard uses.  A string is *)
(* a sequence of bytes 0..255.  The hash is an unsigned int; TLC's         *)
(* integers are 32-bit signed, so it is kept as two 16-bit halves, and     *)
(* every step is the 32-bit arithmetic of the loop done on the halves.     *)
(***************************************************************************)
EXTENDS Integers, Sequences, Bitwise

Half == 65536

(* str[i] is a char, signed in the build: a byte of 128 or more is        *)
(* negative and, added to the unsigned hash, is sign-extended to 32 bits.  *)
CharValue(c) == IF c < 128 THEN [hi |-> 0, lo |-> c]
                ELSE [hi |-> Half - 1, lo |-> Half - 256 + c]

(* One turn of the loop: hash ^= ((hash << 5) + str[i] + (hash >> 2)),     *)
(* all modulo 2^32.                                                        *)
JSStep(h, c) ==
    LET shl == [hi |-> (h.hi * 32 + (h.lo * 32) \div Half) % Half, lo |-> (h.lo * 32) % Half]
        shr == [hi |-> h.hi \div 4, lo |-> (h.hi % 4) * (Half \div 4) + h.lo \div 4]
        ch == CharValue(c)
        loSum == shl.lo + ch.lo + shr.lo
        t == [hi |-> (shl.hi + ch.hi + shr.hi + loSum \div Half) % Half, lo |-> loSum % Half]
    IN  [hi |-> h.hi ^^ t.hi, lo |-> h.lo ^^ t.lo]

(* The initial value 1315423911 = 0x4E67C6A7.                              *)
JSSeed == [hi |-> 20071, lo |-> 50855]

RECURSIVE JSHashFrom(_, _)
JSHashFrom(h, s) == IF s = <<>> THEN h ELSE JSHashFrom(JSStep(h, Head(s)), Tail(s))

JSHash(s) == JSHashFrom(JSSeed, s)

(* JSHash(s) % n for a positive int n: the unsigned remainder, from the    *)
(* halves as (hi * 2^16 + lo) mod n.                                        *)
JSHashMod(s, n) == LET h == JSHash(s) IN ((h.hi % n) * (Half % n) + h.lo) % n
=============================================================================
