-------------------------------- MODULE Hash --------------------------------
(* The FNV-1a hash of knn_kdtree_demo.cpp, byte by byte.  A uint32_t is a   *)
(* pair of 16-bit halves, so that its products stay within TLC's integers.  *)
EXTENDS Integers, Sequences, FiniteSetsExt

CONSTANT Text  \* the strings of the instance, as sequences of bytes
ASSUME TextAssumption == Text \subseteq Seq(0 .. 255)

VARIABLES str,    \* the argument
          hashed, \* how many of its bytes are in
          hash    \* the local of that name

hashVars == <<str, hashed, hash>>

Half == 2^16
Start == [hi |-> 33052, lo |-> 40389]  \* 0x811c9dc5

(* hash *= 0x1000193, modulo 2^32: 0x193 times it, and its low byte on top. *)
High(h) == h.hi * 403 + (h.lo * 403) \div Half + (h.lo % 256) * 256
TimesPrime(h) == [hi |-> High(h) % Half, lo |-> (h.lo * 403) % Half]

(* hash ^ value: their sum, less twice the bits that both have.  (Bitwise   *)
(* declares RECURSIVE operators, and there are proofs about KnnDemo.)       *)
Bits(n) == {k \in 0 .. 15 : (n \div 2^k) % 2 = 1}
Xor(m, n) == m + n - 2 * SumSet({2^k : k \in Bits(m) \cap Bits(n)})
WithByte(h, value) == [h EXCEPT !.lo = Xor(@, value)]

MultipliedFirst(h, value) == WithByte(TimesPrime(h), value)  \* a mistake: FNV-1
Round(h, value) == TimesPrime(WithByte(h, value))

(* hash_str_int: without the top bit.  *)
ToInt(h) == IF h.hi >= Half \div 2 THEN [h EXCEPT !.hi = @ - Half \div 2] ELSE h

HashStarts == str \in Text /\ hashed = 0 /\ hash = Start
HashIdle == str = <<>> /\ hashed = 0 /\ hash = Start

HashByte ==
  /\ hashed < Len(str)
  /\ hash' = Round(hash, str[hashed + 1])
  /\ hashed' = hashed + 1
  /\ str' = str
=============================================================================
