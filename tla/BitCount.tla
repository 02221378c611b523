------------------------------ MODULE BitCount ------------------------------
(***************************************************************************)
(* The bit counting of server/VideoDB.cpp.  A frame hash of 64 bits is a   *)
(* tuple of its eight bytes, which is how bit1count reads it.              *)
(***************************************************************************)
EXTENDS Integers, FiniteSets, FiniteSetsExt

Byte == 0..255

Bits(x) == {j \in 0..7 : (x \div 2^j) % 2 = 1}

(* The loop of make_bit1_table ends before 255, which keeps the 0 of a     *)
(* static array.                                                           *)
bit1_table == [x \in Byte |-> IF x < 255 THEN Cardinality(Bits(x)) ELSE 0]

Xor(x, y) ==
  LET differ == (Bits(x) \cup Bits(y)) \ (Bits(x) \cap Bits(y))
  IN  MapThenSumSet(LAMBDA j : 2^j, differ)

diff_bits(k1, k2) == MapThenSumSet(LAMBDA n : bit1_table[Xor(k1[n], k2[n])], 1..8)

(* The number of bits in which two hashes differ, for comparison.          *)
Hamming(k1, k2) == MapThenSumSet(LAMBDA n : Cardinality(Bits(Xor(k1[n], k2[n]))), 1..8)
=============================================================================
