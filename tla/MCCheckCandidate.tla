-------------------------- MODULE MCCheckCandidate --------------------------
(***************************************************************************)
(* A small instance of CheckCandidate: all lists of up to three stored and *)
(* four current frames over four hashes.  Their differences, as the code   *)
(* counts them, are 2, 10, 12, 19, 21 and 29: on all sides of GOOD_BITS,   *)
(* CHECK_BITS and STOP_CHECK_BITS, the last two met exactly.  One hash     *)
(* differs from the others in a whole byte.                                *)
(***************************************************************************)
EXTENDS CheckCandidate, BitCount

MCEmpty == 1
MCFrame == 1..4

Hash ==
  <<<<0, 0, 0, 0, 0, 0, 0, 0>>,
    <<255, 3, 0, 0, 0, 0, 0, 0>>,
    <<0, 0, 31, 31, 0, 0, 0, 0>>,
    <<0, 0, 0, 0, 31, 31, 31, 15>>>>

MCDiff == [p \in MCFrame \X MCFrame |-> diff_bits(Hash[p[1]], Hash[p[2]])]

Lists(n) == UNION {[1..m -> MCFrame] : m \in 1..n}

MCBaseList    == Lists(3)
MCCurrentList == Lists(4)

(* The state of a query frame is what the comment at the marks says: no    *)
(* match, or a number of differing bits (VideoDB.cpp:162-165).             *)
MarksAreBits ==
  \A x \in DOMAIN cmark :
    \/ cmark[x] = NoMatch
    \/ \E y \in DOMAIN bf : Hamming(Hash[cf[x]], Hash[bf[y]]) = cmark[x]
=============================================================================
