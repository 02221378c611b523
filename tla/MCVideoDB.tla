----------------------------- MODULE MCVideoDB ------------------------------
(***************************************************************************)
(* A small instance of VideoDB.  Hashes 1..4 with the empty frame 0 and    *)
(* three slots {0,1}, {2,3} and {4}.  The videos share frames, repeat a    *)
(* frame, hold the empty frame, and differ enough in length for the length *)
(* rule; one of them matches the long one too poorly to be reported.       *)
(***************************************************************************)
EXTENDS VideoDB, TLC

CONSTANTS v1, v2, w1, w2

MCFrame == 0..4
MCFrameList == {<<0, 1>>, <<4, 4>>, <<1, 2, 3, 4, 1>>}

MCScore ==
  [p \in MCFrameList \X MCFrameList |->
     IF p[1] = p[2] THEN 100 ELSE IF p[1] = <<4, 4>> THEN 5 ELSE 30]

(* Names and pool threads are interchangeable.                             *)
Symmetry == Permutations(Name) \cup Permutations(Worker)
=============================================================================
