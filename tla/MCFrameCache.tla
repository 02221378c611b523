---------------------------- MODULE MCFrameCache ----------------------------
(***************************************************************************)
(* Small instances of FrameCache: four videos of one, two, two and three   *)
(* frames, of which any number may be read.  With a limit of 3 the largest *)
(* just fits alone; with a limit of 2 it does not.                         *)
(***************************************************************************)
EXTENDS FrameCache

CONSTANTS v1, v2, v3, v4

MCStored == (v1 :> {1}) @@ (v2 :> {1, 2}) @@ (v3 :> {1, 2}) @@ (v4 :> {1, 2, 3})
=============================================================================
