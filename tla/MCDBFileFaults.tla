--------------------------- MODULE MCDBFileFaults ---------------------------
(***************************************************************************)
(* The instance of MCDBFile on a medium that fails.                        *)
(***************************************************************************)
EXTENDS DBFileFaults

MCFrameList == {<<1, 2>>}
=============================================================================
