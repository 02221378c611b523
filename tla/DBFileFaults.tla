---------------------------- MODULE DBFileFaults ----------------------------
(***************************************************************************)
(* DBFile with a medium that fails: open may be refused, and write() may   *)
(* take fewer cells than it was given (a full disk).  Save logs both; what *)
(* it does next is in DBFile.                                              *)
(***************************************************************************)
EXTENDS DBFile

(* open fails: Save returns -1, which SaveDB drops, and the reply is the   *)
(* same.                                                                   *)
OpenFails(t) ==
  /\ Goto(t, "open", "done")
  /\ UNCHANGED <<up, stops, fd, gen, off, asked, promised>>
  /\ UNCHANGED mem_vars
  /\ UNCHANGED disk_vars

(* write returns less than it was asked for, or -1.                        *)
WriteFallsShort(t) == \E k \in 0..(Len(BlockOf(t)) - 1) : FlushTaking(t, k)

NextWithFaults == Next \/ \E t \in Worker : OpenFails(t) \/ WriteFallsShort(t)

FaultSpec == Init /\ [][NextWithFaults]_vars

(* Where the code notes "write succeed, clear log", the write succeeded:   *)
(* the db file holds what is in memory.                                    *)
WriteSucceeded ==
  \A t \in Worker : pc[t] = "unlock" =>
    Readable(dir, file) /\ Stored(dir, file) = Videos
=============================================================================
