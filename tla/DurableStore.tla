---------------------------- MODULE DurableStore ----------------------------
(***************************************************************************)
(* What saving the database promises: a store in memory, and on disk the   *)
(* whole store as it was at one instant of the last save.  A process that  *)
(* stops takes the memory with it and nothing else.  A machine that stops  *)
(* may also take back the last saves, down to the one the file system had  *)
(* made permanent, but it never leaves part of one.                        *)
(***************************************************************************)
EXTENDS Integers, Sequences

CONSTANTS
  Name,        \* names of videos
  FrameList    \* the frame sequences of videos

VARIABLES
  mem,       \* the videos in memory: a function from some names to frames
  disk,      \* the videos a process that starts now would load
  settled,   \* the videos left on disk should the machine stop now
  up         \* a server process is running

dvars == <<mem, disk, settled, up>>

Empty == << >>

Init == mem = Empty /\ disk = Empty /\ settled = Empty /\ up = FALSE

Start ==
  /\ ~ up
  /\ up' = TRUE
  /\ mem' = disk
  /\ UNCHANGED <<disk, settled>>

Add ==
  /\ up
  /\ \E n \in Name \ DOMAIN mem, fs \in FrameList :
       mem' = [m \in DOMAIN mem \cup {n} |-> IF m = n THEN fs ELSE mem[m]]
  /\ UNCHANGED <<disk, settled, up>>

Save ==
  /\ up
  /\ disk' = mem
  /\ UNCHANGED <<mem, settled, up>>

Settle ==
  /\ settled' = disk
  /\ UNCHANGED <<mem, disk, up>>

Stop ==
  /\ up
  /\ up' = FALSE
  /\ mem' = Empty
  /\ UNCHANGED <<disk, settled>>

PowerFail ==
  /\ up' = FALSE
  /\ mem' = Empty
  /\ disk' = settled
  /\ UNCHANGED settled

Next == Start \/ Add \/ Save \/ Settle \/ Stop \/ PowerFail

Spec == Init /\ [][Next]_dvars
=============================================================================
