----------------------------- MODULE Responder ------------------------------
(***************************************************************************)
(* What the HTTP server promises a peer, with no threads, queues or        *)
(* callbacks: each connection serves the requests sent over it one after   *)
(* the other, in the order they were sent and none twice, and a reply that *)
(* is sent is the reply to the request being served.                       *)
(***************************************************************************)
EXTENDS Integers, Sequences

CONSTANTS
  Conn,
  Id         \* the numbers of the requests, in the order they are sent

VARIABLES
  phase,     \* per connection: "idle", "serving" or "over"
  serving,   \* per connection: the latest request taken up, 0 for none
  sent       \* per connection: the requests that were replied to

rvars == <<phase, serving, sent>>

Init ==
  /\ phase = [c \in Conn |-> "idle"]
  /\ serving = [c \in Conn |-> 0]
  /\ sent = [c \in Conn |-> << >>]

(* A later request than any before; those in between may be skipped.       *)
Take(c) ==
  /\ phase[c] = "idle"
  /\ \E id \in Id : id > serving[c] /\ serving' = [serving EXCEPT ![c] = id]
  /\ phase' = [phase EXCEPT ![c] = "serving"]
  /\ UNCHANGED sent

(* The reply is sent, or lost with the connection.                         *)
Finish(c) ==
  /\ phase[c] = "serving"
  /\ phase' = [phase EXCEPT ![c] = "idle"]
  /\ \/ sent' = [sent EXCEPT ![c] = Append(@, serving[c])]
     \/ UNCHANGED sent
  /\ UNCHANGED serving

Close(c) ==
  /\ phase[c] = "idle"
  /\ phase' = [phase EXCEPT ![c] = "over"]
  /\ UNCHANGED <<serving, sent>>

Next == \E c \in Conn : Take(c) \/ Finish(c) \/ Close(c)

Spec == Init /\ [][Next]_rvars
=============================================================================
