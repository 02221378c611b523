----------------------------- MODULE MatchStore -----------------------------
(***************************************************************************)
(* What the match engine promises its clients, with no threads, locks or   *)
(* index: an addressable store of videos in which every add and every      *)
(* query takes effect at one instant between its call and its reply.       *)
(*                                                                         *)
(* A query by key is the one operation that is not a single instant: the   *)
(* video is located first and matched against the store later.             *)
(***************************************************************************)
EXTENDS VideoIndex

CONSTANTS
  Worker,   \* the clients served at once, one per worker thread
  NoName

VARIABLES
  store,    \* the videos: a function from some names to their frames
  phase,    \* per worker: where its request stands
  request,  \* per worker: the request being served
  answer    \* per worker: the answer fixed for it, once there is one

svars == <<store, phase, request, answer>>

NoRequest == [op |-> "none", name |-> NoName, frames |-> << >>]
Request   == [op : {"add"}, name : Name, frames : FrameList]
             \cup [op : {"key"}, name : Name, frames : {<< >>}]
             \cup [op : {"query"}, name : {NoName}, frames : FrameList]

Answer(c, m) == [code |-> c, matches |-> m]
NoAnswer     == Answer(0, {})

Init ==
  /\ store = << >>
  /\ phase   = [t \in Worker |-> "idle"]
  /\ request = [t \in Worker |-> NoRequest]
  /\ answer  = [t \in Worker |-> NoAnswer]

(* The store of an earlier run is read back before anything is served.     *)
Boot ==
  /\ store = << >>
  /\ \A t \in Worker : phase[t] = "idle"
  /\ \E S \in SUBSET Name : store' \in [S -> FrameList]
  /\ UNCHANGED <<phase, request, answer>>

Call(t) ==
  /\ phase[t] = "idle"
  /\ \E r \in Request :
       /\ request' = [request EXCEPT ![t] = r]
       /\ phase' = [phase EXCEPT ![t] = IF r.op = "query" THEN "located" ELSE "called"]
  /\ UNCHANGED <<store, answer>>

Settle(t, a) ==
  /\ phase' = [phase EXCEPT ![t] = "answered"]
  /\ answer' = [answer EXCEPT ![t] = a]

(* A name is added once and never overwritten.                             *)
Add(t) ==
  LET n == request[t].name IN
  /\ phase[t] = "called" /\ request[t].op = "add"
  /\ \/ /\ n \in DOMAIN store
        /\ Settle(t, Answer(-1, {}))
        /\ UNCHANGED store
     \/ /\ n \notin DOMAIN store
        /\ store' = [m \in DOMAIN store \cup {n} |->
                       IF m = n THEN request[t].frames ELSE store[m]]
        /\ Settle(t, Answer(0, {}))
  /\ UNCHANGED request

Locate(t) ==
  LET n == request[t].name IN
  /\ phase[t] = "called" /\ request[t].op = "key"
  /\ \/ /\ n \notin DOMAIN store
        /\ Settle(t, Answer(-1, {}))
        /\ UNCHANGED request
     \/ /\ n \in DOMAIN store
        /\ request' = [request EXCEPT ![t].frames = store[n]]
        /\ phase' = [phase EXCEPT ![t] = "located"]
        /\ UNCHANGED answer
  /\ UNCHANGED store

(* A query answers with exactly the matching videos of one instant.        *)
Match(t) ==
  LET m == MatchesIn(store, request[t].frames) IN
  /\ phase[t] = "located"
  /\ Settle(t, Answer(Cardinality(m), m))
  /\ UNCHANGED <<store, request>>

Reply(t) ==
  /\ phase[t] = "answered"
  /\ phase' = [phase EXCEPT ![t] = "idle"]
  /\ request' = [request EXCEPT ![t] = NoRequest]
  /\ answer' = [answer EXCEPT ![t] = NoAnswer]
  /\ UNCHANGED store

Next ==
  \/ Boot
  \/ \E t \in Worker : Call(t) \/ Add(t) \/ Locate(t) \/ Match(t) \/ Reply(t)

Spec == Init /\ [][Next]_svars
=============================================================================
