------------------------------ MODULE LruCache ------------------------------
(***************************************************************************)
(* What the frame cache of the browse server promises: the most recently   *)
(* used videos that fit its limit, with no pointers.  A video is used when *)
(* it is loaded and when an image of it is asked for; a page about it      *)
(* leaves its place as it is.                                              *)
(***************************************************************************)
EXTENDS Integers, Sequences, FiniteSets, Functions, SequencesExt

CONSTANTS
  Key,       \* the videos in the list file
  Stored,    \* the frames of each of them
  LIMIT      \* how many frames the cache may hold

VARIABLES
  order,     \* the cached videos, the most recently used first
  frames,    \* what is cached of each of them
  answer     \* the answer to the last request

lvars == <<order, frames, answer>>

Found(k, n)  == [code |-> 200, key |-> k, body |-> n]
NotFound(k)  == [code |-> 404, key |-> k, body |-> 0]

Weight(h, s) == MapThenSumSet(LAMBDA k : Cardinality(h[k]), Range(s))

(* As many of the most recently used videos as fit the limit.              *)
Fitting(h, s) ==
  LET n == Max({i \in 0..Len(s) : Weight(h, SubSeq(s, 1, i)) <= LIMIT})
  IN  SubSeq(s, 1, n)

ToFront(k, s) == Cons(k, RemoveFirst(s, k))

Init == order = << >> /\ frames = << >> /\ answer = << >>

Fetch(k, got) ==
  LET h == [x \in Range(order) \cup {k} |-> IF x = k THEN got ELSE frames[x]]
  IN  /\ order' = Fitting(h, ToFront(k, order))
      /\ frames' = [x \in Range(order') |-> h[x]]

ImageOf(h, k, f) == IF f \in h[k] THEN Found(k, f) ELSE NotFound(k)
PageOf(h, k)     == Found(k, Cardinality(h[k]))

Image(k, f) ==
  \/ /\ k \in Range(order)
     /\ order' = ToFront(k, order)
     /\ answer' = ImageOf(frames, k, f)
     /\ UNCHANGED frames
  \/ /\ k \notin Range(order)
     /\ \E got \in SUBSET Stored[k] : Fetch(k, got)
     /\ k \in Range(order')
     /\ answer' = ImageOf(frames', k, f)

Page(k) ==
  \/ /\ k \in Range(order)
     /\ answer' = PageOf(frames, k)
     /\ UNCHANGED <<order, frames>>
  \/ /\ k \notin Range(order)
     /\ \E got \in SUBSET Stored[k] : Fetch(k, got)
     /\ k \in Range(order')
     /\ answer' = PageOf(frames', k)

Missing(k) ==
  /\ k \notin Range(order)
  /\ answer' = NotFound(k)
  /\ UNCHANGED <<order, frames>>

Next ==
  \E k \in Key : Page(k) \/ Missing(k) \/ \E f \in UNION Range(Stored) : Image(k, f)

Spec == Init /\ [][Next]_lvars
=============================================================================
