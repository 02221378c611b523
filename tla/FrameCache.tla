----------------------------- MODULE FrameCache -----------------------------
(***************************************************************************)
(* The class VideoManager of the browse server (browse_server/main.cpp)    *)
(* and the handler that uses it: videos whose frames were unpacked into    *)
(* memory, in a doubly linked list of DataItems, the most recently used    *)
(* first, with a limit on their size.                                      *)
(*                                                                         *)
(* The handler never asks for the thread pool, so requests are served one  *)
(* by one and each is one step.  A DataItem is modelled by its key: data_  *)
(* holds one per key.  Every frame counts as one unit of size.             *)
(***************************************************************************)
EXTENDS Integers, Sequences, FiniteSets, Functions, SequencesExt

CONSTANTS
  Key,       \* the keys in raw_path_, read from the list file
  Stored,    \* the frame numbers in the file of each of them
  LIMIT,     \* cache_size_
  NIL

ASSUME FrameCacheAssumption ==
  /\ IsFiniteSet(Key)
  /\ Stored \in [Key -> SUBSET Nat]
  /\ \A k \in Key : IsFiniteSet(Stored[k])
  /\ LIMIT \in Nat
  /\ NIL \notin Key

VARIABLES
  data_,     \* the cached videos: from keys to the frames in memory
  list,      \* head_, tail_ and the prev_ and next_ of the cached videos
  reply      \* the reply to the last request

vars == <<data_, list, reply>>

Found(k, n)  == [code |-> 200, key |-> k, body |-> n]
NotFound(k)  == [code |-> 404, key |-> k, body |-> 0]

(* What a handler does that uses the iterator find() returned when it is   *)
(* end().                                                                  *)
UNDEFINED == [code |-> 0, key |-> NIL, body |-> 0]

Alive == reply # UNDEFINED

Init ==
  /\ data_ = << >>
  /\ list = [head |-> NIL, tail |-> NIL,
             prev |-> [k \in Key |-> NIL], next |-> [k \in Key |-> NIL]]
  /\ reply = << >>

-----------------------------------------------------------------------------
(***************************************************************************)
(* The list                                                                *)
(***************************************************************************)
PushFront(l, d) ==
  [head |-> d,
   tail |-> IF l.tail = NIL THEN d ELSE l.tail,
   prev |-> [k \in Key |-> IF k = d THEN NIL ELSE IF k = l.head THEN d ELSE l.prev[k]],
   next |-> [l.next EXCEPT ![d] = l.head]]

(* A deliberately wrong variant, for the sensitivity check of ListOK:      *)
(* tail_ stays on the item that moves to the front.                        *)
Unlink_KeepTail(l, d) ==
  [l EXCEPT !.prev = [k \in Key |-> IF k = l.next[d] THEN l.prev[d] ELSE l.prev[k]],
            !.next = [k \in Key |-> IF k = l.prev[d] THEN l.next[d] ELSE l.next[k]]]

Unlink(l, d) ==
  [l EXCEPT !.tail = IF d = l.tail THEN l.prev[d] ELSE @,
            !.prev = [k \in Key |-> IF k = l.next[d] THEN l.prev[d] ELSE l.prev[k]],
            !.next = [k \in Key |-> IF k = l.prev[d] THEN l.next[d] ELSE l.next[k]]]

(* A deliberately wrong variant, for the sensitivity check of              *)
(* ImplementsLruCache: a video that is used keeps its place.               *)
MoveToFront_Not(l, d) == l

MoveToFront(l, d) == IF d = l.head THEN l ELSE PushFront(Unlink(l, d), d)

(* The links of the item that is deleted go with it.                       *)
DropTail(l) ==
  LET d == l.tail
  IN  [head |-> IF l.head = d THEN NIL ELSE l.head,
       tail |-> l.prev[d],
       prev |-> [k \in Key |-> IF k = d THEN NIL ELSE l.prev[k]],
       next |-> [k \in Key |-> IF k = d \/ k = l.prev[d] THEN NIL ELSE l.next[k]]]

-----------------------------------------------------------------------------
(***************************************************************************)
(* Loading and evicting                                                    *)
(***************************************************************************)
get_size(items) == MapThenSumSet(LAMBDA k : Cardinality(items[k]), DOMAIN items)

(* A deliberately wrong variant, for the sensitivity check of              *)
(* AlwaysAnswered: a cache that is just full counts as too full.           *)
Overflows_Early(c) == get_size(c.data) >= LIMIT /\ c.list.tail # NIL

Overflows(c) == get_size(c.data) > LIMIT /\ c.list.tail # NIL

EvictTail(c) ==
  [data |-> [k \in DOMAIN c.data \ {c.list.tail} |-> c.data[k]],
   list |-> DropTail(c.list)]

(* A deliberately wrong variant, for the sensitivity check of TypeOK: one  *)
(* video at most is evicted.                                               *)
check_cache_overflow_Once(c) == IF Overflows(c) THEN EvictTail(c) ELSE c

(* The loop ends because each turn takes a video off the list.             *)
check_cache_overflow(c) ==
  LET after[i \in 0..Cardinality(Key)] ==
        IF i = 0 THEN c
        ELSE LET b == after[i - 1] IN IF Overflows(b) THEN EvictTail(b) ELSE b
  IN  after[Cardinality(Key)]

(* read.py unpacks the frames into a directory; what cannot be unpacked or *)
(* read is left out, and the rest is cached all the same.                  *)
Load(k) ==
  \E got \in SUBSET Stored[k] :
    LET c == check_cache_overflow(
               [data |-> [x \in DOMAIN data_ \cup {k} |-> IF x = k THEN got ELSE data_[x]],
                list |-> PushFront(list, k)])
    IN  data_' = c.data /\ list' = c.list

-----------------------------------------------------------------------------
(***************************************************************************)
(* The handler: /image/#key/#id, and /browse/#key/, /browse/#key/#id and   *)
(* /browseall/#key/, which differ in the text of the page alone.           *)
(***************************************************************************)
ImageOf(items, k, f) == IF f \in items[k] THEN Found(k, f) ELSE NotFound(k)
PageOf(items, k)     == Found(k, Cardinality(items[k]))

Lookup(k, f) ==
  \/ /\ k \in DOMAIN data_
     /\ list' = MoveToFront(list, k)
     /\ reply' = ImageOf(data_, k, f)
     /\ UNCHANGED data_
  \/ /\ k \notin DOMAIN data_
     /\ Load(k)
     /\ reply' = IF k \in DOMAIN data_' THEN ImageOf(data_', k, f) ELSE UNDEFINED

LookupSize(k) ==
  \/ /\ k \in DOMAIN data_
     /\ reply' = PageOf(data_, k)
     /\ UNCHANGED <<data_, list>>
  \/ /\ k \notin DOMAIN data_
     /\ Load(k)
     /\ reply' = IF k \in DOMAIN data_' THEN PageOf(data_', k) ELSE UNDEFINED

(* The key is not listed, or there is no directory to unpack into.         *)
LoadFails(k) ==
  /\ k \notin DOMAIN data_
  /\ reply' = NotFound(k)
  /\ UNCHANGED <<data_, list>>

my_handler(k) ==
  \/ \E f \in UNION Range(Stored) : Lookup(k, f)
  \/ LookupSize(k)
  \/ LoadFails(k)

Next == Alive /\ \E k \in Key : my_handler(k)

Spec == Init /\ [][Next]_vars

-----------------------------------------------------------------------------
(***************************************************************************)
(* Properties                                                              *)
(***************************************************************************)
(* The keys met from one end of the list along one kind of link.           *)
Walk(from, link) ==
  LET at[i \in 1..(Cardinality(Key) + 1)] ==
        IF i = 1 THEN from ELSE IF at[i - 1] = NIL THEN NIL ELSE link[at[i - 1]]
  IN  [i \in 1..Cardinality({j \in DOMAIN at : at[j] # NIL}) |-> at[i]]

Order == Walk(list.head, list.next)

(* The type of the state; between requests the cache keeps to its limit.   *)
TypeOK ==
  /\ DOMAIN data_ \subseteq Key
  /\ \A k \in DOMAIN data_ : data_[k] \subseteq Stored[k]
  /\ list \in [head : Key \cup {NIL}, tail : Key \cup {NIL},
               prev : [Key -> Key \cup {NIL}], next : [Key -> Key \cup {NIL}]]
  /\ get_size(data_) <= LIMIT

(* From either end the list holds every cached video once, the one way     *)
(* round as the other: no call to move or evict ever leaves a link behind. *)
ListOK ==
  /\ IsInjective(Order)
  /\ Range(Order) = DOMAIN data_
  /\ Walk(list.tail, list.prev) = Reverse(Order)

(* A request for a listed video is answered: the video the handler has     *)
(* looked up is there when it uses it.                                     *)
AlwaysAnswered == Alive

(* The cache implements the abstract one: the linked list is the order of  *)
(* use, and exactly the videos used least recently are evicted, exactly    *)
(* when they must be.                                                      *)
Lru == INSTANCE LruCache WITH order <- Order, frames <- data_, answer <- reply

ImplementsLruCache == Lru!Spec
=============================================================================
