-------------------------- MODULE HttpServerProofs --------------------------
(***************************************************************************)
(* Proofs about HttpServer for any number of connections and pool threads, *)
(* anything peers may send, and any handler.                               *)
(***************************************************************************)
EXTENDS HttpServer, SequenceTheorems, WellFoundedInduction, TLAPS

-----------------------------------------------------------------------------
(***************************************************************************)
(* The inductive invariant.                                                *)
(***************************************************************************)

(* A pool thread has a connection just while it processes its request.     *)
ServeInv == \A t \in Tid : worker[t] = "process" <=> serves[t] # NoConn

(* What the network thread has when it is in push_to_threadpool.           *)
NetInv ==
  /\ net.pc # "run" => net.conn \in Conn
  /\ net.pc = "scan" /\ net.choice = NONE => net.i = 0

(* A request is there while it is read on, processed and replied to.       *)
ReadInv ==
  \A c \in Conn :
    /\ io[c] = "write" => state_[c] = "processing" /\ http_ret_[c] \in 0..(HTTP_END - 1)
    /\ state_[c] # "header" => request_[c] # << >>

IInv == TypeOK /\ OneHolder /\ ServeInv /\ NetInv /\ ReadInv

-----------------------------------------------------------------------------
(***************************************************************************)
(* Reading.                                                                *)
(***************************************************************************)

(* find returns the place of what it finds.                                *)
LEMMA FirstIsThere ==
  ASSUME NEW r \in Seq(Unit), NEW kind, Has(r, kind)
  PROVE  /\ First(r, kind) \in 1..Len(r)
         /\ r[First(r, kind)].kind = kind
         /\ \A j \in 1..(First(r, kind) - 1) : r[j].kind # kind
<1> DEFINE Places == {i \in 1..Len(r) : r[i].kind = kind}
<1>1. Places \subseteq Nat /\ Places # {}
  BY DEF Has
<1>2. PICK i \in Places : \A j \in Places : ~ (<<j, i>> \in OpToRel(<, Nat))
  BY <1>1, WFMin, NatLessThanWellFounded
<1>3. \A j \in Places : ~ (j < i)
  BY <1>1, <1>2 DEF OpToRel
<1>4. \A j \in 1..(i - 1) : r[j].kind # kind
  <2> SUFFICES ASSUME NEW j \in 1..(i - 1), r[j].kind = kind
               PROVE  FALSE
    OBVIOUS
  <2>1. Len(r) \in Nat /\ i \in 1..Len(r)
    OBVIOUS
  <2>2. j \in Places /\ j < i
    BY <2>1
  <2> QED
    BY <2>2, <1>3
<1>5. i \in 1..Len(r) /\ r[i].kind = kind
  OBVIOUS
<1> HIDE DEF Places
<1> QED
  BY <1>4, <1>5 DEF First

(* The body is a part of what was read.                                    *)
LEMMA BodyType ==
  ASSUME NEW r \in Seq(Unit), HeaderEnds(r)
  PROVE  Body(r) \in Seq(Unit)
<1>1. First(r, "end") \in 1..Len(r)
  BY FirstIsThere DEF HeaderEnds
<1>2. Len(r) \in Nat /\ \A i \in 1..Len(r) : r[i] \in Unit
  OBVIOUS
<1> DEFINE m == First(r, "end") + 1
<1>3. m \in Int /\ \A i \in m..Len(r) : r[i] \in Unit
  BY <1>1, <1>2
<1> HIDE DEF m
<1>4. SubSeq(r, m, Len(r)) \in Seq(Unit)
  BY <1>2, <1>3, SubSeqProperties
<1> QED
  BY <1>4 DEF Body, m

(* The conversion to unsigned int leaves a number of that type.            *)
LEMMA PostSizeType ==
  ASSUME NEW r \in Seq(Unit), Has(r, "length")
  PROVE  PostSize(r) \in 0..(UINT - 1)
<1>1. First(r, "length") \in 1..Len(r)
  BY FirstIsThere
<1>2. r[First(r, "length")] \in Unit
  BY <1>1
<1>3. \A u \in Unit : u.n \in Int
  BY DEF Unit
<1>4. Declared(r) \in Int
  BY <1>2, <1>3 DEF Declared
<1> QED
  BY <1>4, RequestAssumption DEF PostSize

(* What a read adds to a request leaves one, with something in it.         *)
LEMMA ChunkType ==
  ASSUME TypeOK, NEW c \in Conn, NEW k \in 1..Len(stream[c]), pos[c] + k <= Len(stream[c]),
         NEW s \in Seq(Unit)
  PROVE  s \o Chunk(c, k) \in Seq(Unit) /\ s \o Chunk(c, k) # << >>
<1>1. stream[c] \in Seq(Unit) /\ pos[c] \in 0..Len(stream[c]) /\ Len(stream[c]) \in Nat
  BY DEF TypeOK
<1> DEFINE m == pos[c] + 1
           n == pos[c] + k
<1>2. m \in Int /\ n \in Int /\ m <= n /\ n <= Len(stream[c]) /\ 1 <= m
  BY <1>1
<1>3. \A i \in m..n : stream[c][i] \in Unit
  BY <1>1, <1>2
<1> HIDE DEF m, n
<1>4. SubSeq(stream[c], m, n) \in Seq(Unit) /\ Len(SubSeq(stream[c], m, n)) = n - m + 1
  BY <1>2, <1>3, SubSeqProperties
<1>5. Chunk(c, k) \in Seq(Unit) /\ Len(Chunk(c, k)) > 0
  BY <1>2, <1>4 DEF Chunk, m, n
<1> QED
  BY <1>5

(* The first unit of a request has the path and the number of it.          *)
LEMMA FirstUnit ==
  ASSUME NEW r \in Seq(Unit), r # << >>
  PROVE  PathOf(r) \in Path /\ IdOf(r) \in Id
<1>1. r[1] \in Unit
  OBVIOUS
<1> QED
  BY <1>1 DEF PathOf, IdOf, Unit

-----------------------------------------------------------------------------
(***************************************************************************)
(* Who has a connection.                                                   *)
(***************************************************************************)

(* Nobody's connections change hands.                                      *)
LEMMA HoldersStay ==
  ASSUME OneHolder, serves' = serves, q_' = q_,
         \A c \in Conn : Pushing(c)' <=> Pushing(c),
         \A c \in Conn : io'[c] = "none" <=> io[c] = "none",
         \A c \in Conn : io[c] = "none" => threaded_'[c] /\ state_'[c] = "processing"
  PROVE  OneHolder'
<1>1. \A c \in Conn, t \in Tid : (Queued(c, t)' <=> Queued(c, t)) /\ (Holds(t, c)' <=> Holds(t, c))
  BY DEF Queued, Holds
<1> QED
  BY <1>1 DEF OneHolder

(* The network thread takes a connection that was waiting for a read to    *)
(* push_to_threadpool.                                                     *)
LEMMA HoldersSwitch ==
  ASSUME OneHolder, serves' = serves, q_' = q_, NEW c \in Conn,
         net.pc = "run", net'.pc # "run", net'.conn = c,
         io[c] # "none", io'[c] = "none", threaded_'[c], state_'[c] = "processing",
         \A d \in Conn \ {c} : /\ io'[d] = io[d] /\ threaded_'[d] = threaded_[d]
                               /\ state_'[d] = state_[d]
  PROVE  OneHolder'
<1>1. \A d \in Conn, t \in Tid : (Queued(d, t)' <=> Queued(d, t)) /\ (Holds(t, d)' <=> Holds(t, d))
  BY DEF Queued, Holds
<1>2. \A d \in Conn : (Pushing(d)' <=> d = c) /\ ~ Pushing(d)
  BY DEF Pushing
<1>3. \A t \in Tid : ~ Holds(t, c)
  BY DEF OneHolder
<1> QED
  BY <1>1, <1>2, <1>3 DEF OneHolder

(* The network thread puts the connection it has into a queue.             *)
LEMMA HoldersPush ==
  ASSUME OneHolder, NEW c \in Conn, NEW t \in Tid, net.pc # "run", net.conn = c, net'.pc = "run",
         q_ \in [Tid -> Seq(Conn)], q_' = [q_ EXCEPT ![t] = Append(@, c)],
         UNCHANGED <<serves, io, threaded_, state_>>
  PROVE  OneHolder'
<1>1. Pushing(c) /\ \A d \in Conn : ~ Pushing(d)' /\ (d # c => ~ Pushing(d))
  BY DEF Pushing
<1>2. io[c] = "none" /\ \A u \in Tid : ~ Holds(u, c)
  BY <1>1 DEF OneHolder
<1>3. /\ Len(q_'[t]) = Len(q_[t]) + 1 /\ q_'[t][Len(q_[t]) + 1] = c
      /\ \A i \in 1..Len(q_[t]) : q_'[t][i] = q_[t][i]
      /\ \A u \in Tid \ {t} : q_'[u] = q_[u]
      /\ Len(q_[t]) \in Nat
  OBVIOUS
<1>4. \A d \in Conn, u \in Tid : Queued(d, u)' <=> Queued(d, u) \/ (d = c /\ u = t)
  <2> SUFFICES ASSUME NEW d \in Conn, NEW u \in Tid
               PROVE  Queued(d, u)' <=> Queued(d, u) \/ (d = c /\ u = t)
    OBVIOUS
  <2>1. CASE u # t
    BY <2>1, <1>3 DEF Queued
  <2>2. CASE u = t
    BY <2>2, <1>3 DEF Queued
  <2> QED
    BY <2>1, <2>2
<1>5. \A d \in Conn, u \in Tid : Holds(u, d)' <=> Holds(u, d) \/ (d = c /\ u = t)
  BY <1>4 DEF Holds
<1>6. \A d \in Conn, u \in Tid : \A i, j \in 1..Len(q_'[u]) : q_'[u][i] = d /\ q_'[u][j] = d => i = j
  <2> SUFFICES ASSUME NEW d \in Conn, NEW u \in Tid
               PROVE  \A i, j \in 1..Len(q_'[u]) : q_'[u][i] = d /\ q_'[u][j] = d => i = j
    OBVIOUS
  <2> SUFFICES ASSUME NEW i \in 1..Len(q_'[u]), NEW j \in 1..Len(q_'[u]),
                      q_'[u][i] = d, q_'[u][j] = d
               PROVE  i = j
    OBVIOUS
  <2>1. CASE u # t
    BY <2>1, <1>3 DEF OneHolder
  <2>2. CASE u = t /\ d # c
    BY <2>2, <1>3 DEF OneHolder
  <2>3. CASE u = t /\ d = c
    <3>1. ~ Queued(c, t)
      BY <1>2 DEF Holds
    <3> QED
      BY <3>1, <2>3, <1>3 DEF Queued
  <2> QED
    BY <2>1, <2>2, <2>3
<1>7. \A d \in Conn, u \in Tid : ~ (serves'[u] = d /\ Queued(d, u)')
  BY <1>2, <1>4 DEF OneHolder, Holds
<1> QED
  BY <1>1, <1>2, <1>5, <1>6, <1>7 DEF OneHolder

(* A pool thread takes the first connection of its queue.                  *)
LEMMA HoldersPop ==
  ASSUME OneHolder, NEW t \in Tid, q_ \in [Tid -> Seq(Conn)], serves \in [Tid -> Conn \cup {NoConn}],
         serves[t] = NoConn, q_[t] # << >>, serves' = [serves EXCEPT ![t] = Head(q_[t])],
         q_' = [q_ EXCEPT ![t] = Tail(@)], UNCHANGED <<net, io, threaded_, state_>>
  PROVE  OneHolder'
<1> DEFINE c == Head(q_[t])
<1>1. /\ c \in Conn /\ c = q_[t][1] /\ Len(q_[t]) \in Nat \ {0}
      /\ Len(q_'[t]) = Len(q_[t]) - 1
      /\ \A i \in 1..(Len(q_[t]) - 1) : q_'[t][i] = q_[t][i + 1]
      /\ \A u \in Tid \ {t} : q_'[u] = q_[u] /\ serves'[u] = serves[u]
      /\ serves'[t] = c
  BY HeadTailProperties
<1> HIDE DEF c
<1>2. \A d \in Conn : Queued(d, t)' <=> Queued(d, t) /\ d # c
  <2> SUFFICES ASSUME NEW d \in Conn
               PROVE  Queued(d, t)' <=> Queued(d, t) /\ d # c
    OBVIOUS
  <2>1. ASSUME Queued(d, t)' PROVE Queued(d, t) /\ d # c
    <3>1. PICK i \in 1..Len(q_'[t]) : q_'[t][i] = d
      BY <2>1 DEF Queued
    <3>2. i + 1 \in 1..Len(q_[t]) /\ 1 \in 1..Len(q_[t]) /\ q_[t][i + 1] = d /\ i + 1 # 1
      BY <3>1, <1>1
    <3> QED
      BY <3>2, <1>1 DEF Queued, OneHolder
  <2>2. ASSUME Queued(d, t), d # c PROVE Queued(d, t)'
    <3>1. PICK i \in 1..Len(q_[t]) : q_[t][i] = d
      BY <2>2 DEF Queued
    <3>2. i # 1
      BY <3>1, <2>2, <1>1
    <3>3. i - 1 \in 1..Len(q_'[t]) /\ q_'[t][i - 1] = d
      BY <3>1, <3>2, <1>1
    <3> QED
      BY <3>3 DEF Queued
  <2> QED
    BY <2>1, <2>2
<1>3. \A d \in Conn, u \in Tid \ {t} : Queued(d, u)' <=> Queued(d, u)
  BY <1>1 DEF Queued
<1>4. Queued(c, t)
  BY <1>1 DEF Queued
<1>5. \A d \in Conn, u \in Tid : Holds(u, d)' <=> Holds(u, d)
  <2> SUFFICES ASSUME NEW d \in Conn, NEW u \in Tid
               PROVE  Holds(u, d)' <=> Holds(u, d)
    OBVIOUS
  <2>1. CASE u # t
    BY <2>1, <1>1, <1>3 DEF Holds
  <2>2. CASE u = t
    <3>1. serves[t] # d
      BY ServerAssumption
    <3> QED
      BY <2>2, <3>1, <1>1, <1>2, <1>4 DEF Holds
  <2> QED
    BY <2>1, <2>2
<1>6. \A d \in Conn, u \in Tid : ~ (serves'[u] = d /\ Queued(d, u)')
  BY <1>1, <1>2, <1>3 DEF OneHolder
<1>7. \A d \in Conn, u \in Tid : \A i, j \in 1..Len(q_'[u]) : q_'[u][i] = d /\ q_'[u][j] = d => i = j
  <2> SUFFICES ASSUME NEW d \in Conn, NEW u \in Tid
               PROVE  \A i, j \in 1..Len(q_'[u]) : q_'[u][i] = d /\ q_'[u][j] = d => i = j
    OBVIOUS
  <2> SUFFICES ASSUME NEW i \in 1..Len(q_'[u]), NEW j \in 1..Len(q_'[u]),
                      q_'[u][i] = d, q_'[u][j] = d
               PROVE  i = j
    OBVIOUS
  <2>1. CASE u # t
    BY <2>1, <1>1 DEF OneHolder
  <2>2. CASE u = t
    <3>1. /\ i + 1 \in 1..Len(q_[t]) /\ q_[t][i + 1] = d
          /\ j + 1 \in 1..Len(q_[t]) /\ q_[t][j + 1] = d
      BY <2>2, <1>1
    <3>2. i + 1 = j + 1
      BY <3>1 DEF OneHolder
    <3> QED
      BY <3>2
  <2> QED
    BY <2>1, <2>2
<1>8. \A d \in Conn : Pushing(d)' <=> Pushing(d)
  BY DEF Pushing
<1> QED
  BY <1>5, <1>6, <1>7, <1>8 DEF OneHolder

(* A pool thread is done with its connection.                              *)
LEMMA HoldersDone ==
  ASSUME OneHolder, NEW t \in Tid, NEW c \in Conn, serves[t] = c,
         serves \in [Tid -> Conn \cup {NoConn}], serves' = [serves EXCEPT ![t] = NoConn],
         io'[c] # "none", \A d \in Conn \ {c} : io'[d] = io[d],
         UNCHANGED <<net, q_, threaded_, state_>>
  PROVE  OneHolder'
<1>1. \A d \in Conn, u \in Tid : Queued(d, u)' <=> Queued(d, u)
  BY DEF Queued
<1>2. Holds(t, c) /\ ~ Queued(c, t) /\ ~ Pushing(c) /\ \A u \in Tid \ {t} : ~ Holds(u, c)
  BY DEF OneHolder, Holds
<1>3. \A d \in Conn, u \in Tid : Holds(u, d)' <=> Holds(u, d) /\ d # c
  <2> SUFFICES ASSUME NEW d \in Conn, NEW u \in Tid
               PROVE  Holds(u, d)' <=> Holds(u, d) /\ d # c
    OBVIOUS
  <2>1. CASE u # t
    BY <2>1, <1>1, <1>2 DEF Holds
  <2>2. CASE u = t
    <3>1. serves'[t] # d
      BY ServerAssumption
    <3> QED
      BY <2>2, <3>1, <1>1, <1>2 DEF Holds
  <2> QED
    BY <2>1, <2>2
<1>4. \A d \in Conn : Pushing(d)' <=> Pushing(d)
  BY DEF Pushing
<1>5. \A d \in Conn, u \in Tid : serves'[u] = d => serves[u] = d
  BY ServerAssumption
<1> QED
  BY <1>1, <1>2, <1>3, <1>4, <1>5 DEF OneHolder

-----------------------------------------------------------------------------
(***************************************************************************)
(* The initial state and the steps.                                        *)
(***************************************************************************)

LEMMA InitIInv == Init => IInv
<1> SUFFICES ASSUME Init PROVE IInv
  OBVIOUS
<1>1. TypeOK
  <2>1. stream \in [Conn -> Seq(Unit)]
    BY ServerAssumption DEF Init
  <2>2. \A c \in Conn : pos[c] \in 0..Len(stream[c])
    BY <2>1 DEF Init
  <2> QED
    BY <2>1, <2>2, RequestAssumption, ServerAssumption
    DEF Init, TypeOK, Running, Tid, NONE, HTTP_SWITCH_THREAD, HTTP_END
<1>2. OneHolder
  <2>1. \A c \in Conn, t \in Tid : ~ Holds(t, c) /\ ~ Queued(c, t)
    BY ServerAssumption DEF Init, Holds, Queued
  <2>2. \A c \in Conn : ~ Pushing(c)
    BY DEF Init, Running, Pushing
  <2>3. \A t \in Tid : Len(q_[t]) = 0
    BY DEF Init
  <2> QED
    BY <2>1, <2>2, <2>3 DEF Init, OneHolder
<1>3. ServeInv /\ NetInv /\ ReadInv
  BY DEF Init, ServeInv, NetInv, ReadInv, Running
<1> QED
  BY <1>1, <1>2, <1>3 DEF IInv

(* begin_response, whatever the handler returned.                          *)
LEMMA ResponseType ==
  ASSUME TypeOK, NEW c \in Conn, NEW ret \in Int, NEW thread \in {"net", "pool"},
         BeginResponse(c, ret, thread)
  PROVE  /\ http_ret_' \in [Conn -> {HTTP_SWITCH_THREAD} \cup 0..(HTTP_END - 1)]
         /\ http_ret_'[c] \in 0..(HTTP_END - 1)
         /\ \A d \in Conn \ {c} : http_ret_'[d] = http_ret_[d]
         /\ by' \in [Conn -> {"net", "pool"}]
         /\ io' = [io EXCEPT ![c] = "write"]
<1>1. (IF ret < 0 \/ ret >= HTTP_END THEN HTTP_503 ELSE ret) \in 0..(HTTP_END - 1)
  BY DEF HTTP_END, HTTP_503
<1> QED
  BY <1>1 DEF BeginResponse, TypeOK

(* process_request on the network thread, either way.                      *)
LEMMA ProcessOnNetType ==
  ASSUME TypeOK, NEW c \in Conn, NEW r \in Seq(Unit), r # << >>, ProcessOnNet(c, r)
  PROVE  /\ taken' \in [Conn -> Id \cup {0}]
         /\ http_ret_' \in [Conn -> {HTTP_SWITCH_THREAD} \cup 0..(HTTP_END - 1)]
         /\ \A d \in Conn \ {c} : http_ret_'[d] = http_ret_[d]
         /\ by' \in [Conn -> {"net", "pool"}]
         /\ \/ /\ io' = [io EXCEPT ![c] = "write"] /\ UNCHANGED <<threaded_, net>>
               /\ http_ret_'[c] \in 0..(HTTP_END - 1)
            \/ /\ io' = [io EXCEPT ![c] = "none"]
               /\ threaded_' = [threaded_ EXCEPT ![c] = TRUE]
               /\ net' = [pc |-> "scan", conn |-> c, i |-> 0, choice |-> NONE]
<1>1. taken' \in [Conn -> Id \cup {0}]
  BY FirstUnit DEF ProcessOnNet, TypeOK
<1>2. PathOf(r) \in Path /\ threaded_[c] \in BOOLEAN
  BY FirstUnit DEF TypeOK
<1>3. Handler[<<PathOf(r), threaded_[c]>>] \subseteq Int
  BY <1>2, ServerAssumption
<1>4. PICK ret \in Handler[<<PathOf(r), threaded_[c]>>] :
       \/ /\ ret # HTTP_SWITCH_THREAD
          /\ BeginResponse(c, ret, "net")
          /\ UNCHANGED <<threaded_, net>>
       \/ /\ ret = HTTP_SWITCH_THREAD /\ threaded_[c]
          /\ BeginResponse(c, HTTP_508, "net")
          /\ UNCHANGED <<threaded_, net>>
       \/ /\ ret = HTTP_SWITCH_THREAD /\ ~ threaded_[c]
          /\ threaded_' = [threaded_ EXCEPT ![c] = TRUE]
          /\ net' = [pc |-> "scan", conn |-> c, i |-> 0, choice |-> NONE]
          /\ http_ret_' = [http_ret_ EXCEPT ![c] = ret]
          /\ io' = [io EXCEPT ![c] = "none"]
          /\ UNCHANGED by
  BY DEF ProcessOnNet
<1>5. CASE BeginResponse(c, ret, "net") /\ UNCHANGED <<threaded_, net>>
  BY <1>1, <1>3, <1>5, ResponseType
<1>6. CASE BeginResponse(c, HTTP_508, "net") /\ UNCHANGED <<threaded_, net>>
  <2>1. HTTP_508 \in Int
    BY DEF HTTP_508
  <2> QED
    BY <1>1, <1>6, <2>1, ResponseType
<1>7. CASE /\ ret = HTTP_SWITCH_THREAD
           /\ threaded_' = [threaded_ EXCEPT ![c] = TRUE]
           /\ net' = [pc |-> "scan", conn |-> c, i |-> 0, choice |-> NONE]
           /\ http_ret_' = [http_ret_ EXCEPT ![c] = ret]
           /\ io' = [io EXCEPT ![c] = "none"]
           /\ UNCHANGED by
  BY <1>1, <1>7 DEF TypeOK
<1> QED
  BY <1>4, <1>5, <1>6, <1>7

(* A callback that has read a whole request.                               *)
LEMMA TakenUp ==
  ASSUME IInv, NEW c \in Conn, Dispatch, io[c] = "read", NEW r \in Seq(Unit), r # << >>,
         ProcessOnNet(c, r), request_' = [request_ EXCEPT ![c] = r],
         state_' = [state_ EXCEPT ![c] = "processing"],
         \A d \in Conn : pos'[d] \in 0..Len(stream'[d]), post_' \in [Conn -> Seq(Unit)],
         postsize_' \in [Conn -> 0..(UINT - 1)],
         UNCHANGED <<stream, shut, replied, threadnum_, q_, worker, serves>>
  PROVE  IInv'
<1> USE DEF IInv
<1>1. net.pc = "run"
  BY DEF Dispatch
<1>2. /\ request_ \in [Conn -> Seq(Unit)] /\ io \in [Conn -> {"accept", "read", "write", "none", "closed"}]
      /\ state_ \in [Conn -> {"header", "post", "processing"}] /\ threaded_ \in [Conn -> BOOLEAN]
  BY DEF TypeOK
<1>3. /\ request_' \in [Conn -> Seq(Unit)] /\ request_'[c] = r
      /\ state_' \in [Conn -> {"header", "post", "processing"}] /\ state_'[c] = "processing"
      /\ \A d \in Conn \ {c} : request_'[d] = request_[d] /\ state_'[d] = state_[d]
  BY <1>2
<1> DEFINE Ready(d) == io'[d] = "write" => http_ret_'[d] \in 0..(HTTP_END - 1)
<1>6. \A d \in Conn : Ready(d)
  BY <1>2, ProcessOnNetType DEF ReadInv
<1> HIDE DEF Ready
<1>4. CASE io' = [io EXCEPT ![c] = "write"] /\ UNCHANGED <<threaded_, net>>
  <2>1. TypeOK'
    BY <1>3, <1>4, ProcessOnNetType DEF TypeOK
  <2>2. \A d \in Conn : io'[d] = "none" <=> io[d] = "none"
    BY <1>2, <1>4
  <2>3. \A d \in Conn : io[d] = "none" => threaded_'[d] /\ state_'[d] = "processing"
    BY <1>3, <1>4 DEF OneHolder
  <2>4. OneHolder'
    BY <1>4, <2>2, <2>3, HoldersStay DEF Pushing
  <2>5. ReadInv'
    BY <1>2, <1>3, <1>4, <1>6 DEF ReadInv, Ready
  <2> QED
    BY <2>1, <2>4, <2>5, <1>4 DEF ServeInv, NetInv
<1>5. CASE /\ io' = [io EXCEPT ![c] = "none"]
           /\ threaded_' = [threaded_ EXCEPT ![c] = TRUE]
           /\ net' = [pc |-> "scan", conn |-> c, i |-> 0, choice |-> NONE]
  <2>1. net' \in [pc : {"run", "scan", "push"}, conn : Conn \cup {NoConn},
                  i : 0..MAX_THREAD_SIZE, choice : {NONE} \cup Tid]
    BY <1>5, ServerAssumption
  <2>2. net'.choice < threadnum_
    BY <1>5 DEF TypeOK, NONE
  <2>3. io' \in [Conn -> {"accept", "read", "write", "none", "closed"}] /\ threaded_' \in [Conn -> BOOLEAN]
    BY <1>2, <1>5
  <2>4. TypeOK'
    BY <1>3, <1>5, <2>1, <2>2, <2>3, ProcessOnNetType DEF TypeOK
  <2>5. OneHolder'
    BY <1>1, <1>2, <1>3, <1>5, HoldersSwitch
  <2>6. ReadInv'
    BY <1>2, <1>3, <1>5, <1>6 DEF ReadInv, Ready
  <2> QED
    BY <2>4, <2>5, <2>6, <1>5 DEF ServeInv, NetInv
<1> QED
  BY <1>4, <1>5, ProcessOnNetType

LEMMA AcceptStep == ASSUME IInv, NEW c \in Conn, Accept(c) \/ ReadError(c) PROVE IInv'
<1> USE DEF IInv
<1>1. /\ UNCHANGED <<stream, pos, shut, state_, threaded_, http_ret_, request_, post_,
                     postsize_, by, taken, replied, net, threadnum_, q_, worker, serves>>
      /\ io[c] \in {"accept", "read"}
      /\ \E next \in {"read", "closed"} : io' = [io EXCEPT ![c] = next]
  BY DEF Accept, ReadError, pool_vars
<1>2. TypeOK'
  BY <1>1 DEF TypeOK
<1>3. OneHolder'
  <2>1. \A d \in Conn : io'[d] = "none" <=> io[d] = "none"
    BY <1>1 DEF TypeOK
  <2> QED
    BY <1>1, <2>1, HoldersStay DEF Pushing, OneHolder
<1>4. ServeInv' /\ NetInv' /\ ReadInv'
  BY <1>1 DEF ServeInv, NetInv, ReadInv, TypeOK
<1> QED
  BY <1>2, <1>3, <1>4

LEMMA ReadHeaderStep == ASSUME IInv, NEW c \in Conn, ReadHeader(c) PROVE IInv'
<1> USE DEF IInv
<1>1. PICK k \in 1..Len(stream[c]) :
        LET r == request_[c] \o Chunk(c, k) IN
        /\ Arrived(c, k)
        /\ request_' = [request_ EXCEPT ![c] = r]
        /\ post_' = [post_ EXCEPT ![c] = IF EntersPost(r) THEN Body(r) ELSE @]
        /\ postsize_' = [postsize_ EXCEPT ![c] = IF EntersPost(r) THEN PostSize(r) ELSE @]
        /\ \/ /\ ParseHeader(r) = -1
              /\ io' = [io EXCEPT ![c] = "closed"]
              /\ UNCHANGED <<state_, threaded_, http_ret_, by, taken, net>>
           \/ /\ ParseHeader(r) = 1
              /\ state_' = [state_ EXCEPT ![c] = IF EntersPost(r) THEN "post" ELSE @]
              /\ UNCHANGED <<io, threaded_, http_ret_, by, taken, net>>
           \/ /\ ParseHeader(r) = 0
              /\ state_' = [state_ EXCEPT ![c] = "processing"]
              /\ ProcessOnNet(c, r)
  BY DEF ReadHeader
<1>2. /\ UNCHANGED <<stream, shut, replied, threadnum_, q_, worker, serves>>
      /\ Dispatch /\ io[c] = "read"
  BY DEF ReadHeader
<1> DEFINE r == request_[c] \o Chunk(c, k)
<1>3. request_[c] \in Seq(Unit)
  BY DEF TypeOK
<1>4. r \in Seq(Unit) /\ r # << >>
  BY <1>1, <1>3, ChunkType DEF Arrived
<1>5. \A d \in Conn : pos'[d] \in 0..Len(stream'[d])
  BY <1>1, <1>2 DEF Arrived, TypeOK
<1> DEFINE p == IF EntersPost(r) THEN Body(r) ELSE post_[c]
           n == IF EntersPost(r) THEN PostSize(r) ELSE postsize_[c]
<1>6. p \in Seq(Unit) /\ n \in 0..(UINT - 1)
  <2> HIDE DEF r
  <2> QED
    BY <1>4, BodyType, PostSizeType DEF EntersPost, IsPost, TypeOK
<1>7. request_' = [request_ EXCEPT ![c] = r] /\ post_' = [post_ EXCEPT ![c] = p]
      /\ postsize_' = [postsize_ EXCEPT ![c] = n]
  BY <1>1
<1> HIDE DEF p, n
<1>8. post_' \in [Conn -> Seq(Unit)] /\ postsize_' \in [Conn -> 0..(UINT - 1)]
  BY <1>6, <1>7 DEF TypeOK
<1>9. CASE /\ io' = [io EXCEPT ![c] = "closed"]
           /\ UNCHANGED <<state_, threaded_, http_ret_, by, taken, net>>
  <2> HIDE DEF r
  <2>1. TypeOK'
    BY <1>2, <1>4, <1>5, <1>7, <1>8, <1>9 DEF TypeOK
  <2>2. OneHolder'
    <3>1. \A d \in Conn : io'[d] = "none" <=> io[d] = "none"
      BY <1>2, <1>9 DEF TypeOK
    <3> QED
      BY <1>2, <1>9, <3>1, HoldersStay DEF Pushing, OneHolder
  <2>3. ServeInv' /\ NetInv' /\ ReadInv'
    BY <1>2, <1>4, <1>7, <1>9 DEF ServeInv, NetInv, ReadInv, TypeOK
  <2> QED
    BY <2>1, <2>2, <2>3
<1>10. CASE /\ state_' = [state_ EXCEPT ![c] = IF EntersPost(r) THEN "post" ELSE @]
            /\ UNCHANGED <<io, threaded_, http_ret_, by, taken, net>>
  <2> HIDE DEF r
  <2>1. TypeOK'
    BY <1>2, <1>4, <1>5, <1>7, <1>8, <1>10 DEF TypeOK
  <2>2. OneHolder'
    <3>1. \A d \in Conn : io[d] = "none" => state_'[d] = "processing" /\ threaded_[d]
      BY <1>2, <1>10 DEF TypeOK, OneHolder
    <3> QED
      BY <1>2, <1>10, <3>1, HoldersStay DEF Pushing
  <2>3. ServeInv' /\ NetInv' /\ ReadInv'
    BY <1>2, <1>4, <1>7, <1>10 DEF ServeInv, NetInv, ReadInv, TypeOK
  <2> QED
    BY <2>1, <2>2, <2>3
<1>11. CASE state_' = [state_ EXCEPT ![c] = "processing"] /\ ProcessOnNet(c, r)
  <2> HIDE DEF r
  <2> QED
    BY <1>2, <1>4, <1>5, <1>7, <1>8, <1>11, TakenUp
<1> QED
  BY <1>1, <1>9, <1>10, <1>11

LEMMA ReadPostStep == ASSUME IInv, NEW c \in Conn, ReadPost(c) PROVE IInv'
<1> USE DEF IInv
<1>1. PICK k \in 1..Len(stream[c]) :
        LET p == post_[c] \o Chunk(c, k) IN
        /\ Arrived(c, k)
        /\ post_' = [post_ EXCEPT ![c] = p]
        /\ \/ /\ Len(p) < postsize_[c]
              /\ UNCHANGED <<state_, io, threaded_, http_ret_, by, taken, net>>
           \/ /\ Len(p) >= postsize_[c]
              /\ state_' = [state_ EXCEPT ![c] = "processing"]
              /\ ProcessOnNet(c, request_[c])
  BY DEF ReadPost
<1>2. /\ UNCHANGED <<stream, shut, request_, postsize_, replied, threadnum_, q_, worker, serves>>
      /\ Dispatch /\ io[c] = "read" /\ state_[c] = "post"
  BY DEF ReadPost
<1> DEFINE p == post_[c] \o Chunk(c, k)
<1>3. p \in Seq(Unit)
  BY <1>1, ChunkType DEF Arrived, TypeOK
<1>4. post_' = [post_ EXCEPT ![c] = p]
  BY <1>1
<1> HIDE DEF p
<1>5. post_' \in [Conn -> Seq(Unit)] /\ \A d \in Conn : pos'[d] \in 0..Len(stream'[d])
  <2>1. post_' \in [Conn -> Seq(Unit)]
    BY <1>3, <1>4 DEF TypeOK
  <2>2. \A d \in Conn : pos'[d] \in 0..Len(stream'[d])
    BY <1>1, <1>2 DEF Arrived, TypeOK
  <2> QED
    BY <2>1, <2>2
<1>6. CASE UNCHANGED <<state_, io, threaded_, http_ret_, by, taken, net>>
  <2>1. TypeOK'
    BY <1>2, <1>5, <1>6 DEF TypeOK
  <2>2. OneHolder'
    BY <1>2, <1>6, HoldersStay DEF Pushing, OneHolder
  <2> QED
    BY <2>1, <2>2, <1>2, <1>6 DEF ServeInv, NetInv, ReadInv
<1>7. CASE state_' = [state_ EXCEPT ![c] = "processing"] /\ ProcessOnNet(c, request_[c])
  <2>1. request_[c] \in Seq(Unit) /\ request_[c] # << >> /\ request_' = [request_ EXCEPT ![c] = request_[c]]
    BY <1>2 DEF TypeOK, ReadInv
  <2>2. postsize_' \in [Conn -> 0..(UINT - 1)]
    BY <1>2 DEF TypeOK
  <2> QED
    BY <1>2, <1>5, <1>7, <2>1, <2>2, TakenUp
<1> QED
  BY <1>1, <1>6, <1>7

LEMMA HandleWriteStep == ASSUME IInv, NEW c \in Conn, HandleWrite(c) PROVE IInv'
<1> USE DEF IInv
<1> DEFINE d == [id |-> IdOf(request_[c]), code |-> http_ret_[c], by |-> by[c]]
<1>1. /\ io[c] = "write"
      /\ replied' = [replied EXCEPT ![c] = Append(@, d)] \/ UNCHANGED replied
      /\ shut' = [shut EXCEPT ![c] = TRUE]
      /\ request_' = [request_ EXCEPT ![c] = << >>]
      /\ post_' = [post_ EXCEPT ![c] = << >>]
      /\ postsize_' = [postsize_ EXCEPT ![c] = 0]
      /\ state_' = [state_ EXCEPT ![c] = "header"]
      /\ io' = [io EXCEPT ![c] = "read"]
      /\ UNCHANGED <<stream, pos, threaded_, http_ret_, by, taken, net, threadnum_, q_, worker, serves>>
  BY DEF HandleWrite, pool_vars
<1>2. request_[c] \in Seq(Unit) /\ request_[c] # << >>
  BY <1>1 DEF ReadInv, TypeOK
<1>3. d \in Reply
  BY <1>1, <1>2, FirstUnit DEF ReadInv, TypeOK, Reply
<1> HIDE DEF d
<1>4. replied' \in [Conn -> Seq(Reply)]
  <2>1. replied \in [Conn -> Seq(Reply)]
    BY DEF TypeOK
  <2>2. Append(replied[c], d) \in Seq(Reply)
    BY <1>3, <2>1
  <2>3. replied' = [replied EXCEPT ![c] = Append(replied[c], d)] \/ replied' = replied
    BY <1>1
  <2> QED
    BY <2>1, <2>2, <2>3
<1>5. 0 \in 0..(UINT - 1)
  BY RequestAssumption
<1>6. TypeOK'
  <2>1. /\ shut' \in [Conn -> BOOLEAN] /\ request_' \in [Conn -> Seq(Unit)]
        /\ post_' \in [Conn -> Seq(Unit)] /\ postsize_' \in [Conn -> 0..(UINT - 1)]
        /\ state_' \in [Conn -> {"header", "post", "processing"}]
        /\ io' \in [Conn -> {"accept", "read", "write", "none", "closed"}]
    BY <1>1, <1>5 DEF TypeOK
  <2> QED
    BY <1>1, <1>4, <2>1 DEF TypeOK
<1>7. OneHolder'
  <2>1. \A e \in Conn : io'[e] = "none" <=> io[e] = "none"
    BY <1>1 DEF TypeOK
  <2>2. \A e \in Conn : io[e] = "none" => state_'[e] = "processing" /\ threaded_[e]
    BY <1>1 DEF TypeOK, OneHolder
  <2> QED
    BY <1>1, <2>1, <2>2, HoldersStay DEF Pushing
<1>8. ServeInv' /\ NetInv' /\ ReadInv'
  BY <1>1 DEF ServeInv, NetInv, ReadInv, TypeOK
<1> QED
  BY <1>6, <1>7, <1>8

(* push_to_threadpool.                                                     *)
LEMMA ScanStep == ASSUME IInv, Scan PROVE IInv'
<1> USE DEF IInv
<1>1. /\ UNCHANGED <<stream, pos, io, shut, state_, threaded_, http_ret_, request_, post_,
                     postsize_, by, taken, replied, threadnum_, q_, worker, serves>>
      /\ net.pc = "scan" /\ net.i < threadnum_
  BY DEF Scan, conn_vars
<1>2. /\ net \in [pc : {"run", "scan", "push"}, conn : Conn \cup {NoConn},
                  i : 0..MAX_THREAD_SIZE, choice : {NONE} \cup Tid]
      /\ threadnum_ \in 0..MAX_THREAD_SIZE /\ MAX_THREAD_SIZE \in Nat
  BY ServerAssumption DEF TypeOK
<1>3. PICK n \in {net.i, net.choice} : net' = [net EXCEPT !.i = @ + 1, !.choice = n]
  BY DEF Scan
<1>4. n = NONE => n = net.i
  BY <1>3, <1>2 DEF Scan, NONE, Tid
<1>5. n # NONE
  BY <1>2, <1>4 DEF NONE
<1>6. n \in {NONE} \cup Tid /\ n < threadnum_ /\ net.i + 1 \in 0..MAX_THREAD_SIZE
  BY <1>1, <1>2, <1>3 DEF Tid, TypeOK
<1>7. net' \in [pc : {"run", "scan", "push"}, conn : Conn \cup {NoConn},
                i : 0..MAX_THREAD_SIZE, choice : {NONE} \cup Tid]
      /\ net'.pc = "scan" /\ net'.conn = net.conn /\ net'.choice = n
  BY <1>1, <1>2, <1>3, <1>6
<1>8. TypeOK'
  BY <1>1, <1>6, <1>7 DEF TypeOK
<1>9. OneHolder'
  BY <1>1, <1>7, HoldersStay DEF Pushing, OneHolder
<1> QED
  BY <1>1, <1>5, <1>7, <1>8, <1>9 DEF ServeInv, NetInv, ReadInv

LEMMA ChooseStep == ASSUME IInv, Choose PROVE IInv'
<1> USE DEF IInv
<1>1. /\ UNCHANGED <<stream, pos, io, shut, state_, threaded_, http_ret_, request_, post_,
                     postsize_, by, taken, replied, q_, serves>>
      /\ net.pc = "scan" /\ net.i >= threadnum_
  BY DEF Choose, conn_vars
<1>2. /\ net \in [pc : {"run", "scan", "push"}, conn : Conn \cup {NoConn},
                  i : 0..MAX_THREAD_SIZE, choice : {NONE} \cup Tid]
      /\ threadnum_ \in 0..MAX_THREAD_SIZE /\ MAX_THREAD_SIZE \in Nat \ {0}
      /\ worker \in [Tid -> {"none", "start", "loop", "process", "waiting", "woken"}]
  BY ServerAssumption DEF TypeOK
<1>3. CASE /\ threadnum_ < MAX_THREAD_SIZE
           /\ worker' = [worker EXCEPT ![threadnum_] = "start"]
           /\ threadnum_' = threadnum_ + 1
           /\ net' = [net EXCEPT !.pc = "push", !.choice = threadnum_]
  <2>1. threadnum_ \in Tid /\ worker[threadnum_] = "none"
    BY <1>2, <1>3 DEF Tid, TypeOK
  <2>2. net' \in [pc : {"run", "scan", "push"}, conn : Conn \cup {NoConn},
                  i : 0..MAX_THREAD_SIZE, choice : {NONE} \cup Tid]
        /\ net'.pc = "push" /\ net'.conn = net.conn /\ net'.choice = threadnum_
    BY <1>2, <1>3, <2>1
  <2>3. /\ worker' \in [Tid -> {"none", "start", "loop", "process", "waiting", "woken"}]
        /\ threadnum_' \in 0..MAX_THREAD_SIZE
        /\ \A t \in Tid : worker'[t] = "none" <=> t >= threadnum_'
    <3>1. worker' \in [Tid -> {"none", "start", "loop", "process", "waiting", "woken"}]
      BY <1>2, <1>3, <2>1
    <3>2. threadnum_' \in 0..MAX_THREAD_SIZE
      BY <1>2, <1>3
    <3>3. \A t \in Tid : worker'[t] = "none" <=> t >= threadnum_'
      <4>1. \A t \in Tid : worker[t] = "none" <=> t >= threadnum_
        BY DEF TypeOK
      <4> QED
        BY <1>2, <1>3, <2>1, <4>1 DEF Tid
    <3> QED
      BY <3>1, <3>2, <3>3
  <2>4. net'.choice < threadnum_' /\ net'.choice # NONE
    BY <1>2, <1>3, <2>2 DEF NONE
  <2>5. TypeOK'
    BY <1>1, <2>2, <2>3, <2>4 DEF TypeOK
  <2>6. OneHolder'
    BY <1>1, <2>2, HoldersStay DEF Pushing, OneHolder
  <2>7. ServeInv'
    BY <1>1, <1>2, <1>3, <2>1 DEF ServeInv
  <2> QED
    BY <1>1, <2>2, <2>5, <2>6, <2>7 DEF NetInv, ReadInv
<1>4. CASE /\ ~ (Crowded /\ threadnum_ < MAX_THREAD_SIZE)
           /\ net' = [net EXCEPT !.pc = "push"] /\ UNCHANGED <<worker, threadnum_>>
  <2>1. net' \in [pc : {"run", "scan", "push"}, conn : Conn \cup {NoConn},
                  i : 0..MAX_THREAD_SIZE, choice : {NONE} \cup Tid]
        /\ net'.pc = "push" /\ net'.conn = net.conn /\ net'.choice = net.choice
    BY <1>2, <1>4
  <2>2. net.choice # NONE
    BY <1>1, <1>2, <1>4 DEF Crowded, NetInv
  <2>3. TypeOK'
    BY <1>1, <1>4, <2>1, <2>2 DEF TypeOK
  <2>4. OneHolder'
    BY <1>1, <2>1, HoldersStay DEF Pushing, OneHolder
  <2> QED
    BY <1>1, <1>4, <2>1, <2>3, <2>4 DEF ServeInv, NetInv, ReadInv
<1> QED
  BY <1>3, <1>4 DEF Choose

LEMMA PushStep == ASSUME IInv, Push PROVE IInv'
<1> USE DEF IInv
<1> DEFINE t == net.choice
<1>1. /\ UNCHANGED <<stream, pos, io, shut, state_, threaded_, http_ret_, request_, post_,
                     postsize_, by, taken, replied, threadnum_, serves>>
      /\ net.pc = "push" /\ MutexFree(t)
      /\ q_' = [q_ EXCEPT ![t] = Append(@, net.conn)]
      /\ worker' = [worker EXCEPT ![t] = IF @ = "waiting" THEN "woken" ELSE @]
      /\ net' = Running
  BY DEF Push, conn_vars
<1>2. t \in Tid /\ net.conn \in Conn
  BY <1>1 DEF TypeOK, NetInv
<1>3. net' \in [pc : {"run", "scan", "push"}, conn : Conn \cup {NoConn},
                i : 0..MAX_THREAD_SIZE, choice : {NONE} \cup Tid]
      /\ net'.pc = "run" /\ net'.choice < threadnum_
  BY <1>1, ServerAssumption DEF Running, TypeOK, NONE
<1>4. /\ q_' \in [Tid -> Seq(Conn)]
      /\ worker' \in [Tid -> {"none", "start", "loop", "process", "waiting", "woken"}]
      /\ \A u \in Tid : /\ worker'[u] = "none" <=> worker[u] = "none"
                        /\ worker'[u] = "process" <=> worker[u] = "process"
  BY <1>1, <1>2 DEF TypeOK
<1>5. TypeOK'
  BY <1>1, <1>3, <1>4 DEF TypeOK
<1>6. OneHolder'
  BY <1>1, <1>2, <1>3, HoldersPush DEF TypeOK
<1>7. ServeInv'
  BY <1>1, <1>4 DEF ServeInv
<1> QED
  BY <1>1, <1>3, <1>5, <1>6, <1>7 DEF NetInv, ReadInv

(* thread_proc.                                                            *)
LEMMA WorkerStep ==
  ASSUME IInv, NEW t \in Tid, Lock(t) \/ Wait(t) \/ Wake(t) \/ Spurious(t)
  PROVE  IInv'
<1> USE DEF IInv
<1>1. /\ UNCHANGED <<stream, pos, io, shut, state_, threaded_, http_ret_, request_, post_,
                     postsize_, by, taken, replied, net, threadnum_, q_, serves>>
      /\ worker[t] \notin {"none", "process"}
      /\ \E w \in {"loop", "waiting", "start", "woken"} : worker' = [worker EXCEPT ![t] = w]
  BY DEF Lock, Wait, Wake, Spurious, conn_vars
<1>2. TypeOK'
  BY <1>1 DEF TypeOK
<1>3. OneHolder'
  BY <1>1, HoldersStay DEF Pushing, OneHolder
<1>4. ServeInv'
  BY <1>1 DEF ServeInv, TypeOK
<1> QED
  BY <1>1, <1>2, <1>3, <1>4 DEF NetInv, ReadInv

LEMMA PopStep == ASSUME IInv, NEW t \in Tid, Pop(t) PROVE IInv'
<1> USE DEF IInv
<1>1. /\ UNCHANGED <<stream, pos, io, shut, state_, threaded_, http_ret_, request_, post_,
                     postsize_, by, taken, replied, net, threadnum_>>
      /\ worker[t] = "loop" /\ q_[t] # << >>
      /\ serves' = [serves EXCEPT ![t] = Head(q_[t])]
      /\ q_' = [q_ EXCEPT ![t] = Tail(@)]
      /\ worker' = [worker EXCEPT ![t] = "process"]
  BY DEF Pop, conn_vars
<1>2. Head(q_[t]) \in Conn /\ Tail(q_[t]) \in Seq(Conn)
  BY <1>1, HeadTailProperties DEF TypeOK
<1>3. TypeOK'
  BY <1>1, <1>2 DEF TypeOK
<1>4. serves[t] = NoConn
  BY <1>1 DEF ServeInv
<1>5. OneHolder'
  BY <1>1, <1>4, HoldersPop DEF TypeOK
<1>6. ServeInv'
  BY <1>1, <1>2, ServerAssumption DEF ServeInv, TypeOK
<1> QED
  BY <1>1, <1>3, <1>5, <1>6 DEF NetInv, ReadInv

LEMMA ProcessStep == ASSUME IInv, NEW t \in Tid, Process(t) PROVE IInv'
<1> USE DEF IInv
<1> DEFINE c == serves[t]
<1>1. /\ UNCHANGED <<stream, pos, shut, state_, threaded_, request_, post_, postsize_,
                     taken, replied, net, threadnum_, q_>>
      /\ worker[t] = "process"
      /\ worker' = [worker EXCEPT ![t] = "loop"]
      /\ serves' = [serves EXCEPT ![t] = NoConn]
  BY DEF Process
<1>2. c \in Conn
  BY <1>1 DEF ServeInv, TypeOK
<1>3. io[c] = "none" /\ state_[c] = "processing"
  BY <1>2 DEF OneHolder, Holds
<1>4. PathOf(request_[c]) \in Path /\ threaded_[c] \in BOOLEAN
  BY <1>2, <1>3, FirstUnit DEF ReadInv, TypeOK
<1>5. PICK ret \in Int : BeginResponse(c, ret, "pool")
  <2>1. HTTP_508 \in Int
    BY DEF HTTP_508
  <2>2. Handler[<<PathOf(request_[c]), threaded_[c]>>] \subseteq Int
    BY <1>4, ServerAssumption
  <2> QED
    BY <2>1, <2>2 DEF Process
<1>6. /\ http_ret_' \in [Conn -> {HTTP_SWITCH_THREAD} \cup 0..(HTTP_END - 1)]
      /\ http_ret_'[c] \in 0..(HTTP_END - 1)
      /\ \A d \in Conn \ {c} : http_ret_'[d] = http_ret_[d]
      /\ by' \in [Conn -> {"net", "pool"}]
      /\ io' = [io EXCEPT ![c] = "write"]
  BY <1>2, <1>5, ResponseType
<1>7. /\ io' \in [Conn -> {"accept", "read", "write", "none", "closed"}]
      /\ io'[c] = "write" /\ \A d \in Conn \ {c} : io'[d] = io[d]
  BY <1>2, <1>6 DEF TypeOK
<1>8. TypeOK'
  <2>1. /\ worker' \in [Tid -> {"none", "start", "loop", "process", "waiting", "woken"}]
        /\ \A u \in Tid : worker'[u] = "none" <=> u >= threadnum_
    BY <1>1 DEF TypeOK
  <2>2. serves' \in [Tid -> Conn \cup {NoConn}]
    BY <1>1 DEF TypeOK
  <2> QED
    BY <1>1, <1>6, <1>7, <2>1, <2>2 DEF TypeOK
<1>9. OneHolder'
  BY <1>1, <1>2, <1>7, HoldersDone DEF TypeOK
<1>10. ServeInv'
  BY <1>1 DEF ServeInv, TypeOK
<1>11. ReadInv'
  BY <1>1, <1>2, <1>3, <1>6, <1>7 DEF ReadInv
<1> QED
  BY <1>1, <1>8, <1>9, <1>10, <1>11 DEF NetInv

LEMMA NextStep == IInv /\ [Next]_vars => IInv'
<1> SUFFICES ASSUME IInv, [Next]_vars PROVE IInv'
  OBVIOUS
<1>1. ASSUME NEW c \in Conn, Accept(c) \/ Callback(c) \/ ReadError(c)
      PROVE  IInv'
  BY <1>1, AcceptStep, ReadHeaderStep, ReadPostStep, HandleWriteStep DEF Callback
<1>2. CASE Scan \/ Choose \/ Push
  BY <1>2, ScanStep, ChooseStep, PushStep
<1>3. ASSUME NEW t \in Tid, Thread(t) \/ Spurious(t)
      PROVE  IInv'
  BY <1>3, WorkerStep, PopStep, ProcessStep DEF Thread
<1>4. CASE UNCHANGED vars
  BY <1>4 DEF vars, IInv, TypeOK, OneHolder, Pushing, Holds, Queued, ServeInv, NetInv, ReadInv
<1> QED
  BY <1>1, <1>2, <1>3, <1>4 DEF Next

(* What every step of a connection, the network thread and a pool thread   *)
(* leaves true.                                                            *)
THEOREM Invariance == Spec => []IInv
  BY InitIInv, NextStep, PTL DEF Spec

-----------------------------------------------------------------------------
(***************************************************************************)
(* The theorems.                                                           *)
(***************************************************************************)

(* The state has its type; push_to_threadpool never goes on with a queue   *)
(* without a thread or beyond the array threads_.                          *)
THEOREM TypeCorrect == Spec => []TypeOK
  BY Invariance, PTL DEF IInv

(* A connection is with one thread at a time, from the callback that takes *)
(* its request to the write of its reply.                                  *)
THEOREM HeldByOne == Spec => []OneHolder
  BY Invariance, PTL DEF IInv

(* No notification is lost: no pool thread waits with something in its     *)
(* queue.                                                                  *)
THEOREM WakeupsKept == Spec => []NoLostWakeup
<1>1. Init => NoLostWakeup
  BY DEF Init, NoLostWakeup
<1>2. TypeOK /\ NoLostWakeup /\ [Next]_vars => NoLostWakeup'
  <2> SUFFICES ASSUME TypeOK, NoLostWakeup, [Next]_vars PROVE NoLostWakeup'
    OBVIOUS
  <2> USE DEF NoLostWakeup
  <2>1. ASSUME NEW c \in Conn, Accept(c) \/ Callback(c) \/ ReadError(c)
        PROVE  NoLostWakeup'
    <3>1. UNCHANGED <<q_, worker>>
      BY <2>1 DEF Accept, Callback, ReadError, ReadHeader, ReadPost, HandleWrite, pool_vars
    <3> QED
      BY <3>1
  <2>2. CASE Scan
    BY <2>2 DEF Scan
  <2>3. CASE Choose
    BY <2>3 DEF Choose, TypeOK
  <2>4. CASE Push
    BY <2>4 DEF Push, TypeOK
  <2>5. ASSUME NEW t \in Tid, Thread(t) \/ Spurious(t)
        PROVE  NoLostWakeup'
    <3>1. q_ \in [Tid -> Seq(Conn)]
          /\ worker \in [Tid -> {"none", "start", "loop", "process", "waiting", "woken"}]
      BY DEF TypeOK
    <3>2. CASE Lock(t) \/ Wait(t) \/ Wake(t) \/ Spurious(t)
      BY <3>1, <3>2 DEF Lock, Wait, Wake, Spurious
    <3>3. CASE Pop(t)
      BY <3>1, <3>3 DEF Pop
    <3>4. CASE Process(t)
      BY <3>1, <3>4 DEF Process
    <3> QED
      BY <2>5, <3>2, <3>3, <3>4 DEF Thread
  <2>6. CASE UNCHANGED vars
    BY <2>6 DEF vars
  <2> QED
    BY <2>1, <2>2, <2>3, <2>4, <2>5, <2>6 DEF Next
<1> QED
  BY <1>1, <1>2, TypeCorrect, PTL DEF Spec

-----------------------------------------------------------------------------
(***************************************************************************)
(* What was read of a peer, what is made of it, and what is replied.       *)
(***************************************************************************)
Method == {"GET", "POST"}

(* The request of a connection is what the peer sent from a place b on,    *)
(* and the requests that begin there or later are still to be served.      *)
ReadsFrom(c, b) ==
  /\ b + Len(request_[c]) <= pos[c]
  /\ \A i \in 1..Len(request_[c]) : request_[c][i] = stream[c][b + i]
  /\ state_[c] = "header" => b + Len(request_[c]) = pos[c]
  /\ state_[c] # "header" => request_[c][1].kind \in Method
  /\ state_[c] = "processing" => taken[c] = IdOf(request_[c])
  /\ state_[c] # "processing" =>
       \A j \in (b + 1)..Len(stream[c]) : stream[c][j].kind \in Method => stream[c][j].id > taken[c]

(* The body of a POST is what the peer sent after its header.              *)
HasBody(c, b) ==
  /\ EntersPost(request_[c])
  /\ postsize_[c] = PostSize(request_[c])
  /\ post_[c] = SubSeq(stream[c], b + First(request_[c], "end") + 1, pos[c])

SegmentOK(c, b) ==
  /\ ReadsFrom(c, b)
  /\ state_[c] = "post" => HasBody(c, b)
  /\ state_[c] = "processing" /\ request_[c][1].kind = "POST" =>
       HasBody(c, b) /\ Len(post_[c]) >= postsize_[c]

SegmentInv ==
  /\ pos \in [Conn -> Nat]
  /\ \A c \in Conn : Numbered(stream[c]) /\ \E b \in 0..Len(stream[c]) : SegmentOK(c, b)

(* in_threadpool() tells the truth until the socket is shut down, and the  *)
(* code that is about to be sent is one the handler gave for it.           *)
FitOK(c) ==
  /\ threaded_[c] /\ state_[c] # "processing" => shut[c]
  /\ io[c] = "write" /\ ~ shut[c] =>
       http_ret_[c] \in Outcome(PathOf(request_[c]), by[c] = "pool")

FitInv == \A c \in Conn : FitOK(c)

(* What a read brings: the k units that follow those read so far.          *)
LEMMA ChunkUnits ==
  ASSUME TypeOK, NEW c \in Conn, NEW k \in 1..Len(stream[c]), pos[c] + k <= Len(stream[c])
  PROVE  /\ Chunk(c, k) \in Seq(Unit) /\ Len(Chunk(c, k)) = k
         /\ \A i \in 1..k : Chunk(c, k)[i] = stream[c][pos[c] + i]
<1>1. stream[c] \in Seq(Unit) /\ pos[c] \in 0..Len(stream[c]) /\ Len(stream[c]) \in Nat
  BY DEF TypeOK
<1> DEFINE m == pos[c] + 1
           n == pos[c] + k
<1>2. m \in Int /\ n \in Int /\ m <= n /\ n <= Len(stream[c]) /\ 1 <= m
  BY <1>1
<1>6. n - m + 1 = k
  BY <1>1
<1>3. \A i \in m..n : stream[c][i] \in Unit
  BY <1>1, <1>2
<1> HIDE DEF m, n
<1>4. /\ SubSeq(stream[c], m, n) \in Seq(Unit) /\ Len(SubSeq(stream[c], m, n)) = n - m + 1
      /\ \A i \in 1..(n - m + 1) : SubSeq(stream[c], m, n)[i] = stream[c][m + i - 1]
  BY <1>2, <1>3, SubSeqProperties
<1>5. \A i \in 1..k : m + i - 1 = pos[c] + i
  BY <1>1 DEF m
<1> QED
  BY <1>2, <1>4, <1>5, <1>6 DEF Chunk, m, n

(* A request that is read on is still what the peer sent from b on.        *)
LEMMA ReadsOn ==
  ASSUME TypeOK, NEW c \in Conn, NEW k \in 1..Len(stream[c]), pos[c] + k <= Len(stream[c]),
         NEW b \in 0..Len(stream[c]), NEW s \in Seq(Unit), b + Len(s) = pos[c],
         \A i \in 1..Len(s) : s[i] = stream[c][b + i]
  PROVE  /\ b + Len(s \o Chunk(c, k)) = pos[c] + k
         /\ \A i \in 1..Len(s \o Chunk(c, k)) : (s \o Chunk(c, k))[i] = stream[c][b + i]
<1> DEFINE d == Chunk(c, k)
<1>1. /\ d \in Seq(Unit) /\ Len(d) = k
      /\ \A i \in 1..k : d[i] = stream[c][pos[c] + i]
  BY ChunkUnits
<1> HIDE DEF d
<1>2. /\ Len(s \o d) = Len(s) + Len(d)
      /\ \A i \in 1..(Len(s) + Len(d)) : (s \o d)[i] = IF i <= Len(s) THEN s[i] ELSE d[i - Len(s)]
  <2>1. \A t \in Seq(Unit) :
          /\ Len(s \o t) = Len(s) + Len(t)
          /\ \A i \in 1..(Len(s) + Len(t)) : (s \o t)[i] = IF i <= Len(s) THEN s[i] ELSE t[i - Len(s)]
    BY ConcatProperties
  <2> QED
    BY <1>1, <2>1
<1>3. Len(s) \in Nat /\ pos[c] \in Nat /\ k \in Nat
  BY DEF TypeOK
<1>4. \A i \in 1..(Len(s) + k) : (s \o d)[i] = stream[c][b + i]
  <2> SUFFICES ASSUME NEW i \in 1..(Len(s) + k) PROVE (s \o d)[i] = stream[c][b + i]
    OBVIOUS
  <2>1. i \in Nat /\ 1 <= i /\ i <= Len(s) + k
    BY <1>3
  <2>2. (s \o d)[i] = IF i <= Len(s) THEN s[i] ELSE d[i - Len(s)]
    BY <1>1, <1>2
  <2>3. CASE i <= Len(s)
    BY <1>3, <2>1, <2>2, <2>3
  <2>4. CASE ~ (i <= Len(s))
    <3>1. i - Len(s) \in 1..k /\ pos[c] + (i - Len(s)) = b + i
      BY <1>3, <2>1, <2>4
    <3> QED
      BY <1>1, <2>2, <2>4, <3>1
  <2> QED
    BY <2>3, <2>4
<1> QED
  BY <1>1, <1>2, <1>3, <1>4 DEF d

(* A part of a part of a stream is a part of it.                           *)
LEMMA PartOfStream ==
  ASSUME NEW s \in Seq(Unit), NEW r \in Seq(Unit), NEW b \in Nat,
         b + Len(r) <= Len(s), \A i \in 1..Len(r) : r[i] = s[b + i],
         NEW e \in 1..Len(r)
  PROVE  SubSeq(r, e + 1, Len(r)) = SubSeq(s, b + e + 1, b + Len(r))
<1>1. Len(r) \in Nat /\ Len(s) \in Nat /\ e \in Nat
  OBVIOUS
<1> DEFINE n == Len(r)
           p == SubSeq(r, e + 1, n)
           q == SubSeq(s, b + e + 1, b + n)
<1>2. /\ p \in Seq(Unit) /\ Len(p) = IF e + 1 <= n THEN n - (e + 1) + 1 ELSE 0
      /\ \A i \in 1..(n - (e + 1) + 1) : p[i] = r[e + 1 + i - 1]
  <2>1. \A i \in (e + 1)..n : r[i] \in Unit
    BY <1>1
  <2> HIDE DEF n
  <2>2. e + 1 \in Int /\ n \in Int
    BY <1>1 DEF n
  <2> QED
    BY <2>1, <2>2, SubSeqProperties
<1>3. /\ q \in Seq(Unit) /\ Len(q) = IF b + e + 1 <= b + n THEN b + n - (b + e + 1) + 1 ELSE 0
      /\ \A i \in 1..(b + n - (b + e + 1) + 1) : q[i] = s[b + e + 1 + i - 1]
  <2> DEFINE x == b + e + 1
             y == b + n
  <2>1. \A i \in x..y : s[i] \in Unit
    BY <1>1
  <2>2. x \in Int /\ y \in Int
    BY <1>1
  <2> HIDE DEF x, y
  <2>3. /\ SubSeq(s, x, y) \in Seq(Unit) /\ Len(SubSeq(s, x, y)) = IF x <= y THEN y - x + 1 ELSE 0
        /\ \A i \in 1..(y - x + 1) : SubSeq(s, x, y)[i] = s[x + i - 1]
    BY <2>1, <2>2, SubSeqProperties
  <2> QED
    BY <2>3 DEF x, y
<1> HIDE DEF p, q
<1>4. Len(p) = n - e /\ Len(q) = n - e
  BY <1>1, <1>2, <1>3
<1>5. \A i \in 1..Len(p) : p[i] = q[i]
  <2> SUFFICES ASSUME NEW i \in 1..(n - e) PROVE p[i] = q[i]
    BY <1>4
  <2>1. /\ i \in 1..(n - (e + 1) + 1) /\ e + 1 + i - 1 = e + i /\ e + i \in 1..n
        /\ i \in 1..(b + n - (b + e + 1) + 1) /\ b + e + 1 + i - 1 = b + (e + i)
    BY <1>1
  <2>2. p[i] = r[e + i] /\ q[i] = s[b + (e + i)]
    BY <1>2, <1>3, <2>1
  <2> QED
    BY <2>1, <2>2
<1>6. p = q
  BY <1>2, <1>3, <1>4, <1>5, SeqEqual
<1> QED
  BY <1>6 DEF p, q

(* What one connection reads is no matter of the others.                   *)
LEMMA SegmentFrame ==
  ASSUME SegmentInv, NEW c \in Conn, stream' = stream, pos' \in [Conn -> Nat],
         \A d \in Conn \ {c} : /\ pos'[d] = pos[d] /\ request_'[d] = request_[d]
                               /\ state_'[d] = state_[d] /\ taken'[d] = taken[d]
                               /\ postsize_'[d] = postsize_[d] /\ post_'[d] = post_[d],
         \E b \in 0..Len(stream[c]) : SegmentOK(c, b)'
  PROVE  SegmentInv'
<1> SUFFICES ASSUME NEW d \in Conn
             PROVE  (Numbered(stream[d]) /\ \E b \in 0..Len(stream[d]) : SegmentOK(d, b))'
  BY DEF SegmentInv
<1>1. Numbered(stream[d]) /\ \E b \in 0..Len(stream[d]) : SegmentOK(d, b)
  BY DEF SegmentInv
<1>2. CASE d # c
  <2>1. PICK b \in 0..Len(stream[d]) : SegmentOK(d, b)
    BY <1>1
  <2>2. SegmentOK(d, b)'
    BY <1>2, <2>1 DEF SegmentOK, ReadsFrom, HasBody
  <2> QED
    BY <1>1, <2>2
<1>3. CASE d = c
  BY <1>1, <1>3
<1> QED
  BY <1>2, <1>3

LEMMA SegmentInit == Init => SegmentInv
<1> SUFFICES ASSUME Init, NEW c \in Conn
             PROVE  Numbered(stream[c]) /\ \E b \in 0..Len(stream[c]) : SegmentOK(c, b)
  BY DEF SegmentInv, Init
<1>1. stream \in Streams /\ stream[c] \in Seq(Unit)
  BY ServerAssumption DEF Init
<1>2. Len(stream[c]) \in Nat /\ \A j \in 1..Len(stream[c]) : stream[c][j].id \in Nat /\ stream[c][j].id > 0
  <2>1. ASSUME NEW u \in Unit PROVE u.id \in Nat /\ u.id > 0
    <3>1. u.id \in Id
      BY <2>1 DEF Unit
    <3>2. u.id \in Nat \ {0}
      BY <3>1, RequestAssumption
    <3> QED
      BY <3>2
  <2> QED
    BY <1>1, <2>1
<1>3. pos[c] = 0 /\ request_[c] = << >> /\ state_[c] = "header" /\ taken[c] = 0
  BY DEF Init
<1>4. SegmentOK(c, 0)
  BY <1>2, <1>3 DEF SegmentOK, ReadsFrom
<1> QED
  BY <1>1, <1>2, <1>4, PeerAssumption

(* A header that is read on, up to its end and into the body of a POST.    *)
LEMMA ReadHeaderSegment == ASSUME IInv, SegmentInv, NEW c \in Conn, ReadHeader(c) PROVE SegmentInv'
<1>0. TypeOK
  BY DEF IInv
<1>1. PICK k \in 1..Len(stream[c]) :
        LET r == request_[c] \o Chunk(c, k) IN
        /\ Arrived(c, k)
        /\ request_' = [request_ EXCEPT ![c] = r]
        /\ post_' = [post_ EXCEPT ![c] = IF EntersPost(r) THEN Body(r) ELSE @]
        /\ postsize_' = [postsize_ EXCEPT ![c] = IF EntersPost(r) THEN PostSize(r) ELSE @]
        /\ \/ /\ ParseHeader(r) = -1
              /\ io' = [io EXCEPT ![c] = "closed"]
              /\ UNCHANGED <<state_, threaded_, http_ret_, by, taken, net>>
           \/ /\ ParseHeader(r) = 1
              /\ state_' = [state_ EXCEPT ![c] = IF EntersPost(r) THEN "post" ELSE @]
              /\ UNCHANGED <<io, threaded_, http_ret_, by, taken, net>>
           \/ /\ ParseHeader(r) = 0
              /\ state_' = [state_ EXCEPT ![c] = "processing"]
              /\ ProcessOnNet(c, r)
  BY DEF ReadHeader
<1>2. stream' = stream /\ state_[c] = "header"
  BY DEF ReadHeader
<1>3. PICK b \in 0..Len(stream[c]) : SegmentOK(c, b)
  BY DEF SegmentInv
<1> DEFINE r == request_[c] \o Chunk(c, k)
<1>4. /\ pos[c] + k <= Len(stream[c]) /\ pos'[c] = pos[c] + k /\ pos[c] \in Nat
      /\ stream[c] \in Seq(Unit) /\ Len(stream[c]) \in Nat
      /\ request_[c] \in Seq(Unit)
  <2>1. pos[c] \in 0..Len(stream[c]) /\ stream[c] \in Seq(Unit) /\ request_[c] \in Seq(Unit)
    BY <1>0 DEF TypeOK
  <2>2. pos[c] + k <= Len(stream[c]) /\ pos' = [pos EXCEPT ![c] = @ + k]
    BY <1>1 DEF Arrived
  <2>3. pos'[c] = pos[c] + k
    BY <2>2 DEF SegmentInv
  <2> QED
    BY <2>1, <2>2, <2>3
<1>5. /\ b + Len(request_[c]) = pos[c]
      /\ \A i \in 1..Len(request_[c]) : request_[c][i] = stream[c][b + i]
      /\ \A j \in (b + 1)..Len(stream[c]) : stream[c][j].kind \in Method => stream[c][j].id > taken[c]
  BY <1>2, <1>3 DEF SegmentOK, ReadsFrom
<1>6. r \in Seq(Unit) /\ r # << >>
  BY <1>0, <1>4, ChunkType
<1>7. /\ b + Len(r) = pos'[c]
      /\ \A i \in 1..Len(r) : r[i] = stream[c][b + i]
  BY <1>0, <1>4, <1>5, ReadsOn
<1>8. /\ request_'[c] = r
      /\ EntersPost(r) => post_'[c] = Body(r) /\ postsize_'[c] = PostSize(r)
      /\ \A d \in Conn \ {c} : /\ pos'[d] = pos[d] /\ request_'[d] = request_[d]
                               /\ postsize_'[d] = postsize_[d] /\ post_'[d] = post_[d]
  BY <1>0, <1>1 DEF Arrived, TypeOK
<1>9. \/ state_' = state_ /\ taken' = taken
      \/ EntersPost(r) /\ state_' = [state_ EXCEPT ![c] = "post"] /\ taken' = taken
      \/ /\ ParseHeader(r) = 0 /\ state_' = [state_ EXCEPT ![c] = "processing"]
         /\ taken' = [taken EXCEPT ![c] = IdOf(r)]
  BY <1>0, <1>1 DEF ProcessOnNet, TypeOK
<1> HIDE DEF r
<1>10. b + Len(r) <= pos'[c] /\ Len(r) \in Nat
  BY <1>4, <1>6, <1>7
<1>11. ASSUME EntersPost(r) PROVE HasBody(c, b)' /\ r[1].kind = "POST"
  <2>1. First(r, "end") \in 1..Len(r)
    BY <1>6, <1>11, FirstIsThere DEF EntersPost, HeaderEnds
  <2>2. Body(r) = SubSeq(stream[c], b + First(r, "end") + 1, pos'[c])
    <3>1. b \in Nat /\ b + Len(r) <= Len(stream[c])
      BY <1>4, <1>7
    <3>2. SubSeq(r, First(r, "end") + 1, Len(r)) = SubSeq(stream[c], b + First(r, "end") + 1, b + Len(r))
      BY <1>4, <1>6, <1>7, <2>1, <3>1, PartOfStream
    <3> QED
      BY <1>7, <3>2 DEF Body
  <2> QED
    BY <1>2, <1>8, <1>11, <2>2 DEF HasBody, EntersPost, IsPost
<1>12. SegmentOK(c, b)'
  <2>1. CASE state_' = state_ /\ taken' = taken
    BY <1>2, <1>5, <1>7, <1>8, <1>10, <2>1 DEF SegmentOK, ReadsFrom
  <2>2. CASE EntersPost(r) /\ state_' = [state_ EXCEPT ![c] = "post"] /\ taken' = taken
    <3>1. state_'[c] = "post"
      BY <1>0, <2>2 DEF TypeOK
    <3> QED
      BY <1>2, <1>5, <1>7, <1>8, <1>10, <1>11, <2>2, <3>1 DEF SegmentOK, ReadsFrom, Method
  <2>3. CASE /\ ParseHeader(r) = 0 /\ state_' = [state_ EXCEPT ![c] = "processing"]
             /\ taken' = [taken EXCEPT ![c] = IdOf(r)]
    <3>1. state_'[c] = "processing" /\ taken'[c] = IdOf(r)
      BY <1>0, <2>3 DEF TypeOK
    <3>2. HeaderEnds(r) /\ (IsGet(r) \/ (IsPost(r) /\ ~ (Len(Body(r)) < PostSize(r))))
      BY <2>3 DEF ParseHeader
    <3>3. r[1].kind \in Method
      BY <3>2 DEF IsGet, IsPost, Method
    <3>4. ASSUME r[1].kind = "POST" PROVE HasBody(c, b)' /\ Len(post_'[c]) >= postsize_'[c]
      <4>1. EntersPost(r) /\ ~ (Len(Body(r)) < PostSize(r))
        BY <3>2, <3>4 DEF IsGet, EntersPost
      <4>2. Len(Body(r)) \in Nat /\ PostSize(r) \in Int
        <5>1. Body(r) \in Seq(Unit)
          BY <1>6, <4>1, BodyType DEF EntersPost
        <5>2. PostSize(r) \in 0..(UINT - 1)
          BY <1>6, <4>1, PostSizeType DEF EntersPost, IsPost
        <5> QED
          BY <5>1, <5>2, RequestAssumption
      <4> QED
        BY <1>8, <1>11, <4>1, <4>2
    <3> QED
      BY <1>2, <1>7, <1>8, <1>10, <3>1, <3>3, <3>4 DEF SegmentOK, ReadsFrom
  <2> QED
    BY <1>9, <2>1, <2>2, <2>3
<1>13. \A d \in Conn \ {c} : state_'[d] = state_[d] /\ taken'[d] = taken[d]
  BY <1>0, <1>9 DEF TypeOK
<1>14. pos' \in [Conn -> Nat]
  BY <1>1 DEF Arrived, SegmentInv
<1> QED
  BY <1>2, <1>8, <1>12, <1>13, <1>14, SegmentFrame

(* A body that is read on.                                                 *)
LEMMA ReadPostSegment == ASSUME IInv, SegmentInv, NEW c \in Conn, ReadPost(c) PROVE SegmentInv'
<1>0. TypeOK
  BY DEF IInv
<1>1. PICK k \in 1..Len(stream[c]) :
        LET p == post_[c] \o Chunk(c, k) IN
        /\ Arrived(c, k)
        /\ post_' = [post_ EXCEPT ![c] = p]
        /\ \/ /\ Len(p) < postsize_[c]
              /\ UNCHANGED <<state_, io, threaded_, http_ret_, by, taken, net>>
           \/ /\ Len(p) >= postsize_[c]
              /\ state_' = [state_ EXCEPT ![c] = "processing"]
              /\ ProcessOnNet(c, request_[c])
  BY DEF ReadPost
<1>2. UNCHANGED <<stream, request_, postsize_>> /\ state_[c] = "post"
  BY DEF ReadPost
<1>3. PICK b \in 0..Len(stream[c]) : SegmentOK(c, b)
  BY DEF SegmentInv
<1>4. ReadsFrom(c, b) /\ HasBody(c, b)
  BY <1>2, <1>3 DEF SegmentOK
<1> DEFINE p == post_[c] \o Chunk(c, k)
           m == b + First(request_[c], "end") + 1
<1>5. /\ pos[c] + k <= Len(stream[c]) /\ pos'[c] = pos[c] + k /\ pos[c] \in Nat
      /\ stream[c] \in Seq(Unit) /\ Len(stream[c]) \in Nat
      /\ request_[c] \in Seq(Unit) /\ pos' \in [Conn -> Nat]
  <2>1. pos[c] \in 0..Len(stream[c]) /\ stream[c] \in Seq(Unit) /\ request_[c] \in Seq(Unit)
    BY <1>0 DEF TypeOK
  <2>2. pos[c] + k <= Len(stream[c]) /\ pos' = [pos EXCEPT ![c] = @ + k]
    BY <1>1 DEF Arrived
  <2> QED
    BY <2>1, <2>2 DEF SegmentInv
<1>6. p = SubSeq(stream[c], m, pos'[c])
  <2>1. First(request_[c], "end") \in 1..Len(request_[c])
    BY <1>4, <1>5, FirstIsThere DEF HasBody, EntersPost, HeaderEnds
  <2>2. Len(request_[c]) \in Nat /\ b + Len(request_[c]) <= pos[c] /\ pos[c] <= Len(stream[c])
    BY <1>4, <1>5 DEF ReadsFrom
  <2> DEFINE n == pos[c]
             q == pos[c] + k
  <2>3. m \in 1..(Len(stream[c]) + 1) /\ n \in (m - 1)..Len(stream[c]) /\ q \in n..Len(stream[c])
    <3>1. PICK f \in Nat : f = First(request_[c], "end") /\ 1 <= f /\ f <= Len(request_[c])
      BY <2>1, <2>2
    <3>2. PICK l \in Nat, z \in Nat, x \in Nat : /\ l = Len(request_[c]) /\ z = Len(stream[c]) /\ x = pos[c]
                                              /\ b + l <= x /\ x <= z /\ x + k <= z
      BY <1>5, <2>2
    <3>3. /\ b + f + 1 \in 1..(z + 1) /\ x \in (b + f + 1 - 1)..z /\ x + k \in x..z
      <4>1. b \in Nat /\ k \in Nat /\ f <= l
        BY <1>5, <3>1, <3>2
      <4>2. b + f + 1 \in 1..(z + 1) /\ b + f + 1 - 1 <= x
        BY <3>1, <3>2, <4>1
      <4>3. x + k \in x..z /\ x \in Nat /\ z \in Nat /\ b + f + 1 - 1 \in Nat
        BY <3>1, <3>2, <4>1
      <4> QED
        BY <3>2, <4>2, <4>3
    <3> QED
      BY <3>1, <3>2, <3>3
  <2> HIDE DEF m, n, q
  <2>4. SubSeq(stream[c], m, n) \o SubSeq(stream[c], n + 1, q) = SubSeq(stream[c], m, q)
    BY <1>5, <2>3, ConcatAdjacentSubSeq
  <2> QED
    BY <1>4, <1>5, <2>4 DEF HasBody, Chunk, m, n, q
<1>7. post_'[c] = p /\ \A d \in Conn \ {c} : pos'[d] = pos[d] /\ post_'[d] = post_[d]
  BY <1>0, <1>1 DEF Arrived, TypeOK
<1>8. \/ state_' = state_ /\ taken' = taken
      \/ /\ Len(p) >= postsize_[c] /\ state_' = [state_ EXCEPT ![c] = "processing"]
         /\ taken' = [taken EXCEPT ![c] = IdOf(request_[c])]
  BY <1>1 DEF ProcessOnNet
<1> HIDE DEF p, m
<1>9. HasBody(c, b)'
  BY <1>2, <1>4, <1>6, <1>7 DEF HasBody, m
<1>10. b + Len(request_[c]) <= pos'[c]
  BY <1>4, <1>5 DEF ReadsFrom
<1>11. SegmentOK(c, b)'
  <2>1. CASE state_' = state_ /\ taken' = taken
    BY <1>2, <1>4, <1>9, <1>10, <2>1 DEF SegmentOK, ReadsFrom
  <2>2. CASE /\ Len(p) >= postsize_[c] /\ state_' = [state_ EXCEPT ![c] = "processing"]
             /\ taken' = [taken EXCEPT ![c] = IdOf(request_[c])]
    <3>1. state_'[c] = "processing" /\ taken'[c] = IdOf(request_[c])
      BY <1>0, <2>2 DEF TypeOK
    <3> QED
      BY <1>2, <1>4, <1>7, <1>9, <1>10, <2>2, <3>1 DEF SegmentOK, ReadsFrom
  <2> QED
    BY <1>8, <2>1, <2>2
<1>12. \A d \in Conn \ {c} : state_'[d] = state_[d] /\ taken'[d] = taken[d]
  BY <1>0, <1>8 DEF TypeOK
<1> QED
  BY <1>2, <1>5, <1>7, <1>11, <1>12, SegmentFrame

(* After the reply a connection reads on from where it is: what the peer   *)
(* sent before is done with, and later requests have later numbers.        *)
LEMMA HandleWriteSegment == ASSUME IInv, SegmentInv, NEW c \in Conn, HandleWrite(c) PROVE SegmentInv'
<1>0. TypeOK
  BY DEF IInv
<1>1. /\ io[c] = "write"
      /\ request_' = [request_ EXCEPT ![c] = << >>]
      /\ post_' = [post_ EXCEPT ![c] = << >>]
      /\ postsize_' = [postsize_ EXCEPT ![c] = 0]
      /\ state_' = [state_ EXCEPT ![c] = "header"]
      /\ UNCHANGED <<stream, pos, taken>>
  BY DEF HandleWrite
<1>2. state_[c] = "processing" /\ request_[c] # << >>
  BY <1>1 DEF IInv, ReadInv
<1>3. PICK b \in 0..Len(stream[c]) : SegmentOK(c, b)
  BY DEF SegmentInv
<1>4. ReadsFrom(c, b)
  BY <1>3 DEF SegmentOK
<1>5. stream[c] \in Seq(Unit) /\ request_[c] \in Seq(Unit) /\ pos[c] \in 0..Len(stream[c])
  BY <1>0 DEF TypeOK
<1>6. Len(request_[c]) \in Nat /\ Len(request_[c]) > 0 /\ Len(stream[c]) \in Nat /\ pos[c] \in Nat
  BY <1>2, <1>5
<1>7. /\ b + 1 <= pos[c] /\ b + 1 \in 1..Len(stream[c])
      /\ stream[c][b + 1] = request_[c][1]
  BY <1>4, <1>5, <1>6 DEF ReadsFrom
<1>8. taken[c] = stream[c][b + 1].id
  BY <1>2, <1>4, <1>7 DEF ReadsFrom, IdOf
<1>9. ASSUME NEW j \in (pos[c] + 1)..Len(stream[c]), stream[c][j].kind \in Method
      PROVE  stream[c][j].id > taken[c]
  <2>1. j \in 1..Len(stream[c]) /\ b + 1 < j
    BY <1>6, <1>7, <1>9
  <2>2. stream[c][b + 1].id < stream[c][j].id
    BY <1>7, <1>9, <2>1 DEF SegmentInv, Numbered, Method
  <2>3. \A i \in 1..Len(stream[c]) : stream[c][i].id \in Nat
    <3>1. ASSUME NEW u \in Unit PROVE u.id \in Nat
      <4>1. u.id \in Id
        BY DEF Unit
      <4> QED
        BY <4>1, RequestAssumption
    <3>2. \A i \in 1..Len(stream[c]) : stream[c][i] \in Unit
      BY <1>5
    <3> QED
      BY <3>1, <3>2
  <2> QED
    BY <1>7, <1>8, <2>1, <2>2, <2>3
<1>10. request_'[c] = << >> /\ state_'[c] = "header"
  BY <1>0, <1>1 DEF TypeOK
<1>11. SegmentOK(c, pos[c])'
  BY <1>1, <1>6, <1>9, <1>10 DEF SegmentOK, ReadsFrom
<1>12. \A d \in Conn \ {c} : /\ request_'[d] = request_[d] /\ state_'[d] = state_[d]
                             /\ postsize_'[d] = postsize_[d] /\ post_'[d] = post_[d]
  BY <1>0, <1>1 DEF TypeOK
<1>13. pos' \in [Conn -> Nat]
  BY <1>1 DEF SegmentInv
<1>14. \E e \in 0..Len(stream[c]) : SegmentOK(c, e)'
  BY <1>1, <1>5, <1>11
<1> QED
  BY <1>1, <1>12, <1>13, <1>14, SegmentFrame

LEMMA SegmentStep == IInv /\ SegmentInv /\ [Next]_vars => SegmentInv'
<1> SUFFICES ASSUME IInv, SegmentInv, [Next]_vars PROVE SegmentInv'
  OBVIOUS
<1>1. ASSUME UNCHANGED <<stream, pos, request_, state_, taken, postsize_, post_>>
      PROVE  SegmentInv'
  <2>1. pos' \in [Conn -> Nat]
    BY <1>1 DEF SegmentInv
  <2>2. ASSUME NEW d \in Conn
        PROVE  (Numbered(stream[d]) /\ \E b \in 0..Len(stream[d]) : SegmentOK(d, b))'
    <3>1. Numbered(stream[d])
      BY DEF SegmentInv
    <3>2. PICK b \in 0..Len(stream[d]) : SegmentOK(d, b)
      BY DEF SegmentInv
    <3>3. SegmentOK(d, b)'
      BY <1>1, <3>2 DEF SegmentOK, ReadsFrom, HasBody
    <3> QED
      BY <1>1, <3>1, <3>2, <3>3
  <2> QED
    BY <2>1, <2>2 DEF SegmentInv
<1>2. ASSUME NEW c \in Conn, Accept(c) \/ ReadError(c) PROVE SegmentInv'
  BY <1>1, <1>2 DEF Accept, ReadError
<1>3. CASE Scan \/ Choose \/ Push
  BY <1>1, <1>3 DEF Scan, Choose, Push, conn_vars
<1>4. ASSUME NEW t \in Tid, Thread(t) \/ Spurious(t) PROVE SegmentInv'
  BY <1>1, <1>4 DEF Thread, Lock, Pop, Process, Wait, Wake, Spurious, conn_vars
<1>5. CASE UNCHANGED vars
  BY <1>1, <1>5 DEF vars
<1> QED
  BY <1>2, <1>3, <1>4, <1>5, ReadHeaderSegment, ReadPostSegment, HandleWriteSegment
  DEF Next, Callback

LEMMA SegmentInvariance == Spec => [](IInv /\ SegmentInv)
  BY InitIInv, NextStep, SegmentInit, SegmentStep, PTL DEF Spec

(* What the handler returns, once begin_response has seen to it.           *)
LEMMA ResponseFits ==
  ASSUME TypeOK, NEW c \in Conn, NEW path \in Path, NEW thread \in {"net", "pool"},
         NEW in_pool \in BOOLEAN, in_pool <=> thread = "pool",
         NEW ret \in Handler[<<path, in_pool>>],
         \/ ret # HTTP_SWITCH_THREAD /\ BeginResponse(c, ret, thread)
         \/ in_pool /\ ret = HTTP_SWITCH_THREAD /\ BeginResponse(c, HTTP_508, thread)
  PROVE  /\ http_ret_'[c] \in Outcome(path, in_pool) /\ by'[c] = thread
         /\ \A d \in Conn \ {c} : /\ http_ret_'[d] = http_ret_[d] /\ by'[d] = by[d]
                                  /\ io'[d] = io[d]
<1>1. ret \in Int
  BY ServerAssumption
<1>2. CASE ret # HTTP_SWITCH_THREAD /\ BeginResponse(c, ret, thread)
  <2>1. /\ http_ret_'[c] = IF ret < 0 \/ ret >= HTTP_END THEN HTTP_503 ELSE ret
        /\ by'[c] = thread
        /\ \A d \in Conn \ {c} : /\ http_ret_'[d] = http_ret_[d] /\ by'[d] = by[d]
                                 /\ io'[d] = io[d]
    BY <1>2 DEF BeginResponse, TypeOK
  <2>2. (ret < 0 \/ ret >= HTTP_END) <=> ret \notin 0..(HTTP_END - 1)
    BY <1>1 DEF HTTP_END
  <2>3. http_ret_'[c] \in Outcome(path, in_pool)
    BY <1>2, <2>1, <2>2 DEF Outcome
  <2> QED
    BY <2>1, <2>3
<1>3. CASE in_pool /\ ret = HTTP_SWITCH_THREAD /\ BeginResponse(c, HTTP_508, thread)
  <2>1. /\ http_ret_'[c] = HTTP_508 /\ by'[c] = thread
        /\ \A d \in Conn \ {c} : /\ http_ret_'[d] = http_ret_[d] /\ by'[d] = by[d]
                                 /\ io'[d] = io[d]
    BY <1>3 DEF BeginResponse, TypeOK, HTTP_508, HTTP_END
  <2>2. ret \in Handler[<<path, TRUE>>] \cap {HTTP_SWITCH_THREAD}
    BY <1>3
  <2>3. HTTP_508 \in Outcome(path, in_pool)
    BY <1>3, <2>2 DEF Outcome
  <2> QED
    BY <2>1, <2>3
<1> QED
  BY <1>2, <1>3

(* What a connection replies is no matter of the others.                   *)
LEMMA FitFrame ==
  ASSUME FitInv, NEW c \in Conn,
         \A d \in Conn \ {c} : /\ threaded_'[d] = threaded_[d] /\ state_'[d] = state_[d]
                               /\ shut'[d] = shut[d] /\ io'[d] = io[d]
                               /\ http_ret_'[d] = http_ret_[d] /\ request_'[d] = request_[d]
                               /\ by'[d] = by[d],
         FitOK(c)'
  PROVE  FitInv'
<1> SUFFICES ASSUME NEW d \in Conn PROVE FitOK(d)'
  BY DEF FitInv
<1>1. CASE d # c
  BY <1>1 DEF FitInv, FitOK
<1> QED
  BY <1>1

(* A request that is taken up on the network thread.                       *)
LEMMA ProcessOnNetFits ==
  ASSUME IInv, FitInv, NEW c \in Conn, NEW r \in Seq(Unit), r # << >>, ProcessOnNet(c, r),
         state_[c] # "processing", state_' = [state_ EXCEPT ![c] = "processing"],
         request_' = [request_ EXCEPT ![c] = r], shut' = shut
  PROVE  FitInv'
<1>0. TypeOK
  BY DEF IInv
<1>1. PathOf(r) \in Path /\ threaded_[c] \in BOOLEAN /\ (threaded_[c] => shut[c])
  BY <1>0, FirstUnit DEF TypeOK, FitInv, FitOK
<1>2. /\ state_'[c] = "processing" /\ request_'[c] = r
      /\ \A d \in Conn \ {c} : /\ state_'[d] = state_[d] /\ request_'[d] = request_[d]
                               /\ shut'[d] = shut[d]
  BY <1>0 DEF TypeOK
<1>3. PICK ret \in Handler[<<PathOf(r), threaded_[c]>>] :
       \/ /\ ret # HTTP_SWITCH_THREAD
          /\ BeginResponse(c, ret, "net")
          /\ UNCHANGED <<threaded_, net>>
       \/ /\ ret = HTTP_SWITCH_THREAD /\ threaded_[c]
          /\ BeginResponse(c, HTTP_508, "net")
          /\ UNCHANGED <<threaded_, net>>
       \/ /\ ret = HTTP_SWITCH_THREAD /\ ~ threaded_[c]
          /\ threaded_' = [threaded_ EXCEPT ![c] = TRUE]
          /\ net' = [pc |-> "scan", conn |-> c, i |-> 0, choice |-> NONE]
          /\ http_ret_' = [http_ret_ EXCEPT ![c] = ret]
          /\ io' = [io EXCEPT ![c] = "none"]
          /\ UNCHANGED by
  BY DEF ProcessOnNet
<1>4. CASE threaded_[c] /\ UNCHANGED threaded_
  <2>1. FitOK(c)'
    BY <1>1, <1>2, <1>4 DEF FitOK
  <2>2. \A d \in Conn \ {c} : /\ http_ret_'[d] = http_ret_[d] /\ by'[d] = by[d]
                              /\ io'[d] = io[d]
    BY <1>0, <1>3, <1>4 DEF BeginResponse, TypeOK
  <2> QED
    BY <1>2, <1>4, <2>1, <2>2, FitFrame
<1>5. CASE /\ ~ threaded_[c] /\ ret # HTTP_SWITCH_THREAD /\ BeginResponse(c, ret, "net")
           /\ UNCHANGED threaded_
  <2>1. ret \in Handler[<<PathOf(r), FALSE>>]
    BY <1>1, <1>5
  <2>2. /\ http_ret_'[c] \in Outcome(PathOf(r), FALSE) /\ by'[c] = "net"
        /\ \A d \in Conn \ {c} : /\ http_ret_'[d] = http_ret_[d] /\ by'[d] = by[d]
                                 /\ io'[d] = io[d]
    BY <1>0, <1>1, <1>5, <2>1, ResponseFits
  <2>3. FitOK(c)'
    BY <1>2, <1>5, <2>2 DEF FitOK
  <2> QED
    BY <1>2, <1>5, <2>2, <2>3, FitFrame
<1>6. CASE /\ threaded_' = [threaded_ EXCEPT ![c] = TRUE]
           /\ http_ret_' = [http_ret_ EXCEPT ![c] = ret]
           /\ io' = [io EXCEPT ![c] = "none"]
           /\ UNCHANGED by
  <2>1. /\ io'[c] = "none"
        /\ \A d \in Conn \ {c} : /\ http_ret_'[d] = http_ret_[d] /\ by'[d] = by[d]
                                 /\ io'[d] = io[d] /\ threaded_'[d] = threaded_[d]
    BY <1>0, <1>6 DEF TypeOK
  <2>2. FitOK(c)'
    BY <1>2, <2>1 DEF FitOK
  <2> QED
    BY <1>2, <2>1, <2>2, FitFrame
<1> QED
  BY <1>1, <1>3, <1>4, <1>5, <1>6

LEMMA FitInit == Init => FitInv
  BY DEF Init, FitInv, FitOK

LEMMA ReadHeaderFits == ASSUME IInv, FitInv, NEW c \in Conn, ReadHeader(c) PROVE FitInv'
<1>0. TypeOK
  BY DEF IInv
<1>1. PICK k \in 1..Len(stream[c]) :
        LET r == request_[c] \o Chunk(c, k) IN
        /\ Arrived(c, k)
        /\ request_' = [request_ EXCEPT ![c] = r]
        /\ \/ /\ io' = [io EXCEPT ![c] = "closed"]
              /\ UNCHANGED <<state_, threaded_, http_ret_, by, taken, net>>
           \/ /\ state_' = [state_ EXCEPT ![c] = IF EntersPost(r) THEN "post" ELSE @]
              /\ UNCHANGED <<io, threaded_, http_ret_, by, taken, net>>
           \/ /\ state_' = [state_ EXCEPT ![c] = "processing"]
              /\ ProcessOnNet(c, r)
  BY DEF ReadHeader
<1>2. shut' = shut /\ io[c] = "read" /\ state_[c] = "header"
  BY DEF ReadHeader
<1> DEFINE r == request_[c] \o Chunk(c, k)
<1>3. r \in Seq(Unit) /\ r # << >>
  <2>1. request_[c] \in Seq(Unit)
    BY <1>0 DEF TypeOK
  <2> QED
    BY <1>0, <1>1, <2>1, ChunkType DEF Arrived
<1>4. /\ request_' = [request_ EXCEPT ![c] = r]
      /\ \/ /\ io' = [io EXCEPT ![c] = "closed"]
            /\ UNCHANGED <<state_, threaded_, http_ret_, by>>
         \/ /\ state_' = [state_ EXCEPT ![c] = IF EntersPost(r) THEN "post" ELSE @]
            /\ UNCHANGED <<io, threaded_, http_ret_, by>>
         \/ /\ state_' = [state_ EXCEPT ![c] = "processing"]
            /\ ProcessOnNet(c, r)
  BY <1>1
<1> HIDE DEF r
<1>5. CASE /\ io' = [io EXCEPT ![c] = "closed"]
           /\ UNCHANGED <<state_, threaded_, http_ret_, by>>
  <2>1. FitOK(c)'
    BY <1>0, <1>2, <1>5 DEF TypeOK, FitInv, FitOK
  <2> QED
    BY <1>0, <1>2, <1>4, <1>5, <2>1, FitFrame DEF TypeOK
<1>6. CASE /\ state_' = [state_ EXCEPT ![c] = IF EntersPost(r) THEN "post" ELSE @]
           /\ UNCHANGED <<io, threaded_, http_ret_, by>>
  <2>1. FitOK(c)'
    BY <1>0, <1>2, <1>6 DEF TypeOK, FitInv, FitOK
  <2> QED
    BY <1>0, <1>2, <1>4, <1>6, <2>1, FitFrame DEF TypeOK
<1>7. CASE state_' = [state_ EXCEPT ![c] = "processing"] /\ ProcessOnNet(c, r)
  BY <1>2, <1>3, <1>4, <1>7, ProcessOnNetFits
<1> QED
  BY <1>4, <1>5, <1>6, <1>7

LEMMA ReadPostFits == ASSUME IInv, FitInv, NEW c \in Conn, ReadPost(c) PROVE FitInv'
<1>0. TypeOK /\ ReadInv
  BY DEF IInv
<1>1. /\ shut' = shut /\ request_' = request_ /\ state_[c] = "post"
      /\ \/ UNCHANGED <<state_, io, threaded_, http_ret_, by, taken, net>>
         \/ state_' = [state_ EXCEPT ![c] = "processing"] /\ ProcessOnNet(c, request_[c])
  BY DEF ReadPost
<1>2. CASE UNCHANGED <<state_, io, threaded_, http_ret_, by, taken, net>>
  BY <1>1, <1>2 DEF FitInv, FitOK
<1>3. CASE state_' = [state_ EXCEPT ![c] = "processing"] /\ ProcessOnNet(c, request_[c])
  <2>1. request_[c] \in Seq(Unit) /\ request_[c] # << >> /\ request_' = [request_ EXCEPT ![c] = request_[c]]
    BY <1>0, <1>1 DEF TypeOK, ReadInv
  <2> QED
    BY <1>1, <1>3, <2>1, ProcessOnNetFits
<1> QED
  BY <1>1, <1>2, <1>3

LEMMA HandleWriteFits == ASSUME IInv, FitInv, NEW c \in Conn, HandleWrite(c) PROVE FitInv'
<1>0. TypeOK
  BY DEF IInv
<1>1. /\ shut' = [shut EXCEPT ![c] = TRUE] /\ request_' = [request_ EXCEPT ![c] = << >>]
      /\ state_' = [state_ EXCEPT ![c] = "header"] /\ io' = [io EXCEPT ![c] = "read"]
      /\ UNCHANGED <<threaded_, http_ret_, by>>
  BY DEF HandleWrite
<1>2. FitOK(c)'
  BY <1>0, <1>1 DEF TypeOK, FitOK
<1> QED
  BY <1>0, <1>1, <1>2, FitFrame DEF TypeOK

LEMMA ProcessFits == ASSUME IInv, FitInv, NEW t \in Tid, Process(t) PROVE FitInv'
<1>0. TypeOK
  BY DEF IInv
<1>1. UNCHANGED <<shut, state_, threaded_, request_>> /\ worker[t] = "process"
  BY DEF Process
<1>2. PICK c \in Conn : c = serves[t]
  BY <1>0, <1>1 DEF IInv, ServeInv, TypeOK
<1>3. io[c] = "none" /\ state_[c] = "processing" /\ threaded_[c] = TRUE
  BY <1>0, <1>2 DEF IInv, OneHolder, Holds, TypeOK
<1>4. PathOf(request_[c]) \in Path
  BY <1>0, <1>2, <1>3, FirstUnit DEF IInv, ReadInv, TypeOK
<1>5. PICK ret \in Handler[<<PathOf(request_[c]), TRUE>>] :
        BeginResponse(c, IF ret = HTTP_SWITCH_THREAD THEN HTTP_508 ELSE ret, "pool")
  BY <1>2, <1>3 DEF Process
<1>6. \/ ret # HTTP_SWITCH_THREAD /\ BeginResponse(c, ret, "pool")
      \/ TRUE /\ ret = HTTP_SWITCH_THREAD /\ BeginResponse(c, HTTP_508, "pool")
  BY <1>5
<1>7. /\ http_ret_'[c] \in Outcome(PathOf(request_[c]), TRUE) /\ by'[c] = "pool"
      /\ \A d \in Conn \ {c} : /\ http_ret_'[d] = http_ret_[d] /\ by'[d] = by[d]
                               /\ io'[d] = io[d]
  BY <1>0, <1>2, <1>4, <1>5, <1>6, ResponseFits
<1>8. FitOK(c)'
  BY <1>1, <1>3, <1>7 DEF FitOK
<1> QED
  BY <1>1, <1>2, <1>7, <1>8, FitFrame

LEMMA FitStep == IInv /\ FitInv /\ [Next]_vars => FitInv'
<1> SUFFICES ASSUME IInv, FitInv, [Next]_vars PROVE FitInv'
  OBVIOUS
<1>1. ASSUME UNCHANGED <<threaded_, state_, shut, io, http_ret_, request_, by>>
      PROVE  FitInv'
  BY <1>1 DEF FitInv, FitOK
<1>2. ASSUME NEW c \in Conn, Accept(c) \/ ReadError(c) PROVE FitInv'
  <2>1. /\ UNCHANGED <<threaded_, state_, shut, http_ret_, request_, by>>
        /\ \E next \in {"read", "closed"} : io' = [io EXCEPT ![c] = next]
    BY <1>2 DEF Accept, ReadError
  <2> QED
    BY <2>1 DEF IInv, TypeOK, FitInv, FitOK
<1>3. CASE Scan \/ Choose \/ Push
  BY <1>1, <1>3 DEF Scan, Choose, Push, conn_vars
<1>4. ASSUME NEW t \in Tid, Thread(t) \/ Spurious(t) PROVE FitInv'
  BY <1>1, <1>4, ProcessFits DEF Thread, Lock, Pop, Wait, Wake, Spurious, conn_vars
<1>5. CASE UNCHANGED vars
  BY <1>1, <1>5 DEF vars
<1> QED
  BY <1>2, <1>3, <1>4, <1>5, ReadHeaderFits, ReadPostFits, HandleWriteFits
  DEF Next, Callback

(* A request is where its peer sent it, from the place b + 1 on.           *)
LEMMA RequestPlace ==
  ASSUME IInv, SegmentInv, NEW c \in Conn, state_[c] = "processing",
         NEW b \in 0..Len(stream[c]), SegmentOK(c, b)
  PROVE  /\ b + 1 \in 1..Len(stream[c]) /\ Len(request_[c]) \in Nat \ {0}
         /\ stream[c][b + 1] = request_[c][1] /\ request_[c][1].kind \in Method
         /\ b + Len(request_[c]) <= pos[c]
         /\ pos[c] \in 0..Len(stream[c]) /\ Len(stream[c]) \in Nat
         /\ \A i \in 1..Len(request_[c]) : request_[c][i] = stream[c][b + i]
         /\ \A j \in 1..Len(stream[c]) : stream[c][j] \in Unit /\ stream[c][j].id \in Nat
<1>1. stream[c] \in Seq(Unit) /\ request_[c] \in Seq(Unit) /\ pos[c] \in 0..Len(stream[c])
  BY DEF IInv, TypeOK
<1>2. request_[c] # << >>
  BY DEF IInv, ReadInv
<1>3. /\ b + Len(request_[c]) <= pos[c] /\ request_[c][1].kind \in Method
      /\ \A i \in 1..Len(request_[c]) : request_[c][i] = stream[c][b + i]
  BY DEF SegmentOK, ReadsFrom
<1>4. Len(request_[c]) \in Nat \ {0} /\ Len(stream[c]) \in Nat
  BY <1>1, <1>2
<1>5. \A j \in 1..Len(stream[c]) : stream[c][j] \in Unit /\ stream[c][j].id \in Nat
  <2>1. ASSUME NEW u \in Unit PROVE u.id \in Nat
    <3>1. u.id \in Id
      BY DEF Unit
    <3> QED
      BY <3>1, RequestAssumption
  <2>2. \A i \in 1..Len(stream[c]) : stream[c][i] \in Unit
    BY <1>1
  <2> QED
    BY <2>1, <2>2
<1>6. b + 1 \in 1..Len(stream[c]) /\ stream[c][b + 1] = request_[c][1]
  BY <1>1, <1>3, <1>4
<1> QED
  BY <1>1, <1>3, <1>4, <1>5, <1>6

(* No other request of the peer has its number, so the path is the one the *)
(* peer asked for.                                                         *)
LEMMA PathOfRequest ==
  ASSUME IInv, SegmentInv, NEW c \in Conn, state_[c] = "processing"
  PROVE  PathAsked(c, IdOf(request_[c])) = PathOf(request_[c])
<1>1. PICK b \in 0..Len(stream[c]) : SegmentOK(c, b)
  BY DEF SegmentInv
<1>2. /\ b + 1 \in 1..Len(stream[c]) /\ Len(stream[c]) \in Nat
      /\ stream[c][b + 1] = request_[c][1] /\ request_[c][1].kind \in Method
      /\ \A j \in 1..Len(stream[c]) : stream[c][j].id \in Nat
  BY <1>1, RequestPlace
<1>3. ASSUME NEW j \in 1..Len(stream[c]), stream[c][j].kind \in Method,
             stream[c][j].id = IdOf(request_[c])
      PROVE  j = b + 1
  <2>1. j < b + 1 => stream[c][j].id < stream[c][b + 1].id
    BY <1>2 DEF SegmentInv, Numbered, Method
  <2>2. b + 1 < j => stream[c][b + 1].id < stream[c][j].id
    BY <1>2, <1>3 DEF SegmentInv, Numbered, Method
  <2>3. stream[c][b + 1].id = stream[c][j].id
    BY <1>2, <1>3 DEF IdOf
  <2> QED
    BY <1>2, <2>1, <2>2, <2>3
<1> DEFINE Asked == {u \in {stream[c][j] : j \in 1..Len(stream[c])} :
                       u.kind \in Method /\ u.id = IdOf(request_[c])}
<1>4. Asked = {request_[c][1]}
  <2>1. request_[c][1] \in Asked
    BY <1>2 DEF IdOf
  <2>2. ASSUME NEW u \in Asked PROVE u = request_[c][1]
    BY <1>2, <1>3
  <2> QED
    BY <2>1, <2>2
<1>5. (CHOOSE u \in {stream[c][j] : j \in 1..Len(stream[c])} :
         u.kind \in {"GET", "POST"} /\ u.id = IdOf(request_[c])) = request_[c][1]
  BY <1>4 DEF Method
<1> QED
  BY <1>5 DEF PathAsked, PathOf

(* Every reply that is sent is one the handler gives for the path of its   *)
(* request on a thread of the kind it ran on.                              *)
THEOREM RepliesAreFit == Spec => []RepliesFit
<1>1. Init => RepliesFit
  BY DEF Init, RepliesFit
<1>2. IInv /\ SegmentInv /\ FitInv /\ RepliesFit /\ [Next]_vars => RepliesFit'
  <2> SUFFICES ASSUME IInv, SegmentInv, FitInv, RepliesFit, [Next]_vars PROVE RepliesFit'
    OBVIOUS
  <2>1. ASSUME UNCHANGED <<stream, replied>> PROVE RepliesFit'
    BY <2>1 DEF RepliesFit, PathAsked
  <2>2. ASSUME NEW c \in Conn, HandleWrite(c) PROVE RepliesFit'
    <3> DEFINE d == [id |-> IdOf(request_[c]), code |-> http_ret_[c], by |-> by[c]]
    <3>1. stream' = stream /\ io[c] = "write"
      BY <2>2 DEF HandleWrite
    <3>2. CASE ~ shut[c] /\ replied' = [replied EXCEPT ![c] = Append(replied[c], d)]
      <4>1. state_[c] = "processing"
        BY <3>1 DEF IInv, ReadInv
      <4>2. http_ret_[c] \in Outcome(PathOf(request_[c]), by[c] = "pool")
        BY <3>1, <3>2 DEF FitInv, FitOK
      <4>3. d.code \in Outcome(PathAsked(c, d.id), d.by = "pool")
        BY <4>1, <4>2, PathOfRequest
      <4> HIDE DEF d
      <4>4. replied \in [Conn -> Seq(Reply)]
        BY DEF IInv, TypeOK
      <4>5. replied'[c] = Append(replied[c], d) /\ \A e \in Conn \ {c} : replied'[e] = replied[e]
        BY <3>2, <4>4
      <4> SUFFICES ASSUME NEW e \in Conn, NEW i \in 1..Len(replied'[e])
                   PROVE  replied'[e][i].code \in
                            Outcome(PathAsked(e, replied'[e][i].id), replied'[e][i].by = "pool")
        BY <3>1 DEF RepliesFit, PathAsked
      <4>6. CASE e # c
        BY <4>5, <4>6 DEF RepliesFit
      <4>7. CASE e = c
        <5>1. replied[c] \in Seq(Reply)
          BY <4>4
        <5>2. i \in 1..Len(replied[c]) \/ i = Len(replied[c]) + 1
          BY <4>5, <4>7, <5>1
        <5>3. CASE i \in 1..Len(replied[c])
          <6>1. replied'[e][i] = replied[c][i]
            BY <4>5, <4>7, <5>1, <5>3
          <6> QED
            BY <4>7, <5>3, <6>1 DEF RepliesFit
        <5>4. CASE i = Len(replied[c]) + 1
          <6>1. replied'[e][i] = d
            BY <4>5, <4>7, <5>1, <5>4
          <6> QED
            BY <4>3, <4>7, <6>1
        <5> QED
          BY <5>2, <5>3, <5>4
      <4> QED
        BY <4>6, <4>7
    <3>3. CASE UNCHANGED replied
      BY <2>1, <3>1, <3>3
    <3> QED
      BY <2>2, <3>2, <3>3 DEF HandleWrite
  <2>3. ASSUME NEW c \in Conn, Accept(c) \/ ReadHeader(c) \/ ReadPost(c) \/ ReadError(c)
        PROVE  RepliesFit'
    BY <2>1, <2>3 DEF Accept, ReadHeader, ReadPost, ReadError
  <2>4. CASE Scan \/ Choose \/ Push
    BY <2>1, <2>4 DEF Scan, Choose, Push, conn_vars
  <2>5. ASSUME NEW t \in Tid, Thread(t) \/ Spurious(t) PROVE RepliesFit'
    BY <2>1, <2>5 DEF Thread, Lock, Pop, Process, Wait, Wake, Spurious, conn_vars
  <2>6. CASE UNCHANGED vars
    BY <2>1, <2>6 DEF vars
  <2> QED
    BY <2>2, <2>3, <2>4, <2>5, <2>6 DEF Next, Callback
<1>3. Spec => []FitInv
  BY FitInit, FitStep, Invariance, PTL DEF Spec
<1> QED
  BY <1>1, <1>2, <1>3, SegmentInvariance, PTL DEF Spec

(* A number that fits an unsigned int is not changed by the conversion.    *)
LEMMA SmallModulo ==
  ASSUME NEW m \in Nat \ {0}, NEW n \in 0..(m - 1)
  PROVE  n % m = n
<1>1. n \in Nat /\ m \in Nat /\ n < m
  OBVIOUS
<1> QED
  BY <1>1

(* The first end of a header that was found in a request is the one of     *)
(* that request, and it comes before those of later requests.              *)
LEMMA HeaderPlace ==
  ASSUME IInv, SegmentInv, NEW c \in Conn, state_[c] = "processing",
         NEW b \in 0..Len(stream[c]), SegmentOK(c, b), HeaderEnds(request_[c])
  PROVE  FirstOf(c, "end", IdOf(request_[c]), b + First(request_[c], "end"))
<1> DEFINE r == request_[c]
           e == First(r, "end")
           s == stream[c]
<1>1. /\ b + 1 \in 1..Len(s) /\ Len(r) \in Nat \ {0} /\ Len(s) \in Nat
      /\ s[b + 1] = r[1] /\ r[1].kind \in Method /\ b + Len(r) <= Len(s)
      /\ \A i \in 1..Len(r) : r[i] = s[b + i]
      /\ \A j \in 1..Len(s) : s[j].id \in Nat
  BY RequestPlace
<1>2. e \in 1..Len(r) /\ r[e].kind = "end" /\ \A j \in 1..(e - 1) : r[j].kind # "end"
  <2>1. r \in Seq(Unit)
    BY DEF IInv, TypeOK
  <2> QED
    BY <2>1, FirstIsThere DEF HeaderEnds
<1>3. Numbered(s)
  BY DEF SegmentInv
<1>4. IdOf(r) = s[b + 1].id
  BY <1>1 DEF IdOf
<1> HIDE DEF r, e, s
<1>5. b + e \in 1..Len(s) /\ s[b + e].kind = "end" /\ b + 1 <= b + e /\ b \in Nat /\ e \in Nat
  BY <1>1, <1>2
<1>6. ASSUME NEW k \in 1..(b + e - 1), s[k].kind = "end" PROVE s[k].id # s[b + 1].id
  <2>1. k \in 1..Len(s) /\ k \in Nat
    BY <1>1, <1>5
  <2>2. CASE k < b + 1
    BY <1>1, <1>3, <2>1, <2>2 DEF Numbered, Method
  <2>3. CASE k = b + 1
    BY <1>1, <1>6, <2>3 DEF Method
  <2>4. CASE b + 1 < k
    <3>1. k - b \in 1..(e - 1) /\ k - b \in 1..Len(r) /\ b + (k - b) = k
      BY <1>1, <1>2, <1>5, <2>1, <2>4
    <3>2. r[k - b] = s[k]
      BY <1>1, <3>1
    <3> QED
      BY <1>2, <1>6, <3>1, <3>2
  <2> QED
    BY <1>1, <2>1, <2>2, <2>3, <2>4
<1>7. s[b + e].id = s[b + 1].id
  <2>1. CASE e = 1
    BY <2>1
  <2>2. CASE e # 1
    <3>1. b + 1 < b + e
      BY <1>2, <1>5, <2>2
    <3>2. s[b + 1].id <= s[b + e].id
      BY <1>1, <1>3, <1>5, <3>1 DEF Numbered
    <3>3. ASSUME s[b + 1].id < s[b + e].id PROVE FALSE
      <4>1. PICK k \in 1..Len(s) : s[k].kind = "end" /\ s[k].id = s[b + 1].id
        BY <1>1, <1>3, <1>5, <3>1, <3>3 DEF Numbered
      <4>2. ~ (k < b + e)
        BY <1>5, <1>6, <4>1
      <4>3. k # b + e
        BY <1>1, <1>5, <3>3, <4>1
      <4>4. b + e < k
        BY <1>5, <4>2, <4>3
      <4>5. s[b + e].id <= s[k].id
        BY <1>3, <1>5, <4>4 DEF Numbered
      <4> QED
        BY <1>1, <1>5, <3>3, <4>1, <4>5
    <3> QED
      BY <1>1, <1>5, <3>2, <3>3
  <2> QED
    BY <2>1, <2>2
<1> QED
  BY <1>4, <1>5, <1>6, <1>7 DEF FirstOf, r, e, s

(* The length that was found in a request is the first its header has, if  *)
(* its header has one at all.                                              *)
LEMMA LengthPlace ==
  ASSUME IInv, SegmentInv, NEW c \in Conn, state_[c] = "processing",
         NEW b \in 0..Len(stream[c]), SegmentOK(c, b), HeaderEnds(request_[c]),
         NEW i \in 1..(b + First(request_[c], "end")),
         FirstOf(c, "length", IdOf(request_[c]), i)
  PROVE  Declared(request_[c]) = stream[c][i].n
<1>0. /\ b + 1 \in 1..Len(stream[c]) /\ Len(request_[c]) \in Nat \ {0}
      /\ stream[c][b + 1] = request_[c][1] /\ request_[c][1].kind \in Method
      /\ b + Len(request_[c]) <= pos[c]
      /\ pos[c] \in 0..Len(stream[c]) /\ Len(stream[c]) \in Nat
      /\ \A k \in 1..Len(request_[c]) : request_[c][k] = stream[c][b + k]
      /\ \A j \in 1..Len(stream[c]) : stream[c][j] \in Unit /\ stream[c][j].id \in Nat
  BY RequestPlace
<1> DEFINE r == request_[c]
           e == First(r, "end")
           f == First(r, "length")
           s == stream[c]
<1>1. /\ b + 1 \in 1..Len(s) /\ Len(r) \in Nat \ {0} /\ Len(s) \in Nat
      /\ s[b + 1] = r[1] /\ r[1].kind \in Method /\ b + Len(r) <= Len(s)
      /\ \A j \in 1..Len(r) : r[j] = s[b + j]
      /\ \A j \in 1..Len(s) : s[j].id \in Nat
  BY <1>0
<1>2. r \in Seq(Unit) /\ e \in 1..Len(r)
  <2>1. r \in Seq(Unit)
    BY DEF IInv, TypeOK
  <2> QED
    BY <2>1, FirstIsThere DEF HeaderEnds
<1>3. Numbered(s)
  BY DEF SegmentInv
<1>4. /\ s[i].kind = "length" /\ s[i].id = s[b + 1].id
      /\ \A j \in 1..(i - 1) : ~ (s[j].kind = "length" /\ s[j].id = s[b + 1].id)
  BY <1>1 DEF IdOf, FirstOf
<1> HIDE DEF r, e, s
<1>5. i \in 1..Len(s) /\ i \in Nat /\ b \in Nat
  BY <1>1, <1>2 DEF e, r
<1>6. b + 1 < i
  <2>1. i # b + 1
    BY <1>1, <1>4 DEF Method
  <2>2. ~ (i < b + 1)
    BY <1>1, <1>3, <1>4, <1>5 DEF Numbered, Method
  <2> QED
    BY <1>5, <2>1, <2>2
<1>7. i - b \in 1..Len(r) /\ r[i - b] = s[i]
  <2>1. i - b \in 1..Len(r) /\ b + (i - b) = i
    BY <1>1, <1>2, <1>5, <1>6 DEF e, r
  <2> QED
    BY <1>1, <2>1
<1>8. f \in 1..Len(r) /\ r[f].kind = "length" /\ \A j \in 1..(f - 1) : r[j].kind # "length"
  BY <1>2, <1>4, <1>7, FirstIsThere DEF Has
<1> HIDE DEF f
<1>9. b + f \in 1..Len(s) /\ b + f <= i /\ b + 1 <= b + f /\ f \in Nat
  <2>1. ~ (i - b < f)
    BY <1>4, <1>5, <1>7, <1>8
  <2> QED
    BY <1>1, <1>5, <1>7, <1>8, <2>1
<1>10. r[f] = s[b + f]
  BY <1>1, <1>8
<1>11. s[b + 1].id <= s[b + f].id /\ s[b + f].id <= s[i].id
  <2>1. b + 1 < b + f => s[b + 1].id <= s[b + f].id
    BY <1>1, <1>3, <1>9 DEF Numbered
  <2>2. b + f < i => s[b + f].id <= s[i].id
    BY <1>3, <1>5, <1>9 DEF Numbered
  <2> QED
    BY <1>1, <1>5, <1>9, <2>1, <2>2
<1>12. s[b + f].id = s[b + 1].id
  BY <1>1, <1>4, <1>5, <1>9, <1>11
<1>13. b + f = i
  BY <1>4, <1>5, <1>8, <1>9, <1>10, <1>12
<1> QED
  BY <1>10, <1>13 DEF Declared, f, r, s

(* A POST reaches the handler with the body its peer sent, all that was    *)
(* read of it and at least what its header declares.                       *)
THEOREM BodyIsExact == Spec => []BodyExact
<1>1. IInv /\ SegmentInv => BodyExact
  <2> SUFFICES ASSUME IInv, SegmentInv, NEW c \in Conn,
                      state_[c] = "processing", request_[c][1].kind = "POST"
               PROVE  \E header \in 1..Len(stream[c]) :
                        /\ FirstOf(c, "end", IdOf(request_[c]), header)
                        /\ post_[c] = SubSeq(stream[c], header + 1, pos[c])
                        /\ \A i \in 1..header :
                             FirstOf(c, "length", IdOf(request_[c]), i)
                               /\ stream[c][i].n \in 0..(UINT - 1) =>
                             Len(post_[c]) >= stream[c][i].n
    BY DEF BodyExact
  <2>1. PICK b \in 0..Len(stream[c]) : SegmentOK(c, b)
    BY DEF SegmentInv
  <2>2. HasBody(c, b) /\ Len(post_[c]) >= postsize_[c]
    BY <2>1 DEF SegmentOK
  <2>3. HeaderEnds(request_[c])
    BY <2>2 DEF HasBody, EntersPost
  <2> DEFINE header == b + First(request_[c], "end")
  <2>4. header \in 1..Len(stream[c])
    <3>1. First(request_[c], "end") \in 1..Len(request_[c])
      BY <2>3, FirstIsThere DEF IInv, TypeOK, HeaderEnds
    <3>2. /\ Len(request_[c]) \in Nat /\ Len(stream[c]) \in Nat
          /\ b + Len(request_[c]) <= pos[c] /\ pos[c] \in 0..Len(stream[c])
      BY <2>1, RequestPlace
    <3> QED
      BY <3>1, <3>2
  <2>5. FirstOf(c, "end", IdOf(request_[c]), header)
    BY <2>1, <2>3, HeaderPlace
  <2>6. post_[c] = SubSeq(stream[c], header + 1, pos[c])
    BY <2>2 DEF HasBody
  <2>7. ASSUME NEW i \in 1..header, FirstOf(c, "length", IdOf(request_[c]), i),
               stream[c][i].n \in 0..(UINT - 1)
        PROVE  Len(post_[c]) >= stream[c][i].n
    <3>1. Declared(request_[c]) = stream[c][i].n
      BY <2>1, <2>3, <2>7, LengthPlace
    <3>2. stream[c][i].n % UINT = stream[c][i].n
      BY <2>7, SmallModulo, RequestAssumption
    <3> QED
      BY <2>2, <3>1, <3>2 DEF HasBody, PostSize
  <2> HIDE DEF header
  <2> QED
    BY <2>4, <2>5, <2>6, <2>7
<1> QED
  BY <1>1, SegmentInvariance, PTL

-----------------------------------------------------------------------------
(***************************************************************************)
(* The refinement: the server, with its threads and queues, implements     *)
(* Responder.                                                              *)
(***************************************************************************)
PhaseOf(c) == IF state_[c] = "processing" THEN "serving"
              ELSE IF io[c] = "closed" THEN "over" ELSE "idle"

SentBy(c) == [i \in 1..Len(replied[c]) |-> replied[c][i].id]

LEMMA PeerStutters ==
  ASSUME \A c \in Conn : PhaseOf(c)' = PhaseOf(c), UNCHANGED <<taken, replied>>
  PROVE  UNCHANGED Peer!rvars
  BY DEF Peer!rvars, PhaseOf

(* A callback that has read a whole request takes it up.                   *)
LEMMA PeerTakes ==
  ASSUME IInv, NEW c \in Conn, state_[c] # "processing", io[c] = "read",
         NEW id \in Id, id > taken[c], taken' = [taken EXCEPT ![c] = id],
         state_' = [state_ EXCEPT ![c] = "processing"], replied' = replied,
         \A d \in Conn \ {c} : io'[d] = io[d]
  PROVE  Peer!Take(c)
<1>1. state_' \in [Conn -> {"header", "post", "processing"}] /\ state_'[c] = "processing"
      /\ \A d \in Conn \ {c} : state_'[d] = state_[d]
  BY DEF IInv, TypeOK
<1>2. PhaseOf(c) = "idle" /\ PhaseOf(c)' = "serving"
  BY <1>1 DEF PhaseOf
<1>3. \A d \in Conn \ {c} : PhaseOf(d)' = PhaseOf(d)
  BY <1>1 DEF PhaseOf
<1>4. [d \in Conn |-> PhaseOf(d)'] = [[d \in Conn |-> PhaseOf(d)] EXCEPT ![c] = "serving"]
  BY <1>2, <1>3
<1> QED
  BY <1>2, <1>4 DEF Peer!Take, PhaseOf

(* A connection is given up.                                               *)
LEMMA PeerCloses ==
  ASSUME IInv, NEW c \in Conn, state_[c] # "processing", io[c] # "closed",
         io' = [io EXCEPT ![c] = "closed"], UNCHANGED <<state_, taken, replied>>
  PROVE  Peer!Close(c)
<1>1. io'[c] = "closed" /\ \A d \in Conn \ {c} : io'[d] = io[d]
  BY DEF IInv, TypeOK
<1>2. PhaseOf(c) = "idle" /\ PhaseOf(c)' = "over"
  BY <1>1 DEF PhaseOf
<1>3. \A d \in Conn \ {c} : PhaseOf(d)' = PhaseOf(d)
  BY <1>1 DEF PhaseOf
<1>4. [d \in Conn |-> PhaseOf(d)'] = [[d \in Conn |-> PhaseOf(d)] EXCEPT ![c] = "over"]
  BY <1>2, <1>3
<1> QED
  BY <1>2, <1>4 DEF Peer!Close, PhaseOf

(* The reply to the request that was taken up is sent, or lost.            *)
LEMMA PeerFinishes ==
  ASSUME IInv, SegmentInv, NEW c \in Conn, HandleWrite(c)
  PROVE  Peer!Finish(c)
<1> DEFINE d == [id |-> IdOf(request_[c]), code |-> http_ret_[c], by |-> by[c]]
<1>1. /\ io[c] = "write" /\ state_' = [state_ EXCEPT ![c] = "header"]
      /\ io' = [io EXCEPT ![c] = "read"] /\ taken' = taken
      /\ replied' = [replied EXCEPT ![c] = Append(replied[c], d)] \/ replied' = replied
  BY DEF HandleWrite
<1>2. state_[c] = "processing"
  BY <1>1 DEF IInv, ReadInv
<1>3. d.id = taken[c]
  BY <1>2 DEF SegmentInv, SegmentOK, ReadsFrom
<1> HIDE DEF d
<1>4. /\ state_'[c] = "header" /\ io'[c] = "read"
      /\ \A e \in Conn \ {c} : state_'[e] = state_[e] /\ io'[e] = io[e]
  BY <1>1 DEF IInv, TypeOK
<1>5. PhaseOf(c) = "serving" /\ PhaseOf(c)' = "idle"
      /\ \A e \in Conn \ {c} : PhaseOf(e)' = PhaseOf(e)
  BY <1>2, <1>4 DEF PhaseOf
<1>6. [e \in Conn |-> PhaseOf(e)'] = [[e \in Conn |-> PhaseOf(e)] EXCEPT ![c] = "idle"]
  BY <1>5
<1>7. replied \in [Conn -> Seq(Reply)] /\ replied[c] \in Seq(Reply)
  BY DEF IInv, TypeOK
<1>8. ASSUME replied' = [replied EXCEPT ![c] = Append(replied[c], d)]
      PROVE  [e \in Conn |-> SentBy(e)'] =
               [[e \in Conn |-> SentBy(e)] EXCEPT ![c] = Append(SentBy(c), taken[c])]
  <2>1. replied'[c] = Append(replied[c], d) /\ \A e \in Conn \ {c} : replied'[e] = replied[e]
    BY <1>7, <1>8
  <2>2. SentBy(c)' = Append(SentBy(c), taken[c])
    <3> DEFINE n == Len(replied[c])
    <3>1. n \in Nat /\ Len(replied'[c]) = n + 1 /\ replied'[c][n + 1] = d
          /\ \A i \in 1..n : replied'[c][i] = replied[c][i]
      BY <1>7, <2>1
    <3> HIDE DEF n
    <3>2. SentBy(c)' = [i \in 1..(n + 1) |-> replied'[c][i].id]
      BY <3>1 DEF SentBy
    <3>3. \A i \in 1..(n + 1) : i \in 1..n \/ i = n + 1
      BY <3>1
    <3>4. SentBy(c)' = [i \in 1..(n + 1) |-> IF i \in 1..n THEN replied[c][i].id ELSE taken[c]]
      BY <1>3, <3>1, <3>2, <3>3
    <3>5. SentBy(c) = [i \in 1..n |-> replied[c][i].id]
      BY DEF SentBy, n
    <3>6. Len(SentBy(c)) = n
      BY <3>1, <3>5
    <3>7. Append(SentBy(c), taken[c]) =
            [i \in 1..(n + 1) |-> IF i = n + 1 THEN taken[c] ELSE SentBy(c)[i]]
      BY <3>6
    <3>8. \A i \in 1..(n + 1) : (i = n + 1 <=> i \notin 1..n) /\ (i \in 1..n => SentBy(c)[i] = replied[c][i].id)
      BY <3>1, <3>5
    <3> QED
      BY <3>4, <3>7, <3>8
  <2>3. \A e \in Conn \ {c} : SentBy(e)' = SentBy(e)
    BY <2>1 DEF SentBy
  <2> QED
    BY <2>2, <2>3
<1>9. CASE replied' = [replied EXCEPT ![c] = Append(replied[c], d)]
  BY <1>1, <1>5, <1>6, <1>8, <1>9 DEF Peer!Finish, PhaseOf, SentBy
<1>10. CASE replied' = replied
  BY <1>1, <1>5, <1>6, <1>10 DEF Peer!Finish, PhaseOf
<1> QED
  BY <1>1, <1>9, <1>10

(* A callback that reads.                                                  *)
LEMMA ReadHeaderTakes ==
  ASSUME IInv, SegmentInv, NEW c \in Conn, ReadHeader(c)
  PROVE  Peer!Take(c) \/ Peer!Close(c) \/ UNCHANGED Peer!rvars
<1>0. TypeOK
  BY DEF IInv
<1>1. PICK k \in 1..Len(stream[c]) :
        LET r == request_[c] \o Chunk(c, k) IN
        /\ Arrived(c, k)
        /\ \/ /\ io' = [io EXCEPT ![c] = "closed"]
              /\ UNCHANGED <<state_, threaded_, http_ret_, by, taken, net>>
           \/ /\ state_' = [state_ EXCEPT ![c] = IF EntersPost(r) THEN "post" ELSE @]
              /\ UNCHANGED <<io, threaded_, http_ret_, by, taken, net>>
           \/ /\ ParseHeader(r) = 0
              /\ state_' = [state_ EXCEPT ![c] = "processing"]
              /\ ProcessOnNet(c, r)
  BY DEF ReadHeader
<1>2. replied' = replied /\ state_[c] = "header" /\ io[c] = "read"
  BY DEF ReadHeader
<1> DEFINE r == request_[c] \o Chunk(c, k)
<1>3. \/ /\ io' = [io EXCEPT ![c] = "closed"]
         /\ UNCHANGED <<state_, taken>>
      \/ /\ state_' = [state_ EXCEPT ![c] = IF EntersPost(r) THEN "post" ELSE @]
         /\ UNCHANGED <<io, taken>>
      \/ /\ ParseHeader(r) = 0
         /\ state_' = [state_ EXCEPT ![c] = "processing"]
         /\ ProcessOnNet(c, r)
  BY <1>1
<1>4. pos[c] + k <= Len(stream[c]) /\ request_[c] \in Seq(Unit) /\ Len(stream[c]) \in Nat
  BY <1>0, <1>1 DEF Arrived, TypeOK
<1>5. PICK b \in 0..Len(stream[c]) : SegmentOK(c, b)
  BY DEF SegmentInv
<1>6. /\ b + Len(request_[c]) = pos[c]
      /\ \A i \in 1..Len(request_[c]) : request_[c][i] = stream[c][b + i]
      /\ \A j \in (b + 1)..Len(stream[c]) : stream[c][j].kind \in Method => stream[c][j].id > taken[c]
  BY <1>2, <1>5 DEF SegmentOK, ReadsFrom
<1>7. r \in Seq(Unit) /\ r # << >>
  BY <1>0, <1>4, ChunkType
<1>8. b + Len(r) = pos[c] + k /\ \A i \in 1..Len(r) : r[i] = stream[c][b + i]
  BY <1>0, <1>4, <1>6, ReadsOn
<1> HIDE DEF r
<1>9. CASE /\ io' = [io EXCEPT ![c] = "closed"]
           /\ UNCHANGED <<state_, taken>>
  BY <1>2, <1>9, PeerCloses
<1>10. CASE /\ state_' = [state_ EXCEPT ![c] = IF EntersPost(r) THEN "post" ELSE @]
            /\ UNCHANGED <<io, taken>>
  <2>1. \A d \in Conn : PhaseOf(d)' = PhaseOf(d)
    BY <1>0, <1>2, <1>10 DEF PhaseOf, TypeOK
  <2> QED
    BY <1>2, <1>10, <2>1, PeerStutters
<1>11. CASE /\ ParseHeader(r) = 0
            /\ state_' = [state_ EXCEPT ![c] = "processing"]
            /\ ProcessOnNet(c, r)
  <2>1. r[1].kind \in Method
    BY <1>11 DEF ParseHeader, IsGet, IsPost, Method
  <2>2. b + 1 \in (b + 1)..Len(stream[c]) /\ r[1] = stream[c][b + 1]
    BY <1>4, <1>7, <1>8
  <2>3. IdOf(r) > taken[c]
    BY <1>6, <2>1, <2>2 DEF IdOf
  <2>4. IdOf(r) \in Id /\ taken' = [taken EXCEPT ![c] = IdOf(r)]
    BY <1>7, <1>11, FirstUnit DEF ProcessOnNet
  <2>5. \A d \in Conn \ {c} : io'[d] = io[d]
    <3>1. io' = [io EXCEPT ![c] = "write"] \/ io' = [io EXCEPT ![c] = "none"]
      BY <1>0, <1>7, <1>11, ProcessOnNetType
    <3> QED
      BY <1>0, <3>1 DEF TypeOK
  <2> QED
    BY <1>2, <1>11, <2>3, <2>4, <2>5, PeerTakes
<1> QED
  BY <1>3, <1>9, <1>10, <1>11

LEMMA ReadPostTakes ==
  ASSUME IInv, SegmentInv, NEW c \in Conn, ReadPost(c)
  PROVE  Peer!Take(c) \/ UNCHANGED Peer!rvars
<1>0. TypeOK /\ ReadInv
  BY DEF IInv
<1>1. /\ replied' = replied /\ state_[c] = "post" /\ io[c] = "read"
      /\ \/ UNCHANGED <<state_, io, threaded_, http_ret_, by, taken, net>>
         \/ state_' = [state_ EXCEPT ![c] = "processing"] /\ ProcessOnNet(c, request_[c])
  BY DEF ReadPost
<1>2. CASE UNCHANGED <<state_, io, threaded_, http_ret_, by, taken, net>>
  BY <1>1, <1>2, PeerStutters DEF PhaseOf
<1>3. CASE state_' = [state_ EXCEPT ![c] = "processing"] /\ ProcessOnNet(c, request_[c])
  <2>1. request_[c] \in Seq(Unit) /\ request_[c] # << >>
        /\ stream[c] \in Seq(Unit) /\ pos[c] \in 0..Len(stream[c])
    BY <1>0, <1>1 DEF TypeOK, ReadInv
  <2>2. PICK b \in 0..Len(stream[c]) : SegmentOK(c, b)
    BY DEF SegmentInv
  <2>3. /\ b + Len(request_[c]) <= pos[c] /\ request_[c][1].kind \in Method
        /\ \A i \in 1..Len(request_[c]) : request_[c][i] = stream[c][b + i]
        /\ \A j \in (b + 1)..Len(stream[c]) : stream[c][j].kind \in Method => stream[c][j].id > taken[c]
    BY <1>1, <2>2 DEF SegmentOK, ReadsFrom
  <2>4. b + 1 \in (b + 1)..Len(stream[c]) /\ request_[c][1] = stream[c][b + 1]
    BY <2>1, <2>3
  <2>5. IdOf(request_[c]) > taken[c]
    BY <2>3, <2>4 DEF IdOf
  <2>6. IdOf(request_[c]) \in Id /\ taken' = [taken EXCEPT ![c] = IdOf(request_[c])]
    BY <1>3, <2>1, FirstUnit DEF ProcessOnNet
  <2>7. \A d \in Conn \ {c} : io'[d] = io[d]
    <3>1. io' = [io EXCEPT ![c] = "write"] \/ io' = [io EXCEPT ![c] = "none"]
      BY <1>0, <1>3, <2>1, ProcessOnNetType
    <3> QED
      BY <1>0, <3>1 DEF TypeOK
  <2> QED
    BY <1>1, <1>3, <2>5, <2>6, <2>7, PeerTakes
<1> QED
  BY <1>1, <1>2, <1>3

LEMMA PeerStep == IInv /\ SegmentInv /\ [Next]_vars => [Peer!Next]_(Peer!rvars)
<1> SUFFICES ASSUME IInv, SegmentInv, [Next]_vars PROVE Peer!Next \/ UNCHANGED Peer!rvars
  OBVIOUS
<1>1. ASSUME UNCHANGED <<state_, io, taken, replied>> PROVE UNCHANGED Peer!rvars
  BY <1>1, PeerStutters DEF PhaseOf
<1>2. ASSUME NEW c \in Conn, Accept(c) \/ ReadError(c)
      PROVE  Peer!Close(c) \/ UNCHANGED Peer!rvars
  <2>1. /\ UNCHANGED <<state_, taken, replied>> /\ io[c] \in {"accept", "read"}
        /\ \E next \in {"read", "closed"} : io' = [io EXCEPT ![c] = next]
    BY <1>2 DEF Accept, ReadError
  <2>2. CASE state_[c] # "processing" /\ io' = [io EXCEPT ![c] = "closed"]
    BY <2>1, <2>2, PeerCloses
  <2>3. CASE state_[c] = "processing" \/ io' = [io EXCEPT ![c] = "read"]
    <3>1. \A d \in Conn : PhaseOf(d)' = PhaseOf(d)
      BY <2>1, <2>3 DEF PhaseOf, IInv, TypeOK
    <3> QED
      BY <2>1, <3>1, PeerStutters
  <2> QED
    BY <2>1, <2>2, <2>3
<1>3. CASE Scan \/ Choose \/ Push
  BY <1>1, <1>3 DEF Scan, Choose, Push, conn_vars
<1>4. ASSUME NEW t \in Tid, Thread(t) \/ Spurious(t) PROVE UNCHANGED Peer!rvars
  <2>1. CASE Process(t)
    <3>1. UNCHANGED <<state_, taken, replied>> /\ worker[t] = "process"
      BY <2>1 DEF Process
    <3>2. PICK c \in Conn : c = serves[t]
      BY <3>1 DEF IInv, ServeInv, TypeOK
    <3>3. io[c] = "none" /\ io' = [io EXCEPT ![c] = "write"]
      BY <2>1, <3>2 DEF Process, BeginResponse, IInv, OneHolder, Holds
    <3>4. \A d \in Conn : PhaseOf(d)' = PhaseOf(d)
      BY <3>1, <3>3 DEF PhaseOf, IInv, TypeOK
    <3> QED
      BY <3>1, <3>4, PeerStutters
  <2> QED
    BY <1>1, <1>4, <2>1 DEF Thread, Lock, Pop, Wait, Wake, Spurious, conn_vars
<1>5. CASE UNCHANGED vars
  BY <1>1, <1>5 DEF vars
<1>6. ASSUME NEW c \in Conn, Callback(c) PROVE Peer!Take(c) \/ Peer!Finish(c) \/ Peer!Close(c) \/ UNCHANGED Peer!rvars
  BY <1>6, ReadHeaderTakes, ReadPostTakes, PeerFinishes DEF Callback
<1> QED
  BY <1>2, <1>3, <1>4, <1>5, <1>6 DEF Next, Peer!Next

(* The server implements Responder: the requests of a connection are       *)
(* served in the order they were sent and none twice, and a reply that is  *)
(* sent is to the one being served, whichever thread has it.               *)
THEOREM RespondsInOrder == Spec => ImplementsResponder
<1>1. Init => Peer!Init
  BY DEF Init, Peer!Init
<1> QED
  BY <1>1, PeerStep, SegmentInvariance, PTL DEF Spec, ImplementsResponder, Peer!Spec
=============================================================================
