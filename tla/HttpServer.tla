----------------------------- MODULE HttpServer -----------------------------
(***************************************************************************)
(* The HTTP server of the browse server (browse_server/http_server.cpp):   *)
(* connections, whose callbacks run on the one thread in io_service::run,  *)
(* and a pool of threads, each with a queue, a mutex and a condition       *)
(* variable, to which the network thread hands a connection whose handler  *)
(* returns HTTP_SWITCH_THREAD.                                             *)
(*                                                                         *)
(* The handler is a function pointer; the one in main.cpp serves all on    *)
(* the network thread and has the switch commented out (289-290).  Here it *)
(* is a constant: what it may return for a path, given in_threadpool().    *)
(* A callback is one step, except that push_to_threadpool, which the       *)
(* network thread runs beside the pool threads, is cut where it reads or   *)
(* takes what they change.                                                 *)
(***************************************************************************)
EXTENDS HttpRequest

CONSTANTS
  Conn,            \* the connections, in the order of acceptance or any other
  Streams,         \* what the peers may send: functions from Conn to units
  Handler,         \* Handler[<<path, in_threadpool>>], a set of return values
  MAX_THREAD_SIZE, \* 16
  NoConn

HTTP_SWITCH_THREAD == -100
HTTP_503 == 2
HTTP_508 == 3
HTTP_END == 5

ASSUME ServerAssumption ==
  /\ NoConn \notin Conn
  /\ Streams \subseteq [Conn -> Seq(Unit)]
  /\ Handler \in [Path \X BOOLEAN -> SUBSET Int]
  /\ MAX_THREAD_SIZE \in Nat \ {0}

(* How the units of a peer are numbered: in the order it sends them, with  *)
(* a method as the first unit of its request, and one request begun only   *)
(* when the header of the one before it is complete.                       *)
Numbered(s) ==
  /\ \A i, j \in 1..Len(s) :
       i < j => /\ s[i].id <= s[j].id
                /\ s[j].kind \in {"GET", "POST"} => s[i].id < s[j].id
                /\ s[i].id < s[j].id =>
                     \E k \in 1..Len(s) : s[k].kind = "end" /\ s[k].id = s[i].id

ASSUME PeerAssumption == \A streams \in Streams : \A c \in Conn : Numbered(streams[c])

Tid == 0..(MAX_THREAD_SIZE - 1)
NONE == -1

VARIABLES
  stream,      \* per connection: all that the peer sends
  pos,         \* per connection: the units of it that have been read
  io,          \* per connection: the asynchronous operation it waits for
  shut,        \* per connection: socket_ was shut down, or a write failed
  state_, threaded_, http_ret_, request_, post_, postsize_,
  by,          \* per connection: the thread that set http_ret_
  taken,       \* per connection: the latest request given to the handler
  replied,     \* per connection: the replies sent
  net,         \* the network thread: what it does, for which connection
  threadnum_,  \* the pool threads created so far
  q_,          \* per pool thread: its queue
  worker,      \* per pool thread: where it is in thread_proc
  serves       \* per pool thread: the connection it processes

conn_vars == <<stream, pos, io, shut, state_, threaded_, http_ret_,
               request_, post_, postsize_, by, taken, replied>>
pool_vars == <<net, threadnum_, q_, worker, serves>>
vars == <<stream, pos, io, shut, state_, threaded_, http_ret_, request_, post_,
          postsize_, by, taken, replied, net, threadnum_, q_, worker, serves>>

Running == [pc |-> "run", conn |-> NoConn, i |-> 0, choice |-> NONE]

-----------------------------------------------------------------------------
Init ==
  /\ stream \in Streams
  /\ pos = [c \in Conn |-> 0]
  /\ io = [c \in Conn |-> "accept"]
  /\ shut = [c \in Conn |-> FALSE]
  /\ state_ = [c \in Conn |-> "header"]
  /\ threaded_ = [c \in Conn |-> FALSE]
  /\ http_ret_ = [c \in Conn |-> 0]
  /\ request_ = [c \in Conn |-> << >>]
  /\ post_ = [c \in Conn |-> << >>]
  /\ postsize_ = [c \in Conn |-> 0]
  /\ by = [c \in Conn |-> "net"]
  /\ taken = [c \in Conn |-> 0]
  /\ replied = [c \in Conn |-> << >>]
  /\ net = Running
  /\ threadnum_ = 0
  /\ q_ = [t \in Tid |-> << >>]
  /\ worker = [t \in Tid |-> "none"]
  /\ serves = [t \in Tid |-> NoConn]

-----------------------------------------------------------------------------
(***************************************************************************)
(* Connections, on the network thread                                      *)
(***************************************************************************)
Dispatch == net.pc = "run"

(* handle_accept: start the connection, or drop it after an error.  Then   *)
(* start_accept waits for the next.                                        *)
Accept(c) ==
  /\ Dispatch /\ io[c] = "accept"
  /\ \E next \in {"read", "closed"} : io' = [io EXCEPT ![c] = next]
  /\ UNCHANGED <<stream, pos, shut, state_, threaded_, http_ret_, request_, post_,
                 postsize_, by, taken, replied, pool_vars>>

(* begin_response: a return value out of range becomes 503; then the reply *)
(* is written.                                                             *)
BeginResponse(c, ret, thread) ==
  /\ http_ret_' = [http_ret_ EXCEPT ![c] =
                     IF ret < 0 \/ ret >= HTTP_END THEN HTTP_503 ELSE ret]
  /\ by' = [by EXCEPT ![c] = thread]
  /\ io' = [io EXCEPT ![c] = "write"]

PathOf(r) == r[1].path
IdOf(r)   == r[1].id

(* A deliberately wrong variant, for the sensitivity check of OneHolder:   *)
(* threaded_ is not set.                                                   *)
ProcessOnNet_Unmarked(c, r) ==
  /\ taken' = [taken EXCEPT ![c] = IdOf(r)]
  /\ \E ret \in Handler[<<PathOf(r), threaded_[c]>>] :
       \/ /\ ret # HTTP_SWITCH_THREAD
          /\ BeginResponse(c, ret, "net")
          /\ UNCHANGED net
       \/ /\ ret = HTTP_SWITCH_THREAD
          /\ net' = [pc |-> "scan", conn |-> c, i |-> 0, choice |-> NONE]
          /\ http_ret_' = [http_ret_ EXCEPT ![c] = ret]
          /\ io' = [io EXCEPT ![c] = "none"]
          /\ UNCHANGED by
  /\ UNCHANGED threaded_

(* process_request on the network thread, for the request r.               *)
ProcessOnNet(c, r) ==
  /\ taken' = [taken EXCEPT ![c] = IdOf(r)]
  /\ \E ret \in Handler[<<PathOf(r), threaded_[c]>>] :
       \/ /\ ret # HTTP_SWITCH_THREAD
          /\ BeginResponse(c, ret, "net")
          /\ UNCHANGED <<threaded_, net>>
       \/ /\ ret = HTTP_SWITCH_THREAD /\ threaded_[c]
          /\ BeginResponse(c, HTTP_508, "net")
          /\ UNCHANGED <<threaded_, net>>
       \/ /\ ret = HTTP_SWITCH_THREAD /\ ~ threaded_[c]
          /\ threaded_' = [threaded_ EXCEPT ![c] = TRUE]
          /\ net' = [pc |-> "scan", conn |-> c, i |-> 0, choice |-> NONE]
          /\ http_ret_' = [http_ret_ EXCEPT ![c] = ret]
          /\ io' = [io EXCEPT ![c] = "none"]
          /\ UNCHANGED by

(* The next k units that have arrived, at most a buffer full.  Data that   *)
(* came before the socket was shut down can still be read after it.        *)
Arrived(c, k) ==
  /\ k <= BUFFER /\ pos[c] + k <= Len(stream[c])
  /\ pos' = [pos EXCEPT ![c] = @ + k]

Chunk(c, k) == SubSeq(stream[c], pos[c] + 1, pos[c] + k)

(* handle_read while the header is being read.                             *)
ReadHeader(c) ==
  /\ Dispatch /\ io[c] = "read" /\ state_[c] = "header"
  /\ \E k \in 1..Len(stream[c]) :
       LET r == request_[c] \o Chunk(c, k) IN
       /\ Arrived(c, k)
       /\ request_' = [request_ EXCEPT ![c] = r]
       /\ post_' = [post_ EXCEPT ![c] = IF EntersPost(r) THEN Body(r) ELSE @]
       /\ postsize_' = [postsize_ EXCEPT ![c] = IF EntersPost(r) THEN PostSize(r) ELSE @]
       /\ \/ /\ ParseHeader(r) = -1
             /\ io' = [io EXCEPT ![c] = "closed"]
             /\ UNCHANGED <<state_, threaded_, http_ret_, by, taken, net>>
          \/ /\ ParseHeader(r) = 1
             /\ state_' = [state_ EXCEPT ![c] = IF EntersPost(r) THEN "post" ELSE @]
             /\ UNCHANGED <<io, threaded_, http_ret_, by, taken, net>>
          \/ /\ ParseHeader(r) = 0
             /\ state_' = [state_ EXCEPT ![c] = "processing"]
             /\ ProcessOnNet(c, r)
  /\ UNCHANGED <<stream, shut, replied, threadnum_, q_, worker, serves>>

(* handle_read while the body of a POST is being read.                     *)
ReadPost(c) ==
  /\ Dispatch /\ io[c] = "read" /\ state_[c] = "post"
  /\ \E k \in 1..Len(stream[c]) :
       LET p == post_[c] \o Chunk(c, k) IN
       /\ Arrived(c, k)
       /\ post_' = [post_ EXCEPT ![c] = p]
       /\ \/ /\ Len(p) < postsize_[c]
             /\ UNCHANGED <<state_, io, threaded_, http_ret_, by, taken, net>>
          \/ /\ Len(p) >= postsize_[c]
             /\ state_' = [state_ EXCEPT ![c] = "processing"]
             /\ ProcessOnNet(c, request_[c])
  /\ UNCHANGED <<stream, shut, request_, postsize_, replied, threadnum_, q_, worker, serves>>

(* handle_read with an error.  A peer may close or lose its connection at  *)
(* any time, with or without what it has sent being read first.            *)
ReadError(c) ==
  /\ Dispatch /\ io[c] = "read"
  /\ io' = [io EXCEPT ![c] = "closed"]
  /\ UNCHANGED <<stream, pos, shut, state_, threaded_, http_ret_, request_, post_,
                 postsize_, by, taken, replied, pool_vars>>

(* A deliberately wrong variant, for the sensitivity check of RepliesFit:  *)
(* the socket is not shut down after a reply, as the header it sends,      *)
(* "Connection: Keep-Alive", lets one expect.                              *)
HandleWrite_KeepAlive(c) ==
  /\ Dispatch /\ io[c] = "write"
  /\ ~ shut[c]
  /\ replied' = [replied EXCEPT ![c] = Append(@,
                   [id |-> IdOf(request_[c]), code |-> http_ret_[c], by |-> by[c]])]
  /\ request_' = [request_ EXCEPT ![c] = << >>]
  /\ post_' = [post_ EXCEPT ![c] = << >>]
  /\ postsize_' = [postsize_ EXCEPT ![c] = 0]
  /\ state_' = [state_ EXCEPT ![c] = "header"]
  /\ io' = [io EXCEPT ![c] = "read"]
  /\ UNCHANGED <<stream, pos, shut, threaded_, http_ret_, by, taken, pool_vars>>

(* A deliberately wrong variant, for the sensitivity check of              *)
(* ImplementsResponder: the request that was served is not cleared.        *)
HandleWrite_NotCleared(c) ==
  /\ Dispatch /\ io[c] = "write"
  /\ \/ /\ ~ shut[c]
        /\ replied' = [replied EXCEPT ![c] = Append(@,
                         [id |-> IdOf(request_[c]), code |-> http_ret_[c], by |-> by[c]])]
     \/ UNCHANGED replied
  /\ shut' = [shut EXCEPT ![c] = TRUE]
  /\ post_' = [post_ EXCEPT ![c] = << >>]
  /\ postsize_' = [postsize_ EXCEPT ![c] = 0]
  /\ state_' = [state_ EXCEPT ![c] = "header"]
  /\ io' = [io EXCEPT ![c] = "read"]
  /\ UNCHANGED <<stream, pos, threaded_, http_ret_, request_, by, taken, pool_vars>>

(* handle_write: a reply that went out is the last, as the socket is shut  *)
(* down; nor can one be sent after a write has failed.  Both clear the     *)
(* request and start to read the next.                                     *)
HandleWrite(c) ==
  /\ Dispatch /\ io[c] = "write"
  /\ \/ /\ ~ shut[c]
        /\ replied' = [replied EXCEPT ![c] = Append(@,
                         [id |-> IdOf(request_[c]), code |-> http_ret_[c], by |-> by[c]])]
     \/ UNCHANGED replied
  /\ shut' = [shut EXCEPT ![c] = TRUE]
  /\ request_' = [request_ EXCEPT ![c] = << >>]
  /\ post_' = [post_ EXCEPT ![c] = << >>]
  /\ postsize_' = [postsize_ EXCEPT ![c] = 0]
  /\ state_' = [state_ EXCEPT ![c] = "header"]
  /\ io' = [io EXCEPT ![c] = "read"]
  /\ UNCHANGED <<stream, pos, threaded_, http_ret_, by, taken, pool_vars>>

-----------------------------------------------------------------------------
(***************************************************************************)
(* push_to_threadpool, on the network thread                               *)
(***************************************************************************)
(* The loop over the threads reads the lengths of queues without their     *)
(* mutexes.                                                                *)
Scan ==
  /\ net.pc = "scan" /\ net.i < threadnum_
  /\ net' = [net EXCEPT
               !.i = @ + 1,
               !.choice = IF net.choice = NONE \/ Len(q_[net.i]) < Len(q_[net.choice])
                          THEN net.i ELSE @]
  /\ UNCHANGED <<conn_vars, threadnum_, q_, worker, serves>>

(* Whether the least busy thread, as far as Scan saw, has a queue now.     *)
Crowded == IF net.choice = NONE THEN TRUE ELSE q_[net.choice] # << >>

(* A deliberately wrong variant, for the sensitivity check of TypeOK: one  *)
(* thread more than the array has room for.                                *)
Choose_OneMore ==
  /\ net.pc = "scan" /\ net.i >= threadnum_
  /\ IF Crowded /\ threadnum_ <= MAX_THREAD_SIZE
     THEN /\ worker' = [worker EXCEPT ![threadnum_] = "start"]
          /\ threadnum_' = threadnum_ + 1
          /\ net' = [net EXCEPT !.pc = "push", !.choice = threadnum_]
     ELSE /\ net' = [net EXCEPT !.pc = "push"]
          /\ UNCHANGED <<worker, threadnum_>>
  /\ UNCHANGED <<conn_vars, q_, serves>>

Choose ==
  /\ net.pc = "scan" /\ net.i >= threadnum_
  /\ IF Crowded /\ threadnum_ < MAX_THREAD_SIZE
     THEN /\ worker' = [worker EXCEPT ![threadnum_] = "start"]
          /\ threadnum_' = threadnum_ + 1
          /\ net' = [net EXCEPT !.pc = "push", !.choice = threadnum_]
     ELSE /\ net' = [net EXCEPT !.pc = "push"]
          /\ UNCHANGED <<worker, threadnum_>>
  /\ UNCHANGED <<conn_vars, q_, serves>>

(* A deliberately wrong variant, for the sensitivity check of              *)
(* NetworkReturns: a thread keeps its mutex while it waits.                *)
MutexFree_KeptWaiting(t) == worker[t] \notin {"loop", "process", "waiting"}

(* A pool thread holds its mutex while it looks at its queue and while it  *)
(* processes a request.                                                    *)
MutexFree(t) == worker[t] \notin {"loop", "process"}

(* A deliberately wrong variant, for the sensitivity check of              *)
(* TakenIsAnswered: the thread is not notified.                            *)
Push_Silent ==
  LET t == net.choice IN
  /\ net.pc = "push"
  /\ MutexFree(t)
  /\ q_' = [q_ EXCEPT ![t] = Append(@, net.conn)]
  /\ net' = Running
  /\ UNCHANGED <<conn_vars, threadnum_, worker, serves>>

(* lock_guard, push_back and notify_one.                                   *)
Push ==
  LET t == net.choice IN
  /\ net.pc = "push"
  /\ MutexFree(t)
  /\ q_' = [q_ EXCEPT ![t] = Append(@, net.conn)]
  /\ worker' = [worker EXCEPT ![t] = IF @ = "waiting" THEN "woken" ELSE @]
  /\ net' = Running
  /\ UNCHANGED <<conn_vars, threadnum_, serves>>

-----------------------------------------------------------------------------
(***************************************************************************)
(* thread_proc                                                             *)
(***************************************************************************)
Lock(t) ==
  /\ worker[t] = "start"
  /\ worker' = [worker EXCEPT ![t] = "loop"]
  /\ UNCHANGED <<conn_vars, net, threadnum_, q_, serves>>

Pop(t) ==
  /\ worker[t] = "loop" /\ q_[t] # << >>
  /\ serves' = [serves EXCEPT ![t] = Head(q_[t])]
  /\ q_' = [q_ EXCEPT ![t] = Tail(@)]
  /\ worker' = [worker EXCEPT ![t] = "process"]
  /\ UNCHANGED <<conn_vars, net, threadnum_>>

(* process_request on a pool thread; threaded_ is set, so a handler that   *)
(* asks to switch again gets 508.                                          *)
Process(t) ==
  LET c == serves[t] IN
  /\ worker[t] = "process"
  /\ \E ret \in Handler[<<PathOf(request_[c]), threaded_[c]>>] :
       BeginResponse(c, IF ret = HTTP_SWITCH_THREAD THEN HTTP_508 ELSE ret, "pool")
  /\ worker' = [worker EXCEPT ![t] = "loop"]
  /\ serves' = [serves EXCEPT ![t] = NoConn]
  /\ UNCHANGED <<stream, pos, shut, state_, threaded_, request_, post_, postsize_,
                 taken, replied, net, threadnum_, q_>>

(* A deliberately wrong variant, for the sensitivity check of              *)
(* NoLostWakeup: the queue is not looked at again before the wait.         *)
Wait_Blind(t) ==
  /\ worker[t] = "loop"
  /\ worker' = [worker EXCEPT ![t] = "waiting"]
  /\ UNCHANGED <<conn_vars, net, threadnum_, q_, serves>>

(* cv_.wait gives the mutex up and waits in one step.                      *)
Wait(t) ==
  /\ worker[t] = "loop" /\ q_[t] = << >>
  /\ worker' = [worker EXCEPT ![t] = "waiting"]
  /\ UNCHANGED <<conn_vars, net, threadnum_, q_, serves>>

(* wait returns with the mutex, which the end of the loop's body releases  *)
(* and its beginning takes again.                                          *)
Wake(t) ==
  /\ worker[t] = "woken"
  /\ worker' = [worker EXCEPT ![t] = "start"]
  /\ UNCHANGED <<conn_vars, net, threadnum_, q_, serves>>

(* A condition variable may wake a thread that nobody notified.            *)
Spurious(t) ==
  /\ worker[t] = "waiting"
  /\ worker' = [worker EXCEPT ![t] = "woken"]
  /\ UNCHANGED <<conn_vars, net, threadnum_, q_, serves>>

-----------------------------------------------------------------------------
Callback(c) == ReadHeader(c) \/ ReadPost(c) \/ HandleWrite(c)
Thread(t)   == Lock(t) \/ Pop(t) \/ Process(t) \/ Wait(t) \/ Wake(t)

Next ==
  \/ \E c \in Conn : Accept(c) \/ Callback(c) \/ ReadError(c)
  \/ Scan \/ Choose \/ Push
  \/ \E t \in Tid : Thread(t) \/ Spurious(t)

Spec == Init /\ [][Next]_vars

(* Threads keep running and handlers return.  The strong fairness says     *)
(* that the network thread gets a mutex that becomes free again and again. *)
(* Callbacks get no fairness: nothing makes a peer connect, send, stay or  *)
(* read.  No async_write has a timeout, so a peer that stays and does not  *)
(* read a long reply keeps its connection in "write" for ever.             *)
FairSpec ==
  /\ Spec
  /\ \A t \in Tid : WF_vars(Thread(t))
  /\ WF_vars(Scan \/ Choose) /\ SF_vars(Push)

-----------------------------------------------------------------------------
(***************************************************************************)
(* Properties                                                              *)
(***************************************************************************)
Reply == [id : Id, code : 0..(HTTP_END - 1), by : {"net", "pool"}]

(* The type of the state.  What is not a matter of form: the network       *)
(* thread never goes on with a queue that has no thread, or that is beyond *)
(* the array.                                                              *)
TypeOK ==
  /\ stream \in [Conn -> Seq(Unit)]
  /\ \A c \in Conn : pos[c] \in 0..Len(stream[c])
  /\ io \in [Conn -> {"accept", "read", "write", "none", "closed"}]
  /\ shut \in [Conn -> BOOLEAN]
  /\ state_ \in [Conn -> {"header", "post", "processing"}]
  /\ threaded_ \in [Conn -> BOOLEAN]
  /\ http_ret_ \in [Conn -> {HTTP_SWITCH_THREAD} \cup 0..(HTTP_END - 1)]
  /\ request_ \in [Conn -> Seq(Unit)]
  /\ post_ \in [Conn -> Seq(Unit)]
  /\ postsize_ \in [Conn -> 0..(UINT - 1)]
  /\ by \in [Conn -> {"net", "pool"}]
  /\ taken \in [Conn -> Id \cup {0}]
  /\ replied \in [Conn -> Seq(Reply)]
  /\ net \in [pc : {"run", "scan", "push"}, conn : Conn \cup {NoConn},
              i : 0..MAX_THREAD_SIZE, choice : {NONE} \cup Tid]
  /\ threadnum_ \in 0..MAX_THREAD_SIZE
  /\ q_ \in [Tid -> Seq(Conn)]
  /\ worker \in [Tid -> {"none", "start", "loop", "process", "waiting", "woken"}]
  /\ serves \in [Tid -> Conn \cup {NoConn}]
  /\ net.choice < threadnum_
  /\ net.pc = "push" => net.choice # NONE
  /\ \A t \in Tid : worker[t] = "none" <=> t >= threadnum_

(* Between the callback that took a request and the write of its reply, a  *)
(* connection is in exactly one place: with the network thread that is     *)
(* about to queue it, in one queue, once, or with one pool thread.  In all *)
(* of them nothing else is pending for it, so no two threads ever work on  *)
(* a connection; and threaded_ is set, so a pool thread never comes to     *)
(* push_to_threadpool, where it would lock the mutex it already holds.     *)
Pushing(c)   == net.pc # "run" /\ net.conn = c
Queued(c, t) == \E i \in 1..Len(q_[t]) : q_[t][i] = c
Holds(t, c)  == serves[t] = c \/ Queued(c, t)

OneHolder ==
  \A c \in Conn :
    /\ io[c] = "none" <=> Pushing(c) \/ \E t \in Tid : Holds(t, c)
    /\ io[c] = "none" => threaded_[c] /\ state_[c] = "processing"
    /\ \A t \in Tid :
         /\ Holds(t, c) => ~ Pushing(c) /\ \A u \in Tid \ {t} : ~ Holds(u, c)
         /\ ~ (serves[t] = c /\ Queued(c, t))
         /\ \A i, j \in 1..Len(q_[t]) : q_[t][i] = c /\ q_[t][j] = c => i = j

(* A pool thread that waits has nothing to do, although push_to_threadpool *)
(* notifies a thread that may not be waiting yet and thread_proc waits     *)
(* without a condition: no connection is left in a queue whose thread was  *)
(* not told of it.                                                         *)
NoLostWakeup == \A t \in Tid : worker[t] = "waiting" => q_[t] = << >>

(* A POST reaches the handler with all that followed its header so far,    *)
(* however it was cut into reads: no byte missing, doubled or from         *)
(* elsewhere, and as many as its header declares, if that fits postsize_.  *)
FirstOf(c, kind, id, j) ==
  /\ stream[c][j].kind = kind /\ stream[c][j].id = id
  /\ \A i \in 1..(j - 1) : ~ (stream[c][i].kind = kind /\ stream[c][i].id = id)

BodyExact ==
  \A c \in Conn :
    state_[c] = "processing" /\ request_[c][1].kind = "POST" =>
      LET id == IdOf(request_[c]) IN
      \E header \in 1..Len(stream[c]) :
        /\ FirstOf(c, "end", id, header)
        /\ post_[c] = SubSeq(stream[c], header + 1, pos[c])
        /\ \A i \in 1..header :
             FirstOf(c, "length", id, i) /\ stream[c][i].n \in 0..(UINT - 1) =>
               Len(post_[c]) >= stream[c][i].n

(* A reply that is sent is one the handler gives for the path of that      *)
(* request on a thread of the kind it really ran on: in_threadpool() told  *)
(* it the truth, and 508 is only for a handler that asks to switch in the  *)
(* pool.  threaded_ is never reset, so a second request on a connection    *)
(* may be served on the network thread with in_threadpool() true; but then *)
(* the socket was shut down with the first reply, and nobody gets it.      *)
PathAsked(c, id) ==
  (CHOOSE u \in {stream[c][j] : j \in 1..Len(stream[c])} :
     u.kind \in {"GET", "POST"} /\ u.id = id).path

Outcome(path, in_pool) ==
  {IF ret \notin 0..(HTTP_END - 1) THEN HTTP_503 ELSE ret :
     ret \in Handler[<<path, in_pool>>] \ {HTTP_SWITCH_THREAD}}
  \cup {HTTP_508 : ret \in IF in_pool THEN Handler[<<path, TRUE>>] \cap {HTTP_SWITCH_THREAD} ELSE {}}

RepliesFit ==
  \A c \in Conn : \A i \in 1..Len(replied[c]) :
    LET d == replied[c][i] IN d.code \in Outcome(PathAsked(c, d.id), d.by = "pool")

(* The server implements Responder: requests of a connection are served in *)
(* order and once, and a reply that is sent is to the one being served.    *)
Peer == INSTANCE Responder WITH
  phase   <- [c \in Conn |-> IF state_[c] = "processing" THEN "serving"
                             ELSE IF io[c] = "closed" THEN "over" ELSE "idle"],
  serving <- taken,
  sent    <- [c \in Conn |-> [i \in 1..Len(replied[c]) |-> replied[c][i].id]]

ImplementsResponder == Peer!Spec

(* Every request that was taken up comes to begin_response, whatever       *)
(* thread has it, however long the requests before it take, and although   *)
(* the replies to other peers may never be read.  Whether its own reply    *)
(* ever gets out is up to its peer.                                        *)
TakenIsAnswered == \A c \in Conn : state_[c] = "processing" ~> io[c] = "write"

(* The network thread comes back from push_to_threadpool, although it      *)
(* waits there for a mutex that a pool thread holds while it processes     *)
(* requests.                                                               *)
NetworkReturns == net.pc # "run" ~> net.pc = "run"
=============================================================================
