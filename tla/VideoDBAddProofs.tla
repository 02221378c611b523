-------------------------- MODULE VideoDBAddProofs --------------------------
(***************************************************************************)
(* Proof that the replies to adds are true, for any number of pool         *)
(* threads, from the inductive invariant of VideoDBProofs.                 *)
(***************************************************************************)
EXTENDS VideoDBProofs

(* Thread t has added its video, or is about to say so.                    *)
Added(t) ==
  /\ req[t].op = "add"
  /\ pc[t] \in {"index", "push"} \/ (pc[t] = "done" /\ reply[t].code = 0)

(* The steps of a thread that does not add.                                *)
OtherPc == {"lookup", "candidates", "check", "save", "save_next", "save_item"}

(* AddReplyTrue is not inductive: it says nothing of an add before its     *)
(* reply.  AddInv follows the add from the moment db_ gets its video.      *)
AddInv ==
  /\ \A t \in Worker :
       /\ pc[t] \in {"add", "insert", "index", "push"} => req[t].op = "add"
       /\ pc[t] \in OtherPc => req[t].op # "add"
       /\ pc[t] = "done" /\ req[t].op = "add" => req[t].name \in db_
       /\ Added(t) => frames_[req[t].name] = req[t].frames
  /\ \A t, u \in Worker : Added(t) /\ Added(u) /\ req[t].name = req[u].name => t = u

(* Whoever has added a video finds it in db_.                              *)
LEMMA AddedStored ==
  ASSUME IInv, AddInv, NEW t \in Worker, Added(t)
  PROVE  req[t].name \in db_
BY DEF IInv, AddInv, RequestInv, Added, Thread

(* What a step of thread t has to respect.                                 *)
LEMMA AddFrame ==
  ASSUME AddInv, NEW t \in Thread,
         db_' = db_ /\ frames_' = frames_,
         \A u \in Worker : u # t => pc'[u] = pc[u] /\ req'[u] = req[u] /\ reply'[u] = reply[u],
         t \in Worker =>
           /\ pc'[t] \in {"add", "insert", "index", "push"} => req'[t].op = "add"
           /\ pc'[t] \in OtherPc => req'[t].op # "add"
           /\ pc'[t] = "done" /\ req'[t].op = "add" => req'[t].name \in db_
           /\ Added(t)' => Added(t) /\ req'[t] = req[t]
  PROVE  AddInv'
<1>1. \A u \in Worker : u # t => (Added(u)' <=> Added(u))
  BY DEF Added
<1>2. \A u \in Worker : Added(u)' => Added(u) /\ req'[u] = req[u]
  BY <1>1
<1>3. \A u \in Worker : Added(u)' => frames_'[req'[u].name] = req'[u].frames
  BY <1>2 DEF AddInv
<1>4. \A u, v \in Worker : Added(u)' /\ Added(v)' /\ req'[u].name = req'[v].name => u = v
  BY <1>2 DEF AddInv
<1>5. \A u \in Worker :
        /\ pc'[u] \in {"add", "insert", "index", "push"} => req'[u].op = "add"
        /\ pc'[u] \in OtherPc => req'[u].op # "add"
        /\ pc'[u] = "done" /\ req'[u].op = "add" => req'[u].name \in db_'
  BY DEF AddInv
<1> QED
  BY <1>3, <1>4, <1>5 DEF AddInv

LEMMA AddInit == Init => AddInv
BY DEF Init, AddInv, Added, OtherPc, Thread

LEMMA AddStep == IInv /\ AddInv /\ [Next]_vars => AddInv'
<1> SUFFICES ASSUME IInv, AddInv, [Next]_vars PROVE AddInv'
  OBVIOUS
<1> USE DEF Goto, MutexFree, Lock, Unlock, Serving
<1>0. TypeOK /\ RequestInv /\ LoadInv /\ IoThread \notin Worker
  BY ThreadAssumption DEF IInv
(* Loading: the pool is idle.                                              *)
<1>1. ASSUME NEW t \in Thread, t = IoThread, LoadFile(t) PROVE AddInv'
  <2>1. \A u \in Worker : pc'[u] = "idle"
    BY <1>0, <1>1 DEF LoadFile, LoadInv, TypeOK, Thread
  <2> QED
    BY <2>1 DEF AddInv, Added, OtherPc
<1>2. ASSUME NEW t \in Thread, t = IoThread, LoadNext(t) \/ LoadIndexed(t) \/ LoadDone(t)
      PROVE  AddInv'
  <2>1. \A u \in Worker : u # t /\ pc'[u] = pc[u] /\ req'[u] = req[u] /\ reply'[u] = reply[u]
    BY <1>0, <1>2 DEF LoadNext, LoadIndexed, LoadDone, TypeOK, Thread
  <2> QED
    BY <1>2, <2>1, AddFrame, <1>0 DEF LoadNext, LoadIndexed, LoadDone
(* The step that adds.                                                     *)
<1>3. ASSUME NEW t \in Thread, t \in Worker, AddInsert(t) PROVE AddInv'
  <2> DEFINE n == req[t].name
  <2>1. n \in Name /\ n \notin db_ /\ req[t].op = "add"
    BY <1>0, <1>3 DEF AddInsert, RequestInv, AddInv
  <2>2. /\ req' = req /\ reply' = reply
        /\ \A u \in Worker : u # t => pc'[u] = pc[u]
        /\ pc'[t] = "index"
        /\ db_' = db_ \cup {n}
        /\ frames_' = [frames_ EXCEPT ![n] = req[t].frames]
    BY <1>0, <1>3 DEF AddInsert, TypeOK
  <2>3. \A u \in Worker : u # t => (Added(u)' <=> Added(u))
    BY <2>2 DEF Added
  <2>4. \A u \in Worker : u # t /\ Added(u) => req[u].name \in db_ /\ req[u].name # n
    BY <2>1, AddedStored
  <2>5. \A u \in Worker : Added(u)' => frames_'[req'[u].name] = req'[u].frames
    <3>1. frames_'[n] = req[t].frames /\ \A m : m # n => frames_'[m] = frames_[m]
      BY <1>0, <2>1, <2>2 DEF TypeOK
    <3> QED
      BY <2>2, <2>3, <2>4, <3>1 DEF AddInv
  <2>6. \A u, v \in Worker : Added(u)' /\ Added(v)' /\ req'[u].name = req'[v].name => u = v
    BY <2>2, <2>3, <2>4 DEF AddInv
  <2>7. \A u \in Worker :
          /\ pc'[u] \in {"add", "insert", "index", "push"} => req'[u].op = "add"
          /\ pc'[u] \in OtherPc => req'[u].op # "add"
          /\ pc'[u] = "done" /\ req'[u].op = "add" => req'[u].name \in db_'
    BY <2>1, <2>2 DEF AddInv, OtherPc
  <2> QED
    BY <2>5, <2>6, <2>7 DEF AddInv
(* The other steps of an add.                                              *)
<1>4. ASSUME NEW t \in Thread, t \in Worker, AddExists(t) \/ AddNew(t) \/ AddDone(t)
      PROVE  AddInv'
  <2>1. /\ db_' = db_ /\ frames_' = frames_ /\ req' = req
        /\ \A u \in Worker : u # t => pc'[u] = pc[u] /\ reply'[u] = reply[u]
    BY <1>0, <1>4 DEF AddExists, AddNew, AddDone, TypeOK, Thread
  <2>2. pc'[t] \in {"insert", "done"} /\ req[t].op = "add"
    BY <1>0, <1>4 DEF AddExists, AddNew, AddDone, TypeOK, AddInv
  <2>3. pc'[t] = "done" => req[t].name \in db_
    BY <1>0, <1>4 DEF AddExists, AddNew, AddDone, TypeOK, RequestInv
  <2>4. Added(t)' => Added(t)
    <3>1. CASE AddExists(t)
      <4>1. reply'[t].code = -1
        BY <1>0, <3>1 DEF AddExists, Code, TypeOK
      <4> QED
        BY <2>2, <4>1, <3>1 DEF Added, AddExists
    <3>2. CASE AddNew(t)
      BY <1>0, <3>2 DEF AddNew, Added, TypeOK
    <3>3. CASE AddDone(t)
      BY <3>3 DEF AddDone, Added
    <3> QED
      BY <1>4, <3>1, <3>2, <3>3
  <2> QED
    BY <2>1, <2>2, <2>3, <2>4, AddFrame DEF OtherPc
(* Indexing goes on with the same request.                                 *)
<1>5. ASSUME NEW t \in Thread, IndexBegin(t) \/ IndexPush(t) PROVE AddInv'
  <2>1. /\ db_' = db_ /\ frames_' = frames_ /\ req' = req /\ reply' = reply
        /\ \A u \in Worker : u # t => pc'[u] = pc[u]
        /\ pc[t] \in {"index", "push"} /\ pc'[t] = "push"
    BY <1>0, <1>5 DEF IndexBegin, IndexPush, TypeOK, Thread
  <2>2. t \in Worker => req[t].op = "add"
    BY <2>1 DEF AddInv
  <2>3. Added(t)' => Added(t)
    BY <2>1 DEF Added
  <2> QED
    BY <2>1, <2>2, <2>3, AddFrame DEF OtherPc
(* Queries, saves and /info are no adds.                                   *)
<1>6. ASSUME NEW t \in Worker, Query(t) \/ Save(t) PROVE AddInv'
  <2>1. /\ db_' = db_ /\ frames_' = frames_
        /\ \A u \in Worker : u # t => pc'[u] = pc[u] /\ req'[u] = req[u] /\ reply'[u] = reply[u]
        /\ pc[t] \in OtherPc
        /\ pc'[t] \in OtherPc \cup {"done"}
        /\ req'[t].op = req[t].op
    <3>1. t \in Thread /\ req \in [Thread -> ReqType] /\ req[t] \in ReqType /\ pc \in [Thread -> PcValues]
          /\ reply \in [Thread -> ReplyType]
      BY <1>0 DEF Thread, TypeOK
    <3>2. CASE Lookup(t)
      <4>1. req' = req \/ req' = [req EXCEPT ![t].frames = frames_[req[t].name]]
        BY <3>2 DEF Lookup
      <4>2. req'[t].op = req[t].op /\ \A u \in Worker : u # t => req'[u] = req[u]
        <5>1. req'[t] = req[t] \/ req'[t] = [req[t] EXCEPT !.frames = frames_[req[t].name]]
          BY <3>1, <4>1
        <5> QED
          BY <3>1, <4>1, <5>1 DEF ReqType, Thread
      <4> QED
        BY <3>1, <3>2, <4>2 DEF Lookup, OtherPc, Thread
    <3>3. CASE GetCandidates(t) \/ CheckCandidate(t) \/ FinishQuery(t)
      BY <3>1, <3>3 DEF GetCandidates, CheckCandidate, FinishQuery, OtherPc, Thread
    <3>4. CASE Save(t)
      BY <3>1, <3>4 DEF Save, SaveBegin, SaveItem, SaveItemDone, SaveDone, OtherPc, Thread
    <3> QED
      BY <1>6, <3>2, <3>3, <3>4 DEF Query
  <2>2. req[t].op # "add"
    BY <2>1 DEF AddInv
  <2>3. ~ Added(t)' /\ pc'[t] \notin {"add", "insert", "index", "push"}
    BY <2>1, <2>2 DEF Added, OtherPc
  <2> QED
    BY <2>1, <2>2, <2>3, AddFrame DEF Thread
<1>7. ASSUME NEW t \in Thread, t = IoThread, InfoCount(t) \/ InfoFrames(t) \/ InfoTable(t)
       PROVE  AddInv'
  <2>1. /\ db_' = db_ /\ frames_' = frames_
        /\ \A u \in Worker : u # t /\ pc'[u] = pc[u] /\ req'[u] = req[u] /\ reply'[u] = reply[u]
    BY <1>0, <1>7 DEF InfoCount, InfoFrames, InfoTable, TypeOK, Thread
  <2> QED
    BY <1>0, <1>7, <2>1, AddFrame
(* A request comes and goes.                                               *)
<1>8. ASSUME NEW t \in Worker, ReceiveRequest(t) PROVE AddInv'
  <2>1. /\ db_' = db_ /\ frames_' = frames_ /\ reply' = reply
        /\ \A u \in Worker : u # t => pc'[u] = pc[u] /\ req'[u] = req[u]
        /\ pc'[t] \in {"add", "candidates", "lookup", "save"}
        /\ pc'[t] = "add" <=> req'[t].op = "add"
    BY <1>0, <1>8 DEF ReceiveRequest, Receive, TypeOK, Thread, NoReq
  <2>2. ~ Added(t)'
    BY <2>1 DEF Added
  <2> QED
    BY <2>1, <2>2, AddFrame DEF Thread, OtherPc
<1>9. ASSUME NEW t \in Thread, Respond(t) PROVE AddInv'
  <2>1. /\ db_' = db_ /\ frames_' = frames_ /\ pc'[t] = "idle"
        /\ \A u \in Worker : u # t => pc'[u] = pc[u] /\ req'[u] = req[u] /\ reply'[u] = reply[u]
    BY <1>0, <1>9 DEF Respond, TypeOK
  <2>2. ~ Added(t)'
    BY <2>1 DEF Added
  <2> QED
    BY <2>1, <2>2, AddFrame DEF OtherPc
<1>10. CASE UNCHANGED vars
  BY <1>10 DEF vars, AddInv, Added
<1> QED
  BY <1>1, <1>2, <1>3, <1>4, <1>5, <1>6, <1>7, <1>8, <1>9, <1>10
     DEF Next, Arrive, Step, Load, Add, Thread

(* A client told that its video was added finds it stored with the frames  *)
(* it sent, and no other client was told so of the same name, for any      *)
(* number of pool threads and any interleaving of their requests.          *)
THEOREM AddsAreTrue == Spec => []AddReplyTrue
<1>1. AddInv => AddReplyTrue
  BY DEF AddInv, Added, AddReplyTrue
<1> QED
  BY <1>1, InitStep, NextStep, AddInit, AddStep, PTL DEF Spec
=============================================================================
