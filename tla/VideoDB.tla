------------------------------ MODULE VideoDB -------------------------------
(***************************************************************************)
(* The class VideoDB of the match server (server/VideoDB.cpp) under the    *)
(* threads that use it: the pool threads, which add and query videos and   *)
(* save the database, and the network thread, which loads the database     *)
(* before it serves anything and answers /info.                            *)
(*                                                                         *)
(* A critical section that only reads is one step, taken when mutex_ is    *)
(* free: nothing it reads is written without mutex_.  A critical section   *)
(* that writes holds mutex_ over several steps, because Count() and        *)
(* FrameTableSize() read without the mutex and see what is in between.     *)
(*                                                                         *)
(* A DataItem* is modelled by the name of the video: db_ holds one object  *)
(* per name, and nothing ever takes one out (Remove is not implemented and *)
(* nothing calls destroy(), so deleted_ stays false and the deletion in    *)
(* dec_ref is never reached; both are left out).                           *)
(***************************************************************************)
EXTENDS VideoIndex

CONSTANTS
  Worker,      \* the threads of the pool (4 in the code)
  IoThread,    \* the network thread, the one that runs main()
  NoThread,
  NoName

Thread == Worker \cup {IoThread}

ASSUME ThreadAssumption ==
  /\ IsFiniteSet(Worker)
  /\ IoThread \notin Worker
  /\ NoThread \notin Thread
  /\ NoName \notin Name

VARIABLES
  mutex_,        \* the thread that holds VideoDB::mutex_, or NoThread
  db_,           \* the keys of db_
  frames_,       \* per video: DataItem::frames_
  uniq_frm_cnt,  \* per video: DataItem::uniq_frm_cnt, UNSET until written
  ref_,          \* per video: DataItem::ref_
  table_,        \* the index: slot -> KeyBlock
  pc,            \* per thread: the step it takes next
  req,           \* per thread: the request it serves
  todo,          \* per thread: frames still to push (add_frames_to_index)
  left,          \* per thread: videos its loop over db_ has not reached
  held,          \* per thread: the videos it holds a reference to
  result,        \* per thread: the <<name, score>> pairs of its query
  reply,         \* per thread: the reply it is about to send
  info           \* the values the network thread collected for /info

store_vars == <<db_, frames_, uniq_frm_cnt, table_>>
local_vars == <<pc, req, todo, left, held, result, reply, info>>
vars == <<mutex_, db_, frames_, uniq_frm_cnt, ref_, table_,
          pc, req, todo, left, held, result, reply, info>>

UNSET == -1

NoReq    == [op |-> "none", name |-> NoName, frames |-> << >>]
NoReply  == [code |-> 0, list |-> << >>]
NoInfo   == [video_count |-> 0, frames_count |-> 0, frame_table_size |-> 0, counted |-> {}]
Code(c)  == [code |-> c, list |-> << >>]

Goto(t, from, to) == pc[t] = from /\ pc' = [pc EXCEPT ![t] = to]
MutexFree         == mutex_ = NoThread
Lock(t)           == MutexFree /\ mutex_' = t
Unlock(t)         == mutex_' = NoThread
Serving           == req[IoThread].op # "load"

-----------------------------------------------------------------------------
Init ==
  /\ mutex_ = NoThread
  /\ db_ = {}
  /\ frames_ = [n \in Name |-> << >>]
  /\ uniq_frm_cnt = [n \in Name |-> UNSET]
  /\ ref_ = [n \in Name |-> 0]
  /\ table_ = << >>
  /\ pc = [t \in Thread |-> IF t = IoThread THEN "load" ELSE "idle"]
  /\ req = [t \in Thread |-> IF t = IoThread THEN [NoReq EXCEPT !.op = "load"] ELSE NoReq]
  /\ todo = [t \in Thread |-> {}]
  /\ left = [t \in Thread |-> {}]
  /\ held = [t \in Thread |-> {}]
  /\ result = [t \in Thread |-> {}]
  /\ reply = [t \in Thread |-> NoReply]
  /\ info = NoInfo

-----------------------------------------------------------------------------
(***************************************************************************)
(* add_frames_to_index: called with mutex_ held, by Add and by Load.       *)
(***************************************************************************)
IndexBegin(t) ==
  LET n == req[t].name IN
  /\ Goto(t, "index", "push")
  /\ uniq_frm_cnt' = [uniq_frm_cnt EXCEPT ![n] = Cardinality(UniqueFrames(frames_[n]))]
  /\ todo' = [todo EXCEPT ![t] = UniqueFrames(frames_[n])]
  /\ UNCHANGED <<mutex_, db_, frames_, ref_, table_, req, left, held, result, reply, info>>

IndexPush(t) ==
  /\ pc[t] = "push"
  /\ \E k \in todo[t] :
       /\ table_' = PushPair(table_, k, req[t].name)
       /\ todo' = [todo EXCEPT ![t] = @ \ {k}]
  /\ UNCHANGED <<mutex_, db_, frames_, uniq_frm_cnt, ref_, pc, req, left, held, result, reply, info>>

-----------------------------------------------------------------------------
(***************************************************************************)
(* Load, run by main() before the server starts: read the file, reserve a  *)
(* block for every slot of every frame in it (the empty frame's too), then *)
(* index the videos one by one.                                            *)
(***************************************************************************)
LoadFile(t) ==
  /\ Goto(t, "load", "load_next")
  /\ Lock(t)
  /\ \E S \in SUBSET Name : \E file \in [S -> FrameList] :
       /\ db_' = S
       /\ left' = [left EXCEPT ![t] = S]
       /\ frames_' = [n \in Name |-> IF n \in S THEN file[n] ELSE << >>]
       /\ table_' = [s \in {key_shorten(k) : k \in UNION {Range(file[n]) : n \in S}} |-> << >>]
  /\ UNCHANGED <<uniq_frm_cnt, ref_, req, todo, held, result, reply, info>>

LoadNext(t) ==
  /\ Goto(t, "load_next", "index")
  /\ \E n \in left[t] :
       /\ req' = [req EXCEPT ![t].name = n]
       /\ left' = [left EXCEPT ![t] = @ \ {n}]
  /\ UNCHANGED <<mutex_, db_, frames_, uniq_frm_cnt, ref_, table_, todo, held, result, reply, info>>

LoadIndexed(t) ==
  /\ req[t].op = "load" /\ todo[t] = {}
  /\ Goto(t, "push", "load_next")
  /\ UNCHANGED <<mutex_, db_, frames_, uniq_frm_cnt, ref_, table_,
                 req, todo, left, held, result, reply, info>>

LoadDone(t) ==
  /\ Goto(t, "load_next", "idle")
  /\ left[t] = {}
  /\ Unlock(t)
  /\ req' = [req EXCEPT ![t] = NoReq]
  /\ UNCHANGED <<db_, frames_, uniq_frm_cnt, ref_, table_, todo, left, held, result, reply, info>>

Load(t) == LoadFile(t) \/ LoadNext(t) \/ LoadIndexed(t) \/ LoadDone(t)

-----------------------------------------------------------------------------
(***************************************************************************)
(* Requests reach an idle pool thread through my_handler: an add or a      *)
(* query by frames posted as JSON, /querykey/$key, /save.                  *)
(***************************************************************************)
Receive(t, r, step) ==
  /\ Serving
  /\ Goto(t, "idle", step)
  /\ req' = [req EXCEPT ![t] = r]
  /\ UNCHANGED <<mutex_, db_, frames_, uniq_frm_cnt, ref_, table_,
                 todo, left, held, result, reply, info>>

ReceiveRequest(t) ==
  \/ \E n \in Name, fs \in FrameList :
       Receive(t, [op |-> "add", name |-> n, frames |-> fs], "add")
  \/ \E fs \in FrameList :
       Receive(t, [op |-> "query", name |-> NoName, frames |-> fs], "candidates")
  \/ \E n \in Name :
       Receive(t, [op |-> "key", name |-> n, frames |-> << >>], "lookup")
  \/ Receive(t, [NoReq EXCEPT !.op = "save"], "save")

Respond(t) ==
  /\ Goto(t, "done", "idle")
  /\ req' = [req EXCEPT ![t] = NoReq]
  /\ result' = [result EXCEPT ![t] = {}]
  /\ reply' = [reply EXCEPT ![t] = NoReply]
  /\ info' = IF t = IoThread THEN NoInfo ELSE info
  /\ UNCHANGED <<mutex_, db_, frames_, uniq_frm_cnt, ref_, table_, todo, left, held>>

-----------------------------------------------------------------------------
(***************************************************************************)
(* Add                                                                     *)
(***************************************************************************)
AddExists(t) ==
  /\ Goto(t, "add", "done")
  /\ MutexFree
  /\ req[t].name \in db_
  /\ reply' = [reply EXCEPT ![t] = Code(-1)]
  /\ UNCHANGED <<mutex_, db_, frames_, uniq_frm_cnt, ref_, table_,
                 req, todo, left, held, result, info>>

(* A deliberately wrong variant, for the sensitivity check of              *)
(* AddReplyTrue: the name is not looked up again under the mutex that      *)
(* inserts it.                                                             *)
AddNew_Unchecked(t) ==
  /\ Goto(t, "add", "insert")
  /\ Lock(t)
  /\ UNCHANGED <<db_, frames_, uniq_frm_cnt, ref_, table_,
                 req, todo, left, held, result, reply, info>>

AddNew(t) ==
  /\ Goto(t, "add", "insert")
  /\ Lock(t)
  /\ req[t].name \notin db_
  /\ UNCHANGED <<db_, frames_, uniq_frm_cnt, ref_, table_,
                 req, todo, left, held, result, reply, info>>

(* new DataItem(data_item) and db_.insert                                  *)
AddInsert(t) ==
  LET n == req[t].name IN
  /\ Goto(t, "insert", "index")
  /\ db_' = db_ \cup {n}
  /\ frames_' = [frames_ EXCEPT ![n] = req[t].frames]
  /\ uniq_frm_cnt' = [uniq_frm_cnt EXCEPT ![n] = UNSET]
  /\ ref_' = [ref_ EXCEPT ![n] = 0]
  /\ UNCHANGED <<mutex_, table_, req, todo, left, held, result, reply, info>>

AddDone(t) ==
  /\ req[t].op = "add" /\ todo[t] = {}
  /\ Goto(t, "push", "done")
  /\ Unlock(t)
  /\ reply' = [reply EXCEPT ![t] = Code(0)]
  /\ UNCHANGED <<db_, frames_, uniq_frm_cnt, ref_, table_, req, todo, left, held, result, info>>

Add(t) == AddExists(t) \/ AddNew(t) \/ AddInsert(t) \/ AddDone(t)

-----------------------------------------------------------------------------
(***************************************************************************)
(* Query by key copies the video's frames and then queries by frames.      *)
(***************************************************************************)
(* A deliberately wrong variant, for the sensitivity check of QuietDrains: *)
(* a query by key waits until the video is there.                          *)
Lookup_Waiting(t) ==
  LET n == req[t].name IN
  /\ pc[t] = "lookup"
  /\ MutexFree
  /\ n \in db_
  /\ pc' = [pc EXCEPT ![t] = "candidates"]
  /\ req' = [req EXCEPT ![t].frames = frames_[n]]
  /\ UNCHANGED <<mutex_, db_, frames_, uniq_frm_cnt, ref_, table_,
                 todo, left, held, result, reply, info>>

Lookup(t) ==
  LET n == req[t].name IN
  /\ pc[t] = "lookup"
  /\ MutexFree
  /\ IF n \in db_
     THEN /\ pc' = [pc EXCEPT ![t] = "candidates"]
          /\ req' = [req EXCEPT ![t].frames = frames_[n]]
          /\ UNCHANGED reply
     ELSE /\ pc' = [pc EXCEPT ![t] = "done"]
          /\ reply' = [reply EXCEPT ![t] = Code(-1)]
          /\ UNCHANGED req
  /\ UNCHANGED <<mutex_, db_, frames_, uniq_frm_cnt, ref_, table_, todo, left, held, result, info>>

(* A deliberately wrong variant, for the sensitivity check of              *)
(* ImplementsMatchStore: the candidates are collected without the mutex.   *)
GetCandidates_Unlocked(t) ==
  LET cand == Candidates(table_, uniq_frm_cnt, req[t].frames) IN
  /\ Goto(t, "candidates", "check")
  /\ held' = [held EXCEPT ![t] = cand]
  /\ ref_' = [n \in Name |-> IF n \in cand THEN ref_[n] + 1 ELSE ref_[n]]
  /\ UNCHANGED <<mutex_, db_, frames_, uniq_frm_cnt, table_,
                 req, todo, left, result, reply, info>>

(* get_candidates1: under the mutex, with a reference taken to each.       *)
GetCandidates(t) ==
  LET cand == Candidates(table_, uniq_frm_cnt, req[t].frames) IN
  /\ Goto(t, "candidates", "check")
  /\ MutexFree
  /\ held' = [held EXCEPT ![t] = cand]
  /\ ref_' = [n \in Name |-> IF n \in cand THEN ref_[n] + 1 ELSE ref_[n]]
  /\ UNCHANGED <<mutex_, db_, frames_, uniq_frm_cnt, table_,
                 req, todo, left, result, reply, info>>

(* A deliberately wrong variant, for the sensitivity check of RefExact:    *)
(* the reference to a video that does not match is not given back.         *)
CheckCandidate_Leak(t) ==
  /\ pc[t] = "check"
  /\ \E n \in held[t] :
       LET score == Score[<<frames_[n], req[t].frames>>] IN
       /\ result' = [result EXCEPT ![t] =
                       IF score > THRESHOLD THEN @ \cup {<<n, score>>} ELSE @]
       /\ ref_' = [ref_ EXCEPT ![n] = IF score > THRESHOLD THEN @ - 1 ELSE @]
       /\ held' = [held EXCEPT ![t] = @ \ {n}]
  /\ UNCHANGED <<mutex_, db_, frames_, uniq_frm_cnt, table_, pc, req, todo, left, reply, info>>

(* check_candidate, without the mutex: only the reference protects n.      *)
CheckCandidate(t) ==
  /\ pc[t] = "check"
  /\ \E n \in held[t] :
       LET score == Score[<<frames_[n], req[t].frames>>] IN
       /\ result' = [result EXCEPT ![t] =
                       IF score > THRESHOLD THEN @ \cup {<<n, score>>} ELSE @]
       /\ ref_' = [ref_ EXCEPT ![n] = @ - 1]
       /\ held' = [held EXCEPT ![t] = @ \ {n}]
  /\ UNCHANGED <<mutex_, db_, frames_, uniq_frm_cnt, table_, pc, req, todo, left, reply, info>>

(* A deliberately wrong variant, for the sensitivity check of SelfFirst:   *)
(* the results are sorted the other way round.                             *)
Sorted_Rising(R) ==
  {s \in [1..Cardinality(R) -> R] :
     /\ Range(s) = R
     /\ \A i, j \in 1..Cardinality(R) : i < j => s[i][2] <= s[j][2]}

(* std::sort by falling score: equal scores come in any order.             *)
Sorted(R) ==
  {s \in [1..Cardinality(R) -> R] :
     /\ Range(s) = R
     /\ \A i, j \in 1..Cardinality(R) : i < j => s[i][2] >= s[j][2]}

FinishQuery(t) ==
  /\ Goto(t, "check", "done")
  /\ held[t] = {}
  /\ \E s \in Sorted(result[t]) :
       reply' = [reply EXCEPT ![t] = [code |-> Cardinality(result[t]), list |-> s]]
  /\ UNCHANGED <<mutex_, db_, frames_, uniq_frm_cnt, ref_, table_,
                 req, todo, left, held, result, info>>

Query(t) == Lookup(t) \/ GetCandidates(t) \/ CheckCandidate(t) \/ FinishQuery(t)

-----------------------------------------------------------------------------
(***************************************************************************)
(* Save holds mutex_ while it writes every video, with a reference to the  *)
(* one being written.  What it writes is the subject of DBFile.            *)
(***************************************************************************)
SaveBegin(t) ==
  /\ Goto(t, "save", "save_next")
  /\ Lock(t)
  /\ left' = [left EXCEPT ![t] = db_]
  /\ UNCHANGED <<db_, frames_, uniq_frm_cnt, ref_, table_, req, todo, held, result, reply, info>>

(* A deliberately wrong variant, for the sensitivity check of TypeOK: the  *)
(* reference that is given back later is never taken.                      *)
SaveItem_NoRef(t) ==
  /\ Goto(t, "save_next", "save_item")
  /\ \E n \in left[t] :
       /\ left' = [left EXCEPT ![t] = @ \ {n}]
       /\ held' = [held EXCEPT ![t] = {n}]
  /\ UNCHANGED <<mutex_, db_, frames_, uniq_frm_cnt, ref_, table_, req, todo, result, reply, info>>

(* A deliberately wrong variant, for the sensitivity check of              *)
(* MutexReleased: the loop over db_ does not advance.                      *)
SaveItem_Stuck(t) ==
  /\ Goto(t, "save_next", "save_item")
  /\ \E n \in left[t] :
       /\ held' = [held EXCEPT ![t] = {n}]
       /\ ref_' = [ref_ EXCEPT ![n] = @ + 1]
  /\ UNCHANGED <<mutex_, db_, frames_, uniq_frm_cnt, table_, req, todo, left, result, reply, info>>

SaveItem(t) ==
  /\ Goto(t, "save_next", "save_item")
  /\ \E n \in left[t] :
       /\ left' = [left EXCEPT ![t] = @ \ {n}]
       /\ held' = [held EXCEPT ![t] = {n}]
       /\ ref_' = [ref_ EXCEPT ![n] = @ + 1]
  /\ UNCHANGED <<mutex_, db_, frames_, uniq_frm_cnt, table_, req, todo, result, reply, info>>

SaveItemDone(t) ==
  /\ Goto(t, "save_item", "save_next")
  /\ ref_' = [n \in Name |-> IF n \in held[t] THEN ref_[n] - 1 ELSE ref_[n]]
  /\ held' = [held EXCEPT ![t] = {}]
  /\ UNCHANGED <<mutex_, db_, frames_, uniq_frm_cnt, table_, req, todo, left, result, reply, info>>

SaveDone(t) ==
  /\ Goto(t, "save_next", "done")
  /\ req[t].op = "save" /\ left[t] = {}
  /\ Unlock(t)
  /\ UNCHANGED <<db_, frames_, uniq_frm_cnt, ref_, table_, req, todo, left, held, result, reply, info>>

Save(t) == SaveBegin(t) \/ SaveItem(t) \/ SaveItemDone(t) \/ SaveDone(t)

-----------------------------------------------------------------------------
(***************************************************************************)
(* /info, on the network thread: three reads, only the second locked.      *)
(***************************************************************************)
FramesCount    == Cardinality(UNION {{s} \X DOMAIN table_[s] : s \in DOMAIN table_})
FrameTableSize == Cardinality(DOMAIN table_)

(* info.counted is a history variable: the videos Count() counted.         *)
InfoCount(t) ==
  /\ Serving
  /\ Goto(t, "idle", "frames_count")
  /\ req' = [req EXCEPT ![t].op = "info"]
  /\ info' = [info EXCEPT !.video_count = Cardinality(db_), !.counted = db_]
  /\ UNCHANGED <<mutex_, db_, frames_, uniq_frm_cnt, ref_, table_, todo, left, held, result, reply>>

(* A deliberately wrong variant, for the sensitivity check of InfoForward: *)
(* the frames are counted without the mutex.                               *)
InfoFrames_Unlocked(t) ==
  /\ Goto(t, "frames_count", "table_size")
  /\ info' = [info EXCEPT !.frames_count = FramesCount]
  /\ UNCHANGED <<mutex_, db_, frames_, uniq_frm_cnt, ref_, table_,
                 req, todo, left, held, result, reply>>

InfoFrames(t) ==
  /\ Goto(t, "frames_count", "table_size")
  /\ MutexFree
  /\ info' = [info EXCEPT !.frames_count = FramesCount]
  /\ UNCHANGED <<mutex_, db_, frames_, uniq_frm_cnt, ref_, table_,
                 req, todo, left, held, result, reply>>

InfoTable(t) ==
  /\ Goto(t, "table_size", "done")
  /\ info' = [info EXCEPT !.frame_table_size = FrameTableSize]
  /\ UNCHANGED <<mutex_, db_, frames_, uniq_frm_cnt, ref_, table_,
                 req, todo, left, held, result, reply>>

-----------------------------------------------------------------------------
(* What thread t does on its own once it has something to do.              *)
Step(t) ==
  \/ t \in Worker /\ (Add(t) \/ Query(t) \/ Save(t))
  \/ t = IoThread /\ (Load(t) \/ InfoFrames(t) \/ InfoTable(t))
  \/ IndexBegin(t) \/ IndexPush(t) \/ Respond(t)

(* A request arrives.                                                      *)
Arrive == (\E t \in Worker : ReceiveRequest(t)) \/ InfoCount(IoThread)

Next == Arrive \/ \E t \in Thread : Step(t)

Spec == Init /\ [][Next]_vars

(* Every thread keeps running.  Nothing is assumed of the order in which   *)
(* waiting threads get mutex_ (std::mutex promises none), nor of arrivals. *)
FairSpec == Spec /\ \A t \in Thread : WF_vars(Step(t))

-----------------------------------------------------------------------------
(***************************************************************************)
(* Properties                                                              *)
(***************************************************************************)
PcValues ==
  {"idle", "done", "load", "load_next", "index", "push", "add", "insert",
   "lookup", "candidates", "check", "save", "save_next", "save_item",
   "frames_count", "table_size"}

ReqType == [op : {"none", "load", "add", "query", "key", "save", "info"},
            name : Name \cup {NoName}, frames : FrameList \cup {<< >>}]
ReplyType == [code : Int, list : Seq(Name \X (0..100))]
InfoType == [video_count : Nat, frames_count : Nat, frame_table_size : Nat,
             counted : SUBSET Name]

(* The type of the state.  ref_ is a natural number: no reference is given *)
(* back twice.                                                             *)
TypeOK ==
  /\ mutex_ \in Thread \cup {NoThread}
  /\ db_ \in SUBSET Name
  /\ frames_ \in [Name -> FrameList \cup {<< >>}]
  /\ uniq_frm_cnt \in [Name -> Nat \cup {UNSET}]
  /\ ref_ \in [Name -> Nat]
  /\ DOMAIN table_ \in SUBSET Slot
  /\ \A s \in DOMAIN table_ : table_[s] \in KeyBlock
  /\ pc \in [Thread -> PcValues]
  /\ req \in [Thread -> ReqType]
  /\ todo \in [Thread -> SUBSET Frame]
  /\ left \in [Thread -> SUBSET Name]
  /\ held \in [Thread -> SUBSET Name]
  /\ result \in [Thread -> SUBSET (Name \X (0..100))]
  /\ reply \in [Thread -> ReplyType]
  /\ info \in InfoType

(* Whoever can take mutex_ finds the index complete and exact: every       *)
(* non-empty frame of every video is listed in the block of its slot, once *)
(* however often the video repeats it, nothing else is listed, and         *)
(* uniq_frm_cnt, which the constructor leaves uninitialised, has been set. *)
IndexExact ==
  MutexFree =>
    /\ \A n \in db_ : /\ uniq_frm_cnt[n] = Cardinality(UniqueFrames(frames_[n]))
                     /\ \A k \in UniqueFrames(frames_[n]) : n \in VideosWith(table_, k)
    /\ \A s \in DOMAIN table_ :
         /\ IsInjective(table_[s])
         /\ \A p \in Range(table_[s]) : /\ key_shorten(p[1]) = s
                                       /\ p[2] \in db_
                                       /\ p[1] \in UniqueFrames(frames_[p[2]])

(* The reference count of a video is the number of threads that use it     *)
(* without holding mutex_ for it, whatever order they take and drop it in. *)
Holders(h, n) == {t \in Thread : n \in h[t]}

RefExact == \A n \in Name : ref_[n] = Cardinality(Holders(held, n))

(* A client told that its video was added finds it stored with the frames  *)
(* it sent, and no other client was told so of the same name: "duplicate   *)
(* key name not allowed, nor overwrite when happened".                     *)
AddReplyTrue ==
  \A t \in Worker :
    pc[t] = "done" /\ req[t].op = "add" =>
      /\ req[t].name \in db_
      /\ reply[t].code = 0 =>
           /\ frames_[req[t].name] = req[t].frames
           /\ \A u \in Worker \ {t} :
                ~ ( /\ pc[u] = "done" /\ req[u].op = "add"
                    /\ req[u].name = req[t].name /\ reply[u].code = 0 )

(* A query by key of a stored video with a non-empty frame reports that    *)
(* video, and before it only videos of the same score, although its two    *)
(* critical sections are apart.  The test script counts on the first half: *)
(* it drops the line in which a video matches itself.                      *)
SelfFirst ==
  \A t \in Worker :
    pc[t] = "done" /\ req[t].op = "key" /\ reply[t].code >= 0
      /\ UniqueFrames(req[t].frames) # {} =>
        \E i \in DOMAIN reply[t].list :
          /\ reply[t].list[i][1] = req[t].name
          /\ \A j \in 1..(i - 1) : reply[t].list[j][2] = reply[t].list[i][2]

(* /info reads its three numbers at three moments and two of them without  *)
(* the mutex.  They still fit together one way: every video in video_count *)
(* is in full in frames_count and in frame_table_size.                     *)
InfoForward ==
  pc[IoThread] = "done" =>
    LET indexed == UNION {{n} \X UniqueFrames(frames_[n]) : n \in info.counted}
    IN  /\ info.video_count = Cardinality(info.counted)
        /\ info.frames_count >= Cardinality(indexed)
        /\ info.frame_table_size >= Cardinality({key_shorten(p[2]) : p \in indexed})

-----------------------------------------------------------------------------
(***************************************************************************)
(* VideoDB implements MatchStore: an add takes effect when db_ gets the    *)
(* video, a query when it collects its candidates.                         *)
(***************************************************************************)
Client(t) == req[t].op \in {"add", "key", "query"}

PhaseOf(t) ==
  IF ~ Client(t) THEN "idle"
  ELSE IF pc[t] \in {"add", "insert", "lookup"} THEN "called"
  ELSE IF pc[t] = "candidates" THEN "located"
  ELSE "answered"

(* The matches a running check will end with: references still held are    *)
(* to videos that never change.                                            *)
FinalMatches(t) ==
  result[t] \cup {<<n, Score[<<frames_[n], req[t].frames>>]>> :
                    n \in {m \in held[t] : Good(frames_[m], req[t].frames)}}

AnswerOf(t) ==
  IF PhaseOf(t) # "answered" \/ (req[t].op = "add" /\ pc[t] # "done")
  THEN [code |-> 0, matches |-> {}]
  ELSE IF pc[t] = "check"
  THEN [code |-> Cardinality(FinalMatches(t)), matches |-> FinalMatches(t)]
  ELSE [code |-> reply[t].code, matches |-> Range(reply[t].list)]

Store == INSTANCE MatchStore WITH
  store   <- [n \in db_ |-> frames_[n]],
  phase   <- [t \in Worker |-> PhaseOf(t)],
  request <- [t \in Worker |-> IF Client(t) THEN req[t] ELSE NoReq],
  answer  <- [t \in Worker |-> AnswerOf(t)]

(* Every reply is one the abstract store could have given: a query that    *)
(* holds no lock while it compares videos still answers with exactly the   *)
(* videos that matched at one instant between its call and its reply.      *)
ImplementsMatchStore == Store!Spec

(* No thread keeps mutex_ for ever, so /info, which waits for it on the    *)
(* one thread that serves the network, goes on.                            *)
MutexReleased == mutex_ # NoThread ~> mutex_ = NoThread

(* Once no more requests arrive, every request is answered: no thread is   *)
(* left waiting, whatever order mutex_ was granted in.                     *)
QuietDrains ==
  <>[][~ Arrive]_vars => <>[](\A t \in Thread : pc[t] = "idle")
=============================================================================
