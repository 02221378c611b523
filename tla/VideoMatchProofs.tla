-------------------------- MODULE VideoMatchProofs --------------------------
(***************************************************************************)
(* Proofs about VideoMatch for any numbers of tools and pool threads, any  *)
(* videos and pictures, and any scores.                                    *)
(***************************************************************************)
EXTENDS VideoMatch, FiniteSetTheorems, WellFoundedInduction, TLAPS

-----------------------------------------------------------------------------
(***************************************************************************)
(* Cropping.                                                               *)
(***************************************************************************)

(* A loop of crop_border ends at one of the lines it goes through.         *)
LEMMA LoopEndIsLine ==
  ASSUME NEW size \in Nat, size >= 2, NEW stops
  PROVE  LoopEnd(size, stops) \in 0..LastLine(size)
<1> DEFINE last == LastLine(size)
           Stopped == {i \in 0..last : stops[i] \/ i = last}
<1>1. last \in Nat
  BY DEF LastLine
<1> HIDE DEF last
<1>2. Stopped \subseteq Nat /\ last \in Stopped
  BY <1>1
<1>3. PICK i \in Stopped : \A j \in Stopped : ~ (<<j, i>> \in OpToRel(<, Nat))
  BY <1>2, WFMin, NatLessThanWellFounded
<1>4. \A j \in Stopped : ~ (j < i)
  BY <1>2, <1>3 DEF OpToRel
<1>5. \A j \in 0..(i - 1) : ~ stops[j]
  <2> SUFFICES ASSUME NEW j \in 0..(i - 1), stops[j]
               PROVE  FALSE
    OBVIOUS
  <2>1. j \in Stopped /\ j < i
    BY <1>1
  <2> QED
    BY <2>1, <1>4
<1>6. Ends(size, stops, i)
  BY <1>5 DEF Ends, last
<1> QED
  BY <1>6 DEF LoopEnd, Ends

(* What is left of a side that is long enough after its borders are taken  *)
(* off lies in the picture once a tenth is taken off at each end.          *)
LEMMA KeptWithin ==
  ASSUME NEW size \in Nat, NEW first, NEW last,
         size >= 2 => first \in 0..LastLine(size) /\ last \in 0..LastLine(size),
         ~ TooSmall(Span(size, first, last))
  PROVE  Within(Kept(Span(size, first, last)), size)
<1>1. size >= 2
  BY DEF Span, TooSmall, MIN_SIZE
<1>2. Span(size, first, last) = [from |-> first, to |-> size - last]
  BY <1>1 DEF Span
<1> DEFINE n == size - last - first
<1>3. first \in Nat /\ last \in Nat /\ n \in Nat /\ n >= 32
  BY <1>1, <1>2 DEF LastLine, TooSmall, MIN_SIZE
<1> DEFINE a == n \div 10
           b == (n + 9) \div 10
<1>4. a \in Nat /\ b \in Nat /\ b >= 1 /\ a + b <= n
  <2> HIDE DEF n
  <2> QED
    BY <1>3
<1>5. Kept(Span(size, first, last)) = [from |-> first + a, to |-> size - last - b]
  BY <1>2, <1>3 DEF Kept
<1> HIDE DEF a, b
<1> QED
  BY <1>3, <1>4, <1>5 DEF Within

(* What crop_border keeps of a picture that is not useless.                *)
LEMMA CropWithin ==
  ASSUME NEW p, IsPicture(p), ~ Useless(p)
  PROVE  Within(crop_border(p).x, p.width) /\ Within(crop_border(p).y, p.height)
<1>1. p.width \in Nat /\ p.height \in Nat
  BY DEF IsPicture
<1>2. p.width >= 2 => Left(p) \in 0..LastLine(p.width) /\ Right(p) \in 0..LastLine(p.width)
  BY <1>1, LoopEndIsLine DEF Left, Right
<1>3. p.height >= 2 => Top(p) \in 0..LastLine(p.height) /\ Bottom(p) \in 0..LastLine(p.height)
  BY <1>1, LoopEndIsLine DEF Top, Bottom
<1>4. ~ TooSmall(Columns(p)) /\ ~ TooSmall(Rows(p))
  BY DEF Useless
<1>5. Within(Kept(Columns(p)), p.width)
  BY <1>1, <1>2, <1>4, KeptWithin DEF Columns
<1>6. Within(Kept(Rows(p)), p.height)
  BY <1>1, <1>3, <1>4, KeptWithin DEF Rows
<1> QED
  BY <1>5, <1>6 DEF crop_border

-----------------------------------------------------------------------------
(***************************************************************************)
(* The jobs stay as they are.                                              *)
(***************************************************************************)
LEMMA JobKept == [Next]_vars => job' = job
<1> SUFFICES ASSUME [Next]_vars PROVE job' = job
  OBVIOUS
<1> USE DEF server, run_vars, told_vars
<1>1. ASSUME NEW r \in Run, StartSilent(r) \/ StartRequest(r) \/ Arrive(r) \/ GiveUp(r)
                              \/ Refuse(r) \/ Dispatch(r) \/ Exit(r)
      PROVE  job' = job
  BY <1>1 DEF StartSilent, StartRequest, Arrive, GiveUp, Refuse, Dispatch, Exit, ProcessEnds
<1>2. ASSUME NEW t \in Worker, PoolThread(t)
      PROVE  job' = job
  BY <1>2 DEF PoolThread, Take, RefuseMalformed, Throw, ProcessEnds, CallEngine, EngineStep,
              ReplyFromEngine, Save
<1>3. CASE Restart
  BY <1>3 DEF Restart
<1>4. CASE UNCHANGED vars
  BY <1>4 DEF vars
<1> QED
  BY <1>1, <1>2, <1>3, <1>4 DEF Next

(* What the client keeps of a picture lies in the picture, for pictures of *)
(* any size with any borders.                                              *)
THEOREM CropsAreInside == Spec => []CropInside
<1>1. Init => job \in Jobs
  BY DEF Init
<1>2. job \in Jobs /\ [Next]_vars => (job \in Jobs)'
  BY JobKept
<1>3. job \in Jobs => CropInside
  <2> SUFFICES ASSUME job \in Jobs, NEW r \in Run, job[r].dir # NoDir, NEW p \in Cropped[job[r].dir]
               PROVE  Within(p.c.x, p.width) /\ Within(p.c.y, p.height)
    BY DEF CropInside
  <2>1. job[r].dir \in Dir
    BY RunAssumption
  <2>2. PICK f \in Range(Files[job[r].dir]) :
          ~ Useless(f) /\ p = [c |-> crop_border(f), width |-> f.width, height |-> f.height]
    BY <2>1 DEF Cropped
  <2>3. IsPicture(f)
    BY <2>1, <2>2, RunAssumption
  <2>4. Within(crop_border(f).x, f.width) /\ Within(crop_border(f).y, f.height)
    BY <2>2, <2>3, CropWithin
  <2> QED
    BY <2>2, <2>4
<1> QED
  BY <1>1, <1>2, <1>3, PTL DEF Spec

-----------------------------------------------------------------------------
(***************************************************************************)
(* The inductive invariant.                                                *)
(***************************************************************************)
In(a, st)        == a[1] \in DOMAIN st /\ st[a[1]] = a[2]
Grown(old, new)  == \A n \in DOMAIN old : n \in DOMAIN new /\ new[n] = old[n]
Adds(r, n, fs)   == ~ Silent(job[r]) /\ message(r).type = "add"
                      /\ message(r).name = n /\ message(r).frames = fs
FromRuns(st)     == \A n \in DOMAIN st : \E r \in Run : Adds(r, n, st[n])
Names(list)      == {x[1] : x \in list}

(* The queries that have to find a video.                                  *)
Asks(m, a) ==
  /\ UniqueFrames(a[2]) # {}
  /\ \/ m.type = "query_duplicate" /\ m.frames = a[2]
     \/ m.method = "GET" /\ TakesKey(m) /\ m.name = a[1]

(* The requests that come to the engine.                                   *)
Serves(t) == Does(t, "key") \/ (Does(t, "process") /\ ~ Bad(t))

AnswerType == [code : Int, matches : SUBSET (Name \X (0..100))]

EngineType ==
  /\ phase \in [Worker -> {"idle", "called", "located", "answered"}]
  /\ request \in [Worker -> Engine!Request \cup {Engine!NoRequest}
                              \cup [op : {"key"}, name : Name, frames : FrameList]]
  /\ answer \in [Worker -> AnswerType]

(* While no server runs, nothing is under way in it, and only what was     *)
(* saved is still sure.                                                    *)
DownInv ==
  ~ up => /\ \A t \in Worker : serves[t] = NoRun /\ phase[t] = "idle"
          /\ \A r \in Run : mail[r] \notin {"pool", "thread"}
          /\ sure = kept

(* Where requests and replies are.                                         *)
MailInv ==
  \A r \in Run :
    /\ pc[r] = "start" => mail[r] = "none"
    /\ mail[r] # "none" => ~ Silent(job[r])
    /\ mail[r] = "back" => pc[r] = "waiting"
    /\ pc[r] # "ended" => got[r].form = "none"

(* What the database holds comes from runs, and the db file lags behind.   *)
StoreInv ==
  /\ FromRuns(store) /\ FromRuns(saved)
  /\ up => Grown(saved, store)

(* The engine serves the request of the thread's run.                      *)
RequestTrue(t) ==
  phase[t] # "idle" =>
    /\ serves[t] # NoRun /\ Serves(t)
    /\ request[t].op = Operation(message(serves[t])).op
    /\ request[t].name = Operation(message(serves[t])).name
    /\ request[t].op # "key" => request[t].frames = Operation(message(serves[t])).frames
    /\ phase[t] = "located" => request[t].op # "add" /\ request[t].frames \in FrameList
    /\ phase[t] = "located" /\ request[t].op = "key" =>
         In(<<request[t].name, request[t].frames>>, store)

(* What the engine answered is true of the store.                          *)
AnswerTrue(t) ==
  phase[t] = "answered" =>
    /\ request[t].op = "add" /\ answer[t].code = 0 =>
         In(<<request[t].name, request[t].frames>>, store)
    /\ request[t].op = "add" /\ answer[t].code = -1 => request[t].name \in DOMAIN store
    /\ \A a \in promised[serves[t]] : Asks(message(serves[t]), a) =>
         answer[t].code # -1 /\ a[1] \in Names(answer[t].matches)

ThreadInv == \A t \in Worker : RequestTrue(t) /\ AnswerTrue(t)

(* So is what a reply says, until the server exits.                        *)
LetterTrue(r) ==
  mail[r] = "back" =>
    /\ message(r).type = "add" /\ letter[r].form = "json" /\ ~ disturbed[r] =>
         /\ letter[r].code = 0 => up /\ In(<<message(r).name, message(r).frames>>, store)
         /\ letter[r].code = -1 /\ letter[r].msg = "" => up /\ message(r).name \in DOMAIN store
    /\ Saves(message(r)) => \A a \in promised[r] : In(a, saved)
    /\ letter[r].form \in {"json", "plain"} =>
         \A a \in promised[r] : Asks(message(r), a) => a[1] \in Names(letter[r].list)

LetterInv == \A r \in Run : LetterTrue(r)

PromiseInv == \A r \in Run : promised[r] \subseteq sure

IInv == /\ TypeOK /\ EngineType /\ DownInv /\ MailInv /\ StoreInv /\ ThreadInv
        /\ LetterInv /\ PromiseInv /\ SureStored /\ FoundAfterAdd

-----------------------------------------------------------------------------
(***************************************************************************)
(* Facts about messages and matches.                                       *)
(***************************************************************************)

(* The fields of what the client posts.                                    *)
LEMMA PostFacts ==
  ASSUME NEW type, NEW n, NEW fs
  PROVE  /\ Post(type, n, fs).method = "POST" /\ Post(type, n, fs).json = "object"
         /\ Post(type, n, fs).name = n /\ Post(type, n, fs).frames = fs
         /\ Post(type, n, fs).has_frames = (fs # << >>)
<1>1. Post(type, n, fs).method = "POST"
  BY Zenon DEF Post
<1>2. Post(type, n, fs).json = "object"
  BY Zenon DEF Post
<1>3. Post(type, n, fs).name = n
  BY Zenon DEF Post
<1>4. Post(type, n, fs).frames = fs
  BY Zenon DEF Post
<1>5. Post(type, n, fs).has_frames = (fs # << >>)
  BY Zenon DEF Post
<1> QED
  BY <1>1, <1>2, <1>3, <1>4, <1>5

(* What a run that is not silent sends.                                    *)
LEMMA MessageFacts ==
  ASSUME job \in Jobs, NEW r \in Run
  PROVE  /\ message(r).method \in {"GET", "POST", "HEAD"}
         /\ message(r).type # "none" => message(r).method = "POST" /\ message(r).json = "object"
         /\ message(r).frames # << >> => message(r).has_frames
         /\ message(r).name \in Name \cup {NoName}
<1>1. CASE job[r].tool = "other"
  <2>1. message(r) \in Message
    BY <1>1, RunAssumption DEF message, MessageOf
  <2>2. message(r) \in Document
    BY <2>1 DEF Message
  <2> QED
    BY <2>1, <2>2 DEF Message, Document
<1>2. CASE job[r].tool # "other"
  <2>1. \/ message(r) = Post("add", job[r].name, FramesOf[job[r].dir])
        \/ message(r) = Post("query_duplicate", NoName, FramesOf[job[r].dir])
    BY <1>2 DEF message, MessageOf
  <2>2. job[r].name \in Name \cup {NoName}
    BY RunAssumption
  <2>3. ASSUME NEW type, NEW n, NEW fs, message(r) = Post(type, n, fs)
        PROVE  /\ message(r).method = "POST" /\ message(r).json = "object"
               /\ message(r).name = n
               /\ message(r).frames = fs /\ message(r).has_frames = (fs # << >>)
    BY <2>3, PostFacts
  <2> QED
    BY <2>1, <2>2, <2>3
<1> QED
  BY <1>1, <1>2

(* What a pool thread does with a message.                                 *)
LEMMA HandlerFacts ==
  ASSUME NEW m, m.method \in {"GET", "POST", "HEAD"}
  PROVE  /\ my_handler(m, TRUE) = "process" <=> m.method = "POST"
         /\ my_handler(m, TRUE) = "save" <=> Saves(m)
         /\ my_handler(m, TRUE) = "key" <=> m.method = "GET" /\ TakesKey(m)
  BY DEF my_handler, NeedsPool, Saves, TakesKey

LEMMA NoFrames == UniqueFrames(<< >>) = {}
<1>1. DOMAIN << >> = {}
  OBVIOUS
<1> QED
  BY <1>1, Zenon DEF UniqueFrames, Range

(* A refused request is not one that has to find a video.                  *)
LEMMA RefusalFacts ==
  ASSUME job \in Jobs, NEW r \in Run, Refusal(message(r)) # "", message(r).method = "POST",
         NEW a
  PROVE  ~ Asks(message(r), a)
<1> SUFFICES ASSUME Asks(message(r), a) PROVE FALSE
  OBVIOUS
<1>1. message(r).type = "query_duplicate" /\ message(r).frames = a[2] /\ UniqueFrames(a[2]) # {}
  BY DEF Asks
<1>2. message(r).frames # << >>
  BY <1>1, NoFrames
<1>3. message(r).json = "object" /\ message(r).has_frames
  BY <1>1, <1>2, MessageFacts
<1> QED
  BY <1>1, <1>3 DEF Refusal

(* A video that has a hash matches itself, whatever else is stored.        *)
LEMMA MatchesItself ==
  ASSUME NEW st, NEW a \in Name \X FrameList, In(a, st), UniqueFrames(a[2]) # {}
  PROVE  a[1] \in Names(MatchesIn(st, a[2]))
<1> DEFINE fs == a[2]
           u == Cardinality(UniqueFrames(fs))
           q == Cardinality(Range(fs))
<1>1. fs \in FrameList /\ fs \in Seq(Frame)
  BY IndexAssumption
<1>2. Range(fs) \subseteq Frame
  BY <1>1 DEF Range
<1>3. IsFiniteSet(Range(fs))
  BY <1>2, FS_Subset, IndexAssumption
<1>4. q \in Nat /\ (u = q \/ u = q - 1) /\ u \in Nat
  <2>1. UniqueFrames(fs) = Range(fs) \ {EMPTY_FRAME}
    BY DEF UniqueFrames
  <2> QED
    BY <1>3, <2>1, FS_RemoveElement, FS_CardinalityType
<1>5. ~ LengthDiffers(u, q)
  <2> HIDE DEF u, q
  <2> QED
    BY <1>4, IndexAssumption DEF LengthDiffers
<1>6. IsCandidate(fs, fs)
  BY <1>5 DEF IsCandidate
<1>7. fs # << >>
  BY DEF UniqueFrames, Range
<1>8. Good(fs, fs)
  BY <1>1, <1>7, SelfScoreAssumption DEF Good, THRESHOLD
<1>9. a[1] \in DOMAIN st /\ st[a[1]] = fs
  BY DEF In
<1>10. <<a[1], Score[<<fs, fs>>]>> \in MatchesIn(st, fs)
  BY <1>6, <1>8, <1>9 DEF MatchesIn
<1> QED
  BY <1>10 DEF Names

(* The answer to a query.                                                  *)
LEMMA MatchesType ==
  ASSUME NEW st, DOMAIN st \subseteq Name, \A n \in DOMAIN st : st[n] \in FrameList,
         NEW fs \in FrameList
  PROVE  /\ MatchesIn(st, fs) \subseteq Name \X (0..100)
         /\ Cardinality(MatchesIn(st, fs)) \in Nat
<1>1. \A n \in DOMAIN st : Score[<<st[n], fs>>] \in 0..100
  BY IndexAssumption
<1>2. MatchesIn(st, fs) \subseteq Name \X (0..100)
  <2> SUFFICES ASSUME NEW x \in MatchesIn(st, fs) PROVE x \in Name \X (0..100)
    OBVIOUS
  <2>1. PICK n \in DOMAIN st : x = <<n, Score[<<st[n], fs>>]>>
    BY DEF MatchesIn
  <2> QED
    BY <1>1, <2>1
<1>3. IsFiniteSet(0..100)
  BY FS_Interval, 0 \in Int, 100 \in Int
<1>4. IsFiniteSet(Name \X (0..100))
  BY <1>3, FS_Product, IndexAssumption
<1>5. IsFiniteSet(MatchesIn(st, fs))
  BY <1>2, <1>4, FS_Subset
<1> QED
  BY <1>2, <1>5, FS_CardinalityType

-----------------------------------------------------------------------------
(***************************************************************************)
(* What an action that leaves a part alone keeps.                          *)
(***************************************************************************)

(* A store that only grows.                                                *)
LEMMA ThreadKept ==
  ASSUME NEW t \in Worker, RequestTrue(t), AnswerTrue(t), job' = job,
         phase'[t] = phase[t], request'[t] = request[t], answer'[t] = answer[t],
         serves'[t] = serves[t], Grown(store, store'),
         phase[t] = "answered" => promised'[serves[t]] \subseteq promised[serves[t]]
  PROVE  (RequestTrue(t) /\ AnswerTrue(t))'
<1>1. RequestTrue(t)'
  BY DEF RequestTrue, Serves, Does, Bad, Thrown, message, In, Grown
<1>2. AnswerTrue(t)'
  BY DEF AnswerTrue, message, In, Grown
<1> QED
  BY <1>1, <1>2

LEMMA LetterKept ==
  ASSUME NEW r \in Run, LetterTrue(r), job' = job,
         mail'[r] = "back" =>
           /\ mail[r] = "back" /\ letter'[r] = letter[r]
           /\ \/ disturbed'[r]
              \/ disturbed'[r] = disturbed[r] /\ (up => up') /\ Grown(store, store')
           /\ promised'[r] \subseteq promised[r],
         Grown(saved, saved')
  PROVE  LetterTrue(r)'
  BY DEF LetterTrue, message, In, Grown

LEMMA StoreKept ==
  ASSUME StoreInv, job' = job, UNCHANGED <<store, saved, up>>
  PROVE  StoreInv'
  BY DEF StoreInv, FromRuns, Adds, message, Grown

LEMMA FoundKept ==
  ASSUME FoundAfterAdd, job' = job, got' = got, \A r \in Run : promised'[r] \subseteq promised[r]
  PROVE  FoundAfterAdd'
  BY DEF FoundAfterAdd, message

(* An action of a run, on which the server does nothing.                   *)
LEMMA ServerKept ==
  ASSUME IInv, UNCHANGED <<server, job>>,
         \A r \in Run : pc[r] = "waiting" => promised'[r] \subseteq promised[r],
         \A r \in Run : mail[r] = "thread" => promised'[r] \subseteq promised[r]
  PROVE  EngineType' /\ StoreInv' /\ ThreadInv'
<1>1. EngineType'
  BY DEF IInv, EngineType, server
<1>2. StoreInv'
  BY StoreKept DEF IInv, server
<1>3. ASSUME NEW t \in Worker PROVE (RequestTrue(t) /\ AnswerTrue(t))'
  <2>1. RequestTrue(t) /\ AnswerTrue(t)
    BY DEF IInv, ThreadInv
  <2>2. phase[t] = "answered" => promised'[serves[t]] \subseteq promised[serves[t]]
    BY <2>1 DEF RequestTrue, IInv, TypeOK
  <2>3. Grown(store, store')
    BY DEF Grown, server
  <2> QED
    BY <2>1, <2>2, <2>3, ThreadKept DEF server
<1> QED
  BY <1>1, <1>2, <1>3 DEF ThreadInv

LEMMA StartSilentStep == ASSUME IInv, NEW r \in Run, StartSilent(r) PROVE IInv'
<1> USE DEF server, told_vars
<1>1. UNCHANGED <<server, job, mail, letter, got, disturbed, sure, kept, promised>>
  BY DEF StartSilent
<1>2. pc[r] = "start" /\ pc' = [pc EXCEPT ![r] = "ended"]
  BY DEF StartSilent
<1>3. TypeOK'
  BY <1>1, <1>2 DEF IInv, TypeOK
<1>4. EngineType' /\ StoreInv' /\ ThreadInv'
  BY <1>1, ServerKept
<1>5. DownInv'
  BY <1>1 DEF IInv, DownInv
<1>6. MailInv'
  BY <1>1, <1>2 DEF IInv, TypeOK, MailInv
<1>7. LetterInv'
  BY <1>1, LetterKept DEF IInv, LetterInv, Grown
<1>8. PromiseInv' /\ SureStored'
  BY <1>1 DEF IInv, PromiseInv, SureStored
<1>9. FoundAfterAdd'
  BY <1>1, FoundKept DEF IInv
<1> QED
  BY <1>3, <1>4, <1>5, <1>6, <1>7, <1>8, <1>9 DEF IInv

LEMMA StartRequestStep == ASSUME IInv, NEW r \in Run, StartRequest(r) PROVE IInv'
<1> USE DEF server, told_vars
<1>1. UNCHANGED <<server, job, letter, got, disturbed, sure, kept>>
  BY DEF StartRequest
<1>2. /\ pc[r] = "start" /\ ~ Silent(job[r]) /\ pc' = [pc EXCEPT ![r] = "waiting"]
      /\ mail' = [mail EXCEPT ![r] = "sent"] /\ promised' = [promised EXCEPT ![r] = sure]
  BY DEF StartRequest
<1>3. mail[r] = "none" /\ got[r].form = "none"
  BY <1>2 DEF IInv, MailInv
<1>4. TypeOK'
  <2>1. mail' \in [Run -> {"none", "sent", "pool", "thread", "back", "gone"}]
    BY <1>2 DEF IInv, TypeOK
  <2>2. promised' \in [Run -> SUBSET (Name \X FrameList)]
    BY <1>2 DEF IInv, TypeOK
  <2>3. pc' \in [Run -> {"start", "waiting", "ended"}]
    BY <1>2 DEF IInv, TypeOK
  <2>4. \A s \in Run : mail'[s] = "thread" <=> mail[s] = "thread"
    BY <1>2, <1>3 DEF IInv, TypeOK
  <2> QED
    BY <1>1, <2>1, <2>2, <2>3, <2>4 DEF IInv, TypeOK
<1>5. EngineType' /\ StoreInv' /\ ThreadInv'
  BY <1>1, <1>2, <1>3, ServerKept DEF IInv, TypeOK
<1>6. DownInv'
  BY <1>1, <1>2 DEF IInv, TypeOK, DownInv
<1>7. MailInv'
  BY <1>1, <1>2, <1>3 DEF IInv, TypeOK, MailInv
<1>8. LetterInv'
  <2> SUFFICES ASSUME NEW s \in Run PROVE LetterTrue(s)'
    BY DEF LetterInv
  <2>1. CASE s = r
    BY <1>2, <2>1 DEF IInv, TypeOK, LetterTrue
  <2>2. CASE s # r
    BY <1>1, <1>2, <2>2, LetterKept DEF IInv, TypeOK, LetterInv, Grown
  <2> QED
    BY <2>1, <2>2
<1>9. PromiseInv' /\ SureStored'
  BY <1>1, <1>2 DEF IInv, TypeOK, PromiseInv, SureStored
<1>10. FoundAfterAdd'
  <2>1. \A s \in Run : s # r => promised'[s] = promised[s]
    BY <1>2 DEF IInv, TypeOK
  <2>2. got'[r].form \notin {"json", "plain"}
    BY <1>1, <1>3
  <2> QED
    BY <1>1, <2>1, <2>2 DEF IInv, FoundAfterAdd, message
<1> QED
  BY <1>4, <1>5, <1>6, <1>7, <1>8, <1>9, <1>10 DEF IInv

LEMMA GiveUpStep == ASSUME IInv, NEW r \in Run, GiveUp(r) PROVE IInv'
<1> USE DEF server, told_vars
<1>1. UNCHANGED <<server, job, got, sure, kept>>
  BY DEF GiveUp
<1>2. /\ pc[r] = "waiting" /\ pc' = [pc EXCEPT ![r] = "ended"]
      /\ letter' = [letter EXCEPT ![r] = NoReply]
      /\ disturbed' = [disturbed EXCEPT ![r] = FALSE]
      /\ promised' = [promised EXCEPT ![r] = {}]
  BY DEF GiveUp
<1>3. /\ mail' \in [Run -> {"none", "sent", "pool", "thread", "back", "gone"}]
      /\ \A s \in Run : s # r => mail'[s] = mail[s]
      /\ mail'[r] # "back" /\ mail[r] # "none"
      /\ \A s \in Run : mail'[s] = "thread" <=> mail[s] = "thread"
      /\ \A s \in Run : mail'[s] = "pool" => mail[s] = "pool"
  BY DEF GiveUp, IInv, TypeOK
<1>4. TypeOK'
  <2>1. letter' \in [Run -> Reply]
    <3>1. NoReply \in Reply
      BY DEF NoReply, Reply, Form
    <3> QED
      BY <1>2, <3>1 DEF IInv, TypeOK
  <2>2. pc' \in [Run -> {"start", "waiting", "ended"}] /\ disturbed' \in [Run -> BOOLEAN]
        /\ promised' \in [Run -> SUBSET (Name \X FrameList)]
    BY <1>2 DEF IInv, TypeOK
  <2> QED
    BY <1>1, <1>3, <2>1, <2>2 DEF IInv, TypeOK
<1>5. \A s \in Run : promised'[s] \subseteq promised[s]
  BY <1>2 DEF IInv, TypeOK
<1>6. EngineType' /\ StoreInv' /\ ThreadInv'
  BY <1>1, <1>5, ServerKept
<1>7. DownInv'
  BY <1>1, <1>3 DEF IInv, DownInv
<1>8. MailInv'
  BY <1>1, <1>2, <1>3 DEF IInv, TypeOK, MailInv
<1>9. LetterInv'
  <2> SUFFICES ASSUME NEW s \in Run PROVE LetterTrue(s)'
    BY DEF LetterInv
  <2>1. CASE s = r
    BY <1>3, <2>1 DEF LetterTrue
  <2>2. CASE s # r
    <3>1. letter'[s] = letter[s] /\ disturbed'[s] = disturbed[s] /\ promised'[s] = promised[s]
      BY <1>2, <2>2 DEF IInv, TypeOK
    <3> QED
      BY <1>1, <1>3, <2>2, <3>1, LetterKept DEF IInv, LetterInv, Grown
  <2> QED
    BY <2>1, <2>2
<1>10. PromiseInv' /\ SureStored'
  BY <1>1, <1>5 DEF IInv, PromiseInv, SureStored
<1>11. FoundAfterAdd'
  BY <1>1, <1>5, FoundKept DEF IInv
<1> QED
  BY <1>4, <1>6, <1>7, <1>8, <1>9, <1>10, <1>11 DEF IInv

LEMMA ArriveStep == ASSUME IInv, NEW r \in Run, Arrive(r) PROVE IInv'
<1> USE DEF server, told_vars
<1> DEFINE a == <<message(r).name, message(r).frames>>
<1>1. UNCHANGED <<server, job, promised>>
  BY DEF Arrive
<1>2. /\ pc[r] = "waiting" /\ mail[r] = "back" /\ pc' = [pc EXCEPT ![r] = "ended"]
      /\ got' = [got EXCEPT ![r] = letter[r]]
      /\ mail' = [mail EXCEPT ![r] = "gone"]
      /\ letter' = [letter EXCEPT ![r] = NoReply]
      /\ disturbed' = [disturbed EXCEPT ![r] = FALSE]
  BY DEF Arrive
<1>3. sure' = IF Concludes(r) THEN sure \cup {a} ELSE sure
  BY DEF Arrive
<1>4. kept' = IF Saves(message(r)) THEN kept \cup promised[r] ELSE kept
  BY DEF Arrive
<1>5. LetterTrue(r) /\ job \in Jobs
  BY DEF IInv, LetterInv, TypeOK
(* What the user concludes is true.                                        *)
<1>6. Concludes(r) => up /\ In(a, store) /\ a \in Name \X FrameList
  <2> SUFFICES ASSUME Concludes(r) PROVE up /\ In(a, store) /\ a \in Name \X FrameList
    OBVIOUS
  <2>1. up /\ In(a, store)
    <3>1. CASE letter[r].code = 0
      BY <1>2, <1>5, <3>1 DEF Concludes, LetterTrue
    <3>2. CASE letter[r].code = -1 /\ letter[r].msg = ""
               /\ Undisputed(message(r).name, message(r).frames)
      <4>1. up /\ message(r).name \in DOMAIN store
        BY <1>2, <1>5, <3>2 DEF Concludes, LetterTrue
      <4>2. PICK q \in Run : Adds(q, message(r).name, store[message(r).name])
        BY <4>1 DEF IInv, StoreInv, FromRuns
      <4>3. store[message(r).name] = message(r).frames
        BY <3>2, <4>2 DEF Undisputed, Adds
      <4> QED
        BY <4>1, <4>3 DEF In
    <3> QED
      BY <3>1, <3>2 DEF Concludes
  <2>2. a \in Name \X FrameList
    BY <2>1 DEF In, IInv, TypeOK
  <2> QED
    BY <2>1, <2>2
<1>7. Saves(message(r)) => \A b \in promised[r] : In(b, saved)
  BY <1>2, <1>5 DEF LetterTrue
<1>8. promised[r] \subseteq sure /\ kept \subseteq sure /\ sure \subseteq Name \X FrameList
  BY DEF IInv, PromiseInv, TypeOK
<1> HIDE DEF a
<1>9. kept' \subseteq sure' /\ sure \subseteq sure' /\ sure' \subseteq Name \X FrameList
  BY <1>3, <1>4, <1>6, <1>8
<1>10. TypeOK'
  <2>1. NoReply \in Reply
    BY DEF NoReply, Reply, Form
  <2>2. letter' \in [Run -> Reply] /\ got' \in [Run -> Reply]
    BY <1>2, <2>1 DEF IInv, TypeOK
  <2>3. pc' \in [Run -> {"start", "waiting", "ended"}] /\ disturbed' \in [Run -> BOOLEAN]
        /\ mail' \in [Run -> {"none", "sent", "pool", "thread", "back", "gone"}]
    BY <1>2 DEF IInv, TypeOK
  <2>4. \A s \in Run : mail'[s] = "thread" <=> mail[s] = "thread"
    BY <1>2 DEF IInv, TypeOK
  <2> QED
    BY <1>1, <1>9, <2>2, <2>3, <2>4 DEF IInv, TypeOK
<1>11. EngineType' /\ StoreInv' /\ ThreadInv'
  BY <1>1, ServerKept
<1>12. DownInv'
  <2>1. ~ up => ~ Concludes(r) /\ sure = kept
    BY <1>6 DEF IInv, DownInv
  <2>2. ~ up => sure' = kept'
    BY <1>3, <1>4, <1>8, <2>1
  <2>3. \A s \in Run : mail'[s] \in {"pool", "thread"} => mail[s] \in {"pool", "thread"}
    BY <1>2 DEF IInv, TypeOK
  <2> QED
    BY <1>1, <2>2, <2>3 DEF IInv, DownInv
<1>13. MailInv'
  BY <1>1, <1>2 DEF IInv, TypeOK, MailInv
<1>14. LetterInv'
  <2> SUFFICES ASSUME NEW s \in Run PROVE LetterTrue(s)'
    BY DEF LetterInv
  <2>1. CASE s = r
    BY <1>2, <2>1 DEF IInv, TypeOK, LetterTrue
  <2>2. CASE s # r
    BY <1>1, <1>2, <2>2, LetterKept DEF IInv, TypeOK, LetterInv, Grown
  <2> QED
    BY <2>1, <2>2
<1>15. PromiseInv'
  BY <1>1, <1>9 DEF IInv, PromiseInv
<1>16. SureStored'
  <2>1. up => \A b \in sure' : In(b, store)
    BY <1>3, <1>6 DEF IInv, SureStored, In
  <2>2. \A b \in kept' : In(b, saved)
    BY <1>4, <1>7 DEF IInv, SureStored, In
  <2> QED
    BY <1>1, <2>1, <2>2 DEF SureStored, In
<1>17. FoundAfterAdd'
  <2> SUFFICES ASSUME NEW s \in Run, NEW b \in promised[s], got'[s].form \in {"json", "plain"},
                      Asks(message(s), b)
               PROVE  b[1] \in Names(got'[s].list)
    BY <1>1 DEF FoundAfterAdd, Asks, Names, message
  <2>1. CASE s = r
    BY <1>2, <1>5, <2>1 DEF IInv, TypeOK, LetterTrue
  <2>2. CASE s # r
    <3>1. got'[s] = got[s]
      BY <1>2, <2>2 DEF IInv, TypeOK
    <3> QED
      BY <3>1 DEF IInv, FoundAfterAdd, Asks, Names
  <2> QED
    BY <2>1, <2>2
<1> QED
  BY <1>10, <1>11, <1>12, <1>13, <1>14, <1>15, <1>16, <1>17 DEF IInv

LEMMA RefuseStep == ASSUME IInv, NEW r \in Run, Refuse(r) PROVE IInv'
<1> USE DEF server, told_vars
<1>1. UNCHANGED <<server, job, pc, letter, got, disturbed, sure, kept, promised>>
  BY DEF Refuse
<1>2. mail[r] = "sent" /\ mail' = [mail EXCEPT ![r] = "gone"]
  BY DEF Refuse
<1>3. /\ mail' \in [Run -> {"none", "sent", "pool", "thread", "back", "gone"}]
      /\ \A s \in Run : mail'[s] = "thread" <=> mail[s] = "thread"
      /\ \A s \in Run : mail'[s] = "pool" <=> mail[s] = "pool"
      /\ \A s \in Run : mail'[s] = "back" <=> mail[s] = "back"
      /\ \A s \in Run : mail'[s] = "none" <=> mail[s] = "none"
  BY <1>2 DEF IInv, TypeOK
<1>4. TypeOK'
  BY <1>1, <1>3 DEF IInv, TypeOK
<1>5. EngineType' /\ StoreInv' /\ ThreadInv'
  BY <1>1, ServerKept
<1>6. DownInv'
  BY <1>1, <1>3 DEF IInv, DownInv
<1>7. MailInv'
  BY <1>1, <1>3 DEF IInv, MailInv
<1>8. LetterInv'
  BY <1>1, <1>3, LetterKept DEF IInv, LetterInv, Grown
<1>9. PromiseInv' /\ SureStored'
  BY <1>1 DEF IInv, PromiseInv, SureStored
<1>10. FoundAfterAdd'
  BY <1>1, FoundKept DEF IInv
<1> QED
  BY <1>4, <1>5, <1>6, <1>7, <1>8, <1>9, <1>10 DEF IInv

-----------------------------------------------------------------------------
(***************************************************************************)
(* The server's steps.                                                     *)
(***************************************************************************)

(* Where the reply to a request goes.                                      *)
LEMMA SendBackFacts ==
  ASSUME TypeOK, NEW r \in Run, NEW reply \in Reply, SendBack(r, reply)
  PROVE  /\ mail' \in [Run -> {"none", "sent", "pool", "thread", "back", "gone"}]
         /\ letter' \in [Run -> Reply]
         /\ mail'[r] \in {"back", "gone"}
         /\ mail'[r] = "back" => pc[r] = "waiting" /\ letter'[r] = reply
         /\ \A s \in Run : s # r => mail'[s] = mail[s] /\ letter'[s] = letter[s]
  BY DEF TypeOK, SendBack

(* The replies there are.                                                  *)
LEMMA ReplyType ==
  ASSUME NEW form \in {"none", "text", "json", "plain"}, NEW code \in Int,
         NEW msg \in {"", "Done", "/info", "text"} \cup Refusals,
         NEW list \in SUBSET (Name \X (0..100))
  PROVE  Form(form, code, msg, list) \in Reply
  BY DEF Form, Reply

LEMMA TextFacts ==
  ASSUME NEW w \in {"/info", "text", "Done"}
  PROVE  Text(w) \in Reply /\ Text(w).form = "text"
<1>1. w \in {"", "Done", "/info", "text"} \cup Refusals
  OBVIOUS
<1>2. Text(w) = Form("text", 0, w, {})
  BY DEF Text
<1>3. Form("text", 0, w, {}) \in Reply
  <2>1. {} \in SUBSET (Name \X (0..100)) /\ 0 \in Int
    OBVIOUS
  <2>2. "text" \in {"none", "text", "json", "plain"}
    OBVIOUS
  <2> QED
    BY <1>1, <2>1, <2>2, ReplyType, Zenon
<1>4. Form("text", 0, w, {}).form = "text"
  BY DEF Form
<1> QED
  BY <1>2, <1>3, <1>4

LEMMA DispatchStep == ASSUME IInv, NEW r \in Run, Dispatch(r) PROVE IInv'
<1> USE DEF server, told_vars
<1> DEFINE what == my_handler(message(r), FALSE)
<1>1. UNCHANGED <<server, job, pc, got, disturbed, sure, kept, promised>>
  BY DEF Dispatch
<1>2. up /\ mail[r] = "sent"
  BY DEF Dispatch
<1>3. /\ mail' \in [Run -> {"none", "sent", "pool", "thread", "back", "gone"}]
      /\ letter' \in [Run -> Reply]
      /\ \A s \in Run : s # r => mail'[s] = mail[s] /\ letter'[s] = letter[s]
      /\ mail'[r] \in {"pool", "back", "gone"}
      /\ mail'[r] = "back" => pc[r] = "waiting" /\ letter'[r].form = "text" /\ ~ Saves(message(r))
  <2>1. CASE what = "switch" /\ mail' = [mail EXCEPT ![r] = "pool"] /\ UNCHANGED letter
    BY <2>1 DEF IInv, TypeOK
  <2>2. CASE what \in {"/info", "text"} /\ SendBack(r, Text(what))
    <3>1. ~ Saves(message(r))
      BY <2>2 DEF my_handler, NeedsPool
    <3> HIDE DEF what
    <3>2. Text(what) \in Reply /\ Text(what).form = "text"
      BY <2>2, TextFacts
    <3> QED
      BY <2>2, <3>1, <3>2, SendBackFacts DEF IInv
  <2> QED
    BY <2>1, <2>2 DEF Dispatch
<1>4. TypeOK'
  <2>1. \A s \in Run : mail'[s] = "thread" <=> mail[s] = "thread"
    BY <1>2, <1>3
  <2> QED
    BY <1>1, <1>3, <2>1 DEF IInv, TypeOK
<1>5. EngineType' /\ StoreInv' /\ ThreadInv'
  BY <1>1, ServerKept
<1>6. DownInv'
  BY <1>1, <1>2 DEF DownInv
<1>7. MailInv'
  <2> SUFFICES ASSUME NEW s \in Run
               PROVE  /\ pc'[s] = "start" => mail'[s] = "none"
                      /\ mail'[s] # "none" => ~ Silent(job'[s])
                      /\ mail'[s] = "back" => pc'[s] = "waiting"
                      /\ pc'[s] # "ended" => got'[s].form = "none"
    BY DEF MailInv
  <2>1. pc[r] # "start" /\ ~ Silent(job[r])
    BY <1>2 DEF IInv, MailInv
  <2> QED
    BY <1>1, <1>3, <2>1 DEF IInv, MailInv
<1>8. LetterInv'
  <2> SUFFICES ASSUME NEW s \in Run PROVE LetterTrue(s)'
    BY DEF LetterInv
  <2>1. CASE s = r
    BY <1>1, <1>3, <2>1 DEF LetterTrue, message
  <2>2. CASE s # r
    BY <1>1, <1>3, <2>2, LetterKept DEF IInv, LetterInv, Grown
  <2> QED
    BY <2>1, <2>2
<1>9. PromiseInv' /\ SureStored'
  BY <1>1 DEF IInv, PromiseInv, SureStored
<1>10. FoundAfterAdd'
  BY <1>1, FoundKept DEF IInv
<1> QED
  BY <1>4, <1>5, <1>6, <1>7, <1>8, <1>9, <1>10 DEF IInv

(* A pool thread that gives its reply.                                     *)
LEMMA AnsweredKeeps ==
  ASSUME IInv, NEW t \in Worker, NEW r \in Run, serves[t] = r,
         NEW reply \in Reply, Answered(t, reply),
         UNCHANGED <<store, up, job, pc, got, told_vars>>, saved' = saved \/ saved' = store,
         LetterTrue(r)'
  PROVE  /\ TypeOK' /\ DownInv' /\ MailInv' /\ StoreInv' /\ LetterInv' /\ PromiseInv'
         /\ FoundAfterAdd' /\ serves'[t] = NoRun
         /\ \A u \in Worker : u # t => serves'[u] = serves[u]
<1> USE DEF told_vars
<1>1. mail[r] = "thread" /\ up
  BY RunAssumption DEF IInv, TypeOK, DownInv
<1>2. serves' = [serves EXCEPT ![t] = NoRun] /\ SendBack(r, reply)
  BY DEF Answered
<1>3. /\ mail' \in [Run -> {"none", "sent", "pool", "thread", "back", "gone"}]
      /\ letter' \in [Run -> Reply]
      /\ mail'[r] \in {"back", "gone"}
      /\ mail'[r] = "back" => pc[r] = "waiting" /\ letter'[r] = reply
      /\ \A s \in Run : s # r => mail'[s] = mail[s] /\ letter'[s] = letter[s]
  BY <1>2, SendBackFacts DEF IInv
<1>4. /\ serves' \in [Worker -> Run \cup {NoRun}] /\ serves'[t] = NoRun
      /\ \A u \in Worker : u # t => serves'[u] = serves[u] /\ serves[u] # r
  BY <1>1, <1>2, RunAssumption DEF IInv, TypeOK
<1>5. TypeOK'
  <2>1. DOMAIN saved' \subseteq Name /\ \A n \in DOMAIN saved' : saved'[n] \in FrameList
    BY DEF IInv, TypeOK
  <2>2. \A s \in Run : mail'[s] = "thread" => \E u \in Worker : serves'[u] = s
    <3> SUFFICES ASSUME NEW s \in Run, mail'[s] = "thread" PROVE \E u \in Worker : serves'[u] = s
      OBVIOUS
    <3>1. s # r /\ mail[s] = "thread"
      BY <1>3
    <3>2. PICK u \in Worker : serves[u] = s
      BY <3>1 DEF IInv, TypeOK
    <3> QED
      BY <1>4, <3>1, <3>2
  <2>3. \A u, v \in Worker : serves'[u] = serves'[v] /\ serves'[u] # NoRun =>
                                u = v /\ mail'[serves'[u]] = "thread"
    <3> SUFFICES ASSUME NEW u \in Worker, NEW v \in Worker, serves'[u] = serves'[v],
                        serves'[u] # NoRun
                 PROVE  u = v /\ mail'[serves'[u]] = "thread"
      OBVIOUS
    <3>1. u # t /\ v # t /\ serves[u] = serves[v] /\ serves[u] # NoRun /\ serves[u] # r
      BY <1>4
    <3>2. u = v /\ mail[serves[u]] = "thread" /\ serves[u] \in Run
      BY <3>1 DEF IInv, TypeOK
    <3> QED
      BY <1>3, <1>4, <3>1, <3>2
  <2> QED
    BY <1>3, <1>4, <2>1, <2>2, <2>3 DEF IInv, TypeOK
<1>6. DownInv'
  BY <1>1 DEF DownInv
<1>7. MailInv'
  <2> SUFFICES ASSUME NEW s \in Run
               PROVE  /\ pc'[s] = "start" => mail'[s] = "none"
                      /\ mail'[s] # "none" => ~ Silent(job'[s])
                      /\ mail'[s] = "back" => pc'[s] = "waiting"
                      /\ pc'[s] # "ended" => got'[s].form = "none"
    BY DEF MailInv
  <2>1. pc[r] # "start" /\ ~ Silent(job[r])
    BY <1>1 DEF IInv, MailInv
  <2> QED
    BY <1>3, <2>1 DEF IInv, MailInv
<1>8. Grown(saved, saved') /\ Grown(saved', store) /\ Grown(store, store')
  BY <1>1 DEF IInv, StoreInv, Grown
<1>9. StoreInv'
  BY <1>1, <1>8 DEF IInv, StoreInv, FromRuns, Adds, message, Grown
<1>10. LetterInv'
  <2> SUFFICES ASSUME NEW s \in Run, s # r PROVE LetterTrue(s)'
    BY DEF LetterInv
  <2> QED
    BY <1>3, <1>8, LetterKept DEF IInv, LetterInv
<1>11. PromiseInv' /\ FoundAfterAdd'
  BY FoundKept DEF IInv, PromiseInv
<1> QED
  BY <1>4, <1>5, <1>6, <1>7, <1>9, <1>10, <1>11

(* A thread that serves somebody does so for a run, while the server runs. *)
LEMMA ServedRun ==
  ASSUME IInv, NEW t \in Worker, serves[t] # NoRun
  PROVE  serves[t] \in Run /\ mail[serves[t]] = "thread" /\ up
  BY RunAssumption DEF IInv, TypeOK, DownInv

(* A thread that does not do an engine's work has none under way.          *)
LEMMA EngineIdle ==
  ASSUME IInv, NEW t \in Worker, ~ Serves(t) \/ serves[t] = NoRun
  PROVE  phase[t] = "idle"
  BY DEF IInv, ThreadInv, RequestTrue

LEMMA TakeStep == ASSUME IInv, NEW t \in Worker, Take(t) PROVE IInv'
<1> USE DEF told_vars, engine
<1>1. UNCHANGED <<engine, up, saved, job, pc, letter, got, disturbed, sure, kept, promised>>
  BY DEF Take
<1>2. PICK r \in Run : /\ serves[t] = NoRun /\ mail[r] = "pool"
                       /\ mail' = [mail EXCEPT ![r] = "thread"]
                       /\ serves' = [serves EXCEPT ![t] = r]
  BY DEF Take
<1>3. up
  BY <1>2 DEF IInv, DownInv
<1>4. /\ mail' \in [Run -> {"none", "sent", "pool", "thread", "back", "gone"}]
      /\ mail'[r] = "thread" /\ \A s \in Run : s # r => mail'[s] = mail[s]
      /\ serves' \in [Worker -> Run \cup {NoRun}]
      /\ serves'[t] = r /\ \A u \in Worker : u # t => serves'[u] = serves[u]
  BY <1>2 DEF IInv, TypeOK
<1>5. \A u \in Worker : serves[u] # r
  BY <1>2, RunAssumption DEF IInv, TypeOK
<1>6. TypeOK'
  <2>1. \A s \in Run : mail'[s] = "thread" => \E u \in Worker : serves'[u] = s
    <3> SUFFICES ASSUME NEW s \in Run, s # r, mail'[s] = "thread"
                 PROVE  \E u \in Worker : serves'[u] = s
      BY <1>4
    <3>1. PICK u \in Worker : serves[u] = s
      BY <1>4 DEF IInv, TypeOK
    <3> QED
      BY <1>2, <1>4, <3>1, RunAssumption
  <2>2. \A u, v \in Worker : serves'[u] = serves'[v] /\ serves'[u] # NoRun =>
                                u = v /\ mail'[serves'[u]] = "thread"
    <3> SUFFICES ASSUME NEW u \in Worker, NEW v \in Worker, serves'[u] = serves'[v],
                        serves'[u] # NoRun
                 PROVE  u = v /\ mail'[serves'[u]] = "thread"
      OBVIOUS
    <3>1. CASE u = t \/ v = t
      BY <1>4, <1>5, <3>1
    <3>2. CASE u # t /\ v # t
      <4>1. u = v /\ mail[serves[u]] = "thread" /\ serves[u] \in Run
        BY <1>4, <3>2 DEF IInv, TypeOK
      <4> QED
        BY <1>4, <1>5, <3>2, <4>1
    <3> QED
      BY <3>1, <3>2
  <2> QED
    BY <1>1, <1>4, <2>1, <2>2 DEF IInv, TypeOK
<1>7. EngineType' /\ StoreInv'
  BY <1>1, StoreKept DEF IInv, EngineType
<1>8. ThreadInv'
  <2> SUFFICES ASSUME NEW u \in Worker PROVE (RequestTrue(u) /\ AnswerTrue(u))'
    BY DEF ThreadInv
  <2>1. CASE u = t
    <3>1. phase[t] = "idle"
      BY <1>2, EngineIdle
    <3> QED
      BY <1>1, <2>1, <3>1 DEF RequestTrue, AnswerTrue
  <2>2. CASE u # t
    BY <1>1, <1>4, <2>2, ThreadKept DEF IInv, ThreadInv, Grown
  <2> QED
    BY <2>1, <2>2
<1>9. DownInv'
  BY <1>1, <1>3 DEF DownInv
<1>10. MailInv'
  <2> SUFFICES ASSUME NEW s \in Run
               PROVE  /\ pc'[s] = "start" => mail'[s] = "none"
                      /\ mail'[s] # "none" => ~ Silent(job'[s])
                      /\ mail'[s] = "back" => pc'[s] = "waiting"
                      /\ pc'[s] # "ended" => got'[s].form = "none"
    BY DEF MailInv
  <2>1. pc[r] # "start" /\ ~ Silent(job[r])
    BY <1>2 DEF IInv, MailInv
  <2> QED
    BY <1>1, <1>4, <2>1 DEF IInv, MailInv
<1>11. LetterInv'
  <2> SUFFICES ASSUME NEW s \in Run PROVE LetterTrue(s)'
    BY DEF LetterInv
  <2>1. CASE s = r
    BY <1>4, <2>1 DEF LetterTrue
  <2>2. CASE s # r
    BY <1>1, <1>4, <2>2, LetterKept DEF IInv, LetterInv, Grown
  <2> QED
    BY <2>1, <2>2
<1>12. PromiseInv' /\ SureStored'
  BY <1>1 DEF IInv, PromiseInv, SureStored
<1>13. FoundAfterAdd'
  BY <1>1, FoundKept DEF IInv
<1> QED
  BY <1>6, <1>7, <1>8, <1>9, <1>10, <1>11, <1>12, <1>13 DEF IInv

LEMMA RefuseMalformedStep == ASSUME IInv, NEW t \in Worker, RefuseMalformed(t) PROVE IInv'
<1> USE DEF told_vars, engine
<1>1. PICK r : r = serves[t]
  OBVIOUS
<1> DEFINE reply == Refused(Refusal(message(r)))
<1>2. UNCHANGED <<engine, up, saved, job, pc, got, disturbed, sure, kept, promised>>
      /\ Answered(t, reply)
  BY <1>1 DEF RefuseMalformed
<1>3. /\ r # NoRun /\ my_handler(message(r), TRUE) = "process" /\ Refusal(message(r)) # ""
      /\ phase[t] = "idle"
  <2>1. Bad(t) /\ ~ Thrown(t)
    BY DEF RefuseMalformed
  <2>2. ~ Serves(t)
    BY <2>1 DEF Serves, Bad, Thrown, Does
  <2> QED
    BY <1>1, <2>1, <2>2, EngineIdle DEF Bad, Thrown, Does
<1>4. r \in Run
  BY <1>1, <1>3, ServedRun
<1>5. message(r).method = "POST"
  <2>1. message(r).method \in {"GET", "POST", "HEAD"}
    BY <1>4, MessageFacts DEF IInv, TypeOK
  <2> QED
    BY <1>3, <2>1 DEF my_handler, NeedsPool, Saves
<1>6. reply \in Reply /\ reply.code # 0 /\ reply.msg # ""
  <2>1. Refusal(message(r)) \in {"", "Done", "/info", "text"} \cup Refusals
    BY <1>3 DEF Refusal, Refusals
  <2>2. {} \in SUBSET (Name \X (0..100)) /\ -1 \in Int
    OBVIOUS
  <2>3. "json" \in {"none", "text", "json", "plain"}
    OBVIOUS
  <2>4. Form("json", -1, Refusal(message(r)), {}) \in Reply
    BY <2>1, <2>2, <2>3, ReplyType, Zenon
  <2>5. reply = Form("json", -1, Refusal(message(r)), {})
    BY DEF Refused
  <2>6. reply.code = -1 /\ reply.msg = Refusal(message(r))
    BY <2>5 DEF Form
  <2>7. -1 # 0
    OBVIOUS
  <2>8. reply.code # 0
    BY <2>6, <2>7, Zenon
  <2> QED
    BY <1>3, <2>4, <2>5, <2>6, <2>8
<1> HIDE DEF reply
<1>7. LetterTrue(r)'
  <2>1. mail'[r] = "back" => letter'[r] = reply
    BY <1>1, <1>2, <1>4, <1>6, SendBackFacts DEF Answered, IInv
  <2>2. \A a : ~ Asks(message(r), a)
    BY <1>3, <1>4, <1>5, RefusalFacts DEF IInv, TypeOK
  <2>3. ~ Saves(message(r))
    BY <1>5 DEF Saves
  <2>4. \A a \in promised[r] : ~ Asks(message(r), a)
    BY <2>2
  <2> SUFFICES ASSUME mail'[r] = "back"
               PROVE  /\ ~ Saves(message(r)')
                      /\ letter'[r].code # 0 /\ letter'[r].msg # ""
                      /\ \A a \in promised'[r] : ~ Asks(message(r)', a)
    BY DEF LetterTrue
  <2>5. message(r)' = message(r) /\ promised' = promised
    BY <1>2 DEF message
  <2>6. letter'[r].code # 0 /\ letter'[r].msg # ""
    BY <1>6, <2>1
  <2> QED
    BY <2>3, <2>4, <2>5, <2>6
<1>8. /\ TypeOK' /\ DownInv' /\ MailInv' /\ StoreInv' /\ LetterInv' /\ PromiseInv'
      /\ FoundAfterAdd' /\ serves'[t] = NoRun
      /\ \A u \in Worker : u # t => serves'[u] = serves[u]
  BY <1>1, <1>2, <1>4, <1>6, <1>7, AnsweredKeeps
<1>9. ThreadInv'
  <2> SUFFICES ASSUME NEW u \in Worker PROVE (RequestTrue(u) /\ AnswerTrue(u))'
    BY DEF ThreadInv
  <2>1. CASE u = t
    BY <1>2, <1>3, <2>1 DEF RequestTrue, AnswerTrue
  <2>2. CASE u # t
    BY <1>2, <1>8, <2>2, ThreadKept DEF IInv, ThreadInv, Grown
  <2> QED
    BY <2>1, <2>2
<1>10. EngineType' /\ SureStored'
  BY <1>2 DEF IInv, EngineType, SureStored
<1> QED
  BY <1>8, <1>9, <1>10 DEF IInv

(* A step of the engine, which leaves all but its own state alone.         *)
LEMMA OthersKept ==
  ASSUME IInv, up, UNCHANGED <<up, saved, serves, run_vars, told_vars>>, Grown(store, store'),
         DOMAIN store' \subseteq Name, \A n \in DOMAIN store' : store'[n] \in FrameList,
         FromRuns(store')
  PROVE  /\ TypeOK' /\ DownInv' /\ MailInv' /\ StoreInv' /\ LetterInv' /\ PromiseInv'
         /\ SureStored' /\ FoundAfterAdd'
<1> USE DEF run_vars, told_vars
<1>1. TypeOK' /\ DownInv' /\ MailInv'
  BY DEF IInv, TypeOK, DownInv, MailInv
<1>2. StoreInv'
  BY DEF IInv, StoreInv, FromRuns, Adds, message, Grown
<1>3. LetterInv'
  BY LetterKept DEF IInv, LetterInv, Grown
<1>4. PromiseInv' /\ FoundAfterAdd'
  BY FoundKept DEF IInv, PromiseInv
<1>5. SureStored'
  BY DEF IInv, SureStored, Grown
<1> QED
  BY <1>1, <1>2, <1>3, <1>4, <1>5

(* The same of one that leaves the store alone too.                        *)
LEMMA OthersKeptToo ==
  ASSUME IInv, up, UNCHANGED <<store, up, saved, serves, run_vars, told_vars>>
  PROVE  /\ TypeOK' /\ DownInv' /\ MailInv' /\ StoreInv' /\ LetterInv' /\ PromiseInv'
         /\ SureStored' /\ FoundAfterAdd'
  BY OthersKept DEF IInv, TypeOK, StoreInv, Grown

LEMMA CallEngineStep == ASSUME IInv, NEW t \in Worker, CallEngine(t) PROVE IInv'
<1> USE DEF run_vars, told_vars
<1>1. UNCHANGED <<store, answer, up, saved, serves, run_vars, told_vars>>
  BY DEF CallEngine, Engine!Call
<1>2. PICK q \in Engine!Request :
        /\ request' = [request EXCEPT ![t] = q]
        /\ phase' = [phase EXCEPT ![t] = IF q.op = "query" THEN "located" ELSE "called"]
  BY DEF CallEngine, Engine!Call
<1>3. Serves(t) /\ serves[t] # NoRun /\ request'[t] = Operation(message(serves[t]))
  BY DEF CallEngine, Serves, Does
<1>4. up
  BY <1>3, ServedRun
<1>5. request'[t] = q /\ \A u \in Worker : u # t => request'[u] = request[u] /\ phase'[u] = phase[u]
  BY <1>2 DEF IInv, EngineType
<1>6. phase'[t] = IF q.op = "query" THEN "located" ELSE "called"
  BY <1>2 DEF IInv, EngineType
<1>7. q.op = "query" => q.frames \in FrameList
  BY DEF Engine!Request
<1>8. EngineType'
  BY <1>1, <1>2 DEF IInv, EngineType
<1>9. ThreadInv'
  <2> SUFFICES ASSUME NEW u \in Worker PROVE (RequestTrue(u) /\ AnswerTrue(u))'
    BY DEF ThreadInv
  <2>1. CASE u = t
    <3>1. RequestTrue(t)'
      <4> SUFFICES /\ serves[t] # NoRun /\ Serves(t)' /\ request'[t] = Operation(message(serves[t]))
                   /\ phase'[t] = "located" => q.op = "query" /\ q.frames \in FrameList
        BY <1>1, <1>5 DEF RequestTrue, message
      <4>1. Serves(t)'
        BY <1>1, <1>3 DEF Serves, Does, Bad, Thrown, message
      <4> QED
        BY <1>3, <1>6, <1>7, <4>1
    <3>2. AnswerTrue(t)'
      BY <1>6 DEF AnswerTrue
    <3> QED
      BY <2>1, <3>1, <3>2
  <2>2. CASE u # t
    BY <1>1, <1>5, <2>2, ThreadKept DEF IInv, ThreadInv, Grown
  <2> QED
    BY <2>1, <2>2
<1> QED
  BY <1>1, <1>4, <1>8, <1>9, OthersKeptToo DEF IInv

LEMMA SaveStep == ASSUME IInv, NEW t \in Worker, Save(t) PROVE IInv'
<1> USE DEF told_vars, engine
<1>1. PICK r : r = serves[t]
  OBVIOUS
<1>2. /\ UNCHANGED <<engine, up, job, pc, got, disturbed, sure, kept, promised>>
      /\ saved' = store /\ Answered(t, Text("Done"))
  BY DEF Save
<1>3. r # NoRun /\ my_handler(message(r), TRUE) = "save"
  BY <1>1 DEF Save, Does
<1>4. phase[t] = "idle"
  <2>1. ~ Serves(t)
    BY <1>1, <1>3 DEF Serves, Does
  <2> QED
    BY <2>1, EngineIdle
<1>5. r \in Run /\ up
  BY <1>1, <1>3, ServedRun
<1>6. Text("Done") \in Reply /\ Text("Done").form = "text"
  BY TextFacts
<1>7. \A a \in sure : In(a, store)
  BY <1>5 DEF IInv, SureStored, In
<1>8. LetterTrue(r)'
  <2>1. mail'[r] = "back" => letter'[r] = Text("Done")
    BY <1>1, <1>2, <1>5, <1>6, SendBackFacts DEF Answered, IInv
  <2>2. \A a \in promised[r] : In(a, store)
    BY <1>5, <1>7 DEF IInv, PromiseInv
  <2> QED
    BY <1>2, <1>6, <2>1, <2>2 DEF LetterTrue, In
<1>9. /\ TypeOK' /\ DownInv' /\ MailInv' /\ StoreInv' /\ LetterInv' /\ PromiseInv'
      /\ FoundAfterAdd' /\ serves'[t] = NoRun
      /\ \A u \in Worker : u # t => serves'[u] = serves[u]
  BY <1>1, <1>2, <1>5, <1>6, <1>8, AnsweredKeeps
<1>10. ThreadInv'
  <2> SUFFICES ASSUME NEW u \in Worker PROVE (RequestTrue(u) /\ AnswerTrue(u))'
    BY DEF ThreadInv
  <2>1. CASE u = t
    BY <1>2, <1>4, <2>1 DEF RequestTrue, AnswerTrue
  <2>2. CASE u # t
    BY <1>2, <1>9, <2>2, ThreadKept DEF IInv, ThreadInv, Grown
  <2> QED
    BY <2>1, <2>2
<1>11. EngineType'
  BY <1>2 DEF IInv, EngineType
<1>12. SureStored'
  BY <1>2, <1>7 DEF IInv, TypeOK, SureStored, In
<1> QED
  BY <1>9, <1>10, <1>11, <1>12 DEF IInv

(* The operation of a request, and what it says about its message.         *)
LEMMA OperationFacts ==
  ASSUME NEW m
  PROVE  /\ Operation(m).op = "add" => /\ m.method # "GET" /\ m.type = "add"
                                      /\ Operation(m).name = m.name /\ Operation(m).frames = m.frames
         /\ Operation(m).op = "key" => m.method = "GET" /\ Operation(m).name = m.name
         /\ Operation(m).op = "query" => m.method # "GET" /\ Operation(m).frames = m.frames
         /\ m.method # "GET" /\ m.type = "add" => Operation(m).op = "add"
         /\ Operation(m).op \in {"add", "key", "query"}
  BY DEF Operation

(* What is known of a thread whose engine is at work.                      *)
LEMMA AtWork ==
  ASSUME IInv, NEW t \in Worker, phase[t] # "idle"
  PROVE  /\ serves[t] \in Run /\ serves[t] # NoRun /\ up /\ mail[serves[t]] = "thread"
         /\ Serves(t)
         /\ ~ Silent(job[serves[t]])
         /\ request[t].op = Operation(message(serves[t])).op
         /\ request[t].name = Operation(message(serves[t])).name
         /\ request[t].op # "key" => request[t].frames = Operation(message(serves[t])).frames
         /\ \A a \in promised[serves[t]] : In(a, store) /\ a \in Name \X FrameList
<1>1. RequestTrue(t)
  BY DEF IInv, ThreadInv
<1>2. serves[t] \in Run /\ serves[t] # NoRun /\ up /\ mail[serves[t]] = "thread"
  BY <1>1, ServedRun DEF RequestTrue
<1>3. ~ Silent(job[serves[t]])
  BY <1>2 DEF IInv, MailInv
<1>4. \A a \in promised[serves[t]] : In(a, store) /\ a \in Name \X FrameList
  BY <1>2 DEF IInv, PromiseInv, SureStored, TypeOK, In
<1> QED
  BY <1>1, <1>2, <1>3, <1>4 DEF RequestTrue

LEMMA AddStep ==
  ASSUME IInv, NEW t \in Worker, Engine!Add(t), UNCHANGED <<up, saved, serves, run_vars, told_vars>>
  PROVE  IInv'
<1> USE DEF run_vars, told_vars
<1> DEFINE n == request[t].name
           fs == request[t].frames
<1>1. phase[t] = "called" /\ request[t].op = "add" /\ request' = request
  BY DEF Engine!Add
<1>2. PICK c \in {0, -1} :
        /\ phase' = [phase EXCEPT ![t] = "answered"]
        /\ answer' = [answer EXCEPT ![t] = [code |-> c, matches |-> {}]]
        /\ c = -1 => n \in DOMAIN store /\ store' = store
        /\ c = 0 => /\ n \notin DOMAIN store
                   /\ store' = [m \in DOMAIN store \cup {n} |-> IF m = n THEN fs ELSE store[m]]
  <2>1. CASE n \in DOMAIN store /\ Engine!Settle(t, Engine!Answer(-1, {})) /\ UNCHANGED store
    BY <2>1 DEF Engine!Settle, Engine!Answer
  <2>2. CASE /\ n \notin DOMAIN store
             /\ store' = [m \in DOMAIN store \cup {n} |-> IF m = n THEN fs ELSE store[m]]
             /\ Engine!Settle(t, Engine!Answer(0, {}))
    BY <2>2 DEF Engine!Settle, Engine!Answer
  <2> QED
    BY <2>1, <2>2 DEF Engine!Add
<1>3. /\ serves[t] \in Run /\ up /\ ~ Silent(job[serves[t]])
      /\ message(serves[t]).type = "add" /\ message(serves[t]).method # "GET"
      /\ message(serves[t]).name = n /\ message(serves[t]).frames = fs
  BY <1>1, AtWork, OperationFacts
<1>4. n \in Name /\ fs \in FrameList
  BY <1>1 DEF IInv, EngineType, Engine!Request, Engine!NoRequest
<1> HIDE DEF n, fs
<1>5. Grown(store, store')
  BY <1>2 DEF Grown
<1>6. DOMAIN store' \subseteq Name /\ \A k \in DOMAIN store' : store'[k] \in FrameList
  BY <1>2, <1>4 DEF IInv, TypeOK
<1>7. FromRuns(store')
  <2> SUFFICES ASSUME NEW k \in DOMAIN store' PROVE \E r \in Run : Adds(r, k, store'[k])
    BY DEF FromRuns
  <2>1. CASE k \in DOMAIN store
    BY <1>5, <2>1 DEF IInv, StoreInv, FromRuns, Grown
  <2>2. CASE k \notin DOMAIN store
    <3>1. k = n /\ store'[k] = fs
      BY <1>2, <2>2
    <3> QED
      BY <1>3, <3>1 DEF Adds
  <2> QED
    BY <2>1, <2>2
<1>8. EngineType'
  BY <1>1, <1>2 DEF IInv, EngineType, AnswerType
<1>9. ThreadInv'
  <2> SUFFICES ASSUME NEW u \in Worker PROVE (RequestTrue(u) /\ AnswerTrue(u))'
    BY DEF ThreadInv
  <2>1. CASE u = t
    <3>1. phase'[t] = "answered" /\ answer'[t].code = c
      BY <1>2 DEF IInv, EngineType
    <3>2. RequestTrue(t)'
      <4>1. RequestTrue(t)
        BY DEF IInv, ThreadInv
      <4> QED
        BY <1>1, <3>1, <4>1 DEF RequestTrue, Serves, Does, Bad, Thrown, message
    <3>3. AnswerTrue(t)'
      <4>1. \A a : ~ Asks(message(serves[t]), a)
        BY <1>3 DEF Asks
      <4>2. c = 0 => In(<<n, fs>>, store')
        BY <1>2 DEF In
      <4>3. c = -1 => n \in DOMAIN store'
        BY <1>2
      <4>4. request'[t].name = n /\ request'[t].frames = fs
        BY <1>1 DEF n, fs
      <4> QED
        BY <3>1, <4>1, <4>2, <4>3, <4>4 DEF AnswerTrue, message
    <3> QED
      BY <2>1, <3>2, <3>3
  <2>2. CASE u # t
    <3>1. phase'[u] = phase[u] /\ answer'[u] = answer[u]
      BY <1>2, <2>2 DEF IInv, EngineType
    <3> QED
      BY <1>1, <1>5, <3>1, ThreadKept DEF IInv, ThreadInv
  <2> QED
    BY <2>1, <2>2
<1> QED
  BY <1>3, <1>5, <1>6, <1>7, <1>8, <1>9, OthersKept DEF IInv

LEMMA LocateStep ==
  ASSUME IInv, NEW t \in Worker, Engine!Locate(t), UNCHANGED <<up, saved, serves, run_vars, told_vars>>
  PROVE  IInv'
<1> USE DEF run_vars, told_vars
<1> DEFINE n == request[t].name
<1>1. phase[t] = "called" /\ request[t].op = "key" /\ store' = store
  BY DEF Engine!Locate
<1>2. /\ serves[t] \in Run /\ up /\ message(serves[t]).method = "GET"
      /\ message(serves[t]).name = n
  BY <1>1, AtWork, OperationFacts
<1>3. n \in Name
  BY <1>1 DEF IInv, EngineType, Engine!Request, Engine!NoRequest
<1>4. RequestTrue(t)
  BY DEF IInv, ThreadInv
<1>5. CASE /\ n \notin DOMAIN store /\ request' = request
           /\ Engine!Settle(t, Engine!Answer(-1, {}))
  <2>1. /\ phase' = [phase EXCEPT ![t] = "answered"]
        /\ answer' = [answer EXCEPT ![t] = [code |-> -1, matches |-> {}]]
    BY <1>5 DEF Engine!Settle, Engine!Answer
  <2>2. EngineType'
    BY <1>5, <2>1 DEF IInv, EngineType, AnswerType
  <2>3. ThreadInv'
    <3> SUFFICES ASSUME NEW u \in Worker PROVE (RequestTrue(u) /\ AnswerTrue(u))'
      BY DEF ThreadInv
    <3>1. CASE u = t
      <4>1. phase'[t] = "answered"
        BY <2>1 DEF IInv, EngineType
      <4>2. RequestTrue(t)'
        BY <1>1, <1>4, <1>5, <4>1 DEF RequestTrue, Serves, Does, Bad, Thrown, message
      <4>3. \A a \in promised[serves[t]] : ~ Asks(message(serves[t]), a)
        <5> SUFFICES ASSUME NEW a \in promised[serves[t]], Asks(message(serves[t]), a) PROVE FALSE
          OBVIOUS
        <5>1. message(serves[t]).type # "query_duplicate"
          BY <1>2, MessageFacts DEF IInv, TypeOK
        <5>2. a[1] = n /\ In(a, store)
          BY <1>1, <1>2, <5>1, AtWork DEF Asks
        <5> QED
          BY <1>5, <5>2 DEF In
      <4>4. AnswerTrue(t)'
        BY <1>1, <1>5, <4>3 DEF AnswerTrue, message
      <4> QED
        BY <3>1, <4>2, <4>4
    <3>2. CASE u # t
      <4>1. phase'[u] = phase[u] /\ answer'[u] = answer[u]
        BY <2>1, <3>2 DEF IInv, EngineType
      <4> QED
        BY <1>1, <1>5, <4>1, ThreadKept DEF IInv, ThreadInv, Grown
    <3> QED
      BY <3>1, <3>2
  <2> QED
    BY <1>1, <1>2, <2>2, <2>3, OthersKeptToo DEF IInv
<1>6. CASE /\ n \in DOMAIN store /\ request' = [request EXCEPT ![t].frames = store[n]]
           /\ phase' = [phase EXCEPT ![t] = "located"] /\ answer' = answer
  <2>1. request'[t].op = "key" /\ request'[t].name = n /\ request'[t].frames = store[n]
        /\ store[n] \in FrameList
    BY <1>1, <1>6 DEF IInv, EngineType, TypeOK, Engine!Request, Engine!NoRequest
  <2>2. request'[t] \in [op : {"key"}, name : Name, frames : FrameList]
    BY <1>1, <1>3, <1>6 DEF IInv, EngineType, TypeOK, Engine!Request, Engine!NoRequest
  <2>3. EngineType'
    BY <1>6, <2>2 DEF IInv, EngineType
  <2>4. ThreadInv'
    <3> SUFFICES ASSUME NEW u \in Worker PROVE (RequestTrue(u) /\ AnswerTrue(u))'
      BY DEF ThreadInv
    <3>1. CASE u = t
      <4>1. phase'[t] = "located"
        BY <1>6 DEF IInv, EngineType
      <4>2. RequestTrue(t)'
        BY <1>1, <1>4, <1>6, <2>1, <4>1 DEF RequestTrue, Serves, Does, Bad, Thrown, message, In
      <4>3. AnswerTrue(t)'
        BY <4>1 DEF AnswerTrue
      <4> QED
        BY <3>1, <4>2, <4>3
    <3>2. CASE u # t
      <4>1. phase'[u] = phase[u] /\ request'[u] = request[u]
        BY <1>6, <3>2 DEF IInv, EngineType
      <4> QED
        BY <1>1, <1>6, <4>1, ThreadKept DEF IInv, ThreadInv, Grown
    <3> QED
      BY <3>1, <3>2
  <2> QED
    BY <1>1, <1>2, <2>3, <2>4, OthersKeptToo DEF IInv
<1> QED
  BY <1>5, <1>6 DEF Engine!Locate

(* The engine's instance of the index is this module's.                    *)
LEMMA SameSize == ASSUME NEW S PROVE Engine!Cardinality(S) = Cardinality(S)
  BY DEF Engine!Cardinality, Cardinality

LEMMA SameMatches ==
  ASSUME NEW st, NEW fs
  PROVE  Engine!MatchesIn(st, fs) = MatchesIn(st, fs)
  BY DEF Engine!MatchesIn, MatchesIn, Engine!IsCandidate, IsCandidate, Engine!Good, Good,
         Engine!UniqueFrames, UniqueFrames, Engine!LengthDiffers, LengthDiffers,
         Engine!THRESHOLD, THRESHOLD, Engine!EMPTY_FRAME, EMPTY_FRAME, Engine!Range, Range,
         Engine!Cardinality, Cardinality

LEMMA MatchStep ==
  ASSUME IInv, NEW t \in Worker, Engine!Match(t), UNCHANGED <<up, saved, serves, run_vars, told_vars>>
  PROVE  IInv'
<1> USE DEF run_vars, told_vars
<1> DEFINE fs == request[t].frames
           m  == MatchesIn(store, fs)
<1>1. phase[t] = "located" /\ request' = request /\ store' = store
  BY DEF Engine!Match
<1>2. /\ phase' = [phase EXCEPT ![t] = "answered"]
      /\ answer' = [answer EXCEPT ![t] = [code |-> Cardinality(m), matches |-> m]]
  BY SameMatches, SameSize DEF Engine!Match, Engine!Settle, Engine!Answer
<1>3. RequestTrue(t)
  BY DEF IInv, ThreadInv
<1>4. fs \in FrameList /\ request[t].op # "add"
  BY <1>1, <1>3 DEF RequestTrue
<1>5. m \subseteq Name \X (0..100) /\ Cardinality(m) \in Nat
  <2> HIDE DEF fs
  <2> QED
    BY <1>4, MatchesType DEF IInv, TypeOK
<1>6. \A a \in promised[serves[t]] : Asks(message(serves[t]), a) => a[1] \in Names(m)
  <2> SUFFICES ASSUME NEW a \in promised[serves[t]], Asks(message(serves[t]), a)
               PROVE  a[1] \in Names(m)
    OBVIOUS
  <2>1. serves[t] \in Run /\ In(a, store) /\ a \in Name \X FrameList
    BY <1>1, AtWork
  <2>2. /\ request[t].op = Operation(message(serves[t])).op
        /\ request[t].name = Operation(message(serves[t])).name
        /\ request[t].op # "key" => fs = Operation(message(serves[t])).frames
    BY <1>1, AtWork
  <2>3. fs = a[2]
    <3>1. CASE request[t].op = "key"
      <4>1. message(serves[t]).method = "GET" /\ request[t].name = message(serves[t]).name
        BY <2>2, <3>1, OperationFacts
      <4>2. message(serves[t]).type # "query_duplicate"
        BY <2>1, <4>1, MessageFacts DEF IInv, TypeOK
      <4>3. a[1] = request[t].name
        BY <4>1, <4>2 DEF Asks
      <4> QED
        BY <1>1, <1>3, <2>1, <3>1, <4>3 DEF RequestTrue, In
    <3>2. CASE request[t].op # "key"
      <4>1. message(serves[t]).method # "GET" /\ fs = message(serves[t]).frames
        BY <1>4, <2>2, <3>2, OperationFacts
      <4> QED
        BY <4>1 DEF Asks
    <3> QED
      BY <3>1, <3>2
  <2>4. UniqueFrames(a[2]) # {}
    BY DEF Asks
  <2> QED
    BY <2>1, <2>3, <2>4, MatchesItself
<1> HIDE DEF m, fs
<1>7. EngineType'
  BY <1>1, <1>2, <1>5 DEF IInv, EngineType, AnswerType
<1>8. ThreadInv'
  <2> SUFFICES ASSUME NEW u \in Worker PROVE (RequestTrue(u) /\ AnswerTrue(u))'
    BY DEF ThreadInv
  <2>1. CASE u = t
    <3>1. phase'[t] = "answered" /\ answer'[t] = [code |-> Cardinality(m), matches |-> m]
      BY <1>2 DEF IInv, EngineType
    <3>2. RequestTrue(t)'
      BY <1>1, <1>3, <3>1 DEF RequestTrue, Serves, Does, Bad, Thrown, message
    <3>3. answer'[t].code # -1 /\ answer'[t].matches = m
      BY <1>5, <3>1
    <3>4. request'[t].op # "add"
      BY <1>1, <1>4
    <3>5. AnswerTrue(t)'
      BY <1>6, <3>3, <3>4 DEF AnswerTrue, message
    <3> QED
      BY <2>1, <3>2, <3>5
  <2>2. CASE u # t
    <3>1. phase'[u] = phase[u] /\ answer'[u] = answer[u]
      BY <1>2, <2>2 DEF IInv, EngineType
    <3> QED
      BY <1>1, <3>1, ThreadKept DEF IInv, ThreadInv, Grown
  <2> QED
    BY <2>1, <2>2
<1>9. up
  BY <1>1, AtWork
<1> QED
  BY <1>1, <1>7, <1>8, <1>9, OthersKeptToo DEF IInv

LEMMA ReplyFromEngineStep == ASSUME IInv, NEW t \in Worker, ReplyFromEngine(t) PROVE IInv'
<1> USE DEF told_vars
<1>1. PICK r : r = serves[t]
  OBVIOUS
<1> DEFINE code  == answer[t].code
           list  == answer[t].matches
           reply == ReplyTo(message(r), code, list)
<1>2. /\ UNCHANGED <<store, up, saved, job, pc, got, disturbed, sure, kept, promised>>
      /\ Answered(t, reply)
  BY <1>1 DEF ReplyFromEngine, Engine!Reply
<1>3. /\ phase[t] = "answered" /\ phase' = [phase EXCEPT ![t] = "idle"]
      /\ request' = [request EXCEPT ![t] = Engine!NoRequest]
      /\ answer' = [answer EXCEPT ![t] = Engine!NoAnswer]
  BY DEF ReplyFromEngine, Engine!Reply
<1>4. r \in Run /\ Serves(t) /\ up
  BY <1>1, <1>3, AtWork
<1>5. AnswerTrue(t)
  BY DEF IInv, ThreadInv
<1>6. code \in Int /\ list \in SUBSET (Name \X (0..100))
  BY DEF IInv, EngineType, AnswerType
<1>7. /\ request[t].op = Operation(message(r)).op
      /\ request[t].name = Operation(message(r)).name
      /\ request[t].op # "key" => request[t].frames = Operation(message(r)).frames
  BY <1>1, <1>3, AtWork
<1> HIDE DEF code, list
<1>8. \/ reply = Form("plain", 0, "", list)
      \/ reply = Form("json", -1, "Key not found", {}) /\ message(r).method = "GET" /\ code = -1
      \/ reply = Form("json", code, "", list)
  BY DEF ReplyTo, Refused
<1>9. reply \in Reply
  <2>1. {} \in SUBSET (Name \X (0..100)) /\ -1 \in Int /\ 0 \in Int
    OBVIOUS
  <2>2. "json" \in {"none", "text", "json", "plain"} /\ "plain" \in {"none", "text", "json", "plain"}
    OBVIOUS
  <2>3. "" \in {"", "Done", "/info", "text"} \cup Refusals
    OBVIOUS
  <2>4. "Key not found" \in {"", "Done", "/info", "text"} \cup Refusals
    BY DEF Refusals
  <2>5. Form("plain", 0, "", list) \in Reply
    BY <1>6, <2>1, <2>2, <2>3, ReplyType, Zenon
  <2>6. Form("json", -1, "Key not found", {}) \in Reply
    BY <2>1, <2>2, <2>4, ReplyType, Zenon
  <2>7. Form("json", code, "", list) \in Reply
    BY <1>6, <2>2, <2>3, ReplyType, Zenon
  <2> QED
    BY <1>8, <2>5, <2>6, <2>7
<1>10. ~ Saves(message(r))
  BY <1>1, <1>4 DEF Serves, Does, my_handler, NeedsPool, Saves
<1>11. message(r).type = "add" /\ reply.form = "json" =>
         reply.code = code /\ request[t].op = "add"
           /\ request[t].name = message(r).name /\ request[t].frames = message(r).frames
  <2> SUFFICES ASSUME message(r).type = "add", reply.form = "json"
               PROVE  reply.code = code /\ request[t].op = "add"
                        /\ request[t].name = message(r).name /\ request[t].frames = message(r).frames
    OBVIOUS
  <2>1. message(r).method = "POST"
    BY <1>4, MessageFacts DEF IInv, TypeOK
  <2>2. reply = Form("json", code, "", list)
    BY <2>1 DEF ReplyTo
  <2>3. Operation(message(r)).op = "add"
    BY <2>1, OperationFacts
  <2>4. /\ Operation(message(r)).name = message(r).name
        /\ Operation(message(r)).frames = message(r).frames
    BY <2>3, OperationFacts
  <2>5. Form("json", code, "", list).code = code
    BY Zenon DEF Form
  <2> QED
    BY <1>7, <2>2, <2>3, <2>4, <2>5
<1>12. \A a \in promised[r] : Asks(message(r), a) => a[1] \in Names(reply.list)
  <2> SUFFICES ASSUME NEW a \in promised[r], Asks(message(r), a) PROVE a[1] \in Names(reply.list)
    OBVIOUS
  <2>1. code # -1 /\ a[1] \in Names(list)
    BY <1>1, <1>3, <1>5 DEF AnswerTrue, code, list
  <2>2. Form("plain", 0, "", list).list = list /\ Form("json", code, "", list).list = list
    BY Zenon DEF Form
  <2> QED
    BY <1>8, <2>1, <2>2
<1> HIDE DEF reply
<1>13. LetterTrue(r)'
  <2>1. mail'[r] = "back" => letter'[r] = reply
    BY <1>1, <1>2, <1>4, <1>9, SendBackFacts DEF Answered, IInv
  <2>2. message(r)' = message(r) /\ promised' = promised /\ store' = store /\ up'
    BY <1>2, <1>4 DEF message
  <2>3. /\ request[t].op = "add" /\ code = 0 => In(<<request[t].name, request[t].frames>>, store)
        /\ request[t].op = "add" /\ code = -1 => request[t].name \in DOMAIN store
    BY <1>3, <1>5 DEF AnswerTrue, code
  <2>4. message(r).type = "add" /\ reply.form = "json" =>
          /\ reply.code = 0 => In(<<message(r).name, message(r).frames>>, store)
          /\ reply.code = -1 => message(r).name \in DOMAIN store
    BY <1>11, <2>3
  <2> QED
    BY <1>10, <1>12, <2>1, <2>2, <2>4 DEF LetterTrue, In
<1>14. /\ TypeOK' /\ DownInv' /\ MailInv' /\ StoreInv' /\ LetterInv' /\ PromiseInv'
       /\ FoundAfterAdd' /\ serves'[t] = NoRun
       /\ \A u \in Worker : u # t => serves'[u] = serves[u]
  BY <1>1, <1>2, <1>4, <1>9, <1>13, AnsweredKeeps
<1>15. EngineType'
  <2>1. Engine!NoAnswer \in AnswerType
    BY DEF Engine!NoAnswer, Engine!Answer, AnswerType
  <2> QED
    BY <1>3, <2>1 DEF IInv, EngineType
<1>16. ThreadInv'
  <2> SUFFICES ASSUME NEW u \in Worker PROVE (RequestTrue(u) /\ AnswerTrue(u))'
    BY DEF ThreadInv
  <2>1. CASE u = t
    <3>1. phase'[t] = "idle"
      BY <1>3 DEF IInv, EngineType
    <3> QED
      BY <2>1, <3>1 DEF RequestTrue, AnswerTrue
  <2>2. CASE u # t
    <3>1. phase'[u] = phase[u] /\ request'[u] = request[u] /\ answer'[u] = answer[u]
      BY <1>3, <2>2 DEF IInv, EngineType
    <3> QED
      BY <1>2, <1>14, <2>2, <3>1, ThreadKept DEF IInv, ThreadInv, Grown
  <2> QED
    BY <2>1, <2>2
<1>17. SureStored'
  BY <1>2 DEF IInv, SureStored
<1> QED
  BY <1>14, <1>15, <1>16, <1>17 DEF IInv

(* The end of the process, for a request that was sent.                    *)
LEMMA ProcessEndsStep ==
  ASSUME IInv, NEW r \in Run, mail[r] # "none", ProcessEnds(r)
  PROVE  IInv'
<1>1. UNCHANGED <<saved, job, pc, letter, got, kept>>
  BY DEF ProcessEnds
<1>2. /\ mail[r] # "none" /\ up' = FALSE /\ store' = << >>
      /\ phase' = [t \in Worker |-> "idle"]
      /\ request' = [t \in Worker |-> Engine!NoRequest]
      /\ answer' = [t \in Worker |-> Engine!NoAnswer]
      /\ serves' = [t \in Worker |-> NoRun]
      /\ mail' = [s \in Run |-> IF s = r \/ mail[s] \in {"pool", "thread"} THEN "gone" ELSE mail[s]]
      /\ disturbed' = [s \in Run |-> disturbed[s] \/ pc[s] = "waiting"]
      /\ sure' = kept
      /\ promised' = [s \in Run |-> promised[s] \cap kept]
  BY DEF ProcessEnds
<1>3. DOMAIN store' = {}
  <2>1. DOMAIN << >> = {}
    OBVIOUS
  <2> QED
    BY <1>2, <2>1
<1>4. /\ mail' \in [Run -> {"none", "sent", "pool", "thread", "back", "gone"}]
      /\ \A s \in Run : mail'[s] \notin {"pool", "thread"}
      /\ \A s \in Run : mail'[s] = "back" => mail[s] = "back"
      /\ \A s \in Run : mail'[s] # "none" => mail[s] # "none"
  BY <1>2 DEF IInv, TypeOK
<1>5. \A s \in Run : promised'[s] \subseteq promised[s] /\ promised'[s] \subseteq sure'
  BY <1>2
<1>6. TypeOK'
  <2>1. disturbed' \in [Run -> BOOLEAN]
    BY <1>2 DEF IInv, TypeOK
  <2>2. promised' \in [Run -> SUBSET (Name \X FrameList)]
    BY <1>2 DEF IInv, TypeOK
  <2>3. kept' \subseteq sure' /\ sure' \subseteq Name \X FrameList
    BY <1>1, <1>2 DEF IInv, TypeOK
  <2>4. serves' \in [Worker -> Run \cup {NoRun}] /\ \A t \in Worker : serves'[t] = NoRun
    BY <1>2
  <2> QED
    BY <1>1, <1>2, <1>3, <1>4, <2>1, <2>2, <2>3, <2>4 DEF IInv, TypeOK
<1>7. EngineType'
  <2>1. Engine!NoAnswer \in AnswerType
    BY DEF Engine!NoAnswer, Engine!Answer, AnswerType
  <2> QED
    BY <1>2, <2>1 DEF EngineType
<1>8. DownInv'
  BY <1>1, <1>2, <1>4 DEF DownInv
<1>9. MailInv'
  BY <1>1, <1>4 DEF IInv, MailInv, TypeOK
<1>10. StoreInv'
  BY <1>1, <1>2, <1>3 DEF IInv, StoreInv, FromRuns, Adds, message
<1>11. ThreadInv'
  BY <1>2 DEF ThreadInv, RequestTrue, AnswerTrue
<1>12. LetterInv'
  <2> SUFFICES ASSUME NEW s \in Run PROVE LetterTrue(s)'
    BY DEF LetterInv
  <2>1. mail'[s] = "back" => mail[s] = "back" /\ disturbed'[s]
    BY <1>2, <1>4 DEF IInv, MailInv
  <2> QED
    BY <1>1, <1>5, <2>1, LetterKept DEF IInv, LetterInv, Grown
<1>13. PromiseInv'
  BY <1>5 DEF PromiseInv
<1>14. SureStored'
  BY <1>1, <1>2 DEF IInv, SureStored
<1>15. FoundAfterAdd'
  BY <1>1, <1>5, FoundKept DEF IInv
<1> QED
  BY <1>6, <1>7, <1>8, <1>9, <1>10, <1>11, <1>12, <1>13, <1>14, <1>15 DEF IInv

LEMMA ExitStep == ASSUME IInv, NEW r \in Run, Exit(r) PROVE IInv'
  BY ProcessEndsStep DEF Exit

LEMMA ThrowStep == ASSUME IInv, NEW t \in Worker, Throw(t) PROVE IInv'
<1>1. Does(t, "process") /\ ProcessEnds(serves[t])
  BY DEF Throw, Thrown
<1>2. serves[t] \in Run
  BY <1>1, ServedRun DEF Does
<1>3. mail[serves[t]] # "none"
  BY <1>1, <1>2 DEF IInv, TypeOK, Does
<1> QED
  BY <1>1, <1>2, <1>3, ProcessEndsStep

LEMMA RestartStep == ASSUME IInv, Restart PROVE IInv'
<1> USE DEF run_vars, told_vars
<1>1. /\ ~ up /\ up' = TRUE /\ store' = saved
      /\ UNCHANGED <<phase, request, answer, saved, serves, run_vars, told_vars>>
  BY DEF Restart
<1>2. \A t \in Worker : phase[t] = "idle"
  BY <1>1 DEF IInv, DownInv
<1>3. sure = kept
  BY <1>1 DEF IInv, DownInv
<1>4. TypeOK' /\ EngineType' /\ DownInv' /\ MailInv' /\ PromiseInv'
  BY <1>1 DEF IInv, TypeOK, EngineType, DownInv, MailInv, PromiseInv
<1>5. StoreInv'
  BY <1>1 DEF IInv, StoreInv, FromRuns, Adds, message, Grown
<1>6. ThreadInv'
  BY <1>1, <1>2 DEF ThreadInv, RequestTrue, AnswerTrue
<1>7. LetterInv'
  <2> SUFFICES ASSUME NEW s \in Run PROVE LetterTrue(s)'
    BY DEF LetterInv
  <2>1. LetterTrue(s)
    BY DEF IInv, LetterInv
  <2> QED
    BY <1>1, <2>1 DEF LetterTrue, message, In
<1>8. SureStored'
  BY <1>1, <1>3 DEF IInv, SureStored
<1>9. FoundAfterAdd'
  BY <1>1, FoundKept DEF IInv
<1> QED
  BY <1>4, <1>5, <1>6, <1>7, <1>8, <1>9 DEF IInv

-----------------------------------------------------------------------------
(***************************************************************************)
(* Theorems                                                                *)
(***************************************************************************)
LEMMA InitIInv == Init => IInv
<1> SUFFICES ASSUME Init PROVE IInv
  OBVIOUS
<1>1. DOMAIN << >> = {}
  OBVIOUS
<1>2. DOMAIN store = {} /\ DOMAIN saved = {}
  BY <1>1 DEF Init, Engine!Init
<1>3. NoReply \in Reply /\ NoReply.form = "none"
  BY DEF NoReply, Reply, Form
<1>4. TypeOK
  <2>1. serves \in [Worker -> Run \cup {NoRun}] /\ \A t \in Worker : serves[t] = NoRun
    BY DEF Init
  <2>2. letter \in [Run -> Reply] /\ got \in [Run -> Reply]
    BY <1>3 DEF Init
  <2> QED
    BY <1>2, <2>1, <2>2 DEF Init, TypeOK
<1>5. EngineType
  <2>1. Engine!NoAnswer \in AnswerType
    BY DEF Engine!NoAnswer, Engine!Answer, AnswerType
  <2> QED
    BY <2>1 DEF Init, Engine!Init, EngineType
<1>6. DownInv /\ StoreInv /\ ThreadInv /\ LetterInv
  BY <1>2 DEF Init, Engine!Init, DownInv, StoreInv, FromRuns, Grown, ThreadInv, RequestTrue,
              AnswerTrue, LetterInv, LetterTrue
<1>7. MailInv
  BY <1>3 DEF Init, MailInv
<1>8. PromiseInv /\ SureStored /\ FoundAfterAdd
  BY DEF Init, PromiseInv, SureStored, FoundAfterAdd
<1> QED
  BY <1>4, <1>5, <1>6, <1>7, <1>8 DEF IInv

LEMMA StutterStep == IInv /\ UNCHANGED vars => IInv'
<1> SUFFICES ASSUME IInv, UNCHANGED vars PROVE IInv'
  OBVIOUS
<1> USE DEF vars
<1>1. TypeOK' /\ EngineType' /\ DownInv' /\ MailInv' /\ PromiseInv' /\ SureStored'
  BY DEF IInv, TypeOK, EngineType, DownInv, MailInv, PromiseInv, SureStored
<1>2. StoreInv' /\ ThreadInv'
  BY StoreKept, ThreadKept DEF IInv, ThreadInv, Grown
<1>3. LetterInv' /\ FoundAfterAdd'
  BY LetterKept, FoundKept DEF IInv, LetterInv, Grown
<1> QED
  BY <1>1, <1>2, <1>3 DEF IInv

LEMMA NextIInv == IInv /\ [Next]_vars => IInv'
<1> SUFFICES ASSUME IInv, [Next]_vars PROVE IInv'
  OBVIOUS
<1>1. ASSUME NEW r \in Run, StartSilent(r) \/ StartRequest(r) \/ Arrive(r) \/ GiveUp(r)
                              \/ Refuse(r) \/ Dispatch(r) \/ Exit(r)
      PROVE  IInv'
  BY <1>1, StartSilentStep, StartRequestStep, ArriveStep, GiveUpStep, RefuseStep, DispatchStep,
     ExitStep
<1>2. ASSUME NEW t \in Worker, EngineStep(t) PROVE IInv'
  <2>1. UNCHANGED <<up, saved, serves, run_vars, told_vars>>
    BY <1>2 DEF EngineStep
  <2> QED
    BY <1>2, <2>1, AddStep, LocateStep, MatchStep DEF EngineStep
<1>3. ASSUME NEW t \in Worker, PoolThread(t) PROVE IInv'
  BY <1>2, <1>3, TakeStep, RefuseMalformedStep, ThrowStep, CallEngineStep, ReplyFromEngineStep,
     SaveStep
     DEF PoolThread
<1>4. CASE Restart
  BY <1>4, RestartStep
<1>5. CASE UNCHANGED vars
  BY <1>5, StutterStep
<1> QED
  BY <1>1, <1>3, <1>4, <1>5 DEF Next

(* What every step of a client, the network and the match server leaves    *)
(* true.                                                                   *)
THEOREM Invariance == Spec => []IInv
  BY InitIInv, NextIInv, PTL DEF Spec

(* Requests and threads are paired one to one, and the state has its type. *)
THEOREM TypeCorrect == Spec => []TypeOK
<1>1. IInv => TypeOK
  BY DEF IInv
<1> QED
  BY <1>1, Invariance, PTL

(* What users may conclude from the replies they got is true, whatever was *)
(* lost, late, refused, tried again or gone with an exit of the server.    *)
THEOREM WhatIsSureIsStored == Spec => []SureStored
<1>1. IInv => SureStored
  BY DEF IInv
<1> QED
  BY <1>1, Invariance, PTL

(* A query lists every video that has a hash and that its user could be    *)
(* sure of when it was sent.                                               *)
THEOREM WhatIsSureIsFound == Spec => []FoundAfterAdd
<1>1. IInv => FoundAfterAdd
  BY DEF IInv
<1> QED
  BY <1>1, Invariance, PTL

-----------------------------------------------------------------------------
(***************************************************************************)
(* Where the stored frames come from.                                      *)
(***************************************************************************)
(* The pictures that are analysed, file by file.                           *)
LEMMA ReadableGrows ==
  ASSUME NEW files, NEW n \in Nat, Analysed(files[n]) \in BOOLEAN, n > 0
  PROVE  /\ Analysed(files[n]) => Readable(files, n) = Readable(files, n - 1) \cup {n}
         /\ ~ Analysed(files[n]) => Readable(files, n) = Readable(files, n - 1)
<1>1. 1..n = 1..(n - 1) \cup {n}
  OBVIOUS
<1>2. Analysed(files[n]) <=> files[n].is_jpg /\ files[n].loads
  BY DEF Analysed, GetHashCode
<1> QED
  BY <1>1, <1>2 DEF Readable

(* How many there are.                                                     *)
LEMMA ReadableCount ==
  ASSUME NEW files, NEW n \in Nat
  PROVE  /\ IsFiniteSet(Readable(files, n)) /\ Cardinality(Readable(files, n)) \in 0..n
         /\ Readable(files, n) \subseteq 1..n
<1>1. 1 \in Int /\ n \in Int
  OBVIOUS
<1>2. IsFiniteSet(1..n) /\ Cardinality(1..n) = n
  BY <1>1, FS_Interval
<1>3. Readable(files, n) \subseteq 1..n
  BY DEF Readable
<1> QED
  BY <1>2, <1>3, FS_Subset, FS_CardinalityType

(* Of two prefixes the longer has at least as many of them, and more when  *)
(* one lies between.                                                       *)
LEMMA ReadableOrder ==
  ASSUME NEW files, NEW n \in Nat, NEW i \in Readable(files, n), NEW m \in Nat, m < i
  PROVE  /\ Cardinality(Readable(files, m)) < Cardinality(Readable(files, i))
         /\ Cardinality(Readable(files, i)) \in 1..Cardinality(Readable(files, n))
<1>1. i \in 1..n
  BY DEF Readable
<1>2. i \in Readable(files, i) /\ i \notin Readable(files, m)
  BY <1>1 DEF Readable
<1>3. Readable(files, m) \subseteq Readable(files, i) /\ Readable(files, i) \subseteq Readable(files, n)
  BY <1>1 DEF Readable
<1>4. /\ IsFiniteSet(Readable(files, i)) /\ IsFiniteSet(Readable(files, n))
      /\ Cardinality(Readable(files, i)) \in Nat /\ Cardinality(Readable(files, n)) \in Nat
      /\ Cardinality(Readable(files, m)) \in Nat
  BY <1>1, ReadableCount
<1>5. Cardinality(Readable(files, m)) < Cardinality(Readable(files, i))
  BY <1>2, <1>3, <1>4, FS_Subset
<1>6. Cardinality(Readable(files, i)) <= Cardinality(Readable(files, n))
  BY <1>3, <1>4, FS_Subset
<1> QED
  BY <1>4, <1>5, <1>6

(* What main() pushes: for every picture that can be analysed its result,  *)
(* in the order of the files, and nothing else.                            *)
LEMMA FramesListed ==
  ASSUME NEW S, NEW files \in Seq(S), \A n \in 1..Len(files) : Analysed(files[n]) \in BOOLEAN
  PROVE  LET fs == FramesUpTo(files)[Len(files)]
         IN  /\ Len(fs) = Cardinality(Readable(files, Len(files)))
             /\ \A i \in Readable(files, Len(files)) :
                  fs[Cardinality(Readable(files, i))] = Result(files[i])
             /\ Len(files) = 0 => fs = << >>
<1> DEFINE N    == Len(files)
           R(n) == Cardinality(Readable(files, n))
           Is(g) == g = [n \in 0..N |->
                           IF n = 0 THEN << >>
                           ELSE IF Analysed(files[n]) THEN Append(g[n - 1], Result(files[n]))
                           ELSE g[n - 1]]
           pushed == CHOOSE g : Is(g)
           Nth(k) == CHOOSE j \in 1..N : Analysed(files[j]) /\ R(j) = k
           Fs(n)  == [k \in 1..R(n) |-> Result(files[Nth(k)])]
           w == [n \in 0..N |-> Fs(n)]
<1>1. FramesUpTo(files) = pushed
  BY DEF FramesUpTo
<1>2. N \in Nat
  OBVIOUS
<1>3. \A n \in 1..N : /\ Analysed(files[n]) <=> n \in Readable(files, N)
                      /\ Analysed(files[n]) => R(n) = R(n - 1) + 1
                      /\ ~ Analysed(files[n]) => R(n) = R(n - 1)
  <2> SUFFICES ASSUME NEW n \in 1..N
               PROVE  /\ Analysed(files[n]) <=> n \in Readable(files, N)
                      /\ Analysed(files[n]) => R(n) = R(n - 1) + 1
                      /\ ~ Analysed(files[n]) => R(n) = R(n - 1)
    OBVIOUS
  <2>1. n \in Nat /\ n > 0 /\ n - 1 \in Nat
    OBVIOUS
  <2>2. n \notin Readable(files, n - 1) /\ IsFiniteSet(Readable(files, n - 1))
    <3>1. Readable(files, n - 1) \subseteq 1..(n - 1)
      BY DEF Readable
    <3>2. n \notin 1..(n - 1)
      BY <2>1
    <3> QED
      BY <2>1, <3>1, <3>2, ReadableCount
  <2>3. Analysed(files[n]) => R(n) = R(n - 1) + 1
    BY <2>1, <2>2, ReadableGrows, FS_AddElement
  <2>4. ~ Analysed(files[n]) => R(n) = R(n - 1)
    BY <2>1, ReadableGrows
  <2> QED
    BY <2>3, <2>4 DEF Analysed, GetHashCode, Readable
<1>4. \A n \in 0..N : R(n) \in Nat
  BY <1>2, ReadableCount
<1>5. R(0) = 0
  BY ReadableCount, 0 \in Nat
<1>6. \A n, m \in 1..N : Analysed(files[n]) /\ Analysed(files[m]) /\ R(n) = R(m) => n = m
  <2> SUFFICES ASSUME NEW n \in 1..N, NEW m \in 1..N, Analysed(files[n]), Analysed(files[m]), n < m
               PROVE  R(n) < R(m)
    BY <1>4
  <2>1. m \in Readable(files, N) /\ n \in Nat
    BY <1>3
  <2> QED
    BY <1>2, <2>1, ReadableOrder
<1>7. \A n \in 1..N : Analysed(files[n]) => Nth(R(n)) = n
  BY <1>6
<1> HIDE DEF N, R, Nth, pushed
<1>8. ASSUME NEW n \in 1..N
      PROVE  w[n] = IF Analysed(files[n]) THEN Append(w[n - 1], Result(files[n])) ELSE w[n - 1]
  <2>1. CASE Analysed(files[n])
    <3>1. n \in 0..N /\ n - 1 \in 0..N
      BY <1>2
    <3>2. w[n] = Fs(n) /\ w[n - 1] = Fs(n - 1)
      BY <3>1
    <3>3. R(n - 1) \in Nat /\ R(n) = R(n - 1) + 1 /\ Nth(R(n)) = n
      BY <1>3, <1>4, <1>7, <2>1, <3>1
    <3>4. Fs(n - 1) \in Seq({Result(files[Nth(k)]) : k \in 1..R(n)}) /\ Len(Fs(n - 1)) = R(n - 1)
      BY <3>3
    <3>5. Append(Fs(n - 1), Result(files[n])) = Fs(n)
      BY <3>3, <3>4
    <3> QED
      BY <2>1, <3>2, <3>5
  <2>2. CASE ~ Analysed(files[n])
    <3>1. n \in 0..N /\ n - 1 \in 0..N
      BY <1>2
    <3> QED
      BY <1>3, <2>2, <3>1
  <2> QED
    BY <2>1, <2>2
<1>9. w[0] = << >>
  BY <1>2, <1>5
<1>10. Is(w)
  <2>1. \A n \in 0..N : n = 0 \/ n \in 1..N
    BY <1>2
  <2> QED
    BY <1>8, <1>9, <2>1
<1>11. Is(pushed)
  BY <1>10 DEF pushed
<1> HIDE DEF w
<1>12. \A n \in 0..N : pushed[n] = w[n]
  <2> DEFINE Wrong == {n \in 0..N : pushed[n] # w[n]}
  <2> SUFFICES ASSUME Wrong # {} PROVE FALSE
    OBVIOUS
  <2>1. Wrong \subseteq Nat
    BY <1>2
  <2>2. PICK n \in Wrong : \A m \in Wrong : ~ (<<m, n>> \in OpToRel(<, Nat))
    <3> HIDE DEF Wrong
    <3> QED BY <2>1, NatLessThanWellFounded, WFMin
  <2>3. n # 0 /\ n \in 1..N
    <3>1. pushed[0] = << >>
      BY <1>2, <1>11
    <3> QED
      BY <1>2, <1>9, <3>1
  <2>4. n - 1 \notin Wrong
    <3>1. n - 1 < n /\ n - 1 \in Nat /\ n \in Nat
      BY <1>2, <2>3
    <3> HIDE DEF Wrong
    <3> QED
      BY <2>2, <3>1 DEF OpToRel
  <2>5. pushed[n - 1] = w[n - 1]
    BY <1>2, <2>3, <2>4
  <2>6. pushed[n] = IF Analysed(files[n]) THEN Append(pushed[n - 1], Result(files[n])) ELSE pushed[n - 1]
    BY <1>2, <1>11, <2>3
  <2> QED
    BY <1>8, <2>3, <2>5, <2>6
<1>13. pushed[N] = Fs(N)
  BY <1>2, <1>12 DEF w
<1>14. R(N) \in Nat
  BY <1>2, <1>4
<1>15. Len(Fs(N)) = R(N)
  BY <1>14
<1>16. ASSUME NEW i \in Readable(files, N) PROVE Fs(N)[R(i)] = Result(files[i])
  <2>1. i \in 1..N /\ Analysed(files[i])
    BY <1>2, <1>3, ReadableCount
  <2>2. i - 1 \in Nat /\ i - 1 < i
    BY <1>2, <2>1
  <2>3. R(i) \in 1..R(N)
    BY <1>2, <2>2, ReadableOrder DEF R
  <2> QED
    BY <1>7, <2>1, <2>3
<1> QED
  <2>1. N = 0 => pushed[N] = << >>
    BY <1>2, <1>9, <1>12
  <2> QED
    BY <1>1, <1>13, <1>15, <1>16, <2>1 DEF N, R

(* A run has sent a request to add this, and the client only with frames.  *)
SentBy(r, n, fs) ==
  /\ mail[r] # "none" /\ message(r).type = "add" /\ message(r).name = n /\ message(r).frames = fs
  /\ job[r].tool = "client" => fs # << >>

Sent(n, fs) == \E r \in Run : SentBy(r, n, fs)

(* Every video that is stored or saved was sent by a run.                  *)
SentInv ==
  /\ \A n \in DOMAIN store : Sent(n, store[n])
  /\ \A n \in DOMAIN saved : Sent(n, saved[n])

(* What was sent stays sent, and runs keep their messages.                 *)
LEMMA MailGoesOn ==
  ASSUME IInv, [Next]_vars, NEW r \in Run, mail[r] # "none"
  PROVE  mail'[r] # "none"
<1> USE DEF server, run_vars, told_vars
<1>1. mail \in [Run -> {"none", "sent", "pool", "thread", "back", "gone"}]
  BY DEF IInv, TypeOK
<1>2. ASSUME NEW s \in Run, StartSilent(s) \/ StartRequest(s) \/ Arrive(s) \/ GiveUp(s)
                              \/ Refuse(s) \/ Dispatch(s) \/ Exit(s)
      PROVE  mail'[r] # "none"
  BY <1>1, <1>2 DEF StartSilent, StartRequest, Arrive, GiveUp, Refuse, Dispatch, SendBack, Exit,
                    ProcessEnds
<1>3. ASSUME NEW t \in Worker, PoolThread(t)
      PROVE  mail'[r] # "none"
  BY <1>1, <1>3 DEF PoolThread, Take, RefuseMalformed, Throw, ProcessEnds, CallEngine,
                    EngineStep, ReplyFromEngine, Save, Answered, SendBack
<1>4. CASE Restart
  BY <1>4 DEF Restart
<1>5. CASE UNCHANGED vars
  BY <1>5 DEF vars
<1> QED
  BY <1>2, <1>3, <1>4, <1>5 DEF Next

LEMMA SentKept ==
  ASSUME IInv, [Next]_vars, NEW n, NEW fs, Sent(n, fs)
  PROVE  Sent(n, fs)'
<1>1. PICK r \in Run : SentBy(r, n, fs)
  BY DEF Sent
<1>2. mail'[r] # "none" /\ job' = job
  BY <1>1, MailGoesOn, JobKept DEF SentBy
<1>3. SentBy(r, n, fs)'
  BY <1>1, <1>2 DEF SentBy, message
<1> QED
  BY <1>3 DEF Sent

(* The engine adds what its thread's run has sent.                         *)
LEMMA AddedWasSent ==
  ASSUME IInv, NEW t \in Worker, Engine!Add(t)
  PROVE  Sent(request[t].name, request[t].frames)
<1>1. phase[t] = "called" /\ request[t].op = "add"
  BY DEF Engine!Add
<1> DEFINE r == serves[t]
           m == message(r)
<1>2. /\ r \in Run /\ mail[r] = "thread" /\ Serves(t) /\ m.type = "add" /\ m.method # "GET"
      /\ m.name = request[t].name /\ m.frames = request[t].frames
  BY <1>1, AtWork, OperationFacts
<1>3. m.method = "POST" /\ m.json = "object"
  BY <1>2, MessageFacts DEF IInv, TypeOK
<1>4. my_handler(m, TRUE) = "process"
  <2> HIDE DEF m
  <2> QED
    BY <1>3 DEF my_handler, NeedsPool
<1>5. Refusal(m) = ""
  BY <1>2, <1>4 DEF Serves, Does, Bad, Thrown
<1>6. m.has_frames
  BY <1>2, <1>3, <1>5 DEF Refusal
<1>7. job[r].tool = "client" => m.frames # << >>
  <2> SUFFICES ASSUME job[r].tool = "client" PROVE m.frames # << >>
    OBVIOUS
  <2>1. PICK type, n : m = Post(type, n, FramesOf[job[r].dir])
    BY DEF message, MessageOf
  <2>2. /\ Post(type, n, FramesOf[job[r].dir]).frames = FramesOf[job[r].dir]
        /\ Post(type, n, FramesOf[job[r].dir]).has_frames = (FramesOf[job[r].dir] # << >>)
    BY PostFacts
  <2> HIDE DEF m
  <2> QED
    BY <1>6, <2>1, <2>2
<1>8. SentBy(r, request[t].name, request[t].frames)
  BY <1>2, <1>7 DEF SentBy
<1> QED
  BY <1>2, <1>8 DEF Sent

LEMMA NextSent ==
  ASSUME IInv, SentInv, [Next]_vars
  PROVE  SentInv'
<1>1. \A n, fs : Sent(n, fs) => Sent(n, fs)'
  BY SentKept
<1>2. \A n \in DOMAIN store' : Sent(n, store'[n])
  <2> USE DEF server, run_vars, told_vars, engine
  <2>1. ASSUME NEW r \in Run, StartSilent(r) \/ StartRequest(r) \/ Arrive(r) \/ GiveUp(r)
                                \/ Refuse(r) \/ Dispatch(r)
        PROVE  store' = store
    BY <2>1 DEF StartSilent, StartRequest, Arrive, GiveUp, Refuse, Dispatch
  <2>2. ASSUME NEW r, ProcessEnds(r)
        PROVE  DOMAIN store' = {}
    <3>1. store' = << >> /\ DOMAIN << >> = {}
      BY <2>2 DEF ProcessEnds
    <3> QED
      BY <3>1
  <2>3. ASSUME NEW t \in Worker, PoolThread(t), ~ Throw(t)
        PROVE  store' = store \/ Engine!Add(t)
    BY <2>3 DEF PoolThread, Take, RefuseMalformed, CallEngine, EngineStep, ReplyFromEngine, Save,
                Engine!Call, Engine!Locate, Engine!Match, Engine!Reply
  <2>4. ASSUME NEW t \in Worker, Engine!Add(t), NEW n \in DOMAIN store'
        PROVE  Sent(n, store'[n])
    <3>1. Sent(request[t].name, request[t].frames)
      BY <2>4, AddedWasSent
    <3>2. \/ n \in DOMAIN store /\ store'[n] = store[n]
          \/ n = request[t].name /\ store'[n] = request[t].frames
      BY <2>4 DEF Engine!Add
    <3> QED
      BY <3>1, <3>2 DEF SentInv
  <2>5. CASE Restart
    BY <2>5 DEF Restart, SentInv
  <2>6. CASE UNCHANGED vars
    BY <2>6 DEF vars, SentInv
  <2> QED
    BY <2>1, <2>2, <2>3, <2>4, <2>5, <2>6 DEF Next, SentInv, Exit, Throw
<1>3. \A n \in DOMAIN saved' : Sent(n, saved'[n])
  <2> USE DEF server, run_vars, told_vars, engine
  <2>1. ASSUME NEW r \in Run, StartSilent(r) \/ StartRequest(r) \/ Arrive(r) \/ GiveUp(r)
                                \/ Refuse(r) \/ Dispatch(r) \/ Exit(r)
        PROVE  saved' = saved
    BY <2>1 DEF StartSilent, StartRequest, Arrive, GiveUp, Refuse, Dispatch, Exit, ProcessEnds
  <2>2. ASSUME NEW t \in Worker, PoolThread(t)
        PROVE  saved' = saved \/ saved' = store
    BY <2>2 DEF PoolThread, Take, RefuseMalformed, Throw, ProcessEnds, CallEngine, EngineStep,
                ReplyFromEngine, Save
  <2>3. Restart \/ UNCHANGED vars => saved' = saved
    BY DEF Restart, vars
  <2> QED
    BY <2>1, <2>2, <2>3 DEF Next, SentInv
<1>4. ASSUME NEW n \in DOMAIN store' PROVE Sent(n, store[n])'
  <2>1. PICK fs : fs = store'[n]
    OBVIOUS
  <2>2. Sent(n, fs)'
    BY <1>1, <1>2, <2>1
  <2> QED
    BY <2>1, <2>2 DEF Sent, SentBy
<1>5. ASSUME NEW n \in DOMAIN saved' PROVE Sent(n, saved[n])'
  <2>1. PICK fs : fs = saved'[n]
    OBVIOUS
  <2>2. Sent(n, fs)'
    BY <1>1, <1>3, <2>1
  <2> QED
    BY <2>1, <2>2 DEF Sent, SentBy
<1> QED
  BY <1>4, <1>5 DEF SentInv

(* What the client sends of a directory it can read, when it is not empty, *)
(* lists the directory's files.                                            *)
LEMMA FramesListFiles ==
  ASSUME NEW d \in Dir, FramesOf[d] # << >>
  PROVE  ListsFiles(FramesOf[d], Files[d])
<1> DEFINE files == Files[d]
           S == Range(Files[d])
<1>1. d # NoDir /\ FramesOf[d] = FramesUpTo(files)[Len(files)]
  BY RunAssumption DEF FramesOf
<1>2. files \in Seq(S) /\ \A f \in S : IsPicture(f) /\ f.is_jpg \in BOOLEAN
  BY RunAssumption
<1>3. \A n \in 1..Len(files) : IsPicture(files[n]) /\ files[n].is_jpg \in BOOLEAN
  BY <1>2 DEF Range
<1>4. \A n \in 1..Len(files) : Analysed(files[n]) \in BOOLEAN
  BY <1>3 DEF Analysed
<1> HIDE DEF files, S
<1>5. /\ Len(FramesOf[d]) = Cardinality(Readable(files, Len(files)))
      /\ \A i \in Readable(files, Len(files)) :
           FramesOf[d][Cardinality(Readable(files, i))] = Result(files[i])
  BY <1>1, <1>2, <1>4, FramesListed
<1>6. \A i \in Readable(files, Len(files)) :
        Result(files[i]) = IF Useless(files[i]) THEN 0 ELSE files[i].print
  BY DEF Readable, Result, NO_HASH
<1> QED
  BY <1>5, <1>6 DEF ListsFiles, files

(* A stored video is what somebody's directory holds, or what another tool *)
(* sent.                                                                   *)
THEOREM WhatIsStoredWasFound == Spec => []StoredAsFound
<1>1. Init => SentInv
  <2>1. DOMAIN << >> = {}
    OBVIOUS
  <2> QED
    BY <2>1 DEF Init, Engine!Init, SentInv
<1>2. IInv /\ SentInv /\ [Next]_vars => SentInv'
  BY NextSent
<1>3. IInv /\ SentInv => StoredAsFound
  <2> SUFFICES ASSUME IInv, SentInv, NEW n \in DOMAIN store
               PROVE  \E r \in Run :
                        /\ mail[r] # "none" /\ message(r).type = "add" /\ message(r).name = n
                        /\ IF job[r].tool = "client"
                           THEN job[r].dir # NoDir /\ store[n] \in Listings[job[r].dir]
                           ELSE message(r).frames = store[n]
    BY DEF StoredAsFound
  <2>1. PICK r \in Run : SentBy(r, n, store[n])
    BY DEF SentInv, Sent
  <2>2. ASSUME job[r].tool = "client"
        PROVE  job[r].dir # NoDir /\ store[n] \in Listings[job[r].dir]
    <3>1. store[n] = FramesOf[job[r].dir] /\ store[n] # << >>
      <4>1. \E type, m : message(r) = Post(type, m, FramesOf[job[r].dir])
        BY <2>2 DEF message, MessageOf
      <4>2. message(r).frames = FramesOf[job[r].dir]
        BY <4>1, PostFacts
      <4> QED
        BY <2>1, <2>2, <4>2 DEF SentBy
    <3>2. job[r].dir \in Dir \cup {NoDir}
      BY RunAssumption DEF IInv, TypeOK
    <3>3. job[r].dir # NoDir
      <4>1. FramesOf[NoDir] = FramesUpTo(<< >>)[Len(<< >>)]
        BY DEF FramesOf
      <4>2. << >> \in Seq({}) /\ Len(<< >>) = 0 /\ 1..0 = {}
        OBVIOUS
      <4>3. PICK files \in Seq({}) : files = << >>
        BY <4>2
      <4>4. FramesUpTo(files)[Len(files)] = << >>
        BY <4>2, <4>3, FramesListed
      <4> QED
        BY <3>1, <4>1, <4>3, <4>4
    <3>4. store[n] \in FrameList
      BY DEF IInv, TypeOK
    <3>5. ListsFiles(store[n], Files[job[r].dir])
      BY <3>1, <3>2, <3>3, FramesListFiles
    <3> QED
      BY <3>2, <3>3, <3>4, <3>5 DEF Listings
  <2> QED
    BY <2>1, <2>2 DEF SentBy
<1> QED
  BY <1>1, <1>2, <1>3, Invariance, PTL DEF Spec
=============================================================================
