----------------------------- MODULE VideoMatch -----------------------------
(***************************************************************************)
(* The whole of it: people run the client program (client/main.cpp,        *)
(* Requester.cpp) or fetch URLs, requests and replies travel and may be    *)
(* lost or late, the match server dispatches them to its threads           *)
(* (server/main.cpp), and the match engine, as MatchStore promises it,     *)
(* serves them.  The server may be told to exit or die of a request; what  *)
(* it saved, as DurableStore promises of one save at a time, is what it    *)
(* starts with.                                                            *)
(*                                                                         *)
(* A run stands for one invocation of a tool; to try again is another run. *)
(***************************************************************************)
EXTENDS RequestProcessor, ImageProcessor

CONSTANTS
  Worker,   \* the pool threads
  Run,      \* the invocations of tools
  NoRun,
  Jobs,     \* what they are for: functions from Run to jobs
  Dir,      \* the directories that scandir can read
  NoDir,    \* one that it cannot
  Files     \* per directory: its files in alphabetical order

(* A job of the client program is its options; any other tool sends a      *)
(* given message.  A file is a picture, with its suffix in is_jpg.         *)
ASSUME RunAssumption ==
  /\ IsFiniteSet(Worker) /\ IsFiniteSet(Run)
  /\ NoRun \notin Run /\ NoName \notin Name
  /\ \A j \in Jobs, r \in Run :
       /\ j[r].tool \in {"client", "other"}
       /\ j[r].req \in {"none", "add", "query", "other"}
       /\ j[r].name \in Name \cup {NoName}
       /\ j[r].dir \in Dir \cup {NoDir}
       /\ j[r].message \in Message
  /\ \A j \in Jobs : Cardinality({r \in Run : Saves(j[r].message)}) <= 1
  /\ NoDir \notin Dir
  /\ \A d \in Dir : /\ Files[d] \in Seq(Range(Files[d]))
                    /\ \A f \in Range(Files[d]) : IsPicture(f) /\ f.is_jpg \in BOOLEAN

VARIABLES
  store, phase, request, answer,   \* the engine, as in MatchStore
  up,        \* a server process is running
  saved,     \* the videos in the db file
  serves,    \* per pool thread: the run whose request it has
  job,
  pc,        \* per run: "start", "waiting" or "ended"
  mail,      \* per run: where the request or its reply is
  letter,    \* per run: the reply, once there is one
  got,       \* per run: the reply it ended with, if any
  disturbed, \* per run: the server ended while it was waiting
  sure,      \* <<name, frames>> pairs users were told are stored
  kept,      \* those of them they were told are saved
  promised   \* per run: of these, what held when it sent its request

engine    == <<store, phase, request, answer>>
server    == <<store, phase, request, answer, up, saved, serves>>
run_vars  == <<job, pc, mail, letter, got>>
told_vars == <<disturbed, sure, kept, promised>>
vars == <<store, phase, request, answer, up, saved, serves, job, pc,
          mail, letter, got, disturbed, sure, kept, promised>>

Engine == INSTANCE MatchStore

NoMessage == Get("/", NoName)
NoReply   == Form("none", 0, "", {})

-----------------------------------------------------------------------------
Init ==
  /\ Engine!Init
  /\ up = TRUE
  /\ saved = << >>
  /\ serves = [t \in Worker |-> NoRun]
  /\ job \in Jobs
  /\ pc = [r \in Run |-> "start"]
  /\ mail = [r \in Run |-> "none"]
  /\ letter = [r \in Run |-> NoReply]
  /\ got = [r \in Run |-> NoReply]
  /\ disturbed = [r \in Run |-> FALSE]
  /\ sure = {} /\ kept = {}
  /\ promised = [r \in Run |-> {}]

-----------------------------------------------------------------------------
(***************************************************************************)
(* A run                                                                   *)
(***************************************************************************)
(* A deliberately wrong variant, for the sensitivity check of              *)
(* StoredAsFound: a picture that cannot be read is taken for one without a *)
(* hash.                                                                   *)
Analysed_All(f) == f.is_jpg

Analysed(f) == f.is_jpg /\ GetHashCode(f) = 0

(* The frames main() has pushed after the first n files of a directory,    *)
(* one for each that could be analysed.                                    *)
FramesUpTo(files) ==
  LET pushed[n \in 0..Len(files)] ==
        IF n = 0 THEN << >>
        ELSE IF Analysed(files[n]) THEN Append(pushed[n - 1], Result(files[n]))
        ELSE pushed[n - 1]
  IN  pushed

FramesOf ==
  [d \in Dir \cup {NoDir} |->
     LET files == IF d = NoDir THEN << >> ELSE Files[d]
     IN  FramesUpTo(files)[Len(files)]]

UsageError(j) == j.req = "none" \/ (j.req = "add" /\ j.name = NoName)

MessageOf(j) ==
  IF j.tool = "other" THEN j.message
  ELSE IF j.req = "add" THEN Post("add", j.name, FramesOf[j.dir])
  ELSE Post("query_duplicate", NoName, FramesOf[j.dir])

message(r) == MessageOf(job[r])

Silent(j) == j.tool = "client" /\ (UsageError(j) \/ j.req = "other")

(* A run that ends without a word to the server: options that are missing, *)
(* a type that is neither add nor query, or a directory that cannot be     *)
(* read, when filelist is freed without ever having been set.              *)
StartSilent(r) ==
  /\ pc[r] = "start"
  /\ Silent(job[r]) \/ (job[r].tool = "client" /\ job[r].dir = NoDir)
  /\ pc' = [pc EXCEPT ![r] = "ended"]
  /\ UNCHANGED <<server, job, mail, letter, got, told_vars>>

StartRequest(r) ==
  /\ pc[r] = "start" /\ ~ Silent(job[r])
  /\ pc' = [pc EXCEPT ![r] = "waiting"]
  /\ mail' = [mail EXCEPT ![r] = "sent"]
  /\ promised' = [promised EXCEPT ![r] = sure]
  /\ UNCHANGED <<server, job, letter, got, disturbed, sure, kept>>

(* What people may conclude from a reply.  An add that finds its name      *)
(* taken was preceded by itself, as an earlier run or a late request, when *)
(* everyone who adds that name adds the same frames.                       *)
Undisputed(n, fs) ==
  \A r \in Run :
    ~ Silent(job[r]) /\ message(r).type = "add" /\ message(r).name = n =>
      message(r).frames = fs

Concludes(r) ==
  /\ message(r).type = "add" /\ letter[r].form = "json" /\ ~ disturbed[r]
  /\ \/ letter[r].code = 0
     \/ letter[r].code = -1 /\ letter[r].msg = ""
        /\ Undisputed(message(r).name, message(r).frames)

(* curl_easy_perform returns with the reply.                               *)
Arrive(r) ==
  /\ pc[r] = "waiting" /\ mail[r] = "back"
  /\ pc' = [pc EXCEPT ![r] = "ended"]
  /\ got' = [got EXCEPT ![r] = letter[r]]
  /\ mail' = [mail EXCEPT ![r] = "gone"]
  /\ letter' = [letter EXCEPT ![r] = NoReply]
  /\ sure' = IF Concludes(r) THEN sure \cup {<<message(r).name, message(r).frames>>} ELSE sure
  /\ kept' = IF Saves(message(r)) THEN kept \cup promised[r] ELSE kept
  /\ disturbed' = [disturbed EXCEPT ![r] = FALSE]
  /\ UNCHANGED <<server, job, promised>>

(* It returns with an error, which is not looked at, and the reply is "".  *)
(* The request or the reply may be what was lost; a request that was not   *)
(* lost may still reach the server.                                        *)
GiveUp(r) ==
  /\ pc[r] = "waiting"
  /\ pc' = [pc EXCEPT ![r] = "ended"]
  /\ \/ /\ mail[r] \in {"sent", "back", "gone"}
        /\ mail' = [mail EXCEPT ![r] = "gone"]
     \/ /\ mail[r] \in {"sent", "pool", "thread"}
        /\ UNCHANGED mail
  /\ letter' = [letter EXCEPT ![r] = NoReply]
  /\ disturbed' = [disturbed EXCEPT ![r] = FALSE]
  /\ promised' = [promised EXCEPT ![r] = {}]
  /\ UNCHANGED <<server, job, got, sure, kept>>

(* Nobody listens.                                                         *)
Refuse(r) ==
  /\ ~ up /\ mail[r] = "sent"
  /\ mail' = [mail EXCEPT ![r] = "gone"]
  /\ UNCHANGED <<server, job, pc, letter, got, told_vars>>

-----------------------------------------------------------------------------
(***************************************************************************)
(* The server                                                              *)
(***************************************************************************)
SendBack(r, reply) ==
  IF pc[r] = "waiting"
  THEN /\ letter' = [letter EXCEPT ![r] = reply]
       /\ mail' = [mail EXCEPT ![r] = "back"]
  ELSE /\ mail' = [mail EXCEPT ![r] = "gone"]
       /\ UNCHANGED letter

(* A deliberately wrong variant, for the sensitivity check of              *)
(* EveryRunEnds: what is neither GET nor POST gets no answer.              *)
Dispatch_NotHead(r) ==
  LET what == my_handler(message(r), FALSE) IN
  /\ up /\ mail[r] = "sent"
  /\ \/ /\ what = "switch"
        /\ mail' = [mail EXCEPT ![r] = "pool"]
        /\ UNCHANGED letter
     \/ /\ what \in {"/info", "text"} /\ message(r).method = "GET"
        /\ SendBack(r, Text(what))
  /\ UNCHANGED <<server, job, pc, got, told_vars>>

(* my_handler on the network thread.                                       *)
Dispatch(r) ==
  LET what == my_handler(message(r), FALSE) IN
  /\ up /\ mail[r] = "sent"
  /\ \/ /\ what = "switch"
        /\ mail' = [mail EXCEPT ![r] = "pool"]
        /\ UNCHANGED letter
     \/ /\ what \in {"/info", "text"}
        /\ SendBack(r, Text(what))
  /\ UNCHANGED <<server, job, pc, got, told_vars>>

(* A deliberately wrong variant, for the sensitivity check of TypeOK: the  *)
(* request stays in the queue.                                             *)
Take_Left(t) ==
  /\ serves[t] = NoRun
  /\ \E r \in Run :
       /\ mail[r] = "pool"
       /\ serves' = [serves EXCEPT ![t] = r]
  /\ UNCHANGED <<engine, up, saved, job, pc, mail, letter, got, told_vars>>

(* A pool thread takes up a request it was handed.                         *)
Take(t) ==
  /\ serves[t] = NoRun
  /\ \E r \in Run :
       /\ mail[r] = "pool"
       /\ mail' = [mail EXCEPT ![r] = "thread"]
       /\ serves' = [serves EXCEPT ![t] = r]
  /\ UNCHANGED <<engine, up, saved, job, pc, letter, got, told_vars>>

(* The call of the engine that a request makes.                            *)
Operation(m) ==
  IF m.method = "GET" THEN [op |-> "key", name |-> m.name, frames |-> << >>]
  ELSE IF m.type = "add" THEN [op |-> "add", name |-> m.name, frames |-> m.frames]
  ELSE [op |-> "query", name |-> NoName, frames |-> m.frames]

Does(t, what) == serves[t] # NoRun /\ my_handler(message(serves[t]), TRUE) = what

Answered(t, reply) ==
  /\ SendBack(serves[t], reply)
  /\ serves' = [serves EXCEPT ![t] = NoRun]

(* Process refuses what is malformed, unless a value of the document makes *)
(* it throw, and has the engine do the rest.                               *)
Thrown(t) == Does(t, "process") /\ Throws(message(serves[t]))

Bad(t) == Thrown(t) \/ (Does(t, "process") /\ Refusal(message(serves[t])) # "")

RefuseMalformed(t) ==
  /\ Bad(t) /\ ~ Thrown(t)
  /\ Answered(t, Refused(Refusal(message(serves[t]))))
  /\ UNCHANGED <<engine, up, saved, job, pc, got, told_vars>>

CallEngine(t) ==
  /\ Does(t, "key") \/ (Does(t, "process") /\ ~ Bad(t))
  /\ Engine!Call(t)
  /\ request'[t] = Operation(message(serves[t]))
  /\ UNCHANGED <<up, saved, serves, run_vars, told_vars>>

EngineStep(t) ==
  /\ Engine!Add(t) \/ Engine!Locate(t) \/ Engine!Match(t)
  /\ UNCHANGED <<up, saved, serves, run_vars, told_vars>>

ReplyFromEngine(t) ==
  LET r == serves[t] IN
  /\ Engine!Reply(t)
  /\ Answered(t, ReplyTo(message(r), answer[t].code, answer[t].matches))
  /\ UNCHANGED <<up, saved, job, pc, got, told_vars>>

(* SaveDB, whose effect on the db file is that of one instant.             *)
Save(t) ==
  /\ Does(t, "save")
  /\ saved' = store
  /\ Answered(t, Text("Done"))
  /\ UNCHANGED <<engine, up, job, pc, got, told_vars>>

(* The process is gone, with the requests it has taken in, that of r among *)
(* them, and all connections.  What was said of the store no longer holds, *)
(* unless it was saved.                                                    *)
ProcessEnds(r) ==
  /\ up' = FALSE
  /\ store' = << >>
  /\ phase' = [t \in Worker |-> "idle"]
  /\ request' = [t \in Worker |-> Engine!NoRequest]
  /\ answer' = [t \in Worker |-> Engine!NoAnswer]
  /\ serves' = [t \in Worker |-> NoRun]
  /\ mail' = [s \in Run |-> IF s = r \/ mail[s] \in {"pool", "thread"} THEN "gone" ELSE mail[s]]
  /\ disturbed' = [s \in Run |-> disturbed[s] \/ pc[s] = "waiting"]
  /\ sure' = kept
  /\ promised' = [s \in Run |-> promised[s] \cap kept]
  /\ UNCHANGED <<saved, job, pc, letter, got, kept>>

(* /exit, on the network thread.                                           *)
Exit(r) ==
  /\ up /\ mail[r] = "sent" /\ my_handler(message(r), FALSE) = "/exit"
  /\ ProcessEnds(r)

(* An exception that leaves my_handler on a pool thread ends the process,  *)
(* as nothing in the server's code catches it.                             *)
Throw(t) ==
  /\ Thrown(t)
  /\ ProcessEnds(serves[t])

(* A deliberately wrong variant, for the sensitivity check of              *)
(* FoundAfterAdd: the server starts with an empty database.                *)
Restart_Unloaded ==
  /\ ~ up
  /\ up' = TRUE
  /\ UNCHANGED <<engine, saved, serves, run_vars, told_vars>>

(* main(): Load, then serve.                                               *)
Restart ==
  /\ ~ up
  /\ up' = TRUE
  /\ store' = saved
  /\ UNCHANGED <<phase, request, answer, saved, serves, run_vars, told_vars>>

-----------------------------------------------------------------------------
PoolThread(t) ==
  \/ Take(t) \/ RefuseMalformed(t) \/ Throw(t)
  \/ CallEngine(t) \/ EngineStep(t) \/ ReplyFromEngine(t) \/ Save(t)

Next ==
  \/ \E r \in Run : \/ StartSilent(r) \/ StartRequest(r) \/ Arrive(r) \/ GiveUp(r)
                    \/ Refuse(r) \/ Dispatch(r) \/ Exit(r)
  \/ \E t \in Worker : PoolThread(t)
  \/ Restart

Spec == Init /\ [][Next]_vars

(* What becomes of a run that nobody has to do anything for.               *)
Returns(r) == Refuse(r) \/ Dispatch(r) \/ Exit(r) \/ Arrive(r) \/ (GiveUp(r) /\ mail[r] = "gone")

(* The threads of the server run, the network delivers or breaks a         *)
(* connection, and curl_easy_perform returns when either has happened;     *)
(* each of them only so often, so that it is enough that not all stop.     *)
(* Nobody has to run a tool, give up, or start the server again.           *)
FairSpec ==
  Spec /\ WF_vars((\E r \in Run : Returns(r)) \/ (\E t \in Worker : PoolThread(t)))

-----------------------------------------------------------------------------
(***************************************************************************)
(* Properties                                                              *)
(***************************************************************************)
Refusals == {"Parse failed", "No 'type' field", "Bad 'type' field", "No 'name' field",
             "No 'frames' field", "Key not found"}

Reply == [form : {"none", "text", "json", "plain"}, code : Int,
          msg : {"", "Done", "/info", "text"} \cup Refusals,
          list : SUBSET (Name \X (0..100))]

(* The type of the state.  What is not a matter of form: a request that a  *)
(* thread has taken up is with that thread and no other.                   *)
TypeOK ==
  /\ DOMAIN store \subseteq Name /\ \A n \in DOMAIN store : store[n] \in FrameList
  /\ DOMAIN saved \subseteq Name /\ \A n \in DOMAIN saved : saved[n] \in FrameList
  /\ up \in BOOLEAN
  /\ serves \in [Worker -> Run \cup {NoRun}]
  /\ job \in Jobs
  /\ pc \in [Run -> {"start", "waiting", "ended"}]
  /\ mail \in [Run -> {"none", "sent", "pool", "thread", "back", "gone"}]
  /\ letter \in [Run -> Reply] /\ got \in [Run -> Reply]
  /\ disturbed \in [Run -> BOOLEAN]
  /\ kept \subseteq sure /\ sure \subseteq Name \X FrameList
  /\ promised \in [Run -> SUBSET (Name \X FrameList)]
  /\ \A r \in Run : mail[r] = "thread" => \E t \in Worker : serves[t] = r
  /\ \A t, u \in Worker : serves[t] = serves[u] /\ serves[t] # NoRun =>
                             t = u /\ mail[serves[t]] = "thread"

(* What users may conclude is true: a video whose add was answered with 0, *)
(* or with -1 where everyone who adds the name adds these frames, is       *)
(* stored with them until the server ends, and one that was so before a   *)
(* /save that was answered is in the db file for good - whatever requests  *)
(* and replies were lost or late, and however often the client was run     *)
(* again because of it.                                                    *)
SureStored ==
  /\ up => \A a \in sure : a[1] \in DOMAIN store /\ store[a[1]] = a[2]
  /\ \A a \in kept : a[1] \in DOMAIN saved /\ saved[a[1]] = a[2]

(* A query for the frames of a video that its user could be sure of when   *)
(* the query was sent lists that video, and so does a query by its key;    *)
(* over ends of the server too, for a video that was saved.  Except that   *)
(* a video is never found if none of its frames has a hash.                *)
FoundAfterAdd ==
  \A r \in Run : \A a \in promised[r] :
    /\ got[r].form \in {"json", "plain"} /\ UniqueFrames(a[2]) # {}
    /\ \/ message(r).type = "query_duplicate" /\ message(r).frames = a[2]
       \/ message(r).method = "GET" /\ TakesKey(message(r)) /\ message(r).name = a[1]
    => a[1] \in {x[1] : x \in got[r].list}

(* A stored video is what somebody's directory holds: a frame for every    *)
(* picture that can be read, in alphabetical order, none for the others,   *)
(* and at least one - unless another tool sent just these frames.          *)
Readable(files, i) == {j \in 1..i : files[j].is_jpg /\ files[j].loads}

ListsFiles(fs, files) ==
  /\ fs # << >>
  /\ Len(fs) = Cardinality(Readable(files, Len(files)))
  /\ \A i \in Readable(files, Len(files)) :
       fs[Cardinality(Readable(files, i))] = IF Useless(files[i]) THEN 0 ELSE files[i].print

Listings == [d \in Dir |-> {fs \in FrameList : ListsFiles(fs, Files[d])}]

StoredAsFound ==
  \A n \in DOMAIN store : \E r \in Run :
    /\ mail[r] # "none" /\ message(r).type = "add" /\ message(r).name = n
    /\ IF job[r].tool = "client"
       THEN job[r].dir # NoDir /\ store[n] \in Listings[job[r].dir]
       ELSE message(r).frames = store[n]

(* The part of a picture that is kept lies in the picture, although y2 and *)
(* x2 start one beyond the last line and columns are measured with the     *)
(* number of pixels of a row.                                              *)
Within(s, size) == 0 <= s.from /\ s.from <= s.to /\ s.to < size

Cropped ==
  [d \in Dir |-> {[c |-> crop_border(p), width |-> p.width, height |-> p.height] :
                     p \in {f \in Range(Files[d]) : f.is_jpg /\ f.loads /\ ~ Useless(f)}}]

CropInside ==
  \A r \in Run : pc[r] # "start" /\ job[r].dir # NoDir =>
    \A p \in Cropped[job[r].dir] :
      Within(p.c.x, p.width) /\ Within(p.c.y, p.height)

(* A run that has sent a request ends, although it has no timeout and the  *)
(* server may exit with its request in a queue, or die of another's.       *)
EveryRunEnds == \A r \in Run : pc[r] = "waiting" ~> pc[r] = "ended"
=============================================================================
