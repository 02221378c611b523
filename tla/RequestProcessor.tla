-------------------------- MODULE RequestProcessor --------------------------
(***************************************************************************)
(* What the match server makes of an HTTP request: my_handler              *)
(* (server/main.cpp), which decides what is done and on which thread, and  *)
(* RequestProcessor (server/RequestProcessor.cpp), which checks a JSON     *)
(* request, calls the match engine and forms the reply.                    *)
(***************************************************************************)
EXTENDS VideoIndex

CONSTANTS NoName

(* A request: method and path, the key behind a path that takes one, and   *)
(* of a POST what its JSON document, if it is one, is found to have.  A    *)
(* document is an "object", as null is here, or another value.  frames is  *)
(* << >> both for an empty array and for none, which has_frames tells      *)
(* apart.  integers says that asUInt64 takes every element of it; it is    *)
(* not so of a string, say, or of a number below zero.                     *)
Document ==
  [method : {"GET", "POST", "HEAD"},
   path : {"/", "/info", "/save", "/exit", "/querykey/", "/querykeyplain/"},
   json : {"no", "object", "other"}, type : {"none", "add", "query_duplicate", "other"},
   name : Name \cup {NoName}, has_frames : BOOLEAN, frames : FrameList \cup {<< >>},
   integers : BOOLEAN]

Message ==
  {m \in Document : /\ m.json # "no" => m.method = "POST"
                    /\ m.type # "none" => m.json = "object"
                    /\ m.frames # << >> \/ ~ m.integers => m.has_frames}

Get(path, name) ==
  [method |-> "GET", path |-> path, json |-> "no", type |-> "none",
   name |-> name, has_frames |-> FALSE, frames |-> << >>, integers |-> TRUE]

(* Requester::Add and Query: v["frames"] is there once it has an element.  *)
Post(type, name, frames) ==
  [method |-> "POST", path |-> "/", json |-> "object", type |-> type,
   name |-> name, has_frames |-> frames # << >>, frames |-> frames, integers |-> TRUE]

-----------------------------------------------------------------------------
(* The two paths with a key need one character of it (prefixeq).           *)
TakesKey(m) == m.path \in {"/querykey/", "/querykeyplain/"} /\ m.name # NoName

Saves(m) == m.method = "GET" /\ m.path = "/save"

(* "all requests about match engine should be processed in thread pool"    *)
NeedsPool(m) ==
  \/ Saves(m)
  \/ m.method = "GET" /\ TakesKey(m)
  \/ m.method = "POST"

(* What my_handler does with a request, on a pool thread or the network    *)
(* thread.                                                                 *)
my_handler(m, in_threadpool) ==
  IF NeedsPool(m) /\ ~ in_threadpool THEN "switch"
  ELSE IF m.method = "POST" THEN "process"
  ELSE IF Saves(m) THEN "save"
  ELSE IF NeedsPool(m) THEN "key"
  ELSE IF m.method = "GET" /\ m.path \in {"/info", "/exit"} THEN m.path
  ELSE "text"

(* The message Process refuses a request with, "" if it does not.          *)
Refusal(m) ==
  IF m.json = "no" THEN "Parse failed"
  ELSE IF m.type = "none" THEN "No 'type' field"
  ELSE IF m.type = "other" THEN "Bad 'type' field"
  ELSE IF m.type = "add" /\ m.name = NoName THEN "No 'name' field"
  ELSE IF ~ m.has_frames THEN "No 'frames' field"
  ELSE ""

(* jsoncpp throws where a member is looked for in what is no object, and   *)
(* where asUInt64 cannot convert a value; Process does not catch it.       *)
Throws(m) == m.json = "other" \/ (Refusal(m) = "" /\ ~ m.integers)

-----------------------------------------------------------------------------
(* A reply's code, msg and result; list is that of a plain reply too.      *)
Form(form, code, msg, list) ==
  [form |-> form, code |-> code, msg |-> msg, list |-> list]

Text(s)    == Form("text", 0, s, {})
Refused(s) == Form("json", -1, s, {})

(* A deliberately wrong variant, for the sensitivity check of SureStored:  *)
(* the code Add returns is dropped.                                        *)
ReplyTo_Zero(m, code, list) ==
  Form("json", IF code < 0 THEN 0 ELSE code, "", list)

(* The reply made of what the engine returned.  Only a key that is not     *)
(* found gets a message with its -1; a plain reply has no code at all.     *)
ReplyTo(m, code, list) ==
  IF m.method = "GET" /\ m.path = "/querykeyplain/" THEN Form("plain", 0, "", list)
  ELSE IF m.method = "GET" /\ m.path = "/querykey/" /\ code = -1 THEN Refused("Key not found")
  ELSE Form("json", code, "", list)
=============================================================================
