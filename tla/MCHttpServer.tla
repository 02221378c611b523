---------------------------- MODULE MCHttpServer ----------------------------
(***************************************************************************)
(* A small instance of HttpServer: three connections and two pool threads. *)
(***************************************************************************)
EXTENDS HttpServer, TLC

CONSTANTS c1, c2, c3

U(kind, id, path, n) == [kind |-> kind, id |-> id, path |-> path, n |-> n]

Get(id, path) == <<U("GET", id, path, 0), U("version", id, path, 0), U("end", id, path, 0)>>

Post(id, path, n, bytes) ==
  <<U("POST", id, path, 0), U("version", id, path, 0), U("length", id, path, n),
    U("end", id, path, 0)>> \o [i \in 1..bytes |-> U("byte", id, path, 0)]

NoVersion == <<U("GET", 1, "page", 0), U("end", 1, "page", 0)>>
Put       == <<U("PUT", 1, "page", 0), U("version", 1, "page", 0), U("end", 1, "page", 0)>>
NoLength  == <<U("POST", 1, "page", 0), U("version", 1, "page", 0), U("end", 1, "page", 0)>>
Endless   == <<U("GET", 1, "page", 0)>> \o [i \in 1..5 |-> U("line", 1, "page", 0)]

(* "heavy" is served by a handler as in main.cpp 289-290, "stubborn" by    *)
(* one that always asks to switch, "wrong" by one that returns no code.    *)
MCPath == {"page", "heavy", "stubborn", "wrong"}

MCHandler ==
  [a \in MCPath \X BOOLEAN |->
     CASE a[1] = "page"     -> {0, 1}
       [] a[1] = "heavy"    -> IF a[2] THEN {0} ELSE {HTTP_SWITCH_THREAD}
       [] a[1] = "stubborn" -> {HTTP_SWITCH_THREAD}
       [] a[1] = "wrong"    -> {-1, HTTP_END}]

Peers(a, b, c) == c1 :> a @@ c2 :> b @@ c3 :> c

(* Bodies in pieces and a second request behind a first; three connections *)
(* for two threads; lengths that postsize_ does not hold or that do not    *)
(* come; requests that are refused.                                        *)
MCStreams ==
  { Peers(Post(1, "heavy", 2, 2) \o Get(2, "heavy"), Get(1, "stubborn"), << >>),
    Peers(Get(1, "heavy") \o Get(2, "heavy"), Get(1, "heavy"), << >>),
    Peers(Get(1, "heavy"), Get(1, "heavy"), Get(1, "heavy")),
    Peers(Post(1, "page", 5, 2), Post(1, "page", -1, 2), Post(1, "page", 10, 1)),
    Peers(Get(1, "wrong"), Put, NoVersion),
    Peers(Endless, NoLength, << >>) }
=============================================================================
