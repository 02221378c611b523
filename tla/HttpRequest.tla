---------------------------- MODULE HttpRequest -----------------------------
(***************************************************************************)
(* How a connection of the browse server reads a request: the function     *)
(* HttpConnection::try_parse_request (browse_server/http_server.cpp).      *)
(*                                                                         *)
(* What a peer sends is a sequence of units.  A unit stands for the bytes  *)
(* the function searches for: the method at the start of a request line,   *)
(* the " HTTP/1." that ends its path, a whole Content-Length line or other *)
(* header line, the empty line, and a byte of a body.  A unit may come in  *)
(* a read of its own or with others; that it never comes in two parts is   *)
(* the abstraction.                                                        *)
(***************************************************************************)
EXTENDS Integers, Sequences, FiniteSets

CONSTANTS
  MAX_HEADER,  \* units after which a header without an end is given up (4096)
  BUFFER,      \* units per read (8192)
  MAX_LENGTH,  \* the largest Content-Length of 16 characters
  UINT,        \* the values of postsize_, an unsigned int (2^32)
  Path,        \* the paths that occur
  Id           \* the numbers of a peer's requests, in the order it sends them

ASSUME RequestAssumption ==
  /\ MAX_HEADER \in Nat
  /\ BUFFER \in Nat \ {0}
  /\ MAX_LENGTH \in Nat
  /\ UINT \in Nat \ {0}
  /\ Id \subseteq Nat \ {0}

(* id numbers the requests of a peer; path is that of the request, and n   *)
(* the number in a Content-Length line.                                    *)
Unit == [kind : {"GET", "POST", "PUT", "version", "length", "line",
                  "end", "byte"},
         id : Id, path : Path, n : Int]

-----------------------------------------------------------------------------
(* request_.find: the place of the first unit of a kind.                   *)
Has(r, kind)   == \E i \in 1..Len(r) : r[i].kind = kind
First(r, kind) == CHOOSE i \in 1..Len(r) :
                    /\ r[i].kind = kind
                    /\ \A j \in 1..(i - 1) : r[j].kind # kind

HeaderEnds(r) == Has(r, "end")

(* A deliberately wrong variant, for the sensitivity check of BodyExact:   *)
(* the part of the body that came with the header is dropped.              *)
Body_Late(r) == << >>

(* request_.substr(spos + 4), which goes to post_.                         *)
Body(r) == SubSeq(r, First(r, "end") + 1, Len(r))

(* The number in the Content-Length line.  It is searched for in all that  *)
(* has been read, so a body can supply the line its header lacks.          *)
Declared(r) == r[First(r, "length")].n

(* atoi of at most 16 characters, converted to unsigned int.               *)
PostSize(r) == Declared(r) % UINT

IsGet(r)  == /\ r[1].kind = "GET" /\ Has(r, "version")
IsPost(r) == /\ r[1].kind = "POST" /\ Has(r, "version")
             /\ Has(r, "length") /\ Declared(r) <= MAX_LENGTH

(* What try_parse_request makes of a header: -1 for a request it refuses,  *)
(* 1 for one that is not all there yet, 0 for one that is.                 *)
ParseHeader(r) ==
  IF HeaderEnds(r)
  THEN IF IsGet(r) THEN 0
       ELSE IF ~ IsPost(r) THEN -1
       ELSE IF Len(Body(r)) < PostSize(r) THEN 1 ELSE 0
  ELSE IF Len(r) > MAX_HEADER THEN -1 ELSE 1

(* Whether the next read goes on with the body of a POST.                  *)
EntersPost(r) == HeaderEnds(r) /\ IsPost(r)
=============================================================================
