---------------------------- MODULE MCVideoMatch ----------------------------
(***************************************************************************)
(* A small instance of VideoMatch: four runs, two pool threads, two names. *)
(***************************************************************************)
EXTENDS VideoMatch, TLC

CONSTANTS n1, n2, r1, r2, r3, r4, D12, D20, D0, DX, D00

MCFrameList == {<<1, 2>>, <<2, 0>>, <<0>>, << >>}

MCScore ==
  [p \in MCFrameList \X MCFrameList |->
     IF p[1] = p[2] THEN (IF p[1] = << >> THEN 0 ELSE 100) ELSE 50]

(* Pictures, with borders of even lines at top, bottom, left and right.    *)
Even(v) == [avg |-> v, var |-> 0]
Mixed   == [avg |-> 120, var |-> 900]

Picture(w, h, top, bottom, left, right, print) ==
  [is_jpg |-> TRUE, loads |-> TRUE, spectrum |-> 3, width |-> w, height |-> h,
   rows |-> [y \in 0..(h - 1) |-> IF y < top \/ y >= h - bottom THEN Even(16) ELSE Mixed],
   columns |-> [x \in 0..(w - 1) |-> IF x < left \/ x >= w - right THEN Even(16) ELSE Mixed],
   print |-> print]

Square   == Picture(40, 40, 0, 0, 0, 0, 1)
Framed   == Picture(64, 40, 3, 2, 9, 12, 2)
Narrow   == [Picture(33, 40, 0, 1, 0, 0, 2) EXCEPT !.columns = [x \in 0..32 |-> Even(235)]]
Blank    == Picture(41, 40, 40, 40, 41, 41, 3)
Small    == Picture(1, 31, 0, 0, 0, 0, 3)
FourInks == [Square EXCEPT !.spectrum = 4]
Broken   == [Square EXCEPT !.loads = FALSE]
Notes    == [Square EXCEPT !.is_jpg = FALSE]

MCFiles ==
  D12 :> <<Notes, Square, Broken, Framed>> @@ D20 :> <<Narrow, Blank>> @@
  D0 :> <<FourInks>> @@ DX :> <<Broken, Notes>> @@ D00 :> <<Small>>

Add(n, d)   == [tool |-> "client", req |-> "add", name |-> n, dir |-> d, message |-> NoMessage]
Query(d)    == [tool |-> "client", req |-> "query", name |-> NoName, dir |-> d, message |-> NoMessage]
Client(req) == [tool |-> "client", req |-> req, name |-> NoName, dir |-> D12, message |-> NoMessage]
Other(m)    == [tool |-> "other", req |-> "none", name |-> NoName, dir |-> NoDir, message |-> m]

(* A post of a tool that is not the client. *)
AddPost == Post("add", n2, <<2, 0>>)

NoIntegers == [AddPost EXCEPT !.integers = FALSE]
NoObject   == [AddPost EXCEPT !.json = "other", !.type = "none"]

Four(a, b, c, d) == r1 :> a @@ r2 :> b @@ r3 :> c @@ r4 :> d

None == Client("none")

(* An add that is tried again, and a query; what is saved, what is not, and *)
(* an exit; a name that two directories are added under; videos without a  *)
(* hash; requests that are refused, end the server or need no pool.        *)
MCJobs ==
  { Four(Add(n1, D12), Add(n1, D12), Query(D12), None),
    Four(Add(n1, D12), Query(D12), Other(Get("/save", NoName)), Other(Get("/exit", NoName))),
    Four(Add(n1, D12), Add(n1, D20), Other(Get("/querykey/", n1)), None),
    Four(Add(n1, D0), Query(D0), Other(Get("/querykeyplain/", n1)), None),
    Four(Add(n1, DX), Add(n1, NoDir), Add(n1, D00), None),
    Four(Client("add"), Query(NoDir), Client("other"), Other(Get("/info", NoName))),
    Four(Other([AddPost EXCEPT !.json = "no", !.type = "none"]),
         Other([AddPost EXCEPT !.type = "none"]), Other([AddPost EXCEPT !.type = "other"]), None),
    Four(Add(n1, D12), Other(Get("/save", NoName)), Other(NoIntegers), None),
    Four(Other(NoObject), Other([NoIntegers EXCEPT !.name = NoName]), Other(AddPost), None),
    Four(Other([AddPost EXCEPT !.name = NoName]), Other(Post("add", n2, << >>)),
         Other(AddPost), None),
    Four(Other([NoMessage EXCEPT !.method = "HEAD"]), Other(Get("/querykey/", NoName)), None, None) }
=============================================================================
