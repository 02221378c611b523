------------------------- MODULE VideoDBStoreProofs -------------------------
(***************************************************************************)
(* Proofs that the index of VideoDB is exact whenever mutex_ is free, that *)
(* queries by key find their own video first, that /info fits together,    *)
(* and that VideoDB implements MatchStore, for any number of pool threads. *)
(* All of them rest on the invariants of VideoDBProofs and VideoDBAddProofs *)
(* and on one more, which says what the index lists at every step.         *)
(***************************************************************************)
EXTENDS VideoDBAddProofs

-----------------------------------------------------------------------------
(***************************************************************************)
(* The inductive invariant                                                 *)
(***************************************************************************)

(* The index lists the video n under the hash k.                           *)
Lists(table, k, n) == \E s \in DOMAIN table : <<k, n>> \in Range(table[s])

(* Every pair is in the block of its hash, and there once.                 *)
Shape(table) ==
  \A s \in DOMAIN table :
    /\ IsInjective(table[s])
    /\ \A p \in Range(table[s]) : key_shorten(p[1]) = s

(* The video n has not come to add_frames_to_index yet.                    *)
Waits(n) ==
  \/ n \in left[IoThread]
  \/ \E t \in Thread : pc[t] = "index" /\ req[t].name = n

(* The hash k of the video n is still to be pushed.                        *)
Unlisted(k, n) ==
  \/ Waits(n)
  \/ \E t \in Thread : pc[t] = "push" /\ req[t].name = n /\ k \in todo[t]

(* The index lists what it should, but for what some thread is pushing.    *)
ListsInv ==
  \A n \in Name, k \in Frame :
    Lists(table_, k, n) <=> n \in db_ /\ k \in UniqueFrames(frames_[n]) /\ ~ Unlisted(k, n)

UniqInv ==
  \A n \in db_ : ~ Waits(n) => uniq_frm_cnt[n] = Cardinality(UniqueFrames(frames_[n]))

(* What a thread pushes, and what is left for Load to index.               *)
PushInv ==
  /\ \A t \in Thread :
       /\ pc[t] = "push" => todo[t] \subseteq UniqueFrames(frames_[req[t].name])
       /\ pc[t] \in {"index", "push"} => req[t].name \notin left[IoThread]
  /\ left[IoThread] # {} => pc[IoThread] \in {"load_next", "index", "push"}

IndexInv == Shape(table_) /\ ListsInv /\ UniqInv /\ PushInv

(* What the network thread has counted for /info stays true.               *)
Counted == UNION {{n} \X UniqueFrames(frames_[n]) : n \in info.counted}
CountedSlots == {key_shorten(p[2]) : p \in Counted}

InfoInv ==
  LET at == pc[IoThread] IN
  /\ at \in {"frames_count", "table_size", "done"} =>
       info.video_count = Cardinality(info.counted) /\ info.counted \subseteq db_
  /\ at \in {"table_size", "done"} =>
       info.frames_count >= Cardinality(Counted) /\ CountedSlots \subseteq DOMAIN table_
  /\ at = "done" => info.frame_table_size >= Cardinality(CountedSlots)

(* Which requests a pool thread serves where.                              *)
OpOK(t) ==
  /\ pc[t] = "idle" => req[t] = NoReq
  /\ pc[t] = "lookup" => req[t].op = "key"
  /\ pc[t] \in {"candidates", "check"} => req[t].op \in {"key", "query"}
  /\ pc[t] \in {"save", "save_next", "save_item"} => req[t].op = "save"
  /\ pc[t] \notin {"check", "done"} => result[t] = {}
  /\ pc[t] \in {"idle", "add", "insert", "lookup", "candidates"} => reply[t] = NoReply
  /\ req[t].op = "save" => reply[t] = NoReply

OpInv == \A t \in Worker : OpOK(t)

(* The video a query by key is about, and its match with itself, once its  *)
(* score is known.                                                         *)
SelfMatch(t) == <<req[t].name, 100>>

SelfListed(t) ==
  \E i \in DOMAIN reply[t].list :
    /\ reply[t].list[i][1] = req[t].name
    /\ \A j \in 1..(i - 1) : reply[t].list[j][2] = reply[t].list[i][2]

SelfOK(t) ==
  req[t].op = "key" =>
    /\ pc[t] \in {"candidates", "check"} =>
         req[t].name \in db_ /\ req[t].frames = frames_[req[t].name]
    /\ pc[t] = "check" /\ UniqueFrames(req[t].frames) # {} =>
         req[t].name \in held[t] \/ SelfMatch(t) \in result[t]
    /\ pc[t] = "done" /\ reply[t].code >= 0 /\ UniqueFrames(req[t].frames) # {} =>
         SelfListed(t)

SelfInv == \A t \in Worker : SelfOK(t)

-----------------------------------------------------------------------------
(***************************************************************************)
(* Facts about the index                                                   *)
(***************************************************************************)

(* A push lists one pair more.                                             *)
LEMMA PushPairLists ==
  ASSUME NEW table, Index(table), Shape(table), NEW k \in Frame, NEW n \in Name,
         ~ Lists(table, k, n)
  PROVE  /\ Shape(PushPair(table, k, n))
         /\ \A j, m : Lists(PushPair(table, k, n), j, m) <=>
                        Lists(table, j, m) \/ (j = k /\ m = n)
<1> DEFINE T == PushPair(table, k, n)
           c == key_shorten(k)
           B == Block(table, c)
<1>1. B \in Seq(Frame \X Name) /\ c \in Slot
  BY DEF Block, Index, KeyBlock, Slot
<1>2. DOMAIN T = DOMAIN table \cup {c}
  BY DEF PushPair
<1>3. T[c] = Append(B, <<k, n>>)
  BY DEF PushPair
<1>4. \A s \in DOMAIN T : s # c => s \in DOMAIN table /\ T[s] = table[s]
  BY <1>2 DEF PushPair
<1>5. /\ DOMAIN T[c] = 1..(Len(B) + 1) /\ DOMAIN B = 1..Len(B) /\ Len(B) \in Nat
      /\ \A i \in 1..Len(B) : T[c][i] = B[i]
      /\ T[c][Len(B) + 1] = <<k, n>>
  BY <1>1, <1>3
<1>6. \A p : p \in Range(T[c]) <=> p \in Range(B) \/ p = <<k, n>>
  <2>1. ASSUME NEW p, p \in Range(B) PROVE p \in Range(T[c])
    <3>1. PICK i \in 1..Len(B) : B[i] = p
      BY <1>5, <2>1 DEF Range
    <3> QED
      BY <1>5, <3>1 DEF Range
  <2>2. <<k, n>> \in Range(T[c])
    BY <1>5 DEF Range
  <2>3. ASSUME NEW p, p \in Range(T[c]), p # <<k, n>> PROVE p \in Range(B)
    <3>1. PICK i \in 1..(Len(B) + 1) : T[c][i] = p
      BY <1>5, <2>3 DEF Range
    <3>2. i # Len(B) + 1
      BY <1>5, <2>3, <3>1
    <3>3. i \in 1..Len(B)
      BY <1>5, <3>2
    <3> QED
      BY <1>5, <3>1, <3>3 DEF Range
  <2> QED
    BY <2>1, <2>2, <2>3
<1>7. \A p \in Range(B) : c \in DOMAIN table /\ p \in Range(table[c])
  BY DEF Block, Range
<1>8. c \in DOMAIN table => B = table[c]
  BY DEF Block
<1>9. <<k, n>> \notin Range(B)
  BY <1>7 DEF Lists
<1>10. ASSUME NEW j, NEW m PROVE Lists(T, j, m) <=> Lists(table, j, m) \/ (j = k /\ m = n)
  <2>1. ASSUME Lists(T, j, m) PROVE Lists(table, j, m) \/ (j = k /\ m = n)
    <3>1. PICK s \in DOMAIN T : <<j, m>> \in Range(T[s])
      BY <2>1 DEF Lists
    <3>2. CASE s = c
      BY <1>6, <1>7, <3>1, <3>2 DEF Lists
    <3>3. CASE s # c
      BY <1>4, <3>1, <3>3 DEF Lists
    <3> QED
      BY <3>2, <3>3
  <2>2. ASSUME Lists(table, j, m) PROVE Lists(T, j, m)
    <3>1. PICK s \in DOMAIN table : <<j, m>> \in Range(table[s])
      BY <2>2 DEF Lists
    <3>2. CASE s = c
      BY <1>2, <1>6, <1>8, <3>1, <3>2 DEF Lists
    <3>3. CASE s # c
      BY <1>2, <1>4, <3>1, <3>3 DEF Lists
    <3> QED
      BY <3>2, <3>3
  <2>3. Lists(T, k, n)
    BY <1>2, <1>6 DEF Lists
  <2> QED
    BY <2>1, <2>2, <2>3
<1>11. ASSUME NEW s \in DOMAIN T
       PROVE  IsInjective(T[s]) /\ \A p \in Range(T[s]) : key_shorten(p[1]) = s
  <2>1. CASE s # c
    BY <1>4, <2>1 DEF Shape
  <2>2. CASE s = c
    <3>1. IsInjective(B)
      <4>1. CASE c \in DOMAIN table
        BY <1>8, <4>1 DEF Shape
      <4>2. CASE c \notin DOMAIN table
        BY <4>2 DEF Block, IsInjective
      <4> QED
        BY <4>1, <4>2
    <3>2. IsInjective(T[c])
      <4> SUFFICES ASSUME NEW i \in 1..(Len(B) + 1), NEW j \in 1..(Len(B) + 1), T[c][i] = T[c][j]
                   PROVE  i = j
        BY <1>5 DEF IsInjective
      <4>1. CASE i \in 1..Len(B) /\ j \in 1..Len(B)
        <5>1. B[i] = B[j]
          BY <1>5, <4>1
        <5> QED
          BY <1>5, <3>1, <4>1, <5>1 DEF IsInjective
      <4>2. CASE i = Len(B) + 1 /\ j \in 1..Len(B)
        BY <1>5, <1>9, <4>2 DEF Range
      <4>3. CASE j = Len(B) + 1 /\ i \in 1..Len(B)
        BY <1>5, <1>9, <4>3 DEF Range
      <4> QED
        BY <1>5, <4>1, <4>2, <4>3
    <3>3. \A p \in Range(B) : key_shorten(p[1]) = c
      BY <1>7 DEF Shape
    <3> QED
      BY <1>6, <2>2, <3>2, <3>3
  <2> QED
    BY <2>1, <2>2
<1> QED
  BY <1>10, <1>11 DEF Shape

(* The block of a hash is the place to look for it.                        *)
LEMMA BlockLists ==
  ASSUME NEW table, Shape(table), NEW k \in Frame, NEW n \in Name
  PROVE  n \in VideosWith(table, k) <=> Lists(table, k, n)
<1> DEFINE c == key_shorten(k)
<1>1. ASSUME n \in VideosWith(table, k) PROVE Lists(table, k, n)
  <2>1. <<k, n>> \in Range(Block(table, c))
    BY <1>1 DEF VideosWith
  <2>2. c \in DOMAIN table
    BY <2>1 DEF Block, Range
  <2> QED
    BY <2>1, <2>2 DEF Block, Lists
<1>2. ASSUME Lists(table, k, n) PROVE n \in VideosWith(table, k)
  <2>1. PICK s \in DOMAIN table : <<k, n>> \in Range(table[s])
    BY <1>2 DEF Lists
  <2>2. key_shorten(<<k, n>>[1]) = s
    BY <2>1 DEF Shape
  <2>3. s = c
    BY <2>2
  <2> QED
    BY <2>1, <2>3 DEF VideosWith, Block
<1> QED
  BY <1>1, <1>2

-----------------------------------------------------------------------------
(***************************************************************************)
(* The invariant of the index                                              *)
(***************************************************************************)

LEMMA IndexInit == Init => IndexInv
<1> SUFFICES ASSUME Init PROVE IndexInv
  OBVIOUS
<1>1. \A t \in Thread : pc[t] \notin {"index", "push"} /\ left[t] = {}
  BY DEF Init
<1>2. table_ = << >> /\ db_ = {}
  BY DEF Init
<1> QED
  BY <1>1, <1>2 DEF IndexInv, Shape, ListsInv, Lists, UniqInv, PushInv, Thread

(* A step of a thread that is not indexing changes nothing for the index.  *)
LEMMA IndexFrame ==
  ASSUME IndexInv, NEW t \in Thread,
         db_' = db_ /\ frames_' = frames_ /\ uniq_frm_cnt' = uniq_frm_cnt /\ table_' = table_,
         todo' = todo, left'[IoThread] = left[IoThread],
         \A u \in Thread : u # t => pc'[u] = pc[u] /\ req'[u] = req[u],
         pc[t] \notin {"index", "push"}, pc'[t] \notin {"index", "push"},
         t = IoThread => pc[t] # "load_next" \/ left[t] = {}
  PROVE  IndexInv'
<1>1. \A u \in Thread : pc'[u] \in {"index", "push"} \/ pc[u] \in {"index", "push"} =>
        u # t /\ pc'[u] = pc[u] /\ req'[u] = req[u]
  OBVIOUS
<1>2. \A n : Waits(n)' <=> Waits(n)
  BY <1>1 DEF Waits
<1>3. \A k, n : Unlisted(k, n)' <=> Unlisted(k, n)
  BY <1>1, <1>2 DEF Unlisted
<1>4. Shape(table_)'
  BY DEF IndexInv, Shape
<1>5. ListsInv'
  BY <1>3 DEF IndexInv, ListsInv, Lists
<1>6. UniqInv'
  BY <1>2 DEF IndexInv, UniqInv
<1>7. PushInv'
  BY <1>1 DEF IndexInv, PushInv, Thread
<1> QED
  BY <1>4, <1>5, <1>6, <1>7 DEF IndexInv

LEMMA IndexStep == IInv /\ IndexInv /\ [Next]_vars => IndexInv'
<1> SUFFICES ASSUME IInv, IndexInv, [Next]_vars PROVE IndexInv'
  OBVIOUS
<1> USE DEF Goto, MutexFree, Lock, Unlock, Serving
<1>0. /\ TypeOK /\ RequestInv /\ LoadInv /\ StoreInv /\ MutexInv
      /\ IoThread \notin Worker /\ IoThread \in Thread
  BY ThreadAssumption DEF IInv, Thread
(* mutex_ has one holder.                                                  *)
<1>a. \A t, u \in Thread : pc[t] \in LockedPc /\ pc[u] \in LockedPc => t = u
  BY <1>0 DEF MutexInv
<1>1. ASSUME NEW t \in Thread, IndexBegin(t) PROVE IndexInv'
  <2> DEFINE n == req[t].name
             U == UniqueFrames(frames_[n])
  <2>1. n \in Name /\ n \in db_ /\ pc[t] = "index" /\ U \in SUBSET Frame
    <3>1. n \in db_ /\ n \in Name /\ pc[t] = "index"
      BY <1>0, <1>1 DEF IndexBegin, RequestInv, TypeOK
    <3>2. frames_[n] \in FrameList \cup {<< >>}
      BY <1>0, <3>1 DEF TypeOK
    <3> QED
      BY <3>1, <3>2, UniqueFramesType
  <2>2. /\ db_' = db_ /\ frames_' = frames_ /\ table_' = table_ /\ req' = req /\ left' = left
        /\ pc'[t] = "push" /\ \A u \in Thread : u # t => pc'[u] = pc[u]
        /\ todo'[t] = U /\ \A u \in Thread : u # t => todo'[u] = todo[u]
        /\ uniq_frm_cnt'[n] = Cardinality(U)
        /\ \A m \in Name : m # n => uniq_frm_cnt'[m] = uniq_frm_cnt[m]
    BY <1>0, <1>1, <2>1 DEF IndexBegin, TypeOK
  <2>3. \A u \in Thread : u # t => pc[u] \notin LockedPc
    BY <1>a, <2>1 DEF LockedPc
  <2>4. \A m : Waits(m) <=> m \in left[IoThread] \/ m = n
    BY <2>1, <2>3 DEF Waits, LockedPc
  <2>5. \A m : Waits(m)' <=> m \in left[IoThread]
    BY <2>2, <2>3 DEF Waits, LockedPc
  <2>6. n \notin left[IoThread]
    BY <2>1 DEF IndexInv, PushInv
  <2>7. \A k, m : Unlisted(k, m)' <=> m \in left[IoThread] \/ (m = n /\ k \in U)
    BY <2>2, <2>3, <2>5 DEF Unlisted, LockedPc
  <2>8. \A k, m : Unlisted(k, m) <=> m \in left[IoThread] \/ m = n
    BY <2>1, <2>3, <2>4 DEF Unlisted, LockedPc
  <2>9. ListsInv'
    BY <2>1, <2>2, <2>7, <2>8 DEF IndexInv, ListsInv, Lists
  <2>10. UniqInv'
    BY <1>0, <2>2, <2>4, <2>5 DEF IndexInv, UniqInv, TypeOK
  <2>11. Shape(table_)'
    BY <2>2 DEF IndexInv, Shape
  <2>12. PushInv'
    <3>1. t = IoThread \/ left[IoThread] = {}
      BY <2>3, <1>0 DEF IndexInv, PushInv, LockedPc
    <3> QED
      BY <2>1, <2>2, <2>3, <2>6, <3>1 DEF IndexInv, PushInv, LockedPc
  <2> QED
    BY <2>9, <2>10, <2>11, <2>12 DEF IndexInv
<1>2. ASSUME NEW t \in Thread, IndexPush(t) PROVE IndexInv'
  <2> DEFINE n == req[t].name
  <2>1. PICK k \in todo[t] : /\ table_' = PushPair(table_, k, n)
                             /\ todo' = [todo EXCEPT ![t] = @ \ {k}]
    BY <1>2 DEF IndexPush
  <2>2. n \in Name /\ n \in db_ /\ pc[t] = "push" /\ k \in Frame
    BY <1>0, <1>2 DEF IndexPush, RequestInv, TypeOK
  <2>3. /\ db_' = db_ /\ frames_' = frames_ /\ uniq_frm_cnt' = uniq_frm_cnt
        /\ req' = req /\ left' = left /\ pc' = pc
        /\ todo'[t] = todo[t] \ {k} /\ \A u \in Thread : u # t => todo'[u] = todo[u]
    BY <1>0, <1>2, <2>1 DEF IndexPush, TypeOK
  <2>4. \A u \in Thread : u # t => pc[u] \notin LockedPc
    BY <1>a, <2>2 DEF LockedPc
  <2>5. \A m : /\ Waits(m) <=> m \in left[IoThread]
               /\ Waits(m)' <=> m \in left[IoThread]
    BY <2>2, <2>3, <2>4 DEF Waits, LockedPc
  <2>6. n \notin left[IoThread] /\ k \in UniqueFrames(frames_[n])
    BY <2>2 DEF IndexInv, PushInv
  <2>7. \A j, m : Unlisted(j, m) <=> m \in left[IoThread] \/ (m = n /\ j \in todo[t])
    BY <2>2, <2>4, <2>5 DEF Unlisted, LockedPc
  <2>8. \A j, m : Unlisted(j, m)' <=> m \in left[IoThread] \/ (m = n /\ j \in todo[t] \ {k})
    BY <2>2, <2>3, <2>4, <2>5 DEF Unlisted, LockedPc
  <2>9. ~ Lists(table_, k, n)
    BY <2>2, <2>7 DEF IndexInv, ListsInv
  <2>10. Index(table_)
    BY <1>0 DEF TypeOK, Index
  <2>11. /\ Shape(table_)'
         /\ \A j, m : Lists(table_', j, m) <=> Lists(table_, j, m) \/ (j = k /\ m = n)
    BY <2>1, <2>2, <2>9, <2>10, PushPairLists DEF IndexInv
  <2>12. ListsInv'
    BY <2>2, <2>3, <2>6, <2>7, <2>8, <2>11 DEF IndexInv, ListsInv
  <2>13. UniqInv'
    BY <2>3, <2>5 DEF IndexInv, UniqInv
  <2>14. PushInv'
    BY <2>2, <2>3 DEF IndexInv, PushInv
  <2> QED
    BY <2>11, <2>12, <2>13, <2>14 DEF IndexInv, Shape
(* Loading: no other thread has anything to do with the index.             *)
<1>3. ASSUME NEW t \in Thread, t = IoThread, LoadFile(t) PROVE IndexInv'
  <2>1. PICK S \in SUBSET Name : \E file \in [S -> FrameList] : LoadsFile(S, file, t)
    BY <1>3 DEF LoadFile, LoadsFile
  <2>2. PICK file \in [S -> FrameList] :
          /\ db_' = S
          /\ left' = [left EXCEPT ![t] = S]
          /\ frames_' = [n \in Name |-> IF n \in S THEN file[n] ELSE << >>]
          /\ table_' = [s \in {key_shorten(k) : k \in UNION {Range(file[n]) : n \in S}} |-> << >>]
    BY <2>1 DEF LoadsFile
  <2>3. left'[IoThread] = S /\ db_' = S
    BY <1>0, <1>3, <2>2 DEF TypeOK
  <2>4. \A s \in DOMAIN table_' : table_'[s] = << >>
    BY <2>2
  <2>5. \A k, n : ~ Lists(table_', k, n)
    BY <2>4 DEF Lists, Range
  <2>6. \A n \in S : Waits(n)'
    BY <2>3 DEF Waits
  <2>7. ListsInv'
    BY <2>3, <2>5, <2>6 DEF ListsInv, Unlisted
  <2>8. UniqInv'
    BY <2>3, <2>6 DEF UniqInv
  <2>9. Shape(table_)'
    BY <2>4 DEF Shape, IsInjective, Range
  <2>10. pc'[IoThread] = "load_next" /\ \A u \in Thread : pc'[u] \notin {"index", "push"}
    BY <1>0, <1>3 DEF LoadFile, LoadInv, TypeOK, Thread
  <2> QED
    BY <2>7, <2>8, <2>9, <2>10 DEF IndexInv, PushInv
<1>4. ASSUME NEW t \in Thread, t = IoThread, LoadNext(t) PROVE IndexInv'
  <2>1. PICK n \in left[t] : /\ req' = [req EXCEPT ![t].name = n]
                             /\ left' = [left EXCEPT ![t] = @ \ {n}]
    BY <1>4 DEF LoadNext
  <2>2. pc[t] = "load_next" /\ pc'[t] = "index" /\ \A u \in Thread : u # t => pc'[u] = pc[u]
    BY <1>0, <1>4 DEF LoadNext, TypeOK
  <2>3. req'[t].name = n /\ \A u \in Thread : u # t => req'[u] = req[u]
    <3>1. req[t] \in ReqType
      BY <1>0 DEF TypeOK
    <3>2. req'[t] = [req[t] EXCEPT !.name = n]
      BY <1>0, <2>1 DEF TypeOK
    <3>3. req'[t].name = n
      BY <3>1, <3>2 DEF ReqType
    <3> QED
      BY <1>0, <2>1, <3>3 DEF TypeOK
  <2>4. left'[IoThread] = left[IoThread] \ {n} /\ n \in left[IoThread]
    BY <1>0, <1>4, <2>1 DEF TypeOK
  <2>5. \A u \in Thread : u # t => pc[u] \notin LockedPc
    BY <1>a, <2>2 DEF LockedPc
  <2>6. \A m : /\ Waits(m) <=> m \in left[IoThread]
               /\ Waits(m)' <=> m \in left[IoThread]
    <3>1. \A m : Waits(m) <=> m \in left[IoThread]
      BY <2>2, <2>5 DEF Waits, LockedPc
    <3>2. \A m : Waits(m)' <=> m \in left[IoThread] \ {n} \/ m = n
      BY <2>2, <2>3, <2>4, <2>5 DEF Waits, LockedPc
    <3> QED
      BY <2>4, <3>1, <3>2
  <2>7. \A u \in Thread : pc[u] # "push" /\ pc'[u] # "push"
    BY <2>2, <2>5 DEF LockedPc
  <2>8. \A k, m : Unlisted(k, m)' <=> Unlisted(k, m)
    BY <2>6, <2>7 DEF Unlisted
  <2>9. db_' = db_ /\ frames_' = frames_ /\ uniq_frm_cnt' = uniq_frm_cnt /\ table_' = table_
    BY <1>4 DEF LoadNext
  <2>10. ListsInv' /\ UniqInv' /\ Shape(table_)'
    BY <2>6, <2>8, <2>9 DEF IndexInv, ListsInv, UniqInv, Shape, Lists
  <2>11. PushInv'
    BY <1>4, <2>2, <2>3, <2>4, <2>5, <2>7 DEF PushInv, LockedPc
  <2> QED
    BY <2>10, <2>11 DEF IndexInv
(* The end of a push that has nothing left to push.                        *)
<1>5. ASSUME NEW t \in Thread,
             (t = IoThread /\ LoadIndexed(t)) \/ (t \in Worker /\ AddDone(t))
      PROVE  IndexInv'
  <2>1. /\ pc[t] = "push" /\ todo[t] = {} /\ pc'[t] \in {"load_next", "done"}
        /\ (t = IoThread => pc'[t] = "load_next")
        /\ \A u \in Thread : u # t => pc'[u] = pc[u]
        /\ db_' = db_ /\ frames_' = frames_ /\ uniq_frm_cnt' = uniq_frm_cnt /\ table_' = table_
        /\ req' = req /\ todo' = todo /\ left' = left
    BY <1>0, <1>5 DEF LoadIndexed, AddDone, TypeOK
  <2>2. \A m : Waits(m)' <=> Waits(m)
    BY <2>1 DEF Waits
  <2>3. \A k, m : Unlisted(k, m)' <=> Unlisted(k, m)
    BY <2>1, <2>2 DEF Unlisted
  <2>4. ListsInv' /\ UniqInv' /\ Shape(table_)'
    BY <2>1, <2>2, <2>3 DEF IndexInv, ListsInv, UniqInv, Shape, Lists
  <2>5. PushInv'
    BY <1>0, <2>1 DEF IndexInv, PushInv
  <2> QED
    BY <2>4, <2>5 DEF IndexInv
(* A new video waits to be indexed.                                        *)
<1>6. ASSUME NEW t \in Thread, t \in Worker, AddInsert(t) PROVE IndexInv'
  <2> DEFINE n == req[t].name
  <2>1. n \in Name /\ n \notin db_ /\ pc[t] = "insert"
    BY <1>0, <1>6 DEF AddInsert, RequestInv
  <2>2. /\ pc'[t] = "index" /\ \A u \in Thread : u # t => pc'[u] = pc[u]
        /\ db_' = db_ \cup {n} /\ table_' = table_
        /\ req' = req /\ todo' = todo /\ left' = left
        /\ \A m \in Name : m # n => frames_'[m] = frames_[m] /\ uniq_frm_cnt'[m] = uniq_frm_cnt[m]
    BY <1>0, <1>6, <2>1 DEF AddInsert, TypeOK
  <2>3. \A u \in Thread : u # t => pc[u] \notin LockedPc
    BY <1>a, <2>1 DEF LockedPc
  <2>4. left[IoThread] = {}
    BY <1>0, <1>6, <2>3 DEF IndexInv, PushInv, LockedPc
  <2>5. \A m : ~ Waits(m) /\ (Waits(m)' <=> m = n)
    BY <2>1, <2>2, <2>3, <2>4, <1>0 DEF Waits, LockedPc
  <2>6. \A k, m : ~ Unlisted(k, m) /\ (Unlisted(k, m)' <=> m = n)
    BY <2>1, <2>2, <2>3, <2>5 DEF Unlisted, LockedPc
  <2>7. \A k \in Frame : ~ Lists(table_, k, n)
    BY <2>1 DEF IndexInv, ListsInv
  <2>8. ListsInv'
    BY <2>1, <2>2, <2>6, <2>7 DEF IndexInv, ListsInv, Lists
  <2>9. UniqInv'
    BY <1>0, <2>1, <2>2, <2>5 DEF IndexInv, UniqInv, TypeOK
  <2>10. Shape(table_)'
    BY <2>2 DEF IndexInv, Shape
  <2>11. PushInv'
    BY <2>2, <2>3, <2>4 DEF PushInv, LockedPc
  <2> QED
    BY <2>8, <2>9, <2>10, <2>11 DEF IndexInv
(* The other steps have nothing to do with the index.                      *)
<1>7. ASSUME NEW t \in Thread, t = IoThread, LoadDone(t) PROVE IndexInv'
  <2>1. /\ db_' = db_ /\ frames_' = frames_ /\ uniq_frm_cnt' = uniq_frm_cnt /\ table_' = table_
        /\ todo' = todo /\ left' = left /\ left[t] = {}
        /\ pc[t] = "load_next" /\ pc'[t] = "idle"
        /\ \A u \in Thread : u # t => pc'[u] = pc[u] /\ req'[u] = req[u]
    BY <1>0, <1>7 DEF LoadDone, TypeOK
  <2> QED
    BY <2>1, IndexFrame
<1>8. ASSUME NEW t \in Thread,
             \/ t \in Worker /\ (AddExists(t) \/ AddNew(t) \/ Query(t))
             \/ t = IoThread /\ (InfoCount(t) \/ InfoFrames(t) \/ InfoTable(t))
             \/ Respond(t)
      PROVE  IndexInv'
  <2>1. /\ db_' = db_ /\ frames_' = frames_ /\ uniq_frm_cnt' = uniq_frm_cnt /\ table_' = table_
        /\ todo' = todo /\ left' = left
        /\ \A u \in Thread : u # t => pc'[u] = pc[u] /\ req'[u] = req[u]
        /\ pc[t] \notin LockedPc /\ pc'[t] \notin {"index", "push"}
    <3>1. CASE AddExists(t) \/ AddNew(t)
      BY <1>0, <3>1 DEF AddExists, AddNew, TypeOK, LockedPc
    <3>2. CASE Query(t)
      BY <1>0, <3>2 DEF Query, Lookup, GetCandidates, CheckCandidate, FinishQuery, TypeOK, LockedPc
    <3>3. CASE InfoCount(t) \/ InfoFrames(t) \/ InfoTable(t)
      BY <1>0, <3>3 DEF InfoCount, InfoFrames, InfoTable, TypeOK, LockedPc
    <3>4. CASE Respond(t)
      BY <1>0, <3>4 DEF Respond, TypeOK, LockedPc
    <3> QED
      BY <1>8, <3>1, <3>2, <3>3, <3>4
  <2> QED
    BY <2>1, IndexFrame DEF LockedPc
<1>9. ASSUME NEW t \in Worker, ReceiveRequest(t) PROVE IndexInv'
  <2>1. /\ db_' = db_ /\ frames_' = frames_ /\ uniq_frm_cnt' = uniq_frm_cnt /\ table_' = table_
        /\ todo' = todo /\ left' = left
        /\ \A u \in Thread : u # t => pc'[u] = pc[u] /\ req'[u] = req[u]
        /\ pc[t] = "idle" /\ pc'[t] \notin {"index", "push"}
    BY <1>0, <1>9 DEF ReceiveRequest, Receive, TypeOK, Thread
  <2> QED
    BY <2>1, IndexFrame DEF Thread
<1>10. ASSUME NEW t \in Worker, Save(t) PROVE IndexInv'
  <2>1. /\ db_' = db_ /\ frames_' = frames_ /\ uniq_frm_cnt' = uniq_frm_cnt /\ table_' = table_
        /\ todo' = todo /\ left'[IoThread] = left[IoThread] /\ t \in Thread /\ t # IoThread
        /\ \A u \in Thread : u # t => pc'[u] = pc[u] /\ req'[u] = req[u]
        /\ pc[t] \notin {"index", "push"} /\ pc'[t] \notin {"index", "push"}
    BY <1>0, <1>10 DEF Save, SaveBegin, SaveItem, SaveItemDone, SaveDone, TypeOK, Thread
  <2> QED
    BY <2>1, IndexFrame
<1>11. CASE UNCHANGED vars
  BY <1>11 DEF vars, IndexInv, Shape, ListsInv, Lists, UniqInv, PushInv, Unlisted, Waits
<1>12. ASSUME NEW t \in Thread, Step(t) PROVE IndexInv'
  <2>1. CASE t \in Worker /\ Add(t)
    BY <1>5, <1>6, <1>8, <1>12, <2>1 DEF Add
  <2>2. CASE t = IoThread /\ Load(t)
    BY <1>3, <1>4, <1>5, <1>7, <1>12, <2>2 DEF Load
  <2>3. CASE t \in Worker /\ (Query(t) \/ Save(t))
    BY <1>8, <1>10, <1>12, <2>3
  <2>4. CASE (t = IoThread /\ (InfoFrames(t) \/ InfoTable(t))) \/ Respond(t)
    BY <1>8, <1>12, <2>4
  <2> QED
    BY <1>1, <1>2, <1>12, <2>1, <2>2, <2>3, <2>4 DEF Step
<1> QED
  BY <1>0, <1>8, <1>9, <1>11, <1>12 DEF Next, Arrive

(* mutex_ free means that nothing is being indexed.                        *)
LEMMA IndexWhenFree ==
  ASSUME IInv, IndexInv, MutexFree
  PROVE  /\ \A n \in Name, k \in Frame :
              n \in VideosWith(table_, k) <=> n \in db_ /\ k \in UniqueFrames(frames_[n])
         /\ \A n \in db_ : uniq_frm_cnt[n] = Cardinality(UniqueFrames(frames_[n]))
<1>1. \A t \in Thread : pc[t] \notin LockedPc
  BY ThreadAssumption DEF IInv, MutexInv, MutexFree
<1>2. left[IoThread] = {}
  BY <1>1 DEF IndexInv, PushInv, LockedPc, Thread
<1>3. \A n : ~ Waits(n)
  BY <1>1, <1>2 DEF Waits, LockedPc
<1>4. \A k, n : ~ Unlisted(k, n)
  BY <1>1, <1>3 DEF Unlisted, LockedPc
<1>5. \A n \in Name, k \in Frame : n \in VideosWith(table_, k) <=> Lists(table_, k, n)
  BY BlockLists DEF IndexInv
<1> QED
  BY <1>3, <1>4, <1>5 DEF IndexInv, ListsInv, UniqInv, IInv, TypeOK

(* Whoever can take mutex_ finds the index complete and exact, however     *)
(* many threads add videos to it.                                          *)
THEOREM IndexIsExact == Spec => []IndexExact
<1>1. IInv /\ IndexInv => IndexExact
  <2> SUFFICES ASSUME IInv, IndexInv, MutexFree
               PROVE  /\ \A n \in db_ :
                           /\ uniq_frm_cnt[n] = Cardinality(UniqueFrames(frames_[n]))
                           /\ \A k \in UniqueFrames(frames_[n]) : n \in VideosWith(table_, k)
                      /\ \A s \in DOMAIN table_ :
                           /\ IsInjective(table_[s])
                           /\ \A p \in Range(table_[s]) :
                                /\ key_shorten(p[1]) = s
                                /\ p[2] \in db_
                                /\ p[1] \in UniqueFrames(frames_[p[2]])
    BY DEF IndexExact
  <2>1. \A n \in db_ : n \in Name /\ UniqueFrames(frames_[n]) \in SUBSET Frame
    BY UniqueFramesType DEF IInv, TypeOK
  <2>2. \A n \in db_ :
          /\ uniq_frm_cnt[n] = Cardinality(UniqueFrames(frames_[n]))
          /\ \A k \in UniqueFrames(frames_[n]) : n \in VideosWith(table_, k)
    BY <2>1, IndexWhenFree
  <2>3. ASSUME NEW s \in DOMAIN table_, NEW p \in Range(table_[s])
        PROVE  p[2] \in db_ /\ p[1] \in UniqueFrames(frames_[p[2]])
    <3>1. table_[s] \in Seq(Frame \X Name)
      BY DEF IInv, TypeOK, KeyBlock
    <3>2. p \in Frame \X Name
      BY <3>1 DEF Range
    <3>3. Lists(table_, p[1], p[2])
      BY <3>2 DEF Lists
    <3> QED
      BY <3>2, <3>3, BlockLists, IndexWhenFree DEF IndexInv
  <2>4. \A s \in DOMAIN table_ :
          /\ IsInjective(table_[s])
          /\ \A p \in Range(table_[s]) : key_shorten(p[1]) = s
    BY DEF IndexInv, Shape
  <2> QED
    BY <2>2, <2>3, <2>4
<1> QED
  BY <1>1, InitStep, NextStep, IndexInit, IndexStep, PTL DEF Spec

-----------------------------------------------------------------------------
(***************************************************************************)
(* Requests and replies                                                    *)
(***************************************************************************)

(* The names of the queries' steps.                                        *)
LEMMA OpInit == Init => OpInv
BY ThreadAssumption DEF Init, OpInv, OpOK, Thread, NoReq

(* What thread t does concerns only t.                                     *)
LEMMA OpFrame ==
  ASSUME OpInv, NEW t \in Thread,
         \A u \in Worker : u # t => /\ pc'[u] = pc[u] /\ req'[u] = req[u]
                                    /\ result'[u] = result[u] /\ reply'[u] = reply[u],
         t \in Worker => OpOK(t)'
  PROVE  OpInv'
<1>1. \A u \in Worker : u # t => OpOK(u)'
  BY DEF OpInv, OpOK
<1> QED
  BY <1>1 DEF OpInv

LEMMA OpStep == IInv /\ AddInv /\ OpInv /\ [Next]_vars => OpInv'
<1> SUFFICES ASSUME IInv, AddInv, OpInv, [Next]_vars PROVE OpInv'
  OBVIOUS
<1> USE DEF Goto, MutexFree, Lock, Unlock, Serving
<1>0. TypeOK /\ LoadInv /\ IoThread \notin Worker /\ Worker \subseteq Thread
  BY ThreadAssumption DEF IInv, Thread
(* The network thread.                                                     *)
<1>1. ASSUME NEW t \in Thread, t = IoThread,
             Load(t) \/ InfoCount(t) \/ InfoFrames(t) \/ InfoTable(t)
      PROVE  OpInv'
  <2>1. \A u \in Worker : u # t /\ /\ pc'[u] = pc[u] /\ req'[u] = req[u]
                                   /\ result'[u] = result[u] /\ reply'[u] = reply[u]
    BY <1>0, <1>1 DEF Load, LoadFile, LoadNext, LoadIndexed, LoadDone,
                      InfoCount, InfoFrames, InfoTable, TypeOK
  <2> QED
    BY <1>0, <1>1, <2>1, OpFrame
<1>2. ASSUME NEW t \in Thread, IndexBegin(t) \/ IndexPush(t) PROVE OpInv'
  <2>1. /\ req' = req /\ result' = result /\ reply' = reply
        /\ \A u \in Worker : u # t => pc'[u] = pc[u]
        /\ pc[t] \in {"index", "push"} /\ pc'[t] = "push"
    BY <1>0, <1>2 DEF IndexBegin, IndexPush, TypeOK
  <2>2. t \in Worker => OpOK(t)'
    BY <2>1 DEF OpInv, OpOK
  <2> QED
    BY <2>1, <2>2, OpFrame
<1>3. ASSUME NEW t \in Thread, Respond(t) PROVE OpInv'
  <2>1. /\ \A u \in Worker : u # t => /\ pc'[u] = pc[u] /\ req'[u] = req[u]
                                      /\ result'[u] = result[u] /\ reply'[u] = reply[u]
        /\ pc'[t] = "idle" /\ req'[t] = NoReq /\ result'[t] = {} /\ reply'[t] = NoReply
    BY <1>0, <1>3 DEF Respond, TypeOK
  <2>2. OpOK(t)'
    BY <2>1 DEF OpOK, NoReq
  <2> QED
    BY <2>1, <2>2, OpFrame
<1>4. ASSUME NEW t \in Worker, ReceiveRequest(t) PROVE OpInv'
  <2> DEFINE Starts(op, step) ==
               \/ op = "add" /\ step = "add"
               \/ op = "query" /\ step = "candidates"
               \/ op = "key" /\ step = "lookup"
               \/ op = "save" /\ step = "save"
  <2>1. PICK r, step : Receive(t, r, step) /\ Starts(r.op, step)
    <3> HIDE DEF Goto, Serving
    <3>1. CASE \E n \in Name, fs \in FrameList :
                 Receive(t, [op |-> "add", name |-> n, frames |-> fs], "add")
      BY <3>1
    <3>2. CASE \E fs \in FrameList :
                 Receive(t, [op |-> "query", name |-> NoName, frames |-> fs], "candidates")
      BY <3>2
    <3>3. CASE \E n \in Name :
                 Receive(t, [op |-> "key", name |-> n, frames |-> << >>], "lookup")
      BY <3>3
    <3>4. CASE Receive(t, [NoReq EXCEPT !.op = "save"], "save")
      BY <3>4 DEF NoReq
    <3> QED
      BY <1>4, <3>1, <3>2, <3>3, <3>4 DEF ReceiveRequest
  <2>2. /\ \A u \in Worker : u # t => pc'[u] = pc[u] /\ req'[u] = req[u]
        /\ pc[t] = "idle" /\ pc'[t] = step /\ req'[t] = r
        /\ result' = result /\ reply' = reply
    BY <1>0, <2>1 DEF Receive, TypeOK
  <2>3. result[t] = {} /\ reply[t] = NoReply
    BY <2>2 DEF OpInv, OpOK
  <2>4. OpOK(t)'
    BY <2>1, <2>2, <2>3 DEF OpOK
  <2> QED
    BY <1>0, <2>2, <2>4, OpFrame
<1>5. ASSUME NEW t \in Worker, Add(t) PROVE OpInv'
  <2>1. /\ req' = req /\ result' = result
        /\ \A u \in Worker : u # t => pc'[u] = pc[u] /\ reply'[u] = reply[u]
        /\ pc[t] \in {"add", "insert", "push"} /\ pc'[t] \in {"insert", "index", "done"}
        /\ pc'[t] # "done" => reply' = reply
    BY <1>0, <1>5 DEF Add, AddExists, AddNew, AddInsert, AddDone, TypeOK
  <2>2. req[t].op = "add" /\ pc'[t] = "insert" => pc[t] = "add"
    BY <1>0, <1>5, <2>1 DEF Add, AddExists, AddNew, AddInsert, AddDone, TypeOK, AddInv
  <2>3. req[t].op = "add"
    BY <2>1 DEF AddInv
  <2>4. result[t] = {}
    BY <2>1 DEF OpInv, OpOK
  <2>5. pc'[t] = "insert" => reply[t] = NoReply
    BY <2>2, <2>3 DEF OpInv, OpOK
  <2>6. OpOK(t)'
    BY <2>1, <2>3, <2>4, <2>5 DEF OpOK
  <2> QED
    BY <1>0, <2>1, <2>6, OpFrame
<1>6. ASSUME NEW t \in Worker, Lookup(t) PROVE OpInv'
  <2>1. /\ result' = result
        /\ \A u \in Worker : u # t => /\ pc'[u] = pc[u] /\ req'[u] = req[u]
                                      /\ reply'[u] = reply[u]
        /\ pc[t] = "lookup" /\ pc'[t] \in {"candidates", "done"}
        /\ pc'[t] = "candidates" => reply' = reply
    BY <1>0, <1>6 DEF Lookup, TypeOK
  <2>2. req'[t].op = req[t].op
    <3>1. req' = req \/ req' = [req EXCEPT ![t].frames = frames_[req[t].name]]
      BY <1>6 DEF Lookup
    <3>2. req'[t] = req[t] \/ req'[t] = [req[t] EXCEPT !.frames = frames_[req[t].name]]
      BY <1>0, <3>1 DEF TypeOK
    <3>3. req[t] \in ReqType
      BY <1>0 DEF TypeOK
    <3> QED
      BY <3>2, <3>3 DEF ReqType
  <2>3. OpOK(t)'
    BY <2>1, <2>2 DEF OpInv, OpOK
  <2> QED
    BY <1>0, <2>1, <2>3, OpFrame
<1>7. ASSUME NEW t \in Worker, GetCandidates(t) \/ CheckCandidate(t) \/ FinishQuery(t)
      PROVE  OpInv'
  <2>1. /\ req' = req
        /\ \A u \in Worker : u # t => /\ pc'[u] = pc[u] /\ result'[u] = result[u]
                                      /\ reply'[u] = reply[u]
        /\ pc[t] \in {"candidates", "check"} /\ pc'[t] \in {"check", "done"}
    BY <1>0, <1>7 DEF GetCandidates, CheckCandidate, FinishQuery, TypeOK
  <2>2. OpOK(t)'
    BY <2>1 DEF OpInv, OpOK
  <2> QED
    BY <1>0, <2>1, <2>2, OpFrame
<1>8. ASSUME NEW t \in Worker, Save(t) PROVE OpInv'
  <2>1. /\ req' = req /\ result' = result /\ reply' = reply
        /\ \A u \in Worker : u # t => pc'[u] = pc[u]
        /\ pc[t] \in {"save", "save_next", "save_item"}
        /\ pc'[t] \in {"save_next", "save_item", "done"}
    BY <1>0, <1>8 DEF Save, SaveBegin, SaveItem, SaveItemDone, SaveDone, TypeOK
  <2>2. OpOK(t)'
    BY <2>1 DEF OpInv, OpOK
  <2> QED
    BY <1>0, <2>1, <2>2, OpFrame
<1>9. CASE UNCHANGED vars
  BY <1>9 DEF vars, OpInv, OpOK
<1>10. ASSUME NEW t \in Thread, Step(t) PROVE OpInv'
  BY <1>1, <1>2, <1>3, <1>5, <1>6, <1>7, <1>8, <1>10 DEF Step, Query
<1> QED
  BY <1>1, <1>4, <1>9, <1>10 DEF Next, Arrive, Thread

-----------------------------------------------------------------------------
(***************************************************************************)
(* Queries                                                                 *)
(***************************************************************************)

(* The candidates of a query are what the store, said without the index,   *)
(* has for it.                                                             *)
LEMMA CandidatesExact ==
  ASSUME IInv, IndexInv, MutexFree, NEW fs \in FrameList
  PROVE  Candidates(table_, uniq_frm_cnt, fs) = {n \in db_ : IsCandidate(frames_[n], fs)}
<1>1. UniqueFrames(fs) \in SUBSET Frame
  BY UniqueFramesType
<1>2. db_ \subseteq Name
  BY DEF IInv, TypeOK
<1>3. ASSUME NEW n \in db_
      PROVE  uniq_frm_cnt[n] = Cardinality(UniqueFrames(frames_[n]))
  BY <1>3, IndexWhenFree
<1>4. ASSUME NEW n
      PROVE  n \in UNION {VideosWith(table_, k) : k \in UniqueFrames(fs)} <=>
               n \in db_ /\ UniqueFrames(frames_[n]) \cap UniqueFrames(fs) # {}
  <2>1. ASSUME NEW k \in UniqueFrames(fs), n \in VideosWith(table_, k)
        PROVE  n \in db_ /\ UniqueFrames(frames_[n]) \cap UniqueFrames(fs) # {}
    <3>1. n \in Name /\ k \in Frame
      BY <1>1, <2>1 DEF VideosWith
    <3> QED
      BY <2>1, <3>1, IndexWhenFree
  <2>2. ASSUME n \in db_, NEW k \in UniqueFrames(fs), k \in UniqueFrames(frames_[n])
        PROVE  n \in VideosWith(table_, k)
    BY <1>1, <1>2, <2>2, IndexWhenFree
  <2> QED
    BY <2>1, <2>2
<1> QED
  BY <1>3, <1>4 DEF Candidates, IsCandidate

(* A video is no longer or shorter than itself, although a query counts    *)
(* the empty frame and the index does not.                                 *)
LEMMA SelfCandidate ==
  ASSUME NEW fs \in FrameList, UniqueFrames(fs) # {}
  PROVE  IsCandidate(fs, fs)
<1> DEFINE u == Cardinality(UniqueFrames(fs))
           q == Cardinality(Range(fs))
<1>1. fs \in Seq(Frame)
  BY IndexAssumption
<1>2. Range(fs) \in SUBSET Frame
  BY <1>1 DEF Range
<1>3. IsFiniteSet(Range(fs))
  BY <1>2, FS_Subset, IndexAssumption
<1>4. q \in Nat
  BY <1>3, FS_CardinalityType
<1>5. u = IF EMPTY_FRAME \in Range(fs) THEN q - 1 ELSE q
  BY <1>3, FS_RemoveElement DEF UniqueFrames
<1>6. ~ LengthDiffers(u, q)
  <2> HIDE DEF u, q
  <2>1. u \in Int /\ (u = q \/ u = q - 1) /\ LONG \in Nat \ {0}
    BY <1>4, <1>5, IndexAssumption
  <2> QED
    BY <1>4, <2>1 DEF LengthDiffers
<1> QED
  BY <1>6 DEF IsCandidate

(* A list sorted by falling score has all before an item of full score at  *)
(* full score too.                                                         *)
LEMMA FullScoreFirst ==
  ASSUME NEW R \in SUBSET (Name \X (0..100)), NEW s \in Sorted(R), NEW n, <<n, 100>> \in R
  PROVE  \E i \in DOMAIN s : s[i][1] = n /\ \A j \in 1..(i - 1) : s[j][2] = s[i][2]
<1>1. Cardinality(R) \in Nat
  BY SortedType
<1>2. /\ s \in [1..Cardinality(R) -> R] /\ Range(s) = R
      /\ \A i, j \in 1..Cardinality(R) : i < j => s[i][2] >= s[j][2]
  BY DEF Sorted
<1>3. PICK i \in 1..Cardinality(R) : s[i] = <<n, 100>>
  BY <1>2 DEF Range
<1>4. ASSUME NEW j \in 1..(i - 1) PROVE s[j][2] = 100
  <2>1. j \in 1..Cardinality(R) /\ j < i
    BY <1>1, <1>3
  <2>2. s[j] \in Name \X (0..100)
    BY <1>2, <2>1
  <2>3. s[j][2] >= 100
    BY <1>2, <1>3, <2>1
  <2> QED
    BY <2>2, <2>3
<1> QED
  BY <1>2, <1>3, <1>4

LEMMA SelfInit == Init => SelfInv
BY ThreadAssumption DEF Init, SelfInv, SelfOK, Thread, NoReq

(* A step that leaves the stored videos as they are and concerns only t.   *)
LEMMA SelfFrame ==
  ASSUME SelfInv, NEW t \in Thread,
         db_ \subseteq db_', \A n \in db_ : frames_'[n] = frames_[n],
         \A u \in Worker : u # t =>
           /\ pc'[u] = pc[u] /\ req'[u] = req[u] /\ held'[u] = held[u]
           /\ result'[u] = result[u] /\ reply'[u] = reply[u],
         t \in Worker => SelfOK(t)'
  PROVE  SelfInv'
<1>1. ASSUME NEW u \in Worker, u # t PROVE SelfOK(u)'
  BY <1>1 DEF SelfInv, SelfOK, SelfMatch, SelfListed
<1> QED
  BY <1>1 DEF SelfInv

LEMMA SelfStep ==
  IInv /\ AddInv /\ IndexInv /\ OpInv /\ SelfInv /\ [Next]_vars => SelfInv'
<1> SUFFICES ASSUME IInv, AddInv, IndexInv, OpInv, SelfInv, [Next]_vars PROVE SelfInv'
  OBVIOUS
<1> USE DEF Goto, Lock, Unlock, Serving
<1>0. TypeOK /\ LoadInv /\ StoreInv /\ RequestInv /\ IoThread \notin Worker /\ Worker \subseteq Thread
  BY ThreadAssumption DEF IInv, Thread
(* The pool is idle when the videos are loaded.                            *)
<1>1. ASSUME NEW t \in Thread, t = IoThread, LoadFile(t) PROVE SelfInv'
  <2>1. \A u \in Worker : pc'[u] = "idle"
    BY <1>0, <1>1 DEF LoadFile, LoadInv, TypeOK
  <2> QED
    BY <2>1 DEF SelfInv, SelfOK
<1>2. ASSUME NEW t \in Thread, t = IoThread,
             \/ LoadNext(t) \/ LoadIndexed(t) \/ LoadDone(t)
             \/ InfoCount(t) \/ InfoFrames(t) \/ InfoTable(t)
      PROVE  SelfInv'
  <2>1. /\ db_' = db_ /\ frames_' = frames_ /\ held' = held /\ result' = result /\ reply' = reply
        /\ \A u \in Worker : pc'[u] = pc[u] /\ req'[u] = req[u]
    BY <1>0, <1>2 DEF LoadNext, LoadIndexed, LoadDone, InfoCount, InfoFrames, InfoTable, TypeOK
  <2> QED
    BY <1>0, <1>2, <2>1, SelfFrame
(* Adds, saves and what comes before and after a query.                    *)
<1>3. ASSUME NEW t \in Worker, AddInsert(t) PROVE SelfInv'
  <2>1. pc[t] = "insert" /\ req[t].name \notin db_ /\ req[t].op = "add"
    BY <1>0, <1>3 DEF AddInsert, RequestInv, AddInv
  <2>2. /\ db_' = db_ \cup {req[t].name} /\ req' = req /\ held' = held
        /\ result' = result /\ reply' = reply
        /\ \A u \in Worker : u # t => pc'[u] = pc[u]
        /\ \A n \in Name : n # req[t].name => frames_'[n] = frames_[n]
    BY <1>0, <1>3 DEF AddInsert, TypeOK
  <2>3. \A n \in db_ : frames_'[n] = frames_[n]
    BY <1>0, <2>1, <2>2 DEF TypeOK
  <2>4. SelfOK(t)'
    BY <2>1, <2>2 DEF SelfOK
  <2> QED
    BY <1>0, <2>2, <2>3, <2>4, SelfFrame
<1>4. ASSUME NEW t \in Thread,
             \/ IndexBegin(t) \/ IndexPush(t)
             \/ t \in Worker /\ (AddExists(t) \/ AddNew(t) \/ AddDone(t) \/ Save(t))
      PROVE  SelfInv'
  <2>1. /\ db_' = db_ /\ frames_' = frames_ /\ req' = req /\ result' = result
        /\ \A u \in Worker : u # t => pc'[u] = pc[u] /\ held'[u] = held[u] /\ reply'[u] = reply[u]
        /\ pc[t] \in {"index", "push", "add", "insert", "save", "save_next", "save_item"}
    <3>1. CASE IndexBegin(t) \/ IndexPush(t)
      BY <1>0, <3>1 DEF IndexBegin, IndexPush, TypeOK
    <3>2. CASE AddExists(t) \/ AddNew(t) \/ AddDone(t)
      BY <1>0, <3>2 DEF AddExists, AddNew, AddDone, TypeOK
    <3>3. CASE Save(t)
      BY <1>0, <3>3 DEF Save, SaveBegin, SaveItem, SaveItemDone, SaveDone, TypeOK
    <3> QED
      BY <1>4, <3>1, <3>2, <3>3
  <2>2. t \in Worker => req[t].op # "key"
    BY <2>1 DEF AddInv, OpInv, OpOK
  <2>3. t \in Worker => SelfOK(t)'
    BY <2>1, <2>2 DEF SelfOK
  <2> QED
    BY <2>1, <2>3, SelfFrame
<1>5. ASSUME NEW t \in Thread, Respond(t) PROVE SelfInv'
  <2>1. /\ db_' = db_ /\ frames_' = frames_ /\ held' = held
        /\ \A u \in Worker : u # t => /\ pc'[u] = pc[u] /\ req'[u] = req[u]
                                      /\ result'[u] = result[u] /\ reply'[u] = reply[u]
        /\ pc'[t] = "idle"
    BY <1>0, <1>5 DEF Respond, TypeOK
  <2>2. SelfOK(t)'
    BY <2>1 DEF SelfOK
  <2> QED
    BY <2>1, <2>2, SelfFrame
<1>6. ASSUME NEW t \in Worker, ReceiveRequest(t) PROVE SelfInv'
  <2>1. /\ db_' = db_ /\ frames_' = frames_ /\ held' = held /\ result' = result /\ reply' = reply
        /\ \A u \in Worker : u # t => pc'[u] = pc[u] /\ req'[u] = req[u]
        /\ pc'[t] \in {"add", "candidates", "lookup", "save"}
        /\ pc'[t] = "candidates" => req'[t].op = "query"
    BY <1>0, <1>6 DEF ReceiveRequest, Receive, TypeOK
  <2>2. SelfOK(t)'
    BY <2>1 DEF SelfOK
  <2> QED
    BY <1>0, <2>1, <2>2, SelfFrame
(* The query itself.                                                       *)
<1>7. ASSUME NEW t \in Worker, Lookup(t) PROVE SelfInv'
  <2>1. /\ db_' = db_ /\ frames_' = frames_ /\ held' = held /\ result' = result
        /\ \A u \in Worker : u # t => /\ pc'[u] = pc[u] /\ req'[u] = req[u]
                                      /\ reply'[u] = reply[u]
    BY <1>0, <1>7 DEF Lookup, TypeOK
  <2>2. SelfOK(t)'
    <3>1. CASE req[t].name \in db_
      <4>1. pc'[t] = "candidates" /\ req'[t] = [req[t] EXCEPT !.frames = frames_[req[t].name]]
        BY <1>0, <1>7, <3>1 DEF Lookup, TypeOK
      <4>2. req[t] \in ReqType
        BY <1>0 DEF TypeOK
      <4>3. req'[t].name = req[t].name /\ req'[t].frames = frames_[req[t].name]
        BY <4>1, <4>2 DEF ReqType
      <4> QED
        BY <2>1, <3>1, <4>1, <4>3 DEF SelfOK
    <3>2. CASE req[t].name \notin db_
      <4>1. pc'[t] = "done" /\ reply'[t].code = -1
        BY <1>0, <1>7, <3>2 DEF Lookup, TypeOK, Code
      <4> QED
        BY <4>1 DEF SelfOK
    <3> QED
      BY <3>1, <3>2
  <2> QED
    BY <1>0, <2>1, <2>2, SelfFrame
<1>8. ASSUME NEW t \in Worker, GetCandidates(t) PROVE SelfInv'
  <2> DEFINE cand == Candidates(table_, uniq_frm_cnt, req[t].frames)
             n == req[t].name
  <2>1. /\ db_' = db_ /\ frames_' = frames_ /\ req' = req /\ result' = result /\ reply' = reply
        /\ \A u \in Worker : u # t => pc'[u] = pc[u] /\ held'[u] = held[u]
        /\ pc[t] = "candidates" /\ pc'[t] = "check" /\ held'[t] = cand /\ MutexFree
    BY <1>0, <1>8 DEF GetCandidates, TypeOK
  <2>2. req[t].frames \in FrameList
    BY <1>0, <2>1 DEF RequestInv
  <2>3. cand = {m \in db_ : IsCandidate(frames_[m], req[t].frames)}
    BY <2>1, <2>2, CandidatesExact
  <2>4. ASSUME req[t].op = "key", UniqueFrames(req[t].frames) # {} PROVE n \in cand
    <3>1. n \in db_ /\ req[t].frames = frames_[n]
      BY <2>1, <2>4 DEF SelfInv, SelfOK
    <3> QED
      BY <2>2, <2>3, <2>4, <3>1, SelfCandidate
  <2>5. SelfOK(t)'
    <3>1. req'[t].op = "key" => req[t].name \in db_ /\ req[t].frames = frames_[req[t].name]
      BY <2>1 DEF SelfInv, SelfOK
    <3> QED
      BY <2>1, <2>4, <3>1 DEF SelfOK
  <2> QED
    BY <1>0, <2>1, <2>5, SelfFrame
<1>9. ASSUME NEW t \in Worker, CheckCandidate(t) PROVE SelfInv'
  <2>1. PICK n \in held[t] :
          LET score == Score[<<frames_[n], req[t].frames>>] IN
          /\ result' = [result EXCEPT ![t] =
                          IF score > THRESHOLD THEN @ \cup {<<n, score>>} ELSE @]
          /\ held' = [held EXCEPT ![t] = @ \ {n}]
    BY <1>9 DEF CheckCandidate
  <2>2. /\ db_' = db_ /\ frames_' = frames_ /\ req' = req /\ reply' = reply /\ pc' = pc
        /\ pc[t] = "check"
        /\ \A u \in Worker : u # t => held'[u] = held[u] /\ result'[u] = result[u]
        /\ held'[t] = held[t] \ {n} /\ result[t] \subseteq result'[t]
    BY <1>0, <1>9, <2>1 DEF CheckCandidate, TypeOK
  <2>3. ASSUME req[t].op = "key", UniqueFrames(req[t].frames) # {}, n = req[t].name
        PROVE  SelfMatch(t) \in result'[t]
    <3>1. frames_[n] = req[t].frames /\ req[t].frames \in FrameList
      BY <1>0, <2>2, <2>3 DEF SelfInv, SelfOK, RequestInv
    <3>2. req[t].frames # << >>
      BY <2>3 DEF UniqueFrames, Range
    <3>3. Score[<<frames_[n], req[t].frames>>] = 100
      BY <3>1, <3>2, SelfScoreAssumption
    <3>4. <<n, 100>> \in result'[t]
      BY <1>0, <2>1, <3>3 DEF THRESHOLD, TypeOK
    <3> QED
      BY <2>3, <3>4 DEF SelfMatch
  <2>4. SelfOK(t)'
    BY <2>2, <2>3 DEF SelfInv, SelfOK, SelfMatch
  <2> QED
    BY <1>0, <2>2, <2>4, SelfFrame
<1>10. ASSUME NEW t \in Worker, FinishQuery(t) PROVE SelfInv'
  <2>1. PICK s \in Sorted(result[t]) :
          reply' = [reply EXCEPT ![t] = [code |-> Cardinality(result[t]), list |-> s]]
    BY <1>10 DEF FinishQuery
  <2>2. /\ db_' = db_ /\ frames_' = frames_ /\ req' = req /\ held' = held /\ result' = result
        /\ pc[t] = "check" /\ pc'[t] = "done" /\ held[t] = {}
        /\ \A u \in Worker : u # t => pc'[u] = pc[u] /\ reply'[u] = reply[u]
        /\ reply'[t].list = s
    BY <1>0, <1>10, <2>1 DEF FinishQuery, TypeOK
  <2>3. ASSUME req[t].op = "key", UniqueFrames(req[t].frames) # {}
        PROVE  SelfListed(t)'
    <3>1. <<req[t].name, 100>> \in result[t]
      BY <2>2, <2>3 DEF SelfInv, SelfOK, SelfMatch
    <3>2. result[t] \in SUBSET (Name \X (0..100))
      BY <1>0 DEF TypeOK
    <3> QED
      BY <2>2, <3>1, <3>2, FullScoreFirst DEF SelfListed
  <2>4. SelfOK(t)'
    BY <2>2, <2>3 DEF SelfOK
  <2> QED
    BY <1>0, <2>2, <2>4, SelfFrame
<1>11. CASE UNCHANGED vars
  BY <1>11 DEF vars, SelfInv, SelfOK, SelfMatch, SelfListed
<1>12. ASSUME NEW t \in Thread, Step(t) PROVE SelfInv'
  BY <1>1, <1>2, <1>3, <1>4, <1>5, <1>7, <1>8, <1>9, <1>10, <1>12 DEF Step, Load, Add, Query
<1> QED
  BY <1>2, <1>6, <1>11, <1>12 DEF Next, Arrive, Thread

(* A query by key reports its own video, with nothing worse before it,     *)
(* although its two critical sections are apart and other threads add      *)
(* videos between them.                                                    *)
THEOREM OwnVideoFirst == Spec => []SelfFirst
<1>1. SelfInv => SelfFirst
  BY DEF SelfInv, SelfOK, SelfListed, SelfFirst
<1> QED
  BY <1>1, InitStep, NextStep, AddInit, AddStep, IndexInit, IndexStep, OpInit, OpStep,
     SelfInit, SelfStep, PTL DEF Spec

-----------------------------------------------------------------------------
(***************************************************************************)
(* The numbers of /info                                                    *)
(***************************************************************************)

(* The pairs FramesCount counts, by slot and position.                     *)
Cells == UNION {{s} \X DOMAIN table_[s] : s \in DOMAIN table_}

LEMMA CellsFinite ==
  ASSUME TypeOK
  PROVE  /\ IsFiniteSet(Cells) /\ FramesCount = Cardinality(Cells)
         /\ \A s, i : <<s, i>> \in Cells <=> s \in DOMAIN table_ /\ i \in DOMAIN table_[s]
<1> DEFINE pairs(s) == {s} \X DOMAIN table_[s]
           P == {pairs(s) : s \in DOMAIN table_}
           f == [s \in DOMAIN table_ |-> pairs(s)]
<1>1. IsFiniteSet(DOMAIN table_)
  BY SlotFinite, FS_Subset DEF TypeOK
<1>2. IsFiniteSet(P)
  <2>1. f \in Surjection(DOMAIN table_, P)
    BY DEF Surjection
  <2> QED
    BY <2>1, <1>1, FS_Surjection
<1>3. ASSUME NEW s \in DOMAIN table_
      PROVE  IsFiniteSet(pairs(s))
  <2>1. DOMAIN table_[s] = 1..Len(table_[s]) /\ Len(table_[s]) \in Nat
    BY DEF TypeOK, KeyBlock
  <2>2. IsFiniteSet(DOMAIN table_[s])
    BY <2>1, FS_Interval
  <2> QED
    BY <2>2, FS_Product, FS_Singleton
<1>4. IsFiniteSet(UNION P)
  BY <1>2, <1>3, FS_UNION
<1>5. Cells = UNION P
  BY DEF Cells
<1>6. \A s, i : <<s, i>> \in Cells <=> s \in DOMAIN table_ /\ i \in DOMAIN table_[s]
  BY DEF Cells
<1> QED
  BY <1>4, <1>5, <1>6 DEF FramesCount, Cells

(* Every pair counted is a video and one of its frames.                    *)
LEMMA CountedPairs ==
  ASSUME NEW p \in Counted
  PROVE  p = <<p[1], p[2]>> /\ p[1] \in info.counted /\ p[2] \in UniqueFrames(frames_[p[1]])
BY DEF Counted

(* With mutex_ free, every frame of a stored video has a place of its own  *)
(* in the index.                                                           *)
LEMMA CountedListed ==
  ASSUME IInv, IndexInv, MutexFree, info.counted \subseteq db_
  PROVE  FramesCount >= Cardinality(Counted) /\ CountedSlots \subseteq DOMAIN table_
<1> DEFINE At(p, c) == table_[c[1]][c[2]] = <<p[2], p[1]>>
           f == [p \in Counted |-> CHOOSE c \in Cells : At(p, c)]
<1>1. ASSUME NEW p \in Counted
      PROVE  /\ \E c \in Cells : At(p, c)
             /\ key_shorten(p[2]) \in DOMAIN table_
  <2> DEFINE s == key_shorten(p[2])
  <2>1. p[1] \in db_ /\ p[1] \in Name /\ p[2] \in UniqueFrames(frames_[p[1]])
    BY CountedPairs DEF IInv, TypeOK
  <2>2. p[2] \in Frame
    <3>1. frames_[p[1]] \in FrameList \cup {<< >>}
      BY <2>1 DEF IInv, TypeOK
    <3> QED
      BY <2>1, <3>1, UniqueFramesType
  <2>3. p[1] \in VideosWith(table_, p[2])
    BY <2>1, <2>2, IndexWhenFree
  <2>4. <<p[2], p[1]>> \in Range(Block(table_, s))
    BY <2>3 DEF VideosWith
  <2>5. PICK i \in DOMAIN Block(table_, s) : Block(table_, s)[i] = <<p[2], p[1]>>
    BY <2>4 DEF Range
  <2>6. s \in DOMAIN table_
    BY <2>5 DEF Block
  <2>7. <<s, i>> \in Cells /\ table_[s][i] = <<p[2], p[1]>>
    BY <2>5, <2>6, CellsFinite DEF Block, IInv
  <2>8. At(p, <<s, i>>)
    BY <2>7
  <2> QED
    BY <2>6, <2>7, <2>8
<1>2. ASSUME NEW p \in Counted PROVE f[p] \in Cells /\ At(p, f[p])
  BY <1>1
<1>3. f \in Injection(Counted, Cells)
  <2>1. f \in [Counted -> Cells]
    BY <1>2
  <2>2. ASSUME NEW p \in Counted, NEW q \in Counted, f[p] = f[q] PROVE p = q
    <3>1. <<p[2], p[1]>> = <<q[2], q[1]>>
      BY <1>2, <2>2
    <3> QED
      BY <3>1, CountedPairs
  <2> QED
    BY <2>1, <2>2 DEF Injection, IsInjective
<1>4. IsFiniteSet(Cells) /\ FramesCount = Cardinality(Cells)
  BY CellsFinite DEF IInv
<1>5. Cardinality(Counted) \in Nat /\ Cardinality(Cells) \in Nat
      /\ Cardinality(Counted) <= Cardinality(Cells)
  BY <1>3, <1>4, FS_Injection, FS_CardinalityType
<1> QED
  BY <1>1, <1>4, <1>5 DEF CountedSlots

LEMMA InfoInit == Init => InfoInv
BY ThreadAssumption DEF Init, InfoInv, Thread

(* A step of another thread, for which the network thread's numbers stay   *)
(* as true as they were.                                                   *)
LEMMA InfoFrame ==
  ASSUME InfoInv, pc'[IoThread] = pc[IoThread], info' = info,
         db_ \subseteq db_', \A n \in db_ : frames_'[n] = frames_[n],
         DOMAIN table_ \subseteq DOMAIN table_'
  PROVE  InfoInv'
<1> SUFFICES ASSUME pc[IoThread] \in {"frames_count", "table_size", "done"} PROVE InfoInv'
  BY DEF InfoInv
<1>1. info.counted \subseteq db_
  BY DEF InfoInv
<1>2. Counted' = Counted
  <2>1. \A n \in info.counted : frames_'[n] = frames_[n]
    BY <1>1
  <2> QED
    BY <2>1 DEF Counted
<1>3. CountedSlots' = CountedSlots
  BY <1>2 DEF CountedSlots
<1> QED
  BY <1>1, <1>2, <1>3 DEF InfoInv

LEMMA InfoStep == IInv /\ IndexInv /\ InfoInv /\ [Next]_vars => InfoInv'
<1> SUFFICES ASSUME IInv, IndexInv, InfoInv, [Next]_vars PROVE InfoInv'
  OBVIOUS
<1> USE DEF Goto, Lock, Unlock, Serving
<1>0. TypeOK /\ RequestInv /\ IoThread \notin Worker /\ IoThread \in Thread /\ Worker \subseteq Thread
  BY ThreadAssumption DEF IInv, Thread
(* The network thread between its other requests.                          *)
<1>1. ASSUME NEW t \in Thread, t = IoThread, Load(t) PROVE InfoInv'
  <2>1. pc'[IoThread] \in {"load_next", "index", "idle"}
    BY <1>0, <1>1 DEF Load, LoadFile, LoadNext, LoadIndexed, LoadDone, TypeOK
  <2> QED
    BY <2>1 DEF InfoInv
<1>2. ASSUME NEW t \in Thread, IndexBegin(t) \/ IndexPush(t) PROVE InfoInv'
  <2>1. CASE t = IoThread
    <3>1. pc'[IoThread] = "push"
      BY <1>0, <1>2, <2>1 DEF IndexBegin, IndexPush, TypeOK
    <3> QED
      BY <3>1 DEF InfoInv
  <2>2. CASE t # IoThread
    <3>1. pc'[IoThread] = pc[IoThread] /\ info' = info /\ db_' = db_ /\ frames_' = frames_
      BY <1>0, <1>2, <2>2 DEF IndexBegin, IndexPush, TypeOK
    <3>2. DOMAIN table_ \subseteq DOMAIN table_'
      BY <1>2 DEF IndexBegin, IndexPush, PushPair
    <3> QED
      BY <3>1, <3>2, InfoFrame
  <2> QED
    BY <2>1, <2>2
<1>3. ASSUME NEW t \in Thread, Respond(t) PROVE InfoInv'
  <2>1. CASE t = IoThread
    <3>1. pc'[IoThread] = "idle"
      BY <1>0, <1>3, <2>1 DEF Respond, TypeOK
    <3> QED
      BY <3>1 DEF InfoInv
  <2>2. CASE t # IoThread
    <3>1. /\ pc'[IoThread] = pc[IoThread] /\ info' = info
          /\ db_' = db_ /\ frames_' = frames_ /\ table_' = table_
      BY <1>0, <1>3, <2>2 DEF Respond, TypeOK
    <3> QED
      BY <3>1, InfoFrame
  <2> QED
    BY <2>1, <2>2
(* A video that is added is none of those counted.                         *)
<1>4. ASSUME NEW t \in Worker, AddInsert(t) PROVE InfoInv'
  <2>1. req[t].name \notin db_
    BY <1>0, <1>4 DEF AddInsert, RequestInv
  <2>2. /\ pc'[IoThread] = pc[IoThread] /\ info' = info /\ table_' = table_
        /\ db_' = db_ \cup {req[t].name} /\ frames_' = [frames_ EXCEPT ![req[t].name] = req[t].frames]
    BY <1>0, <1>4 DEF AddInsert, TypeOK
  <2>3. \A n \in db_ : frames_'[n] = frames_[n]
    BY <1>0, <2>1, <2>2 DEF TypeOK
  <2> QED
    BY <2>2, <2>3, InfoFrame
<1>5. ASSUME NEW t \in Worker,
             \/ AddExists(t) \/ AddNew(t) \/ AddDone(t) \/ Query(t) \/ Save(t)
             \/ ReceiveRequest(t)
      PROVE  InfoInv'
  <2>1. /\ pc'[IoThread] = pc[IoThread] /\ info' = info
        /\ db_' = db_ /\ frames_' = frames_ /\ table_' = table_
    <3>1. CASE AddExists(t) \/ AddNew(t) \/ AddDone(t)
      BY <1>0, <3>1 DEF AddExists, AddNew, AddDone, TypeOK
    <3>2. CASE Query(t)
      BY <1>0, <3>2 DEF Query, Lookup, GetCandidates, CheckCandidate, FinishQuery, TypeOK
    <3>3. CASE Save(t)
      BY <1>0, <3>3 DEF Save, SaveBegin, SaveItem, SaveItemDone, SaveDone, TypeOK
    <3>4. CASE ReceiveRequest(t)
      BY <1>0, <3>4 DEF ReceiveRequest, Receive, TypeOK
    <3> QED
      BY <1>5, <3>1, <3>2, <3>3, <3>4
  <2> QED
    BY <2>1, InfoFrame
(* /info itself.                                                           *)
<1>6. ASSUME NEW t \in Thread, t = IoThread, InfoCount(t) PROVE InfoInv'
  <2>1. /\ pc'[IoThread] = "frames_count" /\ db_' = db_
        /\ info'.video_count = Cardinality(db_) /\ info'.counted = db_
    BY <1>0, <1>6 DEF InfoCount, TypeOK, InfoType
  <2> QED
    BY <2>1 DEF InfoInv
<1>7. ASSUME NEW t \in Thread, t = IoThread, InfoFrames(t) PROVE InfoInv'
  <2>1. /\ pc[IoThread] = "frames_count" /\ pc'[IoThread] = "table_size" /\ MutexFree
        /\ db_' = db_ /\ frames_' = frames_ /\ table_' = table_
        /\ info'.video_count = info.video_count /\ info'.counted = info.counted
        /\ info'.frames_count = FramesCount
    BY <1>0, <1>7 DEF InfoFrames, TypeOK, InfoType
  <2>2. Counted' = Counted /\ CountedSlots' = CountedSlots
    BY <2>1 DEF Counted, CountedSlots
  <2>3. info.counted \subseteq db_ /\ info.video_count = Cardinality(info.counted)
    BY <2>1 DEF InfoInv
  <2>4. FramesCount >= Cardinality(Counted) /\ CountedSlots \subseteq DOMAIN table_
    BY <2>1, <2>3, CountedListed
  <2> QED
    BY <2>1, <2>2, <2>3, <2>4 DEF InfoInv
<1>8. ASSUME NEW t \in Thread, t = IoThread, InfoTable(t) PROVE InfoInv'
  <2>1. /\ pc[IoThread] = "table_size" /\ pc'[IoThread] = "done"
        /\ db_' = db_ /\ frames_' = frames_ /\ table_' = table_
        /\ info'.video_count = info.video_count /\ info'.counted = info.counted
        /\ info'.frames_count = info.frames_count
        /\ info'.frame_table_size = FrameTableSize
    BY <1>0, <1>8 DEF InfoTable, TypeOK, InfoType
  <2>2. Counted' = Counted /\ CountedSlots' = CountedSlots
    BY <2>1 DEF Counted, CountedSlots
  <2>3. CountedSlots \in SUBSET DOMAIN table_
    BY <2>1 DEF InfoInv
  <2>4. IsFiniteSet(DOMAIN table_)
    BY <1>0, SlotFinite, FS_Subset DEF TypeOK
  <2>5. FrameTableSize >= Cardinality(CountedSlots)
    BY <2>3, <2>4, FS_Subset, FS_CardinalityType DEF FrameTableSize
  <2> QED
    BY <2>1, <2>2, <2>3, <2>5 DEF InfoInv
<1>9. CASE UNCHANGED vars
  BY <1>9, InfoFrame DEF vars
<1>10. ASSUME NEW t \in Thread, Step(t) PROVE InfoInv'
  BY <1>1, <1>2, <1>3, <1>4, <1>5, <1>7, <1>8, <1>10 DEF Step, Add
<1> QED
  BY <1>0, <1>5, <1>6, <1>9, <1>10 DEF Next, Arrive

(* The three numbers of /info, read at three moments and two of them       *)
(* without mutex_, fit together: every video counted is in full in the     *)
(* other two.                                                              *)
THEOREM InfoFitsForward == Spec => []InfoForward
<1>1. InfoInv => InfoForward
  BY DEF InfoInv, InfoForward, Counted, CountedSlots
<1> QED
  BY <1>1, InitStep, NextStep, IndexInit, IndexStep, InfoInit, InfoStep, PTL DEF Spec

-----------------------------------------------------------------------------
(***************************************************************************)
(* VideoDB implements MatchStore.  The variables of MatchStore, as Store   *)
(* maps them:                                                              *)
(***************************************************************************)
Videos    == [n \in db_ |-> frames_[n]]
Phases    == [t \in Worker |-> PhaseOf(t)]
Asked(t)  == IF Client(t) THEN req[t] ELSE NoReq
Requests  == [t \in Worker |-> Asked(t)]
Answers   == [t \in Worker |-> AnswerOf(t)]
NoAnswer  == [code |-> 0, matches |-> {}]

(* What thread t does leaves the requests of the others where they are:    *)
(* the videos they hold are stored, and stored videos never change.        *)
LEMMA OthersMapped ==
  ASSUME IInv, NEW t,
         \A n \in db_ : frames_'[n] = frames_[n],
         \A u \in Worker : u # t =>
           /\ pc'[u] = pc[u] /\ req'[u] = req[u] /\ held'[u] = held[u]
           /\ result'[u] = result[u] /\ reply'[u] = reply[u],
         NEW u \in Worker, u # t
  PROVE  PhaseOf(u)' = PhaseOf(u) /\ Asked(u)' = Asked(u) /\ AnswerOf(u)' = AnswerOf(u)
<1>1. Client(u)' = Client(u)
  BY DEF Client
<1>2. PhaseOf(u)' = PhaseOf(u) /\ Asked(u)' = Asked(u)
  BY <1>1 DEF PhaseOf, Asked
<1>3. held[u] \subseteq db_
  BY DEF IInv, StoreInv, Thread
<1>4. FinalMatches(u)' = FinalMatches(u)
  <2>1. \A n \in held[u] : frames_'[n] = frames_[n] /\ n \in held'[u]
    BY <1>3
  <2>2. held'[u] = held[u] /\ result'[u] = result[u] /\ req'[u] = req[u]
    OBVIOUS
  <2>3. {m \in held'[u] : Good(frames_'[m], req'[u].frames)} = {m \in held[u] : Good(frames_[m], req[u].frames)}
    BY <2>1, <2>2
  <2> DEFINE A == {m \in held[u] : Good(frames_[m], req[u].frames)}
  <2>4. \A n \in A : frames_'[n] = frames_[n]
    BY <2>1
  <2> HIDE DEF A
  <2>5. {<<n, Score[<<frames_'[n], req[u].frames>>]>> : n \in A} =
          {<<n, Score[<<frames_[n], req[u].frames>>]>> : n \in A}
    BY <2>4
  <2> QED
    BY <2>2, <2>3, <2>5 DEF FinalMatches, A
<1>5. AnswerOf(u)' = AnswerOf(u)
  BY <1>2, <1>4 DEF AnswerOf
<1> QED
  BY <1>2, <1>5

(* So a step of t changes the mapped variables at t at most.               *)
LEMMA StepMapped ==
  ASSUME IInv, NEW t \in Worker,
         \A n \in db_ : frames_'[n] = frames_[n],
         \A u \in Worker : u # t =>
           /\ pc'[u] = pc[u] /\ req'[u] = req[u] /\ held'[u] = held[u]
           /\ result'[u] = result[u] /\ reply'[u] = reply[u]
  PROVE  /\ Phases' = [Phases EXCEPT ![t] = PhaseOf(t)']
         /\ Requests' = [Requests EXCEPT ![t] = Asked(t)']
         /\ Answers' = [Answers EXCEPT ![t] = AnswerOf(t)']
<1>1. \A u \in Worker : u # t =>
        PhaseOf(u)' = PhaseOf(u) /\ Asked(u)' = Asked(u) /\ AnswerOf(u)' = AnswerOf(u)
  BY OthersMapped
<1> QED
  BY <1>1 DEF Phases, Requests, Answers

(* A step nobody can see in the store.                                     *)
LEMMA Stutters ==
  ASSUME IInv, NEW t,
         db_' = db_ /\ frames_' = frames_,
         \A u \in Worker : u # t =>
           /\ pc'[u] = pc[u] /\ req'[u] = req[u] /\ held'[u] = held[u]
           /\ result'[u] = result[u] /\ reply'[u] = reply[u],
         t \in Worker =>
           PhaseOf(t)' = PhaseOf(t) /\ Asked(t)' = Asked(t) /\ AnswerOf(t)' = AnswerOf(t)
  PROVE  UNCHANGED Store!svars
<1>1. \A u \in Worker :
        PhaseOf(u)' = PhaseOf(u) /\ Asked(u)' = Asked(u) /\ AnswerOf(u)' = AnswerOf(u)
  BY OthersMapped
<1>2. Phases' = Phases /\ Requests' = Requests /\ Answers' = Answers /\ Videos' = Videos
  BY <1>1 DEF Phases, Requests, Answers, Videos
<1> QED
  BY <1>2 DEF Store!svars, Phases, Requests, Answers, Videos, Asked

(* Nothing is asked of an idle thread.                                     *)
LEMMA IdleMapped ==
  ASSUME NEW t, ~ Client(t)
  PROVE  PhaseOf(t) = "idle" /\ Asked(t) = NoReq /\ AnswerOf(t) = NoAnswer
BY DEF PhaseOf, Asked, AnswerOf, NoAnswer

LEMMA StoreInit == Init => Store!Init
<1> SUFFICES ASSUME Init PROVE Store!Init
  OBVIOUS
<1>1. \A t \in Worker : req[t] = NoReq
  BY ThreadAssumption DEF Init, Thread
<1>2. \A t \in Worker : ~ Client(t)
  BY <1>1 DEF Client, NoReq
<1>3. \A t \in Worker : PhaseOf(t) = "idle" /\ Asked(t) = NoReq /\ AnswerOf(t) = NoAnswer
  BY <1>2, IdleMapped
<1>4. Videos = << >>
  BY DEF Init, Videos
<1> QED
  BY <1>3, <1>4 DEF Store!Init, Videos, Asked, NoAnswer, NoReq, Store!NoRequest, Store!NoAnswer, Store!Answer

(* The files Load reads are what the store boots with.                     *)
LEMMA LoadMapped ==
  ASSUME IInv, OpInv, LoadFile(IoThread)
  PROVE  Store!Boot
<1>0. TypeOK /\ LoadInv /\ IoThread \notin Worker /\ Worker \subseteq Thread /\ IoThread \in Thread
  BY ThreadAssumption DEF IInv, Thread
<1>1. pc[IoThread] = "load"
  BY DEF LoadFile, Goto
<1>2. db_ = {} /\ \A u \in Worker : pc[u] = "idle"
  BY <1>0, <1>1 DEF LoadInv
<1>3. \A u \in Worker : ~ Client(u)
  BY <1>2 DEF OpInv, OpOK, Client, NoReq
<1>4. \A u \in Worker : pc'[u] = pc[u] /\ req'[u] = req[u]
  BY <1>0 DEF LoadFile, Goto, TypeOK
<1>5. \A u \in Worker : ~ Client(u)'
  BY <1>3, <1>4 DEF Client
<1>6. \A u \in Worker : PhaseOf(u) = "idle" /\ Asked(u) = NoReq /\ AnswerOf(u) = NoAnswer
  BY <1>3, IdleMapped
<1>7. \A u \in Worker : PhaseOf(u)' = "idle" /\ Asked(u)' = NoReq /\ AnswerOf(u)' = NoAnswer
  BY <1>5 DEF PhaseOf, Asked, AnswerOf, NoAnswer
<1>8. Phases' = Phases /\ Requests' = Requests /\ Answers' = Answers
  BY <1>6, <1>7 DEF Phases, Requests, Answers
<1>9. PICK S \in SUBSET Name : \E file \in [S -> FrameList] : LoadsFile(S, file, IoThread)
  BY DEF LoadFile, LoadsFile
<1>10. PICK file \in [S -> FrameList] :
         db_' = S /\ frames_' = [n \in Name |-> IF n \in S THEN file[n] ELSE << >>]
  BY <1>9 DEF LoadsFile
<1>11. Videos' \in [S -> FrameList]
  BY <1>10 DEF Videos
<1>12. Videos = << >>
  BY <1>2 DEF Videos
<1> QED
  BY <1>6, <1>8, <1>11, <1>12 DEF Store!Boot, Videos, Phases, Requests, Answers, Asked

LEMMA ReceiveMapped ==
  ASSUME IInv, OpInv, NEW t \in Worker, ReceiveRequest(t)
  PROVE  Store!Call(t) \/ UNCHANGED Store!svars
<1>0. TypeOK /\ t \in Thread
  BY DEF IInv, Thread
<1>1. /\ db_' = db_ /\ frames_' = frames_ /\ held' = held /\ result' = result /\ reply' = reply
      /\ \A u \in Worker : u # t => pc'[u] = pc[u] /\ req'[u] = req[u]
      /\ pc[t] = "idle"
  <2>1. \E r, step : Receive(t, r, step)
    BY DEF ReceiveRequest
  <2> QED
    BY <1>0, <2>1 DEF Receive, Goto, TypeOK
<1>2. ~ Client(t)
  BY <1>1 DEF OpInv, OpOK, Client, NoReq
<1>3. PhaseOf(t) = "idle" /\ Asked(t) = NoReq /\ AnswerOf(t) = NoAnswer
  BY <1>2, IdleMapped
<1>4. /\ Phases' = [Phases EXCEPT ![t] = PhaseOf(t)']
      /\ Requests' = [Requests EXCEPT ![t] = Asked(t)']
      /\ Answers' = [Answers EXCEPT ![t] = AnswerOf(t)']
  BY <1>1, StepMapped
<1>5. Videos' = Videos
  BY <1>1 DEF Videos
<1>6. ASSUME NEW r \in Store!Request, NEW step,
             Receive(t, r, step),
             step = IF r.op = "add" THEN "add" ELSE IF r.op = "key" THEN "lookup" ELSE "candidates"
      PROVE  Store!Call(t)
  <2>1. req'[t] = r /\ pc'[t] = step
    BY <1>0, <1>6 DEF Receive, Goto, TypeOK
  <2>2. r.op \in {"add", "key", "query"}
    BY <1>6 DEF Store!Request
  <2>3. Client(t)' /\ Asked(t)' = r
    BY <2>1, <2>2 DEF Client, Asked
  <2>4. PhaseOf(t)' = IF r.op = "query" THEN "located" ELSE "called"
    BY <1>6, <2>1, <2>2, <2>3 DEF PhaseOf
  <2>5. AnswerOf(t)' = NoAnswer
    BY <2>2, <2>4 DEF AnswerOf, NoAnswer
  <2>6. Answers' = Answers
    BY <1>3, <1>4, <2>5 DEF Answers
  <2> QED
    BY <1>3, <1>4, <1>5, <2>3, <2>4, <2>6
       DEF Store!Call, Phases, Requests, Answers, Videos, Asked
<1>7. CASE \E n \in Name, fs \in FrameList :
             Receive(t, [op |-> "add", name |-> n, frames |-> fs], "add")
  <2>1. PICK n \in Name, fs \in FrameList :
          Receive(t, [op |-> "add", name |-> n, frames |-> fs], "add")
    BY <1>7
  <2>2. [op |-> "add", name |-> n, frames |-> fs] \in Store!Request
    BY DEF Store!Request
  <2> QED
    BY <1>6, <2>1, <2>2
<1>8. CASE \E fs \in FrameList :
             Receive(t, [op |-> "query", name |-> NoName, frames |-> fs], "candidates")
  <2>1. PICK fs \in FrameList :
          Receive(t, [op |-> "query", name |-> NoName, frames |-> fs], "candidates")
    BY <1>8
  <2>2. [op |-> "query", name |-> NoName, frames |-> fs] \in Store!Request
    BY DEF Store!Request
  <2> QED
    BY <1>6, <2>1, <2>2
<1>9. CASE \E n \in Name : Receive(t, [op |-> "key", name |-> n, frames |-> << >>], "lookup")
  <2>1. PICK n \in Name : Receive(t, [op |-> "key", name |-> n, frames |-> << >>], "lookup")
    BY <1>9
  <2>2. [op |-> "key", name |-> n, frames |-> << >>] \in Store!Request
    BY DEF Store!Request
  <2> QED
    BY <1>6, <2>1, <2>2
<1>10. CASE Receive(t, [NoReq EXCEPT !.op = "save"], "save")
  <2>1. req'[t].op = "save"
    BY <1>0, <1>10 DEF Receive, Goto, TypeOK, NoReq
  <2>2. ~ Client(t)'
    BY <2>1 DEF Client
  <2>3. PhaseOf(t)' = "idle" /\ Asked(t)' = NoReq /\ AnswerOf(t)' = NoAnswer
    BY <2>2 DEF PhaseOf, Asked, AnswerOf, NoAnswer
  <2> QED
    BY <1>1, <1>3, <2>3, Stutters
<1> QED
  BY <1>7, <1>8, <1>9, <1>10 DEF ReceiveRequest

LEMMA RespondMapped ==
  ASSUME IInv, NEW t \in Worker, Respond(t)
  PROVE  Store!Reply(t) \/ UNCHANGED Store!svars
<1>0. TypeOK /\ t \in Thread
  BY DEF IInv, Thread
<1>1. /\ db_' = db_ /\ frames_' = frames_ /\ held' = held
      /\ \A u \in Worker : u # t => /\ pc'[u] = pc[u] /\ req'[u] = req[u]
                                    /\ result'[u] = result[u] /\ reply'[u] = reply[u]
      /\ pc[t] = "done" /\ req'[t] = NoReq
  BY <1>0 DEF Respond, Goto, TypeOK
<1>2. ~ Client(t)'
  BY <1>1 DEF Client, NoReq
<1>3. PhaseOf(t)' = "idle" /\ Asked(t)' = NoReq /\ AnswerOf(t)' = NoAnswer
  BY <1>2 DEF PhaseOf, Asked, AnswerOf, NoAnswer
<1>4. CASE Client(t)
  <2>1. PhaseOf(t) = "answered"
    BY <1>1, <1>4 DEF PhaseOf
  <2>2. /\ Phases' = [Phases EXCEPT ![t] = PhaseOf(t)']
        /\ Requests' = [Requests EXCEPT ![t] = Asked(t)']
        /\ Answers' = [Answers EXCEPT ![t] = AnswerOf(t)']
    BY <1>1, StepMapped
  <2>3. Videos' = Videos
    BY <1>1 DEF Videos
  <2>4. Store!Reply(t)
    BY <1>3, <2>1, <2>2, <2>3
       DEF Store!Reply, Store!NoRequest, Store!NoAnswer, Store!Answer, NoReq, NoAnswer,
           Phases, Requests, Answers, Videos, Asked
  <2> QED
    BY <2>4
<1>5. CASE ~ Client(t)
  BY <1>1, <1>3, <1>5, IdleMapped, Stutters
<1> QED
  BY <1>4, <1>5

LEMMA AddMapped ==
  ASSUME IInv, AddInv, OpInv, NEW t \in Worker, Add(t)
  PROVE  Store!Add(t) \/ UNCHANGED Store!svars
<1> USE DEF Goto, MutexFree, Lock, Unlock
<1>0. TypeOK /\ RequestInv /\ t \in Thread /\ db_ \subseteq Name
  BY DEF IInv, Thread, TypeOK
<1>1. CASE AddExists(t)
  <2>1. /\ db_' = db_ /\ frames_' = frames_ /\ held' = held /\ result' = result /\ req' = req
        /\ \A u \in Worker : u # t => pc'[u] = pc[u] /\ reply'[u] = reply[u]
        /\ pc[t] = "add" /\ pc'[t] = "done" /\ reply'[t] = Code(-1) /\ req[t].name \in db_
    BY <1>0, <1>1 DEF AddExists, TypeOK
  <2>2. req[t].op = "add"
    BY <2>1 DEF AddInv
  <2>3. Client(t) /\ Client(t)'
    BY <2>1, <2>2 DEF Client
  <2>4. PhaseOf(t) = "called" /\ PhaseOf(t)' = "answered"
    BY <2>1, <2>3 DEF PhaseOf
  <2>5. Asked(t) = req[t] /\ Asked(t)' = req[t]
    BY <2>1, <2>3 DEF Asked
  <2>6. AnswerOf(t)' = [code |-> -1, matches |-> {}]
    <3>1. Range(<< >>) = {}
      BY DEF Range
    <3> QED
      BY <2>1, <2>4, <3>1 DEF AnswerOf, Code
  <2>7. /\ Phases' = [Phases EXCEPT ![t] = "answered"]
        /\ Answers' = [Answers EXCEPT ![t] = [code |-> -1, matches |-> {}]]
        /\ Requests' = Requests
    <3>1. Requests' = [Requests EXCEPT ![t] = req[t]]
      BY <2>1, <2>5, StepMapped
    <3>2. Requests' = Requests
      BY <2>5, <3>1 DEF Requests
    <3> QED
      BY <2>1, <2>4, <2>6, <3>2, StepMapped
  <2>8. Videos' = Videos /\ req[t].name \in DOMAIN Videos
    BY <2>1 DEF Videos
  <2>9. Store!Add(t)
    BY <2>2, <2>4, <2>5, <2>7, <2>8
       DEF Store!Add, Store!Settle, Store!Answer, Phases, Requests, Answers, Videos, Asked
  <2> QED
    BY <2>9
(* The instant at which the add takes effect.                              *)
<1>2. CASE AddInsert(t)
  <2> DEFINE n == req[t].name
  <2>1. pc[t] = "insert" /\ n \in Name /\ n \notin db_ /\ req[t].op = "add"
    BY <1>0, <1>2 DEF AddInsert, RequestInv, AddInv
  <2>2. /\ db_' = db_ \cup {n} /\ held' = held /\ result' = result /\ req' = req /\ reply' = reply
        /\ frames_' = [frames_ EXCEPT ![n] = req[t].frames]
        /\ \A u \in Worker : u # t => pc'[u] = pc[u]
        /\ pc'[t] = "index"
    BY <1>0, <1>2 DEF AddInsert, TypeOK
  <2>3. frames_'[n] = req[t].frames /\ \A m \in Name : m # n => frames_'[m] = frames_[m]
    BY <1>0, <2>1, <2>2 DEF TypeOK
  <2>4. \A m \in db_ : frames_'[m] = frames_[m]
    BY <1>0, <2>1, <2>3
  <2>5. Client(t) /\ Client(t)'
    BY <2>1, <2>2 DEF Client
  <2>6. PhaseOf(t) = "called" /\ PhaseOf(t)' = "answered"
    BY <2>1, <2>2, <2>5 DEF PhaseOf
  <2>7. Asked(t) = req[t] /\ Asked(t)' = req[t]
    BY <2>2, <2>5 DEF Asked
  <2>8. AnswerOf(t)' = NoAnswer
    BY <2>1, <2>2 DEF AnswerOf, NoAnswer
  <2>9. /\ Phases' = [Phases EXCEPT ![t] = "answered"]
        /\ Answers' = [Answers EXCEPT ![t] = NoAnswer]
        /\ Requests' = Requests
    <3>1. Requests' = [Requests EXCEPT ![t] = req[t]]
      BY <2>2, <2>4, <2>7, StepMapped
    <3>2. Requests' = Requests
      BY <2>7, <3>1 DEF Requests
    <3> QED
      BY <2>2, <2>4, <2>6, <2>8, <3>2, StepMapped
  <2>10. /\ DOMAIN Videos = db_
         /\ Videos' = [m \in db_ \cup {n} |-> IF m = n THEN req[t].frames ELSE Videos[m]]
    BY <2>1, <2>2, <2>3, <2>4 DEF Videos
  <2>11. Store!Add(t)
    BY <2>1, <2>6, <2>7, <2>9, <2>10
       DEF Store!Add, Store!Settle, Store!Answer, NoAnswer, Phases, Requests, Answers, Videos, Asked
  <2> QED
    BY <2>11
<1>3. CASE AddNew(t)
  <2>1. /\ db_' = db_ /\ frames_' = frames_ /\ held' = held /\ result' = result
        /\ req' = req /\ reply' = reply
        /\ \A u \in Worker : u # t => pc'[u] = pc[u]
        /\ pc[t] = "add" /\ pc'[t] = "insert"
    BY <1>0, <1>3 DEF AddNew, TypeOK
  <2>2. req[t].op = "add" /\ Client(t) /\ Client(t)'
    BY <2>1 DEF AddInv, Client
  <2>3. PhaseOf(t) = "called" /\ PhaseOf(t)' = "called" /\ Asked(t)' = Asked(t)
    BY <2>1, <2>2 DEF PhaseOf, Asked
  <2>4. AnswerOf(t)' = AnswerOf(t)
    BY <2>3 DEF AnswerOf
  <2> QED
    BY <2>1, <2>3, <2>4, Stutters
<1>4. CASE AddDone(t)
  <2>1. /\ db_' = db_ /\ frames_' = frames_ /\ held' = held /\ result' = result /\ req' = req
        /\ \A u \in Worker : u # t => pc'[u] = pc[u] /\ reply'[u] = reply[u]
        /\ pc[t] = "push" /\ pc'[t] = "done" /\ reply'[t] = Code(0) /\ req[t].op = "add"
    BY <1>0, <1>4 DEF AddDone, TypeOK
  <2>2. PhaseOf(t) = "answered" /\ PhaseOf(t)' = "answered" /\ Asked(t)' = Asked(t)
    BY <2>1 DEF PhaseOf, Asked, Client
  <2>3. AnswerOf(t) = NoAnswer
    BY <2>1 DEF AnswerOf, NoAnswer
  <2>4. AnswerOf(t)' = NoAnswer
    <3>1. Range(<< >>) = {}
      BY DEF Range
    <3>2. pc'[t] # "check" /\ reply'[t].code = 0 /\ reply'[t].list = << >>
      BY <2>1 DEF Code
    <3>3. AnswerOf(t)' = [code |-> reply'[t].code, matches |-> Range(reply'[t].list)]
      BY <2>1, <2>2, <3>2 DEF AnswerOf
    <3> QED
      BY <3>1, <3>2, <3>3 DEF NoAnswer
  <2> QED
    BY <2>1, <2>2, <2>3, <2>4, Stutters
<1> QED
  BY <1>1, <1>2, <1>3, <1>4 DEF Add

(* Indexing and saving are nothing a client could see.                     *)
LEMMA IndexMapped ==
  ASSUME IInv, AddInv, NEW t \in Thread, IndexBegin(t) \/ IndexPush(t)
  PROVE  UNCHANGED Store!svars
<1>1. /\ db_' = db_ /\ frames_' = frames_ /\ held' = held /\ result' = result
      /\ req' = req /\ reply' = reply
      /\ \A u \in Worker : u # t => pc'[u] = pc[u]
      /\ pc[t] \in {"index", "push"} /\ pc'[t] = "push"
  BY DEF IInv, IndexBegin, IndexPush, Goto, TypeOK, Thread
<1>2. t \in Worker => PhaseOf(t)' = PhaseOf(t) /\ Asked(t)' = Asked(t) /\ AnswerOf(t)' = AnswerOf(t)
  <2> SUFFICES ASSUME t \in Worker
               PROVE  PhaseOf(t)' = PhaseOf(t) /\ Asked(t)' = Asked(t) /\ AnswerOf(t)' = AnswerOf(t)
    OBVIOUS
  <2>1. req[t].op = "add"
    BY <1>1 DEF AddInv
  <2>2. PhaseOf(t) = "answered" /\ PhaseOf(t)' = "answered" /\ Asked(t)' = Asked(t)
    BY <1>1, <2>1 DEF PhaseOf, Asked, Client
  <2> QED
    BY <1>1, <2>1, <2>2 DEF AnswerOf
<1> QED
  BY <1>1, <1>2, Stutters

LEMMA SaveMapped ==
  ASSUME IInv, OpInv, NEW t \in Worker, Save(t)
  PROVE  UNCHANGED Store!svars
<1>0. TypeOK /\ t \in Thread
  BY DEF IInv, Thread
<1>1. /\ db_' = db_ /\ frames_' = frames_ /\ result' = result /\ req' = req /\ reply' = reply
      /\ \A u \in Worker : u # t => pc'[u] = pc[u] /\ held'[u] = held[u]
      /\ pc[t] \in {"save", "save_next", "save_item"}
  <2>1. CASE SaveBegin(t)
    BY <1>0, <2>1 DEF SaveBegin, Goto, TypeOK
  <2>2. CASE SaveItem(t)
    BY <1>0, <2>2 DEF SaveItem, Goto, TypeOK
  <2>3. CASE SaveItemDone(t)
    BY <1>0, <2>3 DEF SaveItemDone, Goto, TypeOK
  <2>4. CASE SaveDone(t)
    BY <1>0, <2>4 DEF SaveDone, Goto, TypeOK
  <2> QED
    BY <2>1, <2>2, <2>3, <2>4 DEF Save
<1>2. ~ Client(t) /\ ~ Client(t)'
  BY <1>1 DEF OpInv, OpOK, Client
<1>3. PhaseOf(t)' = PhaseOf(t) /\ Asked(t)' = Asked(t) /\ AnswerOf(t)' = AnswerOf(t)
  BY <1>2 DEF PhaseOf, Asked, AnswerOf
<1> QED
  BY <1>1, <1>3, Stutters

(* Finding the video of a query by key.                                    *)
LEMMA LookupMapped ==
  ASSUME IInv, OpInv, NEW t \in Worker, Lookup(t)
  PROVE  Store!Locate(t)
<1> DEFINE n == req[t].name
<1>0. TypeOK /\ t \in Thread /\ Worker \subseteq Thread
  BY DEF IInv, Thread
<1>1. /\ db_' = db_ /\ frames_' = frames_ /\ held' = held /\ result' = result
      /\ \A u \in Worker : u # t => pc'[u] = pc[u] /\ req'[u] = req[u] /\ reply'[u] = reply[u]
      /\ pc[t] = "lookup"
  <2>1. /\ db_' = db_ /\ frames_' = frames_ /\ held' = held /\ result' = result
        /\ pc[t] = "lookup"
    BY DEF Lookup
  <2>2. ASSUME NEW u \in Worker, u # t
        PROVE  pc'[u] = pc[u] /\ req'[u] = req[u] /\ reply'[u] = reply[u]
    BY <1>0, <2>2 DEF Lookup, TypeOK
  <2> QED
    BY <2>1, <2>2
<1>2. req[t].op = "key" /\ Client(t) /\ reply[t] = NoReply
  BY <1>1 DEF OpInv, OpOK, Client
<1>3. PhaseOf(t) = "called" /\ Asked(t) = req[t]
  BY <1>1, <1>2 DEF PhaseOf, Asked
<1>4. AnswerOf(t) = NoAnswer
  BY <1>3 DEF AnswerOf, NoAnswer
<1>5. /\ Phases' = [Phases EXCEPT ![t] = PhaseOf(t)']
      /\ Requests' = [Requests EXCEPT ![t] = Asked(t)']
      /\ Answers' = [Answers EXCEPT ![t] = AnswerOf(t)']
      /\ Videos' = Videos /\ DOMAIN Videos = db_
  <2>1. Videos' = Videos /\ DOMAIN Videos = db_
    BY <1>1 DEF Videos
  <2> QED
    BY <1>1, <2>1, StepMapped
<1>6. CASE n \in db_
  <2>1. /\ pc'[t] = "candidates" /\ reply' = reply
        /\ req'[t] = [req[t] EXCEPT !.frames = frames_[n]]
    BY <1>0, <1>6 DEF Lookup, TypeOK
  <2>2. req[t] \in ReqType
    BY <1>0 DEF TypeOK
  <2>3. req'[t].op = "key"
    BY <1>2, <2>1, <2>2 DEF ReqType
  <2>4. PhaseOf(t)' = "located" /\ Asked(t)' = [req[t] EXCEPT !.frames = frames_[n]]
    BY <2>1, <2>3 DEF PhaseOf, Asked, Client
  <2>5. AnswerOf(t)' = NoAnswer
    BY <2>4 DEF AnswerOf, NoAnswer
  <2>6. Answers' = Answers
    BY <1>4, <1>5, <2>5 DEF Answers
  <2>7. Videos[n] = frames_[n]
    BY <1>6 DEF Videos
  <2>8. Requests[t] = req[t] /\ Phases[t] = "called"
    BY <1>3 DEF Requests, Phases
  <2>9. Requests' = [Requests EXCEPT ![t].frames = Videos[n]]
    BY <1>5, <2>4, <2>7, <2>8
  <2> QED
    BY <1>2, <1>5, <1>6, <2>4, <2>6, <2>8, <2>9
       DEF Store!Locate, Phases, Requests, Answers, Videos, Asked
<1>7. CASE n \notin db_
  <2>1. pc'[t] = "done" /\ reply'[t] = Code(-1) /\ req' = req
    BY <1>0, <1>7 DEF Lookup, TypeOK
  <2>2. PhaseOf(t)' = "answered" /\ Asked(t)' = Asked(t)
    BY <1>2, <2>1 DEF PhaseOf, Asked, Client
  <2>3. AnswerOf(t)' = [code |-> -1, matches |-> {}]
    <3>1. Range(<< >>) = {}
      BY DEF Range
    <3>2. reply'[t].code = -1 /\ reply'[t].list = << >>
      BY <2>1 DEF Code
    <3>3. AnswerOf(t)' = [code |-> reply'[t].code, matches |-> Range(reply'[t].list)]
      BY <1>2, <2>1, <2>2 DEF AnswerOf
    <3> QED
      BY <3>1, <3>2, <3>3
  <2>4. Requests' = Requests
    BY <1>5, <2>2 DEF Requests
  <2>5. Requests[t] = req[t] /\ Phases[t] = "called"
    BY <1>3 DEF Requests, Phases
  <2> QED
    BY <1>2, <1>5, <1>7, <2>2, <2>3, <2>4, <2>5
       DEF Store!Locate, Store!Settle, Store!Answer, Phases, Requests, Answers, Videos, Asked
<1> QED
  BY <1>6, <1>7

(* The operators MatchStore has of VideoIndex are those VideoDB has.        *)
LEMMA StoreCardinality == \A S : Store!Cardinality(S) = Cardinality(S)
BY DEF Store!Cardinality, Cardinality

LEMMA StoreOperators ==
  /\ \A S : Store!Cardinality(S) = Cardinality(S)
  /\ \A store, fs : Store!MatchesIn(store, fs) = MatchesIn(store, fs)
<1>1. \A S : Store!Cardinality(S) = Cardinality(S)
  BY StoreCardinality
<1>2. \A fs : Store!Range(fs) = Range(fs)
  BY DEF Store!Range, Range
<1>3. \A fs : Store!UniqueFrames(fs) = UniqueFrames(fs)
  BY <1>2 DEF Store!UniqueFrames, UniqueFrames, Store!EMPTY_FRAME, EMPTY_FRAME
<1>4. \A base, fs : Store!Good(base, fs) = Good(base, fs)
  BY DEF Store!Good, Good, Store!THRESHOLD, THRESHOLD
<1>5. \A u, q : Store!LengthDiffers(u, q) = LengthDiffers(u, q)
  BY DEF Store!LengthDiffers, LengthDiffers
<1>6. \A base, fs : Store!IsCandidate(base, fs) = IsCandidate(base, fs)
  BY <1>1, <1>2, <1>3, <1>5 DEF Store!IsCandidate, IsCandidate
<1>7. \A store, fs : Store!MatchesIn(store, fs) = MatchesIn(store, fs)
  BY <1>4, <1>6 DEF Store!MatchesIn, MatchesIn
<1> QED
  BY <1>1, <1>7

(* A query is decided when it has collected its candidates, however long   *)
(* it takes to compare them afterwards.                                    *)
LEMMA CandidatesMapped ==
  ASSUME IInv, IndexInv, OpInv, NEW t \in Worker, GetCandidates(t)
  PROVE  Store!Match(t)
<1> DEFINE fs   == req[t].frames
           cand == Candidates(table_, uniq_frm_cnt, fs)
           m    == MatchesIn(Videos, fs)
<1>0. TypeOK /\ RequestInv /\ t \in Thread
  BY DEF IInv, Thread
<1>1. /\ db_' = db_ /\ frames_' = frames_ /\ req' = req /\ result' = result /\ reply' = reply
      /\ \A u \in Worker : u # t => pc'[u] = pc[u] /\ held'[u] = held[u]
      /\ pc[t] = "candidates" /\ pc'[t] = "check" /\ held'[t] = cand /\ MutexFree
  BY <1>0 DEF GetCandidates, Goto, TypeOK
<1>2. req[t].op \in {"key", "query"} /\ result[t] = {} /\ fs \in FrameList
  BY <1>0, <1>1 DEF OpInv, OpOK, RequestInv
<1>3. PhaseOf(t) = "located" /\ PhaseOf(t)' = "answered" /\ Asked(t) = req[t] /\ Asked(t)' = req[t]
  BY <1>1, <1>2 DEF PhaseOf, Asked, Client
<1>4. cand = {n \in db_ : IsCandidate(frames_[n], fs)}
  BY <1>1, <1>2, CandidatesExact
<1>5. FinalMatches(t)' = m
  <2> DEFINE A == {n \in cand : Good(frames_[n], fs)}
             B == {n \in DOMAIN Videos : IsCandidate(Videos[n], fs) /\ Good(Videos[n], fs)}
  <2>1. FinalMatches(t)' = {<<n, Score[<<frames_[n], fs>>]>> : n \in A}
    BY <1>1, <1>2 DEF FinalMatches
  <2>2. m = {<<n, Score[<<Videos[n], fs>>]>> : n \in B}
    BY DEF MatchesIn
  <2>3. A = B /\ \A n \in A : Videos[n] = frames_[n]
    BY <1>4 DEF Videos
  <2> HIDE DEF A, B, m, fs
  <2> QED
    BY <2>1, <2>2, <2>3
<1>6. AnswerOf(t)' = [code |-> Cardinality(m), matches |-> m]
  BY <1>1, <1>2, <1>3, <1>5 DEF AnswerOf
<1>7. /\ Phases' = [Phases EXCEPT ![t] = "answered"]
      /\ Requests' = [Requests EXCEPT ![t] = Asked(t)']
      /\ Answers' = [Answers EXCEPT ![t] = [code |-> Cardinality(m), matches |-> m]]
  <2> HIDE DEF m
  <2> QED
    BY <1>1, <1>3, <1>6, StepMapped
<1>8. Requests' = Requests /\ Videos' = Videos /\ Requests[t] = req[t] /\ Phases[t] = "located"
  BY <1>1, <1>3, <1>7 DEF Requests, Videos, Phases
<1>9. Store!MatchesIn(Videos, fs) = m /\ Store!Cardinality(m) = Cardinality(m)
  BY StoreOperators
<1> HIDE DEF m
<1>10. Store!Settle(t, Store!Answer(Store!Cardinality(m), m))
  BY <1>7, <1>9 DEF Store!Settle, Store!Answer, Phases, Answers
<1>11. Store!MatchesIn(Videos, Requests[t].frames) = m
  BY <1>8, <1>9
<1> QED
  BY <1>8, <1>10, <1>11 DEF Store!Match, Phases, Requests, Videos, Asked

(* Comparing a candidate moves its match from what will be found to what   *)
(* has been found.                                                         *)
LEMMA CheckMapped ==
  ASSUME IInv, OpInv, NEW t \in Worker, CheckCandidate(t)
  PROVE  UNCHANGED Store!svars
<1> DEFINE fs == req[t].frames
<1>0. TypeOK /\ t \in Thread /\ Worker \subseteq Thread
  BY DEF IInv, Thread
<1>1. PICK n \in held[t] :
        LET score == Score[<<frames_[n], req[t].frames>>] IN
        /\ result' = [result EXCEPT ![t] =
                        IF score > THRESHOLD THEN @ \cup {<<n, score>>} ELSE @]
        /\ held' = [held EXCEPT ![t] = @ \ {n}]
  BY DEF CheckCandidate
<1>2. /\ db_' = db_ /\ frames_' = frames_ /\ req' = req /\ reply' = reply /\ pc' = pc
      /\ pc[t] = "check"
      /\ \A u \in Worker : u # t => held'[u] = held[u] /\ result'[u] = result[u]
      /\ held'[t] = held[t] \ {n}
      /\ result'[t] = IF Good(frames_[n], fs)
                      THEN result[t] \cup {<<n, Score[<<frames_[n], fs>>]>>} ELSE result[t]
  BY <1>0, <1>1 DEF CheckCandidate, TypeOK, Good
<1>3. req[t].op \in {"key", "query"}
  BY <1>2 DEF OpInv, OpOK
<1>4. PhaseOf(t) = "answered" /\ PhaseOf(t)' = "answered" /\ Asked(t)' = Asked(t)
  BY <1>2, <1>3 DEF PhaseOf, Asked, Client
<1>5. FinalMatches(t)' = FinalMatches(t)
  <2> DEFINE A == {m \in held[t] : Good(frames_[m], fs)}
             B == {m \in held'[t] : Good(frames_[m], fs)}
             pair(m) == <<m, Score[<<frames_[m], fs>>]>>
  <2>1. FinalMatches(t) = result[t] \cup {pair(m) : m \in A}
    BY DEF FinalMatches
  <2>2. FinalMatches(t)' = result'[t] \cup {pair(m) : m \in B}
    BY <1>2 DEF FinalMatches
  <2>3. CASE Good(frames_[n], fs)
    <3>1. A = B \cup {n} /\ result'[t] = result[t] \cup {pair(n)}
      BY <1>2, <2>3
    <3> HIDE DEF A, B, pair
    <3> QED
      BY <2>1, <2>2, <3>1
  <2>4. CASE ~ Good(frames_[n], fs)
    <3>1. A = B /\ result'[t] = result[t]
      BY <1>2, <2>4
    <3> HIDE DEF A, B, pair
    <3> QED
      BY <2>1, <2>2, <3>1
  <2> QED
    BY <2>3, <2>4
<1>6. AnswerOf(t)' = AnswerOf(t)
  BY <1>2, <1>3, <1>4, <1>5 DEF AnswerOf
<1> QED
  BY <1>2, <1>4, <1>6, Stutters

(* Sorting and counting the results adds and drops nothing.                *)
LEMMA FinishMapped ==
  ASSUME IInv, OpInv, NEW t \in Worker, FinishQuery(t)
  PROVE  UNCHANGED Store!svars
<1>0. TypeOK /\ t \in Thread /\ Worker \subseteq Thread
  BY DEF IInv, Thread
<1>1. PICK s \in Sorted(result[t]) :
        reply' = [reply EXCEPT ![t] = [code |-> Cardinality(result[t]), list |-> s]]
  BY DEF FinishQuery
<1>2. /\ db_' = db_ /\ frames_' = frames_ /\ req' = req /\ held' = held /\ result' = result
      /\ pc[t] = "check" /\ pc'[t] = "done" /\ held[t] = {}
      /\ \A u \in Worker : u # t => pc'[u] = pc[u] /\ reply'[u] = reply[u]
      /\ reply'[t].list = s /\ reply'[t].code = Cardinality(result[t])
  BY <1>0, <1>1 DEF FinishQuery, Goto, TypeOK
<1>3. req[t].op \in {"key", "query"}
  BY <1>2 DEF OpInv, OpOK
<1>4. PhaseOf(t) = "answered" /\ PhaseOf(t)' = "answered" /\ Asked(t)' = Asked(t)
  BY <1>2, <1>3 DEF PhaseOf, Asked, Client
<1>5. FinalMatches(t) = result[t]
  BY <1>2 DEF FinalMatches
<1>6. Range(s) = result[t]
  BY DEF Sorted
<1>7. AnswerOf(t) = [code |-> Cardinality(result[t]), matches |-> result[t]]
  BY <1>2, <1>3, <1>4, <1>5 DEF AnswerOf
<1>8. AnswerOf(t)' = [code |-> Cardinality(result[t]), matches |-> result[t]]
  <2>1. AnswerOf(t)' = [code |-> reply'[t].code, matches |-> Range(reply'[t].list)]
    BY <1>2, <1>3, <1>4 DEF AnswerOf
  <2> QED
    BY <1>2, <1>6, <2>1
<1> QED
  BY <1>2, <1>4, <1>7, <1>8, Stutters

(* Nor does the network thread show a client anything once it has loaded.  *)
LEMMA IoMapped ==
  ASSUME IInv,
         \/ LoadNext(IoThread) \/ LoadIndexed(IoThread) \/ LoadDone(IoThread)
         \/ InfoCount(IoThread) \/ InfoFrames(IoThread) \/ InfoTable(IoThread)
         \/ Respond(IoThread)
  PROVE  UNCHANGED Store!svars
<1>0. TypeOK /\ Worker \subseteq Thread /\ IoThread \notin Worker /\ IoThread \in Thread
  BY ThreadAssumption DEF IInv, Thread
<1>1. /\ db_' = db_ /\ frames_' = frames_
      /\ \A u \in Worker : u # IoThread =>
           /\ pc'[u] = pc[u] /\ req'[u] = req[u] /\ held'[u] = held[u]
           /\ result'[u] = result[u] /\ reply'[u] = reply[u]
  BY <1>0 DEF LoadNext, LoadIndexed, LoadDone, InfoCount, InfoFrames, InfoTable, Respond,
              Goto, TypeOK
<1> QED
  BY <1>0, <1>1, Stutters

(* Every step of the match engine is a step of the store or none.          *)
LEMMA StoreStep ==
  ASSUME IInv, AddInv, IndexInv, OpInv, [Next]_vars
  PROVE  [Store!Next]_Store!svars
<1>1. ASSUME NEW t \in Worker, Step(t) PROVE [Store!Next]_Store!svars
  <2>1. t # IoThread
    BY ThreadAssumption
  <2>2. CASE Add(t)
    BY <2>2, AddMapped DEF Store!Next
  <2>3. CASE Lookup(t)
    BY <2>3, LookupMapped DEF Store!Next
  <2>4. CASE GetCandidates(t)
    BY <2>4, CandidatesMapped DEF Store!Next
  <2>5. CASE CheckCandidate(t) \/ FinishQuery(t) \/ Save(t)
    BY <2>5, CheckMapped, FinishMapped, SaveMapped
  <2>6. CASE IndexBegin(t) \/ IndexPush(t)
    BY <2>6, IndexMapped DEF Thread
  <2>7. CASE Respond(t)
    BY <2>7, RespondMapped DEF Store!Next
  <2> QED
    BY <1>1, <2>1, <2>2, <2>3, <2>4, <2>5, <2>6, <2>7 DEF Step, Query
<1>2. ASSUME Step(IoThread) PROVE [Store!Next]_Store!svars
  <2>1. IoThread \notin Worker /\ IoThread \in Thread
    BY ThreadAssumption DEF Thread
  <2>2. CASE LoadFile(IoThread)
    BY <2>2, LoadMapped DEF Store!Next
  <2>3. CASE IndexBegin(IoThread) \/ IndexPush(IoThread)
    BY <2>1, <2>3, IndexMapped
  <2> QED
    BY <1>2, <2>1, <2>2, <2>3, IoMapped DEF Step, Load
<1>3. ASSUME NEW t \in Worker, ReceiveRequest(t) PROVE [Store!Next]_Store!svars
  BY <1>3, ReceiveMapped DEF Store!Next
<1>4. CASE InfoCount(IoThread)
  BY <1>4, IoMapped
<1>5. CASE UNCHANGED vars
  <2>1. \A u \in Worker :
          PhaseOf(u)' = PhaseOf(u) /\ Asked(u)' = Asked(u) /\ AnswerOf(u)' = AnswerOf(u)
    BY <1>5 DEF vars, PhaseOf, Asked, AnswerOf, FinalMatches, Client
  <2>2. Videos' = Videos /\ Phases' = Phases /\ Requests' = Requests /\ Answers' = Answers
    BY <1>5, <2>1 DEF vars, Videos, Phases, Requests, Answers
  <2> QED
    BY <2>2 DEF Store!svars, Videos, Phases, Requests, Answers, Asked
<1> QED
  BY <1>1, <1>2, <1>3, <1>4, <1>5 DEF Next, Arrive, Thread

(* The match engine implements the store: whatever the threads do, every   *)
(* reply is one that adds and queries taking effect at single instants     *)
(* could have given.                                                       *)
THEOREM ImplementsTheStore == Spec => ImplementsMatchStore
<1>1. IInv /\ AddInv /\ IndexInv /\ OpInv /\ [Next]_vars => [Store!Next]_Store!svars
  BY StoreStep
<1> QED
  BY <1>1, StoreInit, InitStep, NextStep, AddInit, AddStep, IndexInit, IndexStep, OpInit, OpStep,
     PTL DEF Spec, ImplementsMatchStore, Store!Spec
=============================================================================
