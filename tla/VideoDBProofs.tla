--------------------------- MODULE VideoDBProofs ----------------------------
(***************************************************************************)
(* Proofs about VideoDB for any number of pool threads, any finite sets of *)
(* names and frames, and any scores.                                       *)
(***************************************************************************)
EXTENDS VideoDB, FiniteSetTheorems, TLAPS

-----------------------------------------------------------------------------
(***************************************************************************)
(* The inductive invariant.  TypeOK and RefExact need each other (a count  *)
(* that is given back must have been positive), and both need to know what *)
(* mutex_ protects.                                                        *)
(***************************************************************************)

(* The steps between taking and releasing mutex_.                          *)
LockedPc == {"load_next", "index", "push", "insert", "save_next", "save_item"}

MutexInv == \A t \in Thread : pc[t] \in LockedPc => mutex_ = t

(* The pool has nothing to do before the database is loaded.               *)
LoadInv ==
  pc[IoThread] = "load" =>
    /\ req[IoThread].op = "load"
    /\ db_ = {}
    /\ DOMAIN table_ = {}
    /\ \A t \in Worker : pc[t] = "idle"

(* What a thread's request holds at each of its steps.                     *)
RequestInv ==
  \A t \in Thread :
    /\ pc[t] \in {"add", "insert"} => req[t].name \in Name /\ req[t].frames \in FrameList
    /\ pc[t] = "insert" => req[t].name \notin db_
    /\ pc[t] \in {"index", "push"} => req[t].name \in db_
    /\ pc[t] = "lookup" => req[t].name \in Name
    /\ pc[t] \in {"candidates", "check"} => req[t].frames \in FrameList

(* Everything that refers to a video refers to one in db_.                 *)
StoreInv ==
  /\ \A n \in db_ : frames_[n] \in FrameList
  /\ \A s \in DOMAIN table_ : \A i \in DOMAIN table_[s] : table_[s][i][2] \in db_
  /\ \A t \in Thread : left[t] \subseteq db_ /\ held[t] \subseteq db_

(* References are held only where they are used.                           *)
HeldInv == \A t \in Thread : pc[t] \notin {"check", "save_item"} => held[t] = {}

IInv == TypeOK /\ RefExact /\ MutexInv /\ LoadInv /\ RequestInv /\ StoreInv /\ HeldInv

-----------------------------------------------------------------------------
(***************************************************************************)
(* Facts about the data.                                                   *)
(***************************************************************************)

(* The type of an index.                                                   *)
Index(table) ==
  /\ DOMAIN table \in SUBSET Slot
  /\ \A s \in DOMAIN table : table[s] \in KeyBlock

(* A video is indexed by finitely many frames.                             *)
LEMMA UniqueFramesType ==
  ASSUME NEW fs \in FrameList \cup {<< >>}
  PROVE  /\ UniqueFrames(fs) \in SUBSET Frame
         /\ Cardinality(UniqueFrames(fs)) \in Nat
<1>1. fs \in Seq(Frame)
  <2>1. CASE fs \in FrameList
    BY <2>1, IndexAssumption
  <2>2. CASE fs = << >>
    BY <2>2
  <2> QED
    BY <2>1, <2>2
<1>2. UniqueFrames(fs) \in SUBSET Frame
  BY <1>1 DEF UniqueFrames, Range
<1>3. IsFiniteSet(UniqueFrames(fs))
  BY <1>2, FS_Subset, IndexAssumption
<1> QED
  BY <1>2, <1>3, FS_CardinalityType

(* There are finitely many slots.                                          *)
LEMMA SlotFinite == IsFiniteSet(Slot)
<1> DEFINE f == [k \in Frame |-> key_shorten(k)]
<1>1. f \in Surjection(Frame, Slot)
  BY DEF Surjection, Slot
<1> QED
  BY <1>1, FS_Surjection, IndexAssumption

(* Pushing a pair keeps an index an index, and lists nothing else.         *)
LEMMA PushPairType ==
  ASSUME NEW table, Index(table), NEW k \in Frame, NEW n \in Name
  PROVE  /\ Index(PushPair(table, k, n))
         /\ \A s \in DOMAIN PushPair(table, k, n) : \A i \in DOMAIN PushPair(table, k, n)[s] :
              \/ PushPair(table, k, n)[s][i][2] = n
              \/ s \in DOMAIN table /\ i \in DOMAIN table[s]
                   /\ PushPair(table, k, n)[s][i] = table[s][i]
<1> DEFINE T == PushPair(table, k, n)
           c == key_shorten(k)
<1>1. c \in Slot
  BY DEF Slot
<1>2. Block(table, c) \in KeyBlock
  BY DEF Block, Index, KeyBlock
<1>3. DOMAIN T = DOMAIN table \cup {c}
  BY DEF PushPair
<1>4. T[c] = Append(Block(table, c), <<k, n>>)
  BY DEF PushPair
<1>5. ASSUME NEW s \in DOMAIN T, s # c
      PROVE  s \in DOMAIN table /\ T[s] = table[s]
  BY <1>5, <1>3 DEF PushPair
<1>6. T[c] \in KeyBlock
  BY <1>2, <1>4 DEF KeyBlock
<1>7. Index(T)
  BY <1>1, <1>3, <1>5, <1>6 DEF Index
<1>8. ASSUME NEW i \in DOMAIN T[c]
      PROVE  T[c][i][2] = n \/ (c \in DOMAIN table /\ i \in DOMAIN table[c] /\ T[c][i] = table[c][i])
  <2>1. CASE i = Len(Block(table, c)) + 1
    BY <2>1, <1>2, <1>4 DEF KeyBlock
  <2>2. CASE i # Len(Block(table, c)) + 1
    <3>1. i \in 1..Len(Block(table, c)) /\ T[c][i] = Block(table, c)[i]
      BY <2>2, <1>2, <1>4, <1>8 DEF KeyBlock
    <3>2. c \in DOMAIN table
      BY <3>1 DEF Block
    <3> QED
      BY <3>1, <3>2, <1>2 DEF Block, KeyBlock
  <2> QED
    BY <2>1, <2>2
<1> QED
  BY <1>5, <1>7, <1>8

(* Every candidate is listed in the index.                                 *)
LEMMA CandidatesListed ==
  ASSUME NEW table, NEW uniq, NEW fs, NEW n \in Candidates(table, uniq, fs)
  PROVE  n \in Name /\ \E s \in DOMAIN table : \E i \in DOMAIN table[s] : table[s][i][2] = n
<1>1. PICK k : n \in VideosWith(table, k)
  BY DEF Candidates
<1> DEFINE c == key_shorten(k)
<1>2. n \in Name /\ <<k, n>> \in Range(Block(table, c))
  BY <1>1 DEF VideosWith
<1>3. PICK i \in DOMAIN Block(table, c) : Block(table, c)[i] = <<k, n>>
  BY <1>2 DEF Range
<1>4. c \in DOMAIN table
  BY <1>3 DEF Block
<1> QED
  BY <1>2, <1>3, <1>4 DEF Block

(* Sorting a finite set of results gives a list of results.                *)
LEMMA SortedType ==
  ASSUME NEW R \in SUBSET (Name \X (0..100)), NEW s \in Sorted(R)
  PROVE  Cardinality(R) \in Nat /\ s \in Seq(Name \X (0..100))
<1>1. IsFiniteSet(R)
  <2>1. IsFiniteSet(0..100)
    <3>1. \A n \in Nat : IsFiniteSet(0..n)
      BY FS_Interval
    <3> QED
      BY <3>1
  <2>2. IsFiniteSet(Name \X (0..100))
    BY <2>1, FS_Product, IndexAssumption
  <2> QED
    BY <2>2, FS_Subset
<1>2. Cardinality(R) \in Nat
  BY <1>1, FS_CardinalityType
<1>3. s \in [1..Cardinality(R) -> Name \X (0..100)]
  BY DEF Sorted
<1> QED
  BY <1>2, <1>3

(* What /info reports are numbers.                                         *)
LEMMA InfoNumbers ==
  ASSUME TypeOK
  PROVE  /\ Cardinality(db_) \in Nat
         /\ FramesCount \in Nat
         /\ FrameTableSize \in Nat
<1>1. IsFiniteSet(db_)
  BY FS_Subset, IndexAssumption DEF TypeOK
<1>2. IsFiniteSet(DOMAIN table_)
  BY SlotFinite, FS_Subset DEF TypeOK
<1> DEFINE pairs(s) == {s} \X DOMAIN table_[s]
           P == {pairs(s) : s \in DOMAIN table_}
           f == [s \in DOMAIN table_ |-> pairs(s)]
<1>3. IsFiniteSet(P)
  <2>1. f \in Surjection(DOMAIN table_, P)
    BY DEF Surjection
  <2> QED
    BY <2>1, <1>2, FS_Surjection
<1>4. ASSUME NEW s \in DOMAIN table_
      PROVE  IsFiniteSet(pairs(s))
  <2>1. DOMAIN table_[s] = 1..Len(table_[s]) /\ Len(table_[s]) \in Nat
    BY DEF TypeOK, KeyBlock
  <2>2. IsFiniteSet(DOMAIN table_[s])
    BY <2>1, FS_Interval
  <2> QED
    BY <2>2, FS_Product, FS_Singleton
<1>5. IsFiniteSet(UNION P)
  BY <1>3, <1>4, FS_UNION
<1>6. FramesCount = Cardinality(UNION P)
  BY DEF FramesCount
<1> QED
  BY <1>1, <1>2, <1>5, <1>6, FS_CardinalityType DEF FrameTableSize

-----------------------------------------------------------------------------
(* What Load puts in memory for a file of the videos in S.                 *)
LoadsFile(S, file, t) ==
  /\ db_' = S
  /\ left' = [left EXCEPT ![t] = S]
  /\ frames_' = [n \in Name |-> IF n \in S THEN file[n] ELSE << >>]
  /\ table_' = [s \in {key_shorten(k) : k \in UNION {Range(file[n]) : n \in S}} |-> << >>]

(* A score is a percentage.                                                *)
LEMMA ScoreType ==
  ASSUME NEW a \in FrameList, NEW b \in FrameList
  PROVE  Score[<<a, b>>] \in 0..100
<1>1. <<a, b>> \in FrameList \X FrameList
  OBVIOUS
<1> QED
  BY <1>1, IndexAssumption

(* 1 when n is one of the members of S, 0 when it is not.                  *)
One(n, S) == IF n \in S THEN 1 ELSE 0

(* One thread changing what it holds changes the number of holders by one  *)
(* at most, and never below zero.                                          *)
LEMMA HoldersChange ==
  ASSUME NEW h \in [Thread -> SUBSET Name], NEW t \in Thread, NEW H \in SUBSET Name, NEW n,
         NEW new, new = [h EXCEPT ![t] = H]
  PROVE  /\ Cardinality(Holders(new, n)) \in Nat
         /\ Cardinality(Holders(new, n)) =
              Cardinality(Holders(h, n)) + One(n, H) - One(n, h[t])
<1> DEFINE A   == Holders(h, n)
           B   == Holders(new, n)
<1>1. IsFiniteSet(Thread)
  BY ThreadAssumption, FS_AddElement DEF Thread
<1>2. IsFiniteSet(A) /\ IsFiniteSet(B)
  BY <1>1, FS_Subset DEF Holders
<1>3. Cardinality(A) \in Nat /\ Cardinality(B) \in Nat
  BY <1>2, FS_CardinalityType
<1>4. t \in A <=> n \in h[t]
  BY DEF Holders
<1>5. CASE n \in H
  <2>1. B = A \cup {t}
    BY <1>5 DEF Holders
  <2>2. Cardinality(A \cup {t}) = IF t \in A THEN Cardinality(A) ELSE Cardinality(A) + 1
    BY <1>2, FS_AddElement
  <2>3. Cardinality(B) = IF n \in h[t] THEN Cardinality(A) ELSE Cardinality(A) + 1
    BY <1>4, <2>1, <2>2
  <2> QED
    BY <1>3, <1>5, <2>3 DEF One
<1>6. CASE n \notin H
  <2>1. B = A \ {t}
    BY <1>6 DEF Holders
  <2>2. Cardinality(A \ {t}) = IF t \in A THEN Cardinality(A) - 1 ELSE Cardinality(A)
    BY <1>2, FS_RemoveElement
  <2>3. Cardinality(B) = IF n \in h[t] THEN Cardinality(A) - 1 ELSE Cardinality(A)
    BY <1>4, <2>1, <2>2
  <2> QED
    BY <1>3, <1>6, <2>3 DEF One
<1> QED
  BY <1>5, <1>6

(* So a thread that counts up what it takes and counts down what it gives  *)
(* back keeps the counts exact.                                            *)
LEMMA RefStep ==
  ASSUME TypeOK, RefExact, NEW t \in Thread, NEW H \in SUBSET Name,
         held' = [held EXCEPT ![t] = H],
         ref_' = [n \in Name |->
                    ref_[n] + One(n, H) - One(n, held[t])]
  PROVE  RefExact' /\ ref_' \in [Name -> Nat]
<1>1. held \in [Thread -> SUBSET Name]
  BY DEF TypeOK
<1>2. ASSUME NEW n \in Name
      PROVE  ref_'[n] = Cardinality(Holders(held', n)) /\ ref_'[n] \in Nat
  <2>1. ref_[n] = Cardinality(Holders(held, n))
    BY DEF RefExact
  <2>2. ref_'[n] = Cardinality(Holders(held, n)) + One(n, H) - One(n, held[t])
    BY <2>1
  <2>3. /\ Cardinality(Holders(held', n)) \in Nat
        /\ Cardinality(Holders(held', n)) =
             Cardinality(Holders(held, n)) + One(n, H) - One(n, held[t])
    BY <1>1, HoldersChange
  <2> QED
    BY <2>2, <2>3
<1> QED
  BY <1>2 DEF RefExact

(* The two steps that give references back.                                *)
LEMMA CandidateChecked ==
  ASSUME TypeOK, RefExact, NEW t \in Thread, CheckCandidate(t)
  PROVE  RefExact' /\ held' \in [Thread -> SUBSET Name] /\ ref_' \in [Name -> Nat]
<1>1. PICK n \in held[t] : /\ ref_' = [ref_ EXCEPT ![n] = @ - 1]
                           /\ held' = [held EXCEPT ![t] = @ \ {n}]
  BY DEF CheckCandidate
<1> DEFINE H == held[t] \ {n}
<1>2. H \in SUBSET Name /\ n \in Name
  BY DEF TypeOK
<1>3. held' = [held EXCEPT ![t] = H]
  BY <1>1
<1>4. ref_' = [m \in Name |->
                 ref_[m] + One(m, H) - One(m, held[t])]
  <2>1. ref_ \in [Name -> Nat]
    BY DEF TypeOK
  <2>2. ASSUME NEW m \in Name
        PROVE  ref_'[m] = ref_[m] + One(m, H) - One(m, held[t])
    <3>1. CASE m = n
      BY <1>1, <1>2, <2>1, <3>1 DEF One
    <3>2. CASE m # n
      BY <1>1, <1>2, <2>1, <3>2 DEF One
    <3> QED
      BY <3>1, <3>2
  <2>3. ref_' = [m \in Name |-> ref_'[m]]
    BY <1>1, <2>1
  <2> QED
    BY <2>2, <2>3
<1>5. RefExact' /\ ref_' \in [Name -> Nat]
  BY <1>2, <1>3, <1>4, RefStep
<1> QED
  BY <1>2, <1>3, <1>5 DEF TypeOK

LEMMA ItemSaved ==
  ASSUME TypeOK, RefExact, NEW t \in Thread, SaveItemDone(t)
  PROVE  RefExact' /\ ref_' \in [Name -> Nat]
<1>1. held' = [held EXCEPT ![t] = {}]
  BY DEF SaveItemDone
<1>2. ref_' = [m \in Name |->
                 ref_[m] + One(m, {}) - One(m, held[t])]
  BY DEF SaveItemDone, TypeOK, One
<1>3. {} \in SUBSET Name
  OBVIOUS
<1> QED
  BY <1>1, <1>2, <1>3, RefStep

(* The initial state satisfies the invariant.                              *)
LEMMA InitStep == Init => IInv
<1> SUFFICES ASSUME Init PROVE IInv
  OBVIOUS
<1>1. TypeOK
  BY IndexAssumption DEF Init, TypeOK, PcValues, ReqType, ReplyType, InfoType, NoReq, NoReply, NoInfo, UNSET, Thread
<1>2. RefExact
  <2>1. \A n \in Name : Holders(held, n) = {}
    BY DEF Init, Holders
  <2> QED
    BY <2>1, FS_EmptySet DEF Init, RefExact
<1>3. MutexInv /\ RequestInv /\ HeldInv
  BY DEF Init, MutexInv, RequestInv, HeldInv, LockedPc
<1>4. LoadInv
  BY ThreadAssumption DEF Init, LoadInv, Thread, NoReq
<1>5. StoreInv
  BY DEF Init, StoreInv
<1> QED
  BY <1>1, <1>2, <1>3, <1>4, <1>5 DEF IInv

(* Every step preserves it.                                                *)
LEMMA NextStep == IInv /\ [Next]_vars => IInv'
<1> SUFFICES ASSUME IInv, [Next]_vars PROVE IInv'
  OBVIOUS
<1> USE DEF IInv, Goto, MutexFree, Lock, Unlock, Serving
<1>1. ASSUME NEW t \in Thread, IndexBegin(t) PROVE IInv'
  <2>1. TypeOK'
    <3>1. req[t].name \in Name /\ frames_[req[t].name] \in FrameList \cup {<< >>}
      BY <1>1 DEF IndexBegin, RequestInv, TypeOK
    <3>2. QED
      BY <1>1, <3>1, UniqueFramesType DEF IndexBegin, TypeOK, PcValues
  <2>2. RefExact'
    BY <1>1 DEF IndexBegin, RefExact
  <2>3. MutexInv' /\ LoadInv' /\ HeldInv'
    BY <1>1 DEF IndexBegin, TypeOK, Thread, MutexInv, LoadInv, HeldInv, LockedPc
  <2>4. RequestInv'
    BY <1>1 DEF IndexBegin, TypeOK, Thread, RequestInv, MutexInv, LoadInv, LockedPc
  <2>5. StoreInv'
    BY <1>1 DEF IndexBegin, TypeOK, Thread, StoreInv, RequestInv
  <2> QED
    BY <2>1, <2>2, <2>3, <2>4, <2>5
<1>2. ASSUME NEW t \in Thread, IndexPush(t) PROVE IInv'
  <2>1. TypeOK'
    <3>1. PICK k \in todo[t] : /\ table_' = PushPair(table_, k, req[t].name)
                               /\ todo' = [todo EXCEPT ![t] = @ \ {k}]
      BY <1>2 DEF IndexPush
    <3>2. k \in Frame /\ req[t].name \in Name
      BY <1>2 DEF IndexPush, RequestInv, TypeOK
    <3>3. Index(table_')
      BY <3>1, <3>2, PushPairType DEF TypeOK, Index
    <3> QED
      BY <1>2, <3>1, <3>3 DEF IndexPush, TypeOK, Index
  <2>2. RefExact'
    BY <1>2 DEF IndexPush, RefExact
  <2>3. MutexInv' /\ LoadInv' /\ HeldInv'
    BY <1>2 DEF IndexPush, TypeOK, Thread, MutexInv, LoadInv, HeldInv, LockedPc
  <2>4. RequestInv'
    BY <1>2 DEF IndexPush, TypeOK, Thread, RequestInv, MutexInv, LoadInv, LockedPc
  <2>5. StoreInv'
    <3>1. PICK k \in todo[t] : table_' = PushPair(table_, k, req[t].name)
      BY <1>2 DEF IndexPush
    <3>2. k \in Frame /\ req[t].name \in Name /\ req[t].name \in db_
      BY <1>2 DEF IndexPush, RequestInv, TypeOK
    <3>3. Index(table_)
      BY DEF TypeOK, Index
    <3>4. \A s \in DOMAIN table_' : \A i \in DOMAIN table_'[s] : table_'[s][i][2] \in db_
      BY <3>1, <3>2, <3>3, PushPairType DEF StoreInv
    <3> QED
      BY <1>2, <3>4 DEF IndexPush, StoreInv
  <2> QED
    BY <2>1, <2>2, <2>3, <2>4, <2>5
<1>3. ASSUME NEW t \in Thread, Respond(t) PROVE IInv'
  <2>1. TypeOK'
    BY <1>3 DEF Respond, NoReq, NoReply, NoInfo, ReplyType, InfoType, TypeOK, Thread, PcValues, ReqType
  <2>2. RefExact'
    BY <1>3 DEF Respond, RefExact
  <2>3. MutexInv' /\ LoadInv' /\ HeldInv'
    BY <1>3 DEF Respond, TypeOK, Thread, MutexInv, LoadInv, HeldInv, LockedPc
  <2>4. RequestInv'
    BY <1>3 DEF Respond, TypeOK, Thread, RequestInv, MutexInv, LoadInv, LockedPc
  <2>5. StoreInv'
    BY <1>3 DEF Respond, TypeOK, Thread, StoreInv, RequestInv
  <2> QED
    BY <2>1, <2>2, <2>3, <2>4, <2>5
<1>4. ASSUME NEW t \in Thread, t = IoThread, LoadFile(t) PROVE IInv'
  <2>1. TypeOK'
    <3>0. PICK S \in SUBSET Name : \E file \in [S -> FrameList] : LoadsFile(S, file, t)
      BY <1>4 DEF LoadFile, LoadsFile
    <3>1. PICK file \in [S -> FrameList] :
            /\ db_' = S
            /\ left' = [left EXCEPT ![t] = S]
            /\ frames_' = [n \in Name |-> IF n \in S THEN file[n] ELSE << >>]
            /\ table_' = [s \in {key_shorten(k) : k \in UNION {Range(file[n]) : n \in S}} |-> << >>]
      BY <3>0 DEF LoadsFile
    <3>2. \A n \in S : Range(file[n]) \subseteq Frame
      <4>1. \A fs \in FrameList : fs \in Seq(Frame)
        BY IndexAssumption
      <4> QED
        BY <4>1 DEF Range
    <3>3. DOMAIN table_' \in SUBSET Slot /\ \A s \in DOMAIN table_' : table_'[s] \in KeyBlock
      BY <3>1, <3>2 DEF Slot, KeyBlock
    <3> QED
      BY <1>4, <3>1, <3>3 DEF LoadFile, TypeOK, PcValues
  <2>2. RefExact'
    BY <1>4 DEF LoadFile, RefExact
  <2>3. MutexInv' /\ LoadInv' /\ HeldInv'
    BY <1>4 DEF LoadFile, TypeOK, Thread, MutexInv, LoadInv, HeldInv, LockedPc
  <2>4. RequestInv'
    BY <1>4 DEF LoadFile, TypeOK, Thread, RequestInv, MutexInv, LoadInv, LockedPc
  <2>5. StoreInv'
    <3>0. PICK S \in SUBSET Name : \E file \in [S -> FrameList] : LoadsFile(S, file, t)
      BY <1>4 DEF LoadFile, LoadsFile
    <3>1. PICK file \in [S -> FrameList] :
            /\ db_' = S
            /\ left' = [left EXCEPT ![t] = S]
            /\ frames_' = [n \in Name |-> IF n \in S THEN file[n] ELSE << >>]
            /\ table_' = [s \in {key_shorten(k) : k \in UNION {Range(file[n]) : n \in S}} |-> << >>]
      BY <3>0 DEF LoadsFile
    <3>2. \A n \in db_' : frames_'[n] \in FrameList
      BY <3>1
    <3>3. \A s \in DOMAIN table_' : \A i \in DOMAIN table_'[s] : table_'[s][i][2] \in db_'
      BY <3>1
    <3>4. \A u \in Thread : left[u] = {} /\ held[u] = {}
      BY <1>4 DEF LoadFile, LoadInv, StoreInv
    <3>5. \A u \in Thread : left'[u] \subseteq db_' /\ held'[u] \subseteq db_'
      BY <1>4, <3>1, <3>4 DEF LoadFile, TypeOK
    <3> QED
      BY <3>2, <3>3, <3>5 DEF StoreInv
  <2> QED
    BY <2>1, <2>2, <2>3, <2>4, <2>5
<1>5. ASSUME NEW t \in Thread, t = IoThread, LoadNext(t) PROVE IInv'
  <2>1. TypeOK'
    BY <1>5 DEF LoadNext, TypeOK, Thread, PcValues, ReqType
  <2>2. RefExact'
    BY <1>5 DEF LoadNext, RefExact
  <2>3. MutexInv' /\ LoadInv' /\ HeldInv'
    BY <1>5 DEF LoadNext, TypeOK, Thread, MutexInv, LoadInv, HeldInv, LockedPc
  <2>4. RequestInv'
    BY <1>5 DEF LoadNext, TypeOK, RequestInv, StoreInv, MutexInv, LockedPc, ReqType, Thread
  <2>5. StoreInv'
    BY <1>5 DEF LoadNext, TypeOK, Thread, StoreInv, RequestInv
  <2> QED
    BY <2>1, <2>2, <2>3, <2>4, <2>5
<1>6. ASSUME NEW t \in Thread, t = IoThread, LoadIndexed(t) PROVE IInv'
  <2>1. TypeOK'
    BY <1>6 DEF LoadIndexed, TypeOK, Thread, PcValues, ReqType
  <2>2. RefExact'
    BY <1>6 DEF LoadIndexed, RefExact
  <2>3. MutexInv' /\ LoadInv' /\ HeldInv'
    BY <1>6 DEF LoadIndexed, TypeOK, Thread, MutexInv, LoadInv, HeldInv, LockedPc
  <2>4. RequestInv'
    BY <1>6 DEF LoadIndexed, TypeOK, Thread, RequestInv, MutexInv, LoadInv, LockedPc
  <2>5. StoreInv'
    BY <1>6 DEF LoadIndexed, TypeOK, Thread, StoreInv, RequestInv
  <2> QED
    BY <2>1, <2>2, <2>3, <2>4, <2>5
<1>7. ASSUME NEW t \in Thread, t = IoThread, LoadDone(t) PROVE IInv'
  <2>1. TypeOK'
    BY <1>7 DEF LoadDone, NoReq, TypeOK, Thread, PcValues, ReqType
  <2>2. RefExact'
    BY <1>7 DEF LoadDone, RefExact
  <2>3. MutexInv' /\ LoadInv' /\ HeldInv'
    BY <1>7 DEF LoadDone, TypeOK, Thread, MutexInv, LoadInv, HeldInv, LockedPc
  <2>4. RequestInv'
    BY <1>7 DEF LoadDone, TypeOK, Thread, RequestInv, MutexInv, LoadInv, LockedPc
  <2>5. StoreInv'
    BY <1>7 DEF LoadDone, TypeOK, Thread, StoreInv, RequestInv
  <2> QED
    BY <2>1, <2>2, <2>3, <2>4, <2>5
<1>8. ASSUME NEW t \in Thread, ReceiveRequest(t) PROVE IInv'
  <2>1. TypeOK'
    <3>1. PICK r, step : Receive(t, r, step) /\ r \in ReqType /\ step \in PcValues
      <4>1. ASSUME NEW n \in Name, NEW fs \in FrameList
            PROVE  [op |-> "add", name |-> n, frames |-> fs] \in ReqType
        BY DEF ReqType
      <4>2. ASSUME NEW fs \in FrameList
            PROVE  [op |-> "query", name |-> NoName, frames |-> fs] \in ReqType
        BY DEF ReqType
      <4>3. [NoReq EXCEPT !.op = "save"] \in ReqType
        BY DEF NoReq, ReqType
      <4>4. {"add", "candidates", "lookup", "save"} \subseteq PcValues
        BY DEF PcValues
      <4>5. CASE \E n \in Name, fs \in FrameList :
                   Receive(t, [op |-> "add", name |-> n, frames |-> fs], "add")
        BY <4>1, <4>4, <4>5
      <4>6. CASE \E fs \in FrameList :
                   Receive(t, [op |-> "query", name |-> NoName, frames |-> fs], "candidates")
        BY <4>2, <4>4, <4>6
      <4>7. CASE \E n \in Name :
                   Receive(t, [op |-> "key", name |-> n, frames |-> << >>], "lookup")
        <5>1. ASSUME NEW n \in Name
              PROVE  [op |-> "key", name |-> n, frames |-> << >>] \in ReqType
          BY DEF ReqType
        <5> QED
          BY <4>4, <4>7, <5>1
      <4>8. CASE Receive(t, [NoReq EXCEPT !.op = "save"], "save")
        BY <4>3, <4>4, <4>8
      <4> QED
        BY <1>8, <4>5, <4>6, <4>7, <4>8 DEF ReceiveRequest
    <3>2. pc' \in [Thread -> PcValues] /\ req' \in [Thread -> ReqType]
      BY <3>1 DEF Receive, Goto, TypeOK
    <3> QED
      BY <3>1, <3>2 DEF Receive, TypeOK
  <2>2. RefExact'
    BY <1>8 DEF ReceiveRequest, Receive, RefExact
  <2>3. MutexInv' /\ LoadInv' /\ HeldInv'
    <3>1. PICK r, step : Receive(t, r, step) /\ step \in {"add", "candidates", "lookup", "save"}
      BY <1>8 DEF ReceiveRequest
    <3>2. /\ Serving /\ pc[t] = "idle" /\ pc' = [pc EXCEPT ![t] = step]
          /\ req' = [req EXCEPT ![t] = r]
          /\ UNCHANGED <<mutex_, db_, table_, held>>
      BY <3>1 DEF Receive, Goto
    <3>3. pc \in [Thread -> PcValues] /\ req \in [Thread -> ReqType] /\ IoThread \in Thread
      BY DEF TypeOK, Thread
    <3>4. MutexInv'
      BY <3>1, <3>2, <3>3 DEF MutexInv, LockedPc
    <3>5. LoadInv'
      BY <3>1, <3>2, <3>3 DEF LoadInv, Serving
    <3>6. HeldInv'
      BY <3>1, <3>2, <3>3 DEF HeldInv
    <3> QED
      BY <3>4, <3>5, <3>6
  <2>4. RequestInv'
    <3>1. ASSUME NEW r, NEW step, Receive(t, r, step),
                 \/ step = "add" /\ r.name \in Name /\ r.frames \in FrameList
                 \/ step = "candidates" /\ r.frames \in FrameList
                 \/ step = "lookup" /\ r.name \in Name
                 \/ step = "save"
          PROVE  RequestInv'
      BY <3>1 DEF Receive, TypeOK, RequestInv
    <3>2. CASE \E n \in Name, fs \in FrameList :
                 Receive(t, [op |-> "add", name |-> n, frames |-> fs], "add")
      BY <3>1, <3>2
    <3>3. CASE \E fs \in FrameList :
                 Receive(t, [op |-> "query", name |-> NoName, frames |-> fs], "candidates")
      BY <3>1, <3>3
    <3>4. CASE \E n \in Name :
                 Receive(t, [op |-> "key", name |-> n, frames |-> << >>], "lookup")
      BY <3>1, <3>4
    <3>5. CASE Receive(t, [NoReq EXCEPT !.op = "save"], "save")
      BY <3>1, <3>5
    <3> QED
      BY <1>8, <3>2, <3>3, <3>4, <3>5 DEF ReceiveRequest
  <2>5. StoreInv'
    BY <1>8 DEF ReceiveRequest, Receive, TypeOK, Thread, StoreInv, RequestInv
  <2> QED
    BY <2>1, <2>2, <2>3, <2>4, <2>5
<1>9. ASSUME NEW t \in Thread, AddExists(t) PROVE IInv'
  <2>1. TypeOK'
    BY <1>9 DEF AddExists, Code, ReplyType, TypeOK, Thread, PcValues, ReqType
  <2>2. RefExact'
    BY <1>9 DEF AddExists, RefExact
  <2>3. MutexInv' /\ LoadInv' /\ HeldInv'
    BY <1>9 DEF AddExists, TypeOK, Thread, MutexInv, LoadInv, HeldInv, LockedPc
  <2>4. RequestInv'
    BY <1>9 DEF AddExists, TypeOK, Thread, RequestInv, MutexInv, LoadInv, LockedPc
  <2>5. StoreInv'
    BY <1>9 DEF AddExists, TypeOK, Thread, StoreInv, RequestInv
  <2> QED
    BY <2>1, <2>2, <2>3, <2>4, <2>5
<1>10. ASSUME NEW t \in Thread, AddNew(t) PROVE IInv'
  <2>1. TypeOK'
    BY <1>10 DEF AddNew, TypeOK, Thread, PcValues, ReqType
  <2>2. RefExact'
    BY <1>10 DEF AddNew, RefExact
  <2>3. MutexInv' /\ LoadInv' /\ HeldInv'
    BY <1>10, ThreadAssumption DEF AddNew, TypeOK, MutexInv, LoadInv, HeldInv, LockedPc, Thread
  <2>4. RequestInv'
    BY <1>10 DEF AddNew, TypeOK, Thread, RequestInv, MutexInv, LoadInv, LockedPc
  <2>5. StoreInv'
    BY <1>10 DEF AddNew, TypeOK, Thread, StoreInv, RequestInv
  <2> QED
    BY <2>1, <2>2, <2>3, <2>4, <2>5
<1>11. ASSUME NEW t \in Thread, AddInsert(t) PROVE IInv'
  <2>1. TypeOK'
    BY <1>11 DEF AddInsert, RequestInv, UNSET, TypeOK, Thread, PcValues, ReqType
  <2>2. RefExact'
    <3>1. \A u \in Thread : req[t].name \notin held[u]
      BY <1>11 DEF AddInsert, RequestInv, StoreInv
    <3>2. Holders(held, req[t].name) = {}
      BY <3>1 DEF Holders
    <3>3. Cardinality(Holders(held, req[t].name)) = 0
      BY <3>2, FS_EmptySet
    <3> QED
      BY <1>11, <3>3 DEF AddInsert, RefExact, TypeOK
  <2>3. MutexInv' /\ LoadInv' /\ HeldInv'
    BY <1>11 DEF AddInsert, TypeOK, Thread, MutexInv, LoadInv, HeldInv, LockedPc
  <2>4. RequestInv'
    BY <1>11 DEF AddInsert, TypeOK, Thread, RequestInv, MutexInv, LoadInv, LockedPc
  <2>5. StoreInv'
    BY <1>11 DEF AddInsert, TypeOK, Thread, StoreInv, RequestInv
  <2> QED
    BY <2>1, <2>2, <2>3, <2>4, <2>5
<1>12. ASSUME NEW t \in Thread, AddDone(t) PROVE IInv'
  <2>1. TypeOK'
    BY <1>12 DEF AddDone, Code, ReplyType, TypeOK, Thread, PcValues, ReqType
  <2>2. RefExact'
    BY <1>12 DEF AddDone, RefExact
  <2>3. MutexInv' /\ LoadInv' /\ HeldInv'
    BY <1>12 DEF AddDone, TypeOK, Thread, MutexInv, LoadInv, HeldInv, LockedPc
  <2>4. RequestInv'
    BY <1>12 DEF AddDone, TypeOK, Thread, RequestInv, MutexInv, LoadInv, LockedPc
  <2>5. StoreInv'
    BY <1>12 DEF AddDone, TypeOK, Thread, StoreInv, RequestInv
  <2> QED
    BY <2>1, <2>2, <2>3, <2>4, <2>5
<1>13. ASSUME NEW t \in Thread, Lookup(t) PROVE IInv'
  <2>1. TypeOK'
    <3>1. req[t].name \in db_ => [req[t] EXCEPT !.frames = frames_[req[t].name]] \in ReqType
      <4>1. req[t] \in ReqType /\ frames_ \in [Name -> FrameList \cup {<< >>}] /\ db_ \in SUBSET Name
        BY DEF TypeOK
      <4>2. ASSUME req[t].name \in db_ PROVE frames_[req[t].name] \in FrameList \cup {<< >>}
        BY <4>1, <4>2
      <4> QED
        BY <4>1, <4>2 DEF ReqType
    <3>2. Code(-1) \in ReplyType
      <4>1. << >> \in Seq(Name \X (0..100)) /\ -1 \in Int
        OBVIOUS
      <4> QED
        BY <4>1 DEF Code, ReplyType
    <3>3. pc' \in [Thread -> PcValues]
      <4>1. \/ pc' = [pc EXCEPT ![t] = "candidates"]
            \/ pc' = [pc EXCEPT ![t] = "done"]
        BY <1>13 DEF Lookup
      <4>2. pc \in [Thread -> PcValues] /\ {"candidates", "done"} \subseteq PcValues
        BY DEF TypeOK, PcValues
      <4> QED
        BY <4>1, <4>2
    <3>4. req' \in [Thread -> ReqType]
      <4>1. req \in [Thread -> ReqType]
        BY DEF TypeOK
      <4>2. \/ req' = req
            \/ /\ req[t].name \in db_
               /\ req' = [req EXCEPT ![t] = [req[t] EXCEPT !.frames = frames_[req[t].name]]]
        BY <1>13 DEF Lookup
      <4> QED
        BY <3>1, <4>1, <4>2
    <3>5. reply' \in [Thread -> ReplyType]
      <4>1. reply \in [Thread -> ReplyType]
        BY DEF TypeOK
      <4>2. reply' = reply \/ reply' = [reply EXCEPT ![t] = Code(-1)]
        BY <1>13 DEF Lookup
      <4> QED
        BY <3>2, <4>1, <4>2
    <3>6. UNCHANGED <<mutex_, db_, frames_, uniq_frm_cnt, ref_, table_,
                      todo, left, held, result, info>>
      BY <1>13 DEF Lookup
    <3> QED
      BY <3>3, <3>4, <3>5, <3>6 DEF TypeOK
  <2>2. RefExact'
    BY <1>13 DEF Lookup, RefExact
  <2>3. MutexInv' /\ LoadInv' /\ HeldInv'
    <3>1. /\ \/ pc' = [pc EXCEPT ![t] = "candidates"]
             \/ pc' = [pc EXCEPT ![t] = "done"]
          /\ pc[t] = "lookup"
          /\ \/ req' = req
             \/ req' = [req EXCEPT ![t].frames = frames_[req[t].name]]
          /\ UNCHANGED <<mutex_, db_, table_, held>>
      BY <1>13 DEF Lookup
    <3>2. ASSUME NEW u \in Thread PROVE req'[u].op = req[u].op
      <4>1. req \in [Thread -> ReqType] /\ req[u] \in ReqType
        BY DEF TypeOK
      <4>2. req'[u] = req[u] \/ req'[u] = [req[u] EXCEPT !.frames = frames_[req[t].name]]
        BY <3>1, <4>1
      <4> QED
        BY <4>1, <4>2 DEF ReqType
    <3>3. \A u \in Thread : u # t => pc'[u] = pc[u]
      BY <3>1 DEF TypeOK
    <3>4. pc'[t] \in {"candidates", "done"}
      BY <3>1 DEF TypeOK
    <3> QED
      BY <3>1, <3>2, <3>3, <3>4 DEF Thread, MutexInv, LoadInv, HeldInv, LockedPc
  <2>4. RequestInv'
    <3>1. CASE req[t].name \in db_
      BY <1>13, <3>1 DEF Lookup, TypeOK, ReqType, RequestInv, StoreInv
    <3>2. CASE req[t].name \notin db_
      BY <1>13, <3>2 DEF Lookup, TypeOK, RequestInv
    <3> QED
      BY <3>1, <3>2
  <2>5. StoreInv'
    BY <1>13 DEF Lookup, TypeOK, Thread, StoreInv, RequestInv
  <2> QED
    BY <2>1, <2>2, <2>3, <2>4, <2>5
<1>14. ASSUME NEW t \in Thread, GetCandidates(t) PROVE IInv'
  <2>1. TypeOK'
    <3> DEFINE cand == Candidates(table_, uniq_frm_cnt, req[t].frames)
    <3>1. cand \in SUBSET Name
      BY CandidatesListed
    <3>2. held' = [held EXCEPT ![t] = cand] /\ held' \in [Thread -> SUBSET Name]
      BY <1>14, <3>1 DEF GetCandidates, TypeOK
    <3>3. ref_' \in [Name -> Nat]
      BY <1>14, <3>1 DEF GetCandidates, TypeOK
    <3> QED
      BY <1>14, <3>2, <3>3 DEF GetCandidates, TypeOK, PcValues
  <2>2. RefExact'
    <3> DEFINE cand == Candidates(table_, uniq_frm_cnt, req[t].frames)
    <3>1. cand \in SUBSET Name
      BY CandidatesListed
    <3>2. held' = [held EXCEPT ![t] = cand] /\ held[t] = {}
      BY <1>14 DEF GetCandidates, HeldInv
    <3>3. ref_' = [n \in Name |->
                     ref_[n] + One(n, cand) - One(n, held[t])]
      BY <1>14, <3>2 DEF GetCandidates, TypeOK, One
    <3> QED
      BY <3>1, <3>2, <3>3, RefStep
  <2>3. MutexInv' /\ LoadInv' /\ HeldInv'
    BY <1>14 DEF GetCandidates, TypeOK, Thread, MutexInv, LoadInv, HeldInv, LockedPc
  <2>4. RequestInv'
    BY <1>14 DEF GetCandidates, TypeOK, Thread, RequestInv, MutexInv, LoadInv, LockedPc
  <2>5. StoreInv'
    <3> DEFINE cand == Candidates(table_, uniq_frm_cnt, req[t].frames)
    <3>1. cand \subseteq db_
      BY CandidatesListed DEF StoreInv
    <3> QED
      BY <1>14, <3>1 DEF GetCandidates, StoreInv, TypeOK
  <2> QED
    BY <2>1, <2>2, <2>3, <2>4, <2>5
<1>15. ASSUME NEW t \in Thread, CheckCandidate(t) PROVE IInv'
  <2>1. TypeOK'
    <3>1. PICK n \in held[t] :
            result' = [result EXCEPT ![t] =
                 IF Score[<<frames_[n], req[t].frames>>] > THRESHOLD
                 THEN result[t] \cup {<<n, Score[<<frames_[n], req[t].frames>>]>>} ELSE result[t]]
      BY <1>15 DEF CheckCandidate
    <3>2. n \in Name /\ frames_[n] \in FrameList /\ req[t].frames \in FrameList
      BY <1>15 DEF CheckCandidate, StoreInv, RequestInv, TypeOK
    <3>3. Score[<<frames_[n], req[t].frames>>] \in 0..100
      BY <3>2, ScoreType
    <3> DEFINE kept == {<<n, Score[<<frames_[n], req[t].frames>>]>>}
    <3>4. result[t] \cup kept \in SUBSET (Name \X (0..100)) /\ result[t] \in SUBSET (Name \X (0..100))
      BY <3>2, <3>3 DEF TypeOK
    <3>5. result' \in [Thread -> SUBSET (Name \X (0..100))]
      BY <3>1, <3>4 DEF TypeOK
    <3>6. held' \in [Thread -> SUBSET Name] /\ ref_' \in [Name -> Nat]
      BY CandidateChecked, <1>15
    <3> QED
      BY <1>15, <3>5, <3>6 DEF CheckCandidate, TypeOK
  <2>2. RefExact'
    BY CandidateChecked, <1>15
  <2>3. MutexInv' /\ LoadInv' /\ HeldInv'
    BY <1>15 DEF CheckCandidate, TypeOK, Thread, MutexInv, LoadInv, HeldInv, LockedPc
  <2>4. RequestInv'
    BY <1>15 DEF CheckCandidate, TypeOK, Thread, RequestInv, MutexInv, LoadInv, LockedPc
  <2>5. StoreInv'
    <3>0. PICK n \in held[t] : held' = [held EXCEPT ![t] = @ \ {n}]
      BY <1>15 DEF CheckCandidate
    <3>1. \A u \in Thread : held'[u] \subseteq held[u]
      BY <3>0 DEF TypeOK
    <3> QED
      BY <1>15, <3>1 DEF CheckCandidate, StoreInv
  <2> QED
    BY <2>1, <2>2, <2>3, <2>4, <2>5
<1>16. ASSUME NEW t \in Thread, FinishQuery(t) PROVE IInv'
  <2>1. TypeOK'
    <3>1. PICK s \in Sorted(result[t]) :
            reply' = [reply EXCEPT ![t] = [code |-> Cardinality(result[t]), list |-> s]]
      BY <1>16 DEF FinishQuery
    <3>2. result[t] \in SUBSET (Name \X (0..100))
      BY DEF TypeOK
    <3>3. Cardinality(result[t]) \in Int /\ s \in Seq(Name \X (0..100))
      BY <3>2, SortedType
    <3>4. [code |-> Cardinality(result[t]), list |-> s] \in ReplyType
      BY <3>3 DEF ReplyType
    <3> QED
      BY <1>16, <3>1, <3>4 DEF FinishQuery, TypeOK, PcValues
  <2>2. RefExact'
    BY <1>16 DEF FinishQuery, RefExact
  <2>3. MutexInv' /\ LoadInv' /\ HeldInv'
    BY <1>16 DEF FinishQuery, TypeOK, Thread, MutexInv, LoadInv, HeldInv, LockedPc
  <2>4. RequestInv'
    BY <1>16 DEF FinishQuery, TypeOK, Thread, RequestInv, MutexInv, LoadInv, LockedPc
  <2>5. StoreInv'
    BY <1>16 DEF FinishQuery, TypeOK, Thread, StoreInv, RequestInv
  <2> QED
    BY <2>1, <2>2, <2>3, <2>4, <2>5
<1>17. ASSUME NEW t \in Thread, SaveBegin(t) PROVE IInv'
  <2>1. TypeOK'
    BY <1>17 DEF SaveBegin, TypeOK, Thread, PcValues, ReqType
  <2>2. RefExact'
    BY <1>17 DEF SaveBegin, RefExact
  <2>3. MutexInv' /\ LoadInv' /\ HeldInv'
    BY <1>17, ThreadAssumption DEF SaveBegin, TypeOK, MutexInv, LoadInv, HeldInv, LockedPc, Thread
  <2>4. RequestInv'
    BY <1>17 DEF SaveBegin, TypeOK, Thread, RequestInv, MutexInv, LoadInv, LockedPc
  <2>5. StoreInv'
    BY <1>17 DEF SaveBegin, TypeOK, Thread, StoreInv, RequestInv
  <2> QED
    BY <2>1, <2>2, <2>3, <2>4, <2>5
<1>18. ASSUME NEW t \in Thread, SaveItem(t) PROVE IInv'
  <2>1. TypeOK'
    <3>1. PICK n \in left[t] : /\ left' = [left EXCEPT ![t] = @ \ {n}]
                               /\ held' = [held EXCEPT ![t] = {n}]
                               /\ ref_' = [ref_ EXCEPT ![n] = @ + 1]
      BY <1>18 DEF SaveItem
    <3>2. left[t] \in SUBSET Name /\ left[t] \ {n} \in SUBSET Name /\ {n} \in SUBSET Name
      BY <3>1 DEF TypeOK
    <3>3. left' \in [Thread -> SUBSET Name] /\ held' \in [Thread -> SUBSET Name]
      BY <3>1, <3>2 DEF TypeOK
    <3>4. ref_' \in [Name -> Nat]
      BY <3>1, <3>2 DEF TypeOK
    <3>5. pc' \in [Thread -> PcValues]
      BY <1>18 DEF SaveItem, Goto, TypeOK, PcValues
    <3>6. UNCHANGED <<mutex_, db_, frames_, uniq_frm_cnt, table_, req, todo, result, reply, info>>
      BY <1>18 DEF SaveItem
    <3> QED
      BY <3>3, <3>4, <3>5, <3>6 DEF TypeOK
  <2>2. RefExact'
    <3>1. PICK n \in left[t] : /\ held' = [held EXCEPT ![t] = {n}]
                               /\ ref_' = [ref_ EXCEPT ![n] = @ + 1]
      <4>1. \E n \in left[t] : /\ left' = [left EXCEPT ![t] = @ \ {n}]
                               /\ held' = [held EXCEPT ![t] = {n}]
                               /\ ref_' = [ref_ EXCEPT ![n] = @ + 1]
        BY <1>18, Zenon DEF SaveItem
      <4> QED
        BY <4>1, Zenon
    <3>2. {n} \in SUBSET Name /\ held[t] = {}
      <4>1. pc[t] = "save_next"
        BY <1>18 DEF SaveItem, Goto
      <4>2. left[t] \in SUBSET Name
        BY DEF TypeOK
      <4> QED
        BY <3>1, <4>1, <4>2 DEF HeldInv
    <3>3. ref_' = [m \in Name |->
                     ref_[m] + One(m, {n}) - One(m, held[t])]
      <4>1. ref_ \in [Name -> Nat]
        BY DEF TypeOK
      <4>2. ASSUME NEW m \in Name
            PROVE  ref_'[m] = ref_[m] + One(m, {n}) - One(m, held[t])
        <5>1. CASE m = n
          BY <3>1, <3>2, <4>1, <5>1 DEF One
        <5>2. CASE m # n
          BY <3>1, <3>2, <4>1, <5>2 DEF One
        <5> QED
          BY <5>1, <5>2
      <4>3. ref_' = [m \in Name |-> ref_'[m]]
        BY <3>1, <4>1
      <4> QED
        BY <4>2, <4>3
    <3> QED
      BY <3>1, <3>2, <3>3, RefStep
  <2>3. MutexInv' /\ LoadInv' /\ HeldInv'
    BY <1>18 DEF SaveItem, TypeOK, Thread, MutexInv, LoadInv, HeldInv, LockedPc
  <2>4. RequestInv'
    BY <1>18 DEF SaveItem, TypeOK, Thread, RequestInv, MutexInv, LoadInv, LockedPc
  <2>5. StoreInv'
    BY <1>18 DEF SaveItem, TypeOK, Thread, StoreInv, RequestInv
  <2> QED
    BY <2>1, <2>2, <2>3, <2>4, <2>5
<1>19. ASSUME NEW t \in Thread, SaveItemDone(t) PROVE IInv'
  <2>1. TypeOK'
    <3>1. ref_' \in [Name -> Nat]
      BY ItemSaved, <1>19
    <3> QED
      BY <1>19, <3>1 DEF SaveItemDone, TypeOK, PcValues
  <2>2. RefExact'
    BY ItemSaved, <1>19
  <2>3. MutexInv' /\ LoadInv' /\ HeldInv'
    BY <1>19 DEF SaveItemDone, TypeOK, Thread, MutexInv, LoadInv, HeldInv, LockedPc
  <2>4. RequestInv'
    BY <1>19 DEF SaveItemDone, TypeOK, Thread, RequestInv, MutexInv, LoadInv, LockedPc
  <2>5. StoreInv'
    BY <1>19 DEF SaveItemDone, TypeOK, Thread, StoreInv, RequestInv
  <2> QED
    BY <2>1, <2>2, <2>3, <2>4, <2>5
<1>20. ASSUME NEW t \in Thread, SaveDone(t) PROVE IInv'
  <2>1. TypeOK'
    BY <1>20 DEF SaveDone, TypeOK, Thread, PcValues, ReqType
  <2>2. RefExact'
    BY <1>20 DEF SaveDone, RefExact
  <2>3. MutexInv' /\ LoadInv' /\ HeldInv'
    BY <1>20 DEF SaveDone, TypeOK, Thread, MutexInv, LoadInv, HeldInv, LockedPc
  <2>4. RequestInv'
    BY <1>20 DEF SaveDone, TypeOK, Thread, RequestInv, MutexInv, LoadInv, LockedPc
  <2>5. StoreInv'
    BY <1>20 DEF SaveDone, TypeOK, Thread, StoreInv, RequestInv
  <2> QED
    BY <2>1, <2>2, <2>3, <2>4, <2>5
<1>21. ASSUME NEW t \in Thread, InfoCount(t) PROVE IInv'
  <2>1. TypeOK'
    <3>1. [info EXCEPT !.video_count = Cardinality(db_), !.counted = db_] \in InfoType
      BY InfoNumbers DEF TypeOK, InfoType
    <3>2. pc' \in [Thread -> PcValues]
      BY <1>21 DEF InfoCount, Goto, TypeOK, PcValues
    <3>3. req' \in [Thread -> ReqType]
      <4>1. req \in [Thread -> ReqType] /\ req[t] \in ReqType
        BY DEF TypeOK
      <4>2. [req[t] EXCEPT !.op = "info"] \in ReqType
        BY <4>1 DEF ReqType
      <4>3. req' = [req EXCEPT ![t] = [req[t] EXCEPT !.op = "info"]]
        BY <1>21 DEF InfoCount
      <4> QED
        BY <4>1, <4>2, <4>3
    <3>4. info' \in InfoType
      BY <1>21, <3>1 DEF InfoCount
    <3>5. UNCHANGED <<mutex_, db_, frames_, uniq_frm_cnt, ref_, table_,
                      todo, left, held, result, reply>>
      BY <1>21 DEF InfoCount
    <3> QED
      BY <3>2, <3>3, <3>4, <3>5 DEF TypeOK
  <2>2. RefExact'
    BY <1>21 DEF InfoCount, RefExact
  <2>3. MutexInv' /\ LoadInv' /\ HeldInv'
    BY <1>21 DEF InfoCount, TypeOK, Thread, MutexInv, LoadInv, HeldInv, LockedPc
  <2>4. RequestInv'
    BY <1>21 DEF InfoCount, TypeOK, Thread, RequestInv, MutexInv, LoadInv, LockedPc
  <2>5. StoreInv'
    BY <1>21 DEF InfoCount, TypeOK, Thread, StoreInv, RequestInv
  <2> QED
    BY <2>1, <2>2, <2>3, <2>4, <2>5
<1>22. ASSUME NEW t \in Thread, InfoFrames(t) PROVE IInv'
  <2>1. TypeOK'
    BY <1>22, InfoNumbers DEF InfoFrames, TypeOK, Thread, PcValues, ReqType, InfoType
  <2>2. RefExact'
    BY <1>22 DEF InfoFrames, RefExact
  <2>3. MutexInv' /\ LoadInv' /\ HeldInv'
    BY <1>22 DEF InfoFrames, TypeOK, Thread, MutexInv, LoadInv, HeldInv, LockedPc
  <2>4. RequestInv'
    BY <1>22 DEF InfoFrames, TypeOK, Thread, RequestInv, MutexInv, LoadInv, LockedPc
  <2>5. StoreInv'
    BY <1>22 DEF InfoFrames, TypeOK, Thread, StoreInv, RequestInv
  <2> QED
    BY <2>1, <2>2, <2>3, <2>4, <2>5
<1>23. ASSUME NEW t \in Thread, InfoTable(t) PROVE IInv'
  <2>1. TypeOK'
    BY <1>23, InfoNumbers DEF InfoTable, TypeOK, Thread, PcValues, ReqType, InfoType
  <2>2. RefExact'
    BY <1>23 DEF InfoTable, RefExact
  <2>3. MutexInv' /\ LoadInv' /\ HeldInv'
    BY <1>23 DEF InfoTable, TypeOK, Thread, MutexInv, LoadInv, HeldInv, LockedPc
  <2>4. RequestInv'
    BY <1>23 DEF InfoTable, TypeOK, Thread, RequestInv, MutexInv, LoadInv, LockedPc
  <2>5. StoreInv'
    BY <1>23 DEF InfoTable, TypeOK, Thread, StoreInv, RequestInv
  <2> QED
    BY <2>1, <2>2, <2>3, <2>4, <2>5
<1>24. CASE UNCHANGED vars
  BY <1>24 DEF vars, TypeOK, RefExact, MutexInv, LoadInv, RequestInv, StoreInv, HeldInv
<1> QED
  BY <1>1, <1>2, <1>3, <1>4, <1>5, <1>6, <1>7, <1>8, <1>9, <1>10, <1>11, <1>12, <1>13, <1>14, <1>15, <1>16, <1>17, <1>18, <1>19, <1>20, <1>21, <1>22, <1>23, <1>24 DEF Next, Arrive, Step, Add, Query, Save, Load, Thread

(* The types hold, and in particular no reference count falls below zero:  *)
(* whatever order threads take and drop references in, none is dropped     *)
(* twice.                                                                  *)
THEOREM TypeCorrect == Spec => []TypeOK
<1>1. IInv => TypeOK
  BY DEF IInv
<1> QED
  BY <1>1, InitStep, NextStep, PTL DEF Spec

(* The reference count of every video is the number of threads that use    *)
(* it, for any number of pool threads: when it is positive some thread is  *)
(* about to drop it, and when it is zero no thread reads the video.        *)
THEOREM ReferencesExact == Spec => []RefExact
<1>1. IInv => RefExact
  BY DEF IInv
<1> QED
  BY <1>1, InitStep, NextStep, PTL DEF Spec
=============================================================================
