---------------------------- MODULE DBFileProofs ----------------------------
(***************************************************************************)
(* Proofs about DBFile for any videos, any length of block, any number of  *)
(* threads that save, and any number of exits and power failures.          *)
(***************************************************************************)
EXTENDS DBFile, SequenceTheorems, FiniteSetTheorems, WellFoundedInduction, TLAPS

-----------------------------------------------------------------------------
(***************************************************************************)
(* Joined sequences                                                        *)
(***************************************************************************)

(* The sequences joined one by one.                                        *)
Joined(ss, m, g) == g = [i \in 1..m |-> IF i = 1 THEN ss[i] ELSE g[i - 1] \o ss[i]]

LEMMA JoinedExists == ASSUME NEW ss, NEW m \in Nat PROVE \E g : Joined(ss, m, g)
<1> DEFINE Wrong == {k \in Nat : ~ \E g : Joined(ss, k, g)}
<1> SUFFICES ASSUME Wrong # {} PROVE FALSE
  OBVIOUS
<1>1. Wrong \subseteq Nat
  OBVIOUS
<1>2. PICK n \in Wrong : \A k \in Wrong : ~ (<<k, n>> \in OpToRel(<, Nat))
  <2> HIDE DEF Wrong
  <2> QED BY <1>1, NatLessThanWellFounded, WFMin
<1>3. n \in Nat
  OBVIOUS
<1>4. n # 0
  <2> SUFFICES ASSUME n = 0 PROVE FALSE
    OBVIOUS
  <2>1. \A i \in 1..0 : FALSE
    OBVIOUS
  <2> DEFINE g == [i \in 1..0 |-> 0]
  <2>2. Joined(ss, 0, g)
    BY <2>1 DEF Joined
  <2> HIDE DEF g
  <2> QED
    BY <2>2
<1>5. n - 1 \in Nat /\ n - 1 \notin Wrong
  <2>1. n - 1 < n /\ n - 1 \in Nat
    BY <1>3, <1>4
  <2> HIDE DEF Wrong
  <2> QED
    BY <1>2, <1>3, <2>1 DEF OpToRel
<1>6. PICK g : Joined(ss, n - 1, g)
  BY <1>5
<1> DEFINE f == [i \in 1..n |-> IF i = n THEN IF n = 1 THEN ss[n] ELSE g[n - 1] \o ss[n] ELSE g[i]]
<1>7. \A i \in 1..(n - 1) : g[i] = IF i = 1 THEN ss[i] ELSE g[i - 1] \o ss[i]
  BY <1>6 DEF Joined
<1>8. ASSUME NEW i \in 1..n PROVE f[i] = IF i = 1 THEN ss[i] ELSE f[i - 1] \o ss[i]
  <2>1. i # 1 => i - 1 \in 1..n /\ i - 1 # n
    BY <1>3
  <2>2. i # 1 => f[i - 1] = g[i - 1]
    BY <2>1
  <2>3. f[i] = IF i = n THEN IF n = 1 THEN ss[n] ELSE g[n - 1] \o ss[n] ELSE g[i]
    OBVIOUS
  <2> HIDE DEF f
  <2>4. CASE i = n
    BY <2>2, <2>3, <2>4
  <2>5. CASE i # n
    <3>1. i \in 1..(n - 1) /\ f[i] = g[i]
      BY <1>3, <2>3, <2>5
    <3> QED
      BY <1>7, <2>2, <3>1
  <2> QED
    BY <2>4, <2>5
<1>9. Joined(ss, n, f)
  BY <1>8 DEF Joined
<1> HIDE DEF f
<1> QED
  BY <1>9

(* Where the parts of a joined sequence are: part i follows cell b[i].     *)
Places(ss, flat, b) ==
  /\ b \in [1..(Len(ss) + 1) -> Nat] /\ b[1] = 0 /\ Len(flat) = b[Len(ss) + 1]
  /\ \A i \in 1..Len(ss) :
       /\ b[i + 1] = b[i] + Len(ss[i]) /\ b[i + 1] <= Len(flat)
       /\ \A j \in 1..Len(ss[i]) : flat[b[i] + j] = ss[i][j]

LEMMA FlattenPlaces ==
  ASSUME NEW C, NEW ss \in Seq(Seq(C))
  PROVE  FlattenSeq(ss) \in Seq(C) /\ \E b : Places(ss, FlattenSeq(ss), b)
<1> DEFINE n == Len(ss)
<1>1. n \in Nat /\ \A i \in 1..n : ss[i] \in Seq(C) /\ Len(ss[i]) \in Nat
  OBVIOUS
<1>2. CASE n = 0
  <2>1. ss = << >> /\ FlattenSeq(ss) = ss
    BY <1>2 DEF FlattenSeq
  <2> DEFINE b == [i \in 1..1 |-> 0]
  <2>2. b \in [1..(0 + 1) -> Nat] /\ b[1] = 0
    OBVIOUS
  <2> HIDE DEF b
  <2>3. Places(ss, FlattenSeq(ss), b)
    <3>1. Len(ss) = 0 /\ Len(FlattenSeq(ss)) = 0 /\ Len(ss) + 1 = 1
      BY <1>2, <2>1
    <3> QED
      BY <2>2, <3>1 DEF Places
  <2>4. << >> \in Seq(C)
    OBVIOUS
  <2> HIDE DEF n
  <2> QED
    BY <2>1, <2>3, <2>4
<1>3. CASE n # 0
  <2> DEFINE g == CHOOSE f : Joined(ss, n, f)
  <2>2. 1 \in 1..n /\ n \in 1..n
    BY <1>1, <1>3
  <2>6. Joined(ss, n, g)
    BY <1>1, JoinedExists
  <2>7. FlattenSeq(ss) = g[n]
    BY <1>3 DEF FlattenSeq, Joined
  <2> HIDE DEF g
  <2>8. g[1] = ss[1] /\ \A i \in 1..n : i # 1 => g[i] = g[i - 1] \o ss[i]
    BY <2>2, <2>6 DEF Joined
  <2> HIDE DEF n
  <2> DEFINE b == [i \in 1..(n + 1) |-> IF i = 1 THEN 0 ELSE Len(g[i - 1])]
             Right(k) == /\ g[k] \in Seq(C) /\ Len(g[k]) = b[k + 1]
                         /\ \A i \in 1..k : /\ b[i] \in Nat /\ b[i + 1] \in Nat
                                            /\ b[i + 1] = b[i] + Len(ss[i])
                                            /\ b[i + 1] <= Len(g[k])
                                            /\ \A j \in 1..Len(ss[i]) : g[k][b[i] + j] = ss[i][j]
  <2>9. b[1] = 0 /\ \A i \in 1..n : b[i + 1] = Len(g[i])
    <3>1. 1 \in 1..(n + 1) /\ \A i \in 1..n : i + 1 \in 1..(n + 1) /\ i + 1 # 1 /\ i + 1 - 1 = i
      BY <1>1
    <3> QED
      BY <3>1
  <2> HIDE DEF b
  <2>10. \A k \in 1..n : Right(k)
    <3> DEFINE Wrong == {k \in 1..n : ~ Right(k)}
    <3> SUFFICES ASSUME Wrong # {} PROVE FALSE
      OBVIOUS
    <3>1. Wrong \subseteq Nat
      BY <1>1
    <3>2. PICK k \in Wrong : \A j \in Wrong : ~ (<<j, k>> \in OpToRel(<, Nat))
      <4> HIDE DEF Wrong
      <4> QED BY <3>1, NatLessThanWellFounded, WFMin
    <3>3. k \in 1..n /\ k \in Nat
      BY <1>1
    <3>4. k # 1
      <4> SUFFICES ASSUME k = 1 PROVE FALSE
        OBVIOUS
      <4>1. \A i \in 1..1 : i = 1
        OBVIOUS
      <4>2. b[1 + 1] = Len(ss[1])
        BY <2>2, <2>8, <2>9
      <4>3. Right(1)
        <5>1. /\ g[1] \in Seq(C) /\ Len(g[1]) = b[1 + 1] /\ Len(ss[1]) \in Nat
              /\ b[1 + 1] = Len(ss[1]) /\ b[1] = 0 /\ g[1] = ss[1]
          BY <1>1, <2>2, <2>8, <2>9, <4>2
        <5>2. \A j \in 1..Len(ss[1]) : 0 + j = j
          BY <5>1
        <5>3. \A j \in 1..Len(ss[1]) : g[1][b[1] + j] = ss[1][j]
          BY <5>1, <5>2
        <5> QED
          BY <4>1, <5>1, <5>3
      <4> HIDE DEF Right
      <4> QED
        BY <4>3
    <3>5. k - 1 \in 1..n /\ k - 1 < k /\ k - 1 + 1 = k /\ k - 1 \in Nat
      BY <1>1, <3>3, <3>4
    <3>6. Right(k - 1)
      <4>1. k - 1 \notin Wrong
        <5> HIDE DEF Wrong
        <5> QED
          BY <3>2, <3>3, <3>5 DEF OpToRel
      <4> HIDE DEF Right
      <4> QED
        BY <3>5, <4>1
    <3> DEFINE u == g[k - 1]
               r == ss[k]
    <3>7. u \in Seq(C) /\ r \in Seq(C) /\ g[k] = u \o r /\ Len(u) = b[k]
      BY <1>1, <2>8, <3>3, <3>4, <3>5, <3>6
    <3>8. /\ u \o r \in Seq(C) /\ Len(u \o r) = Len(u) + Len(r) /\ Len(u) \in Nat /\ Len(r) \in Nat
          /\ \A i \in 1..(Len(u) + Len(r)) : (u \o r)[i] = IF i <= Len(u) THEN u[i] ELSE r[i - Len(u)]
      <4> HIDE DEF u, r
      <4> QED
        BY <3>7, ConcatProperties, LenProperties
    <3>9. Len(g[k]) = b[k + 1]
      BY <2>9, <3>3
    <3>10. ASSUME NEW i \in 1..k
           PROVE  /\ b[i] \in Nat /\ b[i + 1] \in Nat /\ b[i + 1] = b[i] + Len(ss[i])
                  /\ b[i + 1] <= Len(g[k])
                  /\ \A j \in 1..Len(ss[i]) : g[k][b[i] + j] = ss[i][j]
      <4>1. CASE i = k
        <5>1. b[k + 1] = b[k] + Len(r) /\ b[k] \in Nat
          BY <3>7, <3>8, <3>9
        <5>2. ASSUME NEW j \in 1..Len(r) PROVE g[k][b[k] + j] = r[j]
          <6> HIDE DEF u, r
          <6>1. Len(u) + j \in 1..(Len(u) + Len(r)) /\ ~ (Len(u) + j <= Len(u)) /\ Len(u) + j - Len(u) = j
            BY <3>8
          <6>2. (u \o r)[Len(u) + j] = r[Len(u) + j - Len(u)]
            BY <3>8, <6>1
          <6> QED
            BY <3>7, <6>1, <6>2
        <5> HIDE DEF u
        <5> QED
          BY <3>8, <3>9, <4>1, <5>1, <5>2
      <4>2. CASE i # k
        <5>1. i \in 1..(k - 1)
          BY <3>3, <4>2
        <5>2. /\ b[i] \in Nat /\ b[i + 1] \in Nat /\ b[i + 1] = b[i] + Len(ss[i]) /\ b[i + 1] <= Len(u)
              /\ \A j \in 1..Len(ss[i]) : u[b[i] + j] = ss[i][j]
          BY <3>6, <5>1
        <5>3. Len(ss[i]) \in Nat
          BY <1>1, <3>3
        <5> HIDE DEF u, r
        <5>4. ASSUME NEW j \in 1..Len(ss[i]) PROVE g[k][b[i] + j] = ss[i][j]
          <6>1. PICK x \in Nat, y \in Nat, z \in Nat, w \in Nat :
                  /\ x = b[i] /\ y = Len(ss[i]) /\ z = Len(u) /\ w = Len(r)
                  /\ x + y <= z
            BY <3>8, <5>2, <5>3
          <6>4. j \in 1..y
            BY <6>1
          <6>3. x + j \in 1..(z + w) /\ x + j <= z
            <7>1. x + y <= z
              BY <6>1
            <7> QED
              BY <6>4, <7>1
          <6>2. b[i] + j \in 1..(Len(u) + Len(r)) /\ b[i] + j <= Len(u)
            BY <6>1, <6>3
          <6> QED
            BY <3>7, <3>8, <5>2, <6>2
        <5>5. Len(u) <= Len(g[k])
          BY <3>7, <3>8
        <5>6. b[i + 1] <= Len(g[k])
          BY <3>7, <3>8, <5>2, <5>5
        <5> QED
          BY <5>2, <5>4, <5>6
      <4> QED
        BY <4>1, <4>2
    <3>11. Right(k)
      BY <3>7, <3>8, <3>9, <3>10
    <3> HIDE DEF Right
    <3> QED
      BY <3>11
  <2>11. Right(n)
    BY <2>2, <2>10
  <2>12. b \in [1..(n + 1) -> Nat]
    <3>1. ASSUME NEW i \in 1..(n + 1) PROVE b[i] \in Nat
      <4>1. i = 1 \/ (i - 1 \in 1..n /\ i - 1 + 1 = i)
        BY <1>1
      <4> QED
        BY <2>9, <2>11, <4>1
    <3> QED
      BY <3>1 DEF b
  <2>13. Places(ss, g[n], b)
    BY <2>9, <2>11, <2>12 DEF Places, n
  <2> QED
    BY <2>7, <2>11, <2>13
<1> QED
  BY <1>2, <1>3

-----------------------------------------------------------------------------
(***************************************************************************)
(* What Save writes and what Load makes of it                              *)
(***************************************************************************)

(* o is an order of the videos f, of which there are finitely many.        *)
Orders(o, f) ==
  /\ f \in [DOMAIN f -> FrameList] /\ DOMAIN f \subseteq Name
  /\ o \in Seq(Name) /\ IsInjective(o) /\ Range(o) = DOMAIN f

LEMMA OrderOf ==
  ASSUME NEW o, NEW f, Orders(o, f)
  PROVE  /\ Len(o) \in Nat /\ DOMAIN o = 1..Len(o)
         /\ \A i \in 1..Len(o) : /\ o[i] \in Name /\ o[i] \in DOMAIN f
                                 /\ f[o[i]] \in FrameList /\ f[o[i]] \in Seq(Nat)
                                 /\ Len(f[o[i]]) \in Nat
         /\ \A n \in DOMAIN f : \E i \in 1..Len(o) : o[i] = n
<1>1. o \in Seq(Name) /\ Len(o) \in Nat /\ DOMAIN o = 1..Len(o)
  BY DEF Orders
<1>2. \A i \in 1..Len(o) : o[i] \in Name /\ o[i] \in DOMAIN f
  BY <1>1 DEF Orders, Range
<1>3. \A n \in DOMAIN f : \E i \in 1..Len(o) : o[i] = n
  BY <1>1 DEF Orders, Range
<1>4. \A n \in DOMAIN f : f[n] \in FrameList /\ f[n] \in Seq(Nat) /\ Len(f[n]) \in Nat
  BY DBFileAssumption DEF Orders
<1> QED
  BY <1>1, <1>2, <1>3, <1>4

LEMMA RecordIs ==
  ASSUME NEW n \in Name, NEW fs \in FrameList
  PROVE  /\ Record(n, fs) \in Seq(CellType) /\ Len(Record(n, fs)) = Len(fs) + 1
         /\ Record(n, fs)[1] = Cell("name", n, Len(fs))
         /\ \A j \in 1..Len(fs) : Record(n, fs)[j + 1] = Cell("frame", NoName, fs[j])
<1> DEFINE h == <<Cell("name", n, Len(fs))>>
           r == [i \in 1..Len(fs) |-> Cell("frame", NoName, fs[i])]
<1>1. fs \in Seq(Nat) /\ Len(fs) \in Nat /\ \A i \in 1..Len(fs) : fs[i] \in Nat
  BY DBFileAssumption
<1>2. Cell("name", n, Len(fs)) \in CellType /\ \A i \in 1..Len(fs) : Cell("frame", NoName, fs[i]) \in CellType
  BY <1>1 DEF Cell, CellType
<1>3. h \in Seq(CellType) /\ Len(h) = 1 /\ h[1] = Cell("name", n, Len(fs))
  BY <1>2
<1>4. /\ r \in Seq(CellType) /\ Len(r) = Len(fs)
      /\ \A i \in 1..Len(fs) : r[i] = Cell("frame", NoName, fs[i])
  <2>1. r \in [1..Len(fs) -> CellType]
    BY <1>2
  <2>2. r \in Seq(CellType) /\ Len(r) = Len(fs)
    BY <1>1, <2>1
  <2> QED
    BY <2>2
<1>5. Record(n, fs) = h \o r
  BY DEF Record
<1> HIDE DEF h, r
<1>6. /\ h \o r \in Seq(CellType) /\ Len(h \o r) = 1 + Len(fs)
      /\ \A i \in 1..(1 + Len(fs)) : (h \o r)[i] = IF i <= 1 THEN h[i] ELSE r[i - 1]
  <2>1. /\ h \o r \in Seq(CellType) /\ Len(h \o r) = Len(h) + Len(r)
        /\ \A i \in 1..(Len(h) + Len(r)) : (h \o r)[i] = IF i <= Len(h) THEN h[i] ELSE r[i - Len(h)]
    <3>1. h \in Seq(CellType) /\ r \in Seq(CellType)
      BY <1>3, <1>4
    <3> QED
      BY <3>1, ConcatProperties
  <2> QED
    BY <1>3, <1>4, <2>1
<1>7. (h \o r)[1] = h[1]
  BY <1>1, <1>6
<1>8. ASSUME NEW j \in 1..Len(fs) PROVE (h \o r)[j + 1] = r[j]
  <2>1. j + 1 \in 1..(1 + Len(fs)) /\ ~ (j + 1 <= 1) /\ j + 1 - 1 = j
    BY <1>1
  <2> QED
    BY <1>6, <2>1
<1> QED
  BY <1>1, <1>3, <1>4, <1>5, <1>6, <1>7, <1>8

(* Where the records are: record i begins at cell p[i].                    *)
IsImage(o, f, im, p) ==
  /\ im \in Seq(CellType) /\ p \in [1..(Len(o) + 1) -> Nat]
  /\ p[1] = 2 /\ Len(im) + 1 = p[Len(o) + 1] /\ im[1] = Cell("count", NoName, Len(o))
  /\ \A i \in 1..Len(o) :
       /\ 2 <= p[i] /\ p[i + 1] = p[i] + 1 + Len(f[o[i]]) /\ p[i + 1] <= Len(im) + 1
       /\ im[p[i]] = Cell("name", o[i], Len(f[o[i]]))
       /\ \A j \in 1..Len(f[o[i]]) : im[p[i] + j] = Cell("frame", NoName, f[o[i]][j])

LEMMA ImagePlaces ==
  ASSUME NEW o, NEW f, Orders(o, f)
  PROVE  \E p : IsImage(o, f, Image(o, f), p)
<1> DEFINE n == Len(o)
           ss == [i \in 1..n |-> Record(o[i], f[o[i]])]
           flat == FlattenSeq(ss)
           h == <<Cell("count", NoName, n)>>
           im == h \o flat
<1>1. n \in Nat /\ \A i \in 1..n : /\ o[i] \in Name /\ f[o[i]] \in FrameList /\ Len(f[o[i]]) \in Nat
  BY OrderOf
<1> HIDE DEF n
<1>2. /\ ss \in Seq(Seq(CellType)) /\ Len(ss) = n
      /\ \A i \in 1..n : ss[i] = Record(o[i], f[o[i]])
  <2>1. ss \in [1..n -> Seq(CellType)]
    BY <1>1, RecordIs
  <2>2. ss \in Seq(Seq(CellType)) /\ Len(ss) = n
    BY <1>1, <2>1
  <2> QED
    BY <2>2
<1>3. Image(o, f) = im
  BY DEF Image, n
<1> HIDE DEF ss
<1>4. flat \in Seq(CellType) /\ \E b : Places(ss, flat, b)
  BY <1>2, FlattenPlaces
<1> HIDE DEF flat
<1>5. PICK b : Places(ss, flat, b)
  BY <1>4
<1>6. /\ b \in [1..(n + 1) -> Nat] /\ b[1] = 0 /\ Len(flat) = b[n + 1]
      /\ \A i \in 1..n : /\ b[i + 1] = b[i] + Len(ss[i]) /\ b[i + 1] <= Len(flat)
                         /\ \A j \in 1..Len(ss[i]) : flat[b[i] + j] = ss[i][j]
  BY <1>2, <1>5 DEF Places
<1>7. h \in Seq(CellType) /\ Len(h) = 1 /\ h[1] = Cell("count", NoName, n)
  <2>1. Cell("count", NoName, n) \in CellType
    BY <1>1 DEF Cell, CellType
  <2> QED
    BY <2>1
<1> HIDE DEF h
<1>8. /\ im \in Seq(CellType) /\ Len(im) = 1 + Len(flat) /\ Len(flat) \in Nat
      /\ \A i \in 1..(1 + Len(flat)) : im[i] = IF i <= 1 THEN h[i] ELSE flat[i - 1]
  <2>1. /\ im \in Seq(CellType) /\ Len(im) = Len(h) + Len(flat) /\ Len(flat) \in Nat
        /\ \A i \in 1..(Len(h) + Len(flat)) : im[i] = IF i <= Len(h) THEN h[i] ELSE flat[i - Len(h)]
    BY <1>4, <1>7, ConcatProperties, LenProperties
  <2> HIDE DEF im
  <2> QED
    BY <1>7, <2>1
<1> HIDE DEF im
<1>9. im[1] = h[1]
  BY <1>8
<1>10. \A i \in 1..Len(flat) : im[i + 1] = flat[i]
  <2> SUFFICES ASSUME NEW i \in 1..Len(flat) PROVE im[i + 1] = flat[i]
    OBVIOUS
  <2>1. i + 1 \in 1..(1 + Len(flat)) /\ ~ (i + 1 <= 1) /\ i + 1 - 1 = i
    BY <1>8
  <2> QED
    BY <1>8, <2>1
<1> DEFINE p == [i \in 1..(n + 1) |-> b[i] + 2]
<1>11. p \in [1..(n + 1) -> Nat] /\ \A i \in 1..(n + 1) : p[i] = b[i] + 2 /\ b[i] \in Nat
  BY <1>6
<1> HIDE DEF p
<1>12. p[1] = 2 /\ Len(im) + 1 = p[n + 1]
  <2>1. 1 \in 1..(n + 1) /\ n + 1 \in 1..(n + 1)
    BY <1>1
  <2>2. p[1] = 2 /\ p[n + 1] = Len(flat) + 2
    BY <1>6, <1>11, <2>1
  <2> QED
    BY <1>8, <2>2
<1>13. ASSUME NEW i \in 1..n
       PROVE  /\ 2 <= p[i] /\ p[i + 1] = p[i] + 1 + Len(f[o[i]]) /\ p[i + 1] <= Len(im) + 1
              /\ im[p[i]] = Cell("name", o[i], Len(f[o[i]]))
              /\ \A j \in 1..Len(f[o[i]]) : im[p[i] + j] = Cell("frame", NoName, f[o[i]][j])
  <2>1. i \in 1..(n + 1) /\ i + 1 \in 1..(n + 1)
    BY <1>1
  <2>2. PICK x \in Nat, y \in Nat, l \in Nat :
          x = b[i] /\ y = Len(flat) /\ l = Len(f[o[i]])
    BY <1>1, <1>8, <1>11, <2>1
  <2>3. /\ Len(ss[i]) = l + 1 /\ ss[i][1] = Cell("name", o[i], l)
        /\ \A j \in 1..l : ss[i][j + 1] = Cell("frame", NoName, f[o[i]][j])
    BY <1>1, <1>2, <2>2, RecordIs
  <2>4. b[i + 1] = x + (l + 1) /\ x + (l + 1) <= y /\ \A j \in 1..(l + 1) : flat[x + j] = ss[i][j]
    BY <1>6, <2>2, <2>3
  <2>5. /\ p[i] = x + 2 /\ p[i + 1] = x + (l + 1) + 2 /\ Len(im) = 1 + y
    BY <1>8, <1>11, <2>1, <2>2, <2>4
  <2>6. im[x + 2] = ss[i][1]
    <3>1. 1 \in 1..(l + 1) /\ x + 1 \in 1..y /\ x + 1 + 1 = x + 2
      BY <2>4
    <3> QED
      BY <1>10, <2>2, <2>4, <3>1
  <2>7. ASSUME NEW j \in 1..l PROVE im[x + 2 + j] = ss[i][j + 1]
    <3>1. j + 1 \in 1..(l + 1) /\ x + (j + 1) \in 1..y /\ x + (j + 1) + 1 = x + 2 + j
      BY <2>4
    <3> QED
      BY <1>10, <2>2, <2>4, <3>1
  <2>8. 2 <= x + 2 /\ x + (l + 1) + 2 = x + 2 + 1 + l /\ x + (l + 1) + 2 <= 1 + y + 1
    BY <2>4
  <2> QED
    BY <2>2, <2>3, <2>5, <2>6, <2>7, <2>8
<1>14. IsImage(o, f, im, p)
  BY <1>7, <1>8, <1>9, <1>11, <1>12, <1>13 DEF IsImage, n
<1> QED
  BY <1>3, <1>14

(* The file begins with the image of the videos f, in some order.          *)
Holds(content, f) ==
  \E o : /\ Orders(o, f) /\ Len(Image(o, f)) <= Len(content)
         /\ \A j \in 1..Len(Image(o, f)) : content[j] = Image(o, f)[j]

(* Load gets from a file what Save wrote, whatever follows in the file.    *)
LEMMA HoldsLoads ==
  ASSUME NEW content \in Seq(CellType), NEW f, Holds(content, f)
  PROVE  Loads(content) /\ Loaded(content) = f
<1>1. PICK o : /\ Orders(o, f) /\ Len(Image(o, f)) <= Len(content)
               /\ \A j \in 1..Len(Image(o, f)) : content[j] = Image(o, f)[j]
  BY DEF Holds
<1>2. PICK p : IsImage(o, f, Image(o, f), p)
  BY <1>1, ImagePlaces
<1>3. PICK im, n : im = Image(o, f) /\ n = Len(o)
  OBVIOUS
<1>4. /\ Len(content) \in Nat /\ DOMAIN content = 1..Len(content)
      /\ im \in Seq(CellType) /\ Len(im) \in Nat /\ Len(im) <= Len(content)
      /\ \A j \in 1..Len(im) : content[j] = im[j]
  BY <1>1, <1>2, <1>3 DEF IsImage
<1>5. /\ n \in Nat /\ DOMAIN o = 1..n
      /\ \A i \in 1..n : /\ o[i] \in Name /\ o[i] \in DOMAIN f
                         /\ f[o[i]] \in Seq(Nat) /\ Len(f[o[i]]) \in Nat
      /\ \A x \in DOMAIN f : \E i \in 1..n : o[i] = x
  BY <1>1, <1>3, OrderOf
<1>6. /\ p \in [1..(n + 1) -> Nat] /\ p[1] = 2 /\ Len(im) + 1 = p[n + 1]
      /\ im[1] = Cell("count", NoName, n)
      /\ \A i \in 1..n :
           /\ 2 <= p[i] /\ p[i + 1] = p[i] + 1 + Len(f[o[i]]) /\ p[i + 1] <= Len(im) + 1
           /\ im[p[i]] = Cell("name", o[i], Len(f[o[i]]))
           /\ \A j \in 1..Len(f[o[i]]) : im[p[i] + j] = Cell("frame", NoName, f[o[i]][j])
  BY <1>2, <1>3 DEF IsImage
<1>7. 1 \in 1..Len(im)
  <2>1. n = 0 \/ (n \in 1..n /\ n \in 1..(n + 1) /\ n + 1 \in 1..(n + 1))
    BY <1>5
  <2>2. 2 <= p[n + 1]
    BY <1>5, <1>6, <2>1
  <2> QED
    BY <1>4, <1>6, <2>2
<1>8. content # << >> /\ content[1].kind = "count" /\ content[1].num = n
  <2>1. content[1] = Cell("count", NoName, n) /\ Len(content) # 0
    BY <1>4, <1>6, <1>7
  <2> QED
    BY <2>1 DEF Cell
<1>9. ASSUME NEW i \in 1..n
      PROVE  /\ p[i] \in DOMAIN content /\ content[p[i]].kind = "name" /\ content[p[i]].name = o[i]
             /\ content[p[i]].num = Len(f[o[i]]) /\ p[i] \in Nat /\ 2 <= p[i]
             /\ p[i + 1] = p[i] + 1 + content[p[i]].num
             /\ \A j \in 1..Len(f[o[i]]) : /\ p[i] + j \in DOMAIN content
                                           /\ content[p[i] + j].kind = "frame"
                                           /\ content[p[i] + j].num = f[o[i]][j]
  <2>1. i \in 1..(n + 1)
    BY <1>5
  <2>2. PICK x \in Nat, l \in Nat, z \in Nat : x = p[i] /\ l = Len(f[o[i]]) /\ z = Len(im)
    BY <1>4, <1>5, <1>6, <2>1
  <2>3. /\ 2 <= x /\ p[i + 1] = x + 1 + l /\ x + 1 + l <= z + 1
        /\ im[x] = Cell("name", o[i], l)
        /\ \A j \in 1..l : im[x + j] = Cell("frame", NoName, f[o[i]][j])
    BY <1>6, <2>2
  <2>4. x \in 1..z /\ \A j \in 1..l : x + j \in 1..z
    BY <2>3
  <2>5. content[x] = Cell("name", o[i], l) /\ x \in DOMAIN content
    BY <1>4, <2>2, <2>3, <2>4
  <2>6. ASSUME NEW j \in 1..l
        PROVE  content[x + j] = Cell("frame", NoName, f[o[i]][j]) /\ x + j \in DOMAIN content
    <3>1. x + j \in 1..Len(im) /\ x + j \in 1..Len(content)
      BY <1>4, <2>2, <2>4
    <3> QED
      BY <1>4, <2>3, <3>1
  <2>7. content[x].kind = "name" /\ content[x].name = o[i] /\ content[x].num = l
    BY <2>5 DEF Cell
  <2>8. \A j \in 1..l : /\ x + j \in DOMAIN content /\ content[x + j].kind = "frame"
                       /\ content[x + j].num = f[o[i]][j]
    <3> SUFFICES ASSUME NEW j \in 1..l
                 PROVE  /\ x + j \in DOMAIN content /\ content[x + j].kind = "frame"
                        /\ content[x + j].num = f[o[i]][j]
      OBVIOUS
    <3>1. content[x + j] = Cell("frame", NoName, f[o[i]][j]) /\ x + j \in DOMAIN content
      BY <2>6
    <3> QED
      BY <3>1 DEF Cell
  <2> QED
    BY <2>2, <2>3, <2>5, <2>7, <2>8
<1> DEFINE IsStart(s) == s = [i \in 1..n |-> IF i = 1 THEN 2 ELSE AfterRecord(content, s[i - 1])]
           start == RecordStarts(content)
<1>10. start = CHOOSE s : IsStart(s)
  BY <1>8 DEF RecordStarts
<1>11. \A i \in 1..n : i # 1 => i - 1 \in 1..n /\ p[i] = AfterRecord(content, p[i - 1])
  <2> SUFFICES ASSUME NEW i \in 1..n, i # 1
               PROVE  i - 1 \in 1..n /\ p[i] = AfterRecord(content, p[i - 1])
    OBVIOUS
  <2>1. i - 1 \in 1..n /\ i - 1 + 1 = i
    BY <1>5
  <2>2. p[i] = p[i - 1] + 1 + content[p[i - 1]].num /\ IsHead(content, p[i - 1])
    BY <1>9, <2>1 DEF IsHead
  <2> QED
    BY <2>1, <2>2 DEF AfterRecord
<1>12. IsStart([i \in 1..n |-> p[i]])
  BY <1>6, <1>11
<1>13. IsStart(start)
  BY <1>10, <1>12
<1> HIDE DEF start
<1>14. DOMAIN start = 1..n /\ \A i \in 1..n : start[i] = p[i]
  <2> DEFINE Wrong == {i \in 1..n : start[i] # p[i]}
  <2> SUFFICES ASSUME Wrong # {} PROVE FALSE
    BY <1>13
  <2>1. Wrong \subseteq Nat
    BY <1>5
  <2>2. PICK i \in Wrong : \A j \in Wrong : ~ (<<j, i>> \in OpToRel(<, Nat))
    <3> HIDE DEF Wrong
    <3> QED BY <2>1, NatLessThanWellFounded, WFMin
  <2>3. i # 1
    BY <1>6, <1>13
  <2>4. i - 1 \in 1..n /\ i - 1 < i /\ i \in Nat /\ i - 1 \in Nat
    BY <1>5, <2>3
  <2>5. i - 1 \notin Wrong
    <3> HIDE DEF Wrong
    <3> QED
      BY <2>2, <2>4 DEF OpToRel
  <2>6. start[i - 1] = p[i - 1]
    BY <2>4, <2>5
  <2> QED
    BY <1>11, <1>13, <2>3, <2>6
<1>15. Range(start) = {p[i] : i \in 1..n}
  BY <1>14 DEF Range
<1>16. Loads(content)
  <2>1. ASSUME NEW i \in 1..n PROVE IsRecord(content, p[i])
    BY <1>9 DEF IsRecord, IsHead
  <2> QED
    BY <1>8, <1>15, <2>1 DEF Loads, start
<1> DEFINE first(x) == Min({q \in Range(start) : content[q].name = x})
<1>17. ASSUME NEW i \in 1..n PROVE first(o[i]) = p[i]
  <2> DEFINE I == {q \in Range(start) : content[q].name = o[i]}
  <2>1. \A k \in 1..n : content[p[k]].name = o[i] <=> k = i
    <3>1. \A k \in 1..n : content[p[k]].name = o[k]
      BY <1>9
    <3>2. \A k \in 1..n : o[k] = o[i] => k = i
      BY <1>1, <1>5 DEF Orders, IsInjective
    <3> QED
      BY <3>1, <3>2
  <2>2. I = {p[i]}
    BY <1>15, <2>1
  <2>3. Min(I) = p[i]
    BY <1>9, <2>2 DEF Min
  <2> QED
    BY <2>3
<1>18. {content[q].name : q \in Range(start)} = DOMAIN f
  <2>1. {content[q].name : q \in Range(start)} = {content[p[i]].name : i \in 1..n}
    BY <1>15
  <2>2. {content[p[i]].name : i \in 1..n} = {o[i] : i \in 1..n}
    BY <1>9
  <2>3. {o[i] : i \in 1..n} = DOMAIN f
    BY <1>5
  <2> QED
    BY <2>1, <2>2, <2>3
<1>19. ASSUME NEW x \in DOMAIN f
       PROVE  [j \in 1..content[first(x)].num |-> content[first(x) + j].num] = f[x]
  <2>1. PICK i \in 1..n : x = o[i]
    BY <1>5
  <2>2. first(x) = p[i]
    BY <1>17, <2>1
  <2> HIDE DEF first
  <2>3. [j \in 1..content[p[i]].num |-> content[p[i] + j].num] = [j \in 1..Len(f[x]) |-> f[x][j]]
    BY <1>9, <2>1
  <2>4. f[x] = [j \in 1..Len(f[x]) |-> f[x][j]]
    BY <1>5, <2>1
  <2> QED
    BY <2>2, <2>3, <2>4
<1>20. Loaded(content) = [x \in DOMAIN f |-> f[x]]
  <2>1. Loaded(content) = [x \in {content[q].name : q \in Range(start)} |->
                             [j \in 1..content[first(x)].num |-> content[first(x) + j].num]]
    BY DEF Loaded, start
  <2> HIDE DEF first
  <2> QED
    BY <1>18, <1>19, <2>1
<1>21. f = [x \in DOMAIN f |-> f[x]]
  BY <1>1 DEF Orders
<1> QED
  BY <1>16, <1>20, <1>21

-----------------------------------------------------------------------------
(***************************************************************************)
(* Blocks and writes                                                       *)
(***************************************************************************)
LEMMA SubSeqIs ==
  ASSUME NEW S, NEW s \in Seq(S), NEW m \in Nat \ {0}, NEW n \in 0..Len(s)
  PROVE  /\ SubSeq(s, m, n) \in Seq(S)
         /\ Len(SubSeq(s, m, n)) = IF m <= n THEN n - m + 1 ELSE 0
         /\ \A j \in 1..(n - m + 1) : SubSeq(s, m, n)[j] = s[m + j - 1]
<1>1. m \in Int /\ n \in Int /\ \A i \in m..n : s[i] \in S
  OBVIOUS
<1> QED
  BY <1>1, SubSeqProperties

(* A write leaves what is before it and never makes the file shorter.      *)
LEMMA PutIs ==
  ASSUME NEW S, NEW content \in Seq(S), NEW at \in 0..Len(content), NEW cells \in Seq(S)
  PROVE  /\ Put(content, at, cells) \in Seq(S)
         /\ Len(Put(content, at, cells)) >= Len(content)
         /\ Len(Put(content, at, cells)) >= at + Len(cells)
         /\ \A j \in 1..at : Put(content, at, cells)[j] = content[j]
         /\ \A j \in 1..Len(cells) : Put(content, at, cells)[at + j] = cells[j]
<1> DEFINE a == SubSeq(content, 1, at)
           z == SubSeq(content, at + Len(cells) + 1, Len(content))
           c == Put(content, at, cells)
<1>1. PICK l, k : /\ l = Len(content) /\ k = Len(cells) /\ l \in Nat /\ k \in Nat
                  /\ at \in Nat /\ at <= l
  OBVIOUS
<1>2. /\ a \in Seq(S) /\ Len(a) = at /\ \A j \in 1..at : a[j] = content[j]
  <2>1. 1 \in Nat \ {0} /\ at \in 0..Len(content)
    OBVIOUS
  <2>2. /\ a \in Seq(S) /\ Len(a) = IF 1 <= at THEN at - 1 + 1 ELSE 0
        /\ \A j \in 1..(at - 1 + 1) : a[j] = content[1 + j - 1]
    BY <2>1, SubSeqIs
  <2> HIDE DEF a
  <2>3. Len(a) = at
    BY <1>1, <2>2
  <2>4. ASSUME NEW j \in 1..at PROVE a[j] = content[j]
    <3>1. j \in 1..(at - 1 + 1) /\ 1 + j - 1 = j
      BY <1>1
    <3> QED
      BY <2>2, <3>1
  <2> QED
    BY <2>2, <2>3, <2>4
<1>3. z \in Seq(S) /\ Len(z) \in Nat /\ at + k + Len(z) >= l
  <2>1. at + Len(cells) + 1 \in Nat \ {0} /\ Len(content) \in 0..Len(content)
    BY <1>1
  <2>2. /\ z \in Seq(S)
        /\ Len(z) = IF at + Len(cells) + 1 <= Len(content)
                    THEN Len(content) - (at + Len(cells) + 1) + 1 ELSE 0
    BY <2>1, SubSeqIs
  <2> HIDE DEF z
  <2>3. z \in Seq(S) /\ Len(z) = IF at + k + 1 <= l THEN l - (at + k + 1) + 1 ELSE 0
    BY <1>1, <2>2
  <2>4. PICK w : w = Len(z)
    OBVIOUS
  <2>5. w = IF at + k + 1 <= l THEN l - (at + k + 1) + 1 ELSE 0
    BY <2>3, <2>4
  <2>6. w \in Nat /\ at + k + w >= l
    <3>1. CASE at + k + 1 <= l
      <4>1. w = l - (at + k + 1) + 1
        BY <2>5, <3>1
      <4> QED
        BY <1>1, <3>1, <4>1
    <3>2. CASE ~ (at + k + 1 <= l)
      <4>1. w = 0
        BY <2>5, <3>2
      <4> QED
        BY <1>1, <3>2, <4>1
    <3> QED
      BY <3>1, <3>2
  <2> QED
    BY <2>3, <2>4, <2>6
<1>4. c = (a \o cells) \o z
  BY DEF Put
<1> HIDE DEF a, z, c
<1> DEFINE b == a \o cells
<1>5. /\ b \in Seq(S) /\ Len(b) = Len(a) + Len(cells)
      /\ \A j \in 1..(Len(a) + Len(cells)) : b[j] = IF j <= Len(a) THEN a[j] ELSE cells[j - Len(a)]
  BY <1>2, ConcatProperties
<1> HIDE DEF b
<1>6. /\ c \in Seq(S) /\ Len(c) = Len(b) + Len(z)
      /\ \A j \in 1..(Len(b) + Len(z)) : c[j] = IF j <= Len(b) THEN b[j] ELSE z[j - Len(b)]
  <2>1. /\ b \o z \in Seq(S) /\ Len(b \o z) = Len(b) + Len(z)
        /\ \A j \in 1..(Len(b) + Len(z)) : (b \o z)[j] = IF j <= Len(b) THEN b[j] ELSE z[j - Len(b)]
    BY <1>3, <1>5, ConcatProperties
  <2> QED
    BY <1>4, <2>1 DEF b
<1>7. Len(b) = at + k /\ Len(a) = at /\ Len(cells) = k
  BY <1>1, <1>2, <1>5
<1>8. PICK w \in Nat : w = Len(z)
  BY <1>3
<1>9. Len(c) = at + k + w /\ at + k + w >= l /\ at + k + w >= at + k
  BY <1>1, <1>3, <1>6, <1>7, <1>8
<1>10. ASSUME NEW j \in 1..at PROVE c[j] = content[j]
  <2>1. j \in 1..(at + k + w) /\ j \in 1..(at + k) /\ j <= at + k /\ j <= at
    BY <1>1
  <2> QED
    BY <1>2, <1>5, <1>6, <1>7, <1>8, <2>1
<1>11. ASSUME NEW j \in 1..k PROVE c[at + j] = cells[j]
  <2>1. /\ at + j \in 1..(at + k + w) /\ at + j \in 1..(at + k) /\ at + j <= at + k
        /\ ~ (at + j <= at) /\ at + j - at = j
    BY <1>1
  <2>2. c[at + j] = b[at + j]
    BY <1>6, <1>7, <1>8, <2>1
  <2>3. b[at + j] = cells[at + j - at]
    <3>1. \A i \in 1..(at + k) : b[i] = IF i <= at THEN a[i] ELSE cells[i - at]
      BY <1>5, <1>7
    <3> QED
      BY <2>1, <3>1
  <2> QED
    BY <2>1, <2>2, <2>3
<1>12. Len(c) >= Len(content) /\ Len(c) >= at + Len(cells)
  BY <1>1, <1>9
<1> QED
  BY <1>1, <1>6, <1>10, <1>11, <1>12 DEF c

(* A block is what comes next in the image, and there is one until the     *)
(* whole image has been written.                                           *)
LEMMA BlockIs ==
  ASSUME NEW S, NEW im \in Seq(S), im = Image(db_, frames_), NEW t, gen[t] \in 0..Len(im)
  PROVE  /\ BlockOf(t) \in Seq(S) /\ gen[t] + Len(BlockOf(t)) <= Len(im)
         /\ \A j \in 1..Len(BlockOf(t)) : BlockOf(t)[j] = im[gen[t] + j]
         /\ BlockOf(t) = << >> => gen[t] = Len(im)
         /\ SubSeq(BlockOf(t), 1, Len(BlockOf(t))) = BlockOf(t)
<1>1. PICK g, l : g = gen[t] /\ l = Len(im) /\ g \in Nat /\ l \in Nat /\ g <= l
  OBVIOUS
<1> DEFINE b == BlockOf(t)
<1>2. PICK last : /\ last \in 0..l /\ g <= last
                  /\ last = g => g = l
                  /\ b = SubSeq(im, g + 1, last)
  <2>1. b = SubSeq(im, g + 1, IF g + BS < l THEN g + BS ELSE l)
    BY <1>1 DEF BlockOf
  <2> HIDE DEF b
  <2>2. BS \in Nat /\ BS # 0
    BY DBFileAssumption
  <2>3. CASE g + BS < l
    <3>1. b = SubSeq(im, g + 1, g + BS)
      BY <2>1, <2>3
    <3>2. g + BS \in 0..l /\ g <= g + BS /\ g + BS # g
      BY <1>1, <2>2, <2>3
    <3> QED
      BY <3>1, <3>2
  <2>4. CASE ~ (g + BS < l)
    <3>1. b = SubSeq(im, g + 1, l)
      BY <2>1, <2>4
    <3>2. l \in 0..l
      BY <1>1
    <3> QED
      BY <1>1, <3>1, <3>2
  <2> QED
    BY <2>3, <2>4
<1>3. b = SubSeq(im, g + 1, last) /\ last \in Nat /\ g <= last /\ last <= l
  BY <1>1, <1>2
<1>4. /\ b \in Seq(S) /\ Len(b) = IF g + 1 <= last THEN last - (g + 1) + 1 ELSE 0
      /\ \A j \in 1..(last - (g + 1) + 1) : b[j] = im[g + 1 + j - 1]
  <2>1. g + 1 \in Nat \ {0} /\ last \in 0..Len(im)
    BY <1>1, <1>2
  <2> HIDE DEF b
  <2> QED
    BY <1>3, <2>1, SubSeqIs
<1> HIDE DEF b
<1>5. Len(b) = last - g /\ last - (g + 1) + 1 = last - g /\ last - g \in Nat
  <2>1. PICK x : x = Len(b)
    OBVIOUS
  <2>2. x = IF g + 1 <= last THEN last - (g + 1) + 1 ELSE 0
    BY <1>4, <2>1
  <2>4. x = last - g /\ last - (g + 1) + 1 = last - g /\ last - g \in Nat
    BY <1>1, <1>3, <2>2
  <2> QED
    BY <2>1, <2>4
<1>6. ASSUME NEW j \in 1..Len(b) PROVE b[j] = im[g + j]
  <2>1. g + 1 + j - 1 = g + j /\ j \in 1..(last - (g + 1) + 1)
    BY <1>1, <1>5
  <2> QED
    BY <1>4, <2>1
<1>7. b = << >> => g = l
  <2>1. b = << >> => Len(b) = 0
    OBVIOUS
  <2>2. last - g = 0 => last = g
    BY <1>1, <1>3
  <2> QED
    BY <1>2, <1>5, <2>1, <2>2
<1>8. g + Len(b) <= l
  BY <1>1, <1>3, <1>5
<1>9. SubSeq(b, 1, Len(b)) = b
  <2> DEFINE c == SubSeq(b, 1, Len(b))
  <2>1. 1 \in Nat \ {0} /\ Len(b) \in 0..Len(b) /\ Len(b) \in Nat
    BY <1>5
  <2>2. /\ c \in Seq(S) /\ Len(c) = IF 1 <= Len(b) THEN Len(b) - 1 + 1 ELSE 0
        /\ \A j \in 1..(Len(b) - 1 + 1) : c[j] = b[1 + j - 1]
    BY <1>4, <2>1, SubSeqIs
  <2> HIDE DEF c
  <2>3. Len(c) = Len(b)
    BY <2>1, <2>2
  <2>4. ASSUME NEW j \in 1..Len(b) PROVE c[j] = b[j]
    <3>1. j \in 1..(Len(b) - 1 + 1) /\ 1 + j - 1 = j
      BY <2>1
    <3> QED
      BY <2>2, <3>1
  <2> QED
    BY <1>4, <2>2, <2>3, <2>4 DEF c
<1> QED
  BY <1>1, <1>4, <1>6, <1>7, <1>8, <1>9 DEF b

-----------------------------------------------------------------------------
(***************************************************************************)
(* The videos in memory                                                    *)
(***************************************************************************)
IsStore(f) == f \in [DOMAIN f -> FrameList] /\ DOMAIN f \subseteq Name

LEMMA StoreIs == ASSUME NEW f PROVE f \in Store <=> IsStore(f)
<1>1. ASSUME f \in Store PROVE IsStore(f)
  BY <1>1 DEF Store, IsStore
<1>2. ASSUME IsStore(f) PROVE f \in Store
  <2>1. DOMAIN f \in SUBSET Name /\ f \in [DOMAIN f -> FrameList]
    BY <1>2 DEF IsStore
  <2>2. [DOMAIN f -> FrameList] \in {[S -> FrameList] : S \in SUBSET Name}
    BY <2>1
  <2> QED
    BY <2>1, <2>2 DEF Store
<1> QED
  BY <1>1, <1>2

(* An iteration over finitely many videos meets each of them once.         *)
LEMMA SeqsAreOrders ==
  ASSUME NEW f, IsStore(f), IsFiniteSet(DOMAIN f), NEW o \in SetToSeqs(DOMAIN f)
  PROVE  Orders(o, f)
<1> DEFINE D == DOMAIN f
           n == Cardinality(D)
<1>1. n \in Nat
  BY FS_CardinalityType
<1>2. o \in [1..n -> D] /\ \A i, j \in 1..n : i # j => o[i] # o[j]
  BY DEF SetToSeqs
<1>3. D \subseteq Name
  BY DEF IsStore
<1>4. IsFiniteSet(1..n) /\ Cardinality(1..n) = n
  <2>1. 1 \in Int /\ n \in Int
    BY <1>1
  <2>2. IsFiniteSet(1..n) /\ Cardinality(1..n) = IF 1 > n THEN 0 ELSE n - 1 + 1
    BY <2>1, FS_Interval
  <2> HIDE DEF n
  <2> QED
    BY <1>1, <2>2
<1>5. o \in Injection(1..n, D)
  <2> HIDE DEF n, D
  <2> QED
    BY <1>2 DEF Injection, IsInjective
<1>6. o \in Surjection(1..n, D)
  <2>1. IsFiniteSet(D)
    OBVIOUS
  <2>2. Cardinality(1..n) = Cardinality(D) <=> o \in Surjection(1..n, D)
    BY <1>5, <2>1, FS_Injection
  <2> QED
    BY <1>4, <2>2
<1> HIDE DEF n
<1>7. Range(o) = D
  <2>1. \A y \in D : \E i \in 1..n : o[i] = y
    BY <1>6 DEF Surjection
  <2> HIDE DEF D
  <2> QED
    BY <1>2, <2>1 DEF Range
<1>8. o \in Seq(D)
  BY <1>1, <1>2
<1>9. o \in Seq(Name)
  <2>1. o \in [1..n -> Name]
    BY <1>2, <1>3
  <2> QED
    BY <1>1, <2>1
<1>10. IsInjective(o)
  BY <1>2 DEF IsInjective
<1> QED
  BY <1>7, <1>9, <1>10 DEF Orders, IsStore

LEMMA OrdersAreSeqs ==
  ASSUME NEW o, NEW f, Orders(o, f)
  PROVE  f \in Store /\ IsStore(f) /\ IsFiniteSet(DOMAIN f) /\ o \in SetToSeqs(DOMAIN f)
<1> DEFINE D == DOMAIN f
           n == Len(o)
<1>1. IsStore(f)
  BY DEF Orders, IsStore
<1>2. n \in Nat /\ o \in [1..n -> D] /\ \A i, j \in 1..n : i # j => o[i] # o[j]
  <2>1. o \in Seq(Name)
    BY DEF Orders
  <2>2. n \in Nat /\ DOMAIN o = 1..n /\ o \in [1..n -> Name]
    BY <2>1
  <2>3. \A i \in 1..n : o[i] \in D
    BY <2>2 DEF Orders, Range
  <2>4. \A i, j \in 1..n : i # j => o[i] # o[j]
    BY <2>2 DEF Orders, IsInjective
  <2> HIDE DEF n, D
  <2> QED
    BY <2>2, <2>3, <2>4
<1>3. \A y \in D : \E i \in 1..n : o[i] = y
  BY OrderOf
<1>4. o \in Bijection(1..n, D)
  <2> HIDE DEF n, D
  <2>1. o \in Injection(1..n, D)
    BY <1>2 DEF Injection, IsInjective
  <2>2. o \in Surjection(1..n, D)
    BY <1>2, <1>3 DEF Surjection
  <2> QED
    BY <2>1, <2>2 DEF Bijection
<1>5. ExistsBijection(1..n, D)
  BY <1>4 DEF ExistsBijection
<1>6. IsFiniteSet(D)
  <2> HIDE DEF D
  <2> QED
    BY <1>2, <1>5, FS_NatBijection
<1>7. Cardinality(D) = n
  <2> HIDE DEF n, D
  <2> QED
    BY <1>2, <1>5, FS_CountingElements
<1>8. o \in SetToSeqs(D)
  <2> HIDE DEF n, D
  <2> QED
    BY <1>2, <1>7 DEF SetToSeqs
<1> QED
  BY <1>1, <1>6, <1>8, StoreIs

LEMMA VideosAre == ASSUME Orders(db_, frames_) PROVE Videos = frames_
<1>1. Range(db_) = DOMAIN frames_ /\ frames_ = [n \in DOMAIN frames_ |-> frames_[n]]
  BY DEF Orders
<1> QED
  BY <1>1 DEF Videos

LEMMA ImageIs ==
  ASSUME NEW o, NEW f, Orders(o, f)
  PROVE  Image(o, f) \in Seq(CellType) /\ Len(Image(o, f)) \in Nat
<1>1. PICK p : IsImage(o, f, Image(o, f), p)
  BY ImagePlaces
<1> QED
  BY <1>1 DEF IsImage

LEMMA EmptyOrders == Orders(<< >>, << >>)
<1>1. << >> \in Seq(Name) /\ DOMAIN << >> = {}
  OBVIOUS
<1>2. << >> \in [{} -> FrameList]
  <2>1. << >> \in Seq(FrameList) /\ Len(<< >>) = 0
    OBVIOUS
  <2>2. << >> \in [1..0 -> FrameList]
    BY <2>1
  <2>3. 1..0 = {}
    OBVIOUS
  <2> QED
    BY <2>2, <2>3
<1>3. IsInjective(<< >>) /\ Range(<< >>) = {}
  BY <1>1 DEF IsInjective, Range
<1> QED
  BY <1>1, <1>2, <1>3 DEF Orders

(* One more video.                                                         *)
LEMMA OrdersAdd ==
  ASSUME NEW o, NEW f, Orders(o, f), NEW n \in Name, n \notin DOMAIN f, NEW fs \in FrameList,
         NEW g, g = [m \in DOMAIN f \cup {n} |-> IF m = n THEN fs ELSE f[m]],
         NEW q \in SetToSeqs(DOMAIN g)
  PROVE  Orders(q, g) /\ Pairs(f) \subseteq Pairs(g)
<1>1. IsStore(f) /\ IsFiniteSet(DOMAIN f)
  BY OrdersAreSeqs
<1>2. DOMAIN g = DOMAIN f \cup {n}
  OBVIOUS
<1>3. IsFiniteSet(DOMAIN g)
  BY <1>1, <1>2, FS_AddElement
<1>4. IsStore(g)
  <2>1. \A m \in DOMAIN f : f[m] \in FrameList
    BY <1>1 DEF IsStore
  <2>2. g \in [DOMAIN f \cup {n} -> FrameList]
    BY <2>1
  <2> QED
    BY <1>1, <1>2, <2>2 DEF IsStore
<1>5. Orders(q, g)
  BY <1>3, <1>4, SeqsAreOrders
<1>6. \A m \in DOMAIN f : m \in DOMAIN g /\ g[m] = f[m]
  OBVIOUS
<1>7. Pairs(f) \subseteq Pairs(g)
  <2> SUFFICES ASSUME NEW m \in DOMAIN f PROVE <<m, f[m]>> \in Pairs(g)
    BY DEF Pairs
  <2> QED
    BY <1>6 DEF Pairs
<1> QED
  BY <1>5, <1>7

LEMMA PairsType == ASSUME NEW f, IsStore(f) PROVE Pairs(f) \in SUBSET (Name \X FrameList)
<1>1. \A n \in DOMAIN f : n \in Name /\ f[n] \in FrameList
  BY DEF IsStore
<1> QED
  BY <1>1 DEF Pairs

-----------------------------------------------------------------------------
(***************************************************************************)
(* What holds however many threads save at once.  The db file is another   *)
(* matter, as is what Load makes of it.                                    *)
(***************************************************************************)
Writing == {"write", "rename", "unlock"}
Opened  == {"lock", "write", "rename"}

Types ==
  /\ up \in BOOLEAN
  /\ stops \in 0..MAX_STOPS
  /\ mutex_ \in Worker \cup {NoWorker}
  /\ pc \in [Worker -> {"idle", "open", "lock", "write", "rename", "unlock", "done"}]
  /\ fd \in [Worker -> Inode \cup {NoFile}]
  /\ gen \in [Worker -> Nat]
  /\ off \in [Worker -> Nat]
  /\ asked \in [Worker -> SUBSET (Name \X FrameList)]
  /\ promised \in SUBSET (Name \X FrameList)
  /\ dir \in DirType /\ ddir \in DirType
  /\ file \in [Inode -> Seq(CellType)]
  /\ synced \in [Inode -> Seq(CellType)]

(* The file begins with the first n cells of the image of memory.          *)
Written(content, n) ==
  n <= Len(content) /\ \A j \in 1..n : content[j] = Image(db_, frames_)[j]

(* A thread has a file open from SaveOpen to SaveRename and the mutex from *)
(* SaveLock to SaveUnlock.  While it has both, its file begins with what   *)
(* it has written, and it has written that much of the image.              *)
ThreadInv(t) ==
  /\ mutex_ = t <=> pc[t] \in Writing
  /\ fd[t] # NoFile <=> pc[t] \in Opened
  /\ pc[t] = "lock" => gen[t] = 0 /\ off[t] = 0
  /\ pc[t] = "write" => off[t] = gen[t]
  /\ fd[t] # NoFile => off[t] <= Len(file[fd[t]])
  /\ pc[t] \in Writing => gen[t] <= Len(Image(db_, frames_))
  /\ pc[t] \in {"write", "rename"} => Written(file[fd[t]], gen[t])
  /\ pc[t] = "rename" => gen[t] = Len(Image(db_, frames_))
  /\ asked[t] \subseteq Pairs(frames_)
  /\ pc[t] = "idle" => asked[t] = {}

MemInv ==
  /\ Orders(db_, frames_)
  /\ ~ up => /\ db_ = << >> /\ frames_ = << >> /\ mutex_ = NoWorker
             /\ \A t \in Worker : pc[t] = "idle"

BaseInv == Types /\ MemInv /\ \A t \in Worker : ThreadInv(t)

LEMMA BaseInit == ASSUME Init PROVE BaseInv
<1>1. Orders(<< >>, << >>)
  BY EmptyOrders
<1>2. MemInv
  BY <1>1 DEF Init, MemInv
<1>3. << >> \in Seq(CellType)
  OBVIOUS
<1>4. Types
  <2>1. 0 \in 0..MAX_STOPS
    BY DBFileAssumption
  <2> QED
    BY <1>3, <2>1 DEF Init, Types, DirType, NoDir
<1>5. ASSUME NEW t \in Worker PROVE ThreadInv(t)
  BY DBFileAssumption DEF Init, ThreadInv, Writing, Opened
<1> QED
  BY <1>2, <1>4, <1>5 DEF BaseInv

LEMMA BaseLoad ==
  ASSUME BaseInv, Load, IsStore(Stored(dir, file)), IsFiniteSet(DOMAIN Stored(dir, file))
  PROVE  BaseInv'
<1>1. Orders(db_', frames_')
  BY SeqsAreOrders DEF Load
<1>2. MemInv'
  BY <1>1 DEF MemInv, Load
<1>3. Types'
  BY DEF BaseInv, Types, Load, disk_vars
<1>4. ASSUME NEW t \in Worker PROVE ThreadInv(t)'
  <2>1. pc'[t] = "idle" /\ ThreadInv(t)
    BY DEF BaseInv, MemInv, Load
  <2> QED
    BY <2>1 DEF ThreadInv, Load, disk_vars, Writing, Opened
<1> QED
  BY <1>2, <1>3, <1>4 DEF BaseInv

LEMMA BaseAdd == ASSUME BaseInv, Add PROVE BaseInv' /\ Pairs(frames_) \subseteq Pairs(frames_')
<1>1. PICK n \in Name \ Range(db_), fs \in FrameList :
        /\ frames_' = [m \in DOMAIN frames_ \cup {n} |-> IF m = n THEN fs ELSE frames_[m]]
        /\ db_' \in SetToSeqs(DOMAIN frames_')
  BY DEF Add
<1>2. Orders(db_, frames_)
  BY DEF BaseInv, MemInv
<1>3. n \notin DOMAIN frames_
  BY <1>1, <1>2 DEF Orders
<1>4. Orders(db_', frames_') /\ Pairs(frames_) \subseteq Pairs(frames_')
  BY <1>1, <1>2, <1>3, OrdersAdd
<1>5. MemInv'
  BY <1>4 DEF MemInv, Add
<1>6. Types'
  BY DEF BaseInv, Types, Add, disk_vars
<1>7. ASSUME NEW t \in Worker PROVE ThreadInv(t)'
  <2>1. pc[t] \notin Writing /\ ThreadInv(t)
    BY DBFileAssumption DEF BaseInv, ThreadInv, Add
  <2> QED
    BY <1>4, <2>1 DEF ThreadInv, Add, disk_vars, Writing
<1> QED
  BY <1>4, <1>5, <1>6, <1>7 DEF BaseInv

LEMMA BaseRequest == ASSUME BaseInv, NEW t \in Worker, SaveRequest(t) PROVE BaseInv'
<1> USE DEF SaveRequest, Goto, mem_vars, disk_vars
<1>1. Orders(db_, frames_) /\ up
  BY DEF BaseInv, MemInv
<1>2. Pairs(Videos) = Pairs(frames_) /\ Pairs(frames_) \in SUBSET (Name \X FrameList)
  BY <1>1, VideosAre, OrdersAreSeqs, PairsType
<1>3. MemInv'
  BY <1>1 DEF MemInv
<1>4. Types'
  BY <1>2 DEF BaseInv, Types
<1>5. ASSUME NEW u \in Worker PROVE ThreadInv(u)'
  BY <1>2 DEF BaseInv, Types, ThreadInv, Written, Writing, Opened
<1> QED
  BY <1>3, <1>4, <1>5 DEF BaseInv

(* The file a save opens is the one called tmp from now on.                *)
LEMMA OpenIs ==
  ASSUME BaseInv, NEW t \in Worker, SaveOpen(t)
  PROVE  \E i \in Inode :
           /\ fd' = [fd EXCEPT ![t] = i] /\ dir' = [dir EXCEPT !.tmp = i]
           /\ \/ i = dir.tmp /\ UNCHANGED <<dir, file, synced>>
              \/ /\ dir.tmp = NoFile /\ Unused(i)
                 /\ file' = [file EXCEPT ![i] = << >>]
                 /\ synced' = [synced EXCEPT ![i] = << >>]
<1>1. dir \in DirType
  BY DEF BaseInv, Types
<1>2. CASE dir.tmp # NoFile
  <2>1. dir.tmp \in Inode /\ dir = [dir EXCEPT !.tmp = dir.tmp]
    BY <1>1, <1>2 DEF DirType
  <2> QED
    BY <1>2, <2>1 DEF SaveOpen, disk_vars
<1>3. CASE dir.tmp = NoFile
  BY <1>3 DEF SaveOpen
<1> QED
  BY <1>2, <1>3

LEMMA BaseOpen == ASSUME BaseInv, NEW t \in Worker, SaveOpen(t) PROVE BaseInv'
<1> USE DEF SaveOpen, Goto, mem_vars
<1>0. PICK i \in Inode :
           /\ fd' = [fd EXCEPT ![t] = i] /\ dir' = [dir EXCEPT !.tmp = i]
           /\ \/ i = dir.tmp /\ UNCHANGED <<dir, file, synced>>
              \/ /\ dir.tmp = NoFile /\ Unused(i)
                 /\ file' = [file EXCEPT ![i] = << >>]
                 /\ synced' = [synced EXCEPT ![i] = << >>]
  BY OpenIs
<1>1. Orders(db_, frames_) /\ up
  BY DEF BaseInv, MemInv
<1>2. MemInv'
  BY <1>1 DEF MemInv
<1>3. << >> \in Seq(CellType) /\ Len(<< >>) = 0
  OBVIOUS
<1>4. Types'
  <2>1. dir' \in DirType /\ ddir' = ddir
    BY <1>0 DEF BaseInv, Types, DirType, disk_vars
  <2>2. file' \in [Inode -> Seq(CellType)] /\ synced' \in [Inode -> Seq(CellType)]
    BY <1>0, <1>3 DEF BaseInv, Types
  <2> QED
    BY <1>0, <2>1, <2>2 DEF BaseInv, Types
<1>5. /\ fd' \in [Worker -> Inode \cup {NoFile}] /\ fd'[t] \in Inode
      /\ \A u \in Worker \ {t} : /\ fd'[u] = fd[u] /\ pc'[u] = pc[u] /\ gen'[u] = gen[u] /\ off'[u] = off[u]
                                 /\ fd[u] # NoFile => file'[fd[u]] = file[fd[u]]
  <2>1. fd \in [Worker -> Inode \cup {NoFile}] /\ file \in [Inode -> Seq(CellType)]
    BY DEF BaseInv, Types
  <2>2. \A u \in Worker \ {t} : fd[u] # NoFile => file'[fd[u]] = file[fd[u]]
    BY <1>0, <2>1 DEF Unused, Range
  <2>3. \A u \in Worker \ {t} : /\ fd'[u] = fd[u] /\ pc'[u] = pc[u] /\ gen'[u] = gen[u] /\ off'[u] = off[u]
    BY <1>0 DEF BaseInv, Types
  <2> QED
    BY <1>0, <2>1, <2>2, <2>3
<1>6. pc[t] = "open" /\ pc'[t] = "lock" /\ gen'[t] = 0 /\ off'[t] = 0
  BY DEF BaseInv, Types
<1>7. ASSUME NEW u \in Worker PROVE ThreadInv(u)'
  <2>1. CASE u = t
    <3>1. Len(file'[fd'[t]]) \in Nat
      BY <1>4, <1>5 DEF Types
    <3> QED
      BY <2>1, <1>5, <1>6, <3>1, DBFileAssumption DEF BaseInv, ThreadInv, Writing, Opened
  <2>2. CASE u # t
    BY <2>2, <1>5 DEF BaseInv, ThreadInv, Written, Writing, Opened
  <2> QED
    BY <2>1, <2>2
<1> QED
  BY <1>2, <1>4, <1>7 DEF BaseInv

LEMMA BaseLock == ASSUME BaseInv, NEW t \in Worker, SaveLock(t) PROVE BaseInv'
<1> USE DEF SaveLock, Goto, mem_vars, disk_vars
<1>1. Orders(db_, frames_) /\ up
  BY DEF BaseInv, MemInv
<1>2. MemInv'
  BY <1>1 DEF MemInv
<1>3. Types'
  BY DEF BaseInv, Types
<1>4. Len(Image(db_, frames_)) \in Nat
  BY <1>1, ImageIs
<1>5. ASSUME NEW u \in Worker PROVE ThreadInv(u)'
  <2>1. CASE u = t
    <3>1. pc[t] = "lock" /\ pc'[t] = "write" /\ gen[t] = 0 /\ off[t] = 0
      BY DEF BaseInv, Types, ThreadInv
    <3>2. fd[t] \in Inode /\ Len(file[fd[t]]) \in Nat
      BY <3>1 DEF BaseInv, Types, ThreadInv, Opened
    <3> QED
      BY <2>1, <1>4, <3>1, <3>2, DBFileAssumption
      DEF BaseInv, ThreadInv, Written, Writing, Opened
  <2>2. CASE u # t
    BY <2>2, DBFileAssumption DEF BaseInv, Types, ThreadInv, Written, Writing, Opened
  <2> QED
    BY <2>1, <2>2
<1> QED
  BY <1>2, <1>3, <1>5 DEF BaseInv

(* At most one thread writes.                                              *)
LEMMA OneWrites ==
  ASSUME BaseInv, NEW t \in Worker, NEW u \in Worker, pc[t] \in Writing, pc[u] \in Writing
  PROVE  t = u
BY DEF BaseInv, ThreadInv

(* What the flush does to the file and to the thread's counters.           *)
LEMMA FlushIs ==
  ASSUME BaseInv, NEW t \in Worker, Flush(t)
  PROVE  /\ up /\ pc[t] = "write" /\ fd[t] \in Inode
         /\ gen' \in [Worker -> Nat] /\ off' \in [Worker -> Nat] /\ file' \in [Inode -> Seq(CellType)]
         /\ \A u \in Worker \ {t} : gen'[u] = gen[u] /\ off'[u] = off[u]
         /\ \A i \in Inode : i # fd[t] => file'[i] = file[i]
         /\ Len(file[fd[t]]) <= Len(file'[fd[t]])
         /\ off'[t] = gen'[t] /\ gen'[t] <= Len(Image(db_, frames_))
         /\ gen'[t] <= Len(file'[fd[t]])
         /\ \A j \in 1..gen'[t] : file'[fd[t]][j] = Image(db_, frames_)[j]
<1>1. PICK i, im, b : i = fd[t] /\ im = Image(db_, frames_) /\ b = BlockOf(t)
  OBVIOUS
<1>2. PICK g, k : g = gen[t] /\ k = Len(b)
  OBVIOUS
<1>3. /\ up /\ pc[t] = "write" /\ b # << >>
      /\ file' = [file EXCEPT ![i] = Put(@, off[t], SubSeq(b, 1, k))]
      /\ off' = [off EXCEPT ![t] = @ + k]
      /\ gen' = [gen EXCEPT ![t] = @ + k]
  BY <1>1, <1>2 DEF Flush, FlushTaking
<1>4. im \in Seq(CellType) /\ Len(im) \in Nat
  BY <1>1, ImageIs DEF BaseInv, MemInv
<1>5. /\ gen \in [Worker -> Nat] /\ off \in [Worker -> Nat] /\ file \in [Inode -> Seq(CellType)]
      /\ i \in Inode /\ g \in Nat /\ off[t] = g /\ g <= Len(im) /\ g <= Len(file[i])
      /\ \A j \in 1..g : file[i][j] = im[j]
  BY <1>1, <1>2, <1>3 DEF BaseInv, Types, ThreadInv, Written, Writing, Opened
<1>6. /\ b \in Seq(CellType) /\ g + k <= Len(im) /\ k \in Nat
      /\ \A j \in 1..k : b[j] = im[g + j]
      /\ SubSeq(b, 1, k) = b
  <2>1. gen[t] \in 0..Len(im)
    BY <1>2, <1>4, <1>5
  <2>2. /\ BlockOf(t) \in Seq(CellType) /\ gen[t] + Len(BlockOf(t)) <= Len(im)
        /\ \A j \in 1..Len(BlockOf(t)) : BlockOf(t)[j] = im[gen[t] + j]
        /\ SubSeq(BlockOf(t), 1, Len(BlockOf(t))) = BlockOf(t)
    BY <1>1, <1>4, <2>1, BlockIs
  <2> QED
    BY <1>1, <1>2, <2>2
<1>7. PICK c, d : c = file[i] /\ d = Put(c, g, b)
  OBVIOUS
<1>8. /\ d \in Seq(CellType) /\ Len(d) >= Len(c) /\ Len(d) >= g + k
      /\ \A j \in 1..g : d[j] = c[j]
      /\ \A j \in 1..k : d[g + j] = b[j]
  <2>1. c \in Seq(CellType) /\ g \in 0..Len(c) /\ b \in Seq(CellType)
    BY <1>5, <1>6, <1>7
  <2> QED
    BY <1>2, <1>7, <2>1, PutIs
<1>9. file' = [file EXCEPT ![i] = d]
  BY <1>3, <1>5, <1>6, <1>7
<1>10. file'[i] = d /\ file' \in [Inode -> Seq(CellType)] /\ \A j \in Inode : j # i => file'[j] = file[j]
  BY <1>5, <1>8, <1>9
<1>11. /\ gen' \in [Worker -> Nat] /\ off' \in [Worker -> Nat]
       /\ \A u \in Worker \ {t} : gen'[u] = gen[u] /\ off'[u] = off[u]
       /\ off'[t] = g + k /\ gen'[t] = g + k
  BY <1>2, <1>3, <1>5, <1>6
<1>12. ASSUME NEW j \in 1..(g + k) PROVE d[j] = im[j]
  <2>1. CASE j <= g
    <3>1. j \in 1..g
      BY <1>5, <1>6, <2>1
    <3> QED
      BY <1>5, <1>7, <1>8, <3>1
  <2>2. CASE ~ (j <= g)
    <3>1. j - g \in 1..k /\ g + (j - g) = j
      BY <1>5, <1>6, <2>2
    <3> QED
      BY <1>6, <1>8, <3>1
  <2> QED
    BY <2>1, <2>2
<1>13. Len(c) \in Nat /\ Len(d) \in Nat
  BY <1>5, <1>7, <1>8
<1> QED
  BY <1>1, <1>3, <1>5, <1>6, <1>7, <1>8, <1>10, <1>11, <1>12, <1>13

LEMMA BaseFlush == ASSUME BaseInv, NEW t \in Worker, Flush(t) PROVE BaseInv'
<1>1. /\ UNCHANGED <<up, stops, pc, fd, asked, promised, dir, ddir, synced>>
      /\ UNCHANGED <<mutex_, db_, frames_>>
  BY DEF Flush, FlushTaking, mem_vars
<1>2. MemInv'
  BY <1>1 DEF BaseInv, MemInv
<1>3. Types'
  BY <1>1, FlushIs DEF BaseInv, Types
<1>4. pc[t] = "write"
  BY FlushIs
<1>5. ASSUME NEW u \in Worker PROVE ThreadInv(u)'
  <2>1. CASE u = t
    <3>1. gen'[t] \in Nat /\ Len(file'[fd[t]]) \in Nat
      BY FlushIs
    <3> QED
      BY <2>1, <3>1, <1>1, <1>4, FlushIs DEF BaseInv, ThreadInv, Written, Writing, Opened
  <2>2. CASE u # t
    <3>1. /\ ThreadInv(u) /\ gen'[u] = gen[u] /\ off'[u] = off[u] /\ pc[u] \notin Writing
          /\ off[u] \in Nat
      BY <2>2, <1>4, FlushIs, OneWrites DEF BaseInv, Types, Writing
    <3>2. fd[u] # NoFile => off[u] <= Len(file'[fd[u]])
      <4> SUFFICES ASSUME fd[u] # NoFile PROVE off[u] <= Len(file'[fd[u]])
        OBVIOUS
      <4>1. fd[u] \in Inode /\ fd[t] \in Inode
        BY FlushIs DEF BaseInv, Types
      <4>2. /\ Len(file[fd[u]]) \in Nat /\ Len(file'[fd[u]]) \in Nat
            /\ Len(file[fd[u]]) <= Len(file'[fd[u]])
        <5>1. file[fd[u]] \in Seq(CellType) /\ file'[fd[u]] \in Seq(CellType)
          BY <4>1, FlushIs DEF BaseInv, Types
        <5>2. fd[u] = fd[t] \/ file'[fd[u]] = file[fd[u]]
          BY <4>1, FlushIs
        <5> QED
          BY <5>1, <5>2, FlushIs
      <4> QED
        BY <3>1, <4>2 DEF ThreadInv
    <3> QED
      BY <1>1, <3>1, <3>2 DEF ThreadInv, Writing
  <2> QED
    BY <2>1, <2>2
<1> QED
  BY <1>2, <1>3, <1>5 DEF BaseInv

(* A save syncs once the whole image is in its file.                       *)
LEMMA SyncIs ==
  ASSUME BaseInv, NEW t \in Worker, SaveSync(t)
  PROVE  /\ pc[t] = "write" /\ fd[t] \in Inode
         /\ gen[t] = Len(Image(db_, frames_))
         /\ Written(file[fd[t]], gen[t])
<1>1. PICK im : im = Image(db_, frames_) /\ im \in Seq(CellType) /\ Len(im) \in Nat
  BY ImageIs DEF BaseInv, MemInv
<1>2. pc[t] = "write"
  BY DEF SaveSync, Goto
<1>3. fd[t] \in Inode /\ gen[t] \in Nat /\ gen[t] <= Len(im) /\ Written(file[fd[t]], gen[t])
  BY <1>1, <1>2 DEF BaseInv, Types, ThreadInv, Writing, Opened
<1>4. gen[t] \in 0..Len(im)
  BY <1>1, <1>3
<1>5. gen[t] = Len(im)
  BY <1>1, <1>4, BlockIs DEF SaveSync
<1> QED
  BY <1>1, <1>2, <1>3, <1>5

LEMMA BaseSync == ASSUME BaseInv, NEW t \in Worker, SaveSync(t) PROVE BaseInv'
<1> USE DEF SaveSync, Goto, mem_vars
<1>1. Orders(db_, frames_) /\ up
  BY DEF BaseInv, MemInv
<1>2. MemInv'
  BY <1>1 DEF MemInv
<1>3. Types'
  BY SyncIs DEF BaseInv, Types
<1>4. ASSUME NEW u \in Worker PROVE ThreadInv(u)'
  <2>1. CASE u = t
    <3>1. pc[t] = "write" /\ pc'[t] = "rename"
      BY DEF BaseInv, Types
    <3> QED
      BY <2>1, <3>1, SyncIs DEF BaseInv, ThreadInv, Written, Writing, Opened
  <2>2. CASE u # t
    BY <2>2 DEF BaseInv, Types, ThreadInv, Written, Writing, Opened
  <2> QED
    BY <2>1, <2>2
<1> QED
  BY <1>2, <1>3, <1>4 DEF BaseInv

LEMMA BaseRename == ASSUME BaseInv, NEW t \in Worker, SaveRename(t) PROVE BaseInv'
<1> USE DEF SaveRename, Goto, mem_vars
<1>1. Orders(db_, frames_) /\ up
  BY DEF BaseInv, MemInv
<1>2. MemInv'
  BY <1>1 DEF MemInv
<1>3. Types'
  <2>1. dir' \in DirType
    BY DEF BaseInv, Types, DirType
  <2> QED
    BY <2>1 DEF BaseInv, Types
<1>4. ASSUME NEW u \in Worker PROVE ThreadInv(u)'
  <2>1. CASE u = t
    <3>1. pc[t] = "rename" /\ pc'[t] = "unlock" /\ fd'[t] = NoFile
      BY DEF BaseInv, Types
    <3> QED
      BY <2>1, <3>1 DEF BaseInv, ThreadInv, Written, Writing, Opened
  <2>2. CASE u # t
    BY <2>2 DEF BaseInv, Types, ThreadInv, Written, Writing, Opened
  <2> QED
    BY <2>1, <2>2
<1> QED
  BY <1>2, <1>3, <1>4 DEF BaseInv

LEMMA BaseUnlock == ASSUME BaseInv, NEW t \in Worker, SaveUnlock(t) PROVE BaseInv'
<1> USE DEF SaveUnlock, Goto, disk_vars
<1>1. Orders(db_, frames_) /\ up
  BY DEF BaseInv, MemInv
<1>2. MemInv'
  BY <1>1 DEF MemInv
<1>3. Types'
  BY DEF BaseInv, Types
<1>4. ASSUME NEW u \in Worker PROVE ThreadInv(u)'
  <2>1. CASE u = t
    <3>1. pc[t] = "unlock" /\ pc'[t] = "done"
      BY DEF BaseInv, Types
    <3> QED
      BY <2>1, <3>1, DBFileAssumption DEF BaseInv, ThreadInv, Written, Writing, Opened
  <2>2. CASE u # t
    <3>1. pc[u] \notin Writing
      BY <2>2, OneWrites DEF Writing
    <3> QED
      BY <2>2, <3>1, DBFileAssumption DEF BaseInv, Types, ThreadInv, Written, Writing, Opened
  <2> QED
    BY <2>1, <2>2
<1> QED
  BY <1>2, <1>3, <1>4 DEF BaseInv

LEMMA BaseReply == ASSUME BaseInv, NEW t \in Worker, SaveReply(t) PROVE BaseInv'
<1> USE DEF SaveReply, Goto, mem_vars, disk_vars
<1>1. Orders(db_, frames_) /\ up
  BY DEF BaseInv, MemInv
<1>2. MemInv'
  BY <1>1 DEF MemInv
<1>3. Types'
  BY DEF BaseInv, Types
<1>4. ASSUME NEW u \in Worker PROVE ThreadInv(u)'
  BY DEF BaseInv, Types, ThreadInv, Written, Writing, Opened
<1> QED
  BY <1>2, <1>3, <1>4 DEF BaseInv

LEMMA BaseSave == ASSUME BaseInv, NEW t \in Worker, Save(t) PROVE BaseInv'
BY BaseRequest, BaseOpen, BaseLock, BaseFlush, BaseSync, BaseRename, BaseUnlock, BaseReply DEF Save

LEMMA BaseEnds ==
  ASSUME BaseInv, ProcessEnds, promised' \in SUBSET (Name \X FrameList), dir' \in DirType, ddir' \in DirType,
         file' \in [Inode -> Seq(CellType)], synced' \in [Inode -> Seq(CellType)]
  PROVE  BaseInv'
<1> USE DEF ProcessEnds
<1>1. MemInv'
  <2>1. Orders(db_', frames_')
    BY EmptyOrders
  <2> QED
    BY <2>1 DEF MemInv
<1>2. Types'
  <2>1. stops' \in 0..MAX_STOPS
    BY DBFileAssumption DEF BaseInv, Types
  <2> QED
    BY <2>1 DEF Types
<1>3. ASSUME NEW t \in Worker PROVE ThreadInv(t)'
  BY DBFileAssumption DEF ThreadInv, Writing, Opened
<1> QED
  BY <1>1, <1>2, <1>3 DEF BaseInv

LEMMA BaseExit == ASSUME BaseInv, Exit PROVE BaseInv'
BY BaseEnds DEF Exit, disk_vars, BaseInv, Types

(* A file that has a name or is open is kept as it is.                     *)
LEMMA SyncDirIs ==
  ASSUME BaseInv, SyncDir
  PROVE  /\ file' \in [Inode -> Seq(CellType)] /\ synced' \in [Inode -> Seq(CellType)]
         /\ \A i \in Inode : (i = dir.tmp \/ i = dir.db \/ \E t \in Worker : fd[t] = i) =>
              file'[i] = file[i] /\ synced'[i] = synced[i]
<1>1. << >> \in Seq(CellType)
  OBVIOUS
<1>2. fd \in [Worker -> Inode \cup {NoFile}] /\ file \in [Inode -> Seq(CellType)] /\ synced \in [Inode -> Seq(CellType)]
  BY DEF BaseInv, Types
<1>3. PICK U : /\ U = {dir.tmp, dir.db} \cup Range(fd)
               /\ file' = [i \in Inode |-> IF i \in U THEN file[i] ELSE << >>]
               /\ synced' = [i \in Inode |-> IF i \in U THEN synced[i] ELSE << >>]
  BY DEF SyncDir
<1>4. file' \in [Inode -> Seq(CellType)] /\ synced' \in [Inode -> Seq(CellType)]
  BY <1>1, <1>2, <1>3
<1>5. \A i \in Inode : (i = dir.tmp \/ i = dir.db \/ \E t \in Worker : fd[t] = i) => i \in U
  BY <1>2, <1>3 DEF Range
<1> QED
  BY <1>3, <1>4, <1>5

LEMMA BaseSyncDir == ASSUME BaseInv, SyncDir PROVE BaseInv'
<1>1. /\ UNCHANGED <<up, stops, pc, fd, gen, off, asked, promised, dir>>
      /\ UNCHANGED <<mutex_, db_, frames_>> /\ ddir' = dir
  BY DEF SyncDir, mem_vars
<1>2. MemInv'
  BY <1>1 DEF BaseInv, MemInv
<1>3. Types'
  BY <1>1, SyncDirIs DEF BaseInv, Types
<1>4. ASSUME NEW u \in Worker PROVE ThreadInv(u)'
  <2>1. fd[u] # NoFile => file'[fd[u]] = file[fd[u]]
    BY SyncDirIs DEF BaseInv, Types
  <2> QED
    BY <1>1, <2>1 DEF BaseInv, ThreadInv, Written, Opened
<1> QED
  BY <1>2, <1>3, <1>4 DEF BaseInv

(* What a power failure leaves of a file that had been synced.             *)
LEMMA PowerFailIs ==
  ASSUME BaseInv, PowerFail
  PROVE  /\ ProcessEnds /\ promised' = {} /\ dir' = ddir /\ ddir' = ddir /\ synced' = file'
         /\ file' \in [Inode -> Seq(CellType)]
         /\ \A i \in Inode : i \in {ddir.tmp, ddir.db} /\ file[i] = synced[i] => file'[i] = file[i]
<1>1. PICK Dirty, left :
        /\ Dirty = {i \in {ddir.tmp, ddir.db} \ {NoFile} : file[i] # synced[i]}
        /\ file' = [i \in Inode |->
                      CASE i \notin {ddir.tmp, ddir.db}       -> << >>
                        [] i \in Dirty /\ left[i] = "old"  -> synced[i]
                        [] i \in Dirty /\ left[i] = "lost" -> <<Junk>>
                        [] OTHER                           -> file[i]]
  BY DEF PowerFail
<1>2. file \in [Inode -> Seq(CellType)] /\ synced \in [Inode -> Seq(CellType)]
  BY DEF BaseInv, Types
<1>3. << >> \in Seq(CellType) /\ <<Junk>> \in Seq(CellType)
  <2>1. Junk \in CellType
    BY DEF Junk, Cell, CellType
  <2> QED
    BY <2>1
<1>4. DOMAIN file' = Inode
  BY <1>1
<1>5. ASSUME NEW i \in Inode
      PROVE  /\ file'[i] \in Seq(CellType)
             /\ i \in {ddir.tmp, ddir.db} /\ file[i] = synced[i] => file'[i] = file[i]
  <2> DEFINE c == CASE i \notin {ddir.tmp, ddir.db}       -> << >>
                    [] i \in Dirty /\ left[i] = "old"  -> synced[i]
                    [] i \in Dirty /\ left[i] = "lost" -> <<Junk>>
                    [] OTHER                           -> file[i]
  <2>1. file'[i] = c
    BY <1>1
  <2>2. file[i] = synced[i] => i \notin Dirty
    BY <1>1
  <2>3. CASE i \notin {ddir.tmp, ddir.db}
    <3>1. i \notin Dirty
      BY <1>1, <2>3
    <3>2. c = << >>
      BY <2>3, <3>1
    <3> QED
      BY <1>3, <2>1, <2>3, <3>2
  <2>4. CASE i \in {ddir.tmp, ddir.db} /\ i \in Dirty /\ left[i] = "old"
    <3>1. c = synced[i]
      BY <2>4
    <3> QED
      BY <1>2, <2>1, <2>2, <2>4, <3>1
  <2>5. CASE i \in {ddir.tmp, ddir.db} /\ i \in Dirty /\ left[i] = "lost"
    <3>1. c = <<Junk>>
      BY <2>5
    <3> QED
      BY <1>3, <2>1, <2>2, <2>5, <3>1
  <2>6. CASE i \in {ddir.tmp, ddir.db} /\ ~ (i \in Dirty /\ left[i] \in {"old", "lost"})
    <3>1. c = file[i]
      BY <2>6
    <3> QED
      BY <1>2, <2>1, <3>1
  <2> QED
    BY <2>3, <2>4, <2>5, <2>6
<1>6. file' \in [Inode -> Seq(CellType)]
  <2>1. file' = [i \in Inode |-> file'[i]]
    BY <1>1
  <2> QED
    BY <1>5, <2>1
<1> QED
  BY <1>5, <1>6 DEF PowerFail

LEMMA BasePowerFail == ASSUME BaseInv, PowerFail PROVE BaseInv'
BY BaseEnds, PowerFailIs DEF BaseInv, Types

-----------------------------------------------------------------------------
(***************************************************************************)
(* The db file, where no two saves have a file open at once                *)
(***************************************************************************)
OneOpen == \A t, u \in Worker : fd[t] # NoFile /\ fd[u] # NoFile => t = u

(* The file begins with a complete image.                                  *)
Whole(content) == \E f : Holds(content, f)

(* Saves write into the file called tmp, which is never the db file, and   *)
(* the db file is whole, on the medium too, and has all that was promised. *)
DiskInv ==
  /\ dir.tmp # NoFile => dir.tmp # dir.db /\ dir.tmp # ddir.db
  /\ ddir.tmp # NoFile => ddir.tmp # ddir.db
  /\ \A t \in Worker : fd[t] # NoFile => fd[t] = dir.tmp
  /\ \A i \in {dir.db, ddir.db} : i # NoFile => synced[i] = file[i] /\ Whole(file[i])
  /\ \A t \in Worker : pc[t] = "rename" => synced[fd[t]] = file[fd[t]]
  /\ up => Pairs(Stored(dir, file)) \subseteq Pairs(frames_)
  /\ promised \subseteq Pairs(Stored(dir, file))
  /\ \A t \in Worker : pc[t] \in {"unlock", "done"} => asked[t] \subseteq Pairs(Stored(dir, file))

LEMMA StoredIs ==
  ASSUME NEW d, NEW contents, d.db # NoFile, contents[d.db] \in Seq(CellType),
         NEW f, Holds(contents[d.db], f)
  PROVE  Readable(d, contents) /\ Stored(d, contents) = f
<1>1. Loads(contents[d.db]) /\ Loaded(contents[d.db]) = f
  BY HoldsLoads
<1> QED
  BY <1>1 DEF Readable, Stored

LEMMA WholeIsStore ==
  ASSUME NEW d, NEW contents, d.db # NoFile => contents[d.db] \in Seq(CellType) /\ Whole(contents[d.db])
  PROVE  /\ Readable(d, contents)
         /\ IsStore(Stored(d, contents)) /\ IsFiniteSet(DOMAIN Stored(d, contents))
<1>1. CASE d.db = NoFile
  <2>1. Readable(d, contents) /\ Stored(d, contents) = << >>
    BY <1>1 DEF Readable, Stored
  <2> QED
    BY <2>1, EmptyOrders, OrdersAreSeqs
<1>2. CASE d.db # NoFile
  <2>1. PICK f : Holds(contents[d.db], f)
    BY <1>2 DEF Whole
  <2>2. Readable(d, contents) /\ Stored(d, contents) = f
    BY <1>2, <2>1, StoredIs
  <2>3. PICK o : Orders(o, f)
    BY <2>1 DEF Holds
  <2> QED
    BY <2>2, <2>3, OrdersAreSeqs
<1> QED
  BY <1>1, <1>2

LEMMA SameStored ==
  ASSUME NEW d, NEW e, NEW F, NEW G, d.db = e.db, d.db # NoFile => F[d.db] = G[e.db]
  PROVE  Stored(d, F) = Stored(e, G)
BY DEF Stored

(* The state of the db file, now and after a power failure.                *)
LEMMA DiskReads ==
  ASSUME BaseInv, DiskInv
  PROVE  /\ Readable(dir, file) /\ Readable(ddir, synced)
         /\ IsStore(Stored(dir, file)) /\ IsFiniteSet(DOMAIN Stored(dir, file))
         /\ Stored(dir, synced) = Stored(dir, file)
<1>1. /\ dir.db # NoFile => file[dir.db] \in Seq(CellType)
      /\ ddir.db # NoFile => file[ddir.db] \in Seq(CellType)
  BY DEF BaseInv, Types, DirType
<1>2. dir.db # NoFile => synced[dir.db] = file[dir.db] /\ Whole(file[dir.db])
  BY DEF DiskInv
<1>3. ddir.db # NoFile => synced[ddir.db] = file[ddir.db] /\ Whole(file[ddir.db])
  BY DEF DiskInv
<1>4. Readable(ddir, synced)
  BY <1>1, <1>3, WholeIsStore
<1>5. Readable(dir, file) /\ IsStore(Stored(dir, file)) /\ IsFiniteSet(DOMAIN Stored(dir, file))
  BY <1>1, <1>2, WholeIsStore
<1>6. Stored(dir, synced) = Stored(dir, file)
  BY <1>2, SameStored
<1> QED
  BY <1>4, <1>5, <1>6

LEMMA DiskInit == ASSUME Init PROVE DiskInv
<1>1. Stored(dir, file) = << >>
  BY DEF Init, NoDir, Stored
<1>2. Pairs(<< >>) = {}
  BY DEF Pairs
<1> QED
  BY <1>1, <1>2 DEF Init, NoDir, DiskInv

LEMMA DiskLoad == ASSUME BaseInv, DiskInv, Load PROVE DiskInv'
BY DEF DiskInv, Load, disk_vars

LEMMA DiskAdd == ASSUME BaseInv, DiskInv, Add PROVE DiskInv'
<1>1. Pairs(frames_) \subseteq Pairs(frames_')
  BY BaseAdd
<1> QED
  BY <1>1 DEF DiskInv, Add, disk_vars

LEMMA DiskRequest == ASSUME BaseInv, DiskInv, NEW t \in Worker, SaveRequest(t) PROVE DiskInv'
BY DEF BaseInv, Types, DiskInv, SaveRequest, Goto, mem_vars, disk_vars

LEMMA DiskLock == ASSUME BaseInv, DiskInv, NEW t \in Worker, SaveLock(t) PROVE DiskInv'
BY DEF BaseInv, Types, DiskInv, SaveLock, Goto, disk_vars

LEMMA DiskUnlock == ASSUME BaseInv, DiskInv, NEW t \in Worker, SaveUnlock(t) PROVE DiskInv'
BY DEF BaseInv, Types, DiskInv, SaveUnlock, Goto, disk_vars

LEMMA DiskReply == ASSUME BaseInv, DiskInv, NEW t \in Worker, SaveReply(t) PROVE DiskInv'
<1>1. pc[t] = "done"
  BY DEF SaveReply, Goto
<1>2. promised' \subseteq Pairs(Stored(dir, file))
  BY <1>1 DEF DiskInv, SaveReply
<1> QED
  BY <1>1, <1>2 DEF BaseInv, Types, DiskInv, SaveReply, Goto, mem_vars, disk_vars

LEMMA DiskOpen ==
  ASSUME BaseInv, DiskInv, NEW t \in Worker, SaveOpen(t)
  PROVE  /\ DiskInv'
         /\ Stored(dir', file') = Stored(dir, file) /\ Stored(ddir', synced') = Stored(ddir, synced)
<1>1. PICK i \in Inode :
        /\ fd' = [fd EXCEPT ![t] = i] /\ dir' = [dir EXCEPT !.tmp = i]
        /\ \/ i = dir.tmp /\ UNCHANGED <<dir, file, synced>>
           \/ /\ dir.tmp = NoFile /\ Unused(i)
              /\ file' = [file EXCEPT ![i] = << >>]
              /\ synced' = [synced EXCEPT ![i] = << >>]
  BY OpenIs
<1>2. /\ pc[t] = "open" /\ pc' = [pc EXCEPT ![t] = "lock"]
      /\ ddir' = ddir /\ UNCHANGED <<up, promised, asked, db_, frames_>>
  BY DEF SaveOpen, Goto, mem_vars, disk_vars
<1>3. /\ i # NoFile /\ i # dir.db /\ i # ddir.db
  BY <1>1, DBFileAssumption DEF Unused, DiskInv
<1>4. /\ dir \in DirType /\ ddir \in DirType /\ fd \in [Worker -> Inode \cup {NoFile}]
      /\ pc \in [Worker -> {"idle", "open", "lock", "write", "rename", "unlock", "done"}]
      /\ file \in [Inode -> Seq(CellType)] /\ synced \in [Inode -> Seq(CellType)]
  BY DEF BaseInv, Types
<1>5. dir'.tmp = i /\ dir'.db = dir.db
  BY <1>1, <1>4 DEF DirType
<1>6. \A j \in {dir.db, ddir.db} : j # NoFile => file'[j] = file[j] /\ synced'[j] = synced[j]
  BY <1>1, <1>3, <1>4 DEF DirType
<1>7. Stored(dir', file') = Stored(dir, file)
  BY <1>5, <1>6, SameStored
<1>8. Stored(ddir', synced') = Stored(ddir, synced)
  BY <1>2, <1>6, SameStored
<1>9. ASSUME NEW u \in Worker, fd'[u] # NoFile PROVE fd'[u] = dir'.tmp
  <2>1. CASE u = t
    BY <2>1, <1>1, <1>4, <1>5
  <2>2. CASE u # t
    <3>1. fd[u] # NoFile /\ fd[u] = dir.tmp
      BY <1>1, <1>4, <1>9, <2>2 DEF DiskInv
    <3> QED
      BY <1>1, <1>4, <2>2, <3>1
  <2> QED
    BY <2>1, <2>2
<1>10. ASSUME NEW u \in Worker, pc'[u] = "rename" PROVE synced'[fd'[u]] = file'[fd'[u]]
  <2>1. u # t /\ pc[u] = "rename"
    BY <1>2, <1>4, <1>10
  <2>2. fd'[u] = fd[u] /\ fd[u] # NoFile /\ fd[u] \in Range(fd)
    BY <1>1, <1>4, <2>1 DEF BaseInv, ThreadInv, Opened, Range
  <2>3. file'[fd[u]] = file[fd[u]] /\ synced'[fd[u]] = synced[fd[u]]
    BY <1>1, <1>4, <2>2 DEF Unused
  <2> QED
    BY <2>1, <2>2, <2>3 DEF DiskInv
<1>11. \A j \in {dir'.db, ddir'.db} : j # NoFile => synced'[j] = file'[j] /\ Whole(file'[j])
  BY <1>2, <1>5, <1>6 DEF DiskInv
<1>12. ddir'.tmp # NoFile => ddir'.tmp # ddir'.db
  BY <1>2 DEF DiskInv
<1>13. \A u \in Worker : pc'[u] \in {"unlock", "done"} => asked'[u] \subseteq Pairs(Stored(dir', file'))
  BY <1>2, <1>4, <1>7 DEF DiskInv
<1>14. /\ up' => Pairs(Stored(dir', file')) \subseteq Pairs(frames_')
       /\ promised' \subseteq Pairs(Stored(dir', file'))
  BY <1>2, <1>7 DEF DiskInv
<1> QED
  BY <1>2, <1>3, <1>5, <1>7, <1>8, <1>9, <1>10, <1>11, <1>12, <1>13, <1>14 DEF DiskInv

LEMMA DiskFlush ==
  ASSUME BaseInv, DiskInv, NEW t \in Worker, Flush(t)
  PROVE  /\ DiskInv'
         /\ Stored(dir', file') = Stored(dir, file) /\ Stored(ddir', synced') = Stored(ddir, synced)
<1>1. /\ UNCHANGED <<up, stops, pc, fd, asked, promised, dir, ddir, synced>>
      /\ UNCHANGED <<mutex_, db_, frames_>>
  BY DEF Flush, FlushTaking, mem_vars
<1>2. /\ pc[t] = "write" /\ fd[t] \in Inode /\ fd[t] # NoFile
      /\ \A i \in Inode : i # fd[t] => file'[i] = file[i]
  BY FlushIs, DBFileAssumption
<1>3. fd[t] = dir.tmp /\ fd[t] # dir.db /\ fd[t] # ddir.db
  BY <1>2 DEF DiskInv
<1>4. \A j \in {dir.db, ddir.db} : j # NoFile => file'[j] = file[j]
  BY <1>2, <1>3 DEF BaseInv, Types, DirType
<1>5. Stored(dir', file') = Stored(dir, file)
  BY <1>1, <1>4, SameStored
<1>6. \A u \in Worker : pc[u] = "rename" => fd[u] \in Inode /\ fd[u] # fd[t]
  <2> SUFFICES ASSUME NEW u \in Worker, pc[u] = "rename" PROVE FALSE
    OBVIOUS
  <2>1. u = t
    BY <1>2, OneWrites DEF Writing
  <2> QED
    BY <1>2, <2>1
<1> QED
  BY <1>1, <1>2, <1>4, <1>5, <1>6 DEF DiskInv

LEMMA DiskSync ==
  ASSUME BaseInv, DiskInv, NEW t \in Worker, SaveSync(t)
  PROVE  /\ DiskInv'
         /\ Stored(dir', file') = Stored(dir, file) /\ Stored(ddir', synced') = Stored(ddir, synced)
<1>1. /\ UNCHANGED <<up, fd, asked, promised, dir, ddir, file, db_, frames_>>
      /\ pc[t] = "write" /\ pc' = [pc EXCEPT ![t] = "rename"]
      /\ synced' = [synced EXCEPT ![fd[t]] = file[fd[t]]]
  BY DEF SaveSync, Goto, mem_vars
<1>2. fd[t] \in Inode /\ fd[t] # NoFile
  BY SyncIs, DBFileAssumption
<1>3. fd[t] = dir.tmp /\ fd[t] # dir.db /\ fd[t] # ddir.db
  BY <1>2 DEF DiskInv
<1>4. \A j \in {dir.db, ddir.db} : j # NoFile => synced'[j] = synced[j]
  BY <1>1, <1>3 DEF BaseInv, Types, DirType
<1>5. Stored(ddir', synced') = Stored(ddir, synced)
  <2>1. ddir' = ddir /\ (ddir.db # NoFile => synced'[ddir.db] = synced[ddir.db])
    BY <1>1, <1>4
  <2>2. Stored(ddir, synced') = Stored(ddir, synced)
    BY <2>1, SameStored
  <2> QED
    BY <2>1, <2>2
<1>6. \A u \in Worker : pc'[u] = "rename" => synced'[fd[u]] = file[fd[u]]
  <2> SUFFICES ASSUME NEW u \in Worker, pc'[u] = "rename" PROVE synced'[fd[u]] = file[fd[u]]
    OBVIOUS
  <2>1. CASE u = t
    BY <1>1, <1>2, <2>1 DEF BaseInv, Types
  <2>2. CASE u # t
    <3>1. pc[u] = "rename"
      BY <1>1, <2>2 DEF BaseInv, Types
    <3>2. u = t
      BY <1>1, <3>1, OneWrites DEF Writing
    <3> QED
      BY <2>2, <3>2
  <2> QED
    BY <2>1, <2>2
<1>7. \A u \in Worker : pc'[u] \in {"unlock", "done"} => pc[u] \in {"unlock", "done"}
  BY <1>1 DEF BaseInv, Types
<1> QED
  BY <1>1, <1>4, <1>5, <1>6, <1>7 DEF DiskInv

(* The rename puts the whole of what is in memory in place of the db file. *)
LEMMA DiskRename ==
  ASSUME BaseInv, DiskInv, OneOpen, NEW t \in Worker, SaveRename(t)
  PROVE  /\ DiskInv'
         /\ up /\ Stored(dir', file') = frames_ /\ Stored(ddir', synced') = Stored(ddir, synced)
<1>1. /\ up /\ UNCHANGED <<up, asked, promised, ddir, file, synced, db_, frames_>>
      /\ pc[t] = "rename" /\ pc' = [pc EXCEPT ![t] = "unlock"]
      /\ fd' = [fd EXCEPT ![t] = NoFile]
      /\ dir' = IF dir.tmp = NoFile THEN dir ELSE [tmp |-> NoFile, db |-> dir.tmp]
  BY DEF SaveRename, Goto, mem_vars
<1>2. /\ fd[t] \in Inode /\ fd[t] # NoFile /\ Written(file[fd[t]], gen[t])
      /\ gen[t] = Len(Image(db_, frames_))
  BY <1>1 DEF BaseInv, Types, ThreadInv, Opened
<1>3. dir.tmp = fd[t] /\ fd[t] # dir.db /\ fd[t] # ddir.db
  BY <1>2 DEF DiskInv
<1>4. dir'.tmp = NoFile /\ dir'.db = fd[t]
  BY <1>1, <1>2, <1>3
<1>5. file[fd[t]] \in Seq(CellType) /\ Orders(db_, frames_)
  BY <1>2 DEF BaseInv, Types, MemInv
<1>6. Holds(file[fd[t]], frames_)
  BY <1>2, <1>5 DEF Holds, Written
<1>7. Stored(dir', file') = frames_
  BY <1>1, <1>2, <1>4, <1>5, <1>6, StoredIs
<1>8. Stored(ddir', synced') = Stored(ddir, synced)
  BY <1>1
<1>9. \A u \in Worker : fd'[u] = NoFile
  <2> SUFFICES ASSUME NEW u \in Worker PROVE fd'[u] = NoFile
    OBVIOUS
  <2>1. u # t => fd[u] = NoFile
    BY <1>2 DEF OneOpen
  <2> QED
    BY <1>1, <2>1 DEF BaseInv, Types
<1>10. \A u \in Worker : pc'[u] # "rename"
  <2> SUFFICES ASSUME NEW u \in Worker, pc'[u] = "rename" PROVE FALSE
    OBVIOUS
  <2>1. pc[u] = "rename" /\ u # t
    BY <1>1 DEF BaseInv, Types
  <2> QED
    BY <1>1, <2>1, OneWrites DEF Writing
<1>11. synced[fd[t]] = file[fd[t]]
  BY <1>1 DEF DiskInv
<1>12. promised \subseteq Pairs(frames_) /\ \A u \in Worker : asked[u] \subseteq Pairs(frames_)
  BY <1>1 DEF BaseInv, ThreadInv, DiskInv
<1>13. \A j \in {dir'.db, ddir'.db} : j # NoFile => synced'[j] = file'[j] /\ Whole(file'[j])
  BY <1>1, <1>4, <1>6, <1>11 DEF DiskInv, Whole
<1> QED
  BY <1>1, <1>4, <1>7, <1>8, <1>9, <1>10, <1>12, <1>13 DEF DiskInv

LEMMA DiskExit == ASSUME BaseInv, DiskInv, Exit PROVE DiskInv'
BY DEF DiskInv, Exit, ProcessEnds, disk_vars

LEMMA DiskSyncDir ==
  ASSUME BaseInv, DiskInv, SyncDir
  PROVE  /\ DiskInv'
         /\ Stored(dir', file') = Stored(dir, file) /\ Stored(ddir', synced') = Stored(dir, file)
<1>1. /\ UNCHANGED <<up, pc, fd, asked, promised, dir, db_, frames_>> /\ ddir' = dir
  BY DEF SyncDir, mem_vars
<1>2. dir.db # NoFile => /\ dir.db \in Inode /\ file'[dir.db] = file[dir.db]
                         /\ synced'[dir.db] = file[dir.db] /\ Whole(file[dir.db])
  BY SyncDirIs DEF BaseInv, Types, DirType, DiskInv
<1>3. Stored(dir', file') = Stored(dir, file)
  BY <1>1, <1>2, SameStored
<1>4. Stored(ddir', synced') = Stored(dir, file)
  BY <1>1, <1>2, SameStored
<1>5. \A u \in Worker : pc[u] = "rename" => synced'[fd[u]] = file'[fd[u]]
  <2> SUFFICES ASSUME NEW u \in Worker, pc[u] = "rename" PROVE synced'[fd[u]] = file'[fd[u]]
    OBVIOUS
  <2>1. fd[u] \in Inode
    BY DEF BaseInv, Types, ThreadInv, Opened
  <2> QED
    BY <2>1, SyncDirIs DEF DiskInv
<1>6. \A j \in {dir'.db, ddir'.db} : j # NoFile => synced'[j] = file'[j] /\ Whole(file'[j])
  BY <1>1, <1>2
<1>7. dir'.tmp # NoFile => dir'.tmp # dir'.db /\ dir'.tmp # ddir'.db
  BY <1>1 DEF DiskInv
<1>8. ddir'.tmp # NoFile => ddir'.tmp # ddir'.db
  BY <1>1 DEF DiskInv
<1>9. /\ up' => Pairs(Stored(dir', file')) \subseteq Pairs(frames_')
      /\ promised' \subseteq Pairs(Stored(dir', file'))
      /\ \A u \in Worker : pc'[u] \in {"unlock", "done"} => asked'[u] \subseteq Pairs(Stored(dir', file'))
  BY <1>1, <1>3 DEF DiskInv
<1>10. Stored(ddir', synced') = Stored(dir, file)
  BY <1>4
<1> QED
  BY <1>1, <1>3, <1>5, <1>6, <1>7, <1>8, <1>9, <1>10 DEF DiskInv

LEMMA DiskPowerFail ==
  ASSUME BaseInv, DiskInv, PowerFail
  PROVE  /\ DiskInv'
         /\ Stored(dir', file') = Stored(ddir, synced) /\ Stored(ddir', synced') = Stored(ddir, synced)
<1>1. /\ promised' = {} /\ dir' = ddir /\ ddir' = ddir /\ synced' = file' /\ ~ up'
      /\ \A u \in Worker : pc'[u] = "idle" /\ fd'[u] = NoFile
  BY PowerFailIs DEF ProcessEnds
<1>2. ddir.db # NoFile => file'[ddir.db] = synced[ddir.db] /\ Whole(file'[ddir.db])
  BY PowerFailIs DEF BaseInv, Types, DirType, DiskInv
<1>3. Stored(dir', file') = Stored(ddir, synced) /\ Stored(ddir', synced') = Stored(ddir, synced)
  BY <1>1, <1>2, SameStored
<1> QED
  BY <1>1, <1>2, <1>3 DEF DiskInv

LEMMA SafeStep ==
  ASSUME BaseInv, DiskInv, OneOpen, [Next]_vars
  PROVE  BaseInv' /\ DiskInv'
<1>1. CASE Load
  <2>1. IsStore(Stored(dir, file)) /\ IsFiniteSet(DOMAIN Stored(dir, file))
    BY DiskReads
  <2> QED
    BY <1>1, <2>1, BaseLoad, DiskLoad
<1>2. CASE Add
  BY <1>2, BaseAdd, DiskAdd
<1>3. CASE Exit
  BY <1>3, BaseExit, DiskExit
<1>4. CASE SyncDir
  BY <1>4, BaseSyncDir, DiskSyncDir
<1>5. CASE PowerFail
  BY <1>5, BasePowerFail, DiskPowerFail
<1>6. ASSUME NEW t \in Worker, Save(t) PROVE BaseInv' /\ DiskInv'
  BY <1>6, BaseSave, DiskRequest, DiskOpen, DiskLock, DiskFlush, DiskSync, DiskRename, DiskUnlock, DiskReply
  DEF Save
<1>7. CASE UNCHANGED vars
  <2> USE <1>7 DEF vars
  <2>1. BaseInv'
    <3>1. Types'
      BY DEF BaseInv, Types
    <3>2. MemInv'
      BY DEF BaseInv, MemInv
    <3>3. ASSUME NEW t \in Worker PROVE ThreadInv(t)'
      BY DEF BaseInv, ThreadInv, Written
    <3> QED
      BY <3>1, <3>2, <3>3 DEF BaseInv
  <2>2. DiskInv'
    BY DEF DiskInv
  <2> QED
    BY <2>1, <2>2
<1> QED
  BY <1>1, <1>2, <1>3, <1>4, <1>5, <1>6, <1>7 DEF Next

(* As long as no two saves have a file open at once, the invariants of the *)
(* threads and of the db file hold, whatever stops whenever.               *)
THEOREM Invariance == Spec /\ []OneOpen => [](BaseInv /\ DiskInv)
<1>1. Init => BaseInv /\ DiskInv
  BY BaseInit, DiskInit
<1>2. (BaseInv /\ DiskInv) /\ OneOpen /\ [Next]_vars => (BaseInv /\ DiskInv)'
  BY SafeStep
<1> QED
  BY <1>1, <1>2, PTL DEF Spec

LEMMA BaseIsTyped == ASSUME BaseInv PROVE TypeOK
<1>1. Orders(db_, frames_)
  BY DEF BaseInv, MemInv
<1>2. frames_ \in Store /\ db_ \in SetToSeqs(DOMAIN frames_) /\ Len(Image(db_, frames_)) \in Nat
  BY <1>1, OrdersAreSeqs, ImageIs
<1>3. \A t \in Worker : mutex_ = t => gen[t] \in 0..Len(Image(db_, frames_))
  <2> SUFFICES ASSUME NEW t \in Worker, mutex_ = t PROVE gen[t] \in 0..Len(Image(db_, frames_))
    OBVIOUS
  <2>1. gen[t] \in Nat /\ gen[t] <= Len(Image(db_, frames_))
    BY DEF BaseInv, Types, ThreadInv
  <2> QED
    BY <1>2, <2>1
<1> QED
  BY <1>2, <1>3 DEF BaseInv, Types, TypeOK

(* The state has its type, and a save never writes past the end of its     *)
(* image (VideoDB::Save), as long as no two saves overlap.                 *)
THEOREM TypeCorrect == Spec /\ []OneOpen => []TypeOK
<1>1. BaseInv /\ DiskInv => TypeOK
  BY BaseIsTyped
<1> QED
  BY <1>1, Invariance, PTL

(* Whatever stops whenever, Load finds a db file it can read to the last   *)
(* record it announces (VideoDB::Load), and would after a power failure.   *)
THEOREM FileIsReadable == Spec /\ []OneOpen => []DbFileReadable
<1>1. BaseInv /\ DiskInv => DbFileReadable
  BY DiskReads DEF DbFileReadable
<1> QED
  BY <1>1, Invariance, PTL

(* Once /save has answered, what was stored when it came in is in the db   *)
(* file (request_processor::save).                                         *)
THEOREM DoneIsSaved == Spec /\ []OneOpen => []DoneMeansSaved
<1>1. BaseInv /\ DiskInv => DoneMeansSaved
  BY DiskReads DEF DoneMeansSaved, DiskInv
<1> QED
  BY <1>1, Invariance, PTL

(* What a step does to the videos a process would load now, and to those   *)
(* it would load after a power failure.                                    *)
LEMMA DiskStep ==
  ASSUME BaseInv, DiskInv, OneOpen, Next
  PROVE  \/ SyncDir /\ Stored(dir', file') = Stored(dir, file) /\ Stored(ddir', synced') = Stored(dir, file)
         \/ PowerFail /\ Stored(dir', file') = Stored(ddir, synced) /\ Stored(ddir', synced') = Stored(ddir, synced)
         \/ /\ \E t \in Worker : SaveRename(t)
            /\ up /\ Stored(dir', file') = frames_ /\ Stored(ddir', synced') = Stored(ddir, synced)
            /\ UNCHANGED <<up, db_, frames_>>
         \/ /\ \/ Load \/ Add \/ Exit \/ UNCHANGED <<up, db_, frames_>>
            /\ Stored(dir', file') = Stored(dir, file) /\ Stored(ddir', synced') = Stored(ddir, synced)
<1>1. CASE SyncDir
  BY <1>1, DiskSyncDir
<1>2. CASE PowerFail
  BY <1>2, DiskPowerFail
<1>3. CASE Load \/ Add \/ Exit
  BY <1>3 DEF Load, Add, Exit, disk_vars
<1>4. ASSUME NEW t \in Worker, SaveRequest(t) \/ SaveLock(t) \/ SaveUnlock(t) \/ SaveReply(t)
      PROVE  /\ UNCHANGED <<up, db_, frames_>>
             /\ Stored(dir', file') = Stored(dir, file) /\ Stored(ddir', synced') = Stored(ddir, synced)
  BY <1>4 DEF SaveRequest, SaveLock, SaveUnlock, SaveReply, Goto, mem_vars, disk_vars
<1>5. ASSUME NEW t \in Worker, SaveOpen(t) \/ Flush(t) \/ SaveSync(t)
      PROVE  /\ UNCHANGED <<up, db_, frames_>>
             /\ Stored(dir', file') = Stored(dir, file) /\ Stored(ddir', synced') = Stored(ddir, synced)
  <2>1. UNCHANGED <<up, db_, frames_>>
    BY <1>5 DEF SaveOpen, Flush, FlushTaking, SaveSync, Goto, mem_vars
  <2> QED
    BY <1>5, <2>1, DiskOpen, DiskFlush, DiskSync
<1>6. ASSUME NEW t \in Worker, SaveRename(t)
      PROVE  /\ up /\ Stored(dir', file') = frames_ /\ Stored(ddir', synced') = Stored(ddir, synced)
             /\ UNCHANGED <<up, db_, frames_>>
  BY <1>6, DiskRename DEF SaveRename, Goto, mem_vars
<1> QED
  BY <1>1, <1>2, <1>3, <1>4, <1>5, <1>6 DEF Next, Save

(* Short of a power failure, a video in the db file stays there with its   *)
(* frames, through any number of saves, exits and restarts.                *)
THEOREM SavedForGood == Spec /\ []OneOpen => SavedStays
<1>1. BaseInv /\ DiskInv /\ OneOpen /\ [Next]_vars
        => [~ PowerFail => Pairs(Stored(dir, file)) \subseteq Pairs(Stored(dir', file'))]_disk_vars
  <2> SUFFICES ASSUME BaseInv, DiskInv, OneOpen, [Next]_vars, ~ UNCHANGED disk_vars, ~ PowerFail
               PROVE  Pairs(Stored(dir, file)) \subseteq Pairs(Stored(dir', file'))
    OBVIOUS
  <2>1. Next
    BY DEF vars, disk_vars
  <2>2. up => Pairs(Stored(dir, file)) \subseteq Pairs(frames_)
    BY DEF DiskInv
  <2> QED
    BY <2>1, <2>2, DiskStep
<1> QED
  BY <1>1, Invariance, PTL DEF Spec, SavedStays

(* Saving implements the abstract store: Load starts it, the rename puts   *)
(* the whole of memory on disk at once, the file system settles it, and    *)
(* exits and power failures take back no part of a save alone.             *)
THEOREM ImplementsTheDisk == Spec /\ []OneOpen => ImplementsDurableStore
<1>1. Init => Durable!Init
  <2> SUFFICES ASSUME Init PROVE Durable!Init
    OBVIOUS
  <2>1. Videos = << >>
    BY EmptyOrders, VideosAre DEF Init
  <2>2. Stored(dir, file) = << >> /\ Stored(ddir, synced) = << >>
    BY DEF Init, NoDir, Stored
  <2> QED
    BY <2>1, <2>2 DEF Init, Durable!Init, Durable!Empty
<1>2. /\ BaseInv /\ DiskInv /\ OneOpen
      /\ (BaseInv /\ DiskInv)'
      /\ [Next]_vars
      => [Durable!Next]_(Durable!dvars)
  <2> SUFFICES ASSUME BaseInv, DiskInv, OneOpen, BaseInv', [Next]_vars
               PROVE  [Durable!Next]_(Durable!dvars)
    OBVIOUS
  <2>1. Videos = frames_ /\ Videos' = frames_'
    <3>1. Orders(db_, frames_) /\ Orders(db_', frames_')
      BY DEF BaseInv, MemInv
    <3>2. Range(db_') = DOMAIN frames_' /\ frames_' = [n \in DOMAIN frames_' |-> frames_'[n]]
      BY <3>1 DEF Orders
    <3> QED
      BY <3>1, <3>2, VideosAre DEF Videos
  <2>2. CASE UNCHANGED vars
    BY <2>2 DEF vars, Durable!dvars, Videos, Stored
  <2>3. CASE Next
    <3>1. CASE SyncDir /\ Stored(dir', file') = Stored(dir, file) /\ Stored(ddir', synced') = Stored(dir, file)
      <4>1. UNCHANGED <<up, frames_>>
        BY <3>1 DEF SyncDir, mem_vars
      <4>2. Durable!Settle
        BY <2>1, <3>1, <4>1 DEF Durable!Settle
      <4> QED
        BY <4>2 DEF Durable!Next
    <3>2. CASE PowerFail /\ Stored(dir', file') = Stored(ddir, synced) /\ Stored(ddir', synced') = Stored(ddir, synced)
      <4>1. up' = FALSE /\ frames_' = << >>
        BY <3>2 DEF PowerFail, ProcessEnds
      <4>2. Durable!PowerFail
        BY <2>1, <3>2, <4>1 DEF Durable!PowerFail, Durable!Empty
      <4> QED
        BY <4>2 DEF Durable!Next
    <3>3. CASE /\ up /\ Stored(dir', file') = frames_ /\ Stored(ddir', synced') = Stored(ddir, synced)
               /\ UNCHANGED <<up, db_, frames_>>
      <4>1. Durable!Save
        BY <2>1, <3>3 DEF Durable!Save
      <4> QED
        BY <4>1 DEF Durable!Next
    <3>4. CASE /\ \/ Load \/ Add \/ Exit \/ UNCHANGED <<up, db_, frames_>>
               /\ Stored(dir', file') = Stored(dir, file) /\ Stored(ddir', synced') = Stored(ddir, synced)
      <4>1. CASE Load
        <5>1. Durable!Start
          BY <2>1, <3>4, <4>1 DEF Load, Durable!Start
        <5> QED
          BY <5>1 DEF Durable!Next
      <4>2. CASE Add
        <5>1. Range(db_) = DOMAIN frames_
          BY DEF BaseInv, MemInv, Orders
        <5>2. Durable!Add
          BY <2>1, <3>4, <4>2, <5>1 DEF Add, Durable!Add
        <5> QED
          BY <5>2 DEF Durable!Next
      <4>3. CASE Exit
        <5>1. Durable!Stop
          BY <2>1, <3>4, <4>3 DEF Exit, ProcessEnds, Durable!Stop, Durable!Empty
        <5> QED
          BY <5>1 DEF Durable!Next
      <4>4. CASE UNCHANGED <<up, db_, frames_>>
        BY <2>1, <3>4, <4>4 DEF Durable!dvars
      <4> QED
        BY <3>4, <4>1, <4>2, <4>3, <4>4
    <3> QED
      BY <2>3, <3>1, <3>2, <3>3, <3>4, DiskStep
  <2> QED
    BY <2>2, <2>3
<1> QED
  BY <1>1, <1>2, Invariance, PTL DEF Spec, ImplementsDurableStore, Durable!Spec

-----------------------------------------------------------------------------
(***************************************************************************)
(* The db file, however many saves overlap, until the process first ends   *)
(***************************************************************************)

(* Another save may yet write into the db file, which it opened as tmp.    *)
Pending == \E t \in Worker : fd[t] # NoFile /\ fd[t] = dir.db

(* The videos of this request are in the db file, if that is not being     *)
(* written: its save is over, or its file has been renamed by another one. *)
Sure(t) == pc[t] \in {"unlock", "done"} \/ (fd[t] # NoFile /\ fd[t] # dir.tmp)

QuietInv ==
  /\ ~ up => dir = NoDir
  /\ dir.tmp # NoFile => dir.tmp # dir.db /\ \E t \in Worker : fd[t] = dir.tmp
  /\ dir.db # NoFile => Pending \/ Whole(file[dir.db])
  /\ promised \subseteq Pairs(frames_)
  /\ ~ Pending => /\ Pairs(Stored(dir, file)) \subseteq Pairs(frames_)
                  /\ promised \subseteq Pairs(Stored(dir, file))
                  /\ \A t \in Worker : Sure(t) => asked[t] \subseteq Pairs(Stored(dir, file))

LEMMA QuietInit == ASSUME Init PROVE QuietInv
<1>1. Stored(dir, file) = << >>
  BY DEF Init, NoDir, Stored
<1>2. Pairs(<< >>) = {}
  BY DEF Pairs
<1> QED
  BY <1>1, <1>2 DEF Init, NoDir, QuietInv, Sure

(* What the invariant is about stays as it is, or memory grows.            *)
LEMMA QuietSame ==
  ASSUME QuietInv, up' \/ ~ up, UNCHANGED <<dir, fd, asked, promised>>,
         dir.db # NoFile /\ ~ Pending => file'[dir.db] = file[dir.db],
         Pairs(frames_) \subseteq Pairs(frames_'),
         \A t \in Worker : pc'[t] \in {"unlock", "done"} => pc[t] \in {"unlock", "done"}
  PROVE  QuietInv'
<1>1. Pending' <=> Pending
  BY DEF Pending
<1>2. ~ Pending => Stored(dir', file') = Stored(dir, file)
  BY SameStored
<1>3. \A t \in Worker : Sure(t)' => Sure(t)
  BY DEF Sure
<1> QED
  BY <1>1, <1>2, <1>3 DEF QuietInv

LEMMA QuietLoad == ASSUME BaseInv, QuietInv, Load PROVE QuietInv' /\ BaseInv'
<1>1. dir = NoDir /\ ~ up
  BY DEF QuietInv, Load
<1>2. Stored(dir, file) = << >>
  BY <1>1 DEF NoDir, Stored
<1>3. frames_' = << >> /\ frames_ = << >>
  BY <1>2 DEF BaseInv, MemInv, Load
<1>4. BaseInv'
  BY <1>2, BaseLoad, EmptyOrders, OrdersAreSeqs
<1>5. QuietInv'
  BY <1>1, <1>3, QuietSame DEF Load, disk_vars
<1> QED
  BY <1>4, <1>5

LEMMA QuietAdd == ASSUME BaseInv, QuietInv, Add PROVE QuietInv'
BY BaseAdd, QuietSame DEF Add, disk_vars

LEMMA QuietRequest == ASSUME BaseInv, QuietInv, NEW t \in Worker, SaveRequest(t) PROVE QuietInv'
<1> USE DEF SaveRequest, Goto, mem_vars, disk_vars
<1>1. pc[t] = "idle" /\ pc'[t] = "open" /\ fd[t] = NoFile
  BY DEF BaseInv, Types, ThreadInv, Opened
<1>2. \A u \in Worker : Sure(u)' => u # t /\ Sure(u) /\ asked'[u] = asked[u]
  BY <1>1 DEF BaseInv, Types, Sure
<1>3. Pending' <=> Pending
  BY DEF Pending
<1> QED
  BY <1>2, <1>3 DEF QuietInv

LEMMA QuietOpen == ASSUME BaseInv, QuietInv, NEW t \in Worker, SaveOpen(t) PROVE QuietInv'
<1>1. PICK i \in Inode :
        /\ fd' = [fd EXCEPT ![t] = i] /\ dir' = [dir EXCEPT !.tmp = i]
        /\ \/ i = dir.tmp /\ UNCHANGED <<dir, file, synced>>
           \/ /\ dir.tmp = NoFile /\ Unused(i)
              /\ file' = [file EXCEPT ![i] = << >>]
              /\ synced' = [synced EXCEPT ![i] = << >>]
  BY OpenIs
<1>2. /\ pc[t] = "open" /\ pc' = [pc EXCEPT ![t] = "lock"]
      /\ up /\ UNCHANGED <<up, promised, asked, db_, frames_>>
  BY DEF SaveOpen, Goto, mem_vars
<1>3. i # NoFile /\ i # dir.db
  BY <1>1, DBFileAssumption DEF Unused, QuietInv
<1>4. /\ dir \in DirType /\ fd \in [Worker -> Inode \cup {NoFile}]
      /\ pc \in [Worker -> {"idle", "open", "lock", "write", "rename", "unlock", "done"}]
      /\ file \in [Inode -> Seq(CellType)]
  BY DEF BaseInv, Types
<1>5. dir'.tmp = i /\ dir'.db = dir.db /\ fd'[t] = i
  BY <1>1, <1>4 DEF DirType
<1>6. dir.db # NoFile => file'[dir.db] = file[dir.db]
  BY <1>1, <1>3, <1>4 DEF DirType
<1>7. Stored(dir', file') = Stored(dir, file)
  BY <1>5, <1>6, SameStored
<1>8. fd[t] = NoFile
  BY <1>2 DEF BaseInv, ThreadInv, Opened
<1>9. \A u \in Worker \ {t} : fd'[u] = fd[u] /\ pc'[u] = pc[u]
  BY <1>1, <1>2, <1>4
<1>10. Pending' <=> Pending
  BY <1>3, <1>5, <1>8, <1>9 DEF Pending
<1>11. ASSUME NEW u \in Worker, Sure(u)' PROVE Sure(u) /\ u # t
  <2>1. u # t
    BY <1>2, <1>4, <1>5, <1>11 DEF Sure
  <2>2. dir.tmp = i \/ dir.tmp = NoFile
    BY <1>1
  <2> QED
    BY <1>5, <1>9, <1>11, <2>1, <2>2 DEF Sure
<1>12. dir'.tmp # dir'.db /\ \E u \in Worker : fd'[u] = dir'.tmp
  BY <1>3, <1>5
<1>13. dir'.db # NoFile => Pending' \/ Whole(file'[dir'.db])
  BY <1>5, <1>6, <1>10 DEF QuietInv
<1> QED
  BY <1>2, <1>7, <1>10, <1>11, <1>12, <1>13 DEF QuietInv

LEMMA QuietLock == ASSUME BaseInv, QuietInv, NEW t \in Worker, SaveLock(t) PROVE QuietInv'
<1>1. \A u \in Worker : pc'[u] \in {"unlock", "done"} => pc[u] \in {"unlock", "done"}
  BY DEF BaseInv, Types, SaveLock, Goto
<1> QED
  BY <1>1, QuietSame DEF SaveLock, Goto, disk_vars

LEMMA QuietFlush == ASSUME BaseInv, QuietInv, NEW t \in Worker, Flush(t) PROVE QuietInv'
<1>1. /\ UNCHANGED <<up, pc, fd, asked, promised, dir, frames_>>
  BY DEF Flush, FlushTaking, mem_vars
<1>2. fd[t] # NoFile /\ \A i \in Inode : i # fd[t] => file'[i] = file[i]
  BY FlushIs, DBFileAssumption
<1>3. dir.db # NoFile /\ ~ Pending => file'[dir.db] = file[dir.db]
  BY <1>2 DEF Pending, BaseInv, Types, DirType
<1> QED
  BY <1>1, <1>3, QuietSame

LEMMA QuietSync == ASSUME BaseInv, QuietInv, NEW t \in Worker, SaveSync(t) PROVE QuietInv'
<1>1. \A u \in Worker : pc'[u] \in {"unlock", "done"} => pc[u] \in {"unlock", "done"}
  BY DEF BaseInv, Types, SaveSync, Goto
<1> QED
  BY <1>1, QuietSame DEF SaveSync, Goto, mem_vars

LEMMA QuietRename == ASSUME BaseInv, QuietInv, NEW t \in Worker, SaveRename(t) PROVE QuietInv'
<1>1. /\ up /\ UNCHANGED <<up, asked, promised, file, db_, frames_>>
      /\ pc[t] = "rename" /\ pc' = [pc EXCEPT ![t] = "unlock"]
      /\ fd' = [fd EXCEPT ![t] = NoFile]
      /\ dir' = IF dir.tmp = NoFile THEN dir ELSE [tmp |-> NoFile, db |-> dir.tmp]
  BY DEF SaveRename, Goto, mem_vars
<1>2. /\ fd[t] \in Inode /\ fd[t] # NoFile /\ Written(file[fd[t]], gen[t])
      /\ gen[t] = Len(Image(db_, frames_))
  BY <1>1 DEF BaseInv, Types, ThreadInv, Opened
<1>3. file[fd[t]] \in Seq(CellType) /\ Orders(db_, frames_)
  BY <1>2 DEF BaseInv, Types, MemInv
<1>4. Holds(file[fd[t]], frames_)
  BY <1>2, <1>3 DEF Holds, Written
<1>5. \A u \in Worker : asked[u] \subseteq Pairs(frames_)
  BY DEF BaseInv, ThreadInv
<1>6. dir'.tmp = NoFile
  BY <1>1
<1>7. \A u \in Worker \ {t} : fd'[u] = fd[u] /\ pc'[u] = pc[u]
  BY <1>1 DEF BaseInv, Types
<1>8. fd'[t] = NoFile
  BY <1>1 DEF BaseInv, Types
<1>9. CASE dir'.db = fd[t]
  <2>1. dir'.db # NoFile /\ file'[dir'.db] = file[fd[t]]
    BY <1>1, <1>2, <1>9
  <2>2. Stored(dir', file') = frames_
    BY <1>3, <1>4, <2>1, StoredIs
  <2>3. Whole(file'[dir'.db])
    BY <1>4, <2>1 DEF Whole
  <2> QED
    BY <1>1, <1>5, <1>6, <2>2, <2>3 DEF QuietInv
<1>10. CASE dir'.db # fd[t] /\ dir.tmp = NoFile
  <2>1. dir' = dir
    BY <1>1, <1>10
  <2>2. Pending' <=> Pending
    BY <1>7, <1>8, <1>10, <2>1 DEF Pending
  <2>3. ASSUME NEW u \in Worker, Sure(u)' PROVE Sure(u)
    BY <1>1, <1>2, <1>7, <1>10, <2>1, <2>3 DEF Sure
  <2>4. Stored(dir', file') = Stored(dir, file)
    BY <1>1, <2>1
  <2> QED
    BY <1>1, <1>6, <2>1, <2>2, <2>3, <2>4 DEF QuietInv
<1>11. CASE dir'.db # fd[t] /\ dir.tmp # NoFile
  <2>1. dir'.db = dir.tmp
    BY <1>1, <1>11
  <2>2. PICK u \in Worker : fd[u] = dir.tmp
    BY <1>11 DEF QuietInv
  <2>3. fd'[u] = dir'.db
    BY <1>7, <1>11, <2>1, <2>2
  <2>4. Pending'
    BY <1>11, <2>1, <2>3 DEF Pending
  <2> QED
    BY <1>1, <1>6, <2>4 DEF QuietInv
<1> QED
  BY <1>9, <1>10, <1>11

LEMMA QuietUnlock == ASSUME BaseInv, QuietInv, NEW t \in Worker, SaveUnlock(t) PROVE QuietInv'
<1>1. \A u \in Worker : pc'[u] \in {"unlock", "done"} => pc[u] \in {"unlock", "done"}
  BY DEF BaseInv, Types, SaveUnlock, Goto
<1> QED
  BY <1>1, QuietSame DEF SaveUnlock, Goto, disk_vars

LEMMA QuietReply == ASSUME BaseInv, QuietInv, NEW t \in Worker, SaveReply(t) PROVE QuietInv'
<1> USE DEF SaveReply, Goto, mem_vars, disk_vars
<1>1. pc[t] = "done" /\ pc'[t] = "idle" /\ fd[t] = NoFile /\ Sure(t)
  BY DEF BaseInv, Types, ThreadInv, Opened, Sure
<1>2. asked[t] \subseteq Pairs(frames_)
  BY DEF BaseInv, ThreadInv
<1>3. \A u \in Worker : Sure(u)' => Sure(u) /\ asked'[u] = asked[u]
  BY <1>1 DEF BaseInv, Types, Sure
<1>4. Pending' <=> Pending
  BY DEF Pending
<1>5. ~ Pending => asked[t] \subseteq Pairs(Stored(dir, file))
  BY <1>1 DEF QuietInv
<1> QED
  BY <1>2, <1>3, <1>4, <1>5 DEF QuietInv

LEMMA QuietSyncDir == ASSUME BaseInv, QuietInv, SyncDir PROVE QuietInv'
<1>1. dir.db # NoFile => file'[dir.db] = file[dir.db]
  BY SyncDirIs DEF BaseInv, Types, DirType
<1> QED
  BY <1>1, QuietSame DEF SyncDir, mem_vars

LEMMA QuietStep ==
  ASSUME stops = 0 => BaseInv /\ QuietInv, stops \in Nat, [Next]_vars
  PROVE  stops' \in Nat /\ (stops' = 0 => (BaseInv /\ QuietInv)')
<1>1. CASE Exit \/ PowerFail
  BY <1>1 DEF Exit, PowerFail, ProcessEnds
<1>2. CASE UNCHANGED vars
  <2> USE <1>2 DEF vars
  <2>1. stops' = stops
    OBVIOUS
  <2>2. ASSUME BaseInv PROVE BaseInv'
    <3>1. Types'
      BY <2>2 DEF BaseInv, Types
    <3>2. MemInv'
      BY <2>2 DEF BaseInv, MemInv
    <3>3. ASSUME NEW t \in Worker PROVE ThreadInv(t)'
      BY <2>2 DEF BaseInv, ThreadInv, Written
    <3> QED
      BY <3>1, <3>2, <3>3 DEF BaseInv
  <2>3. ASSUME QuietInv PROVE QuietInv'
    BY <2>3 DEF QuietInv, Pending, Sure
  <2> QED
    BY <2>1, <2>2, <2>3
<1>3. CASE (Load \/ Add \/ SyncDir \/ \E t \in Worker : Save(t)) /\ stops' = stops
  <2> SUFFICES ASSUME BaseInv, QuietInv PROVE BaseInv' /\ QuietInv'
    BY <1>3
  <2>1. CASE Load
    BY <2>1, QuietLoad
  <2>2. CASE Add
    BY <2>2, BaseAdd, QuietAdd
  <2>3. CASE SyncDir
    BY <2>3, BaseSyncDir, QuietSyncDir
  <2>4. ASSUME NEW t \in Worker, Save(t) PROVE BaseInv' /\ QuietInv'
    BY <2>4, BaseSave, QuietRequest, QuietOpen, QuietLock, QuietFlush, QuietSync, QuietRename, QuietUnlock,
       QuietReply DEF Save
  <2> QED
    BY <1>3, <2>1, <2>2, <2>3, <2>4
<1>4. Load \/ Add \/ SyncDir \/ (\E t \in Worker : Save(t)) => stops' = stops
  BY DEF Load, Add, SyncDir, Save, SaveRequest, SaveOpen, SaveLock, Flush, FlushTaking, SaveSync, SaveRename,
         SaveUnlock, SaveReply
<1> QED
  BY <1>1, <1>2, <1>3, <1>4 DEF Next

(* However many threads of the pool save at once, with one tmp file for    *)
(* all of them and open before the mutex (VideoDB::Save): until the        *)
(* process first ends, whenever no save is under way the db file is whole  *)
(* and lacks nothing that was promised.                                    *)
THEOREM QuietIsSaved == Spec => [](stops = 0 => QuietMeansSaved)
<1>1. Init => stops \in Nat /\ (stops = 0 => BaseInv /\ QuietInv)
  <2> SUFFICES ASSUME Init PROVE stops = 0 /\ BaseInv /\ QuietInv
    OBVIOUS
  <2> QED
    BY BaseInit, QuietInit DEF Init
<1>2. /\ stops \in Nat /\ (stops = 0 => BaseInv /\ QuietInv)
      /\ [Next]_vars
      => (stops \in Nat /\ (stops = 0 => BaseInv /\ QuietInv))'
  BY QuietStep
<1>3. BaseInv /\ QuietInv => QuietMeansSaved
  <2> SUFFICES ASSUME BaseInv, QuietInv, \A t \in Worker : pc[t] \in {"idle", "done"}
               PROVE  DoneMeansSaved
    BY DEF QuietMeansSaved
  <2>1. ~ Pending
    BY DEF BaseInv, ThreadInv, Opened, Pending
  <2>2. dir.db # NoFile => file[dir.db] \in Seq(CellType) /\ Whole(file[dir.db])
    BY <2>1 DEF QuietInv, BaseInv, Types, DirType
  <2>3. Readable(dir, file)
    BY <2>2, WholeIsStore
  <2> QED
    BY <2>1, <2>3 DEF QuietInv, DoneMeansSaved
<1> QED
  BY <1>1, <1>2, <1>3, PTL DEF Spec
=============================================================================
