-------------------------- MODULE FrameCacheProofs --------------------------
(***************************************************************************)
(* Proofs about FrameCache for any videos and any limit.                   *)
(***************************************************************************)
EXTENDS FrameCache, SequenceTheorems, FiniteSetTheorems, WellFoundedInduction, TLAPS

ListType == [head : Key \cup {NIL}, tail : Key \cup {NIL},
             prev : [Key -> Key \cup {NIL}], next : [Key -> Key \cup {NIL}]]

(* l is the linked list of the videos s, in this order.                    *)
Links(s, l) ==
  /\ s \in Seq(Key) /\ IsInjective(s)
  /\ l \in ListType
  /\ l.head = IF Len(s) = 0 THEN NIL ELSE s[1]
  /\ l.tail = IF Len(s) = 0 THEN NIL ELSE s[Len(s)]
  /\ \A i \in 1..Len(s) : /\ l.prev[s[i]] = IF i = 1 THEN NIL ELSE s[i - 1]
                          /\ l.next[s[i]] = IF i = Len(s) THEN NIL ELSE s[i + 1]

(* Videos that are not in it have no links; d may have some.               *)
Unlinked(s, l)       == \A k \in Key \ Range(s) : l.prev[k] = NIL /\ l.next[k] = NIL
UnlinkedBut(s, l, d) == \A k \in Key \ (Range(s) \cup {d}) : l.prev[k] = NIL /\ l.next[k] = NIL

Lists(s, l) == Links(s, l) /\ Unlinked(s, l)

-----------------------------------------------------------------------------
(***************************************************************************)
(* The operations on the list.                                             *)
(***************************************************************************)
LEMMA RangeOf ==
  ASSUME NEW s \in Seq(Key)
  PROVE  /\ Len(s) \in Nat /\ DOMAIN s = 1..Len(s)
         /\ \A i \in 1..Len(s) : s[i] \in Key /\ s[i] \in Range(s)
         /\ \A k \in Range(s) : \E i \in 1..Len(s) : s[i] = k
         /\ Range(s) \subseteq Key
<1>1. Len(s) \in Nat /\ DOMAIN s = 1..Len(s) /\ \A i \in 1..Len(s) : s[i] \in Key
  OBVIOUS
<1> QED
  BY <1>1 DEF Range

(* A sequence with one video more in front.                                *)
LEMMA InFront ==
  ASSUME NEW s \in Seq(Key), NEW d \in Key
  PROVE  /\ <<d>> \o s \in Seq(Key) /\ Len(<<d>> \o s) = Len(s) + 1
         /\ (<<d>> \o s)[1] = d
         /\ \A i \in 2..(Len(s) + 1) : (<<d>> \o s)[i] = s[i - 1]
         /\ Range(<<d>> \o s) = Range(s) \cup {d}
<1>1. /\ <<d>> \in Seq(Key) /\ Len(<<d>>) = 1 /\ <<d>>[1] = d
      /\ Len(s) \in Nat
  OBVIOUS
<1> DEFINE t == <<d>> \o s
<1>2. /\ t \in Seq(Key) /\ Len(t) = Len(s) + 1
      /\ \A i \in 1..(Len(s) + 1) : t[i] = IF i <= 1 THEN d ELSE s[i - 1]
  BY <1>1, ConcatProperties
<1> HIDE DEF t
<1>3. t[1] = d /\ \A i \in 2..(Len(s) + 1) : t[i] = s[i - 1]
  BY <1>1, <1>2
<1>4. Range(t) \subseteq Range(s) \cup {d}
  <2> SUFFICES ASSUME NEW i \in 1..Len(t) PROVE t[i] \in Range(s) \cup {d}
    BY <1>2, RangeOf
  <2>1. i = 1 \/ (i \in 2..(Len(s) + 1) /\ i - 1 \in 1..Len(s))
    BY <1>1, <1>2
  <2> QED
    BY <1>3, <2>1, RangeOf
<1>5. Range(s) \cup {d} \subseteq Range(t)
  <2>1. 1 \in 1..Len(t)
    BY <1>1, <1>2
  <2>2. d \in Range(t)
    BY <1>2, <1>3, <2>1, RangeOf
  <2>3. ASSUME NEW i \in 1..Len(s) PROVE s[i] \in Range(t)
    <3>1. i + 1 \in 2..(Len(s) + 1) /\ i + 1 \in 1..Len(t) /\ i + 1 - 1 = i
      BY <1>1, <1>2
    <3>2. t[i + 1] = s[i]
      BY <1>3, <3>1
    <3> QED
      BY <1>2, <3>1, <3>2, RangeOf
  <2> QED
    BY <2>2, <2>3, RangeOf
<1> QED
  BY <1>2, <1>3, <1>4, <1>5 DEF t

LEMMA PushFrontLists ==
  ASSUME NEW s, NEW l, Links(s, l), NEW d \in Key \ Range(s), UnlinkedBut(s, l, d)
  PROVE  Lists(<<d>> \o s, PushFront(l, d))
<1> DEFINE t == <<d>> \o s
           m == PushFront(l, d)
<1>1. /\ s \in Seq(Key) /\ IsInjective(s) /\ l \in ListType /\ Len(s) \in Nat
      /\ \A i \in 1..Len(s) : s[i] \in Key /\ s[i] # d
  BY RangeOf DEF Links
<1>2. /\ t \in Seq(Key) /\ Len(t) = Len(s) + 1 /\ t[1] = d
      /\ \A i \in 2..(Len(s) + 1) : t[i] = s[i - 1]
      /\ Range(t) = Range(s) \cup {d}
  BY <1>1, InFront
<1>3. /\ m \in ListType /\ m.head = d
      /\ m.tail = IF l.tail = NIL THEN d ELSE l.tail
      /\ m.next[d] = l.head /\ m.prev[d] = NIL
      /\ \A k \in Key \ {d} : /\ m.next[k] = l.next[k]
                              /\ m.prev[k] = IF k = l.head THEN d ELSE l.prev[k]
  BY <1>1 DEF PushFront, ListType
<1> HIDE DEF t, m
<1>4. \A i \in 1..Len(t) : i = 1 \/ (i \in 2..(Len(s) + 1) /\ i - 1 \in 1..Len(s))
  BY <1>1, <1>2
<1>5. IsInjective(t)
  <2> SUFFICES ASSUME NEW i \in 1..Len(t), NEW j \in 1..Len(t), t[i] = t[j] PROVE i = j
    BY <1>2, RangeOf DEF IsInjective
  <2>1. CASE i = 1 \/ j = 1
    BY <1>1, <1>2, <1>4, <2>1
  <2>2. CASE i # 1 /\ j # 1
    <3>1. s[i - 1] = s[j - 1] /\ i - 1 \in 1..Len(s) /\ j - 1 \in 1..Len(s)
      BY <1>2, <1>4, <2>2
    <3>2. i - 1 = j - 1
      BY <1>1, <3>1, RangeOf DEF IsInjective
    <3> QED
      BY <1>1, <1>2, <3>2
  <2> QED
    BY <2>1, <2>2
<1>6. m.tail = t[Len(t)]
  <2>1. CASE Len(s) = 0
    BY <1>2, <1>3, <2>1 DEF Links
  <2>2. CASE Len(s) # 0
    <3>1. l.tail = s[Len(s)] /\ Len(s) \in 1..Len(s) /\ Len(s) + 1 \in 2..(Len(s) + 1)
      BY <1>1, <2>2 DEF Links
    <3>2. l.tail # NIL
      BY <1>1, <3>1, FrameCacheAssumption
    <3> QED
      BY <1>1, <1>2, <1>3, <3>1, <3>2
  <2> QED
    BY <2>1, <2>2
<1>7. ASSUME NEW i \in 1..Len(t)
      PROVE  /\ m.prev[t[i]] = IF i = 1 THEN NIL ELSE t[i - 1]
             /\ m.next[t[i]] = IF i = Len(t) THEN NIL ELSE t[i + 1]
  <2>1. CASE i = 1
    <3>1. m.next[d] = IF Len(s) = 0 THEN NIL ELSE s[1]
      BY <1>3 DEF Links
    <3>2. Len(s) # 0 => 2 \in 2..(Len(s) + 1) /\ t[2] = s[1]
      BY <1>1, <1>2
    <3> QED
      BY <1>1, <1>2, <1>3, <2>1, <3>1, <3>2
  <2>2. CASE i # 1
    <3>1. PICK j \in 1..Len(s) : j = i - 1 /\ i = j + 1
      BY <1>1, <1>2, <1>4, <2>2
    <3>2. t[i] = s[j] /\ s[j] \in Key \ {d}
      BY <1>1, <1>2, <1>4, <2>2, <3>1
    <3>3. /\ l.prev[s[j]] = IF j = 1 THEN NIL ELSE s[j - 1]
          /\ l.next[s[j]] = IF j = Len(s) THEN NIL ELSE s[j + 1]
      BY DEF Links
    <3>4. s[j] = l.head <=> j = 1
      <4>1. l.head = s[1] /\ 1 \in 1..Len(s)
        BY <1>1, <3>1 DEF Links
      <4> QED
        BY <1>1, <4>1, RangeOf DEF IsInjective
    <3>5. m.prev[t[i]] = t[i - 1]
      <4>1. CASE j = 1
        BY <1>2, <1>3, <3>1, <3>2, <3>4, <4>1
      <4>2. CASE j # 1
        <5>1. j \in 2..(Len(s) + 1)
          BY <1>1, <4>2
        <5>2. t[j] = s[j - 1]
          BY <1>2, <5>1
        <5> QED
          BY <1>3, <3>1, <3>2, <3>3, <3>4, <4>2, <5>2
      <4> QED
        BY <4>1, <4>2
    <3>6. m.next[t[i]] = IF i = Len(t) THEN NIL ELSE t[i + 1]
      <4>1. m.next[t[i]] = l.next[s[j]]
        BY <1>3, <3>2
      <4>2. j # Len(s) => j + 2 \in 2..(Len(s) + 1) /\ j + 2 - 1 = j + 1
        BY <1>1
      <4>3. j # Len(s) => t[j + 2] = s[j + 1]
        BY <1>2, <4>2
      <4> QED
        BY <1>1, <1>2, <3>1, <3>3, <4>1, <4>3
    <3> QED
      BY <2>2, <3>5, <3>6
  <2> QED
    BY <2>1, <2>2
<1>8. ASSUME NEW k \in Key \ Range(t) PROVE m.prev[k] = NIL /\ m.next[k] = NIL
  <2>1. k # d /\ k \in Key \ Range(s)
    BY <1>2
  <2>2. l.prev[k] = NIL /\ l.next[k] = NIL
    BY <2>1 DEF UnlinkedBut
  <2>3. k # l.head
    <3>1. l.head = NIL \/ l.head \in Range(s)
      <4>1. Len(s) # 0 => 1 \in 1..Len(s)
        BY <1>1
      <4> QED
        BY <1>1, <4>1, RangeOf DEF Links
    <3> QED
      BY <2>1, <3>1, FrameCacheAssumption
  <2> QED
    BY <1>3, <2>1, <2>2, <2>3
<1>9. Len(t) # 0 /\ m.head = t[1]
  BY <1>1, <1>2, <1>3
<1> QED
  BY <1>2, <1>3, <1>5, <1>6, <1>7, <1>8, <1>9 DEF Lists, Links, Unlinked, t, m

(* A sequence without its last video.                                      *)
LEMMA WithoutLast ==
  ASSUME NEW s \in Seq(Key), IsInjective(s), Len(s) # 0
  PROVE  LET t == SubSeq(s, 1, Len(s) - 1)
         IN  /\ t \in Seq(Key) /\ Len(t) = Len(s) - 1 /\ IsInjective(t)
             /\ \A i \in 1..(Len(s) - 1) : t[i] = s[i]
             /\ Range(t) = Range(s) \ {s[Len(s)]}
<1> DEFINE n == Len(s)
           t == SubSeq(s, 1, n - 1)
<1>1. n \in Nat \ {0} /\ n - 1 \in Nat
  OBVIOUS
<1>2. /\ t \in Seq(Key) /\ Len(t) = n - 1
      /\ \A i \in 1..(n - 1) : t[i] = s[i]
  <2>1. \A i \in 1..(n - 1) : s[i] \in Key
    OBVIOUS
  <2>2. 1 \in Int /\ n - 1 \in Int /\ n - 1 - 1 + 1 = n - 1
    BY <1>1
  <2>3. /\ t \in Seq(Key) /\ Len(t) = IF 1 <= n - 1 THEN n - 1 - 1 + 1 ELSE 0
        /\ \A i \in 1..(n - 1 - 1 + 1) : t[i] = s[1 + i - 1]
    BY <2>1, <2>2, SubSeqProperties
  <2> HIDE DEF t, n
  <2>4. Len(t) = n - 1
    BY <1>1, <2>3
  <2>5. ASSUME NEW i \in 1..(n - 1) PROVE t[i] = s[i]
    <3>1. i \in 1..(n - 1 - 1 + 1) /\ 1 + i - 1 = i
      BY <1>1
    <3> QED
      BY <2>3, <3>1
  <2> QED
    BY <2>3, <2>4, <2>5
<1> HIDE DEF t
<1>3. DOMAIN t = 1..(n - 1) /\ DOMAIN s = 1..n
  BY <1>2, RangeOf
<1>4. IsInjective(t)
  BY <1>1, <1>2, <1>3 DEF IsInjective
<1>5. Range(t) = Range(s) \ {s[n]}
  BY <1>1, <1>2, <1>3 DEF IsInjective, Range
<1> QED
  BY <1>2, <1>4, <1>5 DEF t

LEMMA DropTailLists ==
  ASSUME NEW s, NEW l, Lists(s, l), Len(s) # 0
  PROVE  Lists(SubSeq(s, 1, Len(s) - 1), DropTail(l))
<1> DEFINE n == Len(s)
           t == SubSeq(s, 1, n - 1)
           m == DropTail(l)
<1>1. /\ s \in Seq(Key) /\ IsInjective(s) /\ l \in ListType /\ n \in Nat \ {0}
      /\ \A i \in 1..n : s[i] \in Key /\ s[i] # NIL
      /\ \A i, j \in 1..n : s[i] = s[j] => i = j
  BY RangeOf, FrameCacheAssumption DEF Lists, Links, IsInjective
<1>2. /\ t \in Seq(Key) /\ Len(t) = n - 1 /\ IsInjective(t)
      /\ \A i \in 1..(n - 1) : t[i] = s[i]
      /\ Range(t) = Range(s) \ {s[n]}
  BY <1>1, WithoutLast
<1> HIDE DEF t
<1>3. 1 \in 1..n /\ n \in 1..n /\ l.head = s[1] /\ l.tail = s[n]
  BY <1>1 DEF Lists, Links
<1>4. l.prev[s[n]] = IF n = 1 THEN NIL ELSE s[n - 1]
  BY <1>1, <1>3 DEF Lists, Links
<1>5. /\ m \in ListType
      /\ m.head = IF s[1] = s[n] THEN NIL ELSE s[1]
      /\ m.tail = l.prev[s[n]]
      /\ \A k \in Key : /\ m.prev[k] = IF k = s[n] THEN NIL ELSE l.prev[k]
                        /\ m.next[k] = IF k = s[n] \/ k = l.prev[s[n]] THEN NIL ELSE l.next[k]
  BY <1>1, <1>3 DEF DropTail, ListType
<1> HIDE DEF m
<1>6. m.head = IF n - 1 = 0 THEN NIL ELSE t[1]
  <2>1. s[1] = s[n] <=> n = 1
    BY <1>1, <1>3
  <2>2. n # 1 => 1 \in 1..(n - 1)
    <3> HIDE DEF n
    <3> QED BY <1>1
  <2> QED
    BY <1>1, <1>2, <1>5, <2>1, <2>2
<1>7. m.tail = IF n - 1 = 0 THEN NIL ELSE t[n - 1]
  <2>1. n # 1 => n - 1 \in 1..(n - 1)
    <3> HIDE DEF n
    <3> QED BY <1>1
  <2> QED
    BY <1>1, <1>2, <1>4, <1>5, <2>1
<1>8. ASSUME NEW i \in 1..(n - 1)
      PROVE  /\ m.prev[t[i]] = IF i = 1 THEN NIL ELSE t[i - 1]
             /\ m.next[t[i]] = IF i = n - 1 THEN NIL ELSE t[i + 1]
  <2>1. i \in 1..n /\ n - 1 \in 1..n /\ n # 1 /\ i # n
    BY <1>1
  <2>2. t[i] = s[i] /\ s[i] \in Key /\ s[i] # s[n] /\ (s[i] = s[n - 1] <=> i = n - 1)
    BY <1>1, <1>2, <1>3, <2>1
  <2>3. /\ l.prev[s[i]] = IF i = 1 THEN NIL ELSE s[i - 1]
        /\ l.next[s[i]] = IF i = n THEN NIL ELSE s[i + 1]
    BY <2>1 DEF Lists, Links
  <2>4. i # 1 => i - 1 \in 1..(n - 1)
    BY <1>1
  <2>5. i # n - 1 => i + 1 \in 1..(n - 1)
    BY <1>1
  <2> QED
    BY <1>2, <1>4, <1>5, <2>1, <2>2, <2>3, <2>4, <2>5
<1>9. ASSUME NEW k \in Key \ Range(t) PROVE m.prev[k] = NIL /\ m.next[k] = NIL
  BY <1>2, <1>5 DEF Lists, Unlinked
<1> QED
  BY <1>2, <1>5, <1>6, <1>7, <1>8, <1>9 DEF Lists, Links, Unlinked, t, m

(* A sequence without the p-th video.                                      *)
LEMMA WithoutOne ==
  ASSUME NEW s \in Seq(Key), IsInjective(s), NEW p \in 1..Len(s)
  PROVE  LET t == RemoveAt(s, p)
         IN  /\ t \in Seq(Key) /\ Len(t) = Len(s) - 1 /\ IsInjective(t)
             /\ \A i \in 1..(p - 1) : t[i] = s[i]
             /\ \A i \in p..(Len(s) - 1) : t[i] = s[i + 1]
             /\ Range(t) = Range(s) \ {s[p]}
<1> DEFINE n == Len(s)
           a == SubSeq(s, 1, p - 1)
           b == SubSeq(s, p + 1, n)
           t == RemoveAt(s, p)
<1>1. n \in Nat /\ DOMAIN s = 1..n /\ \A i \in 1..n : s[i] \in Key
  OBVIOUS
<1> HIDE DEF n
<1>2. p \in Nat /\ 1 <= p /\ p <= n
  BY <1>1 DEF n
<1>3. /\ a \in Seq(Key) /\ Len(a) = p - 1
      /\ \A i \in 1..(p - 1) : a[i] = s[i]
  <2>1. \A i \in 1..(p - 1) : s[i] \in Key
    BY <1>1, <1>2
  <2>2. 1 \in Int /\ p - 1 \in Int
    BY <1>2
  <2>3. /\ a \in Seq(Key) /\ Len(a) = IF 1 <= p - 1 THEN p - 1 - 1 + 1 ELSE 0
        /\ \A i \in 1..(p - 1 - 1 + 1) : a[i] = s[1 + i - 1]
    BY <2>1, <2>2, SubSeqProperties
  <2> HIDE DEF a
  <2> QED
    BY <1>2, <2>3
<1>4. /\ b \in Seq(Key) /\ Len(b) = n - p
      /\ \A i \in 1..(n - p) : b[i] = s[p + i]
  <2>1. \A i \in (p + 1)..n : s[i] \in Key
    BY <1>1, <1>2
  <2>2. p + 1 \in Int /\ n \in Int
    BY <1>1, <1>2
  <2>3. /\ b \in Seq(Key) /\ Len(b) = IF p + 1 <= n THEN n - (p + 1) + 1 ELSE 0
        /\ \A i \in 1..(n - (p + 1) + 1) : b[i] = s[p + 1 + i - 1]
    BY <2>1, <2>2, SubSeqProperties
  <2> HIDE DEF b
  <2>4. n - (p + 1) + 1 = n - p /\ \A i \in 1..(n - p) : p + 1 + i - 1 = p + i
    BY <1>1, <1>2
  <2> QED
    BY <1>1, <1>2, <2>3, <2>4
<1>5. t = a \o b
  BY DEF RemoveAt, n
<1> HIDE DEF a, b, t
<1>6. /\ t \in Seq(Key) /\ Len(t) = p - 1 + (n - p)
      /\ \A i \in 1..(p - 1 + (n - p)) : t[i] = IF i <= p - 1 THEN a[i] ELSE b[i - (p - 1)]
  BY <1>3, <1>4, <1>5, ConcatProperties
<1>7. Len(t) = n - 1 /\ DOMAIN t = 1..(n - 1)
  BY <1>1, <1>2, <1>6
<1>8. \A i \in 1..(p - 1) : t[i] = s[i]
  BY <1>1, <1>2, <1>3, <1>6
<1>9. \A i \in p..(n - 1) : t[i] = s[i + 1]
  <2> SUFFICES ASSUME NEW i \in p..(n - 1) PROVE t[i] = s[i + 1]
    OBVIOUS
  <2>1. i - (p - 1) \in 1..(n - p) /\ p + (i - (p - 1)) = i + 1
    BY <1>1, <1>2
  <2>2. b[i - (p - 1)] = s[p + (i - (p - 1))]
    BY <1>4, <2>1
  <2> QED
    BY <1>1, <1>2, <1>6, <2>1, <2>2
<1>10. \A i \in 1..(n - 1) : \/ i \in 1..(p - 1)
                             \/ i \in p..(n - 1) /\ i + 1 \in 1..n
  BY <1>1, <1>2
<1>11. IsInjective(t)
  <2> SUFFICES ASSUME NEW i \in 1..(n - 1), NEW j \in 1..(n - 1), t[i] = t[j] PROVE i = j
    BY <1>7 DEF IsInjective
  <2> DEFINE At(x) == IF x < p THEN x ELSE x + 1
  <2>1. t[i] = s[At(i)] /\ t[j] = s[At(j)] /\ At(i) \in 1..n /\ At(j) \in 1..n
    BY <1>1, <1>2, <1>8, <1>9, <1>10
  <2>2. At(i) = At(j)
    BY <1>1, <2>1 DEF IsInjective
  <2> QED
    BY <1>2, <2>2
<1>12. Range(t) = Range(s) \ {s[p]}
  <2>1. ASSUME NEW i \in 1..(n - 1) PROVE t[i] \in Range(s) /\ t[i] # s[p]
    <3>1. CASE i \in 1..(p - 1)
      <4>1. i \in 1..n /\ i # p /\ p \in 1..n
        BY <1>1, <1>2, <3>1
      <4> QED
        BY <1>1, <1>8, <3>1, <4>1 DEF IsInjective, Range
    <3>2. CASE i \in p..(n - 1)
      <4>1. i + 1 \in 1..n /\ i + 1 # p /\ p \in 1..n
        BY <1>1, <1>2, <3>2
      <4> QED
        BY <1>1, <1>9, <3>2, <4>1 DEF IsInjective, Range
    <3> QED
      BY <1>10, <3>1, <3>2
  <2>2. ASSUME NEW i \in 1..n, s[i] # s[p] PROVE s[i] \in Range(t)
    <3>1. CASE i < p
      <4>1. i \in 1..(p - 1) /\ i \in 1..(n - 1)
        BY <1>1, <1>2, <3>1
      <4> QED
        BY <1>7, <1>8, <4>1 DEF Range
    <3>2. CASE i > p
      <4>1. i - 1 \in p..(n - 1) /\ i - 1 \in 1..(n - 1) /\ i - 1 + 1 = i
        BY <1>1, <1>2, <3>2
      <4> QED
        BY <1>7, <1>9, <4>1 DEF Range
    <3>3. i # p /\ i \in Nat
      BY <1>1, <2>2
    <3> QED
      BY <1>2, <3>1, <3>2, <3>3
  <2> QED
    BY <1>1, <1>7, <2>1, <2>2 DEF Range
<1> QED
  BY <1>6, <1>7, <1>8, <1>9, <1>11, <1>12 DEF t, n

LEMMA UnlinkLinks ==
  ASSUME NEW s, NEW l, Lists(s, l), NEW p \in 2..Len(s)
  PROVE  Links(RemoveAt(s, p), Unlink(l, s[p])) /\ UnlinkedBut(RemoveAt(s, p), Unlink(l, s[p]), s[p])
<1> DEFINE n == Len(s)
           d == s[p]
           t == RemoveAt(s, p)
           u == Unlink(l, d)
<1>1. /\ s \in Seq(Key) /\ IsInjective(s) /\ l \in ListType /\ n \in Nat
      /\ \A i \in 1..n : s[i] \in Key /\ s[i] # NIL /\ s[i] \in Range(s)
      /\ \A i, j \in 1..n : s[i] = s[j] => i = j
  BY RangeOf, FrameCacheAssumption DEF Lists, Links, IsInjective
<1>2. \A i \in 1..n : /\ l.prev[s[i]] = IF i = 1 THEN NIL ELSE s[i - 1]
                      /\ l.next[s[i]] = IF i = n THEN NIL ELSE s[i + 1]
  BY DEF Lists, Links
<1>3. n # 0 => l.head = s[1] /\ l.tail = s[n]
  BY DEF Lists, Links
<1>4. p \in Nat /\ 2 <= p /\ p <= n
  BY <1>1
<1>5. /\ t \in Seq(Key) /\ Len(t) = n - 1 /\ IsInjective(t)
      /\ \A i \in 1..(p - 1) : t[i] = s[i]
      /\ \A i \in p..(n - 1) : t[i] = s[i + 1]
      /\ Range(t) = Range(s) \ {d}
  BY <1>1, <1>4, WithoutOne
<1> HIDE DEF n, t
<1>6. 1 \in 1..n /\ n \in 1..n /\ p \in 1..n /\ p - 1 \in 1..n /\ p # 1
  BY <1>1, <1>4
<1>7. d \in Key /\ l.prev[d] = s[p - 1] /\ l.next[d] = IF p = n THEN NIL ELSE s[p + 1]
  BY <1>1, <1>2, <1>6
<1>8. /\ u \in ListType /\ u.head = s[1]
      /\ u.tail = IF d = s[n] THEN s[p - 1] ELSE s[n]
      /\ \A k \in Key : /\ u.prev[k] = IF k = l.next[d] THEN s[p - 1] ELSE l.prev[k]
                        /\ u.next[k] = IF k = s[p - 1] THEN l.next[d] ELSE l.next[k]
  <2>1. l.head = s[1] /\ l.tail = s[n]
    BY <1>1, <1>3, <1>4
  <2>2. /\ s[p - 1] \in Key /\ l.next[d] \in Key \cup {NIL}
    BY <1>1, <1>6, <1>7 DEF ListType
  <2> HIDE DEF d
  <2> QED
    BY <1>1, <1>7, <2>1, <2>2 DEF Unlink, ListType
<1> HIDE DEF u
<1>9. d = s[n] <=> p = n
  BY <1>1, <1>6
<1>10. ASSUME NEW i \in 1..n PROVE /\ s[i] = s[p - 1] <=> i = p - 1
                                   /\ s[i] = l.next[d] <=> i = p + 1
  <2>1. s[i] = s[p - 1] <=> i = p - 1
    BY <1>1, <1>6
  <2>2. CASE p = n
    BY <1>1, <1>4, <1>7, <2>1, <2>2
  <2>3. CASE p # n
    <3>1. p + 1 \in 1..n
      BY <1>1, <1>4, <2>3
    <3> QED
      BY <1>1, <1>7, <2>1, <2>3, <3>1
  <2> QED
    BY <2>2, <2>3
<1>11. u.head = t[1] /\ u.tail = t[n - 1] /\ n - 1 # 0
  <2>1. 1 \in 1..(p - 1) /\ n - 1 # 0
    BY <1>1, <1>4
  <2>2. CASE p = n
    <3>1. n - 1 \in 1..(p - 1)
      BY <1>1, <1>4, <2>2
    <3> QED
      BY <1>5, <1>8, <1>9, <2>1, <2>2, <3>1
  <2>3. CASE p # n
    <3>1. n - 1 \in p..(n - 1) /\ n - 1 + 1 = n
      BY <1>1, <1>4, <2>3
    <3> QED
      BY <1>5, <1>8, <1>9, <2>1, <2>3, <3>1
  <2> QED
    BY <2>2, <2>3
<1>12. ASSUME NEW i \in 1..(n - 1)
       PROVE  /\ u.prev[t[i]] = IF i = 1 THEN NIL ELSE t[i - 1]
              /\ u.next[t[i]] = IF i = n - 1 THEN NIL ELSE t[i + 1]
  <2>0. i \in Nat /\ 1 <= i /\ i <= n - 1
    BY <1>1
  <2>1. CASE i < p
    <3>1. i \in 1..(p - 1) /\ i \in 1..n /\ i # p + 1 /\ i # n
      BY <1>1, <1>4, <2>0, <2>1
    <3>2. t[i] = s[i] /\ s[i] \in Key
      BY <1>1, <1>5, <3>1
    <3>3. u.prev[t[i]] = IF i = 1 THEN NIL ELSE s[i - 1]
      BY <1>2, <1>8, <1>10, <3>1, <3>2
    <3>4. i # 1 => i - 1 \in 1..(p - 1)
      BY <1>4, <2>0, <2>1
    <3>5. CASE i = p - 1
      <4>1. u.next[t[i]] = IF p = n THEN NIL ELSE s[p + 1]
        BY <1>7, <1>8, <1>10, <3>1, <3>2, <3>5
      <4>2. i + 1 = p /\ (i = n - 1 <=> p = n)
        BY <1>1, <1>4, <3>5
      <4>3. p # n => p \in p..(n - 1)
        BY <1>1, <1>4
      <4> QED
        BY <1>5, <3>3, <3>4, <4>1, <4>2, <4>3
    <3>6. CASE i # p - 1
      <4>1. u.next[t[i]] = s[i + 1]
        BY <1>2, <1>8, <1>10, <3>1, <3>2, <3>6
      <4>2. i + 1 \in 1..(p - 1) /\ i # n - 1
        BY <1>1, <1>4, <2>0, <2>1, <3>6
      <4> QED
        BY <1>5, <3>3, <3>4, <4>1, <4>2
    <3> QED
      BY <3>5, <3>6
  <2>2. CASE i >= p
    <3>1. PICK j \in 1..n : j = i + 1
      BY <1>1, <2>0
    <3>2. i \in p..(n - 1) /\ j # 1 /\ j # p - 1 /\ j - 1 = i
      BY <1>1, <1>4, <2>0, <2>2, <3>1
    <3>3. t[i] = s[j] /\ s[j] \in Key
      BY <1>1, <1>5, <3>1, <3>2
    <3>4. /\ u.prev[t[i]] = IF i = p THEN s[p - 1] ELSE s[i]
          /\ u.next[t[i]] = IF j = n THEN NIL ELSE s[j + 1]
      BY <1>2, <1>4, <1>8, <1>10, <2>0, <3>1, <3>2, <3>3
    <3>5. i # 1 /\ u.prev[t[i]] = t[i - 1]
      <4>1. CASE i = p
        <5>1. p - 1 \in 1..(p - 1) /\ i # 1
          BY <1>4, <4>1
        <5> QED
          BY <1>5, <3>4, <4>1, <5>1
      <4>2. CASE i # p
        <5>1. i - 1 \in p..(n - 1) /\ i - 1 + 1 = i /\ i # 1
          BY <1>1, <1>4, <2>0, <2>2, <4>2
        <5> QED
          BY <1>5, <3>4, <4>2, <5>1
      <4> QED
        BY <4>1, <4>2
    <3>6. u.next[t[i]] = IF i = n - 1 THEN NIL ELSE t[i + 1]
      <4>1. j = n <=> i = n - 1
        BY <1>1, <2>0, <3>1
      <4>2. i # n - 1 => i + 1 \in p..(n - 1) /\ i + 1 + 1 = j + 1
        BY <1>1, <1>4, <2>0, <2>2, <3>1
      <4> QED
        BY <1>5, <3>4, <4>1, <4>2
    <3> QED
      BY <3>5, <3>6
  <2> QED
    BY <1>4, <2>0, <2>1, <2>2
<1>13. ASSUME NEW k \in Key \ (Range(t) \cup {d}) PROVE u.prev[k] = NIL /\ u.next[k] = NIL
  <2>1. k \in Key \ Range(s)
    BY <1>5
  <2>2. k # s[p - 1] /\ k # l.next[d]
    <3>1. p # n => p + 1 \in 1..n
      BY <1>1, <1>4
    <3> QED
      BY <1>1, <1>6, <1>7, <2>1, <3>1, FrameCacheAssumption
  <2> QED
    BY <1>8, <2>1, <2>2 DEF Lists, Unlinked
<1> QED
  BY <1>5, <1>8, <1>11, <1>12, <1>13 DEF Links, UnlinkedBut, t, n, u

(* Where a video is in a sequence of different ones.                       *)
LEMMA FirstIs ==
  ASSUME NEW s \in Seq(Key), IsInjective(s), NEW p \in 1..Len(s)
  PROVE  RemoveFirst(s, s[p]) = RemoveAt(s, p)
<1> DEFINE I == {i \in 1..Len(s) : s[i] = s[p]}
<1>1. Len(s) \in Nat /\ DOMAIN s = 1..Len(s)
  OBVIOUS
<1>2. I = {p}
  BY <1>1 DEF IsInjective
<1>3. Min(I) = p
  BY <1>1, <1>2 DEF Min
<1>4. SelectInSeq(s, LAMBDA v : v = s[p]) = IF I # {} THEN Min(I) ELSE 0
  BY DEF SelectInSeq
<1> QED
  BY <1>2, <1>3, <1>4 DEF RemoveFirst

(* The list after a video was put, or moved, to its front.                 *)
LEMMA ToFrontIs ==
  ASSUME NEW s \in Seq(Key), IsInjective(s), NEW d \in Key
  PROVE  /\ d \notin Range(s) => Lru!ToFront(d, s) = <<d>> \o s
         /\ \A p \in 1..Len(s) : d = s[p] => Lru!ToFront(d, s) = <<d>> \o RemoveAt(s, p)
<1>1. Lru!ToFront(d, s) = <<d>> \o RemoveFirst(s, d)
  BY DEF Lru!ToFront, Lru!Cons, Lru!RemoveFirst, RemoveFirst, Lru!RemoveAt, RemoveAt,
         Lru!SelectInSeq, SelectInSeq, Lru!Min, Min
<1>2. d \notin Range(s) => RemoveFirst(s, d) = s
  BY RangeOf DEF RemoveFirst
<1>3. \A p \in 1..Len(s) : d = s[p] => RemoveFirst(s, d) = RemoveAt(s, p)
  BY FirstIs
<1> QED
  BY <1>1, <1>2, <1>3

LEMMA MoveToFrontLists ==
  ASSUME NEW s, NEW l, Lists(s, l), NEW d \in Range(s)
  PROVE  /\ Lists(Lru!ToFront(d, s), MoveToFront(l, d))
         /\ Range(Lru!ToFront(d, s)) = Range(s)
<1>1. /\ s \in Seq(Key) /\ IsInjective(s) /\ Len(s) \in Nat /\ d \in Key
  BY RangeOf DEF Lists, Links
<1>2. PICK p \in 1..Len(s) : d = s[p]
  BY <1>1, RangeOf
<1> DEFINE t == RemoveAt(s, p)
<1>3. Lru!ToFront(d, s) = <<d>> \o t
  BY <1>1, <1>2, ToFrontIs
<1>4. /\ t \in Seq(Key) /\ Len(t) = Len(s) - 1 /\ IsInjective(t)
      /\ \A i \in p..(Len(s) - 1) : t[i] = s[i + 1]
      /\ Range(t) = Range(s) \ {d}
  BY <1>1, <1>2, WithoutOne
<1>5. Range(<<d>> \o t) = Range(s)
  <2> HIDE DEF t
  <2>1. Range(<<d>> \o t) = Range(t) \cup {d}
    BY <1>1, <1>4, InFront
  <2> QED
    BY <1>4, <2>1
<1>6. l.head = s[1] /\ 1 \in 1..Len(s)
  BY <1>1, <1>2 DEF Lists, Links
<1>7. d = l.head <=> p = 1
  BY <1>1, <1>2, <1>6, RangeOf DEF IsInjective
<1>8. CASE p = 1
  <2>1. <<d>> \o t = s
    <3> DEFINE u == <<d>> \o t
    <3>1. /\ u \in Seq(Key) /\ Len(u) = Len(s) - 1 + 1 /\ u[1] = d
          /\ \A i \in 2..(Len(s) - 1 + 1) : u[i] = t[i - 1]
      BY <1>1, <1>4, InFront
    <3> HIDE DEF u
    <3>2. Len(u) = Len(s)
      BY <1>1, <3>1
    <3>3. ASSUME NEW i \in 1..Len(s) PROVE u[i] = s[i]
      <4>1. CASE i = 1
        BY <1>2, <1>8, <3>1, <4>1
      <4>2. CASE i # 1
        <5>1. i \in 2..(Len(s) - 1 + 1) /\ i - 1 \in 1..(Len(s) - 1) /\ i - 1 + 1 = i
          BY <1>1, <4>2
        <5> QED
          BY <1>4, <1>8, <3>1, <5>1
      <4> QED
        BY <4>1, <4>2
    <3> QED
      BY <1>1, <3>1, <3>2, <3>3 DEF u
  <2>2. MoveToFront(l, d) = l
    BY <1>7, <1>8 DEF MoveToFront
  <2> QED
    BY <1>3, <2>1, <2>2
<1>9. CASE p # 1
  <2>1. p \in 2..Len(s)
    BY <1>1, <1>9
  <2>2. Links(t, Unlink(l, d)) /\ UnlinkedBut(t, Unlink(l, d), d)
    BY <1>2, <2>1, UnlinkLinks
  <2>3. MoveToFront(l, d) = PushFront(Unlink(l, d), d)
    BY <1>7, <1>9 DEF MoveToFront
  <2>4. d \in Key \ Range(t)
    BY <1>1, <1>4
  <2> HIDE DEF t
  <2>5. Lists(<<d>> \o t, PushFront(Unlink(l, d), d))
    BY <2>2, <2>4, PushFrontLists
  <2> QED
    BY <1>3, <1>5, <2>3, <2>5
<1> QED
  BY <1>8, <1>9

-----------------------------------------------------------------------------
(***************************************************************************)
(* Walking along the list.                                                 *)
(***************************************************************************)

(* The walk along links that lead from each video of a sequence to the     *)
(* next, and nowhere from the last.                                        *)
LEMMA WalkIs ==
  ASSUME NEW s \in Seq(Key), IsInjective(s), NEW from, NEW link,
         from = IF Len(s) = 0 THEN NIL ELSE s[1],
         \A i \in 1..Len(s) : link[s[i]] = IF i = Len(s) THEN NIL ELSE s[i + 1]
  PROVE  Walk(from, link) = s
<1> DEFINE n == Len(s)
           N == Cardinality(Key)
           Is(g) == g = [i \in 1..(N + 1) |->
                           IF i = 1 THEN from
                           ELSE IF g[i - 1] = NIL THEN NIL ELSE link[g[i - 1]]]
           at == CHOOSE g : Is(g)
           w  == [i \in 1..(N + 1) |-> IF i <= n THEN s[i] ELSE NIL]
<1>1. Walk(from, link) = [i \in 1..Cardinality({j \in DOMAIN at : at[j] # NIL}) |-> at[i]]
  BY DEF Walk
<1>2. n \in Nat /\ \A i \in 1..n : s[i] \in Key /\ s[i] # NIL
  BY FrameCacheAssumption
<1>3. N \in Nat /\ n <= N
  <2>1. s \in Injection(1..n, Key)
    BY <1>2 DEF IsInjective, Injection
  <2>2. 1 \in Int /\ n \in Int
    BY <1>2
  <2> HIDE DEF n
  <2>3. Cardinality(1..n) = n
    BY <1>2, <2>2, FS_Interval
  <2> QED
    BY <2>1, <2>3, FS_Injection, FS_CardinalityType, FrameCacheAssumption
<1> HIDE DEF n, N
<1>4. Is(w)
  <2> SUFFICES ASSUME NEW i \in 1..(N + 1)
               PROVE  w[i] = IF i = 1 THEN from
                             ELSE IF w[i - 1] = NIL THEN NIL ELSE link[w[i - 1]]
    OBVIOUS
  <2>1. w[i] = IF i <= n THEN s[i] ELSE NIL
    OBVIOUS
  <2>2. CASE i = 1
    BY <1>2, <2>1, <2>2 DEF n
  <2>3. CASE i # 1
    <3>1. PICK j \in 1..(N + 1) : j = i - 1 /\ j + 1 = i
      BY <1>3, <2>3
    <3>2. w[j] = IF j <= n THEN s[j] ELSE NIL
      OBVIOUS
    <3>3. CASE j <= n
      <4>1. j \in 1..n /\ (j = n <=> ~ (i <= n))
        BY <1>2, <1>3, <3>1, <3>3
      <4>2. link[s[j]] = IF j = n THEN NIL ELSE s[i]
        BY <3>1, <4>1 DEF n
      <4> HIDE DEF w
      <4> QED
        BY <1>2, <2>1, <2>3, <3>1, <3>2, <3>3, <4>1, <4>2
    <3>4. CASE ~ (j <= n)
      <4>1. ~ (i <= n)
        BY <1>2, <1>3, <3>1, <3>4
      <4> HIDE DEF w
      <4> QED
        BY <2>1, <2>3, <3>1, <3>2, <3>4, <4>1
    <3> QED
      BY <3>3, <3>4
  <2> QED
    BY <2>2, <2>3
<1>5. Is(at)
  BY <1>4
<1> HIDE DEF at, w
<1>6. \A i \in 1..(N + 1) : at[i] = w[i]
  <2> DEFINE Wrong == {i \in 1..(N + 1) : at[i] # w[i]}
  <2> SUFFICES ASSUME Wrong # {} PROVE FALSE
    OBVIOUS
  <2>1. Wrong \subseteq Nat
    BY <1>3
  <2>2. PICK i \in Wrong : \A j \in Wrong : ~ (<<j, i>> \in OpToRel(<, Nat))
    <3> HIDE DEF Wrong
    <3> QED BY <2>1, NatLessThanWellFounded, WFMin
  <2>3. i # 1 /\ i - 1 \in 1..(N + 1)
    <3>1. 1 \in 1..(N + 1) /\ at[1] = from /\ w[1] = from
      BY <1>3, <1>4, <1>5
    <3> QED
      BY <1>3, <3>1
  <2>4. i - 1 \notin Wrong
    <3>1. i - 1 < i /\ i - 1 \in Nat /\ i \in Nat
      BY <1>3, <2>3
    <3> HIDE DEF Wrong
    <3> QED
      BY <2>2, <3>1 DEF OpToRel
  <2>5. at[i - 1] = w[i - 1]
    BY <2>3, <2>4
  <2> QED
    BY <1>4, <1>5, <2>3, <2>5
<1>7. DOMAIN at = 1..(N + 1)
  BY <1>5
<1>8. {j \in DOMAIN at : at[j] # NIL} = 1..n
  BY <1>2, <1>3, <1>6, <1>7 DEF w
<1>9. Cardinality(1..n) = n
  <2>1. 1 \in Int /\ n \in Int
    BY <1>2
  <2> QED
    BY <1>2, <2>1, FS_Interval
<1>10. Walk(from, link) = [i \in 1..n |-> at[i]]
  BY <1>1, <1>8, <1>9
<1>11. \A i \in 1..n : at[i] = s[i]
  BY <1>2, <1>3, <1>6 DEF w
<1>12. s = [i \in 1..n |-> s[i]]
  BY DEF n
<1> QED
  BY <1>10, <1>11, <1>12

(* Both walks find the list.                                               *)
LEMMA WalksAre ==
  ASSUME NEW s, NEW l, Lists(s, l)
  PROVE  Walk(l.head, l.next) = s /\ Walk(l.tail, l.prev) = Reverse(s)
<1>1. /\ s \in Seq(Key) /\ IsInjective(s) /\ Len(s) \in Nat
      /\ \A i \in 1..Len(s) : s[i] \in Key
  BY DEF Lists, Links
<1>2. Walk(l.head, l.next) = s
  BY <1>1, WalkIs DEF Lists, Links
<1> DEFINE t == Reverse(s)
           n == Len(s)
<1>3. /\ t \in Seq(Key) /\ Len(t) = n
      /\ \A i \in 1..n : t[i] = s[(n - i) + 1] /\ (n - i) + 1 \in 1..n
  <2>1. \A i \in 1..n : (n - i) + 1 \in 1..n
    BY <1>1
  <2>2. t = [i \in 1..n |-> s[(n - i) + 1]]
    BY DEF Reverse
  <2> QED
    BY <1>1, <2>1, <2>2
<1> HIDE DEF t
<1>4. IsInjective(t)
  <2>1. DOMAIN t = 1..n /\ DOMAIN s = 1..n
    BY <1>1, <1>3
  <2>2. ASSUME NEW i \in 1..n, NEW j \in 1..n, t[i] = t[j] PROVE i = j
    <3>1. (n - i) + 1 = (n - j) + 1
      BY <1>1, <1>3, <2>1, <2>2 DEF IsInjective
    <3> QED
      BY <1>1, <3>1
  <2> QED
    BY <2>1, <2>2 DEF IsInjective
<1>5. l.tail = IF n = 0 THEN NIL ELSE t[1]
  <2>1. n # 0 => 1 \in 1..n /\ (n - 1) + 1 = n
    BY <1>1
  <2> QED
    BY <1>3, <2>1 DEF Lists, Links
<1>6. ASSUME NEW i \in 1..n PROVE l.prev[t[i]] = IF i = n THEN NIL ELSE t[i + 1]
  <2>1. PICK j \in 1..n : j = (n - i) + 1
    BY <1>3
  <2>2. t[i] = s[j] /\ l.prev[s[j]] = IF j = 1 THEN NIL ELSE s[j - 1]
    BY <1>3, <2>1 DEF Lists, Links
  <2>3. j = 1 <=> i = n
    BY <1>1, <2>1
  <2>4. i # n => i + 1 \in 1..n /\ (n - (i + 1)) + 1 = j - 1
    BY <1>1, <2>1
  <2> QED
    BY <1>3, <2>2, <2>3, <2>4
<1>7. Walk(l.tail, l.prev) = t
  <2>1. PICK from : from = l.tail /\ from = IF Len(t) = 0 THEN NIL ELSE t[1]
    BY <1>3, <1>5
  <2>2. PICK link : /\ link = l.prev
                    /\ \A i \in 1..Len(t) : link[t[i]] = IF i = Len(t) THEN NIL ELSE t[i + 1]
    BY <1>3, <1>6
  <2>3. t \in Seq(Key)
    BY <1>3
  <2>4. Walk(from, link) = t
    BY <1>4, <2>1, <2>2, <2>3, WalkIs
  <2> QED
    BY <2>1, <2>2, <2>4
<1> QED
  BY <1>2, <1>7 DEF t

-----------------------------------------------------------------------------
(***************************************************************************)
(* Sizes.                                                                  *)
(***************************************************************************)

(* The size of videos S; their frames, told apart by video.                *)
Units(h, S)  == MapThenSumSet(LAMBDA k : Cardinality(h[k]), S)
Pieces(h, S) == UNION {{k} \X h[k] : k \in S}

LEMMA PiecesFinite ==
  ASSUME NEW S, IsFiniteSet(S), NEW h, \A k \in S : IsFiniteSet(h[k])
  PROVE  /\ IsFiniteSet(Pieces(h, S)) /\ Cardinality(Pieces(h, S)) \in Nat
         /\ \A T \in SUBSET S : /\ Pieces(h, T) \subseteq Pieces(h, S)
                                /\ Cardinality(Pieces(h, T)) \in Nat
                                /\ Cardinality(Pieces(h, T)) <= Cardinality(Pieces(h, S))
<1> DEFINE P == {{k} \X h[k] : k \in S}
           f == [k \in S |-> {k} \X h[k]]
<1>1. f \in Surjection(S, P)
  BY DEF Surjection
<1>2. IsFiniteSet(P)
  BY <1>1, FS_Surjection
<1>3. \A k \in S : IsFiniteSet({k} \X h[k])
  BY FS_Singleton, FS_Product
<1>4. IsFiniteSet(UNION P)
  <2>1. \A T \in P : IsFiniteSet(T)
    BY <1>3
  <2> HIDE DEF P
  <2> QED
    BY <1>2, <2>1, FS_UNION
<1>5. \A T \in SUBSET S : Pieces(h, T) \subseteq Pieces(h, S)
  BY DEF Pieces
<1>6. IsFiniteSet(Pieces(h, S))
  BY <1>4 DEF Pieces
<1> QED
  BY <1>5, <1>6, FS_Subset, FS_CardinalityType

LEMMA PiecesAdd ==
  ASSUME NEW S, IsFiniteSet(S), NEW h, \A k \in S : IsFiniteSet(h[k]), NEW x \in S
  PROVE  Cardinality(Pieces(h, S)) = Cardinality(h[x]) + Cardinality(Pieces(h, S \ {x}))
<1> DEFINE A == {x} \X h[x]
           B == Pieces(h, S \ {x})
<1>1. Pieces(h, S) = A \cup B
  BY DEF Pieces
<1>2. A \cap B = {}
  BY DEF Pieces
<1>3. IsFiniteSet(A) /\ Cardinality(A) = Cardinality(h[x]) /\ Cardinality(h[x]) \in Nat
  <2>1. Cardinality({x}) = 1 /\ IsFiniteSet({x}) /\ IsFiniteSet(h[x])
    BY FS_Singleton
  <2>2. IsFiniteSet(A) /\ Cardinality(A) = Cardinality({x}) * Cardinality(h[x])
    BY <2>1, FS_Product
  <2>3. Cardinality(h[x]) \in Nat
    BY <2>1, FS_CardinalityType
  <2> QED
    BY <2>1, <2>2, <2>3
<1>4. IsFiniteSet(S \ {x}) /\ \A k \in S \ {x} : IsFiniteSet(h[k])
  BY FS_RemoveElement
<1>5. IsFiniteSet(B) /\ Cardinality(B) \in Nat
  BY <1>4, PiecesFinite
<1> HIDE DEF A, B
<1>6. Cardinality(A \cup B) = Cardinality(A) + Cardinality(B) - Cardinality({})
  BY <1>2, <1>3, <1>5, FS_Union
<1> QED
  BY <1>1, <1>3, <1>5, <1>6, FS_EmptySet DEF B

LEMMA PiecesOfNone == ASSUME NEW h PROVE Cardinality(Pieces(h, {})) = 0
<1>1. Pieces(h, {}) = {}
  BY DEF Pieces
<1> QED
  BY <1>1, FS_EmptySet

(* The sum counts the frames, in whatever order it is taken.               *)
LEMMA UnitsAre ==
  ASSUME NEW S, IsFiniteSet(S), NEW h, \A k \in S : IsFiniteSet(h[k])
  PROVE  Units(h, S) = Cardinality(Pieces(h, S))
<1> DEFINE some(s) == CHOOSE x \in s : TRUE
           IsSum(g) == g = [s \in SUBSET S |->
                              IF s = {} THEN 0 ELSE Cardinality(h[some(s)]) + g[s \ {some(s)}]]
           sum == CHOOSE g : IsSum(g)
           cnt == [s \in SUBSET S |-> Cardinality(Pieces(h, s))]
<1>1. Units(h, S) = sum[S]
  BY DEF Units, MapThenSumSet, MapThenFoldSet
<1>2. ASSUME NEW s \in SUBSET S, s # {}
      PROVE  /\ some(s) \in s /\ s \ {some(s)} \in SUBSET S
             /\ cnt[s] = Cardinality(h[some(s)]) + cnt[s \ {some(s)}]
  <2>1. PICK x \in s : x = some(s)
    BY <1>2
  <2>2. IsFiniteSet(s) /\ \A k \in s : IsFiniteSet(h[k])
    BY FS_Subset
  <2>3. Cardinality(Pieces(h, s)) = Cardinality(h[x]) + Cardinality(Pieces(h, s \ {x}))
    BY <2>2, PiecesAdd
  <2> QED
    BY <2>1, <2>3
<1>3. cnt[{}] = 0
  BY PiecesOfNone
<1>4. IsSum(cnt)
  BY <1>2, <1>3
<1>5. IsSum(sum)
  BY <1>4
<1> HIDE DEF sum, cnt
<1>6. \A s \in SUBSET S : sum[s] = cnt[s]
  <2> DEFINE Wrong == {s \in SUBSET S : sum[s] # cnt[s]}
  <2> SUFFICES ASSUME Wrong # {} PROVE FALSE
    OBVIOUS
  <2>1. Wrong \subseteq SUBSET S /\ FiniteSubsetsOf(S) = SUBSET S
    BY FS_FiniteSubsetsOfFinite
  <2>2. PICK s \in Wrong : \A t \in Wrong : ~ (<<t, s>> \in StrictSubsetOrdering(S))
    <3> HIDE DEF Wrong
    <3> QED BY <2>1, FS_StrictSubsetOrderingWellFounded, WFMin
  <2>3. s # {}
    BY <1>3, <1>5
  <2>4. PICK x \in s : x = some(s)
    BY <2>3
  <2>5. s \ {x} \notin Wrong /\ s \ {x} \in SUBSET S
    BY <2>2 DEF StrictSubsetOrdering
  <2>6. sum[s] = Cardinality(h[x]) + sum[s \ {x}]
    BY <1>5, <2>3, <2>4
  <2>7. cnt[s] = Cardinality(h[x]) + cnt[s \ {x}]
    BY <1>2, <2>3, <2>4
  <2> QED
    BY <2>5, <2>6, <2>7
<1> QED
  BY <1>1, <1>6 DEF cnt

(* Sizes as FrameCache and LruCache have them.                             *)
LEMMA SizesAre ==
  ASSUME NEW h, NEW s, IsFiniteSet(DOMAIN h), \A k \in DOMAIN h : IsFiniteSet(h[k])
  PROVE  /\ get_size(h) = Cardinality(Pieces(h, DOMAIN h))
         /\ Range(s) \subseteq DOMAIN h => Lru!Weight(h, s) = Cardinality(Pieces(h, Range(s)))
<1>1. get_size(h) = Units(h, DOMAIN h)
  BY DEF get_size, Units
<1>2. Lru!Weight(h, s) = Units(h, Range(s))
  BY DEF Lru!Weight, Units, Lru!MapThenSumSet, Lru!MapThenFoldSet, MapThenSumSet, MapThenFoldSet,
         Lru!Cardinality, Cardinality, Lru!Range, Range
<1> QED
  BY <1>1, <1>2, UnitsAre, FS_Subset

-----------------------------------------------------------------------------
(***************************************************************************)
(* Evicting.                                                               *)
(***************************************************************************)
First(s, n) == SubSeq(s, 1, n)

LEMMA FirstOnes ==
  ASSUME NEW s \in Seq(Key), IsInjective(s), NEW n \in 0..Len(s)
  PROVE  /\ First(s, n) \in Seq(Key) /\ Len(First(s, n)) = n /\ IsInjective(First(s, n))
         /\ \A i \in 1..n : First(s, n)[i] = s[i]
         /\ Range(First(s, n)) = {s[i] : i \in 1..n}
<1> DEFINE t == First(s, n)
<1>1. Len(s) \in Nat /\ n \in Nat /\ \A i \in 1..n : s[i] \in Key /\ i \in 1..Len(s)
  OBVIOUS
<1>2. 1 \in Int /\ n \in Int
  BY <1>1
<1>3. /\ t \in Seq(Key) /\ Len(t) = IF 1 <= n THEN n - 1 + 1 ELSE 0
      /\ \A i \in 1..(n - 1 + 1) : t[i] = s[1 + i - 1]
  BY <1>1, <1>2, SubSeqProperties DEF First
<1> HIDE DEF t
<1>4. Len(t) = n /\ DOMAIN t = 1..n
  BY <1>1, <1>3
<1>5. \A i \in 1..n : t[i] = s[i]
  <2> SUFFICES ASSUME NEW i \in 1..n PROVE t[i] = s[i]
    OBVIOUS
  <2>1. i \in 1..(n - 1 + 1) /\ 1 + i - 1 = i
    BY <1>1
  <2> QED
    BY <1>3, <2>1
<1>6. IsInjective(t)
  BY <1>1, <1>4, <1>5 DEF IsInjective
<1>7. Range(t) = {s[i] : i \in 1..n}
  BY <1>4, <1>5 DEF Range
<1> QED
  BY <1>3, <1>4, <1>5, <1>6, <1>7 DEF t

LEMMA FirstOfFirst ==
  ASSUME NEW s \in Seq(Key), IsInjective(s), NEW n \in 1..Len(s)
  PROVE  /\ SubSeq(First(s, n), 1, Len(First(s, n)) - 1) = First(s, n - 1)
         /\ Range(First(s, n - 1)) = Range(First(s, n)) \ {s[n]}
<1> DEFINE t == First(s, n)
           u == SubSeq(t, 1, Len(t) - 1)
           v == First(s, n - 1)
<1>1. n \in 0..Len(s) /\ n - 1 \in 0..Len(s) /\ n \in Nat /\ n # 0
  OBVIOUS
<1>2. t \in Seq(Key) /\ Len(t) = n /\ IsInjective(t) /\ \A i \in 1..n : t[i] = s[i]
  BY <1>1, FirstOnes
<1>3. v \in Seq(Key) /\ Len(v) = n - 1 /\ \A i \in 1..(n - 1) : v[i] = s[i]
  BY <1>1, FirstOnes
<1> HIDE DEF t, v
<1>4. /\ u \in Seq(Key) /\ Len(u) = n - 1 /\ \A i \in 1..(n - 1) : u[i] = t[i]
      /\ Range(u) = Range(t) \ {t[n]}
  BY <1>1, <1>2, WithoutLast
<1> HIDE DEF u
<1>5. u = v
  <2>1. \A i \in 1..(n - 1) : u[i] = v[i]
    BY <1>1, <1>2, <1>3, <1>4
  <2> QED
    BY <1>3, <1>4, <2>1
<1>6. t[n] = s[n]
  BY <1>1, <1>2
<1> QED
  BY <1>4, <1>5, <1>6 DEF t, u, v

(* The cache when all but the first n videos of s have been evicted.       *)
Kept(s, h, n, b) ==
  /\ Lists(First(s, n), b.list)
  /\ b = [data |-> [k \in Range(First(s, n)) |-> h[k]], list |-> b.list]

Size(s, h, n) == Cardinality(Pieces(h, Range(First(s, n))))

Turn(b) == IF Overflows(b) THEN EvictTail(b) ELSE b

(* The cache that an eviction starts with.                                 *)
Cached(s, h) ==
  /\ s \in Seq(Key) /\ IsInjective(s)
  /\ \A k \in Range(s) : IsFiniteSet(h[k])

LEMMA KeptSize ==
  ASSUME NEW s, NEW h, Cached(s, h), NEW n \in 0..Len(s), NEW b, Kept(s, h, n, b)
  PROVE  get_size(b.data) = Size(s, h, n)
<1> DEFINE t == First(s, n)
           d == [k \in Range(t) |-> h[k]]
<1>1. Range(t) \subseteq Range(s) /\ Range(t) \subseteq Key
  <2>1. s \in Seq(Key) /\ IsInjective(s) /\ \A i \in 1..n : i \in 1..Len(s)
    BY DEF Cached
  <2>2. t \in Seq(Key) /\ Range(t) = {s[i] : i \in 1..n}
    BY <2>1, FirstOnes
  <2> QED
    BY <2>1, <2>2, RangeOf
<1>2. IsFiniteSet(Range(t))
  BY <1>1, FS_Subset, FrameCacheAssumption
<1> HIDE DEF t
<1>3. DOMAIN d = Range(t) /\ \A k \in Range(t) : d[k] = h[k] /\ IsFiniteSet(h[k])
  BY <1>1 DEF Cached
<1>4. b.data = d
  BY DEF Kept, t
<1> HIDE DEF d
<1>5. get_size(d) = Cardinality(Pieces(d, Range(t)))
  BY <1>2, <1>3, SizesAre
<1>6. Pieces(d, Range(t)) = Pieces(h, Range(t))
  BY <1>3 DEF Pieces
<1> QED
  BY <1>4, <1>5, <1>6 DEF Size, t

LEMMA TurnKeeps ==
  ASSUME NEW s, NEW h, Cached(s, h), NEW n \in 0..Len(s), NEW b, Kept(s, h, n, b)
  PROVE  /\ Size(s, h, n) <= LIMIT => Turn(b) = b
         /\ Size(s, h, n) > LIMIT => n # 0 /\ Kept(s, h, n - 1, Turn(b))
<1> DEFINE t == First(s, n)
<1>1. s \in Seq(Key) /\ IsInjective(s) /\ n \in Nat /\ Len(s) \in Nat
  BY DEF Cached
<1>2. /\ t \in Seq(Key) /\ Len(t) = n /\ IsInjective(t) /\ \A i \in 1..n : t[i] = s[i]
      /\ Range(t) = {s[i] : i \in 1..n}
  BY <1>1, FirstOnes
<1>3. Size(s, h, n) \in Nat
  <2>1. Range(t) \subseteq Range(s) /\ Range(t) \subseteq Key
    BY <1>1, <1>2, RangeOf
  <2> QED
    BY <2>1, FS_Subset, PiecesFinite, FrameCacheAssumption DEF Size, Cached
<1>4. n = 0 => Size(s, h, n) = 0
  <2>1. n = 0 => Range(t) = {}
    <3> HIDE DEF t
    <3> QED BY <1>2
  <2> QED
    BY <2>1, PiecesOfNone DEF Size
<1>5. b.list.tail = IF n = 0 THEN NIL ELSE s[n]
  <2>1. n # 0 => n \in 1..n
    BY <1>1
  <2> QED
    BY <1>2, <2>1 DEF Kept, Lists, Links
<1>6. n # 0 => s[n] \in Key /\ s[n] # NIL
  BY <1>1, FrameCacheAssumption
<1>7. Overflows(b) <=> Size(s, h, n) > LIMIT /\ n # 0
  BY <1>5, <1>6, KeptSize DEF Overflows
<1>8. ASSUME Size(s, h, n) > LIMIT PROVE n # 0 /\ Kept(s, h, n - 1, Turn(b))
  <2>1. n # 0 /\ n \in 1..Len(s)
    BY <1>1, <1>3, <1>4, <1>8, FrameCacheAssumption
  <2>2. Turn(b) = EvictTail(b)
    BY <1>7, <1>8, <2>1 DEF Turn
  <2>3. Lists(First(s, n - 1), DropTail(b.list))
    <3>1. Lists(t, b.list)
      BY DEF Kept
    <3> HIDE DEF t
    <3>2. Lists(SubSeq(t, 1, Len(t) - 1), DropTail(b.list))
      BY <1>2, <2>1, <3>1, DropTailLists
    <3> QED
      BY <1>1, <2>1, <3>2, FirstOfFirst DEF t
  <2>4. Range(First(s, n - 1)) = Range(t) \ {s[n]}
    BY <1>1, <2>1, FirstOfFirst
  <2>5. b.data = [k \in Range(t) |-> h[k]]
    BY DEF Kept
  <2>6. EvictTail(b) = [data |-> [k \in Range(First(s, n - 1)) |-> h[k]], list |-> DropTail(b.list)]
    BY <1>5, <2>1, <2>4, <2>5 DEF EvictTail
  <2> QED
    BY <2>1, <2>2, <2>3, <2>6 DEF Kept
<1>9. ASSUME Size(s, h, n) <= LIMIT PROVE Turn(b) = b
  BY <1>3, <1>7, <1>9, FrameCacheAssumption DEF Turn
<1> QED
  BY <1>8, <1>9

(* The turns of the loop, one after the other.                             *)
Turns(c, n, g) ==
  g = [i \in 0..n |-> IF i = 0 THEN c ELSE Turn(g[i - 1])]

LEMMA TurnsExist == ASSUME NEW c, NEW N \in Nat PROVE \E g : Turns(c, N, g)
<1> DEFINE Wrong == {n \in Nat : ~ \E g : Turns(c, n, g)}
<1> SUFFICES ASSUME Wrong # {} PROVE FALSE
  OBVIOUS
<1>1. Wrong \subseteq Nat
  OBVIOUS
<1>2. PICK n \in Wrong : \A m \in Wrong : ~ (<<m, n>> \in OpToRel(<, Nat))
  <2> HIDE DEF Wrong
  <2> QED BY <1>1, NatLessThanWellFounded, WFMin
<1>3. n \in Nat
  OBVIOUS
<1>4. n # 0
  <2> SUFFICES ASSUME n = 0 PROVE FALSE
    OBVIOUS
  <2> DEFINE g == [i \in 0..0 |-> c]
  <2>1. \A i \in 0..0 : i = 0
    OBVIOUS
  <2>2. Turns(c, 0, g)
    BY <2>1 DEF Turns
  <2> HIDE DEF g
  <2> QED
    BY <2>2
<1>5. n - 1 \in Nat /\ n - 1 \notin Wrong
  <2>1. n - 1 < n /\ n - 1 \in Nat
    BY <1>3, <1>4
  <2> HIDE DEF Wrong
  <2> QED
    BY <1>2, <1>3, <2>1 DEF OpToRel
<1>6. PICK g : Turns(c, n - 1, g)
  BY <1>5
<1> DEFINE f == [i \in 0..n |-> IF i = n THEN Turn(g[n - 1]) ELSE g[i]]
<1>7. \A i \in 0..(n - 1) : g[i] = IF i = 0 THEN c ELSE Turn(g[i - 1])
  BY <1>6 DEF Turns
<1>8. ASSUME NEW i \in 0..n PROVE f[i] = IF i = 0 THEN c ELSE Turn(f[i - 1])
  <2>1. CASE i = n
    <3>1. f[i] = Turn(g[n - 1]) /\ i - 1 \in 0..n /\ i - 1 # n /\ i # 0
      BY <1>3, <1>4, <2>1
    <3>2. f[i - 1] = g[n - 1]
      BY <2>1, <3>1
    <3> HIDE DEF f
    <3> QED
      BY <3>1, <3>2
  <2>2. CASE i # n
    <3>1. i \in 0..(n - 1) /\ f[i] = g[i]
      BY <1>3, <2>2
    <3>2. i # 0 => i - 1 \in 0..n /\ i - 1 # n
      BY <1>3, <2>2
    <3>3. i # 0 => f[i - 1] = g[i - 1]
      BY <3>2
    <3> HIDE DEF f
    <3> QED
      BY <1>7, <3>1, <3>3
  <2> QED
    BY <2>1, <2>2
<1>9. Turns(c, n, f)
  BY <1>8 DEF Turns
<1> HIDE DEF f
<1> QED
  BY <1>9

(* As many of the first videos are left as fit, and no fewer.              *)
LEMMA OverflowKeeps ==
  ASSUME NEW s, NEW h, Cached(s, h), NEW c, Kept(s, h, Len(s), c)
  PROVE  \E n \in 0..Len(s) :
           /\ Kept(s, h, n, check_cache_overflow(c))
           /\ Size(s, h, n) <= LIMIT
           /\ \A m \in (n + 1)..Len(s) : Size(s, h, m) > LIMIT
<1> DEFINE N == Cardinality(Key)
           after == CHOOSE g : Turns(c, N, g)
           Good(i, n) == /\ Kept(s, h, n, after[i])
                         /\ Size(s, h, n) <= LIMIT \/ n + i <= Len(s)
                         /\ \A m \in (n + 1)..Len(s) : Size(s, h, m) > LIMIT
<1>1. /\ s \in Seq(Key) /\ IsInjective(s) /\ Len(s) \in Nat
      /\ \A i \in 1..Len(s) : s[i] \in Key
  BY DEF Cached
<1>2. N \in Nat /\ Len(s) <= N
  <2>1. s \in Injection(1..Len(s), Key)
    BY <1>1 DEF IsInjective, Injection
  <2>2. PICK l : l = Len(s)
    OBVIOUS
  <2>3. 1 \in Int /\ l \in Int /\ l \in Nat
    BY <1>1, <2>2
  <2>4. Cardinality(1..l) = l
    BY <2>3, FS_Interval
  <2> QED
    BY <2>1, <2>2, <2>4, FS_Injection, FS_CardinalityType, FrameCacheAssumption
<1>3. check_cache_overflow(c) = after[N]
  BY DEF check_cache_overflow, Turns, Turn
<1> HIDE DEF N, after
<1>4. Turns(c, N, after)
  BY <1>2, TurnsExist DEF after
<1>5. after[0] = c
  <2>1. 0 \in 0..N
    BY <1>2
  <2> QED
    BY <1>4, <2>1 DEF Turns
<1>6. \A i \in 1..N : after[i] = Turn(after[i - 1])
  BY <1>2, <1>4 DEF Turns
<1>7. \A i \in 0..N : \E n \in 0..Len(s) : Good(i, n)
  <2> DEFINE Wrong == {i \in 0..N : ~ \E n \in 0..Len(s) : Good(i, n)}
  <2> SUFFICES ASSUME Wrong # {} PROVE FALSE
    OBVIOUS
  <2>1. Wrong \subseteq Nat
    BY <1>2
  <2>2. PICK i \in Wrong : \A j \in Wrong : ~ (<<j, i>> \in OpToRel(<, Nat))
    <3> HIDE DEF Wrong
    <3> QED BY <2>1, NatLessThanWellFounded, WFMin
  <2>3. i # 0
    <3>1. \A m \in (Len(s) + 1)..Len(s) : FALSE
      BY <1>1
    <3>2. Len(s) + 0 <= Len(s) /\ Len(s) \in 0..Len(s)
      BY <1>1
    <3>3. Good(0, Len(s))
      BY <1>5, <3>1, <3>2
    <3> QED
      BY <3>2, <3>3
  <2>4. i \in Nat /\ i \in 1..N /\ i - 1 \in 0..N /\ i - 1 \in Nat /\ i - 1 < i
    BY <1>2, <2>3
  <2>5. i - 1 \notin Wrong
    <3> HIDE DEF Wrong
    <3> QED
      BY <2>2, <2>4 DEF OpToRel
  <2> HIDE DEF Good
  <2>6. PICK n \in 0..Len(s) : Good(i - 1, n)
    BY <2>4, <2>5
  <2>7. Kept(s, h, n, after[i - 1]) /\ after[i] = Turn(after[i - 1])
    BY <1>6, <2>4, <2>6 DEF Good
  <2>8. CASE Size(s, h, n) <= LIMIT
    <3>1. after[i] = after[i - 1]
      BY <2>7, <2>8, TurnKeeps
    <3>2. Good(i, n)
      BY <2>6, <2>7, <2>8, <3>1 DEF Good
    <3> QED
      BY <3>2
  <2>9. CASE ~ (Size(s, h, n) <= LIMIT)
    <3>1. Size(s, h, n) \in Nat
      <4>1. Range(First(s, n)) \subseteq Range(s) /\ Range(s) \subseteq Key
        <5>1. \A k \in 1..n : k \in 1..Len(s)
          BY <1>1
        <5>2. Range(First(s, n)) = {s[k] : k \in 1..n}
          BY <1>1, FirstOnes
        <5>3. \A k \in 1..Len(s) : s[k] \in Range(s) /\ Range(s) \subseteq Key
          BY <1>1, RangeOf
        <5>4. Range(s) \subseteq Key
          BY <1>1, RangeOf
        <5> QED
          BY <5>1, <5>2, <5>3, <5>4
      <4> QED
        BY <4>1, FS_Subset, PiecesFinite, FrameCacheAssumption DEF Size, Cached
    <3>2. Size(s, h, n) > LIMIT
      BY <2>9, <3>1, FrameCacheAssumption
    <3>3. n # 0 /\ Kept(s, h, n - 1, after[i])
      BY <2>7, <3>2, TurnKeeps
    <3>4. PICK m \in 0..Len(s) : m = n - 1 /\ n = m + 1
      BY <1>1, <3>3
    <3>5. m + i <= Len(s)
      BY <1>1, <2>4, <2>6, <2>9, <3>4 DEF Good
    <3>6. \A j \in (m + 1)..Len(s) : j = n \/ j \in (n + 1)..Len(s)
      BY <1>1, <3>4
    <3>7. Good(i, m)
      BY <2>6, <3>2, <3>3, <3>4, <3>5, <3>6 DEF Good
    <3> QED
      BY <3>7
  <2> QED
    BY <2>8, <2>9
<1>8. PICK n \in 0..Len(s) : Good(N, n)
  BY <1>2, <1>7
<1>9. Size(s, h, n) <= LIMIT
  <2> SUFFICES ASSUME n + N <= Len(s) PROVE Size(s, h, n) <= LIMIT
    BY <1>8
  <2>1. n = 0
    BY <1>1, <1>2
  <2>2. Range(First(s, 0)) = {}
    <3>1. 0 \in 0..Len(s)
      BY <1>1
    <3> QED
      BY <1>1, <3>1, FirstOnes
  <2>3. Size(s, h, 0) = 0
    BY <2>2, PiecesOfNone DEF Size
  <2>4. 0 <= LIMIT
    BY FrameCacheAssumption
  <2> QED
    BY <2>1, <2>3, <2>4
<1> QED
  BY <1>3, <1>8, <1>9

-----------------------------------------------------------------------------
(***************************************************************************)
(* The inductive invariant.                                                *)
(***************************************************************************)
InMemory(d) ==
  /\ DOMAIN d \subseteq Key /\ d = [k \in DOMAIN d |-> d[k]]
  /\ \A k \in DOMAIN d : d[k] \subseteq Stored[k]

(* The cached videos in the order of the list.                             *)
Ordered(s) == Lists(s, list) /\ Range(s) = DOMAIN data_

CacheInv == /\ InMemory(data_) /\ get_size(data_) <= LIMIT
            /\ \E s : Ordered(s)

-----------------------------------------------------------------------------
(***************************************************************************)
(* Loading.                                                                *)
(***************************************************************************)
With(k, got) == [x \in DOMAIN data_ \cup {k} |-> IF x = k THEN got ELSE data_[x]]

(* k was loaded as got, and the first n videos were left.                  *)
Loaded(s, k, got, n) ==
  LET q == <<k>> \o s
      h == With(k, got)
  IN  /\ q \in Seq(Key) /\ IsInjective(q) /\ q[1] = k /\ Len(q) = Len(s) + 1
      /\ Range(q) = DOMAIN data_ \cup {k} /\ Cached(q, h)
      /\ n \in 0..Len(q)
      /\ Lists(First(q, n), list') /\ data_' = [x \in Range(First(q, n)) |-> h[x]]
      /\ Size(q, h, n) <= LIMIT /\ get_size(data_') <= LIMIT
      /\ \A m \in (n + 1)..Len(q) : Size(q, h, m) > LIMIT

LEMMA LoadIs ==
  ASSUME InMemory(data_), NEW s, Ordered(s), NEW k \in Key, k \notin DOMAIN data_, Load(k)
  PROVE  \E got \in SUBSET Stored[k], n \in 0..(Len(s) + 1) : Loaded(s, k, got, n)
<1>0. PICK got \in SUBSET Stored[k] : \E c :
        /\ c = check_cache_overflow([data |-> With(k, got), list |-> PushFront(list, k)])
        /\ data_' = c.data /\ list' = c.list
  BY DEF Load, With
<1>1. PICK c :
        /\ c = check_cache_overflow([data |-> With(k, got), list |-> PushFront(list, k)])
        /\ data_' = c.data /\ list' = c.list
  BY <1>0
<1> DEFINE q == <<k>> \o s
           h == With(k, got)
           b == [data |-> h, list |-> PushFront(list, k)]
<1>2. s \in Seq(Key) /\ Len(s) \in Nat /\ k \in Key \ Range(s)
  BY DEF Ordered, Lists, Links
<1>3. q \in Seq(Key) /\ q[1] = k /\ Len(q) = Len(s) + 1 /\ Range(q) = DOMAIN data_ \cup {k}
  BY <1>2, InFront DEF Ordered
<1>4. Lists(q, PushFront(list, k))
  <2>1. Links(s, list) /\ UnlinkedBut(s, list, k)
    BY DEF Ordered, Lists, Unlinked, UnlinkedBut
  <2> QED
    BY <1>2, <2>1, PushFrontLists
<1> HIDE DEF q
<1>5. IsInjective(q)
  BY <1>4 DEF Lists, Links
<1>6. DOMAIN h = Range(q) /\ h = [x \in Range(q) |-> h[x]]
  BY <1>3 DEF With
<1>7. \A x \in Range(q) : IsFiniteSet(h[x])
  <2> SUFFICES ASSUME NEW x \in Range(q) PROVE IsFiniteSet(h[x])
    OBVIOUS
  <2>1. x \in Key /\ h[x] \subseteq Stored[x]
    BY <1>3 DEF With, InMemory
  <2> QED
    BY <2>1, FS_Subset, FrameCacheAssumption
<1> HIDE DEF h
<1>8. Cached(q, h)
  BY <1>3, <1>5, <1>7 DEF Cached
<1>9. First(q, Len(q)) = q
  <2>1. Len(q) \in 0..Len(q) /\ Len(q) \in Nat
    BY <1>2, <1>3
  <2>2. /\ First(q, Len(q)) \in Seq(Key) /\ Len(First(q, Len(q))) = Len(q)
        /\ \A i \in 1..Len(q) : First(q, Len(q))[i] = q[i]
    BY <1>3, <1>5, <2>1, FirstOnes
  <2> QED
    BY <1>3, <2>2
<1>10. Kept(q, h, Len(q), b)
  BY <1>4, <1>6, <1>9 DEF Kept
<1> HIDE DEF b
<1>11. PICK n \in 0..Len(q) : /\ Kept(q, h, n, check_cache_overflow(b))
                              /\ Size(q, h, n) <= LIMIT
                              /\ \A m \in (n + 1)..Len(q) : Size(q, h, m) > LIMIT
  BY <1>8, <1>10, OverflowKeeps
<1>12. c = check_cache_overflow(b)
  BY <1>1 DEF b, h
<1>13. Lists(First(q, n), list') /\ data_' = [x \in Range(First(q, n)) |-> h[x]]
  BY <1>1, <1>11, <1>12 DEF Kept
<1>14. get_size(data_') <= LIMIT
  <2>1. get_size(c.data) = Size(q, h, n)
    BY <1>8, <1>11, <1>12, KeptSize
  <2> QED
    BY <1>1, <1>11, <2>1
<1>15. Loaded(s, k, got, n)
  BY <1>3, <1>5, <1>8, <1>11, <1>13, <1>14 DEF Loaded, q, h
<1>16. n \in 0..(Len(s) + 1)
  BY <1>3
<1> QED
  BY <1>15, <1>16

LEMMA LoadKeeps ==
  ASSUME CacheInv, NEW k \in Key, k \notin DOMAIN data_, Load(k)
  PROVE  CacheInv'
<1>1. PICK s : Ordered(s)
  BY DEF CacheInv
<1>2. PICK got \in SUBSET Stored[k], n \in 0..(Len(s) + 1) : Loaded(s, k, got, n)
  BY <1>1, LoadIs DEF CacheInv
<1> DEFINE q == <<k>> \o s
           t == First(q, n)
           h == With(k, got)
<1>3. /\ q \in Seq(Key) /\ IsInjective(q) /\ Range(q) = DOMAIN data_ \cup {k} /\ n \in 0..Len(q)
      /\ Lists(t, list') /\ data_' = [x \in Range(t) |-> h[x]] /\ get_size(data_') <= LIMIT
  BY <1>2 DEF Loaded
<1>4. Range(t) \subseteq Range(q)
  <2> HIDE DEF q
  <2>1. Range(t) = {q[i] : i \in 1..n} /\ Len(q) \in Nat
    BY <1>3, FirstOnes
  <2>2. \A i \in 1..n : i \in 1..Len(q)
    BY <1>3, <2>1
  <2> QED
    BY <1>3, <2>1, <2>2, RangeOf
<1>5. \A x \in Range(t) : x \in Key /\ h[x] \subseteq Stored[x]
  BY <1>3, <1>4 DEF With, CacheInv, InMemory
<1> HIDE DEF t, h
<1>6. InMemory(data_)'
  BY <1>3, <1>5 DEF InMemory
<1>7. Ordered(t)'
  BY <1>3 DEF Ordered
<1> QED
  BY <1>3, <1>6, <1>7 DEF CacheInv

LEMMA InitCache == Init => CacheInv /\ Ordered(<< >>)
<1> SUFFICES ASSUME Init PROVE CacheInv /\ Ordered(<< >>)
  OBVIOUS
<1>1. DOMAIN << >> = {} /\ << >> \in Seq(Key) /\ Len(<< >>) = 0
  OBVIOUS
<1>2. data_ = << >> /\ DOMAIN data_ = {}
  BY <1>1 DEF Init
<1>3. Range(<< >>) = {} /\ IsInjective(<< >>)
  BY <1>1 DEF Range, IsInjective
<1>4. Lists(<< >>, list)
  BY <1>1, <1>3 DEF Init, Lists, Links, Unlinked, ListType
<1>5. InMemory(data_)
  BY <1>2 DEF InMemory
<1>6. get_size(data_) <= LIMIT
  <2>1. IsFiniteSet({}) /\ IsFiniteSet(DOMAIN data_)
    BY <1>2, FS_EmptySet
  <2>2. get_size(data_) = 0
    BY <1>2, <2>1, SizesAre, PiecesOfNone
  <2> QED
    BY <2>2, FrameCacheAssumption
<1> QED
  BY <1>2, <1>3, <1>4, <1>5, <1>6 DEF CacheInv, Ordered

LEMMA MoveKeeps ==
  ASSUME CacheInv, NEW k \in DOMAIN data_, list' = MoveToFront(list, k), data_' = data_
  PROVE  CacheInv'
<1>1. PICK s : Ordered(s)
  BY DEF CacheInv
<1> DEFINE t == Lru!ToFront(k, s)
<1>2. Lists(t, list') /\ Range(t) = DOMAIN data_'
  BY <1>1, MoveToFrontLists DEF Ordered
<1> HIDE DEF t
<1>3. Ordered(t)'
  BY <1>2 DEF Ordered
<1> QED
  BY <1>3 DEF CacheInv, InMemory

LEMMA NextCache == CacheInv /\ [Next]_vars => CacheInv'
<1> SUFFICES ASSUME CacheInv, [Next]_vars PROVE CacheInv'
  OBVIOUS
<1>1. CASE UNCHANGED <<data_, list>>
  BY <1>1 DEF CacheInv, InMemory, Ordered
<1>2. ASSUME NEW k \in Key, NEW f, Lookup(k, f) PROVE CacheInv'
  BY <1>2, MoveKeeps, LoadKeeps DEF Lookup
<1>3. ASSUME NEW k \in Key, LookupSize(k) PROVE CacheInv'
  BY <1>1, <1>3, LoadKeeps DEF LookupSize
<1>4. ASSUME NEW k \in Key, LoadFails(k) PROVE CacheInv'
  BY <1>1, <1>4 DEF LoadFails
<1> QED
  BY <1>1, <1>2, <1>3, <1>4 DEF Next, my_handler, vars

(* Whatever is loaded, used and evicted, the cached videos are in the      *)
(* linked list in one order and fit the limit.                             *)
THEOREM CacheInvariant == Spec => []CacheInv
  BY InitCache, NextCache, PTL DEF Spec

(* Between requests the cache keeps to its limit, whatever the sizes of    *)
(* the videos and however many are loaded, used and evicted.               *)
THEOREM TypeCorrect == Spec => []TypeOK
<1>1. CacheInv => TypeOK
  BY DEF CacheInv, InMemory, Ordered, Lists, Links, ListType, TypeOK
<1> QED
  BY <1>1, CacheInvariant, PTL

(* The list holds every cached video once, and is the same from both ends. *)
THEOREM ListIsWhole == Spec => []ListOK
<1>1. CacheInv => ListOK
  <2> SUFFICES ASSUME CacheInv PROVE ListOK
    OBVIOUS
  <2>1. PICK s : Ordered(s)
    BY DEF CacheInv
  <2>2. Order = s /\ Walk(list.tail, list.prev) = Reverse(s)
    BY <2>1, WalksAre DEF Ordered, Order
  <2> QED
    BY <2>1, <2>2 DEF ListOK, Ordered, Lists, Links
<1> QED
  BY <1>1, CacheInvariant, PTL

-----------------------------------------------------------------------------
(***************************************************************************)
(* When every video fits the limit.  Without this a request can be left    *)
(* without an answer: the run MCFrameCacheBig shows one.                   *)
(***************************************************************************)
AllFit == \A k \in Key : Cardinality(Stored[k]) <= LIMIT

(* What has just been loaded is still there after the evictions.           *)
LEMMA LoadedStays ==
  ASSUME AllFit, NEW s, Len(s) \in Nat, NEW k \in Key, NEW got \in SUBSET Stored[k],
         NEW n \in 0..(Len(s) + 1), Loaded(s, k, got, n)
  PROVE  n # 0 /\ k \in DOMAIN data_'
<1> DEFINE q == <<k>> \o s
           h == With(k, got)
<1>1. /\ q \in Seq(Key) /\ IsInjective(q) /\ q[1] = k /\ Len(q) = Len(s) + 1 /\ Cached(q, h)
      /\ n \in 0..Len(q) /\ data_' = [x \in Range(First(q, n)) |-> h[x]]
      /\ \A m \in (n + 1)..Len(q) : Size(q, h, m) > LIMIT
  BY DEF Loaded
<1>2. h[k] = got /\ IsFiniteSet(got) /\ Cardinality(got) <= LIMIT /\ Cardinality(got) \in Nat
  <2>1. IsFiniteSet(Stored[k]) /\ Cardinality(Stored[k]) <= LIMIT
    BY FrameCacheAssumption DEF AllFit
  <2>2. /\ IsFiniteSet(got) /\ Cardinality(got) <= Cardinality(Stored[k])
        /\ Cardinality(got) \in Nat /\ Cardinality(Stored[k]) \in Nat
    BY <2>1, FS_Subset, FS_CardinalityType
  <2>3. Cardinality(got) <= LIMIT
    BY <2>1, <2>2, FrameCacheAssumption
  <2> QED
    BY <2>2, <2>3 DEF With
<1> HIDE DEF q, h
<1>3. n # 0
  <2> SUFFICES ASSUME n = 0 PROVE FALSE
    OBVIOUS
  <2>1. 1 \in (n + 1)..Len(q) /\ 1 \in 0..Len(q)
    BY <1>1
  <2>2. Range(First(q, 1)) = {k}
    <3>1. Range(First(q, 1)) = {q[i] : i \in 1..1}
      BY <1>1, <2>1, FirstOnes
    <3>2. \A i \in 1..1 : i = 1
      OBVIOUS
    <3>3. 1 \in 1..1
      OBVIOUS
    <3> QED
      BY <1>1, <3>1, <3>2, <3>3
  <2>3. Cardinality(Pieces(h, {k})) = Cardinality(h[k]) + Cardinality(Pieces(h, {k} \ {k}))
    <3>1. IsFiniteSet({k}) /\ k \in {k} /\ \A x \in {k} : IsFiniteSet(h[x])
      BY <1>2, FS_Singleton
    <3> QED
      BY <3>1, PiecesAdd
  <2>4. {k} \ {k} = {}
    OBVIOUS
  <2>5. Size(q, h, 1) = Cardinality(got)
    <3>1. Cardinality(Pieces(h, {k} \ {k})) = 0
      BY <2>4, PiecesOfNone
    <3>2. Cardinality(Pieces(h, {k})) = Cardinality(got)
      BY <1>2, <2>3, <3>1
    <3> QED
      BY <2>2, <3>2 DEF Size
  <2> QED
    BY <1>1, <1>2, <2>1, <2>5, FrameCacheAssumption
<1>4. k \in Range(First(q, n))
  <2>1. Range(First(q, n)) = {q[i] : i \in 1..n}
    BY <1>1, FirstOnes
  <2>2. 1 \in 1..n
    BY <1>3
  <2> QED
    BY <1>1, <2>1, <2>2
<1> QED
  BY <1>1, <1>3, <1>4

LEMMA Answered ==
  ASSUME NEW k, NEW n
  PROVE  Found(k, n) # UNDEFINED /\ NotFound(k) # UNDEFINED /\ << >> # UNDEFINED
<1>1. Found(k, n).code = 200 /\ NotFound(k).code = 404 /\ UNDEFINED.code = 0
  BY DEF Found, NotFound, UNDEFINED
<1>2. DOMAIN UNDEFINED # {} /\ DOMAIN << >> = {}
  BY DEF UNDEFINED
<1> QED
  BY <1>1, <1>2

LEMMA LoadAnswers ==
  ASSUME AllFit, CacheInv, NEW k \in Key, k \notin DOMAIN data_, Load(k)
  PROVE  k \in DOMAIN data_'
<1>1. PICK s : Ordered(s)
  BY DEF CacheInv
<1>2. PICK got \in SUBSET Stored[k], n \in 0..(Len(s) + 1) : Loaded(s, k, got, n)
  BY <1>1, LoadIs DEF CacheInv
<1>3. Len(s) \in Nat
  BY <1>1 DEF Ordered, Lists, Links
<1> QED
  BY <1>2, <1>3, LoadedStays

(* No request for a listed video is left without an answer: what the       *)
(* handler has just loaded has not been evicted when it uses it.           *)
THEOREM EveryRequestAnswered == ASSUME AllFit PROVE Spec => []AlwaysAnswered
<1>1. Init => AlwaysAnswered
  BY Answered DEF Init, AlwaysAnswered, Alive
<1>2. CacheInv /\ AlwaysAnswered /\ [Next]_vars => AlwaysAnswered'
  <2> SUFFICES ASSUME CacheInv, AlwaysAnswered, [Next]_vars PROVE AlwaysAnswered'
    OBVIOUS
  <2>1. CASE UNCHANGED vars
    BY <2>1 DEF vars, AlwaysAnswered, Alive
  <2>2. ASSUME NEW k \in Key, NEW f, Lookup(k, f) PROVE AlwaysAnswered'
    <3>1. PICK items : reply' = ImageOf(items, k, f)
      BY <2>2, LoadAnswers DEF Lookup
    <3> QED
      BY <3>1, Answered DEF ImageOf, AlwaysAnswered, Alive
  <2>3. ASSUME NEW k \in Key, LookupSize(k) PROVE AlwaysAnswered'
    <3>1. PICK items : reply' = PageOf(items, k)
      BY <2>3, LoadAnswers DEF LookupSize
    <3> QED
      BY <3>1, Answered DEF PageOf, AlwaysAnswered, Alive
  <2>4. ASSUME NEW k \in Key, LoadFails(k) PROVE AlwaysAnswered'
    BY <2>4, Answered DEF LoadFails, AlwaysAnswered, Alive
  <2> QED
    BY <2>1, <2>2, <2>3, <2>4 DEF Next, my_handler
<1> QED
  BY <1>1, <1>2, CacheInvariant, PTL DEF Spec

-----------------------------------------------------------------------------
(***************************************************************************)
(* The abstract cache.                                                     *)
(***************************************************************************)

(* The order of use is the one order of the list.                          *)
LEMMA OrderIs ==
  ASSUME NEW s
  PROVE  /\ Ordered(s) => Order = s /\ Lru!Range(Order) = DOMAIN data_
         /\ Lists(s, list') => Order' = s
<1>1. Lists(s, list) => Walk(list.head, list.next) = s
  BY WalksAre
<1>2. Lists(s, list') => Walk(list'.head, list'.next) = s
  BY WalksAre
<1> QED
  BY <1>1, <1>2 DEF Order, Ordered, Lru!Range, Range

LEMMA LoadFetches ==
  ASSUME CacheInv, NEW k \in Key, k \notin DOMAIN data_, Load(k)
  PROVE  /\ \E got \in SUBSET Stored[k] : Lru!Fetch(k, got)
         /\ Lru!Range(Order') = DOMAIN data_'
<1>1. PICK s : Ordered(s)
  BY DEF CacheInv
<1>2. PICK got \in SUBSET Stored[k], n \in 0..(Len(s) + 1) : Loaded(s, k, got, n)
  BY <1>1, LoadIs DEF CacheInv
<1>3. Order = s /\ Lru!Range(s) = DOMAIN data_ /\ s \in Seq(Key) /\ IsInjective(s) /\ k \notin Range(s)
  BY <1>1, OrderIs DEF Ordered, Lists, Links, Lru!Range, Range
<1> DEFINE q == <<k>> \o s
           h == With(k, got)
<1>4. Lru!ToFront(k, s) = q
  BY <1>3, ToFrontIs
<1>5. h = [x \in Lru!Range(Order) \cup {k} |-> IF x = k THEN got ELSE data_[x]]
  BY <1>3 DEF With
<1>6. /\ q \in Seq(Key) /\ IsInjective(q) /\ Cached(q, h) /\ n \in 0..Len(q)
      /\ Range(q) = DOMAIN data_ \cup {k}
      /\ Lists(First(q, n), list') /\ data_' = [x \in Range(First(q, n)) |-> h[x]]
      /\ Size(q, h, n) <= LIMIT
      /\ \A m \in (n + 1)..Len(q) : Size(q, h, m) > LIMIT
  BY <1>2 DEF Loaded
<1>7. DOMAIN h = Range(q)
  BY <1>6 DEF With
<1> HIDE DEF q, h
<1>8. ASSUME NEW m \in 0..Len(q)
      PROVE  Lru!Weight(h, SubSeq(q, 1, m)) = Size(q, h, m) /\ Size(q, h, m) \in Nat
  <2>1. Range(First(q, m)) \subseteq Range(q) /\ Range(q) \subseteq Key
    <3>1. Range(First(q, m)) = {q[i] : i \in 1..m} /\ Len(q) \in Nat
      BY <1>6, FirstOnes
    <3>2. \A i \in 1..m : i \in 1..Len(q)
      BY <3>1
    <3> QED
      BY <1>6, <3>1, <3>2, RangeOf
  <2>2. IsFiniteSet(DOMAIN h) /\ \A x \in DOMAIN h : IsFiniteSet(h[x])
    BY <1>6, <1>7, <2>1, FS_Subset, FrameCacheAssumption DEF Cached
  <2>3. Lru!Weight(h, First(q, m)) = Cardinality(Pieces(h, Range(First(q, m))))
    BY <1>7, <2>1, <2>2, SizesAre
  <2>4. Cardinality(Pieces(h, Range(First(q, m)))) \in Nat
    BY <1>7, <2>1, <2>2, PiecesFinite
  <2> QED
    BY <2>3, <2>4 DEF Size, First
<1>9. Lru!Fitting(h, q) = First(q, n)
  <2> DEFINE I == {i \in 0..Len(q) : Lru!Weight(h, SubSeq(q, 1, i)) <= LIMIT}
  <2>1. n \in I /\ Len(q) \in Nat
    BY <1>6, <1>8
  <2>2. ASSUME NEW m \in I PROVE m <= n
    <3>1. m \in 0..Len(q) /\ Size(q, h, m) <= LIMIT /\ Size(q, h, m) \in Nat
      BY <1>8
    <3>2. m \notin (n + 1)..Len(q)
      BY <1>6, <3>1, FrameCacheAssumption
    <3> QED
      BY <2>1, <3>1, <3>2
  <2>3. I \subseteq Nat
    BY <2>1
  <2>4. Lru!Fitting(h, q) = SubSeq(q, 1, Lru!Max(I))
    BY DEF Lru!Fitting
  <2> HIDE DEF I
  <2>5. Lru!Max(I) = n
    <3>1. Lru!Max(I) = CHOOSE x \in I : \A y \in I : x >= y
      BY DEF Lru!Max
    <3>2. \A y \in I : n >= y
      BY <2>1, <2>2, <2>3
    <3>3. \A x \in I : (\A y \in I : x >= y) => x = n
      BY <2>1, <2>2, <2>3
    <3> QED
      BY <2>1, <3>1, <3>2, <3>3
  <2> QED
    BY <2>4, <2>5 DEF First
<1>10. Order' = First(q, n)
  BY <1>6, OrderIs
<1>11. Lru!Range(Order') = Range(First(q, n)) /\ DOMAIN data_' = Range(First(q, n))
  BY <1>6, <1>10 DEF Lru!Range, Range
<1>12. Order' = Lru!Fitting(h, Lru!ToFront(k, Order)) /\ data_' = [x \in Lru!Range(Order') |-> h[x]]
  BY <1>3, <1>4, <1>6, <1>9, <1>10, <1>11
<1>13. Lru!Fetch(k, got)
  BY <1>5, <1>12 DEF Lru!Fetch, h
<1> QED
  BY <1>11, <1>13

(* What the cached videos are, in which order and with which answer, is    *)
(* what a least recently used cache gives for the same requests.           *)
THEOREM ImplementsTheCache == ASSUME AllFit PROVE Spec => ImplementsLruCache
<1>1. Init => Lru!Init
  <2> SUFFICES ASSUME Init PROVE Lru!Init
    OBVIOUS
  <2>1. Order = << >>
    BY InitCache, OrderIs
  <2> QED
    BY <2>1 DEF Init, Lru!Init
<1>2. CacheInv /\ [Next]_vars => [Lru!Next]_(Lru!lvars)
  <2> SUFFICES ASSUME CacheInv, [Next]_vars PROVE [Lru!Next]_(Lru!lvars)
    OBVIOUS
  <2>1. PICK s : Ordered(s) /\ Order = s /\ Lru!Range(Order) = DOMAIN data_
    BY OrderIs DEF CacheInv
  <2>2. list' = list => Order' = Order
    BY DEF Order
  <2>3. CASE UNCHANGED vars
    BY <2>2, <2>3 DEF vars, Lru!lvars
  <2>4. \A items, k, f : Lru!ImageOf(items, k, f) = ImageOf(items, k, f)
                         /\ Lru!PageOf(items, k) = PageOf(items, k) /\ Lru!NotFound(k) = NotFound(k)
    BY DEF Lru!ImageOf, ImageOf, Lru!PageOf, PageOf, Lru!Found, Found, Lru!NotFound, NotFound,
           Lru!Cardinality, Cardinality
  <2>5. ASSUME NEW k \in Key, NEW f \in UNION Range(Stored), Lookup(k, f) PROVE Lru!Next
    <3>1. CASE k \in DOMAIN data_
      <4>1. list' = MoveToFront(list, k) /\ reply' = ImageOf(data_, k, f) /\ data_' = data_
        BY <2>5, <3>1 DEF Lookup
      <4>2. Lists(Lru!ToFront(k, s), list')
        BY <2>1, <3>1, <4>1, MoveToFrontLists DEF Ordered
      <4>3. Order' = Lru!ToFront(k, Order)
        BY <2>1, <4>2, OrderIs
      <4>4. Lru!Image(k, f)
        BY <2>1, <2>4, <3>1, <4>1, <4>3 DEF Lru!Image
      <4> QED
        BY <2>5, <4>4 DEF Lru!Next, Lru!Range, Range
    <3>2. CASE k \notin DOMAIN data_
      <4>1. Load(k) /\ k \in DOMAIN data_' /\ reply' = ImageOf(data_', k, f)
        BY <2>5, <3>2, LoadAnswers DEF Lookup
      <4>2. (\E got \in SUBSET Stored[k] : Lru!Fetch(k, got)) /\ k \in Lru!Range(Order')
        BY <3>2, <4>1, LoadFetches
      <4>3. Lru!Image(k, f)
        BY <2>1, <2>4, <3>2, <4>1, <4>2 DEF Lru!Image
      <4> QED
        BY <2>5, <4>3 DEF Lru!Next, Lru!Range, Range
    <3> QED
      BY <3>1, <3>2
  <2>6. ASSUME NEW k \in Key, LookupSize(k) PROVE Lru!Next
    <3>1. CASE k \in DOMAIN data_
      <4>1. Lru!Page(k)
        BY <2>1, <2>2, <2>4, <2>6, <3>1 DEF LookupSize, Lru!Page
      <4> QED
        BY <4>1 DEF Lru!Next
    <3>2. CASE k \notin DOMAIN data_
      <4>1. Load(k) /\ k \in DOMAIN data_' /\ reply' = PageOf(data_', k)
        BY <2>6, <3>2, LoadAnswers DEF LookupSize
      <4>2. (\E got \in SUBSET Stored[k] : Lru!Fetch(k, got)) /\ k \in Lru!Range(Order')
        BY <3>2, <4>1, LoadFetches
      <4>3. Lru!Page(k)
        BY <2>1, <2>4, <3>2, <4>1, <4>2 DEF Lru!Page
      <4> QED
        BY <4>3 DEF Lru!Next
    <3> QED
      BY <3>1, <3>2
  <2>7. ASSUME NEW k \in Key, LoadFails(k) PROVE Lru!Next
    <3>1. Lru!Missing(k)
      BY <2>1, <2>2, <2>4, <2>7 DEF LoadFails, Lru!Missing
    <3> QED
      BY <3>1 DEF Lru!Next
  <2> QED
    BY <2>3, <2>5, <2>6, <2>7 DEF Next, my_handler
<1> QED
  BY <1>1, <1>2, CacheInvariant, PTL DEF Spec, ImplementsLruCache, Lru!Spec
=============================================================================
