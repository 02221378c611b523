------------------------ MODULE CheckCandidateProofs ------------------------
(***************************************************************************)
(* What the marks of check_candidate are worth, for lists of any length    *)
(* over any hashes and any way to count differing bits in which a hash     *)
(* does not differ from itself.                                            *)
(***************************************************************************)
EXTENDS CheckCandidate, FiniteSetTheorems, WellFoundedInduction, TLAPS

-----------------------------------------------------------------------------
(***************************************************************************)
(* check_range                                                             *)
(***************************************************************************)
Lists ==
  /\ bf \in Seq(Frame)
  /\ cf \in Seq(Frame)

LEMMA DiffType ==
  ASSUME Lists, NEW x \in DOMAIN cf, NEW y \in DOMAIN bf
  PROVE  D(x, y) \in 0..64
<1>1. cf[x] \in Frame /\ bf[y] \in Frame
  BY DEF Lists
<1> QED BY <1>1, CandidateAssumption DEF CandidateAssumption, D

(* A distance within reach leads to a frame of either list.                *)
LEMMA ReachInside ==
  ASSUME Lists, NEW x \in DOMAIN cf, NEW y \in DOMAIN bf, NEW j \in Reach(x, y)
  PROVE  j \in Int /\ j # 0 /\ x + j \in DOMAIN cf /\ y + j \in DOMAIN bf
<1>1. Len(cf) \in Nat
  BY DEF Lists
<1>2. j \in Int /\ j # 0
  BY <1>1 DEF Reach
<1>3. Near(x, y, j)
  <2>1. CASE j > 0
    BY <1>2, <2>1 DEF Reach
  <2>2. CASE j < 0
    BY <1>2, <2>2 DEF Reach
  <2> QED BY <1>2, <2>1, <2>2
<1> QED BY <1>2, <1>3 DEF Near

(* What check_range does to the marks of the stored video: they stay in    *)
(* their type, none is raised, each new one is a difference from some      *)
(* frame, and the one it starts at is left alone.                          *)
LEMMA LowerBaseMarks ==
  ASSUME Lists, NEW x \in DOMAIN cf, NEW y \in DOMAIN bf,
         NEW bm \in [DOMAIN bf -> Mark]
  PROVE  /\ LowerBase(bm, x, y) \in [DOMAIN bf -> Mark]
         /\ LowerBase(bm, x, y)[y] = bm[y]
         /\ \A q \in DOMAIN bf :
              /\ LowerBase(bm, x, y)[q] <= bm[q]
              /\ \/ LowerBase(bm, x, y)[q] = bm[q]
                 \/ \E p \in DOMAIN cf : D(p, q) = LowerBase(bm, x, y)[q]
<1> DEFINE lowered == LowerBase(bm, x, y)
<1>0. DOMAIN bf \subseteq Int /\ DOMAIN cf \subseteq Int
  BY DEF Lists
<1>1. lowered = [q \in DOMAIN bf |->
                   IF q - y \in Reach(x, y) /\ D(x + (q - y), q) < bm[q]
                   THEN D(x + (q - y), q) ELSE bm[q]]
  BY DEF LowerBase
<1>2. ASSUME NEW q \in DOMAIN bf
      PROVE  /\ lowered[q] \in Mark
             /\ lowered[q] <= bm[q]
             /\ \/ lowered[q] = bm[q]
                \/ \E p \in DOMAIN cf : D(p, q) = lowered[q]
  <2>1. bm[q] \in Mark
    OBVIOUS
  <2>2. CASE q - y \in Reach(x, y) /\ D(x + (q - y), q) < bm[q]
    <3>1. x + (q - y) \in DOMAIN cf
      BY <2>2, ReachInside
    <3>2. D(x + (q - y), q) \in 0..64
      BY <3>1, DiffType
    <3>3. lowered[q] = D(x + (q - y), q)
      BY <1>1, <2>2
    <3> HIDE DEF lowered
    <3> QED BY <2>1, <2>2, <3>1, <3>2, <3>3 DEF Mark, NoMatch
  <2>3. CASE ~ (q - y \in Reach(x, y) /\ D(x + (q - y), q) < bm[q])
    <3>1. lowered[q] = bm[q]
      BY <1>1, <2>3
    <3> HIDE DEF lowered
    <3> QED BY <2>1, <3>1 DEF Mark, NoMatch
  <2> QED BY <2>2, <2>3
<1>3. lowered[y] = bm[y]
  <2>1. y - y = 0
    BY <1>0
  <2>2. 0 \notin Reach(x, y)
    BY DEF Reach
  <2> QED BY <1>1, <2>1, <2>2
<1>4. lowered \in [DOMAIN bf -> Mark]
  BY <1>1, <1>2
<1> QED BY <1>2, <1>3, <1>4

(* The same for the marks of the query.                                    *)
LEMMA LowerCurrentMarks ==
  ASSUME Lists, NEW x \in DOMAIN cf, NEW y \in DOMAIN bf,
         NEW cm \in [DOMAIN cf -> Mark]
  PROVE  /\ LowerCurrent(cm, x, y) \in [DOMAIN cf -> Mark]
         /\ LowerCurrent(cm, x, y)[x] = cm[x]
         /\ \A p \in DOMAIN cf :
              /\ LowerCurrent(cm, x, y)[p] <= cm[p]
              /\ \/ LowerCurrent(cm, x, y)[p] = cm[p]
                 \/ \E q \in DOMAIN bf : D(p, q) = LowerCurrent(cm, x, y)[p]
<1> DEFINE lowered == LowerCurrent(cm, x, y)
<1>0. DOMAIN bf \subseteq Int /\ DOMAIN cf \subseteq Int
  BY DEF Lists
<1>1. lowered = [p \in DOMAIN cf |->
                   IF p - x \in Reach(x, y) /\ D(p, y + (p - x)) < cm[p]
                   THEN D(p, y + (p - x)) ELSE cm[p]]
  BY DEF LowerCurrent
<1>2. ASSUME NEW p \in DOMAIN cf
      PROVE  /\ lowered[p] \in Mark
             /\ lowered[p] <= cm[p]
             /\ \/ lowered[p] = cm[p]
                \/ \E q \in DOMAIN bf : D(p, q) = lowered[p]
  <2>1. cm[p] \in Mark
    OBVIOUS
  <2>2. CASE p - x \in Reach(x, y) /\ D(p, y + (p - x)) < cm[p]
    <3>1. y + (p - x) \in DOMAIN bf
      BY <2>2, ReachInside
    <3>2. D(p, y + (p - x)) \in 0..64
      BY <3>1, DiffType
    <3>3. lowered[p] = D(p, y + (p - x))
      BY <1>1, <2>2
    <3> HIDE DEF lowered
    <3> QED BY <2>1, <2>2, <3>1, <3>2, <3>3 DEF Mark, NoMatch
  <2>3. CASE ~ (p - x \in Reach(x, y) /\ D(p, y + (p - x)) < cm[p])
    <3>1. lowered[p] = cm[p]
      BY <1>1, <2>3
    <3> HIDE DEF lowered
    <3> QED BY <2>1, <3>1 DEF Mark, NoMatch
  <2> QED BY <2>2, <2>3
<1>3. lowered[x] = cm[x]
  <2>1. x - x = 0
    BY <1>0
  <2>2. 0 \notin Reach(x, y)
    BY DEF Reach
  <2> QED BY <1>1, <2>1, <2>2
<1>4. lowered \in [DOMAIN cf -> Mark]
  BY <1>1, <1>2
<1> QED BY <1>2, <1>3, <1>4

-----------------------------------------------------------------------------
(***************************************************************************)
(* Types, and what one step does to the marks                              *)
(***************************************************************************)
LEMMA ListsFromType ==
  ASSUME TypeOK
  PROVE  /\ Lists
         /\ Len(cf) \in Nat /\ DOMAIN cf = 1..Len(cf)
         /\ Len(bf) \in Nat /\ DOMAIN bf = 1..Len(bf)
<1>1. bf \in Seq(Frame) /\ cf \in Seq(Frame)
  BY CandidateAssumption DEF CandidateAssumption, TypeOK
<1> QED BY <1>1 DEF Lists

LEMMA SameHash ==
  ASSUME TypeOK, NEW x \in DOMAIN cf, NEW y \in DOMAIN bf, bf[y] = cf[x]
  PROVE  D(x, y) = 0
<1>1. cf[x] \in Frame
  BY ListsFromType DEF Lists
<1> QED BY <1>1, CandidateAssumption DEF CandidateAssumption, D

(* What a step may do to the marks of the query, in terms of its own.      *)
MarksStep ==
  /\ bf' = bf /\ cf' = cf
  /\ bmark' \in [DOMAIN bf -> Mark]
  /\ cmark' \in [DOMAIN cf -> Mark]
  /\ \A x \in DOMAIN cf :
       /\ cmark'[x] <= cmark[x]
       /\ cmark'[x] = cmark[x] \/ \E y \in DOMAIN bf : D(x, y) = cmark'[x]
  /\ \A y \in DOMAIN bf :
       bmark'[y] = bmark[y] \/ \E x \in DOMAIN cf : D(x, y) = bmark'[y]

LEMMA Unmoved ==
  ASSUME TypeOK, UNCHANGED <<bf, cf, bmark, cmark>>
  PROVE  MarksStep
<1>1. bmark \in [DOMAIN bf -> Mark] /\ cmark \in [DOMAIN cf -> Mark]
  BY DEF TypeOK
<1>2. \A x \in DOMAIN cf : cmark[x] <= cmark[x]
  BY <1>1 DEF Mark, NoMatch
<1> QED BY <1>1, <1>2 DEF MarksStep

(* Setting two marks to the difference of a pair and looking around it is  *)
(* such a step if it does not raise the mark of the query.                 *)
LEMMA Matched ==
  ASSUME TypeOK, NEW x \in DOMAIN cf, NEW y \in DOMAIN bf,
         D(x, y) <= cmark[x],
         NEW bm \in [DOMAIN bf -> Mark], bm[y] = D(x, y),
         \A q \in DOMAIN bf : q # y => bm[q] = bmark[q],
         NEW cm \in [DOMAIN cf -> Mark], cm[x] = D(x, y),
         \A p \in DOMAIN cf : p # x => cm[p] = cmark[p],
         bf' = bf, bmark' = LowerBase(bm, x, y),
         cf' = cf, cmark' = LowerCurrent(cm, x, y)
  PROVE  MarksStep
<1>1. Lists
  BY ListsFromType
<1>2. \A m \in Mark : m \in Int
  BY DEF Mark, NoMatch
<1>3. bmark \in [DOMAIN bf -> Mark] /\ cmark \in [DOMAIN cf -> Mark]
  BY DEF TypeOK
<1>4. /\ bmark' \in [DOMAIN bf -> Mark]
      /\ \A q \in DOMAIN bf :
           bmark'[q] = bm[q] \/ \E p \in DOMAIN cf : D(p, q) = bmark'[q]
  BY <1>1, LowerBaseMarks
<1>5. /\ cmark' \in [DOMAIN cf -> Mark]
      /\ \A p \in DOMAIN cf :
           /\ cmark'[p] <= cm[p]
           /\ cmark'[p] = cm[p] \/ \E q \in DOMAIN bf : D(p, q) = cmark'[p]
  BY <1>1, LowerCurrentMarks
<1>6. \A q \in DOMAIN bf :
        bmark'[q] = bmark[q] \/ \E p \in DOMAIN cf : D(p, q) = bmark'[q]
  BY <1>4
<1>7. ASSUME NEW p \in DOMAIN cf
      PROVE  /\ cmark'[p] <= cmark[p]
             /\ cmark'[p] = cmark[p] \/ \E q \in DOMAIN bf : D(p, q) = cmark'[p]
  <2>1. cmark[p] \in Int /\ cm[p] \in Int /\ cmark'[p] \in Int
    BY <1>2, <1>3, <1>5
  <2>2. cmark'[p] <= cm[p]
    BY <1>5
  <2>3. cm[p] <= cmark[p]
    BY <2>1
  <2>4. cmark'[p] <= cmark[p]
    BY <2>1, <2>2, <2>3
  <2>5. cmark'[p] = cmark[p] \/ \E q \in DOMAIN bf : D(p, q) = cmark'[p]
    BY <1>5
  <2> QED BY <2>4, <2>5
<1> QED BY <1>4, <1>5, <1>6, <1>7 DEF MarksStep

(* FoundMDF overwrites the mark of the query frame; it does not raise it,  *)
(* as the mark is a difference from some frame and the new one the least.  *)
LEMMA StepMarks ==
  ASSUME TypeOK, MarksGenuine, [Next]_vars
  PROVE  MarksStep
<1>1. Lists /\ DOMAIN cf = 1..Len(cf) /\ Len(cf) \in Nat
  BY ListsFromType
<1>2. bmark \in [DOMAIN bf -> Mark] /\ cmark \in [DOMAIN cf -> Mark]
  BY DEF TypeOK
<1>3. i \in 1..(Len(cf) + 1)
  BY DEF TypeOK
<1>0. 0 \in Mark /\ \A m \in Mark : 0 <= m /\ m <= m
  BY DEF Mark, NoMatch
<1>4. CASE FoundCMF
  <2>1. i \in DOMAIN cf
    BY <1>1, <1>3, <1>4 DEF FoundCMF, AtFrame
  <2>2. PICK y \in DOMAIN bf : bf[y] = cf[i]
    BY <1>4 DEF FoundCMF, Positions
  <2>3. D(i, y) = 0
    BY <2>1, <2>2, SameHash
  <2>4. cmark' = [cmark EXCEPT ![i] = 0] /\ UNCHANGED <<bf, cf, bmark>>
    BY <1>4 DEF FoundCMF
  <2>5. cmark' \in [DOMAIN cf -> Mark]
    BY <1>0, <1>2, <2>4
  <2>6. \A x \in DOMAIN cf : /\ cmark'[x] <= cmark[x]
                             /\ cmark'[x] = cmark[x] \/ \E z \in DOMAIN bf : D(x, z) = cmark'[x]
    BY <1>0, <1>2, <2>2, <2>3, <2>4
  <2> QED BY <1>2, <2>4, <2>5, <2>6 DEF MarksStep
<1>5. ASSUME NEW y \in left, VisitCMF(y)
      PROVE  MarksStep
  <2>1. i \in DOMAIN cf /\ y \in DOMAIN bf /\ bf[y] = cf[i]
    BY <1>1, <1>3, <1>5 DEF VisitCMF, TypeOK, Positions
  <2>2. D(i, y) = 0
    BY <2>1, SameHash
  <2>3. cmark[i] \in Mark /\ D(i, y) <= cmark[i]
    BY <1>2, <2>1, <2>2 DEF Mark, NoMatch
  <2>4. UNCHANGED <<bf, cf>>
    BY <1>5 DEF VisitCMF
  <2>5. CASE bmark[y] < GOOD_BITS
    <3>1. bmark' = [bmark EXCEPT ![y] = 0] /\ UNCHANGED cmark
      BY <1>5, <2>5 DEF VisitCMF
    <3>2. bmark' \in [DOMAIN bf -> Mark]
      BY <1>0, <1>2, <3>1
    <3>3. \A q \in DOMAIN bf :
            bmark'[q] = bmark[q] \/ \E x \in DOMAIN cf : D(x, q) = bmark'[q]
      BY <1>2, <2>1, <2>2, <3>1
    <3>4. \A x \in DOMAIN cf : cmark'[x] <= cmark[x]
      BY <1>0, <1>2, <3>1
    <3> QED BY <1>2, <2>4, <3>1, <3>2, <3>3, <3>4 DEF MarksStep
  <2>6. CASE ~ (bmark[y] < GOOD_BITS)
    <3> DEFINE bm == [bmark EXCEPT ![y] = 0]
    <3>1. bmark' = LowerBase(bm, i, y) /\ cmark' = LowerCurrent(cmark, i, y)
      BY <1>5, <2>6 DEF VisitCMF
    <3>2. bm \in [DOMAIN bf -> Mark] /\ bm[y] = 0
          /\ \A q \in DOMAIN bf : q # y => bm[q] = bmark[q]
      BY <1>0, <1>2, <2>1
    <3> HIDE DEF bm
    <3>3. /\ bmark' \in [DOMAIN bf -> Mark]
          /\ \A q \in DOMAIN bf :
               bmark'[q] = bm[q] \/ \E p \in DOMAIN cf : D(p, q) = bmark'[q]
      BY <1>1, <2>1, <3>1, <3>2, LowerBaseMarks
    <3>4. /\ cmark' \in [DOMAIN cf -> Mark]
          /\ \A p \in DOMAIN cf :
               /\ cmark'[p] <= cmark[p]
               /\ cmark'[p] = cmark[p] \/ \E q \in DOMAIN bf : D(p, q) = cmark'[p]
      BY <1>1, <1>2, <2>1, <3>1, LowerCurrentMarks
    <3>5. \A q \in DOMAIN bf :
            bmark'[q] = bmark[q] \/ \E x \in DOMAIN cf : D(x, q) = bmark'[q]
      BY <2>1, <2>2, <3>2, <3>3
    <3> QED BY <2>4, <3>3, <3>4, <3>5 DEF MarksStep
  <2> QED BY <2>5, <2>6
<1>6. CASE FoundMDF
  <2>1. i \in DOMAIN cf
    BY <1>1, <1>3, <1>6 DEF FoundMDF, AtUnknownFrame, AtFrame
  <2>2. PICK y \in DOMAIN bf :
          /\ min_diff_bits(y)
          /\ bmark' = LowerBase([bmark EXCEPT ![y] = D(i, y)], i, y)
          /\ cmark' = LowerCurrent([cmark EXCEPT ![i] = D(i, y)], i, y)
    BY <1>6 DEF FoundMDF
  <2>3. D(i, y) <= cmark[i]
    <3>1. CASE cmark[i] = NoMatch
      <4>1. D(i, y) \in 0..64
        BY <1>1, <2>1, DiffType
      <4> QED BY <3>1, <4>1 DEF NoMatch
    <3>2. CASE cmark[i] # NoMatch
      <4>1. PICK z \in DOMAIN bf : D(i, z) = cmark[i]
        BY <1>2, <2>1, <3>2 DEF MarksGenuine
      <4> QED BY <2>2, <4>1 DEF min_diff_bits
    <3> QED BY <3>1, <3>2
  <2>4. UNCHANGED <<bf, cf>>
    BY <1>6 DEF FoundMDF
  <2> DEFINE bm == [bmark EXCEPT ![y] = D(i, y)]
             cm == [cmark EXCEPT ![i] = D(i, y)]
  <2>5. D(i, y) \in Mark
    BY <1>1, <2>1, DiffType DEF Mark
  <2>6. /\ bm \in [DOMAIN bf -> Mark] /\ bm[y] = D(i, y)
        /\ \A q \in DOMAIN bf : q # y => bm[q] = bmark[q]
    BY <1>2, <2>5
  <2>7. /\ cm \in [DOMAIN cf -> Mark] /\ cm[i] = D(i, y)
        /\ \A p \in DOMAIN cf : p # i => cm[p] = cmark[p]
    BY <1>2, <2>1, <2>5
  <2>8. bmark' = LowerBase(bm, i, y) /\ cmark' = LowerCurrent(cm, i, y)
    BY <2>2
  <2> HIDE DEF bm, cm
  <2> QED BY <2>1, <2>3, <2>4, <2>6, <2>7, <2>8, Matched
<1>7. CASE SkipMatched
  BY <1>7, Unmoved DEF SkipMatched
<1>8. CASE SkipMDF
  BY <1>8, Unmoved DEF SkipMDF
<1>9. CASE NoMDF
  BY <1>9, Unmoved DEF NoMDF
<1>10. CASE Return
  BY <1>10, Unmoved DEF Return
<1>11. CASE UNCHANGED vars
  BY <1>11, Unmoved DEF vars
<1> QED
  BY <1>4, <1>5, <1>6, <1>7, <1>8, <1>9, <1>10, <1>11 DEF Next

-----------------------------------------------------------------------------
(***************************************************************************)
(* Types and genuine marks, which need each other: that marks stay in      *)
(* their type is shown with StepMarks, which looks at what a mark is.      *)
(***************************************************************************)
LEMMA InitTypes == Init => TypeOK /\ MarksGenuine
<1> SUFFICES ASSUME Init PROVE TypeOK /\ MarksGenuine
  OBVIOUS
<1>1. bf \in Seq(Frame) /\ cf \in Seq(Frame)
  BY CandidateAssumption DEF CandidateAssumption, Init
<1>2. TypeOK
  BY <1>1 DEF TypeOK, Init, Mark, NoMatch
<1>3. MarksGenuine
  BY DEF MarksGenuine, Init
<1> QED BY <1>2, <1>3

LEMMA NextTypes == TypeOK /\ MarksGenuine /\ [Next]_vars => TypeOK' /\ MarksGenuine'
<1> SUFFICES ASSUME TypeOK, MarksGenuine, [Next]_vars
             PROVE  TypeOK' /\ MarksGenuine'
  OBVIOUS
<1>1. MarksStep
  BY StepMarks
<1>2. bmark \in [DOMAIN bf -> Mark] /\ cmark \in [DOMAIN cf -> Mark]
  BY DEF TypeOK
<1>3. MarksGenuine'
  <2>1. \A x \in DOMAIN cf :
          cmark'[x] = NoMatch \/ \E y \in DOMAIN bf : D(x, y) = cmark'[x]
    BY <1>1 DEF MarksStep, MarksGenuine, TypeOK
  <2>2. \A y \in DOMAIN bf :
          bmark'[y] = NoMatch \/ \E x \in DOMAIN cf : D(x, y) = bmark'[y]
    BY <1>1 DEF MarksStep, MarksGenuine, TypeOK
  <2> QED BY <1>1, <2>1, <2>2 DEF MarksGenuine, MarksStep, D
<1>4. /\ bf' \in BaseList /\ cf' \in CurrentList
      /\ bmark' \in [DOMAIN bf' -> Mark] /\ cmark' \in [DOMAIN cf' -> Mark]
      /\ skip_itvl' = skip_itvl
  BY <1>1 DEF MarksStep, TypeOK, skip_itvl
<1>5. /\ i' \in 1..(Len(cf') + 1)
      /\ skipped' \in Nat /\ (skipped' > 0 => skipped' < skip_itvl')
      /\ left' \subseteq DOMAIN bf'
      /\ pc' \in {"scan", "range", "done"}
      /\ pc' = "range" => i' <= Len(cf') /\ left' # {} /\ left' \subseteq Positions'
  <2>0. bf' = bf /\ cf' = cf /\ Len(cf) \in Nat
    BY <1>1, ListsFromType DEF MarksStep
  <2>1. CASE SkipMatched
    BY <1>4, <2>0, <2>1 DEF SkipMatched, AtFrame, TypeOK
  <2>2. CASE FoundCMF
    BY <1>4, <2>0, <2>2 DEF FoundCMF, AtFrame, TypeOK, Positions
  <2>3. ASSUME NEW y \in left, VisitCMF(y)
        PROVE  <1>5!1 /\ <1>5!2 /\ <1>5!3 /\ <1>5!4 /\ <1>5!5
    BY <1>4, <2>0, <2>3 DEF VisitCMF, TypeOK, Positions
  <2>4. CASE SkipMDF
    BY <1>4, <2>0, <2>4 DEF SkipMDF, AtUnknownFrame, AtFrame, TypeOK
  <2>5. CASE NoMDF
    BY <1>4, <2>0, <2>5 DEF NoMDF, AtUnknownFrame, AtFrame, TypeOK
  <2>6. CASE FoundMDF
    BY <1>4, <2>0, <2>6 DEF FoundMDF, AtUnknownFrame, AtFrame, TypeOK
  <2>7. CASE Return
    BY <1>4, <2>0, <2>7 DEF Return, TypeOK
  <2>8. CASE UNCHANGED vars
    BY <1>4, <2>0, <2>8 DEF vars, TypeOK, Positions
  <2> QED BY <2>1, <2>2, <2>3, <2>4, <2>5, <2>6, <2>7, <2>8 DEF Next
<1> QED BY <1>3, <1>4, <1>5 DEF TypeOK

(* Types of the scoring loop, for lists of any length.                     *)
THEOREM TypeCorrect == Spec => []TypeOK
BY InitTypes, NextTypes, PTL DEF Spec

(* Every mark is a difference from some frame of the other list.           *)
THEOREM MarksAreGenuine == Spec => []MarksGenuine
BY InitTypes, NextTypes, PTL DEF Spec

(* No step makes the match of a query frame worse.                         *)
THEOREM MarksOnlyImprove == Spec => CmarkNeverRaised
<1>1. TypeOK /\ MarksGenuine /\ [Next]_vars
        => [\A x \in DOMAIN cmark : cmark'[x] <= cmark[x]]_vars
  BY StepMarks DEF MarksStep, TypeOK
<1> QED BY <1>1, InitTypes, NextTypes, PTL DEF Spec, CmarkNeverRaised

-----------------------------------------------------------------------------
(***************************************************************************)
(* What the loop has done for the frames it has passed                     *)
(***************************************************************************)
InBase(x) == \E y \in DOMAIN bf : bf[y] = cf[x]

Passed(x) == x < i \/ (x = i /\ pc = "range")

ExactInv ==
  /\ \A x \in DOMAIN cf : Passed(x) /\ InBase(x) => cmark[x] < GOOD_BITS
  /\ pc = "done" => i > Len(cf)

CountInv ==
  /\ IsCandidate(bf, cf)
  /\ pc # "range" /\ Marked(cmark) # {} => Marked(bmark) # {}

LEMMA InitPassed == Init => ExactInv /\ CountInv
<1> SUFFICES ASSUME Init PROVE ExactInv /\ CountInv
  OBVIOUS
<1>1. cf \in Seq(Frame)
  BY CandidateAssumption DEF CandidateAssumption, Init
<1>2. ExactInv
  BY <1>1 DEF ExactInv, Init, Passed
<1>3. CountInv
  BY DEF CountInv, Init, Marked
<1> QED BY <1>2, <1>3

(* A frame the loop passes is either well matched or not in the stored     *)
(* video; later steps do not raise its mark.                               *)
LEMMA NextExact ==
  ASSUME TypeOK, MarksGenuine, ExactInv, [Next]_vars
  PROVE  ExactInv'
<1>0. MarksStep
  BY StepMarks
<1>1. DOMAIN cf = 1..Len(cf) /\ Len(cf) \in Nat /\ i \in Int
  BY ListsFromType DEF TypeOK
<1>2. /\ bf' = bf /\ cf' = cf
      /\ \A x \in DOMAIN cf : cmark[x] < GOOD_BITS => cmark'[x] < GOOD_BITS
  <2>1. \A m \in Mark : m \in Int
    BY DEF Mark, NoMatch
  <2> QED BY <1>0, <2>1 DEF MarksStep, TypeOK, GOOD_BITS
<1>3. \A x \in DOMAIN cf : InBase(x)' <=> InBase(x)
  BY <1>2 DEF InBase
<1>4. ASSUME \A x \in DOMAIN cf : Passed(x)' =>
               Passed(x) \/ ~ InBase(x) \/ cmark'[x] < GOOD_BITS,
             pc' = "done" => i' > Len(cf)
      PROVE  ExactInv'
  BY <1>2, <1>3, <1>4 DEF ExactInv
<1>5. CASE SkipMatched
  <2>1. cmark'[i] < GOOD_BITS
    BY <1>5 DEF SkipMatched
  <2> QED BY <1>1, <1>4, <1>5, <2>1 DEF SkipMatched, AtFrame, Passed
<1>6. CASE FoundCMF
  <2>1. i \in DOMAIN cf
    BY <1>1, <1>6 DEF FoundCMF, AtFrame, TypeOK
  <2>2. cmark'[i] = 0
    BY <1>6, <2>1 DEF FoundCMF, TypeOK
  <2> QED BY <1>1, <1>4, <1>6, <2>2 DEF FoundCMF, Passed, GOOD_BITS
<1>7. ASSUME NEW y \in left, VisitCMF(y)
      PROVE  ExactInv'
  BY <1>1, <1>4, <1>7 DEF VisitCMF, Passed
<1>8. CASE SkipMDF \/ NoMDF \/ FoundMDF
  <2>1. AtUnknownFrame /\ pc' = pc /\ i' = i + 1
    BY <1>8 DEF SkipMDF, NoMDF, FoundMDF
  <2>2. ~ InBase(i)
    BY <2>1 DEF AtUnknownFrame, Positions, InBase
  <2> QED BY <1>1, <1>4, <2>1, <2>2 DEF AtUnknownFrame, AtFrame, Passed
<1>9. CASE Return
  BY <1>1, <1>4, <1>9 DEF Return, Passed
<1>10. CASE UNCHANGED vars
  BY <1>1, <1>4, <1>10 DEF vars, Passed, ExactInv
<1> QED BY <1>5, <1>6, <1>7, <1>8, <1>9, <1>10 DEF Next

(* A mark of the query comes with one of the stored video, at the latest   *)
(* when the loop over equal_range has begun.                               *)
LEMMA NextCount ==
  ASSUME TypeOK, MarksGenuine, CountInv, [Next]_vars
  PROVE  CountInv'
<1>0. MarksStep /\ Lists
  BY StepMarks, ListsFromType
<1>1. IsCandidate(bf, cf)'
  BY <1>0 DEF MarksStep, CountInv, IsCandidate
<1>2. DOMAIN cf = 1..Len(cf) /\ Len(cf) \in Nat /\ i \in 1..(Len(cf) + 1)
  BY ListsFromType DEF TypeOK
<1>3. bmark \in [DOMAIN bf -> Mark]
  BY DEF TypeOK
<1>4. ASSUME NEW y \in left, VisitCMF(y)
      PROVE  Marked(bmark)' # {}
  <2>1. i \in DOMAIN cf /\ y \in DOMAIN bf
    BY <1>2, <1>4 DEF VisitCMF, TypeOK
  <2> DEFINE bm == [bmark EXCEPT ![y] = 0]
  <2>2. bm \in [DOMAIN bf -> Mark] /\ bm[y] = 0
    <3>1. 0 \in Mark
      BY DEF Mark
    <3> QED BY <1>3, <2>1, <3>1
  <2>3. bmark' = bm \/ bmark' = LowerBase(bm, i, y)
    BY <1>4 DEF VisitCMF
  <2> HIDE DEF bm
  <2>4. y \in DOMAIN bmark' /\ bmark'[y] = 0
    BY <1>0, <2>1, <2>2, <2>3, LowerBaseMarks
  <2> QED BY <2>4 DEF Marked, NoMatch
<1>5. ASSUME FoundMDF
      PROVE  Marked(bmark)' # {}
  <2>1. i \in DOMAIN cf
    BY <1>2, <1>5 DEF FoundMDF, AtUnknownFrame, AtFrame
  <2>2. PICK y \in DOMAIN bf :
          bmark' = LowerBase([bmark EXCEPT ![y] = D(i, y)], i, y)
    BY <1>5 DEF FoundMDF
  <2>3. D(i, y) \in 0..64
    BY <1>0, <2>1, DiffType
  <2> DEFINE bm == [bmark EXCEPT ![y] = D(i, y)]
  <2>4. bm \in [DOMAIN bf -> Mark] /\ bm[y] = D(i, y)
    <3>1. D(i, y) \in Mark
      BY <2>3 DEF Mark
    <3> QED BY <1>3, <3>1
  <2>5. bmark' = LowerBase(bm, i, y)
    BY <2>2
  <2> HIDE DEF bm
  <2>6. y \in DOMAIN bmark' /\ bmark'[y] = D(i, y)
    BY <1>0, <2>1, <2>4, <2>5, LowerBaseMarks
  <2>7. bmark'[y] # NoMatch
    BY <2>3, <2>6 DEF NoMatch
  <2> QED BY <2>6, <2>7 DEF Marked
<1>6. CASE FoundCMF
  BY <1>1, <1>6 DEF FoundCMF, CountInv
<1>7. CASE SkipMatched \/ SkipMDF \/ NoMDF
  BY <1>1, <1>7 DEF SkipMatched, SkipMDF, NoMDF, AtUnknownFrame, AtFrame, CountInv, Marked
<1>8. CASE Return
  BY <1>1, <1>8 DEF Return, CountInv, Marked
<1>9. CASE UNCHANGED vars
  BY <1>1, <1>9 DEF vars, CountInv, Marked
<1> QED
  BY <1>1, <1>4, <1>5, <1>6, <1>7, <1>8, <1>9 DEF Next, CountInv

PassedInv == TypeOK /\ MarksGenuine /\ ExactInv /\ CountInv

LEMMA PassedInvariant == Spec => []PassedInv
<1>1. Init => PassedInv
  BY InitTypes, InitPassed DEF PassedInv
<1>2. PassedInv /\ [Next]_vars => PassedInv'
  BY NextTypes, NextExact, NextCount DEF PassedInv
<1> QED BY <1>1, <1>2, PTL DEF Spec

(* In the end every query frame that is in the stored video is well        *)
(* matched.                                                                *)
THEOREM ExactMatchesFound == Spec => []ExactFound
<1>1. PassedInv => ExactFound
  <2> SUFFICES ASSUME PassedInv, pc = "done"
               PROVE  \A x \in DOMAIN cf :
                        (\E y \in DOMAIN bf : bf[y] = cf[x]) => cmark[x] < GOOD_BITS
    BY DEF ExactFound
  <2>1. DOMAIN cf = 1..Len(cf) /\ Len(cf) \in Nat /\ i \in Int
    BY ListsFromType DEF PassedInv, TypeOK
  <2>2. \A x \in DOMAIN cf : x < i
    BY <2>1 DEF PassedInv, ExactInv
  <2> QED BY <2>2 DEF PassedInv, ExactInv, Passed, InBase
<1> QED BY <1>1, PassedInvariant, PTL

(* Every score counts a real match on both sides.                          *)
THEOREM ScoresCountMatches == Spec => []MatchCounted
<1>1. PassedInv /\ ExactFound => MatchCounted
  <2> SUFFICES ASSUME PassedInv, ExactFound, pc = "done"
               PROVE  Marked(cmark) # {} /\ Marked(bmark) # {}
    BY DEF MatchCounted
  <2>1. PICK f : f \in Range(bf) /\ f \in Range(cf)
    BY DEF PassedInv, CountInv, IsCandidate
  <2>2. PICK x \in DOMAIN cf : cf[x] = f
    BY <2>1 DEF Range
  <2>3. \E y \in DOMAIN bf : bf[y] = cf[x]
    BY <2>1, <2>2 DEF Range
  <2>4. cmark[x] < GOOD_BITS
    BY <2>3 DEF ExactFound
  <2>5. x \in Marked(cmark)
    BY <2>4 DEF Marked, NoMatch, GOOD_BITS, PassedInv, TypeOK
  <2> QED BY <2>5 DEF PassedInv, CountInv
<1> QED BY <1>1, PassedInvariant, ExactMatchesFound, PTL

-----------------------------------------------------------------------------
(***************************************************************************)
(* A video against itself                                                  *)
(***************************************************************************)
AllZero ==
  /\ \A x \in DOMAIN cf : cmark[x] = 0
  /\ \A y \in DOMAIN bf : bmark[y] = 0

(* All marks are set while the loop is at the first frame, when it comes   *)
(* to place 1 of the stored video; until then place 1 has no mark, as no   *)
(* walk from another place gets there.                                     *)
SelfInv ==
  bf = cf =>
    \/ i = 1 /\ pc = "scan" /\ cmark[1] = NoMatch /\ bmark[1] = NoMatch
    \/ i = 1 /\ pc = "range" /\ 1 \in left /\ cmark[1] = 0 /\ bmark[1] = NoMatch
    \/ i = 1 /\ pc = "range" /\ AllZero
    \/ i > 1 /\ pc # "range" /\ AllZero

LEMMA CandidateNotEmpty ==
  ASSUME TypeOK, CountInv
  PROVE  1 \in DOMAIN cf /\ 1 \in DOMAIN bf
<1>1. PICK f : f \in Range(bf) /\ f \in Range(cf)
  BY DEF CountInv, IsCandidate
<1>2. DOMAIN cf # {} /\ DOMAIN bf # {}
  BY <1>1 DEF Range
<1> QED BY <1>2, ListsFromType

(* From place 1 on, the walk through two equal lists never ends early.     *)
LEMMA SelfWalk ==
  ASSUME TypeOK, CountInv, bf = cf
  PROVE  \A x \in DOMAIN cf : x # 1 => x - 1 \in Reach(1, 1)
<1>1. DOMAIN cf = 1..Len(cf) /\ Len(cf) \in Nat
  BY ListsFromType
<1>2. \A x \in DOMAIN cf : D(x, x) = 0
  BY SameHash
<1>3. ASSUME NEW x \in DOMAIN cf, x # 1
      PROVE  x - 1 \in Reach(1, 1)
  <2>1. \A k \in 1..(x - 1) : Near(1, 1, k)
    BY <1>1, <1>2 DEF Near, STOP_CHECK_BITS
  <2>2. \A k \in (x - 1)..-1 : Near(1, 1, k)
    BY <1>1, <1>3
  <2>3. x - 1 \in -Len(cf)..Len(cf) /\ x - 1 # 0
    BY <1>1, <1>3
  <2> QED BY <2>1, <2>2, <2>3 DEF Reach
<1> QED BY <1>3

(* Such a walk sets all marks to 0.                                        *)
LEMMA SelfVisit ==
  ASSUME TypeOK, CountInv, bf = cf,
         NEW bm \in [DOMAIN bf -> Mark], bm[1] = 0,
         NEW cm \in [DOMAIN cf -> Mark], cm[1] = 0
  PROVE  /\ \A q \in DOMAIN bf : LowerBase(bm, 1, 1)[q] = 0
         /\ \A p \in DOMAIN cf : LowerCurrent(cm, 1, 1)[p] = 0
<1>1. DOMAIN cf = 1..Len(cf) /\ Len(cf) \in Nat /\ 1 \in DOMAIN cf
  BY ListsFromType, CandidateNotEmpty
<1>2. \A x \in DOMAIN cf : D(x, x) = 0
  BY SameHash
<1>3. \A m \in Mark : m \in Int /\ m >= 0
  BY DEF Mark, NoMatch
<1>4. /\ LowerBase(bm, 1, 1)[1] = 0
      /\ LowerCurrent(cm, 1, 1)[1] = 0
  BY <1>1, ListsFromType, LowerBaseMarks, LowerCurrentMarks
<1>5. ASSUME NEW x \in DOMAIN cf, x # 1
      PROVE  LowerBase(bm, 1, 1)[x] = 0 /\ LowerCurrent(cm, 1, 1)[x] = 0
  <2>1. x - 1 \in Reach(1, 1) /\ 1 + (x - 1) = x
    BY <1>1, <1>5, SelfWalk
  <2>2. D(x, x) = 0
    BY <1>2
  <2>3. bm[x] \in Int /\ bm[x] >= 0 /\ cm[x] \in Int /\ cm[x] >= 0
    BY <1>3
  <2>4. LowerBase(bm, 1, 1)[x] = IF 0 < bm[x] THEN 0 ELSE bm[x]
    BY <2>1, <2>2 DEF LowerBase
  <2>5. LowerCurrent(cm, 1, 1)[x] = IF 0 < cm[x] THEN 0 ELSE cm[x]
    BY <2>1, <2>2 DEF LowerCurrent
  <2> QED BY <2>3, <2>4, <2>5
<1> QED BY <1>4, <1>5

LEMMA InitSelf == Init => SelfInv
<1> SUFFICES ASSUME Init PROVE SelfInv
  OBVIOUS
<1>1. TypeOK /\ CountInv
  BY InitTypes, InitPassed
<1> QED BY <1>1, CandidateNotEmpty DEF Init, SelfInv

LEMMA NextSelf ==
  ASSUME PassedInv, SelfInv, [Next]_vars
  PROVE  SelfInv'
<1>0. TypeOK /\ MarksGenuine /\ CountInv
  BY DEF PassedInv
<1>1. MarksStep
  BY <1>0, StepMarks
<1>2. /\ DOMAIN cf = 1..Len(cf) /\ Len(cf) \in Nat
      /\ 1 \in DOMAIN cf /\ 1 \in DOMAIN bf
      /\ i \in 1..(Len(cf) + 1)
  BY <1>0, ListsFromType, CandidateNotEmpty DEF TypeOK
<1>3. bmark \in [DOMAIN bf -> Mark] /\ cmark \in [DOMAIN cf -> Mark]
  BY <1>0 DEF TypeOK
<1> SUFFICES ASSUME bf = cf
             PROVE  SelfInv'
  BY <1>1 DEF SelfInv, MarksStep
<1>4. bf' = bf /\ cf' = cf
  BY <1>1 DEF MarksStep
(* No frame is without its hash in the stored video.                       *)
<1>5. ~ AtUnknownFrame
  BY <1>2 DEF AtUnknownFrame, AtFrame, Positions
<1>6. CASE SkipMatched
  <2>1. i > 1 /\ pc # "range" /\ AllZero
    BY <1>6 DEF SelfInv, SkipMatched, AtFrame, GOOD_BITS, NoMatch
  <2> QED BY <1>2, <1>6, <2>1 DEF SkipMatched, SelfInv, AllZero
<1>7. CASE FoundCMF
  <2>1. i = 1 /\ pc = "scan" /\ bmark[1] = NoMatch
    BY <1>2, <1>7 DEF SelfInv, FoundCMF, AtFrame, AllZero, GOOD_BITS
  <2>2. 1 \in Positions
    BY <1>2, <2>1 DEF Positions
  <2>3. cmark'[1] = 0
    BY <1>2, <1>3, <1>7, <2>1 DEF FoundCMF
  <2> QED BY <1>7, <2>1, <2>2, <2>3 DEF FoundCMF, SelfInv
<1>8. ASSUME NEW y \in left, VisitCMF(y)
      PROVE  SelfInv'
  <2>1. i = 1 /\ pc = "range" /\ y \in DOMAIN bf
    BY <1>0, <1>8 DEF SelfInv, VisitCMF, TypeOK
  <2> DEFINE bm == [bmark EXCEPT ![y] = 0]
  <2>2. /\ bm \in [DOMAIN bf -> Mark] /\ bm[y] = 0
        /\ \A q \in DOMAIN bf : q # y => bm[q] = bmark[q]
    <3>1. 0 \in Mark
      BY DEF Mark
    <3> QED BY <1>3, <2>1, <3>1
  <2>3. \/ bmark[y] < GOOD_BITS /\ bmark' = bm /\ cmark' = cmark
        \/ /\ ~ (bmark[y] < GOOD_BITS)
           /\ bmark' = LowerBase(bm, 1, y)
           /\ cmark' = LowerCurrent(cmark, 1, y)
    BY <1>8, <2>1 DEF VisitCMF
  <2> HIDE DEF bm
  <2>4. \/ left' # {} /\ pc' = "range" /\ i' = 1
        \/ left' = {} /\ pc' = "scan" /\ i' = 2
    BY <1>8, <2>1 DEF VisitCMF
  <2>5. CASE AllZero
    <3>1. bmark[y] < GOOD_BITS
      BY <2>1, <2>5 DEF AllZero, GOOD_BITS
    <3>2. bmark' = bm /\ cmark' = cmark
      BY <2>3, <3>1
    <3>3. AllZero'
      BY <1>4, <2>2, <2>5, <3>2 DEF AllZero
    <3> QED BY <2>4, <3>3 DEF SelfInv
  <2>6. CASE 1 \in left /\ cmark[1] = 0 /\ bmark[1] = NoMatch /\ y = 1
    <3>1. bmark' = LowerBase(bm, 1, 1) /\ cmark' = LowerCurrent(cmark, 1, 1)
      BY <2>3, <2>6 DEF NoMatch, GOOD_BITS
    <3>2. AllZero'
      BY <1>0, <1>3, <1>4, <2>2, <2>6, <3>1, SelfVisit DEF AllZero
    <3> QED BY <2>4, <3>2 DEF SelfInv
  <2>7. CASE 1 \in left /\ cmark[1] = 0 /\ bmark[1] = NoMatch /\ y # 1
    <3>1. 1 \in left' /\ pc' = "range" /\ i' = 1
      BY <1>8, <2>1, <2>7 DEF VisitCMF
    <3>2. 1 - y \notin Reach(1, y)
      <4>1. y \in Int /\ y > 1
        BY <1>2, <2>1, <2>7
      <4>2. 1 + (1 - y) \notin DOMAIN cf
        BY <1>2, <4>1
      <4> QED BY <1>0, <1>2, <2>1, <4>2, ListsFromType, ReachInside
    <3>3. bmark'[1] = NoMatch
      <4>1. CASE bmark' = bm
        BY <1>2, <2>2, <2>7, <4>1
      <4>2. CASE bmark' = LowerBase(bm, 1, y)
        <5>1. 1 \in DOMAIN bm /\ bm[1] = NoMatch
          BY <1>2, <2>2, <2>7
        <5> QED BY <3>2, <4>2, <5>1 DEF LowerBase
      <4> QED BY <2>3, <4>1, <4>2
    <3>4. cmark'[1] = 0
      <4>1. CASE cmark' = cmark
        BY <2>7, <4>1
      <4>2. CASE cmark' = LowerCurrent(cmark, 1, y)
        BY <1>0, <1>2, <1>3, <2>1, <2>7, <4>2, ListsFromType, LowerCurrentMarks
      <4> QED BY <2>3, <4>1, <4>2
    <3> QED BY <3>1, <3>3, <3>4 DEF SelfInv
  <2> QED BY <2>1, <2>5, <2>6, <2>7 DEF SelfInv
<1>9. CASE SkipMDF \/ NoMDF \/ FoundMDF
  BY <1>5, <1>9 DEF SkipMDF, NoMDF, FoundMDF
<1>10. CASE Return
  <2>1. i > 1
    BY <1>2, <1>10 DEF Return
  <2> QED BY <1>4, <1>10, <2>1 DEF Return, SelfInv, AllZero
<1>11. CASE UNCHANGED vars
  BY <1>11 DEF vars, SelfInv, AllZero
<1> QED
  BY <1>6, <1>7, <1>8, <1>9, <1>10, <1>11 DEF Next

Total(mark, S) == MapThenSumSet(LAMBDA x : mark[x], S)

(* Marks that are all 0 add up to 0.                                       *)
LEMMA SumOfZeros ==
  ASSUME NEW S, IsFiniteSet(S), NEW mark, \A x \in S : mark[x] = 0
  PROVE  Total(mark, S) = 0
<1> DEFINE some(s) == CHOOSE x \in s : TRUE
           IsSum(g) == g = [s \in SUBSET S |->
                              IF s = {} THEN 0 ELSE mark[some(s)] + g[s \ {some(s)}]]
           sum  == CHOOSE g : IsSum(g)
           zero == [s \in SUBSET S |-> 0]
<1>1. Total(mark, S) = sum[S]
  BY DEF Total, MapThenSumSet, MapThenFoldSet
<1>2. IsSum(zero)
  <2>1. ASSUME NEW s \in SUBSET S, s # {}
        PROVE  mark[some(s)] + zero[s \ {some(s)}] = 0
    <3>1. some(s) \in s
      BY <2>1
    <3> QED BY <3>1
  <2> QED BY <2>1
<1>3. IsSum(sum)
  BY <1>2
<1> HIDE DEF sum
<1>4. \A s \in SUBSET S : sum[s] = 0
  <2> DEFINE Wrong == {s \in SUBSET S : sum[s] # 0}
  <2> SUFFICES ASSUME Wrong # {} PROVE FALSE
    OBVIOUS
  <2>1. Wrong \subseteq SUBSET S /\ FiniteSubsetsOf(S) = SUBSET S
    BY FS_FiniteSubsetsOfFinite
  <2>2. PICK s \in Wrong : \A t \in Wrong : ~ (<<t, s>> \in StrictSubsetOrdering(S))
    <3> HIDE DEF Wrong
    <3> QED BY <2>1, FS_StrictSubsetOrderingWellFounded, WFMin
  <2>3. s # {}
    BY <1>3
  <2>4. PICK x \in s : x = some(s)
    BY <2>3
  <2>5. s \ {x} \notin Wrong
    BY <2>2 DEF StrictSubsetOrdering
  <2>6. sum[s] = mark[x] + sum[s \ {x}]
    BY <1>3, <2>3, <2>4
  <2> QED BY <2>5, <2>6
<1> QED BY <1>1, <1>4

(* All marks of a list are 0: its part of the score is the greatest.       *)
LEMMA FullPart ==
  ASSUME NEW n \in Nat \ {0}, NEW mark, DOMAIN mark = 1..n, \A x \in 1..n : mark[x] = 0
  PROVE  Part(mark) = SCORE_BITS * n
<1>1. Marked(mark) = 1..n
  BY DEF Marked, NoMatch
<1>2. IsFiniteSet(1..n) /\ Cardinality(1..n) = n /\ 1..n # {}
  <2>1. 1 \in Int /\ n \in Int /\ ~ (1 > n) /\ n - 1 + 1 = n /\ 1 \in 1..n
    OBVIOUS
  <2> QED BY <2>1, FS_Interval
<1>3. Total(mark, Marked(mark)) = 0
  BY <1>1, <1>2, SumOfZeros
<1>4. 0 \div n = 0
  OBVIOUS
<1> DEFINE cnt == IF Marked(mark) = {} THEN 1 ELSE Cardinality(Marked(mark))
           average == Total(mark, Marked(mark)) \div cnt
<1>5. cnt = n /\ average = 0
  BY <1>1, <1>2, <1>3, <1>4
<1>6. Part(mark) = IF average > SCORE_BITS THEN 0 ELSE (SCORE_BITS - average) * cnt
  BY DEF Part, Total
<1> HIDE DEF cnt, average
<1> QED BY <1>5, <1>6 DEF SCORE_BITS

(* A video that is compared with itself has all its frames matched without *)
(* a bit differing, however it repeats frames and in whatever order their  *)
(* places are visited.                                                     *)
THEOREM SelfMatchesFully == Spec => [](pc = "done" /\ bf = cf => AllZero)
<1>1. Init => SelfInv
  BY InitSelf
<1>2. PassedInv /\ SelfInv /\ [Next]_vars => SelfInv'
  BY NextSelf
<1>3. PassedInv /\ SelfInv => (pc = "done" /\ bf = cf => AllZero)
  BY DEF SelfInv
<1> QED BY <1>1, <1>2, <1>3, PassedInvariant, PTL DEF Spec

(* A video that is compared with itself gets the full score.               *)
THEOREM SelfScoreIsFull == Spec => []SelfMatchFull
<1>1. Init => SelfInv /\ SelfMatchFull
  BY InitSelf DEF Init, SelfMatchFull
<1>2. PassedInv /\ SelfInv /\ [Next]_vars => SelfInv'
  BY NextSelf
<1>3. PassedInv /\ SelfInv /\ SelfMatchFull /\ [Next]_vars => SelfMatchFull'
  <2> SUFFICES ASSUME PassedInv, SelfInv, SelfMatchFull, [Next]_vars
               PROVE  SelfMatchFull'
    OBVIOUS
  <2>1. CASE Return
    <3> SUFFICES ASSUME bf = cf PROVE score'[1] = score'[2]
      BY <2>1 DEF Return, SelfMatchFull
    <3>1. /\ DOMAIN cf = 1..Len(cf) /\ Len(cf) \in Nat
          /\ 1 \in DOMAIN cf /\ i \in 1..(Len(cf) + 1)
      BY ListsFromType, CandidateNotEmpty DEF PassedInv, TypeOK
    <3>2. i > 1 /\ pc # "range"
      BY <2>1, <3>1 DEF Return
    <3>3. AllZero
      BY <3>2 DEF SelfInv
    <3>4. DOMAIN cmark = 1..Len(cf) /\ DOMAIN bmark = 1..Len(cf) /\ Len(cf) \in Nat \ {0}
      BY <3>1 DEF PassedInv, TypeOK
    <3>5. Part(cmark) = SCORE_BITS * Len(cf) /\ Part(bmark) = SCORE_BITS * Len(cf)
      BY <3>1, <3>3, <3>4, FullPart DEF AllZero
    <3>6. score' = <<Part(cmark) * Part(bmark), SCORE_BITS * Len(cf) * SCORE_BITS * Len(cf)>>
      BY <2>1 DEF Return
    <3>7. (SCORE_BITS * Len(cf)) * (SCORE_BITS * Len(cf))
            = SCORE_BITS * Len(cf) * SCORE_BITS * Len(cf)
      BY <3>1 DEF SCORE_BITS
    <3> QED BY <3>5, <3>6, <3>7
  <2>2. CASE SkipMatched \/ FoundCMF \/ (\E y \in left : VisitCMF(y)) \/ SkipMDF \/ NoMDF \/ FoundMDF
    <3>1. pc' # "done"
      BY <2>2 DEF SkipMatched, FoundCMF, VisitCMF, SkipMDF, NoMDF, FoundMDF, AtFrame,
                  AtUnknownFrame
    <3> QED BY <3>1 DEF SelfMatchFull
  <2>3. CASE UNCHANGED vars
    BY <2>3 DEF vars, SelfMatchFull
  <2> QED BY <2>1, <2>2, <2>3 DEF Next
<1> QED BY <1>1, <1>2, <1>3, PassedInvariant, PTL DEF Spec
=============================================================================
