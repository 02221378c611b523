--------------------------- MODULE CheckCandidate ---------------------------
(***************************************************************************)
(* VideoDB::check_candidate (server/VideoDB.cpp): how well the frames cf   *)
(* of a query match the frames bf of a candidate, a stored video that      *)
(* shares a frame hash with it.                                            *)
(*                                                                         *)
(* Every frame of both has a mark, the number of bits in which it differs  *)
(* from the frame it was matched with.  A frame of cf is matched with the  *)
(* frames of bf that have its hash (CMF in the code) or, when there are    *)
(* none, with the one that differs least from it (MDF); and from each      *)
(* match on, both lists are compared in step, ahead and backward.          *)
(*                                                                         *)
(* Positions start at 1.  VideoIndex has the result as its constant Score. *)
(***************************************************************************)
EXTENDS Integers, Sequences, FiniteSets, Functions, FiniteSetsExt

CONSTANTS
  Frame,             \* the frame hashes that occur
  EMPTY_FRAME,       \* the hash that is not indexed
  Diff,              \* diff_bits: Diff[<<f, g>>]
  BaseList,          \* the frame lists of the stored videos
  CurrentList,       \* the frame lists of the queries
  SKIP_SPLIT_PARTS   \* 32 in the code

CHECK_BITS      == 12
STOP_CHECK_BITS == 28
GOOD_BITS       == 4
NoMatch         == 255
SCORE_BITS      == 18

ASSUME CandidateAssumption ==
  /\ BaseList \subseteq Seq(Frame)
  /\ CurrentList \subseteq Seq(Frame)
  /\ SKIP_SPLIT_PARTS \in Nat \ {0}
  /\ Diff \in [Frame \X Frame -> 0..64]
  /\ \A f \in Frame : Diff[<<f, f>>] = 0

VARIABLES
  bf, cf,        \* frames_ of data_item1 and of data_item2
  bmark, cmark,  \* the mark of each frame
  i,             \* the frame of cf the loop is at
  skipped,       \* frames without a search for the MDF since the last one
  left,          \* where the frame is found in bf, the places still to visit
  pc,            \* "scan", "range" (in the loop over equal_range) or "done"
  score          \* the result: a fraction <<numerator, denominator>>

vars == <<bf, cf, bmark, cmark, i, skipped, left, pc, score>>

D(x, y) == Diff[<<cf[x], bf[y]>>]

skip_itvl == Len(cf) \div SKIP_SPLIT_PARTS

(* A deliberately wrong variant, for the sensitivity check of              *)
(* MatchCounted: a slot of the index is taken for the hash.                *)
IsCandidate_SameSlot(b, c) == b # << >> /\ c # << >>

(* What get_candidates1 lets through: some hash is in both, and it is not  *)
(* the empty frame.  Its length rule only takes pairs of long lists away.  *)
IsCandidate(b, c) == (Range(b) \cap Range(c)) \ {EMPTY_FRAME} # {}

Init ==
  /\ bf \in BaseList
  /\ cf \in CurrentList
  /\ IsCandidate(bf, cf)
  /\ bmark = [y \in DOMAIN bf |-> NoMatch]
  /\ cmark = [x \in DOMAIN cf |-> NoMatch]
  /\ i = 1
  /\ skipped = 0
  /\ left = {}
  /\ pc = "scan"
  /\ score = <<0, 1>>

-----------------------------------------------------------------------------
(***************************************************************************)
(* check_range: from a match of x with y, every two frames at the same     *)
(* distance from it, as far as none differ too much; marks only go down.   *)
(***************************************************************************)
Near(x, y, k) ==
  /\ x + k \in DOMAIN cf
  /\ y + k \in DOMAIN bf
  /\ D(x + k, y + k) <= STOP_CHECK_BITS

Reach(x, y) ==
  {j \in -Len(cf)..Len(cf) :
     /\ j # 0
     /\ \A k \in 1..j : Near(x, y, k)
     /\ \A k \in j..-1 : Near(x, y, k)}

(* A deliberately wrong variant, for the sensitivity check of              *)
(* MarksGenuine: every mark of bf is taken against y.                      *)
LowerBase_Shifted(bm, x, y) ==
  LET reach == Reach(x, y)
  IN  [q \in DOMAIN bm |->
         IF q - y \in reach /\ D(x + (q - y), y) < bm[q]
         THEN D(x + (q - y), y) ELSE bm[q]]

LowerBase(bm, x, y) ==
  LET reach == Reach(x, y)
  IN  [q \in DOMAIN bm |->
         IF q - y \in reach /\ D(x + (q - y), q) < bm[q]
         THEN D(x + (q - y), q) ELSE bm[q]]

LowerCurrent(cm, x, y) ==
  LET reach == Reach(x, y)
  IN  [p \in DOMAIN cm |->
         IF p - x \in reach /\ D(p, y + (p - x)) < cm[p]
         THEN D(p, y + (p - x)) ELSE cm[p]]

-----------------------------------------------------------------------------
(***************************************************************************)
(* The loop over cf                                                        *)
(***************************************************************************)
AtFrame == pc = "scan" /\ i <= Len(cf)

Positions == {y \in DOMAIN bf : bf[y] = cf[i]}

(* A deliberately wrong variant, for the sensitivity check of ExactFound:  *)
(* a frame with any mark counts as matched.                                *)
SkipMatched_Any ==
  /\ AtFrame
  /\ cmark[i] # NoMatch
  /\ i' = i + 1
  /\ UNCHANGED <<bf, cf, bmark, cmark, skipped, left, pc, score>>

(* A good enough match was found from an earlier frame on.                 *)
SkipMatched ==
  /\ AtFrame
  /\ cmark[i] < GOOD_BITS
  /\ i' = i + 1
  /\ UNCHANGED <<bf, cf, bmark, cmark, skipped, left, pc, score>>

FoundCMF ==
  /\ AtFrame
  /\ cmark[i] >= GOOD_BITS
  /\ Positions # {}
  /\ cmark' = [cmark EXCEPT ![i] = 0]
  /\ left' = Positions
  /\ pc' = "range"
  /\ UNCHANGED <<bf, cf, bmark, i, skipped, score>>

(* A deliberately wrong variant, for the sensitivity check of              *)
(* SelfMatchFull: the frame the region starts at gets no mark itself.      *)
VisitCMF_NoMark(y) ==
  /\ pc = "range"
  /\ y \in left
  /\ IF bmark[y] < GOOD_BITS
     THEN UNCHANGED <<bmark, cmark>>
     ELSE /\ bmark' = LowerBase(bmark, i, y)
          /\ cmark' = LowerCurrent(cmark, i, y)
  /\ left' = left \ {y}
  /\ IF left' = {} THEN pc' = "scan" /\ i' = i + 1 ELSE UNCHANGED <<pc, i>>
  /\ UNCHANGED <<bf, cf, skipped, score>>

(* One place of the frame in bf; equal_range gives them in any order.      *)
VisitCMF(y) ==
  /\ pc = "range"
  /\ y \in left
  /\ LET bm == [bmark EXCEPT ![y] = 0]
     IN  IF bmark[y] < GOOD_BITS
         THEN bmark' = bm /\ UNCHANGED cmark
         ELSE /\ bmark' = LowerBase(bm, i, y)
              /\ cmark' = LowerCurrent(cmark, i, y)
  /\ left' = left \ {y}
  /\ IF left' = {} THEN pc' = "scan" /\ i' = i + 1 ELSE UNCHANGED <<pc, i>>
  /\ UNCHANGED <<bf, cf, skipped, score>>

AtUnknownFrame == AtFrame /\ cmark[i] >= GOOD_BITS /\ Positions = {}

SkipMDF ==
  /\ AtUnknownFrame
  /\ skipped + 1 < skip_itvl
  /\ skipped' = skipped + 1
  /\ i' = i + 1
  /\ UNCHANGED <<bf, cf, bmark, cmark, left, pc, score>>

(* A deliberately wrong variant, for the sensitivity check of              *)
(* CmarkNeverRaised: the search ends at the first frame that is similar.   *)
min_diff_bits_First(y) ==
  \/ D(i, y) <= CHECK_BITS /\ \A z \in DOMAIN bf : z < y => D(i, z) > CHECK_BITS
  \/ y = 1 /\ \A z \in DOMAIN bf : D(i, z) > CHECK_BITS

(* The first of the frames of bf that differ least from the current one.   *)
min_diff_bits(y) ==
  \A z \in DOMAIN bf : D(i, y) <= D(i, z) /\ (z < y => D(i, y) < D(i, z))

(* A deliberately wrong variant, for the sensitivity check of TypeOK: the  *)
(* count of skipped frames starts again only after a match.                *)
NoMDF_Counting ==
  /\ AtUnknownFrame
  /\ \E y \in DOMAIN bf : min_diff_bits(y) /\ D(i, y) > CHECK_BITS
  /\ skipped + 1 >= skip_itvl
  /\ skipped' = skipped + 1
  /\ i' = i + 1
  /\ UNCHANGED <<bf, cf, bmark, cmark, left, pc, score>>

NoMDF ==
  /\ AtUnknownFrame
  /\ skipped + 1 >= skip_itvl
  /\ \E y \in DOMAIN bf : min_diff_bits(y) /\ D(i, y) > CHECK_BITS
  /\ skipped' = 0
  /\ i' = i + 1
  /\ UNCHANGED <<bf, cf, bmark, cmark, left, pc, score>>

(* Both marks are set whatever they were; the test of bmark before it does *)
(* not change that.                                                        *)
FoundMDF ==
  /\ AtUnknownFrame
  /\ skipped + 1 >= skip_itvl
  /\ \E y \in DOMAIN bf :
       /\ min_diff_bits(y)
       /\ D(i, y) <= CHECK_BITS
       /\ bmark' = LowerBase([bmark EXCEPT ![y] = D(i, y)], i, y)
       /\ cmark' = LowerCurrent([cmark EXCEPT ![i] = D(i, y)], i, y)
  /\ skipped' = 0
  /\ i' = i + 1
  /\ UNCHANGED <<bf, cf, left, pc, score>>

-----------------------------------------------------------------------------
(***************************************************************************)
(* The score.  Its factor for one list is numerator / (18 * length); the   *)
(* average is an integer division.                                         *)
(***************************************************************************)
Marked(mark) == {x \in DOMAIN mark : mark[x] # NoMatch}

Part(mark) ==
  LET cnt == IF Marked(mark) = {} THEN 1 ELSE Cardinality(Marked(mark))
      average == MapThenSumSet(LAMBDA x : mark[x], Marked(mark)) \div cnt
  IN  IF average > SCORE_BITS THEN 0 ELSE (SCORE_BITS - average) * cnt

Return ==
  /\ pc = "scan"
  /\ i > Len(cf)
  /\ pc' = "done"
  /\ score' = <<Part(cmark) * Part(bmark), SCORE_BITS * Len(cf) * SCORE_BITS * Len(bf)>>
  /\ UNCHANGED <<bf, cf, bmark, cmark, i, skipped, left>>

Next ==
  \/ SkipMatched
  \/ FoundCMF
  \/ \E y \in left : VisitCMF(y)
  \/ SkipMDF
  \/ NoMDF
  \/ FoundMDF
  \/ Return

Spec == Init /\ [][Next]_vars

-----------------------------------------------------------------------------
(***************************************************************************)
(* Properties                                                              *)
(***************************************************************************)
Mark == 0..64 \cup {NoMatch}

(* The type of the state; a query skips the search for the MDF at most     *)
(* skip_itvl - 1 times in a row.                                           *)
TypeOK ==
  /\ bf \in BaseList /\ cf \in CurrentList
  /\ bmark \in [DOMAIN bf -> Mark]
  /\ cmark \in [DOMAIN cf -> Mark]
  /\ i \in 1..(Len(cf) + 1)
  /\ skipped \in Nat /\ (skipped > 0 => skipped < skip_itvl)
  /\ left \subseteq DOMAIN bf
  /\ pc \in {"scan", "range", "done"}
  /\ pc = "range" => i <= Len(cf) /\ left # {} /\ left \subseteq Positions

(* A mark is always the difference of its frame from some frame of the     *)
(* other list: no mark is off by a place, left over, or made of two.       *)
MarksGenuine ==
  /\ \A x \in DOMAIN cmark : cmark[x] = NoMatch \/ \E y \in DOMAIN bf : D(x, y) = cmark[x]
  /\ \A y \in DOMAIN bmark : bmark[y] = NoMatch \/ \E x \in DOMAIN cf : D(x, y) = bmark[y]

(* A better match of a query frame is never replaced by a worse one,       *)
(* although its mark is overwritten twice without a look at it.            *)
CmarkNeverRaised == [][\A x \in DOMAIN cmark : cmark'[x] <= cmark[x]]_vars

(* In the end every query frame that is in the stored video has at least a *)
(* good match, whatever was matched first and skipped for it.              *)
ExactFound ==
  pc = "done" =>
    \A x \in DOMAIN cf : (\E y \in DOMAIN bf : bf[y] = cf[x]) => cmark[x] < GOOD_BITS

(* The score of a candidate rests on a match on both sides; the 1 that     *)
(* avoids a division by zero, a match that is none, never counts.          *)
MatchCounted == pc = "done" => Marked(cmark) # {} /\ Marked(bmark) # {}

(* A video matches itself fully, even if it repeats frames or some of its  *)
(* frames are near each other: what VideoIndex assumes of Score.           *)
SelfMatchFull == pc = "done" /\ bf = cf => score[1] = score[2]
=============================================================================
