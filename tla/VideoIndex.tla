----------------------------- MODULE VideoIndex -----------------------------
(***************************************************************************)
(* The data of the match engine and the pure functions over it that        *)
(* server/VideoDB.cpp is built from: frame hashes, the slot a hash falls   *)
(* into, the set of frames a video is indexed by, and the first stage of a *)
(* query, which collects the candidate videos out of the index.            *)
(*                                                                         *)
(* A frame hash is a natural number below 2^64.  key_shorten keeps its top *)
(* HSIZE_BITS = 20 bits, that is, it divides by 2^44; the divisor is the   *)
(* constant SLOT_SPAN, so that a small instance still has several hashes   *)
(* to a slot and several slots.                                            *)
(***************************************************************************)
EXTENDS Integers, Sequences, FiniteSets, Functions

CONSTANTS
  Name,        \* the names (keys) of videos
  Frame,       \* the frame hashes that occur
  FrameList,   \* the frame sequences of the videos and queries that occur
  SLOT_SPAN,   \* hashes per slot of table_ (2^44 in the code)
  LONG,        \* videos of more unique frames have their length compared (60)
  Score        \* check_candidate's score in percent: Score[<<base, current>>]

EMPTY_FRAME == 0

(* A result is kept when its score is above 0.09.                          *)
THRESHOLD == 9

ASSUME IndexAssumption ==
  /\ IsFiniteSet(Name)
  /\ IsFiniteSet(Frame)
  /\ Frame \subseteq Nat
  /\ FrameList \subseteq Seq(Frame)
  /\ SLOT_SPAN \in Nat \ {0}
  /\ LONG \in Nat \ {0}
  /\ Score \in [FrameList \X FrameList -> 0..100]

(* check_candidate gives a non-empty video the full score against itself;  *)
(* CheckCandidate has that as SelfMatchFull.                               *)
ASSUME SelfScoreAssumption ==
  \A fs \in FrameList : fs # << >> => Score[<<fs, fs>>] = 100

-----------------------------------------------------------------------------
key_shorten(k) == k \div SLOT_SPAN

Slot == {key_shorten(k) : k \in Frame}

(* The frames a video is indexed by: duplicates and the empty frame go.    *)
UniqueFrames(fs) == Range(fs) \ {EMPTY_FRAME}

(* A KeyBlock is a sequence of <<hash, video>> pairs; the slots that have  *)
(* one are the domain of the table.                                        *)
KeyBlock == Seq(Frame \X Name)

Block(table, s) == IF s \in DOMAIN table THEN table[s] ELSE << >>

(* A deliberately wrong variant, for the sensitivity check of IndexExact:  *)
(* every push starts a new block.                                          *)
PushPair_Fresh(table, k, n) ==
  LET s == key_shorten(k)
  IN  [x \in DOMAIN table \cup {s} |->
         IF x = s THEN <<<<k, n>>>> ELSE table[x]]

(* kb->push_back, with the block created when the slot has none.           *)
PushPair(table, k, n) ==
  LET s == key_shorten(k)
  IN  [x \in DOMAIN table \cup {s} |->
         IF x = s THEN Append(Block(table, s), <<k, n>>) ELSE table[x]]

(* The videos a block lists under exactly this hash.                       *)
VideosWith(table, k) ==
  {n \in Name : <<k, n>> \in Range(Block(table, key_shorten(k)))}

(* "video whose length differs too much, for long enough video": u is the  *)
(* candidate's uniq_frm_cnt, q the number of unique frames of the query,   *)
(* which counts the empty frame.                                           *)
LengthDiffers(u, q) == u > LONG /\ (2 * u > 3 * q \/ 3 * u < 2 * q)

(* get_candidates1 without the reference counting.                         *)
Candidates(table, uniq, fs) ==
  {n \in UNION {VideosWith(table, k) : k \in UniqueFrames(fs)} :
     ~ LengthDiffers(uniq[n], Cardinality(Range(fs)))}

-----------------------------------------------------------------------------
(***************************************************************************)
(* What a query is meant to return, said without the index.                *)
(***************************************************************************)
IsCandidate(base, fs) ==
  /\ UniqueFrames(base) \cap UniqueFrames(fs) # {}
  /\ ~ LengthDiffers(Cardinality(UniqueFrames(base)), Cardinality(Range(fs)))

Good(base, fs) == Score[<<base, fs>>] > THRESHOLD

(* The pairs Query(frames) returns on a store that maps names to frames.   *)
MatchesIn(store, fs) ==
  {<<n, Score[<<store[n], fs>>]>> :
     n \in {m \in DOMAIN store : IsCandidate(store[m], fs) /\ Good(store[m], fs)}}
=============================================================================
