--------------------------- MODULE ImageProcessor ---------------------------
(***************************************************************************)
(* What the client makes of a picture (client/ImageProcessor.cpp): the     *)
(* borders it finds, the part it keeps, and the result of GetHashCode.     *)
(*                                                                         *)
(* crop_border looks at nothing of a row or column but the mean and the    *)
(* variance of its pixels, so a picture is its lines of these, here whole  *)
(* numbers; that a root is compared with 10 is said with its square.  What *)
(* mirror, the filter and the transform make of the part that is kept is   *)
(* one number, print.                                                      *)
(***************************************************************************)
EXTENDS Integers

SD_DIFF_THRESHOLD == 10
AVG_DIFF_THRESHOLD == 255
MIN_SIZE == 32

NO_HASH == 0

Line == [avg : 0..255, var : Nat]

IsPicture(p) ==
  /\ p.loads \in BOOLEAN          \* CImg can read the file
  /\ p.spectrum \in 1..4
  /\ p.width \in Nat /\ p.height \in Nat
  /\ p.rows \in [0..(p.height - 1) -> Line]
  /\ p.columns \in [0..(p.width - 1) -> Line]
  /\ p.print \in Nat

-----------------------------------------------------------------------------
(* Whether a loop of crop_border stops at its i-th line, of n pixels, when *)
(* first was its first.  It divides by the width of the picture, whatever  *)
(* n is: the mean it gets is n * avg / count.                              *)
Busy(n, count, line) ==
  n * (line.var * count * count + line.avg * line.avg * (n - count) * (n - count))
    > SD_DIFF_THRESHOLD * SD_DIFF_THRESHOLD * count * count * count

FarFrom(n, count, line, first) ==
  \/ n * (line.avg - first.avg) > AVG_DIFF_THRESHOLD * count
  \/ n * (first.avg - line.avg) > AVG_DIFF_THRESHOLD * count

StopsAt(n, count, line, first, i) ==
  Busy(n, count, line) \/ (i # 0 /\ FarFrom(n, count, line, first))

(* The line a loop ends at: the first of half the lines that stops it, or  *)
(* the last of them.                                                       *)
LastLine(size) == size \div 2 - 1

Ends(size, stops, i) ==
  /\ i \in 0..LastLine(size)
  /\ stops[i] \/ i = LastLine(size)
  /\ \A j \in 0..(i - 1) : ~ stops[j]

LoopEnd(size, stops) == CHOOSE i \in 0..LastLine(size) : Ends(size, stops, i)

Top(p) == LoopEnd(p.height, [y \in 0..LastLine(p.height) |->
            StopsAt(p.width, p.width, p.rows[y], p.rows[0], y)])
Bottom(p) == LoopEnd(p.height, [y \in 0..LastLine(p.height) |->
            StopsAt(p.width, p.width, p.rows[p.height - 1 - y], p.rows[p.height - 1], y)])
Left(p) == LoopEnd(p.width, [x \in 0..LastLine(p.width) |->
            StopsAt(p.height, p.width, p.columns[x], p.columns[0], x)])
Right(p) == LoopEnd(p.width, [x \in 0..LastLine(p.width) |->
            StopsAt(p.height, p.width, p.columns[p.width - 1 - x], p.columns[p.width - 1], x)])

(* x1, x2 or y1, y2 of a picture of that size; both stay 0 when the loops  *)
(* have nothing to go through.                                             *)
Span(size, first, last) ==
  IF size < 2 THEN [from |-> 0, to |-> 0] ELSE [from |-> first, to |-> size - last]

Columns(p) == Span(p.width, Left(p), Right(p))
Rows(p)    == Span(p.height, Top(p), Bottom(p))

(* "too small after crop, useless"                                         *)
TooSmall(s) == s.to - s.from < MIN_SIZE

(* A deliberately wrong variant, for the sensitivity check of CropInside:  *)
(* no margin is taken off.                                                 *)
Kept_Whole(s) == s

(* A tenth is taken off at each end; a double that is assigned to an int   *)
(* loses its fraction.  The bounds that are left are both inclusive.       *)
Kept(s) ==
  LET n == s.to - s.from
  IN  [from |-> s.from + n \div 10, to |-> s.to - (n + 9) \div 10]

crop_border(p) == [x |-> Kept(Columns(p)), y |-> Kept(Rows(p))]

(* A picture of four channels is first cropped to the size of an image     *)
(* that is still empty.                                                    *)
Useless(p) == p.spectrum = 4 \/ TooSmall(Columns(p)) \/ TooSmall(Rows(p))

(* What GetHashCode returns, and the result it leaves.                     *)
GetHashCode(p) == IF p.loads THEN 0 ELSE -1
Result(p)      == IF p.loads /\ ~ Useless(p) THEN p.print ELSE NO_HASH
=============================================================================
