------------------------- MODULE JpegTransformProofs -------------------------
(* Whatever the sizes, the sampling and the transforms of a file, jpegtran  *)
(* reads and writes each array where it has rows and columns; whatever      *)
(* markers the file has, each of those of the encoder is written once.      *)
EXTENDS JpegTransform, SequenceTheorems, WellFoundedInduction, TLAPS

Pos == Nat \ {0}
Block == [Places -> Int]

(* Sides of an array: n samples of the image, s of a component for m of the *)
(* image; blocks that hold samples, with padding, and in whole iMCUs.       *)
Blocks(n, s, m) == DivUp(n * s, m * DCTSIZE)
Side(n, s, m) == RoundUp(Blocks(n, s, m), s)
WholeSide(n, s, m) == (n \div (m * DCTSIZE)) * s

HasComps(f) ==
  f.width \in Pos /\ f.height \in Pos /\ f.comps \in Seq(Component) /\ f.comps # <<>>
Params(d) ==
  /\ d \in [width : Pos, height : Pos, space : {d.space}, comps : Seq(Component), quant : {d.quant},
            write_JFIF_header : BOOLEAN, write_Adobe_marker : BOOLEAN]
  /\ d.comps # <<>>

SameSizes(f, g) ==
  f.width = g.width /\ f.height = g.height /\ f.comps = g.comps /\ f.space = g.space

(* The components that are left.                                            *)
Kept == IF info.force_grayscale /\ before.space = "YCbCr" /\ Len(before.comps) = 3
        THEN 1 ELSE Len(before.comps)

(* The arrays of the destination are no larger than those of the source, if *)
(* the job is not overgrown; its sampling factors never are.                *)
Within(d) ==
  /\ Len(d.comps) = Kept
  /\ \A c \in 1 .. Kept :
       IF turn \in Transposes
       THEN d.comps[c].h <= before.comps[c].v /\ d.comps[c].v <= before.comps[c].h
       ELSE d.comps[c].h <= before.comps[c].h /\ d.comps[c].v <= before.comps[c].v
  /\ ~Overgrown => \A c \in 1 .. Kept :
       IF turn \in Transposes
       THEN PaddedCols(d, c) <= PaddedRows(before, c) /\ PaddedRows(d, c) <= PaddedCols(before, c)
       ELSE PaddedCols(d, c) <= PaddedCols(before, c) /\ PaddedRows(d, c) <= PaddedRows(before, c)

FileInv ==
  /\ phase \in Phases /\ round \in DOMAIN job.options
  /\ IsFile(src) /\ IsFile(before)
  /\ phase \notin {"open", "done"} => SameSizes(src, before)
  /\ at \in Pos \X Nat

WorkInv ==
  /\ phase \in {"read", "adjusted", "copying", "turning"} =>
       /\ work = IF InPlace THEN <<>> ELSE [c \in 1 .. Kept |-> WorkSize(c)]
       /\ turned = [c \in DOMAIN work |-> turned[c]]
  /\ phase \in {"read", "adjusted", "copying"} => \A c \in DOMAIN work : turned[c] = <<>>

DstInv ==
  /\ phase \in {"adjusted", "copying", "turning"} =>
       Params(dst) /\ Within(dst)
  /\ phase = "copying" => at = <<1, 0>>

RowsOf(c) == Seq([0 .. PaddedCols(dst, c) - 1 -> Block])
TurnInv ==
  phase = "turning" =>
    /\ at[1] <= Kept + 1
    /\ at[1] <= Kept => at[2] % dst.comps[at[1]].v = 0 /\ at[2] < height_in_blocks(dst, at[1])
    /\ \A c \in DOMAIN work :
         /\ turned[c] \in RowsOf(c)
         /\ c < at[1] => height_in_blocks(dst, c) <= Len(turned[c])
         /\ c = at[1] => Len(turned[c]) = at[2]
         /\ c > at[1] => Len(turned[c]) = 0

TransformInv == /\ job \in Jobs /\ FileInv /\ WorkInv /\ DstInv /\ TurnInv
                /\ phase = "outside" => Overgrown

(* Trimming, as far as NoEdgeLeft speaks of it.                             *)
RightTrimmed == {"FLIP_H", "TRANSVERSE", "ROT_90", "ROT_180"}
BottomTrimmed == {"FLIP_V", "TRANSVERSE", "ROT_180", "ROT_270"}
SideTrimmed(new, old, imcu) == /\ new <= old /\ old - (imcu - 1) <= new
                               /\ new % imcu = 0 \/ new < imcu
EdgesTrimmed(f, w, h) ==
  /\ IF turn \in RightTrimmed THEN SideTrimmed(f.width, w, max_h(f) * DCTSIZE) ELSE f.width = w
  /\ IF turn \in BottomTrimmed THEN SideTrimmed(f.height, h, max_v(f) * DCTSIZE) ELSE f.height = h

TrimInv ==
  /\ phase \in {"adjusted", "copying", "turning", "done"} /\ info.trim =>
       /\ turn \in Transposes => EdgesTrimmed(dst, before.height, before.width)
       /\ turn \notin Transposes => EdgesTrimmed(dst, before.width, before.height)
  /\ phase = "done" => src.width = dst.width /\ src.height = dst.height /\ src.comps = dst.comps
-----------------------------------------------------------------------------
(* Quotients and products of naturals.                                      *)
LEMMA DivBounds ==
  ASSUME NEW a \in Nat, NEW b \in Pos
  PROVE  a \div b \in Nat /\ (a \div b) * b <= a /\ a < (a \div b) * b + b
BY SMT DEF Pos

LEMMA MulLE ==
  ASSUME NEW a \in Nat, NEW b \in Nat, NEW k \in Nat, a <= b
  PROVE  a * k <= b * k /\ a * k \in Nat
BY SMT

LEMMA MulLT ==
  ASSUME NEW a \in Int, NEW b \in Int, NEW k \in Pos, a * k < b * k
  PROVE  a < b
BY SMT DEF Pos

LEMMA MulSucc ==
  ASSUME NEW a \in Int, NEW k \in Int
  PROVE  (a + 1) * k = a * k + k
BY SMT

LEMMA DivMultiple ==
  ASSUME NEW i \in Int, NEW b \in Pos
  PROVE  (i * b) \div b = i /\ (i * b) % b = 0
BY SMT DEF Pos

LEMMA ModMultiple ==
  ASSUME NEW a \in Nat, NEW b \in Pos, a % b = 0
  PROVE  a \div b \in Nat /\ a = (a \div b) * b
BY SMT DEF Pos

LEMMA DivUpBounds ==
  ASSUME NEW a \in Nat, NEW b \in Pos
  PROVE  /\ DivUp(a, b) \in Nat
         /\ a <= DivUp(a, b) * b
         /\ DivUp(a, b) * b < a + b
<1>1. a + b - 1 \in Nat
  BY DEF Pos
<1> QED
  BY <1>1, DivBounds DEF DivUp, Pos

LEMMA DivUpLeast ==
  ASSUME NEW a \in Nat, NEW b \in Pos, NEW n \in Nat, a <= n * b
  PROVE  DivUp(a, b) <= n
<1> DEFINE d == DivUp(a, b)
<1>1. d \in Nat /\ d * b < a + b
  BY DivUpBounds
<1> HIDE DEF d
<1>2. n * b + b = (n + 1) * b
  BY DEF Pos
<1>3. d * b < (n + 1) * b
  BY <1>1, <1>2 DEF Pos
<1>4. d < n + 1
  BY <1>1, <1>3, MulLT
<1> QED
  BY <1>1, <1>4 DEF d

LEMMA DivUpMono ==
  ASSUME NEW a \in Nat, NEW c \in Nat, NEW b \in Pos, a <= c
  PROVE  DivUp(a, b) <= DivUp(c, b)
<1>1. DivUp(c, b) \in Nat /\ c <= DivUp(c, b) * b
  BY DivUpBounds
<1>2. a <= DivUp(c, b) * b
  BY <1>1 DEF Pos
<1> QED
  BY <1>1, <1>2, DivUpLeast

(* RoundUp is the least multiple that is not below.                         *)
LEMMA RoundUpBounds ==
  ASSUME NEW a \in Nat, NEW b \in Pos
  PROVE  RoundUp(a, b) \in Nat /\ a <= RoundUp(a, b)
<1> DEFINE d == DivUp(a, b)
<1>1. d \in Nat /\ a <= d * b
  BY DivUpBounds
<1> HIDE DEF d
<1>2. d * b \in Nat
  BY <1>1 DEF Pos
<1> QED
  BY <1>1, <1>2 DEF RoundUp, d

LEMMA RoundUpMono ==
  ASSUME NEW a \in Nat, NEW c \in Nat, NEW b \in Pos, a <= c
  PROVE  RoundUp(a, b) <= RoundUp(c, b)
<1>1. DivUp(a, b) \in Nat /\ DivUp(c, b) \in Nat /\ DivUp(a, b) <= DivUp(c, b)
  BY DivUpBounds, DivUpMono
<1> QED
  BY <1>1, MulLE DEF RoundUp, Pos

LEMMA RoundUpAligned ==
  ASSUME NEW a \in Nat, NEW b \in Pos, NEW i \in Nat, i * b < a
  PROVE  i * b + b <= RoundUp(a, b)
<1> DEFINE d == DivUp(a, b)
<1>1. d \in Nat /\ a <= d * b
  BY DivUpBounds
<1> HIDE DEF d
<1>2. i < d
  <2>1. i * b < d * b
    BY <1>1 DEF Pos
  <2> QED
    BY <1>1, <2>1, MulLT
<1>3. (i + 1) * b <= d * b
  BY <1>1, <1>2, MulLE DEF Pos
<1> QED
  BY <1>3, MulSucc DEF d, RoundUp, Pos
-----------------------------------------------------------------------------
LEMMA SizeIsPos == DCTSIZE \in Pos
BY TransformAssumption DEF Pos

LEMMA MulPos == ASSUME NEW a \in Pos, NEW b \in Pos PROVE a * b \in Pos
BY SMT DEF Pos

(* The sides of an array, and of the whole iMCUs in it.                     *)
LEMMA SideBounds ==
  ASSUME NEW n \in Pos, NEW s \in Pos, NEW m \in Pos
  PROVE  /\ Blocks(n, s, m) \in Pos /\ Side(n, s, m) \in Nat /\ WholeSide(n, s, m) \in Nat
         /\ Blocks(n, s, m) <= Side(n, s, m) /\ WholeSide(n, s, m) <= Blocks(n, s, m)
<1> DEFINE w == m * DCTSIZE
           b == Blocks(n, s, m)
           q == n \div w
<1>1. w \in Pos /\ n * s \in Nat /\ n \in Nat /\ s \in Nat
  BY SizeIsPos, MulPos DEF Pos
<1>2. b \in Nat /\ n * s <= b * w
  BY <1>1, DivUpBounds DEF Blocks
<1>11. b # 0
  <2>1. n * s \in Pos
    BY MulPos
  <2>2. b = 0 => b * w = 0
    BY <1>1 DEF Pos
  <2> QED
    BY <1>2, <2>1, <2>2 DEF Pos
<1>3. Side(n, s, m) \in Nat /\ b <= Side(n, s, m)
  BY <1>2, RoundUpBounds DEF Side
<1>4. q \in Nat /\ q * w <= n
  BY <1>1, DivBounds
<1>5. WholeSide(n, s, m) = q * s
  BY DEF WholeSide
<1> HIDE DEF w, b, q
<1>6. q * w \in Nat /\ q * s \in Nat
  BY <1>1, <1>4 DEF Pos
<1>7. (q * w) * s <= n * s
  BY <1>1, <1>4, <1>6, MulLE
<1>8. (q * w) * s = (q * s) * w
  BY <1>1, <1>4 DEF Pos
<1>9. (q * s) * w <= b * w
  BY <1>1, <1>2, <1>6, <1>7, <1>8 DEF Pos
<1>10. q * s <= b
  <2> DEFINE p == q * s
  <2>1. p \in Nat /\ b + 1 \in Int /\ w \in Pos /\ p * w <= b * w
    BY <1>1, <1>2, <1>6, <1>9
  <2> HIDE DEF p
  <2>2. p * w < (b + 1) * w
    BY <1>2, <2>1, MulSucc DEF Pos
  <2>3. p < b + 1
    BY <2>1, <2>2, MulLT
  <2> QED
    BY <1>2, <2>1, <2>3 DEF p
<1> QED
  BY <1>2, <1>3, <1>5, <1>6, <1>10, <1>11 DEF b, Pos

LEMMA SideMono ==
  ASSUME NEW n \in Pos, NEW l \in Pos, NEW s \in Pos, NEW m \in Pos, n <= l
  PROVE  Side(n, s, m) <= Side(l, s, m)
<1>1. m * DCTSIZE \in Pos /\ n * s \in Nat /\ l * s \in Nat /\ n * s <= l * s
  BY SizeIsPos, MulPos, MulLE DEF Pos
<1>2. /\ Blocks(n, s, m) \in Nat /\ Blocks(l, s, m) \in Nat
      /\ Blocks(n, s, m) <= Blocks(l, s, m)
  BY <1>1, DivUpBounds, DivUpMono DEF Blocks
<1> QED
  BY <1>2, RoundUpMono DEF Side

(* A component at full sampling has room for the same samples at 1 x 1.     *)
LEMMA SideOfOne ==
  ASSUME NEW n \in Pos, NEW m \in Pos
  PROVE  Side(n, 1, 1) <= Side(n, m, m)
<1> DEFINE w == m * DCTSIZE
           b == Blocks(n, m, m)
<1>1. w \in Pos /\ n * m \in Nat /\ n \in Nat /\ DCTSIZE \in Pos /\ 1 \in Pos
  BY SizeIsPos, MulPos DEF Pos
<1>2. b \in Nat /\ n * m <= b * w
  BY <1>1, DivUpBounds DEF Blocks
<1>3. b <= Side(n, m, m) /\ Side(n, m, m) \in Nat
  BY SideBounds
<1>4. Blocks(n, 1, 1) = DivUp(n, DCTSIZE)
  BY <1>1 DEF Blocks, Pos
<1>5. Side(n, 1, 1) = DivUp(Blocks(n, 1, 1), 1)
  BY <1>1, <1>4, DivUpBounds DEF Side, RoundUp
<1>6. b * w = (b * DCTSIZE) * m /\ b * DCTSIZE \in Nat
  BY <1>1, <1>2 DEF Pos
<1> HIDE DEF w, b
<1>7. n <= b * DCTSIZE
  <2> DEFINE e == b * DCTSIZE
  <2>1. e \in Nat /\ n * m <= e * m /\ m \in Nat
    BY <1>2, <1>6 DEF Pos
  <2> HIDE DEF e
  <2>2. n * m < (e + 1) * m
    BY <2>1, MulSucc DEF Pos
  <2>3. n < e + 1
    BY <1>1, <2>1, <2>2, MulLT
  <2> QED
    BY <1>1, <2>1, <2>3 DEF e
<1>8. DivUp(n, DCTSIZE) <= b /\ DivUp(n, DCTSIZE) \in Nat
  BY <1>1, <1>2, <1>7, DivUpLeast, DivUpBounds
<1>9. DivUp(Blocks(n, 1, 1), 1) <= b /\ DivUp(Blocks(n, 1, 1), 1) \in Nat
  <2>1. Blocks(n, 1, 1) <= b * 1
    BY <1>2, <1>4, <1>8
  <2> QED
    BY <1>1, <1>2, <1>4, <1>8, <2>1, DivUpLeast, DivUpBounds
<1> QED
  BY <1>2, <1>3, <1>5, <1>9

(* Rows that begin at a multiple of s and before the end are all there.     *)
LEMMA SideAligned ==
  ASSUME NEW n \in Pos, NEW s \in Pos, NEW m \in Pos, NEW y \in Nat, y % s = 0
  PROVE  /\ y < Blocks(n, s, m) => y + s <= Side(n, s, m)
         /\ y < WholeSide(n, s, m) => y + s <= WholeSide(n, s, m)
<1>1. Blocks(n, s, m) \in Nat /\ WholeSide(n, s, m) \in Nat
  BY SideBounds DEF Pos
<1>2. PICK i \in Nat : y = i * s
  BY ModMultiple
<1>3. y < Blocks(n, s, m) => y + s <= Side(n, s, m)
  BY <1>1, <1>2, RoundUpAligned DEF Side
<1>4. ASSUME y < WholeSide(n, s, m) PROVE y + s <= WholeSide(n, s, m)
  <2> DEFINE q == n \div (m * DCTSIZE)
  <2>1. q \in Nat /\ WholeSide(n, s, m) = q * s
    BY SizeIsPos, MulPos, DivBounds DEF WholeSide, Pos
  <2> HIDE DEF q
  <2>2. i < q
    BY <1>2, <1>4, <2>1, MulLT
  <2>3. (i + 1) * s <= q * s
    BY <2>1, <2>2, MulLE DEF Pos
  <2> QED
    BY <1>2, <2>1, <2>3, MulSucc DEF Pos
<1> QED
  BY <1>3, <1>4

(* The next rows begin at a multiple too.                                   *)
LEMMA NextAligned ==
  ASSUME NEW y \in Nat, NEW s \in Pos, y % s = 0
  PROVE  y + s \in Nat /\ (y + s) % s = 0
<1>1. PICK i \in Nat : y = i * s
  BY ModMultiple
<1>2. y + s = (i + 1) * s
  BY <1>1, MulSucc DEF Pos
<1>3. ((i + 1) * s) % s = 0
  BY DivMultiple
<1> QED
  BY <1>2, <1>3 DEF Pos
-----------------------------------------------------------------------------
(* The largest factor is there, and it is the factor of a component.        *)
LEMMA MaxFactor ==
  ASSUME NEW S, S \subseteq 1 .. 4, S # {}
  PROVE  Max(S) \in S /\ \A x \in S : x <= Max(S)
<1>1. \E m \in S : \A x \in S : m >= x
  <2>1. CASE 4 \in S
    BY <2>1
  <2>2. CASE 4 \notin S /\ 3 \in S
    BY <2>2
  <2>3. CASE 4 \notin S /\ 3 \notin S /\ 2 \in S
    BY <2>3
  <2>4. CASE 4 \notin S /\ 3 \notin S /\ 2 \notin S
    <3>1. \A x \in S : x = 1
      BY <2>4
    <3>2. PICK e \in S : TRUE
      OBVIOUS
    <3>3. e = 1
      BY <3>1, <3>2
    <3>4. \A x \in S : e >= x
      BY <3>1, <3>3
    <3> QED
      BY <3>2, <3>4
  <2> QED
    BY <2>1, <2>2, <2>3, <2>4
<1>2. Max(S) \in S /\ \A x \in S : Max(S) >= x
  BY <1>1, Zenon DEF Max
<1> QED
  BY <1>2

LEMMA CompsOfFile == ASSUME NEW f, IsFile(f) PROVE HasComps(f)
BY DEF IsFile, HasComps, Pos

LEMMA CompsOfParams == ASSUME NEW d, Params(d) PROVE HasComps(d)
BY DEF Params, HasComps

LEMMA Factors ==
  ASSUME NEW f, HasComps(f)
  PROVE  /\ 1 \in DOMAIN f.comps /\ DOMAIN f.comps = 1 .. Len(f.comps) /\ Len(f.comps) \in Pos
         /\ max_h(f) \in 1 .. 4 /\ max_v(f) \in 1 .. 4
         /\ max_h(f) \in Pos /\ max_v(f) \in Pos
         /\ \A c \in DOMAIN f.comps :
              /\ f.comps[c] \in Component
              /\ f.comps[c].h \in Pos /\ f.comps[c].v \in Pos
              /\ f.comps[c].h <= max_h(f) /\ f.comps[c].v <= max_v(f)
         /\ \E c \in DOMAIN f.comps : f.comps[c].h = max_h(f)
         /\ \E c \in DOMAIN f.comps : f.comps[c].v = max_v(f)
<1> DEFINE H == {f.comps[c].h : c \in DOMAIN f.comps}
           V == {f.comps[c].v : c \in DOMAIN f.comps}
<1>1. 1 \in DOMAIN f.comps /\ DOMAIN f.comps = 1 .. Len(f.comps) /\ Len(f.comps) \in Pos
  BY DEF HasComps, Pos
<1>2. \A c \in DOMAIN f.comps :
        f.comps[c] \in Component /\ f.comps[c].h \in 1 .. 4 /\ f.comps[c].v \in 1 .. 4
  <2>1. \A c \in DOMAIN f.comps : f.comps[c] \in Component
    BY DEF HasComps
  <2> QED
    BY <2>1 DEF Component
<1>3. H \subseteq 1 .. 4 /\ H # {} /\ V \subseteq 1 .. 4 /\ V # {}
  BY <1>1, <1>2
<1>4. max_h(f) = Max(H) /\ max_v(f) = Max(V)
  BY DEF max_h, max_v
<1>5. /\ Max(H) \in H /\ \A x \in H : x <= Max(H)
      /\ Max(V) \in V /\ \A x \in V : x <= Max(V)
  <2> HIDE DEF H, V
  <2> QED
    BY <1>3, MaxFactor
<1>6. \A c \in DOMAIN f.comps : f.comps[c].h \in H /\ f.comps[c].v \in V
  OBVIOUS
<1>7. max_h(f) \in 1 .. 4 /\ max_v(f) \in 1 .. 4
  BY <1>3, <1>4, <1>5
<1>8. /\ \E c \in DOMAIN f.comps : f.comps[c].h = max_h(f)
      /\ \E c \in DOMAIN f.comps : f.comps[c].v = max_v(f)
  BY <1>4, <1>5
<1>9. max_h(f) \in Pos /\ max_v(f) \in Pos
  BY <1>7 DEF Pos
<1>10. \A c \in DOMAIN f.comps :
         /\ f.comps[c].h \in Pos /\ f.comps[c].v \in Pos
         /\ f.comps[c].h <= max_h(f) /\ f.comps[c].v <= max_v(f)
  <2> HIDE DEF H, V
  <2> QED
    BY <1>2, <1>4, <1>5, <1>6 DEF Pos
<1> QED
  BY <1>1, <1>2, <1>7, <1>8, <1>9, <1>10

(* The sizes of a file in terms of its sides.                               *)
LEMMA SizesAsSides ==
  ASSUME NEW f, NEW c
  PROVE  /\ width_in_blocks(f, c) = Blocks(f.width, f.comps[c].h, max_h(f))
         /\ height_in_blocks(f, c) = Blocks(f.height, f.comps[c].v, max_v(f))
         /\ PaddedCols(f, c) = Side(f.width, f.comps[c].h, max_h(f))
         /\ PaddedRows(f, c) = Side(f.height, f.comps[c].v, max_v(f))
         /\ MCU_cols(f) * f.comps[c].h = WholeSide(f.width, f.comps[c].h, max_h(f))
         /\ MCU_rows(f) * f.comps[c].v = WholeSide(f.height, f.comps[c].v, max_v(f))
BY DEF width_in_blocks, height_in_blocks, PaddedCols, PaddedRows, MCU_cols, MCU_rows,
       Blocks, Side, WholeSide

LEMMA SizesTyped ==
  ASSUME NEW f, HasComps(f), NEW c \in DOMAIN f.comps
  PROVE  /\ PaddedCols(f, c) \in Nat /\ PaddedRows(f, c) \in Nat
         /\ width_in_blocks(f, c) \in Pos /\ height_in_blocks(f, c) \in Pos
         /\ width_in_blocks(f, c) <= PaddedCols(f, c)
         /\ height_in_blocks(f, c) <= PaddedRows(f, c)
         /\ MCU_cols(f) * f.comps[c].h \in Nat /\ MCU_rows(f) * f.comps[c].v \in Nat
         /\ MCU_cols(f) * f.comps[c].h <= PaddedCols(f, c)
         /\ MCU_rows(f) * f.comps[c].v <= PaddedRows(f, c)
<1>1. /\ f.width \in Pos /\ f.height \in Pos /\ max_h(f) \in Pos /\ max_v(f) \in Pos
      /\ f.comps[c].h \in Pos /\ f.comps[c].v \in Pos
  BY Factors DEF HasComps
<1>2. /\ Blocks(f.width, f.comps[c].h, max_h(f)) \in Pos
      /\ Side(f.width, f.comps[c].h, max_h(f)) \in Nat
      /\ WholeSide(f.width, f.comps[c].h, max_h(f)) \in Nat
      /\ Blocks(f.width, f.comps[c].h, max_h(f)) <= Side(f.width, f.comps[c].h, max_h(f))
      /\ WholeSide(f.width, f.comps[c].h, max_h(f)) <= Blocks(f.width, f.comps[c].h, max_h(f))
  BY <1>1, SideBounds
<1>3. /\ Blocks(f.height, f.comps[c].v, max_v(f)) \in Pos
      /\ Side(f.height, f.comps[c].v, max_v(f)) \in Nat
      /\ WholeSide(f.height, f.comps[c].v, max_v(f)) \in Nat
      /\ Blocks(f.height, f.comps[c].v, max_v(f)) <= Side(f.height, f.comps[c].v, max_v(f))
      /\ WholeSide(f.height, f.comps[c].v, max_v(f)) <= Blocks(f.height, f.comps[c].v, max_v(f))
  BY <1>1, SideBounds
<1> QED
  BY <1>2, <1>3, SizesAsSides DEF Pos

(* Only the sizes and the components count.                                 *)
LEMMA SizesOfSame ==
  ASSUME NEW f, NEW g, f.width = g.width, f.height = g.height, f.comps = g.comps, NEW c
  PROVE  /\ PaddedCols(f, c) = PaddedCols(g, c) /\ PaddedRows(f, c) = PaddedRows(g, c)
         /\ width_in_blocks(f, c) = width_in_blocks(g, c)
         /\ height_in_blocks(f, c) = height_in_blocks(g, c)
BY DEF width_in_blocks, height_in_blocks, PaddedCols, PaddedRows, max_h, max_v

(* A smaller image with the same components has no larger arrays.           *)
LEMMA SizesOfSmaller ==
  ASSUME NEW f, NEW g, HasComps(f), HasComps(g), f.comps = g.comps,
         f.width <= g.width, f.height <= g.height, NEW c \in DOMAIN f.comps
  PROVE  PaddedCols(f, c) <= PaddedCols(g, c) /\ PaddedRows(f, c) <= PaddedRows(g, c)
<1>1. max_h(f) = max_h(g) /\ max_v(f) = max_v(g)
  BY DEF max_h, max_v
<1>2. /\ f.width \in Pos /\ f.height \in Pos /\ g.width \in Pos /\ g.height \in Pos
      /\ max_h(f) \in Pos /\ max_v(f) \in Pos /\ f.comps[c].h \in Pos /\ f.comps[c].v \in Pos
  BY Factors DEF HasComps
<1>3. /\ Side(f.width, f.comps[c].h, max_h(f)) <= Side(g.width, f.comps[c].h, max_h(f))
      /\ Side(f.height, f.comps[c].v, max_v(f)) <= Side(g.height, f.comps[c].v, max_v(f))
  BY <1>2, SideMono
<1> QED
  BY <1>1, <1>3, SizesAsSides
-----------------------------------------------------------------------------
(* The parameters of the destination, step by step.                         *)
LEMMA CriticalIsParams ==
  ASSUME IsFile(src)
  PROVE  /\ Params(Critical) /\ Critical.width = src.width /\ Critical.height = src.height
         /\ Critical.comps = src.comps /\ Critical.space = src.space
BY DEF Params, Critical, IsFile, Pos

LEMMA GrayIsParams ==
  ASSUME NEW d, Params(d)
  PROVE  /\ Params(Gray(d)) /\ Gray(d).width = d.width /\ Gray(d).height = d.height
         /\ Gray(d).comps = <<[h |-> 1, v |-> 1, tbl |-> d.comps[1].tbl]>>
         /\ Gray(d).space = "GRAYSCALE"
<1> DEFINE k == <<[h |-> 1, v |-> 1, tbl |-> d.comps[1].tbl]>>
<1>1. d.comps[1] \in Component
  BY CompsOfParams, Factors
<1>2. k \in Seq(Component) /\ k # <<>>
  BY <1>1 DEF Component
<1> HIDE DEF k
<1>3. Gray(d) = [d EXCEPT !.space = "GRAYSCALE", !.write_JFIF_header = TRUE,
                          !.write_Adobe_marker = FALSE, !.comps = k]
  BY DEF Gray, k
<1>4. /\ Params(Gray(d)) /\ Gray(d).width = d.width /\ Gray(d).height = d.height
      /\ Gray(d).comps = k /\ Gray(d).space = "GRAYSCALE"
  BY <1>2, <1>3 DEF Params
<1> QED
  BY <1>4 DEF k

LEMMA TransposedIsParams ==
  ASSUME NEW d, Params(d), NEW t, t = transpose_critical_parameters(d)
  PROVE  /\ Params(t) /\ t.width = d.height /\ t.height = d.width /\ t.space = d.space
         /\ Len(t.comps) = Len(d.comps) /\ DOMAIN t.comps = DOMAIN d.comps
         /\ \A c \in DOMAIN d.comps : t.comps[c].h = d.comps[c].v /\ t.comps[c].v = d.comps[c].h
<1> DEFINE k == [c \in DOMAIN d.comps |->
                   [d.comps[c] EXCEPT !.h = d.comps[c].v, !.v = d.comps[c].h]]
           q == [n \in DOMAIN d.quant |-> Transposed(d.quant[n])]
<1>1. /\ \A c \in DOMAIN d.comps : d.comps[c] \in Component
      /\ DOMAIN d.comps = 1 .. Len(d.comps) /\ Len(d.comps) \in Pos
  BY CompsOfParams, Factors
<1>2. \A c \in DOMAIN d.comps :
        k[c] \in Component /\ k[c].h = d.comps[c].v /\ k[c].v = d.comps[c].h
  BY <1>1 DEF Component
<1>3. k \in Seq(Component) /\ Len(k) = Len(d.comps) /\ DOMAIN k = DOMAIN d.comps /\ k # <<>>
  <2>1. k \in [1 .. Len(d.comps) -> Component]
    BY <1>1, <1>2
  <2> HIDE DEF k
  <2> QED
    BY <1>1, <2>1 DEF Pos
<1> HIDE DEF k, q
<1>4. t = [d EXCEPT !.width = d.height, !.height = d.width, !.comps = k, !.quant = q]
  BY DEF transpose_critical_parameters, k, q, Params
<1>5. /\ Params(t) /\ t.width = d.height /\ t.height = d.width /\ t.space = d.space /\ t.comps = k
  BY <1>3, <1>4 DEF Params
<1> QED
  BY <1>2, <1>3, <1>5

LEMMA TransposedSizes ==
  ASSUME NEW d, Params(d), NEW t, t = transpose_critical_parameters(d), NEW c \in DOMAIN d.comps
  PROVE  PaddedCols(t, c) = PaddedRows(d, c) /\ PaddedRows(t, c) = PaddedCols(d, c)
<1>1. /\ t.width = d.height /\ t.height = d.width /\ DOMAIN t.comps = DOMAIN d.comps
      /\ \A e \in DOMAIN d.comps : t.comps[e].h = d.comps[e].v /\ t.comps[e].v = d.comps[e].h
  BY TransposedIsParams
<1>2. /\ {t.comps[e].h : e \in DOMAIN t.comps} = {d.comps[e].v : e \in DOMAIN d.comps}
      /\ {t.comps[e].v : e \in DOMAIN t.comps} = {d.comps[e].h : e \in DOMAIN d.comps}
  BY <1>1
<1>3. max_h(t) = max_v(d) /\ max_v(t) = max_h(d)
  BY <1>2 DEF max_h, max_v
<1> QED
  BY <1>1, <1>3, SizesAsSides

(* What trimming leaves alone, and that something is left.                  *)
Cut(t, d) == /\ Params(t) /\ t.comps = d.comps /\ t.space = d.space
             /\ t.width <= d.width /\ t.height <= d.height

LEMMA LessIsLeft ==
  ASSUME NEW n \in Pos, NEW w \in Pos, n \div w > 0
  PROVE  (n \div w) * w \in Pos /\ (n \div w) * w <= n
<1> DEFINE q == n \div w
<1>1. q \in Pos /\ q * w <= n
  BY DivBounds DEF Pos
<1> QED
  BY <1>1, MulPos

LEMMA RightEdgeCut == ASSUME NEW d, Params(d) PROVE Cut(trim_right_edge(d), d)
<1>1. CASE ~(MCU_cols(d) > 0)
  BY <1>1 DEF trim_right_edge, Cut, Params, Pos
<1>2. CASE MCU_cols(d) > 0
  <2> DEFINE n == MCU_cols(d) * (max_h(d) * DCTSIZE)
  <2>1. max_h(d) * DCTSIZE \in Pos /\ d.width \in Pos
    BY CompsOfParams, Factors, SizeIsPos, MulPos DEF HasComps
  <2>2. n \in Pos /\ n <= d.width
    BY <1>2, <2>1, LessIsLeft DEF MCU_cols
  <2> HIDE DEF n
  <2>3. trim_right_edge(d) = [d EXCEPT !.width = n]
    BY <1>2 DEF trim_right_edge, n
  <2> QED
    BY <2>2, <2>3 DEF Cut, Params, Pos
<1> QED
  BY <1>1, <1>2

LEMMA BottomEdgeCut == ASSUME NEW d, Params(d) PROVE Cut(trim_bottom_edge(d), d)
<1>1. CASE ~(MCU_rows(d) > 0)
  BY <1>1 DEF trim_bottom_edge, Cut, Params, Pos
<1>2. CASE MCU_rows(d) > 0
  <2> DEFINE n == MCU_rows(d) * (max_v(d) * DCTSIZE)
  <2>1. max_v(d) * DCTSIZE \in Pos /\ d.height \in Pos
    BY CompsOfParams, Factors, SizeIsPos, MulPos DEF HasComps
  <2>2. n \in Pos /\ n <= d.height
    BY <1>2, <2>1, LessIsLeft DEF MCU_rows
  <2> HIDE DEF n
  <2>3. trim_bottom_edge(d) = [d EXCEPT !.height = n]
    BY <1>2 DEF trim_bottom_edge, n
  <2> QED
    BY <2>2, <2>3 DEF Cut, Params, Pos
<1> QED
  BY <1>1, <1>2

LEMMA TrimmedCut == ASSUME NEW d, Params(d) PROVE Cut(Trimmed(d), d)
<1> DEFINE right == IF info.trim /\ turn \in {"FLIP_H", "TRANSVERSE", "ROT_90", "ROT_180"}
                    THEN trim_right_edge(d) ELSE d
<1>1. Cut(d, d)
  BY DEF Cut, Params, Pos
<1>2. Cut(right, d) /\ Params(right)
  BY <1>1, RightEdgeCut DEF Cut
<1> HIDE DEF right
<1>3. Trimmed(d) = IF info.trim /\ turn \in {"FLIP_V", "TRANSVERSE", "ROT_180", "ROT_270"}
                   THEN trim_bottom_edge(right) ELSE right
  BY DEF Trimmed, right
<1>4. Cut(trim_bottom_edge(right), right)
  BY <1>2, BottomEdgeCut
<1>5. Cut(trim_bottom_edge(right), d)
  BY <1>2, <1>4 DEF Cut, Params, Pos
<1> QED
  BY <1>2, <1>3, <1>5

LEMMA CutSizes ==
  ASSUME NEW d, Params(d), NEW t, Cut(t, d), NEW c \in DOMAIN d.comps
  PROVE  PaddedCols(t, c) <= PaddedCols(d, c) /\ PaddedRows(t, c) <= PaddedRows(d, c)
BY CompsOfParams, SizesOfSmaller DEF Cut

(* Without its colors a file has one component, which is no larger.         *)
LEMMA GraySizes ==
  ASSUME NEW d, Params(d), d.space = "YCbCr" \/ Len(d.comps) = 1, FullFirst(d)
  PROVE  /\ PaddedCols(Gray(d), 1) <= PaddedCols(d, 1) /\ PaddedRows(Gray(d), 1) <= PaddedRows(d, 1)
<1> DEFINE g == Gray(d)
<1>1. /\ Params(g) /\ g.width = d.width /\ g.height = d.height
      /\ DOMAIN g.comps = {1} /\ g.comps[1].h = 1 /\ g.comps[1].v = 1
  <2> DEFINE r == [h |-> 1, v |-> 1, tbl |-> d.comps[1].tbl]
  <2>1. Params(g) /\ g.width = d.width /\ g.height = d.height /\ g.comps = <<r>>
    BY GrayIsParams
  <2>2. r.h = 1 /\ r.v = 1
    OBVIOUS
  <2> HIDE DEF g, r
  <2>3. DOMAIN g.comps = {1} /\ g.comps[1] = r
    BY <2>1
  <2> QED
    BY <2>1, <2>2, <2>3
<1>2. max_h(d) = d.comps[1].h /\ max_v(d) = d.comps[1].v
  <2>1. /\ 1 \in DOMAIN d.comps /\ DOMAIN d.comps = 1 .. Len(d.comps)
        /\ d.comps[1].h <= max_h(d) /\ d.comps[1].v <= max_v(d)
        /\ \E c \in DOMAIN d.comps : d.comps[c].h = max_h(d)
        /\ \E c \in DOMAIN d.comps : d.comps[c].v = max_v(d)
        /\ max_h(d) \in Nat /\ max_v(d) \in Nat /\ d.comps[1].h \in Nat /\ d.comps[1].v \in Nat
    BY CompsOfParams, Factors DEF Pos
  <2>2. \A c \in DOMAIN d.comps :
          d.comps[c].h <= d.comps[1].h /\ d.comps[c].v <= d.comps[1].v
    <3>1. CASE d.space = "YCbCr"
      BY <3>1 DEF FullFirst
    <3>2. CASE Len(d.comps) = 1
      BY <2>1, <3>2
    <3> QED
      BY <3>1, <3>2
  <2> QED
    BY <2>1, <2>2
<1>3. max_h(g) = 1 /\ max_v(g) = 1
  <2>1. HasComps(g)
    BY <1>1, CompsOfParams
  <2> QED
    BY <1>1, <2>1, Factors
<1>4. d.width \in Pos /\ d.height \in Pos /\ max_h(d) \in Pos /\ max_v(d) \in Pos
  BY CompsOfParams, Factors DEF HasComps
<1>5. /\ Side(d.width, 1, 1) <= Side(d.width, max_h(d), max_h(d))
      /\ Side(d.height, 1, 1) <= Side(d.height, max_v(d), max_v(d))
  BY <1>4, SideOfOne
<1> QED
  BY <1>1, <1>2, <1>3, <1>5, SizesAsSides
-----------------------------------------------------------------------------
(* What the invariant says of the job.                                      *)
LEMMA InfoTyped ==
  ASSUME job \in Jobs, round \in DOMAIN job.options
  PROVE  /\ IsFile(Image(job.source)) /\ turn \in Transforms
         /\ job.options # <<>> /\ Len(job.options) \in Nat
         /\ DOMAIN job.options = 1 .. Len(job.options)
<1>1. /\ IsFile(Image(job.source)) /\ job.options # <<>>
      /\ job.options \in Seq([transform : Transforms, trim : BOOLEAN, force_grayscale : BOOLEAN,
                              copy : {"NONE", "COMMENTS", "ALL"}])
  BY JobsAssumption
<1>2. info \in [transform : Transforms, trim : BOOLEAN, force_grayscale : BOOLEAN,
                copy : {"NONE", "COMMENTS", "ALL"}]
  <2> DEFINE o == job.options
             T == [transform : Transforms, trim : BOOLEAN, force_grayscale : BOOLEAN,
                   copy : {"NONE", "COMMENTS", "ALL"}]
  <2>1. o \in Seq(T) /\ round \in DOMAIN o /\ info = o[round]
    BY <1>1 DEF info
  <2> HIDE DEF o, T
  <2>2. o[round] \in T
    BY <2>1
  <2> QED
    BY <2>1, <2>2 DEF T
<1> QED
  BY <1>1, <1>2 DEF turn, info

LEMMA InitInv == Init => TransformInv
<1> SUFFICES ASSUME Init PROVE TransformInv
  OBVIOUS
<1> DEFINE image == Image(job.source)
<1>1. /\ job \in Jobs /\ round = 1 /\ src = image /\ before = image
      /\ phase = "open" /\ at = <<1, 0>>
  BY DEF Init
<1>2. 1 \in DOMAIN job.options /\ IsFile(image)
  BY <1>1, JobsAssumption
<1> HIDE DEF image
<1>3. IsFile(src) /\ IsFile(before)
  BY <1>1, <1>2
<1>4. at \in Pos \X Nat /\ phase \in Phases /\ round \in DOMAIN job.options
  BY <1>1, <1>2 DEF Pos, Phases
<1>5. FileInv
  BY <1>1, <1>3, <1>4 DEF FileInv
<1>6. WorkInv /\ DstInv /\ TurnInv
  BY <1>1 DEF WorkInv, DstInv, TurnInv
<1> QED
  BY <1>1, <1>5, <1>6 DEF TransformInv

(* The part of the invariant that does not depend on the phase.             *)
LEMMA FileKept ==
  ASSUME TransformInv, UNCHANGED <<job, round, src, before>>, phase \notin {"open", "done"},
         phase' \in Phases, at' \in Pos \X Nat
  PROVE  job' \in Jobs /\ FileInv'
BY DEF TransformInv, FileInv, SameSizes

LEMMA WorkKept ==
  ASSUME TransformInv, UNCHANGED <<job, round, src, before, work, turned>>,
         phase \in {"read", "adjusted", "copying", "turning"},
         phase' \in {"read", "adjusted", "copying"} => phase \in {"read", "adjusted", "copying"}
  PROVE  WorkInv'
<1>1. /\ InPlace' = InPlace /\ Kept' = Kept /\ \A c : WorkSize(c)' = WorkSize(c)
  BY DEF InPlace, turn, info, Kept, WorkSize
<1> QED
  BY <1>1 DEF TransformInv, WorkInv
-----------------------------------------------------------------------------
(* The parameters of a file do not depend on its markers.                   *)
LEMMA MarkersAside ==
  ASSUME NEW f, IsFile(f), NEW ms, NEW g, g = [f EXCEPT !.markers = ms]
  PROVE  IsFile(g) /\ SameSizes(g, f)
<1>1. /\ g.width = f.width /\ g.height = f.height /\ g.comps = f.comps /\ g.space = f.space
      /\ g.arrays = f.arrays /\ g.quant = f.quant /\ g.markers = ms
      /\ g = [width |-> g.width, height |-> g.height, space |-> g.space, comps |-> g.comps,
              quant |-> g.quant, markers |-> g.markers, arrays |-> g.arrays]
  BY DEF IsFile
<1>2. g \in [width : Nat \ {0}, height : Nat \ {0}, space : {g.space}, comps : Seq(Component),
             quant : {g.quant}, markers : {g.markers}, arrays : {g.arrays}]
  <2>1. f.width \in Nat \ {0} /\ f.height \in Nat \ {0} /\ f.comps \in Seq(Component)
    BY DEF IsFile
  <2> QED
    BY <1>1, <2>1
<1>3. \A c : PaddedRows(g, c) = PaddedRows(f, c) /\ PaddedCols(g, c) = PaddedCols(f, c)
  <2>1. g.width = f.width /\ g.height = f.height /\ g.comps = f.comps
    BY <1>1
  <2> QED
    BY <2>1, SizesOfSame, Zenon
<1>4. /\ g.comps # <<>> /\ g.arrays = [c \in DOMAIN g.comps |-> g.arrays[c]]
      /\ \A c \in DOMAIN g.comps :
           g.arrays[c] \in [0 .. PaddedRows(g, c) - 1 -> [0 .. PaddedCols(g, c) - 1 -> [Places -> Int]]]
  BY <1>1, <1>3 DEF IsFile
<1>5. IsFile(g)
  BY <1>2, <1>4 DEF IsFile
<1> QED
  BY <1>1, <1>5 DEF SameSizes

LEMMA ReadHeaderInv == TransformInv /\ ReadHeader => TransformInv'
<1> SUFFICES ASSUME TransformInv, ReadHeader PROVE TransformInv'
  OBVIOUS
<1> DEFINE ms == Those(src.markers, Saved)
<1>1. /\ phase' = "header" /\ before' = src /\ src' = [src EXCEPT !.markers = ms]
      /\ UNCHANGED <<job, round, at>>
  BY DEF ReadHeader
<1> HIDE DEF ms
<1>2. IsFile(src) /\ IsFile(src') /\ SameSizes(src', src)
  BY <1>1, MarkersAside DEF TransformInv, FileInv
<1>3. FileInv' /\ job' \in Jobs
  BY <1>1, <1>2 DEF TransformInv, FileInv, Phases
<1> QED
  BY <1>1, <1>3 DEF TransformInv, WorkInv, DstInv, TurnInv

LEMMA RequestInv == TransformInv /\ jtransform_request_workspace => TransformInv'
<1> SUFFICES ASSUME TransformInv, jtransform_request_workspace PROVE TransformInv'
  OBVIOUS
<1>1. /\ phase = "header" /\ phase' = "read" /\ UNCHANGED <<job, round, src, dst, at, before>>
      /\ turned' = [c \in DOMAIN work' |-> <<>>]
  BY DEF jtransform_request_workspace
<1>2. src.comps = before.comps /\ src.space = before.space
  BY <1>1 DEF TransformInv, FileInv, SameSizes
<1>3. work' = IF InPlace THEN <<>> ELSE [c \in 1 .. Kept |-> WorkSize(c)]
  BY <1>2 DEF jtransform_request_workspace, Kept
<1>4. /\ InPlace' = InPlace /\ Kept' = Kept /\ \A c : WorkSize(c)' = WorkSize(c)
  BY <1>1 DEF InPlace, turn, info, Kept, WorkSize
<1>5. WorkInv'
  BY <1>1, <1>3, <1>4 DEF WorkInv
<1>6. job' \in Jobs /\ FileInv'
  BY <1>1, FileKept DEF Phases, TransformInv, FileInv
<1> QED
  BY <1>1, <1>5, <1>6 DEF TransformInv, DstInv, TurnInv
-----------------------------------------------------------------------------
(* jtransform_adjust_parameters: the components left, before they are       *)
(* turned and trimmed.                                                      *)
LEMMA LeftWithin ==
  ASSUME TransformInv, phase = "read", ~GrayFails,
         NEW d, d = IF info.force_grayscale THEN Gray(Critical) ELSE Critical
  PROVE  /\ Params(d) /\ Len(d.comps) = Kept /\ DOMAIN d.comps = 1 .. Kept
         /\ \A c \in 1 .. Kept :
              d.comps[c].h <= before.comps[c].h /\ d.comps[c].v <= before.comps[c].v
         /\ ~Overgrown => \A c \in 1 .. Kept :
              /\ PaddedCols(d, c) <= PaddedCols(before, c)
              /\ PaddedRows(d, c) <= PaddedRows(before, c)
<1>1. /\ IsFile(src) /\ IsFile(before) /\ SameSizes(src, before)
      /\ job \in Jobs /\ round \in DOMAIN job.options
  BY DEF TransformInv, FileInv
<1>2. /\ Params(Critical) /\ Critical.width = before.width /\ Critical.height = before.height
      /\ Critical.comps = before.comps /\ Critical.space = before.space
  BY <1>1, CriticalIsParams DEF SameSizes
<1>3. /\ HasComps(before) /\ DOMAIN before.comps = 1 .. Len(before.comps)
      /\ Len(before.comps) \in Pos
      /\ \A c \in DOMAIN before.comps : /\ before.comps[c].h \in Pos /\ before.comps[c].v \in Pos
                                        /\ PaddedCols(before, c) \in Nat
                                        /\ PaddedRows(before, c) \in Nat
  BY <1>1, CompsOfFile, Factors, SizesTyped
<1>4. \A c : /\ PaddedCols(Critical, c) = PaddedCols(before, c)
             /\ PaddedRows(Critical, c) = PaddedRows(before, c)
  <2> TAKE c
  <2> QED
    BY <1>2, SizesOfSame
<1>5. CASE ~info.force_grayscale
  <2>1. d = Critical /\ Kept = Len(before.comps)
    BY <1>5 DEF Kept
  <2> QED
    BY <1>1, <1>2, <1>3, <1>4, <2>1 DEF Pos
<1>6. CASE info.force_grayscale
  <2>1. d = Gray(Critical) /\ Kept = 1
        /\ (Critical.space = "YCbCr" \/ Len(Critical.comps) = 1)
    BY <1>1, <1>2, <1>6 DEF Kept, GrayFails, SameSizes
  <2> DEFINE r == [h |-> 1, v |-> 1, tbl |-> Critical.comps[1].tbl]
  <2>2. Params(d) /\ d.comps = <<r>>
    BY <1>2, <2>1, GrayIsParams
  <2>3. ~Overgrown => /\ PaddedCols(d, 1) <= PaddedCols(Critical, 1)
                      /\ PaddedRows(d, 1) <= PaddedRows(Critical, 1)
    <3> HAVE ~Overgrown
    <3>1. FullFirst(Critical)
      BY <1>2, <1>6 DEF Overgrown, FullFirst
    <3> QED
      BY <1>2, <2>1, <3>1, GraySizes
  <2>4. r.h = 1 /\ r.v = 1
    OBVIOUS
  <2> HIDE DEF r
  <2>5. Len(d.comps) = 1 /\ DOMAIN d.comps = 1 .. 1 /\ d.comps[1] = r
    BY <2>2
  <2>6. 1 <= before.comps[1].h /\ 1 <= before.comps[1].v
    BY <1>3 DEF Pos
  <2> QED
    BY <1>4, <2>1, <2>2, <2>3, <2>4, <2>5, <2>6
<1> QED
  BY <1>5, <1>6

LEMMA AdjustedWithin ==
  ASSUME TransformInv, phase = "read", ~GrayFails,
         NEW d, d = (IF info.force_grayscale THEN Gray(Critical) ELSE Critical),
         NEW e, e = Trimmed(IF turn \in Transposes THEN transpose_critical_parameters(d) ELSE d)
  PROVE  Params(e) /\ Within(e)
<1>1. /\ Params(d) /\ Len(d.comps) = Kept /\ DOMAIN d.comps = 1 .. Kept
      /\ \A c \in 1 .. Kept :
           d.comps[c].h <= before.comps[c].h /\ d.comps[c].v <= before.comps[c].v
      /\ ~Overgrown => \A c \in 1 .. Kept :
           /\ PaddedCols(d, c) <= PaddedCols(before, c)
           /\ PaddedRows(d, c) <= PaddedRows(before, c)
  BY LeftWithin
<1>2. \A c \in 1 .. Kept : PaddedCols(before, c) \in Nat /\ PaddedRows(before, c) \in Nat
  <2>1. 1 .. Kept \subseteq DOMAIN before.comps /\ HasComps(before)
    <3>1. HasComps(before)
      BY CompsOfFile DEF TransformInv, FileInv
    <3>2. DOMAIN before.comps = 1 .. Len(before.comps) /\ Len(before.comps) \in Pos
      BY <3>1, Factors
    <3> QED
      BY <3>1, <3>2 DEF Kept, Pos
  <2> QED
    BY <2>1, SizesTyped
<1>3. CASE turn \notin Transposes
  <2>1. Cut(e, d)
    BY <1>1, <1>3, TrimmedCut
  <2>2. \A c \in 1 .. Kept : /\ PaddedCols(e, c) <= PaddedCols(d, c)
                             /\ PaddedRows(e, c) <= PaddedRows(d, c)
                             /\ PaddedCols(e, c) \in Nat /\ PaddedRows(e, c) \in Nat
                             /\ PaddedCols(d, c) \in Nat /\ PaddedRows(d, c) \in Nat
    BY <1>1, <2>1, CutSizes, CompsOfParams, SizesTyped DEF Cut
  <2>3. ~Overgrown => \A c \in 1 .. Kept : PaddedCols(e, c) <= PaddedCols(before, c)
                                        /\ PaddedRows(e, c) <= PaddedRows(before, c)
    BY <1>1, <1>2, <2>2
  <2>4. Len(e.comps) = Kept
    BY <1>1, <2>1 DEF Cut
  <2> QED
    BY <1>1, <1>3, <2>1, <2>3, <2>4 DEF Within, Cut
<1>4. CASE turn \in Transposes
  <2> DEFINE t == transpose_critical_parameters(d)
  <2>1. /\ Params(t) /\ Len(t.comps) = Kept /\ DOMAIN t.comps = 1 .. Kept
        /\ \A c \in 1 .. Kept : t.comps[c].h = d.comps[c].v /\ t.comps[c].v = d.comps[c].h
    BY <1>1, TransposedIsParams
  <2>2. \A c \in 1 .. Kept : PaddedCols(t, c) = PaddedRows(d, c) /\ PaddedRows(t, c) = PaddedCols(d, c)
    BY <1>1, TransposedSizes
  <2> HIDE DEF t
  <2>3. Cut(e, t)
    BY <1>4, <2>1, TrimmedCut DEF t
  <2>4. \A c \in 1 .. Kept : /\ PaddedCols(e, c) <= PaddedCols(t, c)
                             /\ PaddedRows(e, c) <= PaddedRows(t, c)
                             /\ PaddedCols(e, c) \in Nat /\ PaddedRows(e, c) \in Nat
                             /\ PaddedCols(t, c) \in Nat /\ PaddedRows(t, c) \in Nat
    BY <2>1, <2>3, CutSizes, CompsOfParams, SizesTyped DEF Cut
  <2>5. ~Overgrown => \A c \in 1 .. Kept : PaddedCols(e, c) <= PaddedRows(before, c)
                                        /\ PaddedRows(e, c) <= PaddedCols(before, c)
    BY <1>1, <1>2, <2>2, <2>4
  <2> QED
    BY <1>1, <1>4, <2>1, <2>3, <2>5 DEF Within, Cut
<1> QED
  BY <1>3, <1>4

LEMMA AdjustInv == TransformInv /\ jtransform_adjust_parameters => TransformInv'
<1> SUFFICES ASSUME TransformInv, jtransform_adjust_parameters PROVE TransformInv'
  OBVIOUS
<1>1. /\ phase = "read" /\ phase' \in {"adjusted", "error"}
      /\ UNCHANGED <<job, round, src, work, turned, at, before>>
  BY DEF jtransform_adjust_parameters
<1>2. job' \in Jobs /\ FileInv'
  BY <1>1, FileKept DEF Phases, TransformInv, FileInv
<1>3. WorkInv'
  BY <1>1, WorkKept
<1>4. CASE GrayFails
  BY <1>1, <1>2, <1>3, <1>4
  DEF jtransform_adjust_parameters, TransformInv, DstInv, TurnInv
<1>5. CASE ~GrayFails
  <2> DEFINE d == IF info.force_grayscale THEN Gray(Critical) ELSE Critical
  <2>1. /\ phase' = "adjusted"
        /\ dst' = Trimmed(IF turn \in Transposes THEN transpose_critical_parameters(d) ELSE d)
    BY <1>5 DEF jtransform_adjust_parameters
  <2> HIDE DEF d
  <2>2. Params(dst') /\ Within(dst')
    BY <1>1, <1>5, <2>1, AdjustedWithin DEF d
  <2>3. Within(dst)'
    BY <1>1, <2>2 DEF Within, Kept, turn, info, Overgrown, FullFirst
  <2> QED
    BY <1>1, <1>2, <1>3, <2>1, <2>2, <2>3 DEF TransformInv, DstInv, TurnInv
<1> QED
  BY <1>4, <1>5
-----------------------------------------------------------------------------
(* The destination while its arrays are made.                               *)
LEMMA Destination ==
  ASSUME TransformInv, phase \in {"adjusted", "copying", "turning"}
  PROVE  /\ Kept \in Pos /\ HasComps(dst) /\ HasComps(before) /\ HasComps(src)
         /\ Len(dst.comps) = Kept /\ DOMAIN dst.comps = 1 .. Kept
         /\ 1 .. Kept \subseteq DOMAIN before.comps
         /\ src.comps = before.comps /\ DOMAIN src.comps = DOMAIN before.comps
         /\ \A c : PaddedCols(src, c) = PaddedCols(before, c) /\ PaddedRows(src, c) = PaddedRows(before, c)
         /\ (work = <<>> <=> InPlace) /\ (~InPlace => DOMAIN work = 1 .. Kept)
         /\ DOMAIN turned = DOMAIN work /\ DOMAIN work \subseteq 1 .. Kept
<1>1. /\ IsFile(src) /\ IsFile(before) /\ SameSizes(src, before) /\ Params(dst) /\ Within(dst)
      /\ work = IF InPlace THEN <<>> ELSE [c \in 1 .. Kept |-> WorkSize(c)]
      /\ turned = [c \in DOMAIN work |-> turned[c]]
  BY DEF TransformInv, FileInv, DstInv, WorkInv
<1>2. HasComps(dst) /\ HasComps(before) /\ HasComps(src)
  BY <1>1, CompsOfFile, CompsOfParams
<1>3. /\ DOMAIN before.comps = 1 .. Len(before.comps) /\ Len(before.comps) \in Pos
      /\ DOMAIN dst.comps = 1 .. Len(dst.comps)
  BY <1>2, Factors
<1>4. Kept \in Pos /\ Kept <= Len(before.comps)
  BY <1>3 DEF Kept, Pos
<1>5. Len(dst.comps) = Kept
  BY <1>1 DEF Within
<1>6. src.comps = before.comps /\ src.width = before.width /\ src.height = before.height
  BY <1>1 DEF SameSizes
<1>7. ASSUME NEW c
      PROVE  PaddedCols(src, c) = PaddedCols(before, c) /\ PaddedRows(src, c) = PaddedRows(before, c)
  BY <1>6, SizesOfSame
<1>8. DOMAIN turned = DOMAIN work
  BY <1>1
<1>9. CASE InPlace
  <2>1. work = <<>> /\ DOMAIN work = {}
    BY <1>1, <1>9
  <2> QED
    BY <1>2, <1>3, <1>4, <1>5, <1>6, <1>7, <1>8, <1>9, <2>1 DEF Pos
<1>10. CASE ~InPlace
  <2>1. DOMAIN work = 1 .. Kept
    BY <1>1, <1>10
  <2>2. work # <<>>
    <3>1. 1 \in DOMAIN work
      BY <1>4, <2>1 DEF Pos
    <3> QED
      BY <3>1
  <2> QED
    BY <1>2, <1>3, <1>4, <1>5, <1>6, <1>7, <1>8, <1>10, <2>1, <2>2 DEF Pos
<1> QED
  BY <1>9, <1>10

LEMMA DstKept ==
  ASSUME TransformInv, UNCHANGED <<job, round, before, dst>>, phase \in {"adjusted", "copying", "turning"}
  PROVE  /\ Params(dst)' /\ Within(dst)'
         /\ Kept' = Kept /\ \A c : RowsOf(c)' = RowsOf(c)
<1>1. Within(dst)' = Within(dst) /\ Kept' = Kept
  BY DEF Within, Kept, turn, info, Overgrown, FullFirst
<1> QED
  BY <1>1 DEF TransformInv, DstInv, RowsOf

LEMMA WriteCoefficientsInv == TransformInv /\ WriteCoefficients => TransformInv'
<1> SUFFICES ASSUME TransformInv, WriteCoefficients PROVE TransformInv'
  OBVIOUS
<1>1. /\ phase = "adjusted" /\ phase' = "copying" /\ at' = <<1, 0>>
      /\ UNCHANGED <<job, round, src, work, dst, turned, before>>
  BY DEF WriteCoefficients
<1>2. job' \in Jobs /\ FileInv'
  BY <1>1, FileKept DEF Phases, Pos
<1>3. WorkInv'
  BY <1>1, WorkKept
<1>4. DstInv'
  BY <1>1, DstKept DEF DstInv
<1> QED
  BY <1>1, <1>2, <1>3, <1>4 DEF TransformInv, TurnInv

LEMMA CopyMarkersInv == TransformInv /\ jcopy_markers_execute => TransformInv'
<1> SUFFICES ASSUME TransformInv, jcopy_markers_execute PROVE TransformInv'
  OBVIOUS
<1>1. /\ phase = "copying" /\ phase' = "turning"
      /\ UNCHANGED <<job, round, src, work, dst, turned, at, before>>
  BY DEF jcopy_markers_execute
<1>2. job' \in Jobs /\ FileInv'
  BY <1>1, FileKept DEF Phases, TransformInv, FileInv
<1>3. WorkInv'
  BY <1>1, WorkKept
<1>4. DstInv'
  BY <1>1, DstKept DEF DstInv
<1>5. /\ at = <<1, 0>> /\ \A c \in DOMAIN work : turned[c] = <<>>
  BY <1>1 DEF TransformInv, DstInv, WorkInv
<1>6. Kept \in Pos /\ HasComps(dst) /\ DOMAIN dst.comps = 1 .. Kept /\ DOMAIN work \subseteq 1 .. Kept
  BY <1>1, Destination
<1>7. dst.comps[1].v \in Pos /\ height_in_blocks(dst, 1) \in Pos
  BY <1>6, Factors, SizesTyped DEF Pos
<1>8. /\ at[1] <= Kept + 1
      /\ at[2] % dst.comps[at[1]].v = 0 /\ at[2] < height_in_blocks(dst, at[1])
  <2>1. at[1] = 1 /\ at[2] = 0
    BY <1>5
  <2>2. 0 % dst.comps[1].v = 0
    BY <1>7 DEF Pos
  <2> QED
    BY <1>6, <1>7, <2>1, <2>2 DEF Pos
<1>9. ASSUME NEW c \in DOMAIN work
      PROVE  /\ turned[c] \in RowsOf(c)
             /\ c < at[1] => height_in_blocks(dst, c) <= Len(turned[c])
             /\ c = at[1] => Len(turned[c]) = at[2]
             /\ c > at[1] => Len(turned[c]) = 0
  <2>1. turned[c] = <<>> /\ at[1] = 1 /\ at[2] = 0 /\ c \in 1 .. Kept
    BY <1>5, <1>6
  <2>2. <<>> \in RowsOf(c) /\ Len(<<>>) = 0
    BY DEF RowsOf
  <2>3. ~(c < at[1])
    BY <1>6, <2>1 DEF Pos
  <2> QED
    BY <2>1, <2>2, <2>3
<1>10. TurnInv
  BY <1>8, <1>9 DEF TurnInv
<1>11. TurnInv'
  BY <1>1, <1>8, <1>9, DstKept DEF TurnInv
<1> QED
  BY <1>1, <1>2, <1>3, <1>4, <1>11 DEF TransformInv
-----------------------------------------------------------------------------
(* Blocks are turned into blocks.                                           *)
LEMMA PlacesTurned == ASSUME NEW p \in Places PROVE <<p[2], p[1]>> \in Places
BY DEF Places

LEMMA BlocksTurned ==
  ASSUME NEW b \in Block
  PROVE  FlipCols(b) \in Block /\ FlipRows(b) \in Block /\ Transposed(b) \in Block
<1>1. \A p \in Places : b[p] \in Int /\ -b[p] \in Int /\ b[<<p[2], p[1]>>] \in Int
  <2>1. \A q \in Places : b[q] \in Int /\ -b[q] \in Int
    BY DEF Block
  <2>2. \A p \in Places : <<p[2], p[1]>> \in Places
    BY PlacesTurned
  <2> QED
    BY <2>1, <2>2
<1> QED
  BY <1>1 DEF FlipCols, FlipRows, Transposed, Block

LEMMA BlockOfFile ==
  ASSUME NEW f, IsFile(f), NEW c \in DOMAIN f.comps,
         NEW y \in 0 .. PaddedRows(f, c) - 1, NEW x \in 0 .. PaddedCols(f, c) - 1
  PROVE  f.arrays[c][y][x] \in Block
<1>1. f.arrays[c] \in [0 .. PaddedRows(f, c) - 1 -> [0 .. PaddedCols(f, c) - 1 -> [Places -> Int]]]
  BY DEF IsFile
<1>2. f.arrays[c][y] \in [0 .. PaddedCols(f, c) - 1 -> [Places -> Int]]
  BY <1>1
<1> QED
  BY <1>2 DEF Block

(* Mirroring stays inside.                                                  *)
LEMMA MirrorInside ==
  ASSUME NEW n \in Nat, NEW m \in Nat, NEW x \in 0 .. m - 1, n <= m
  PROVE  /\ Mirror(n, x) \in 0 .. m - 1
         /\ x < n => n - x - 1 \in 0 .. m - 1
         /\ m - x - 1 \in 0 .. m - 1
BY DEF Mirror

-----------------------------------------------------------------------------
(* The outer loops go on with the next rows, or the next component.         *)
LEMMA NextRowsOf ==
  ASSUME TransformInv, phase = "turning", RowsLeft
  PROVE  LET c == at[1]   y == at[2]   v == dst.comps[at[1]].v
         IN /\ c \in 1 .. Kept /\ y \in Nat /\ v \in Pos
            /\ y % v = 0 /\ y < height_in_blocks(dst, c) /\ y + v <= PaddedRows(dst, c)
            /\ y + v < height_in_blocks(dst, c) =>
                 NextRows = <<c, y + v>> /\ (y + v) % v = 0
            /\ ~(y + v < height_in_blocks(dst, c)) =>
                 /\ NextRows = <<c + 1, 0>> /\ height_in_blocks(dst, c) <= y + v
                 /\ c + 1 <= Kept => /\ 0 % dst.comps[c + 1].v = 0
                                     /\ 0 < height_in_blocks(dst, c + 1)
            /\ NextRows \in Pos \X Nat
<1> DEFINE c == at[1]   y == at[2]   v == dst.comps[at[1]].v
<1>1. HasComps(dst) /\ Len(dst.comps) = Kept /\ DOMAIN dst.comps = 1 .. Kept /\ Kept \in Pos
  BY Destination
<1>2. c \in 1 .. Kept /\ y \in Nat /\ c \in Pos
  BY <1>1 DEF RowsLeft, TransformInv, FileInv, Pos
<1>3. y % v = 0 /\ y < height_in_blocks(dst, c)
  BY <1>2 DEF TransformInv, TurnInv
<1>4. \A e \in 1 .. Kept : dst.comps[e].v \in Pos /\ height_in_blocks(dst, e) \in Pos
  BY <1>1, Factors, SizesTyped
<1>5. y + v <= PaddedRows(dst, c)
  <2>1. dst.height \in Pos /\ max_v(dst) \in Pos /\ v \in Pos
    BY <1>1, <1>2, <1>4, Factors DEF HasComps
  <2>2. /\ height_in_blocks(dst, c) = Blocks(dst.height, v, max_v(dst))
        /\ PaddedRows(dst, c) = Side(dst.height, v, max_v(dst))
    BY SizesAsSides
  <2> HIDE DEF c, y, v
  <2> QED
    BY <1>2, <1>3, <2>1, <2>2, SideAligned
<1>6. y + v \in Nat /\ (y + v) % v = 0
  <2>1. v \in Pos
    BY <1>2, <1>4
  <2> HIDE DEF y, v
  <2> QED
    BY <1>2, <1>3, <2>1, NextAligned
<1>7. c + 1 <= Kept => 0 % dst.comps[c + 1].v = 0 /\ 0 < height_in_blocks(dst, c + 1)
  <2> HAVE c + 1 <= Kept
  <2>1. c + 1 \in 1 .. Kept
    BY <1>1, <1>2 DEF Pos
  <2>2. dst.comps[c + 1].v \in Pos /\ height_in_blocks(dst, c + 1) \in Pos
    BY <1>4, <2>1
  <2> QED
    BY <2>2 DEF Pos
<1>8. NextRows = IF y + v < height_in_blocks(dst, c) THEN <<c, y + v>> ELSE <<c + 1, 0>>
  BY DEF NextRows
<1>9. height_in_blocks(dst, c) \in Nat /\ v \in Pos
  BY <1>2, <1>4 DEF Pos
<1> HIDE DEF c, y, v
<1>10. ~(y + v < height_in_blocks(dst, c)) => height_in_blocks(dst, c) <= y + v
  BY <1>6, <1>9
<1>11. NextRows \in Pos \X Nat
  BY <1>2, <1>6, <1>8 DEF Pos
<1> QED
  BY <1>2, <1>3, <1>5, <1>6, <1>7, <1>8, <1>9, <1>10, <1>11 DEF c, y, v

(* The position after a step of the loops.                                  *)
LEMMA NextPosition ==
  ASSUME TransformInv, phase = "turning", RowsLeft, at' = NextRows,
         UNCHANGED <<job, round, before, dst>>
  PROVE  /\ at'[1] <= Kept + 1
         /\ at'[1] <= Kept => /\ at'[2] % dst.comps[at'[1]].v = 0
                              /\ at'[2] < height_in_blocks(dst, at'[1])
         /\ \/ at'[1] = at[1] /\ at'[2] = at[2] + dst.comps[at[1]].v
            \/ /\ at'[1] = at[1] + 1 /\ at'[2] = 0
               /\ height_in_blocks(dst, at[1]) <= at[2] + dst.comps[at[1]].v
<1> DEFINE c == at[1]   y == at[2]   v == dst.comps[at[1]].v
<1>1. /\ c \in 1 .. Kept /\ y \in Nat /\ v \in Pos
      /\ y + v < height_in_blocks(dst, c) => NextRows = <<c, y + v>> /\ (y + v) % v = 0
      /\ ~(y + v < height_in_blocks(dst, c)) =>
           /\ NextRows = <<c + 1, 0>> /\ height_in_blocks(dst, c) <= y + v
           /\ c + 1 <= Kept => 0 % dst.comps[c + 1].v = 0 /\ 0 < height_in_blocks(dst, c + 1)
  BY NextRowsOf
<1>2. Kept \in Pos
  BY Destination
<1>3. CASE y + v < height_in_blocks(dst, c)
  <2>1. at'[1] = c /\ at'[2] = y + v
    BY <1>1, <1>3
  <2> QED
    BY <1>1, <1>2, <1>3, <2>1 DEF Pos
<1>4. CASE ~(y + v < height_in_blocks(dst, c))
  <2>1. at'[1] = c + 1 /\ at'[2] = 0
    BY <1>1, <1>4
  <2> QED
    BY <1>1, <1>2, <1>4, <2>1 DEF Pos
<1> QED
  BY <1>3, <1>4

(* If a step fits, the source of each of its blocks is in the source array. *)
LEMMA SourceRowsFit ==
  ASSUME TransformInv, phase = "turning", RowsLeft, StepFits
  PROVE  LET c == at[1]   y == at[2]   v == dst.comps[at[1]].v
             h == comp_height(at[1])   R == PaddedRows(src, at[1])
         IN /\ turn \in Transposes => PaddedCols(dst, c) <= R
            /\ turn \in {"FLIP_V", "ROT_180"} /\ y < h => h - y <= R /\ y + v <= h
            /\ turn \in {"FLIP_V", "ROT_180"} /\ ~(y < h) => y + v <= R
<1> DEFINE c == at[1]   y == at[2]   v == dst.comps[at[1]].v   h == comp_height(at[1])
           R == PaddedRows(src, at[1])   cols == PaddedCols(dst, at[1])   s == dst.comps[at[1]].h
<1>1. /\ c \in 1 .. Kept /\ y \in Nat /\ v \in Pos /\ y % v = 0
      /\ HasComps(dst) /\ HasComps(src) /\ c \in DOMAIN dst.comps /\ c \in DOMAIN src.comps
  BY NextRowsOf, Destination
<1>2. cols \in Nat /\ R \in Nat /\ h \in Nat /\ s \in Pos
  BY <1>1, SizesTyped, Factors DEF comp_height
<1>3. \A r \in SourceRows(c, y) : r.start >= 0 /\ r.start + r.num <= R
  BY DEF StepFits, RowsGranted
<1>4. ASSUME turn \in Transposes PROVE cols <= R
  <2>1. \A i \in 0 .. (cols \div s) - 1 : s * i + s <= R
    <3> TAKE i \in 0 .. (cols \div s) - 1
    <3>1. [start |-> s * i, num |-> s] \in SourceRows(c, y)
      BY <1>4 DEF SourceRows
    <3> QED
      BY <1>3, <3>1
  <2>2. cols % s = 0
    <3>1. cols = DivUp(width_in_blocks(dst, c), s) * s
      BY DEF PaddedCols, RoundUp
    <3>2. width_in_blocks(dst, c) \in Nat
      BY <1>1, SizesTyped DEF Pos
    <3>3. DivUp(width_in_blocks(dst, c), s) \in Nat
      BY <1>2, <3>2, DivUpBounds
    <3> DEFINE n == DivUp(width_in_blocks(dst, c), s)
    <3> HIDE DEF n, cols, s
    <3>4. n \in Int /\ (n * s) % s = 0
      BY <1>2, <3>3, DivMultiple DEF n
    <3> QED
      BY <3>1, <3>4 DEF n
  <2> HIDE DEF cols, s, R
  <2> DEFINE q == cols \div s
  <2>3. q \in Nat /\ cols = q * s
    BY <1>2, <2>2, ModMultiple
  <2>4. CASE q = 0
    BY <1>2, <2>3, <2>4 DEF Pos
  <2>5. CASE q # 0
    <3>1. q - 1 \in 0 .. q - 1
      BY <2>3, <2>5
    <3>2. s * (q - 1) + s <= R
      BY <2>1, <3>1
    <3> HIDE DEF q
    <3>3. s * (q - 1) + s = q * s
      <4>1. s \in Int /\ q - 1 \in Int /\ (q - 1) + 1 = q
        BY <1>2, <2>3 DEF Pos
      <4>2. ((q - 1) + 1) * s = (q - 1) * s + s /\ (q - 1) * s = s * (q - 1)
        BY <4>1, MulSucc
      <4> QED
        BY <4>1, <4>2
    <3> QED
      BY <2>3, <3>2, <3>3
  <2> QED
    BY <2>4, <2>5
<1>5. ASSUME turn \in {"FLIP_V", "ROT_180"}, y < h PROVE h - y <= R /\ y + v <= h
  <2>1. [start |-> h - y - v, num |-> v] \in SourceRows(c, y)
    BY <1>5 DEF SourceRows, Transposes
  <2>2. h - y - v + v <= R
    BY <1>3, <2>1
  <2>3. h = WholeSide(dst.height, v, max_v(dst))
    BY SizesAsSides DEF comp_height
  <2>4. dst.height \in Pos /\ max_v(dst) \in Pos
    BY <1>1, Factors DEF HasComps
  <2> HIDE DEF c, y, v, h, R, cols, s
  <2>5. y + v <= h
    BY <1>1, <1>5, <2>3, <2>4, SideAligned
  <2>6. h - y <= R
    BY <1>1, <1>2, <2>2 DEF Pos
  <2> QED
    BY <2>5, <2>6
<1>6. ASSUME turn \in {"FLIP_V", "ROT_180"}, ~(y < h) PROVE y + v <= R
  <2>1. [start |-> y, num |-> v] \in SourceRows(c, y)
    BY <1>6 DEF SourceRows, Transposes
  <2> QED
    BY <1>3, <2>1
<1> QED
  BY <1>4, <1>5, <1>6

LEMMA SourceColumnsFit ==
  ASSUME TransformInv, phase = "turning", RowsLeft, StepFits
  PROVE  LET c == at[1]   y == at[2]   v == dst.comps[at[1]].v
             h == comp_height(at[1])   C == PaddedCols(src, at[1])
         IN /\ turn = "FLIP_H" => comp_width(c) <= C
            /\ turn \in {"FLIP_V", "ROT_180"} => PaddedCols(dst, c) <= C
            /\ turn \in {"ROT_270", "TRANSVERSE"} /\ y < h => h - y <= C /\ y + v <= h
            /\ turn \in {"ROT_270", "TRANSVERSE"} /\ ~(y < h) => y + v <= C
            /\ turn \in {"TRANSPOSE", "ROT_90"} => y + v <= C
<1> DEFINE c == at[1]   y == at[2]   v == dst.comps[at[1]].v   h == comp_height(at[1])
           C == PaddedCols(src, at[1])
<1>1. /\ c \in 1 .. Kept /\ y \in Nat /\ v \in Pos /\ y % v = 0
      /\ HasComps(dst) /\ c \in DOMAIN dst.comps
  BY NextRowsOf, Destination
<1>2. ColumnsRead(c, y) <= C
  BY DEF StepFits, ColumnsExist
<1>3. turn = "FLIP_H" => ColumnsRead(c, y) = comp_width(c)
  BY DEF ColumnsRead
<1>4. turn \in {"FLIP_V", "ROT_180"} => ColumnsRead(c, y) = PaddedCols(dst, c)
  BY DEF ColumnsRead
<1>5. turn \in {"ROT_270", "TRANSVERSE"} /\ y < h => ColumnsRead(c, y) = h - y
  BY DEF ColumnsRead
<1>6. turn \in {"ROT_270", "TRANSVERSE"} /\ ~(y < h) => ColumnsRead(c, y) = y + v
  BY DEF ColumnsRead
<1>7. turn \in {"TRANSPOSE", "ROT_90"} => ColumnsRead(c, y) = y + v
  BY DEF ColumnsRead
<1>8. y < h => y + v <= h
  <2>1. h = WholeSide(dst.height, v, max_v(dst))
    BY SizesAsSides DEF comp_height
  <2>2. dst.height \in Pos /\ max_v(dst) \in Pos
    BY <1>1, Factors DEF HasComps
  <2> HIDE DEF y, v, h
  <2> QED
    BY <1>1, <2>1, <2>2, SideAligned
<1> HIDE DEF c, y, v, h, C
<1> QED
  BY <1>2, <1>3, <1>4, <1>5, <1>6, <1>7, <1>8 DEF c, y, v, h, C

LEMMA TurnedInside ==
  ASSUME TransformInv, phase = "turning", RowsLeft, StepFits, ~InPlace,
         NEW c, c = at[1], NEW r \in 0 .. dst.comps[c].v - 1, NEW y, y = at[2] + r,
         NEW x \in 0 .. PaddedCols(dst, c) - 1,
         NEW a, a = src.arrays[c]
  PROVE  TurnedBlock(c, a, y, x) \in Block
<1> DEFINE w == comp_width(c)   h == comp_height(c)   v == dst.comps[c].v
           cols == PaddedCols(dst, c)   y0 == at[2]
           R == PaddedRows(src, c)   C == PaddedCols(src, c)
<1>1. /\ HasComps(dst) /\ HasComps(src) /\ c \in DOMAIN dst.comps /\ c \in DOMAIN src.comps
      /\ y0 \in Nat /\ v \in Pos
  BY NextRowsOf, Destination
<1>2. cols \in Nat /\ R \in Nat /\ C \in Nat /\ w \in Nat /\ h \in Nat /\ w <= cols
  BY <1>1, SizesTyped DEF comp_width, comp_height
<1>3. \A i \in 0 .. R - 1, j \in 0 .. C - 1 : a[i][j] \in Block
  <2>1. IsFile(src)
    BY DEF TransformInv, FileInv
  <2> QED
    BY <1>1, <2>1, BlockOfFile
<1>4. turn \in Transforms \ {"NONE", "FLIP_H"}
  BY InfoTyped DEF TransformInv, FileInv, InPlace
<1>5. /\ turn \in Transposes => cols <= R
      /\ turn \in {"FLIP_V", "ROT_180"} /\ y0 < h => h - y0 <= R /\ y0 + v <= h
      /\ turn \in {"FLIP_V", "ROT_180"} /\ ~(y0 < h) => y0 + v <= R
  BY SourceRowsFit
<1>6. /\ turn \in {"FLIP_V", "ROT_180"} => cols <= C
      /\ turn \in {"ROT_270", "TRANSVERSE"} /\ y0 < h => h - y0 <= C /\ y0 + v <= h
      /\ turn \in {"ROT_270", "TRANSVERSE"} /\ ~(y0 < h) => y0 + v <= C
      /\ turn \in {"TRANSPOSE", "ROT_90"} => y0 + v <= C
  BY SourceColumnsFit
<1>7. y \in Nat /\ y0 <= y /\ y < y0 + v /\ x \in 0 .. cols - 1
  <2> HIDE DEF cols
  <2>1. r \in 0 .. v - 1 /\ x \in 0 .. cols - 1 /\ y = y0 + r
    BY DEF cols
  <2> HIDE DEF v, y0
  <2> QED
    BY <1>1, <2>1 DEF Pos
<1>8. /\ x < w => w - x - 1 \in 0 .. cols - 1
      /\ Mirror(w, x) \in 0 .. cols - 1
  <2> HIDE DEF w, cols
  <2> QED
    BY <1>2, <1>7, MirrorInside
<1>9. \A b \in Block : FlipCols(b) \in Block /\ FlipRows(b) \in Block /\ Transposed(b) \in Block
  BY BlocksTurned
<1> DEFINE TB == TurnedBlock(c, a, y, x)
<1>10. CASE turn \in {"FLIP_V", "ROT_180"}
  <2> HIDE DEF w, h, v, cols, y0, R, C
  <2>1. /\ y < h => h - y - 1 \in 0 .. R - 1
        /\ ~(y < h) => y \in 0 .. R - 1
        /\ x \in 0 .. C - 1 /\ (x < w => w - x - 1 \in 0 .. C - 1)
    BY <1>1, <1>2, <1>5, <1>6, <1>7, <1>8, <1>10 DEF Pos
  <2>2. /\ ~(y < h) => a[y][x] \in Block
        /\ ~(y < h) /\ x < w => a[y][w - x - 1] \in Block
        /\ y < h => a[h - y - 1][x] \in Block
        /\ y < h /\ x < w => a[h - y - 1][w - x - 1] \in Block
    BY <1>3, <2>1
  <2>3. CASE turn = "FLIP_V"
    <3>1. TB = IF y < h THEN FlipRows(a[h - y - 1][x]) ELSE a[y][x]
      BY <2>3 DEF TurnedBlock, flip_v, h
    <3> QED
      BY <1>9, <2>2, <3>1
  <2>4. CASE turn = "ROT_180"
    <3>1. TB = rot_180(c, a, y, x)
      BY <2>4 DEF TurnedBlock
    <3>2. /\ y < h /\ x < w => TB = FlipRows(FlipCols(a[h - y - 1][w - x - 1]))
          /\ y < h /\ x >= w => TB = FlipRows(a[h - y - 1][x])
          /\ y >= h /\ x < w => TB = FlipCols(a[y][w - x - 1])
          /\ y >= h /\ x >= w => TB = a[y][x]
      <4>1. /\ y < h /\ x < w => ~(y < h /\ x >= w) /\ ~(y >= h /\ x < w) /\ ~(y >= h /\ x >= w)
            /\ y < h /\ x >= w => ~(y < h /\ x < w) /\ ~(y >= h /\ x < w) /\ ~(y >= h /\ x >= w)
            /\ y >= h /\ x < w => ~(y < h /\ x < w) /\ ~(y < h /\ x >= w) /\ ~(y >= h /\ x >= w)
            /\ y >= h /\ x >= w => ~(y < h /\ x < w) /\ ~(y < h /\ x >= w) /\ ~(y >= h /\ x < w)
        BY <1>2, <1>7
      <4> QED
        BY <3>1, <4>1 DEF rot_180, w, h
    <3>3. (y < h \/ (y >= h /\ ~(y < h))) /\ (x < w \/ x >= w)
      BY <1>2, <1>7
    <3> QED
      BY <1>9, <2>2, <3>2, <3>3
  <2> QED
    BY <1>10, <2>3, <2>4
<1>11. CASE turn \in Transposes
  <2> HIDE DEF w, h, v, cols, y0, R, C
  <2>1. x \in 0 .. R - 1 /\ Mirror(w, x) \in 0 .. R - 1 /\ (x < w => w - x - 1 \in 0 .. R - 1)
    BY <1>2, <1>5, <1>7, <1>8, <1>11
  <2>2. CASE turn \in {"TRANSPOSE", "ROT_90"}
    <3>1. y \in 0 .. C - 1
      BY <1>1, <1>2, <1>6, <1>7, <2>2 DEF Pos
    <3>2. a[x][y] \in Block /\ (x < w => a[w - x - 1][y] \in Block)
      BY <1>3, <2>1, <3>1
    <3>3. TB \in {Transposed(a[x][y])} \/ (x < w /\ TB = Transposed(FlipRows(a[w - x - 1][y])))
      BY <2>2 DEF TurnedBlock, transpose, rot_90, w
    <3> QED
      BY <1>9, <3>2, <3>3
  <2>3. CASE turn \in {"ROT_270", "TRANSVERSE"}
    <3> DEFINE m == Mirror(w, x)
    <3>1. /\ y < h => h - y - 1 \in 0 .. C - 1
          /\ ~(y < h) => y \in 0 .. C - 1
      BY <1>1, <1>2, <1>6, <1>7, <2>3 DEF Pos
    <3>2. /\ y < h => a[x][h - y - 1] \in Block /\ a[m][h - y - 1] \in Block
          /\ ~(y < h) => a[x][y] \in Block /\ a[m][y] \in Block
      BY <1>3, <2>1, <3>1
    <3>3. CASE turn = "ROT_270"
      <4>1. TB = IF y < h THEN Transposed(FlipCols(a[x][h - y - 1])) ELSE Transposed(a[x][y])
        BY <3>3 DEF TurnedBlock, rot_270, h
      <4> QED
        BY <1>9, <3>2, <4>1
    <3>4. CASE turn = "TRANSVERSE"
      <4>1. TB = transverse(c, a, y, x)
        BY <3>4 DEF TurnedBlock
      <4>2. TB \in {Transposed(FlipRows(FlipCols(a[m][h - y - 1]))), Transposed(FlipCols(a[m][h - y - 1]))}
            \/ ~(y < h)
        BY <4>1 DEF transverse, w, h
      <4>3. TB \in {Transposed(FlipRows(a[m][y])), Transposed(a[m][y])} \/ y < h
        BY <4>1 DEF transverse, w, h
      <4> QED
        BY <1>9, <3>2, <4>2, <4>3
    <3> QED
      BY <2>3, <3>3, <3>4
  <2> QED
    BY <1>11, <2>2, <2>3 DEF Transposes
<1> QED
  BY <1>4, <1>10, <1>11 DEF Transforms

LEMMA FlipInPlaceInv == TransformInv /\ FlipInPlace => TransformInv'
<1> SUFFICES ASSUME TransformInv, FlipInPlace PROVE TransformInv'
  OBVIOUS
<1> DEFINE c == at[1]   y == at[2]   v == dst.comps[at[1]].v   a == src.arrays[at[1]]
           b == [r \in DOMAIN a |->
                   IF r \notin y .. y + v - 1 THEN a[r]
                   ELSE [x \in DOMAIN a[r] |-> flip_h(c, a, r, x)]]
           arrays == [src.arrays EXCEPT ![c] = b]
<1>1. /\ phase = "turning" /\ phase' = "turning" /\ RowsLeft /\ StepFits /\ turn = "FLIP_H"
      /\ src' = [src EXCEPT !.arrays[c] = b] /\ at' = NextRows
      /\ UNCHANGED <<job, round, work, dst, turned, before>>
  BY DEF FlipInPlace
<1>2. /\ c \in 1 .. Kept /\ NextRows \in Pos \X Nat
  BY <1>1, NextRowsOf
<1>3. IsFile(src) /\ IsFile(before) /\ SameSizes(src, before) /\ work = <<>> /\ DOMAIN work = {}
  <2>1. InPlace
    BY <1>1 DEF InPlace
  <2>2. work = <<>>
    BY <1>1, <2>1, Destination
  <2> QED
    BY <1>1, <2>2 DEF TransformInv, FileInv
<1>4. /\ HasComps(src) /\ c \in DOMAIN src.comps /\ c \in DOMAIN dst.comps /\ HasComps(dst)
      /\ PaddedCols(src, c) = PaddedCols(before, c) /\ PaddedRows(src, c) = PaddedRows(before, c)
      /\ HasComps(before) /\ c \in DOMAIN before.comps
  BY <1>1, <1>2, Destination
<1> DEFINE R == 0 .. PaddedRows(src, c) - 1   C == 0 .. PaddedCols(src, c) - 1
<1>5. a \in [R -> [C -> Block]]
  BY <1>3, <1>4 DEF IsFile, Block
<1>6. ASSUME NEW r \in R, NEW x \in C PROVE flip_h(c, a, r, x) \in Block
  <2> DEFINE w == comp_width(c)
  <2>1. w \in Nat /\ PaddedCols(src, c) \in Nat
    BY <1>4, SizesTyped DEF comp_width
  <2>2. w <= PaddedCols(src, c)
    BY <1>1, SourceColumnsFit
  <2> DEFINE n == PaddedCols(src, c)
  <2>3. n \in Nat /\ x \in 0 .. n - 1 /\ w <= n
    BY <2>1, <2>2
  <2> HIDE DEF w, n
  <2>4. x < w => w - x - 1 \in 0 .. n - 1
    BY <2>1, <2>3, MirrorInside
  <2>5. a[r][x] \in Block /\ (x < w => a[r][w - x - 1] \in Block)
    BY <1>5, <2>4 DEF n
  <2>6. flip_h(c, a, r, x) = IF x < w THEN FlipCols(a[r][w - x - 1]) ELSE a[r][x]
    BY DEF flip_h, w
  <2> QED
    BY <2>5, <2>6, BlocksTurned
<1>7. b \in [R -> [C -> Block]]
  <2>1. DOMAIN a = R /\ \A r \in R : a[r] \in [C -> Block] /\ DOMAIN a[r] = C
    BY <1>5
  <2>2. \A r \in R : [x \in DOMAIN a[r] |-> flip_h(c, a, r, x)] \in [C -> Block]
    BY <1>6, <2>1
  <2> HIDE DEF a, R, C
  <2> QED
    BY <2>1, <2>2
<1> HIDE DEF b
<1>8. /\ src'.width = src.width /\ src'.height = src.height /\ src'.comps = src.comps
      /\ src'.space = src.space /\ src'.arrays = arrays
      /\ src' \in [width : Nat \ {0}, height : Nat \ {0}, space : {src'.space}, comps : Seq(Component),
                   quant : {src'.quant}, markers : {src'.markers}, arrays : {src'.arrays}]
  BY <1>1, <1>3 DEF IsFile
<1>9. \A e : PaddedCols(src', e) = PaddedCols(src, e) /\ PaddedRows(src', e) = PaddedRows(src, e)
  <2>1. src'.width = src.width /\ src'.height = src.height /\ src'.comps = src.comps
    BY <1>8
  <2> QED
    BY <2>1, SizesOfSame, Zenon
<1>10. /\ arrays = [e \in DOMAIN src.comps |-> arrays[e]]
       /\ \A e \in DOMAIN src.comps :
            arrays[e] \in [0 .. PaddedRows(src, e) - 1 -> [0 .. PaddedCols(src, e) - 1 -> [Places -> Int]]]
  <2>1. /\ src.arrays = [e \in DOMAIN src.comps |-> src.arrays[e]]
        /\ \A e \in DOMAIN src.comps : src.arrays[e] \in
             [0 .. PaddedRows(src, e) - 1 -> [0 .. PaddedCols(src, e) - 1 -> [Places -> Int]]]
    BY <1>3 DEF IsFile
  <2>2. b \in [0 .. PaddedRows(src, c) - 1 -> [0 .. PaddedCols(src, c) - 1 -> [Places -> Int]]]
    BY <1>7 DEF Block
  <2>3. \A e \in DOMAIN src.comps : arrays[e] = IF e = c THEN b ELSE src.arrays[e]
    BY <2>1
  <2>4. arrays = [e \in DOMAIN src.comps |-> arrays[e]]
    BY <2>1
  <2> QED
    BY <2>1, <2>2, <2>3, <2>4
<1> HIDE DEF arrays
<1>11. IsFile(src')
  BY <1>3, <1>8, <1>9, <1>10 DEF IsFile
<1>12. job' \in Jobs /\ FileInv'
  BY <1>1, <1>2, <1>3, <1>8, <1>11 DEF TransformInv, FileInv, SameSizes
<1>13. WorkInv'
  <2>1. InPlace' /\ work' = <<>> /\ turned' = [e \in DOMAIN work' |-> turned'[e]]
    BY <1>1, <1>3 DEF InPlace, turn, info, TransformInv, WorkInv
  <2> QED
    BY <1>1, <2>1 DEF WorkInv
<1>14. DstInv'
  BY <1>1, DstKept DEF DstInv
<1>15. TurnInv'
  BY <1>1, <1>3, NextPosition, DstKept DEF TurnInv
<1> QED
  BY <1>1, <1>12, <1>13, <1>14, <1>15 DEF TransformInv
(* The rows that are appended, and where the workspace has room for them.   *)
LEMMA AppendRows ==
  ASSUME NEW S, NEW s \in Seq(S), NEW n \in Pos, NEW t, t \in [1 .. n -> S]
  PROVE  s \o t \in Seq(S) /\ Len(s \o t) = Len(s) + n
<1>1. t \in Seq(S) /\ Len(t) = n
  BY DEF Pos
<1> QED
  BY <1>1

LEMMA TurnRowsInv == TransformInv /\ TurnRows => TransformInv'
<1> SUFFICES ASSUME TransformInv, TurnRows PROVE TransformInv'
  OBVIOUS
<1> DEFINE c == at[1]   y == at[2]   v == dst.comps[at[1]].v   a == src.arrays[at[1]]
           row(r) == [x \in 0 .. PaddedCols(dst, c) - 1 |-> TurnedBlock(c, a, y + r, x)]
           more == [i \in 1 .. v |-> row(i - 1)]
<1>1. /\ phase = "turning" /\ phase' = "turning" /\ RowsLeft /\ StepFits /\ ~InPlace
      /\ at' = NextRows /\ UNCHANGED <<job, round, src, work, dst, before>>
  BY DEF TurnRows
<1>2. /\ c \in 1 .. Kept /\ y \in Nat /\ v \in Pos /\ NextRows \in Pos \X Nat
      /\ y + v <= PaddedRows(dst, c)
  BY <1>1, NextRowsOf
<1>3. DOMAIN work = 1 .. Kept /\ DOMAIN turned = 1 .. Kept /\ HasComps(dst)
      /\ DOMAIN dst.comps = 1 .. Kept /\ Kept \in Pos
  BY <1>1, Destination
<1>4. turned' = [turned EXCEPT ![c] = @ \o more]
  <2>1. \A i \in 1 .. v : i - 1 \in 0 .. v - 1
    BY <1>2 DEF Pos
  <2> QED
    BY <2>1 DEF TurnRows, Rows
<1>5. \A i \in 1 .. v : i - 1 \in 0 .. v - 1
  BY <1>2 DEF Pos
<1>6. \A i \in 1 .. v : row(i - 1) \in [0 .. PaddedCols(dst, c) - 1 -> Block]
  <2> TAKE i \in 1 .. v
  <2>1. \A x \in 0 .. PaddedCols(dst, c) - 1 : TurnedBlock(c, a, y + (i - 1), x) \in Block
    BY <1>1, <1>5, TurnedInside
  <2> QED
    BY <2>1
<1>7. /\ turned[c] \in RowsOf(c) /\ Len(turned[c]) = y
  BY <1>1, <1>2, <1>3 DEF TransformInv, TurnInv
<1>8. /\ turned[c] \o more \in RowsOf(c) /\ Len(turned[c] \o more) = y + v
  <2> DEFINE S == [0 .. PaddedCols(dst, c) - 1 -> Block]
  <2>1. more \in [1 .. v -> S]
    BY <1>6
  <2> HIDE DEF more, S
  <2>2. turned[c] \in Seq(S)
    BY <1>7 DEF RowsOf, S
  <2> QED
    BY <1>2, <1>7, <2>1, <2>2, AppendRows DEF RowsOf, S
<1> HIDE DEF more, row, a
<1>9. /\ DOMAIN turned' = 1 .. Kept /\ turned' = [e \in 1 .. Kept |-> turned'[e]]
      /\ \A e \in 1 .. Kept : turned'[e] = IF e = c THEN turned[c] \o more ELSE turned[e]
  <2>1. turned = [e \in 1 .. Kept |-> turned[e]]
    BY <1>1, <1>3 DEF TransformInv, WorkInv
  <2> QED
    BY <1>2, <1>4, <2>1
<1>10. job' \in Jobs /\ FileInv'
  BY <1>1, <1>2, FileKept DEF Phases
<1>11. WorkInv'
  <2>1. /\ InPlace' = InPlace /\ Kept' = Kept /\ \A e : WorkSize(e)' = WorkSize(e)
    BY <1>1 DEF InPlace, turn, info, Kept, WorkSize
  <2> QED
    BY <1>1, <1>3, <1>9, <2>1 DEF TransformInv, WorkInv
<1>12. DstInv'
  BY <1>1, DstKept DEF DstInv
<1>13. /\ at'[1] <= Kept + 1
       /\ at'[1] <= Kept => /\ at'[2] % dst.comps[at'[1]].v = 0
                            /\ at'[2] < height_in_blocks(dst, at'[1])
       /\ \/ at'[1] = c /\ at'[2] = y + v
          \/ at'[1] = c + 1 /\ at'[2] = 0 /\ height_in_blocks(dst, c) <= y + v
  BY <1>1, NextPosition
<1>14. ASSUME NEW e \in 1 .. Kept
       PROVE  /\ turned'[e] \in RowsOf(e)
              /\ e < at'[1] => height_in_blocks(dst, e) <= Len(turned'[e])
              /\ e = at'[1] => Len(turned'[e]) = at'[2]
              /\ e > at'[1] => Len(turned'[e]) = 0
  <2>1. /\ turned[e] \in RowsOf(e)
        /\ e < c => height_in_blocks(dst, e) <= Len(turned[e])
        /\ e > c => Len(turned[e]) = 0
    BY <1>1, <1>3 DEF TransformInv, TurnInv
  <2>2. CASE e = c
    <3>1. turned'[e] = turned[c] \o more
      BY <1>9, <2>2
    <3> HIDE DEF c, y, v
    <3> QED
      BY <1>2, <1>3, <1>8, <1>13, <2>2, <3>1 DEF Pos
  <2>3. CASE e # c
    <3>1. turned'[e] = turned[e]
      BY <1>9, <2>3
    <3> HIDE DEF c, y, v
    <3> QED
      BY <1>2, <1>3, <1>13, <2>1, <2>3, <3>1 DEF Pos
  <2> QED
    BY <2>2, <2>3
<1>15. TurnInv'
  <2>1. /\ Kept' = Kept /\ dst' = dst /\ DOMAIN work' = 1 .. Kept
        /\ \A e : RowsOf(e)' = RowsOf(e)
    BY <1>1, <1>3, DstKept
  <2> QED
    BY <1>13, <1>14, <2>1 DEF TurnInv
<1> QED
  BY <1>1, <1>10, <1>11, <1>12, <1>15 DEF TransformInv
-----------------------------------------------------------------------------
(* The result is a file.                                                    *)
LEMMA WrittenRows ==
  ASSUME TransformInv, phase = "turning", ~RowsLeft, StepFits, NEW c \in 1 .. Kept,
         NEW blocks,
         blocks = IF work = <<>> THEN src.arrays[c]
                  ELSE [y \in 0 .. Len(turned[c]) - 1 |-> turned[c][y + 1]],
         NEW y \in 0 .. PaddedRows(dst, c) - 1, NEW x \in 0 .. PaddedCols(dst, c) - 1,
         y < height_in_blocks(dst, c), x < width_in_blocks(dst, c)
  PROVE  blocks[y][x] \in Block
<1>1. /\ HasComps(dst) /\ c \in DOMAIN dst.comps /\ HasComps(src) /\ c \in DOMAIN src.comps
      /\ PaddedCols(src, c) = PaddedCols(before, c) /\ PaddedRows(src, c) = PaddedRows(before, c)
      /\ work = <<>> <=> InPlace
      /\ ~InPlace => DOMAIN work = 1 .. Kept
      /\ Len(dst.comps) = Kept /\ Kept \in Pos
  BY Destination
<1>2. /\ PaddedCols(dst, c) \in Nat /\ PaddedRows(dst, c) \in Nat
      /\ PaddedCols(src, c) \in Nat /\ PaddedRows(src, c) \in Nat
      /\ height_in_blocks(dst, c) \in Nat /\ width_in_blocks(dst, c) \in Nat
  BY <1>1, SizesTyped DEF Pos
<1>3. CASE work = <<>>
  <2>1. PaddedRows(dst, c) <= PaddedRows(src, c) /\ width_in_blocks(dst, c) <= PaddedCols(src, c)
    BY <1>1, <1>3 DEF StepFits, ImageExists
  <2>2. y \in 0 .. PaddedRows(src, c) - 1 /\ x \in 0 .. PaddedCols(src, c) - 1
    BY <1>2, <2>1
  <2>3. IsFile(src)
    BY DEF TransformInv, FileInv
  <2> QED
    BY <1>1, <1>3, <2>2, <2>3, BlockOfFile
<1>4. CASE work # <<>>
  <2>1. ~InPlace
    BY <1>1, <1>4
  <2>2. at[1] > Kept
    <3>1. turn # "NONE" /\ at[1] \in Nat
      BY <2>1 DEF InPlace, TransformInv, FileInv, Pos
    <3> QED
      BY <1>1, <3>1 DEF RowsLeft, Pos
  <2>3. turned[c] \in RowsOf(c) /\ height_in_blocks(dst, c) <= Len(turned[c])
    <3>1. c < at[1]
      BY <1>1, <2>2 DEF TransformInv, FileInv, Pos
    <3> QED
      BY <1>1, <2>1, <3>1 DEF TransformInv, TurnInv
  <2> DEFINE s == turned[c]   S == [0 .. PaddedCols(dst, c) - 1 -> Block]
  <2>4. s \in Seq(S) /\ y + 1 \in 1 .. Len(s)
    BY <1>2, <2>3 DEF RowsOf
  <2>5. blocks = [z \in 0 .. Len(s) - 1 |-> s[z + 1]]
    BY <1>4
  <2> HIDE DEF s, S
  <2>6. s[y + 1] \in S /\ blocks[y] = s[y + 1]
    BY <2>4, <2>5
  <2> QED
    BY <2>6 DEF S
<1> QED
  BY <1>3, <1>4

LEMMA PaddedIsBlocks ==
  ASSUME NEW f, HasComps(f), NEW c \in DOMAIN f.comps, NEW blocks,
         \A y \in 0 .. PaddedRows(f, c) - 1, x \in 0 .. PaddedCols(f, c) - 1 :
           y < height_in_blocks(f, c) /\ x < width_in_blocks(f, c) => blocks[y][x] \in Block
  PROVE  Padded(f, c, blocks) \in [0 .. PaddedRows(f, c) - 1 -> [0 .. PaddedCols(f, c) - 1 -> Block]]
<1>1. ZeroBlock \in Block
  BY DEF ZeroBlock, Block
<1> QED
  BY <1>1 DEF Padded

LEMMA FinishInv == TransformInv /\ FinishCompress => TransformInv'
<1> SUFFICES ASSUME TransformInv, FinishCompress PROVE TransformInv'
  OBVIOUS
<1> DEFINE blocks(c) == IF work = <<>> THEN src.arrays[c]
                        ELSE [y \in 0 .. Len(turned[c]) - 1 |-> turned[c][y + 1]]
           arrays == [c \in DOMAIN dst.comps |-> Padded(dst, c, blocks(c))]
<1>1. /\ phase = "turning" /\ ~RowsLeft /\ StepFits /\ phase' = "done" /\ src' = Written /\ at' = <<1, 0>>
      /\ UNCHANGED <<job, round, dst, before>>
  BY DEF FinishCompress
<1>2. Params(dst) /\ HasComps(dst) /\ DOMAIN dst.comps = 1 .. Kept
  BY <1>1, Destination DEF TransformInv, DstInv
<1>3. \A c \in DOMAIN dst.comps :
        arrays[c] \in [0 .. PaddedRows(dst, c) - 1 -> [0 .. PaddedCols(dst, c) - 1 -> Block]]
  <2> TAKE c \in DOMAIN dst.comps
  <2>1. \A y \in 0 .. PaddedRows(dst, c) - 1, x \in 0 .. PaddedCols(dst, c) - 1 :
          y < height_in_blocks(dst, c) /\ x < width_in_blocks(dst, c) => blocks(c)[y][x] \in Block
    BY <1>1, <1>2, WrittenRows
  <2> HIDE DEF blocks
  <2>2. Padded(dst, c, blocks(c))
          \in [0 .. PaddedRows(dst, c) - 1 -> [0 .. PaddedCols(dst, c) - 1 -> Block]]
    BY <1>2, <2>1, PaddedIsBlocks
  <2> QED
    BY <2>2
<1>4. /\ src' = [width |-> dst.width, height |-> dst.height, space |-> dst.space,
                 comps |-> dst.comps, quant |-> dst.quant, markers |-> markers, arrays |-> arrays]
      /\ arrays = [c \in DOMAIN dst.comps |-> arrays[c]]
  BY <1>1 DEF Written
<1> HIDE DEF arrays, blocks
<1>5. /\ src'.width = dst.width /\ src'.height = dst.height /\ src'.comps = dst.comps
      /\ src'.space = dst.space /\ src'.arrays = arrays
      /\ src' \in [width : Nat \ {0}, height : Nat \ {0}, space : {src'.space}, comps : Seq(Component),
                   quant : {src'.quant}, markers : {src'.markers}, arrays : {src'.arrays}]
      /\ src'.comps # <<>>
  BY <1>2, <1>4 DEF HasComps, Pos
<1>6. \A c : PaddedCols(src', c) = PaddedCols(dst, c) /\ PaddedRows(src', c) = PaddedRows(dst, c)
  <2>1. src'.width = dst.width /\ src'.height = dst.height /\ src'.comps = dst.comps
    BY <1>5
  <2> QED
    BY <2>1, SizesOfSame, Zenon
<1>7. \A c \in DOMAIN dst.comps :
        arrays[c] \in [0 .. PaddedRows(dst, c) - 1 ->
                         [0 .. PaddedCols(dst, c) - 1 -> [Places -> Int]]]
  BY <1>3 DEF Block
<1>8. IsFile(src')
  BY <1>4, <1>5, <1>6, <1>7 DEF IsFile
<1>9. at' \in Pos \X Nat
  BY <1>1 DEF Pos
<1>10. FileInv' /\ job' \in Jobs
  BY <1>1, <1>8, <1>9 DEF TransformInv, FileInv, Phases
<1> QED
  BY <1>1, <1>10 DEF TransformInv, WorkInv, DstInv, TurnInv

LEMMA NextRunInv == TransformInv /\ NextRun => TransformInv'
<1> SUFFICES ASSUME TransformInv, NextRun PROVE TransformInv'
  OBVIOUS
<1>1. /\ phase = "done" /\ phase' = "open" /\ round' = round + 1 /\ round < Len(job.options)
      /\ UNCHANGED <<job, src, work, turned, at, before>>
  BY DEF NextRun
<1>2. round' \in DOMAIN job.options
  <2>1. /\ round \in DOMAIN job.options /\ DOMAIN job.options = 1 .. Len(job.options)
        /\ Len(job.options) \in Nat
    BY InfoTyped DEF TransformInv, FileInv
  <2> QED
    BY <1>1, <2>1
<1>3. FileInv' /\ job' \in Jobs
  BY <1>1, <1>2 DEF TransformInv, FileInv, Phases
<1> QED
  BY <1>1, <1>3 DEF TransformInv, WorkInv, DstInv, TurnInv
-----------------------------------------------------------------------------
(* In a state of the invariant every access is inside its array, if the job *)
(* is not overgrown.                                                        *)
LEMMA SourceFits ==
  ASSUME TransformInv, ~Overgrown, phase = "turning", RowsLeft, NEW r \in SourceRows(at[1], at[2])
  PROVE  /\ r.start >= 0 /\ r.num <= before.comps[at[1]].v
         /\ r.start + r.num <= PaddedRows(before, at[1])
<1> DEFINE c == at[1]   y == at[2]   v == dst.comps[at[1]].v   h == dst.comps[at[1]].h
           whole == comp_height(at[1])   rows == PaddedRows(dst, at[1])
           cols == PaddedCols(dst, at[1])
<1>1. c \in 1 .. Kept /\ y \in Nat /\ v \in Pos /\ y % v = 0 /\ y + v <= rows
  BY NextRowsOf
<1>2. HasComps(dst) /\ HasComps(before) /\ c \in DOMAIN dst.comps /\ c \in DOMAIN before.comps
  BY <1>1, Destination
<1>3. /\ rows \in Nat /\ cols \in Nat /\ whole \in Nat /\ whole <= rows /\ h \in Pos
      /\ PaddedRows(before, c) \in Nat /\ before.comps[c].v \in Nat
  BY <1>2, SizesTyped, Factors DEF comp_height, Pos
<1>4. CASE turn \in Transposes
  <2>1. cols <= PaddedRows(before, c) /\ h <= before.comps[c].v
    BY <1>1, <1>4 DEF TransformInv, DstInv, Within
  <2>2. PICK i \in 0 .. (cols \div h) - 1 : r = [start |-> h * i, num |-> h]
    BY <1>4 DEF SourceRows
  <2> HIDE DEF cols, h, c
  <2>3. cols \div h \in Nat /\ (cols \div h) * h <= cols
    BY <1>3, DivBounds
  <2> DEFINE q == cols \div h
  <2>4. i \in Nat /\ i + 1 <= q /\ q \in Nat /\ h \in Nat
    BY <1>3, <2>3 DEF Pos
  <2>5. (i + 1) * h <= q * h /\ h * i + h = (i + 1) * h /\ h * i \in Nat /\ q * h <= cols /\ q * h \in Nat
    <3> HIDE DEF q
    <3>1. (i + 1) * h <= q * h
      BY <2>4, MulLE
    <3>2. h * i + h = (i + 1) * h /\ h * i \in Nat /\ q * h \in Nat
      BY <2>4
    <3>3. q * h <= cols
      BY <2>3 DEF q
    <3> QED
      BY <3>1, <3>2, <3>3
  <2>6. h * i + h <= cols
    <3> HIDE DEF q
    <3> QED
      BY <1>3, <2>4, <2>5
  <2>7. r.start = h * i /\ r.num = h
    BY <2>2
  <2>8. r.start + r.num <= PaddedRows(before, c)
    BY <1>3, <2>1, <2>4, <2>5, <2>6, <2>7
  <2> QED
    BY <1>3, <2>1, <2>5, <2>7, <2>8 DEF c
<1>5. CASE turn \notin Transposes
  <2>1. rows <= PaddedRows(before, c) /\ v <= before.comps[c].v
    BY <1>1, <1>5 DEF TransformInv, DstInv, Within
  <2>2. CASE turn \in {"FLIP_V", "ROT_180"} /\ y < whole
    <3>1. r = [start |-> whole - y - v, num |-> v]
      BY <1>5, <2>2 DEF SourceRows
    <3>2. whole = WholeSide(dst.height, v, max_v(dst))
      BY SizesAsSides DEF comp_height
    <3>3. dst.height \in Pos /\ max_v(dst) \in Pos
      BY <1>2, Factors DEF HasComps
    <3> HIDE DEF c, y, v, whole, rows
    <3>4. y + v <= whole
      BY <1>1, <2>2, <3>2, <3>3, SideAligned
    <3>5. r.start = whole - y - v /\ r.num = v
      BY <3>1
    <3> QED
      BY <1>1, <1>3, <2>1, <3>4, <3>5 DEF Pos, c
  <2>3. CASE ~(turn \in {"FLIP_V", "ROT_180"} /\ y < whole)
    <3>1. r = [start |-> y, num |-> v]
      BY <1>5, <2>3 DEF SourceRows
    <3>2. r.start = y /\ r.num = v
      BY <3>1
    <3> HIDE DEF y, v, whole, rows
    <3> QED
      BY <1>1, <1>3, <2>1, <3>2 DEF Pos
  <2> QED
    BY <2>2, <2>3
<1> QED
  BY <1>4, <1>5

LEMMA WorkspaceFits ==
  ASSUME TransformInv, ~Overgrown, phase = "turning", RowsLeft
  PROVE  LET c == at[1]   y == at[2]   v == dst.comps[at[1]].v
         IN /\ ColumnsRead(c, y) <= PaddedCols(before, c)
            /\ work # <<>> => /\ v <= work[c].maxaccess
                              /\ y + v <= work[c].rows /\ PaddedCols(dst, c) <= work[c].cols
<1> DEFINE c == at[1]   y == at[2]   v == dst.comps[at[1]].v
           rows == PaddedRows(dst, c)   cols == PaddedCols(dst, c)
           w == comp_width(c)   h == comp_height(c)
           R == PaddedRows(before, c)   C == PaddedCols(before, c)
<1>1. c \in 1 .. Kept /\ y \in Nat /\ v \in Pos /\ y + v <= rows
  BY NextRowsOf
<1>2. /\ HasComps(dst) /\ HasComps(before) /\ c \in DOMAIN dst.comps /\ c \in DOMAIN before.comps
      /\ (work = <<>> <=> InPlace) /\ (~InPlace => DOMAIN work = 1 .. Kept)
      /\ PaddedRows(src, c) = R /\ PaddedCols(src, c) = C /\ src.comps = before.comps
  BY <1>1, Destination
<1>3. /\ rows \in Nat /\ cols \in Nat /\ R \in Nat /\ C \in Nat
      /\ w \in Nat /\ h \in Nat /\ w <= cols /\ h <= rows
  BY <1>2, SizesTyped DEF comp_width, comp_height
<1>4. IF turn \in Transposes THEN cols <= R /\ rows <= C /\ v <= before.comps[c].h
      ELSE cols <= C /\ rows <= R /\ v <= before.comps[c].v
  BY <1>1 DEF TransformInv, DstInv, Within
<1>5. work # <<>> => work[c] = IF turn \in Transposes
                               THEN [rows |-> C, cols |-> R, maxaccess |-> before.comps[c].h]
                               ELSE [rows |-> R, cols |-> C, maxaccess |-> before.comps[c].v]
  <2> HAVE work # <<>>
  <2>1. work = [e \in 1 .. Kept |-> WorkSize(e)] /\ c \in DOMAIN work
    BY <1>1, <1>2 DEF TransformInv, WorkInv
  <2>2. work[c] = WorkSize(c)
    BY <1>1, <2>1
  <2> QED
    BY <1>2, <2>2 DEF WorkSize
<1>6. ColumnsRead(c, y) \in IF turn \in Transposes THEN {h - y, y + v} ELSE {w, cols}
  <2>1. turn \in Transforms \ {"NONE"}
    BY InfoTyped DEF TransformInv, FileInv, RowsLeft
  <2> QED
    BY <2>1 DEF ColumnsRead, Transforms, Transposes
<1>7. y + v \in Nat
  BY <1>1 DEF Pos
<1> HIDE DEF c, y, v, rows, cols, w, h, R, C
<1>8. CASE turn \in Transposes
  BY <1>1, <1>3, <1>4, <1>5, <1>6, <1>7, <1>8 DEF c, y, v, cols, C
<1>9. CASE turn \notin Transposes
  BY <1>1, <1>3, <1>4, <1>5, <1>6, <1>7, <1>9 DEF c, y, v, cols, C
<1> QED
  BY <1>8, <1>9

LEMMA StepsFit ==
  ASSUME TransformInv, ~Overgrown, phase = "turning"
  PROVE  StepFits
<1>1. /\ src.comps = before.comps /\ DOMAIN dst.comps = 1 .. Kept /\ 1 .. Kept \subseteq DOMAIN before.comps
      /\ \A c : PaddedCols(src, c) = PaddedCols(before, c) /\ PaddedRows(src, c) = PaddedRows(before, c)
      /\ work = <<>> <=> InPlace
      /\ HasComps(dst) /\ HasComps(before)
  BY Destination
<1>2. CASE RowsLeft
  <2>1. \A r \in SourceRows(at[1], at[2]) : /\ r.start >= 0 /\ r.num <= src.comps[at[1]].v
                                             /\ r.start + r.num <= PaddedRows(src, at[1])
    BY <1>1, <1>2, SourceFits
  <2>2. /\ ColumnsRead(at[1], at[2]) <= PaddedCols(src, at[1])
        /\ work # <<>> => /\ dst.comps[at[1]].v <= work[at[1]].maxaccess
                          /\ at[2] + dst.comps[at[1]].v <= work[at[1]].rows
                          /\ PaddedCols(dst, at[1]) <= work[at[1]].cols
    BY <1>1, <1>2, WorkspaceFits
  <2> QED
    BY <1>2, <2>1, <2>2 DEF StepFits, RowsGranted, ColumnsExist
<1>3. CASE ~RowsLeft
  <2>1. ASSUME work = <<>>, NEW c \in DOMAIN dst.comps
        PROVE  /\ PaddedRows(dst, c) <= PaddedRows(src, c)
               /\ width_in_blocks(dst, c) <= PaddedCols(src, c)
    <3>1. turn \notin Transposes
      BY <1>1, <2>1 DEF InPlace, Transposes
    <3>2. PaddedRows(dst, c) <= PaddedRows(before, c) /\ PaddedCols(dst, c) <= PaddedCols(before, c)
      BY <1>1, <2>1, <3>1 DEF TransformInv, DstInv, Within
    <3>3. /\ width_in_blocks(dst, c) \in Nat /\ PaddedCols(dst, c) \in Nat
          /\ width_in_blocks(dst, c) <= PaddedCols(dst, c) /\ PaddedCols(before, c) \in Nat
      BY <1>1, <2>1, SizesTyped DEF Pos
    <3> QED
      BY <1>1, <3>2, <3>3
  <2> QED
    BY <1>3, <2>1 DEF StepFits, ImageExists
<1> QED
  BY <1>2, <1>3

LEMMA LeaveInv == TransformInv /\ LeaveArrays => TransformInv'
<1> SUFFICES ASSUME TransformInv, LeaveArrays PROVE TransformInv'
  OBVIOUS
<1>1. /\ phase = "turning" /\ phase' = "outside" /\ ~StepFits
      /\ UNCHANGED <<job, round, src, work, dst, turned, at, before>>
  BY DEF LeaveArrays
<1>2. job' \in Jobs /\ FileInv'
  BY <1>1, FileKept DEF Phases, TransformInv, FileInv
<1>3. Overgrown' = Overgrown
  BY <1>1 DEF Overgrown, info, FullFirst
<1>4. Overgrown
  BY <1>1, StepsFit
<1> QED
  BY <1>1, <1>2, <1>3, <1>4 DEF TransformInv, WorkInv, DstInv, TurnInv

LEMMA InvAccesses == TransformInv => AccessesFit
<1> SUFFICES ASSUME TransformInv PROVE AccessesFit
  OBVIOUS
<1>1. phase = "outside" => Overgrown
  BY DEF TransformInv
<1>2. ASSUME phase = "turning", work # <<>>
      PROVE  IF RowsLeft THEN at[2] = Len(turned[at[1]])
             ELSE \A c \in DOMAIN dst.comps : height_in_blocks(dst, c) <= Len(turned[c])
  <2>1. /\ ~InPlace /\ DOMAIN work = 1 .. Kept /\ DOMAIN dst.comps = 1 .. Kept
        /\ Len(dst.comps) = Kept /\ Kept \in Pos /\ at[1] \in Pos
    BY <1>2, Destination DEF TransformInv, FileInv
  <2>2. CASE RowsLeft
    <3>1. at[1] \in DOMAIN work
      BY <2>1, <2>2 DEF RowsLeft, Pos
    <3> QED
      BY <1>2, <2>2, <3>1 DEF TransformInv, TurnInv
  <2>3. CASE ~RowsLeft
    <3>1. at[1] > Kept
      BY <2>1, <2>3 DEF RowsLeft, InPlace, Pos
    <3>2. \A c \in 1 .. Kept : c < at[1]
      BY <2>1, <3>1 DEF Pos
    <3> QED
      BY <1>2, <2>1, <2>3, <3>2 DEF TransformInv, TurnInv
  <2> QED
    BY <2>2, <2>3
<1> QED
  BY <1>1, <1>2 DEF AccessesFit

LEMMA InvTyped == TransformInv => TypeOK
<1> SUFFICES ASSUME TransformInv PROVE TypeOK
  OBVIOUS
<1>1. AccessesFit /\ phase \in Phases /\ round \in DOMAIN job.options
  BY InvAccesses DEF TransformInv, FileInv
<1>2. at[2] % (IF phase = "turning" /\ RowsLeft THEN dst.comps[at[1]].v ELSE 1) = 0
  <2>1. CASE phase = "turning" /\ RowsLeft
    BY <2>1, NextRowsOf
  <2>2. CASE ~(phase = "turning" /\ RowsLeft)
    <3>1. at[2] \in Nat
      BY DEF TransformInv, FileInv
    <3>2. at[2] % 1 = 0
      BY <3>1
    <3> QED
      BY <2>2, <3>2
  <2> QED
    BY <2>1, <2>2
<1>3. \A c \in DOMAIN src.comps : \A y \in DOMAIN src.arrays[c] : \A x \in DOMAIN src.arrays[c][y] :
        src.arrays[c][y][x] \in [Places -> Int]
  <2> TAKE c \in DOMAIN src.comps
  <2>1. src.arrays[c] \in [0 .. PaddedRows(src, c) - 1 ->
                             [0 .. PaddedCols(src, c) - 1 -> [Places -> Int]]]
    BY DEF TransformInv, FileInv, IsFile
  <2> QED
    BY <2>1
<1> QED
  BY <1>1, <1>2, <1>3 DEF TypeOK
-----------------------------------------------------------------------------
LEMMA StepInv == TransformInv /\ [Next]_vars => TransformInv'
<1> SUFFICES ASSUME TransformInv, [Next]_vars PROVE TransformInv'
  OBVIOUS
<1>1. CASE UNCHANGED vars
  <2>1. /\ Kept' = Kept /\ InPlace' = InPlace /\ (\A c : WorkSize(c)' = WorkSize(c))
        /\ (\A c : RowsOf(c)' = RowsOf(c)) /\ Within(dst)' = Within(dst) /\ Overgrown' = Overgrown
    BY <1>1 DEF vars, Kept, InPlace, turn, info, WorkSize, RowsOf, Within, Overgrown, FullFirst
  <2> QED
    BY <1>1, <2>1 DEF vars, TransformInv, FileInv, WorkInv, DstInv, TurnInv
<1> QED
  BY <1>1, ReadHeaderInv, RequestInv, AdjustInv, WriteCoefficientsInv, CopyMarkersInv,
     FlipInPlaceInv, TurnRowsInv, FinishInv, LeaveInv, NextRunInv DEF Next
-----------------------------------------------------------------------------
(* One edge: what is left is whole iMCUs, or less than one of them.         *)
LEMMA SideIsTrimmed ==
  ASSUME NEW n \in Pos, NEW w \in Pos
  PROVE  SideTrimmed(IF n \div w > 0 THEN (n \div w) * w ELSE n, n, w)
<1> DEFINE q == n \div w
<1>1. q \in Nat /\ q * w <= n /\ n < q * w + w
  BY DivBounds DEF Pos
<1>2. (q * w) % w = 0
  BY <1>1, DivMultiple
<1> HIDE DEF q
<1>3. q * w \in Nat
  BY <1>1 DEF Pos
<1>4. q = 0 => n < w
  BY <1>1 DEF Pos
<1> QED
  BY <1>1, <1>2, <1>3, <1>4 DEF SideTrimmed, Pos, q

LEMMA RightEdgeTrimmed ==
  ASSUME NEW d, Params(d), NEW e, e = trim_right_edge(d)
  PROVE  /\ Params(e) /\ e.comps = d.comps /\ e.height = d.height
         /\ SideTrimmed(e.width, d.width, max_h(d) * DCTSIZE)
<1> DEFINE w == max_h(d) * DCTSIZE
<1>1. w \in Pos /\ d.width \in Pos
  BY CompsOfParams, Factors, SizeIsPos, MulPos DEF HasComps
<1>2. e.width = (IF d.width \div w > 0 THEN (d.width \div w) * w ELSE d.width) /\ e.height = d.height
  BY DEF trim_right_edge, MCU_cols, Params
<1>3. Params(e) /\ e.comps = d.comps
  BY RightEdgeCut DEF Cut
<1> HIDE DEF w
<1>4. SideTrimmed(e.width, d.width, w)
  BY <1>1, <1>2, SideIsTrimmed
<1> QED
  BY <1>2, <1>3, <1>4 DEF w

LEMMA BottomEdgeTrimmed ==
  ASSUME NEW d, Params(d), NEW e, e = trim_bottom_edge(d)
  PROVE  /\ Params(e) /\ e.comps = d.comps /\ e.width = d.width
         /\ SideTrimmed(e.height, d.height, max_v(d) * DCTSIZE)
<1> DEFINE w == max_v(d) * DCTSIZE
<1>1. w \in Pos /\ d.height \in Pos
  BY CompsOfParams, Factors, SizeIsPos, MulPos DEF HasComps
<1>2. e.height = (IF d.height \div w > 0 THEN (d.height \div w) * w ELSE d.height) /\ e.width = d.width
  BY DEF trim_bottom_edge, MCU_rows, Params
<1>3. Params(e) /\ e.comps = d.comps
  BY BottomEdgeCut DEF Cut
<1> HIDE DEF w
<1>4. SideTrimmed(e.height, d.height, w)
  BY <1>1, <1>2, SideIsTrimmed
<1> QED
  BY <1>2, <1>3, <1>4 DEF w

LEMMA TrimmedEdgesOf ==
  ASSUME NEW d, Params(d), info.trim, NEW e, e = Trimmed(d)
  PROVE  EdgesTrimmed(e, d.width, d.height)
<1> DEFINE r == IF turn \in RightTrimmed THEN trim_right_edge(d) ELSE d
<1>1. e = IF turn \in BottomTrimmed THEN trim_bottom_edge(r) ELSE r
  BY DEF Trimmed, RightTrimmed, BottomTrimmed
<1>2. /\ Params(r) /\ r.comps = d.comps /\ r.height = d.height
      /\ IF turn \in RightTrimmed THEN SideTrimmed(r.width, d.width, max_h(d) * DCTSIZE)
         ELSE r.width = d.width
  BY RightEdgeTrimmed
<1> HIDE DEF r
<1>3. /\ e.comps = r.comps /\ e.width = r.width
      /\ IF turn \in BottomTrimmed THEN SideTrimmed(e.height, r.height, max_v(r) * DCTSIZE)
         ELSE e.height = r.height
  BY <1>1, <1>2, BottomEdgeTrimmed
<1>4. max_h(e) = max_h(d) /\ max_v(e) = max_v(r)
  BY <1>2, <1>3 DEF max_h, max_v
<1> QED
  BY <1>2, <1>3, <1>4 DEF EdgesTrimmed

LEMMA AdjustTrim == TransformInv /\ jtransform_adjust_parameters => TrimInv'
<1> SUFFICES ASSUME TransformInv, jtransform_adjust_parameters PROVE TrimInv'
  OBVIOUS
<1> DEFINE d == IF info.force_grayscale THEN Gray(Critical) ELSE Critical
           t == IF turn \in Transposes THEN transpose_critical_parameters(d) ELSE d
<1>1. /\ phase = "read" /\ UNCHANGED <<job, round, src, before>>
      /\ phase' = "error" \/ (phase' = "adjusted" /\ dst' = Trimmed(t))
  BY DEF jtransform_adjust_parameters
<1>2. Params(d) /\ d.width = before.width /\ d.height = before.height
  <2>1. /\ Params(Critical) /\ Critical.width = before.width /\ Critical.height = before.height
    BY <1>1, CriticalIsParams DEF TransformInv, FileInv, SameSizes
  <2> QED
    BY <2>1, GrayIsParams
<1> HIDE DEF d
<1>3. /\ Params(t)
      /\ turn \in Transposes => t.width = before.height /\ t.height = before.width
      /\ turn \notin Transposes => t.width = before.width /\ t.height = before.height
  BY <1>2, TransposedIsParams
<1> HIDE DEF t
<1>4. CASE phase' = "error"
  BY <1>4 DEF TrimInv
<1>5. CASE phase' = "adjusted" /\ dst' = Trimmed(t)
  <2>1. info.trim => EdgesTrimmed(dst', t.width, t.height)
    BY <1>3, <1>5, TrimmedEdgesOf
  <2>2. info' = info /\ turn' = turn
    BY <1>1 DEF info, turn
  <2> QED
    BY <1>1, <1>3, <1>5, <2>1, <2>2 DEF TrimInv, EdgesTrimmed
<1> QED
  BY <1>1, <1>4, <1>5

LEMMA StepTrim == TransformInv /\ TrimInv /\ [Next]_vars => TrimInv'
<1> SUFFICES ASSUME TransformInv, TrimInv, [Next]_vars PROVE TrimInv'
  OBVIOUS
<1>1. ASSUME UNCHANGED <<job, round, dst, before>>,
             phase' \in {"adjusted", "copying", "turning"} =>
               phase \in {"adjusted", "copying", "turning", "done"},
             phase' = "done" =>
               /\ phase \in {"adjusted", "copying", "turning", "done"}
               /\ src'.width = dst.width /\ src'.height = dst.height /\ src'.comps = dst.comps
      PROVE  TrimInv'
  <2>1. info' = info /\ turn' = turn
    BY <1>1 DEF info, turn
  <2> QED
    BY <1>1, <2>1 DEF TrimInv, EdgesTrimmed
<1>2. CASE UNCHANGED vars
  BY <1>1, <1>2 DEF vars, TrimInv
<1>3. CASE ReadHeader
  BY <1>3 DEF ReadHeader, TrimInv
<1>4. CASE jtransform_request_workspace
  BY <1>4 DEF jtransform_request_workspace, TrimInv
<1>5. CASE jtransform_adjust_parameters
  BY <1>5, AdjustTrim
<1>6. CASE WriteCoefficients
  BY <1>1, <1>6 DEF WriteCoefficients
<1>7. CASE jcopy_markers_execute
  BY <1>1, <1>7 DEF jcopy_markers_execute
<1>8. CASE FlipInPlace
  BY <1>1, <1>8 DEF FlipInPlace
<1>9. CASE TurnRows
  BY <1>1, <1>9 DEF TurnRows
<1>10. CASE FinishCompress
  <2>1. src' = Written /\ UNCHANGED <<job, round, dst, before>> /\ phase = "turning"
    BY <1>10 DEF FinishCompress
  <2>2. src'.width = dst.width /\ src'.height = dst.height /\ src'.comps = dst.comps
    BY <2>1 DEF Written
  <2> QED
    BY <1>1, <2>1, <2>2
<1>11. CASE LeaveArrays
  BY <1>1, <1>11 DEF LeaveArrays
<1>12. CASE NextRun
  BY <1>12 DEF NextRun, TrimInv
<1> QED
  BY <1>2, <1>3, <1>4, <1>5, <1>6, <1>7, <1>8, <1>9, <1>10, <1>11, <1>12 DEF Next

(* Then the whole image and its whole iMCUs are mirrored alike.             *)
LEMMA TrimmedIsWhole == TransformInv /\ TrimInv => NoEdgeLeft
<1> SUFFICES ASSUME TransformInv, TrimInv, phase = "done", info.trim PROVE NoEdgeLeft
  BY DEF NoEdgeLeft
<1> DEFINE ow == IF turn \in Transposes THEN before.height ELSE before.width
           oh == IF turn \in Transposes THEN before.width ELSE before.height
           iw == max_h(src) * DCTSIZE   ih == max_v(src) * DCTSIZE
           moved == {p \in (0 .. src.height - 1) \X (0 .. src.width - 1) :
                       Origin(turn, src.width, src.height, p[1], p[2]) #
                       Origin(turn, src.width - (src.width % iw), src.height - (src.height % ih), p[1], p[2])}
<1>1. /\ src.width \in Nat /\ src.height \in Nat /\ before.width \in Nat /\ before.height \in Nat
      /\ iw \in Pos /\ ih \in Pos
  <2>1. HasComps(src) /\ HasComps(before)
    BY CompsOfFile DEF TransformInv, FileInv
  <2> QED
    BY <2>1, Factors, SizeIsPos, MulPos DEF HasComps, Pos
<1>2. ow \in Nat /\ oh \in Nat
  BY <1>1
<1>3. /\ IF turn \in RightTrimmed THEN SideTrimmed(src.width, ow, iw) ELSE src.width = ow
      /\ IF turn \in BottomTrimmed THEN SideTrimmed(src.height, oh, ih) ELSE src.height = oh
  <2>1. src.width = dst.width /\ src.height = dst.height /\ src.comps = dst.comps
    BY DEF TrimInv
  <2>2. max_h(src) = max_h(dst) /\ max_v(src) = max_v(dst)
    BY <2>1 DEF max_h, max_v
  <2>3. /\ turn \in Transposes => EdgesTrimmed(dst, before.height, before.width)
        /\ turn \notin Transposes => EdgesTrimmed(dst, before.width, before.height)
    BY DEF TrimInv
  <2> QED
    BY <2>1, <2>2, <2>3 DEF EdgesTrimmed
<1>4. src.width \in ow - (iw - 1) .. ow /\ src.height \in oh - (ih - 1) .. oh
  <2> HIDE DEF ow, oh, iw, ih
  <2> QED
    BY <1>1, <1>2, <1>3 DEF SideTrimmed, Pos
<1>5. turn \in {"NONE", "TRANSPOSE"} => src.width = ow /\ src.height = oh
  <2>1. turn \in {"NONE", "TRANSPOSE"} => turn \notin RightTrimmed /\ turn \notin BottomTrimmed
    BY DEF RightTrimmed, BottomTrimmed
  <2> QED
    BY <1>3, <2>1
<1>6. ASSUME src.width >= iw, src.height >= ih PROVE moved = {}
  <2> DEFINE X == src.width   Y == src.height
             X1 == X - (X % iw)   Y1 == Y - (Y % ih)
  <2>1. turn \in RightTrimmed => X1 = X
    <3> HIDE DEF iw, ow
    <3> QED
      BY <1>1, <1>3, <1>6 DEF SideTrimmed, Pos
  <2>2. turn \in BottomTrimmed => Y1 = Y
    <3> HIDE DEF ih, oh
    <3> QED
      BY <1>1, <1>3, <1>6 DEF SideTrimmed, Pos
  <2> HIDE DEF X, Y, X1, Y1
  <2>3. ASSUME NEW y, NEW x PROVE Origin(turn, X, Y, y, x) = Origin(turn, X1, Y1, y, x)
    BY <2>1, <2>2 DEF Origin, RightTrimmed, BottomTrimmed
  <2> QED
    BY <2>3 DEF X, Y, X1, Y1
<1> HIDE DEF moved
<1>7. /\ src.width \in ow - (iw - 1) .. ow /\ src.height \in oh - (ih - 1) .. oh
      /\ src.width >= iw /\ src.height >= ih => moved = {}
      /\ turn \in {"NONE", "TRANSPOSE"} => src.width = ow /\ src.height = oh
  BY <1>4, <1>5, <1>6
<1> QED
  BY <1>7 DEF NoEdgeLeft, moved
-----------------------------------------------------------------------------
(* Of files of any size and sampling, for any sequence of transforms: no    *)
(* row or column is accessed outside of its array, but in a run that drops  *)
(* the colors of a file whose first component has fewer samples than another*)
(* (Overgrown). The workspace is written from the top down, and nothing is  *)
(* read from it that was not written.                                       *)
THEOREM TypeCorrect == Spec => []TypeOK
<1>1. Init => TransformInv
  BY InitInv
<1>2. TransformInv /\ [Next]_vars => TransformInv'
  BY StepInv
<1>3. TransformInv => TypeOK
  BY InvTyped
<1> QED
  BY <1>1, <1>2, <1>3, PTL DEF Spec

(* Whatever the sizes and the sampling: after trimming all that is mirrored *)
(* is whole iMCUs, less than an iMCU of a side is lost, and nothing is      *)
(* without need.                                                            *)
THEOREM TrimmedEdges == Spec => []NoEdgeLeft
<1>1. Init => TransformInv /\ TrimInv
  BY InitInv DEF Init, TrimInv
<1>2. TransformInv /\ TrimInv /\ [Next]_vars => (TransformInv /\ TrimInv)'
  BY StepInv, StepTrim
<1>3. TransformInv /\ TrimInv => NoEdgeLeft
  BY TrimmedIsWhole
<1> QED
  BY <1>1, <1>2, <1>3, PTL DEF Spec
-----------------------------------------------------------------------------
(* Lists of markers. Those is defined by recursion over the list: what its  *)
(* function is has to be shown, and what it has, by induction.              *)
LEMMA LeastNumber ==
  ASSUME NEW T, T \subseteq Nat, T # {}
  PROVE  \E x \in T : \A y \in T : x <= y
<1> DEFINE R == OpToRel(<, Nat)
<1>1. IsWellFoundedOn(R, Nat)
  BY NatLessThanWellFounded
<1>2. \A x, y \in Nat : y < x => <<y, x>> \in R
  BY DEF OpToRel
<1> HIDE DEF R
<1>3. PICK x \in T : \A y \in T : ~(<<y, x>> \in R)
  BY <1>1, WFMin
<1>4. ASSUME NEW y \in T PROVE x <= y
  <2>1. x \in Nat /\ y \in Nat /\ ~(y < x)
    BY <1>2, <1>3
  <2> QED
    BY <2>1
<1> QED
  BY <1>3, <1>4

(* A number that is reached one by one from 0.                              *)
LEMMA UpTo ==
  ASSUME NEW n \in Nat, NEW S, 0 \in S, \A k \in 0 .. n - 1 : k \in S => k + 1 \in S
  PROVE  n \in S
<1> SUFFICES ASSUME n \notin S PROVE FALSE
  OBVIOUS
<1>1. PICK x \in {i \in 0 .. n : i \notin S} : \A y \in {i \in 0 .. n : i \notin S} : x <= y
  <2>1. {i \in 0 .. n : i \notin S} \subseteq Nat /\ n \in {i \in 0 .. n : i \notin S}
    OBVIOUS
  <2> QED
    BY <2>1, LeastNumber, Zenon
<1>2. x \in 1 .. n /\ x - 1 \in 0 .. n - 1 /\ (x - 1) + 1 = x
  BY <1>1
<1> QED
  BY <1>1, <1>2

(* What is kept of the markers up to each place.                            *)
Kept1(s, m, S) == IF m \in S THEN Append(s, m) ELSE s
Sieve(f, ms, S, n) ==
  f[0] = <<>> /\ \A k \in 1 .. n : f[k] = Kept1(f[k - 1], ms[k], S)

(* There is a function that keeps the markers one by one.                   *)
LEMMA SieveExists ==
  ASSUME NEW V, NEW ms \in Seq(V), NEW S
  PROVE  \E f \in [0 .. Len(ms) -> Seq(V)] : Sieve(f, ms, S, Len(ms))
<1> DEFINE N == Len(ms)
           F == [0 .. N -> Seq(V)]
           done == {n \in 0 .. N : \E f \in F : Sieve(f, ms, S, n)}
<1>0. N \in Nat
  OBVIOUS
<1>1. 0 \in done
  <2> DEFINE h == [k \in 0 .. N |-> <<>>]
  <2>1. h \in F /\ h[0] = <<>> /\ 0 \in 0 .. N
    BY <1>0
  <2>2. Sieve(h, ms, S, 0)
    BY <2>1 DEF Sieve
  <2> QED
    BY <2>1, <2>2
<1>2. ASSUME NEW n \in 0 .. N - 1, n \in done PROVE n + 1 \in done
  <2>1. PICK f \in F : Sieve(f, ms, S, n)
    BY <1>2
  <2>2. n + 1 \in 1 .. N /\ n + 1 \in 0 .. N /\ ms[n + 1] \in V /\ f[n] \in Seq(V)
    <3>1. n + 1 \in 1 .. N /\ n + 1 \in 0 .. N /\ n \in 0 .. N
      BY <1>0
    <3>2. ms[n + 1] \in V
      BY <3>1
    <3>3. f[n] \in Seq(V)
      BY <2>1, <3>1
    <3> QED
      BY <3>1, <3>2, <3>3
  <2> DEFINE x == Kept1(f[n], ms[n + 1], S)
             h == [f EXCEPT ![n + 1] = x]
  <2>3. x \in Seq(V)
    BY <2>2 DEF Kept1
  <2> HIDE DEF x
  <2>4. h \in F /\ h[n + 1] = x /\ \A k \in 0 .. N : k # n + 1 => h[k] = f[k]
    BY <2>1, <2>2, <2>3
  <2> HIDE DEF h
  <2>5. h[0] = <<>>
    BY <1>0, <2>1, <2>2, <2>4 DEF Sieve
  <2>6. ASSUME NEW k \in 1 .. n + 1 PROVE h[k] = Kept1(h[k - 1], ms[k], S)
    <3>1. k - 1 \in 0 .. N /\ k - 1 # n + 1 /\ k \in 0 .. N
      BY <1>0
    <3>2. h[k - 1] = f[k - 1]
      BY <2>4, <3>1
    <3>3. CASE k = n + 1
      <4>1. k - 1 = n
        BY <3>3
      <4> QED
        BY <2>4, <3>2, <3>3, <4>1 DEF x
    <3>4. CASE k # n + 1
      <4>1. k \in 1 .. n
        BY <3>4
      <4> QED
        BY <2>1, <2>4, <3>1, <3>2, <3>4, <4>1 DEF Sieve
    <3> QED
      BY <3>3, <3>4
  <2>7. Sieve(h, ms, S, n + 1)
    BY <2>5, <2>6 DEF Sieve
  <2> QED
    BY <2>2, <2>4, <2>7
<1>3. N \in done
  <2> HIDE DEF done, N
  <2> QED
    BY <1>0, <1>1, <1>2, UpTo
<1> QED
  BY <1>3

(* The recursive definition of Those is such a function.                    *)
LEMMA ThoseIs ==
  ASSUME NEW V, NEW ms \in Seq(V), NEW S
  PROVE  \E f \in [0 .. Len(ms) -> Seq(V)] : /\ Sieve(f, ms, S, Len(ms))
                                             /\ Those(ms, S) = f[Len(ms)]
<1> DEFINE N == Len(ms)
           P(f) == f = [n \in 0 .. N |->
                          IF n = 0 THEN <<>>
                          ELSE IF ms[n] \in S THEN Append(f[n - 1], ms[n]) ELSE f[n - 1]]
           g == CHOOSE f : P(f)
<1>0. N \in Nat
  OBVIOUS
<1>1. PICK f \in [0 .. N -> Seq(V)] : Sieve(f, ms, S, N)
  BY SieveExists
<1>2. P(f)
  <2>1. f = [n \in 0 .. N |-> f[n]]
    BY <1>1
  <2>2. ASSUME NEW n \in 0 .. N
        PROVE  f[n] = IF n = 0 THEN <<>>
                      ELSE IF ms[n] \in S THEN Append(f[n - 1], ms[n]) ELSE f[n - 1]
    <3>1. CASE n = 0
      BY <1>1, <3>1 DEF Sieve
    <3>2. CASE n # 0
      <4>1. n \in 1 .. N
        BY <1>0, <3>2
      <4>2. f[n] = Kept1(f[n - 1], ms[n], S)
        BY <1>1, <4>1 DEF Sieve
      <4> QED
        BY <3>2, <4>2 DEF Kept1
    <3> QED
      BY <3>1, <3>2
  <2> QED
    BY <2>1, <2>2, Zenon
<1>3. P(g)
  BY <1>2
<1>4. Those(ms, S) = g[N]
  BY DEF Those
<1> HIDE DEF g
<1>5. ASSUME NEW n \in 0 .. N
      PROVE  g[n] = IF n = 0 THEN <<>>
                    ELSE IF ms[n] \in S THEN Append(g[n - 1], ms[n]) ELSE g[n - 1]
  BY <1>3, Zenon
<1>6. Sieve(g, ms, S, N)
  BY <1>0, <1>5 DEF Sieve, Kept1
<1>7. ASSUME NEW n \in 0 .. N PROVE g[n] = f[n]
  <2> DEFINE same == {k \in 0 .. N : g[k] = f[k]}
  <2>1. 0 \in same
    BY <1>0, <1>1, <1>6 DEF Sieve
  <2>2. ASSUME NEW k \in 0 .. n - 1, k \in same PROVE k + 1 \in same
    <3>1. k + 1 \in 1 .. N /\ k + 1 \in 0 .. N /\ (k + 1) - 1 = k
      BY <1>0
    <3> QED
      BY <1>1, <1>6, <2>2, <3>1 DEF Sieve
  <2> HIDE DEF same
  <2>3. n \in same
    BY <1>0, <2>1, <2>2, UpTo
  <2> QED
    BY <2>3 DEF same
<1>8. N \in 0 .. N
  BY <1>0
<1> QED
  BY <1>1, <1>4, <1>7, <1>8

-----------------------------------------------------------------------------
(* The markers kept of no list, and of a list with one marker more.         *)
LEMMA ThoseTyped ==
  ASSUME NEW V, NEW ms \in Seq(V), NEW S
  PROVE  Those(ms, S) \in Seq(V)
<1>1. PICK f \in [0 .. Len(ms) -> Seq(V)] : Those(ms, S) = f[Len(ms)]
  BY ThoseIs
<1>2. Len(ms) \in 0 .. Len(ms)
  OBVIOUS
<1> QED
  BY <1>1, <1>2

LEMMA ThoseOfNone == ASSUME NEW S PROVE Those(<<>>, S) = <<>>
<1>1. <<>> \in Seq({}) /\ Len(<<>>) = 0
  OBVIOUS
<1>2. PICK f : Sieve(f, <<>>, S, Len(<<>>)) /\ Those(<<>>, S) = f[Len(<<>>)]
  BY <1>1, ThoseIs
<1> QED
  BY <1>1, <1>2 DEF Sieve

LEMMA ThoseOfMore ==
  ASSUME NEW V, NEW ms \in Seq(V), NEW m \in V, NEW S
  PROVE  Those(Append(ms, m), S) = Kept1(Those(ms, S), m, S)
<1> DEFINE n == Len(ms)
           more == Append(ms, m)
<1>1. /\ n \in Nat /\ more \in Seq(V) /\ Len(more) = n + 1 /\ more[n + 1] = m
      /\ \A k \in 1 .. n : more[k] = ms[k]
  OBVIOUS
<1>2. PICK f : Sieve(f, ms, S, n) /\ Those(ms, S) = f[n]
  BY ThoseIs
<1> HIDE DEF more
<1>3. PICK g : Sieve(g, more, S, n + 1) /\ Those(more, S) = g[n + 1]
  BY <1>1, ThoseIs
<1> HIDE DEF n
<1>4. g[n] = f[n]
  <2> DEFINE same == {k \in 0 .. n : g[k] = f[k]}
  <2>1. 0 \in same
    BY <1>1, <1>2, <1>3 DEF Sieve
  <2>2. ASSUME NEW k \in 0 .. n - 1, k \in same PROVE k + 1 \in same
    <3>1. k + 1 \in 1 .. n /\ k + 1 \in 1 .. n + 1 /\ k + 1 \in 0 .. n /\ (k + 1) - 1 = k
      BY <1>1
    <3>2. f[k + 1] = Kept1(f[k], ms[k + 1], S) /\ g[k + 1] = Kept1(g[k], more[k + 1], S)
      BY <1>2, <1>3, <3>1 DEF Sieve
    <3> QED
      BY <1>1, <2>2, <3>1, <3>2
  <2> HIDE DEF same
  <2>3. n \in same
    BY <1>1, <2>1, <2>2, UpTo
  <2> QED
    BY <2>3 DEF same
<1>5. g[n + 1] = Kept1(g[n], m, S)
  <2>1. n + 1 \in 1 .. n + 1 /\ (n + 1) - 1 = n
    BY <1>1
  <2> QED
    BY <1>1, <1>3, <2>1 DEF Sieve
<1> QED
  BY <1>2, <1>3, <1>4, <1>5 DEF more

(* The first n of a list, and one more.                                     *)
LEMMA FirstOnes ==
  ASSUME NEW V, NEW s \in Seq(V)
  PROVE  /\ SubSeq(s, 1, 0) = <<>> /\ SubSeq(s, 1, Len(s)) = s
         /\ \A n \in 0 .. Len(s) : SubSeq(s, 1, n) \in Seq(V)
         /\ \A n \in 0 .. Len(s) - 1 :
              /\ s[n + 1] \in V
              /\ SubSeq(s, 1, n + 1) = Append(SubSeq(s, 1, n), s[n + 1])
<1>1. SubSeq(s, 1, 0) = <<>> /\ SubSeq(s, 1, Len(s)) = s
  BY SubSeqEmpty, SubSeqFull
<1>2. ASSUME NEW n \in 0 .. Len(s) PROVE SubSeq(s, 1, n) \in Seq(V)
  OBVIOUS
<1>3. ASSUME NEW n \in 0 .. Len(s) - 1
      PROVE  s[n + 1] \in V /\ SubSeq(s, 1, n + 1) = Append(SubSeq(s, 1, n), s[n + 1])
  OBVIOUS
<1> QED
  BY <1>1, <1>2, <1>3

LEMMA AppendToLast ==
  ASSUME NEW V, NEW s \in Seq(V), NEW r \in Seq(V), NEW m \in V
  PROVE  Append(s \o r, m) = s \o Append(r, m) /\ s \o r \in Seq(V)
OBVIOUS

(* A marker is kept, or not, behind a list.                                 *)
LEMMA KeptLast ==
  ASSUME NEW V, NEW s \in Seq(V), NEW r \in Seq(V), NEW m \in V, NEW S
  PROVE  Kept1(s \o r, m, S) = s \o Kept1(r, m, S)
<1>1. Append(s \o r, m) = s \o Append(r, m)
  OBVIOUS
<1> QED
  BY <1>1 DEF Kept1

(* The markers kept of two lists one after the other.                       *)
LEMMA ThoseOfBoth ==
  ASSUME NEW V, NEW a \in Seq(V), NEW b \in Seq(V), NEW S
  PROVE  Those(a \o b, S) = Those(a, S) \o Those(b, S)
<1> DEFINE first(n) == SubSeq(b, 1, n)
           right == {n \in 0 .. Len(b) : Those(a \o first(n), S) = Those(a, S) \o Those(first(n), S)}
<1>0. Len(b) \in Nat
  OBVIOUS
<1>1. 0 \in right
  <2>1. first(0) = <<>> /\ a \o <<>> = a
    BY FirstOnes
  <2>2. Those(<<>>, S) = <<>> /\ Those(a, S) \in Seq(V)
    BY ThoseOfNone, ThoseTyped
  <2>3. Those(a, S) \o <<>> = Those(a, S)
    BY <2>2
  <2> HIDE DEF first
  <2>4. Those(a \o first(0), S) = Those(a, S) \o Those(first(0), S)
    BY <2>1, <2>2, <2>3, Zenon
  <2> QED
    BY <1>0, <2>4
<1>2. ASSUME NEW n \in 0 .. Len(b) - 1, n \in right PROVE n + 1 \in right
  <2> DEFINE x == first(n)
             m == b[n + 1]
  <2>1. x \in Seq(V) /\ m \in V /\ first(n + 1) = Append(x, m) /\ n + 1 \in 0 .. Len(b)
    BY FirstOnes
  <2>2. Those(a \o x, S) = Those(a, S) \o Those(x, S)
    BY <1>2
  <2> HIDE DEF x, m, first
  <2>3. a \o Append(x, m) = Append(a \o x, m) /\ a \o x \in Seq(V)
    BY <2>1, AppendToLast
  <2>4. /\ Those(Append(a \o x, m), S) = Kept1(Those(a \o x, S), m, S)
        /\ Those(Append(x, m), S) = Kept1(Those(x, S), m, S)
    BY <2>1, <2>3, ThoseOfMore
  <2>5. Those(a, S) \in Seq(V) /\ Those(x, S) \in Seq(V)
    BY <2>1, ThoseTyped
  <2>6. Kept1(Those(a, S) \o Those(x, S), m, S) = Those(a, S) \o Kept1(Those(x, S), m, S)
    BY <2>1, <2>5, KeptLast
  <2>7. Those(a \o first(n + 1), S) = Those(a, S) \o Those(first(n + 1), S)
    BY <2>1, <2>2, <2>3, <2>4, <2>6, Zenon
  <2> QED
    BY <2>1, <2>7
<1>3. Len(b) \in right
  <2> HIDE DEF right
  <2> QED
    BY <1>0, <1>1, <1>2, UpTo
<1> QED
  BY <1>3, FirstOnes

(* What is kept of what was kept.                                           *)
LEMMA ThoseOfThose ==
  ASSUME NEW V, NEW a \in Seq(V), NEW S, NEW T
  PROVE  Those(Those(a, S), T) = Those(a, S \intersect T)
<1> DEFINE first(n) == SubSeq(a, 1, n)
           right == {n \in 0 .. Len(a) :
                       Those(Those(first(n), S), T) = Those(first(n), S \intersect T)}
<1>0. Len(a) \in Nat
  OBVIOUS
<1>1. 0 \in right
  <2>1. first(0) = <<>>
    BY FirstOnes
  <2> HIDE DEF first
  <2>2. Those(Those(first(0), S), T) = Those(first(0), S \intersect T)
    BY <2>1, ThoseOfNone, Zenon
  <2> QED
    BY <1>0, <2>2
<1>2. ASSUME NEW n \in 0 .. Len(a) - 1, n \in right PROVE n + 1 \in right
  <2> DEFINE x == first(n)
             m == a[n + 1]
             k == Those(x, S)
             b == S \intersect T
  <2>1. x \in Seq(V) /\ m \in V /\ first(n + 1) = Append(x, m) /\ n + 1 \in 0 .. Len(a)
    BY FirstOnes
  <2>2. Those(k, T) = Those(x, b)
    BY <1>2
  <2> HIDE DEF x, m, first
  <2>3. k \in Seq(V)
    BY <2>1, ThoseTyped
  <2>4. Those(Append(x, m), S) = Kept1(k, m, S) /\ Those(Append(x, m), b) = Kept1(Those(x, b), m, b)
    BY <2>1, ThoseOfMore
  <2>5. Those(Append(k, m), T) = Kept1(Those(k, T), m, T)
    BY <2>1, <2>3, ThoseOfMore
  <2> HIDE DEF k
  <2>6. Those(Kept1(k, m, S), T) = Kept1(Those(x, b), m, b)
    BY <2>2, <2>5 DEF Kept1
  <2>7. Those(Those(first(n + 1), S), T) = Those(first(n + 1), b)
    BY <2>1, <2>4, <2>6
  <2> QED
    BY <2>1, <2>7
<1>3. Len(a) \in right
  <2> HIDE DEF right
  <2> QED
    BY <1>0, <1>1, <1>2, UpTo
<1> QED
  BY <1>3, FirstOnes

(* Nothing is kept when nothing is asked for.                               *)
LEMMA ThoseOfEmpty ==
  ASSUME NEW V, NEW a \in Seq(V)
  PROVE  Those(a, {}) = <<>>
<1> DEFINE first(n) == SubSeq(a, 1, n)
           none == {n \in 0 .. Len(a) : Those(first(n), {}) = <<>>}
<1>0. Len(a) \in Nat
  OBVIOUS
<1>1. 0 \in none
  <2>1. first(0) = <<>>
    BY FirstOnes
  <2> HIDE DEF first
  <2>2. Those(first(0), {}) = <<>>
    BY <2>1, ThoseOfNone, Zenon
  <2> QED
    BY <1>0, <2>2
<1>2. ASSUME NEW n \in 0 .. Len(a) - 1, n \in none PROVE n + 1 \in none
  <2> DEFINE x == first(n)
             m == a[n + 1]
  <2>1. x \in Seq(V) /\ m \in V /\ first(n + 1) = Append(x, m) /\ n + 1 \in 0 .. Len(a)
    BY FirstOnes
  <2>2. Those(x, {}) = <<>>
    BY <1>2
  <2> HIDE DEF x, m, first
  <2>3. Those(Append(x, m), {}) = Kept1(<<>>, m, {})
    BY <2>1, <2>2, ThoseOfMore
  <2> QED
    BY <2>1, <2>3 DEF Kept1
<1>3. Len(a) \in none
  <2> HIDE DEF none
  <2> QED
    BY <1>0, <1>1, <1>2, UpTo
<1> QED
  BY <1>3, FirstOnes

(* What is kept of a list of one marker.                                    *)
LEMMA ThoseOfOne ==
  ASSUME NEW V, NEW m \in V, NEW S
  PROVE  Those(<<m>>, S) = IF m \in S THEN <<m>> ELSE <<>>
<1>1. <<>> \in Seq(V) /\ Append(<<>>, m) = <<m>>
  OBVIOUS
<1>2. Those(<<m>>, S) = Kept1(Those(<<>>, S), m, S)
  BY <1>1, ThoseOfMore
<1> QED
  BY <1>1, <1>2, ThoseOfNone DEF Kept1

-----------------------------------------------------------------------------
(* The markers of a run: those of the encoder, then those that were saved,  *)
(* without the ones of the encoder.                                         *)
Headers == (IF dst.write_JFIF_header THEN <<"JFIF">> ELSE <<>>) \o
           (IF dst.write_Adobe_marker THEN <<"Adobe">> ELSE <<>>)
Copied == Headers \o Those(Those(before.markers, Saved), MarkerKinds \ Duplicate)

MarkerInv ==
  /\ src.markers \in Seq(MarkerKinds) /\ before.markers \in Seq(MarkerKinds)
  /\ phase \in {"header", "read", "adjusted", "copying", "turning"} =>
       src.markers = Those(before.markers, Saved)
  /\ phase = "copying" => markers = Headers
  /\ phase = "turning" => markers = Copied
  /\ phase = "done" => src.markers = Copied

(* What the encoder writes has each of its markers once, and no other.      *)
LEMMA HeadersOf ==
  ASSUME NEW S
  PROVE  /\ Headers \in Seq(MarkerKinds)
         /\ S = {"JFIF"} => Those(Headers, S) = IF dst.write_JFIF_header THEN <<"JFIF">> ELSE <<>>
         /\ S = {"Adobe"} => Those(Headers, S) = IF dst.write_Adobe_marker THEN <<"Adobe">> ELSE <<>>
         /\ S = Foreign => Those(Headers, S) = <<>>
<1> DEFINE a == IF dst.write_JFIF_header THEN <<"JFIF">> ELSE <<>>
           b == IF dst.write_Adobe_marker THEN <<"Adobe">> ELSE <<>>
<1>1. a \in Seq(MarkerKinds) /\ b \in Seq(MarkerKinds) /\ Headers = a \o b
  <2>1. "JFIF" \in MarkerKinds /\ "Adobe" \in MarkerKinds
    BY DEF MarkerKinds
  <2> QED
    BY <2>1 DEF Headers
<1>2. /\ Those(<<"JFIF">>, S) = IF "JFIF" \in S THEN <<"JFIF">> ELSE <<>>
      /\ Those(<<"Adobe">>, S) = IF "Adobe" \in S THEN <<"Adobe">> ELSE <<>>
      /\ Those(<<>>, S) = <<>>
  <2>1. "JFIF" \in MarkerKinds /\ "Adobe" \in MarkerKinds
    BY DEF MarkerKinds
  <2> QED
    BY <2>1, ThoseOfOne, ThoseOfNone, Zenon
<1>3. /\ Those(a, S) = IF "JFIF" \in S THEN a ELSE <<>>
      /\ Those(b, S) = IF "Adobe" \in S THEN b ELSE <<>>
  BY <1>2
<1> HIDE DEF a, b
<1>4. Those(Headers, S) = Those(a, S) \o Those(b, S)
  BY <1>1, ThoseOfBoth
<1>5. Headers \in Seq(MarkerKinds) /\ a \o <<>> = a /\ <<>> \o b = b /\ <<>> \o <<>> = <<>>
  <2>1. a \o b \in Seq(MarkerKinds)
    BY <1>1
  <2> QED
    BY <1>1, <2>1
<1>6. S = {"JFIF"} => Those(Headers, S) = a
  <2>1. S = {"JFIF"} => "JFIF" \in S /\ "Adobe" \notin S
    OBVIOUS
  <2> QED
    BY <1>3, <1>4, <1>5, <2>1
<1>7. S = {"Adobe"} => Those(Headers, S) = b
  <2>1. S = {"Adobe"} => "JFIF" \notin S /\ "Adobe" \in S
    OBVIOUS
  <2> QED
    BY <1>3, <1>4, <1>5, <2>1
<1>8. S = Foreign => Those(Headers, S) = <<>>
  <2>1. S = Foreign => "JFIF" \notin S /\ "Adobe" \notin S
    BY DEF Foreign
  <2> QED
    BY <1>3, <1>4, <1>5, <2>1
<1> QED
  BY <1>5, <1>6, <1>7, <1>8 DEF a, b

(* What a result has of the markers of S.                                   *)
LEMMA CopiedOf ==
  ASSUME MarkerInv, NEW S
  PROVE  /\ Copied \in Seq(MarkerKinds)
         /\ Those(Copied, S) =
              Those(Headers, S) \o Those(before.markers, (Saved \intersect (MarkerKinds \ Duplicate)) \intersect S)
<1> DEFINE left == MarkerKinds \ Duplicate
           saved == Those(before.markers, Saved)
           rest == Those(saved, left)
<1>1. before.markers \in Seq(MarkerKinds) /\ Headers \in Seq(MarkerKinds)
  BY HeadersOf DEF MarkerInv
<1>2. saved \in Seq(MarkerKinds)
  BY <1>1, ThoseTyped
<1>3. rest \in Seq(MarkerKinds)
  BY <1>2, ThoseTyped
<1>4. rest = Those(before.markers, Saved \intersect left)
  BY <1>1, ThoseOfThose
<1>5. Those(rest, S) = Those(before.markers, (Saved \intersect left) \intersect S)
  BY <1>1, <1>4, ThoseOfThose
<1>6. Copied = Headers \o rest
  BY DEF Copied
<1> HIDE DEF rest
<1>7. Those(Copied, S) = Those(Headers, S) \o Those(rest, S)
  BY <1>1, <1>3, <1>6, ThoseOfBoth
<1>8. Copied \in Seq(MarkerKinds)
  BY <1>1, <1>3, <1>6
<1> QED
  BY <1>5, <1>7, <1>8

(* The list of a result has each marker as it should.                       *)
LEMMA CopiedOnce == MarkerInv => MarkersOnce
<1> SUFFICES ASSUME MarkerInv, phase = "done" PROVE MarkersOnce
  BY DEF MarkersOnce
<1> DEFINE left == Saved \intersect (MarkerKinds \ Duplicate)
<1>1. src.markers = Copied /\ before.markers \in Seq(MarkerKinds)
  BY DEF MarkerInv
<1>2. ASSUME NEW S PROVE Those(src.markers, S) = Those(Headers, S) \o Those(before.markers, left \intersect S)
  BY <1>1, CopiedOf
<1>3. Those(before.markers, {}) = <<>>
  BY <1>1, ThoseOfEmpty
<1>4. ASSUME dst.write_JFIF_header PROVE Those(src.markers, {"JFIF"}) = <<"JFIF">>
  <2>1. left \intersect {"JFIF"} = {}
    BY <1>4 DEF Duplicate
  <2>2. Those(Headers, {"JFIF"}) = <<"JFIF">>
    BY <1>4, HeadersOf
  <2>3. Those(src.markers, {"JFIF"}) = <<"JFIF">> \o <<>>
    BY <1>2, <1>3, <2>1, <2>2, Zenon
  <2> QED
    BY <2>3
<1>5. ASSUME dst.write_Adobe_marker PROVE Those(src.markers, {"Adobe"}) = <<"Adobe">>
  <2>1. left \intersect {"Adobe"} = {}
    BY <1>5 DEF Duplicate
  <2>2. Those(Headers, {"Adobe"}) = <<"Adobe">>
    BY <1>5, HeadersOf
  <2>3. Those(src.markers, {"Adobe"}) = <<"Adobe">> \o <<>>
    BY <1>2, <1>3, <2>1, <2>2, Zenon
  <2> QED
    BY <2>3
<1>6. Those(src.markers, Foreign) = Those(before.markers, Foreign \intersect Saved)
  <2>1. left \intersect Foreign = Foreign \intersect Saved
    BY DEF Duplicate, Foreign
  <2>2. Those(Headers, Foreign) = <<>>
    BY HeadersOf
  <2> DEFINE kept == Those(before.markers, Foreign \intersect Saved)
  <2>3. kept \in Seq(MarkerKinds)
    BY <1>1, ThoseTyped
  <2>4. Those(src.markers, Foreign) = <<>> \o kept
    BY <1>2, <2>1, <2>2, Zenon
  <2> HIDE DEF kept
  <2>5. Those(src.markers, Foreign) = kept
    BY <2>3, <2>4
  <2> QED
    BY <2>5 DEF kept
<1> QED
  BY <1>4, <1>5, <1>6 DEF MarkersOnce

(* The markers of the file jpegtran begins with.                            *)
LEMMA InitMarkers == Init => MarkerInv
<1> SUFFICES ASSUME Init PROVE MarkerInv
  OBVIOUS
<1>1. job \in Jobs /\ src = Image(job.source) /\ before = src /\ phase = "open"
  BY DEF Init
<1>2. Image(job.source).markers \in Seq(MarkerKinds)
  BY <1>1, JobsAssumption
<1> QED
  BY <1>1, <1>2 DEF MarkerInv

(* The markers after each step of jpegtran.                                 *)
LEMMA StepMarkers == TransformInv /\ MarkerInv /\ [Next]_vars => MarkerInv'
<1> SUFFICES ASSUME TransformInv, MarkerInv, [Next]_vars PROVE MarkerInv'
  OBVIOUS
<1>1. ASSUME UNCHANGED <<job, round>> PROVE Saved' = Saved
  BY <1>1 DEF Saved, info
<1>2. ASSUME UNCHANGED <<job, round, dst, before>> PROVE Headers' = Headers /\ Copied' = Copied
  BY <1>1, <1>2 DEF Headers, Copied, Duplicate
<1>3. IsFile(src) /\ "markers" \in DOMAIN src /\ "arrays" \in DOMAIN src
  BY DEF TransformInv, FileInv, IsFile
<1>4. ASSUME UNCHANGED <<job, round, before>>, src'.markers = src.markers,
             phase \in {"header", "read"}, phase' \in {"read", "adjusted", "error"}
      PROVE  MarkerInv'
  BY <1>1, <1>4 DEF MarkerInv
<1>5. ASSUME UNCHANGED <<phase, job, round, dst, before, markers>>, src'.markers = src.markers
      PROVE  MarkerInv'
  BY <1>1, <1>2, <1>5 DEF MarkerInv
<1>6. CASE UNCHANGED vars
  BY <1>5, <1>6 DEF vars
<1>7. CASE ReadHeader
  <2>1. /\ phase' = "header" /\ before' = src
        /\ src' = [src EXCEPT !.markers = Those(src.markers, Saved)] /\ UNCHANGED <<job, round>>
    BY <1>7 DEF ReadHeader
  <2>2. src'.markers = Those(before'.markers, Saved')
    BY <1>1, <1>3, <2>1
  <2>3. Those(src.markers, Saved) \in Seq(MarkerKinds) /\ src.markers \in Seq(MarkerKinds)
    BY ThoseTyped DEF MarkerInv
  <2> QED
    BY <1>1, <2>1, <2>2, <2>3 DEF MarkerInv
<1>8. CASE jtransform_request_workspace
  BY <1>4, <1>8 DEF jtransform_request_workspace
<1>9. CASE jtransform_adjust_parameters
  <2>1. /\ phase = "read" /\ phase' \in {"adjusted", "error"}
        /\ UNCHANGED <<job, round, src, before>>
    BY <1>9 DEF jtransform_adjust_parameters
  <2> QED
    BY <1>4, <2>1, Zenon
<1>10. CASE WriteCoefficients
  <2>1. /\ phase = "adjusted" /\ phase' = "copying" /\ markers' = Headers
        /\ UNCHANGED <<job, round, src, dst, before>>
    BY <1>10 DEF WriteCoefficients, Headers
  <2> QED
    BY <1>1, <1>2, <2>1 DEF MarkerInv
<1>11. CASE jcopy_markers_execute
  <2>1. /\ phase = "copying" /\ phase' = "turning"
        /\ markers' = markers \o Those(src.markers, MarkerKinds \ Duplicate)
        /\ UNCHANGED <<job, round, src, dst, before>>
    BY <1>11 DEF jcopy_markers_execute
  <2>2. markers' = Copied
    BY <2>1 DEF MarkerInv, Copied
  <2> QED
    BY <1>1, <1>2, <2>1, <2>2 DEF MarkerInv
<1>12. CASE FlipInPlace
  <2>1. UNCHANGED <<phase, job, round, dst, before, markers>> /\ src'.markers = src.markers
    BY <1>3, <1>12 DEF FlipInPlace
  <2> QED
    BY <1>5, <2>1
<1>13. CASE TurnRows
  BY <1>5, <1>13 DEF TurnRows
<1>14. CASE FinishCompress
  <2>1. /\ phase = "turning" /\ phase' = "done" /\ src' = Written
        /\ UNCHANGED <<job, round, dst, before>>
    BY <1>14 DEF FinishCompress
  <2>2. src'.markers = markers
    BY <2>1 DEF Written
  <2>3. src'.markers = Copied
    BY <2>1, <2>2 DEF MarkerInv
  <2>4. Copied \in Seq(MarkerKinds)
    BY CopiedOf
  <2> QED
    BY <1>2, <2>1, <2>3, <2>4 DEF MarkerInv
<1>15. CASE LeaveArrays
  BY <1>15 DEF LeaveArrays, MarkerInv
<1>16. CASE NextRun
  BY <1>16 DEF NextRun, MarkerInv
<1> QED
  BY <1>6, <1>7, <1>8, <1>9, <1>10, <1>11, <1>12, <1>13, <1>14, <1>15, <1>16 DEF Next

(* Whatever markers a file has and whatever is copied of them, over any     *)
(* number of runs: the JFIF and Adobe markers that the encoder writes are   *)
(* there once, and all others that were asked for, in their order.          *)
THEOREM MarkersKept == Spec => []MarkersOnce
<1>1. Init => TransformInv /\ MarkerInv
  BY InitInv, InitMarkers
<1>2. TransformInv /\ MarkerInv /\ [Next]_vars => (TransformInv /\ MarkerInv)'
  BY StepInv, StepMarkers
<1>3. MarkerInv => MarkersOnce
  BY CopiedOnce
<1> QED
  BY <1>1, <1>2, <1>3, PTL DEF Spec
=============================================================================
