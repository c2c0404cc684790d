--------------------------- MODULE JpegTransform ----------------------------
(* jpegtran: the coefficients of an image are mirrored, transposed and      *)
(* rotated without being decoded, jpegtran.c and transupp.c. The            *)
(* destination is written to a workspace, one row of iMCUs at a time, or in *)
(* place. The result is a file that may be transformed again.               *)
EXTENDS Integers, Sequences, FiniteSets, FiniteSetsExt, SequencesExt

CONSTANTS DCTSIZE,             \* samples in a row of a block (8)
          Cosine,              \* the transform: frequency -> sample -> factor
          Jobs,                \* the header of a file and the transforms it goes through
          Image(_)             \* header -> file, see MCJpegTransform

ASSUME TransformAssumption ==
  /\ DCTSIZE \in {2 * n : n \in 1 .. 8}
  /\ \A u, x \in 0 .. DCTSIZE - 1 :
       Cosine[u][DCTSIZE - 1 - x] = IF u % 2 = 1 THEN -Cosine[u][x] ELSE Cosine[u][x]

VARIABLES phase,               \* "open", "header", "read", "adjusted", "copying", "turning", "done", "error",
                             \* "outside": rows or columns were asked for that are not there
          job, round,          \* options of this run: job.options[round]
          src,                 \* the source file; its arrays are read in "read"
          work,                \* sizes of the workspace arrays, <<>> if there are none
          dst,                 \* the parameters of the destination
          turned,              \* rows of the workspace that have been written
          at,                  \* next rows: <<component, block row>>
          markers,             \* markers of the destination
          before               \* the file this run has opened (history)

vars == <<phase, job, round, src, work, dst, turned, at, markers, before>>
-----------------------------------------------------------------------------
info == job.options[round]     \* [transform, trim, force_grayscale, copy]
turn == info.transform
Transposes == {"TRANSPOSE", "TRANSVERSE", "ROT_90", "ROT_270"}
InPlace == turn \in {"NONE", "FLIP_H"}

DivUp(a, b) == (a + b - 1) \div b
RoundUp(a, b) == DivUp(a, b) * b

(* Sizes of a file with its parameters f, and of its component c.           *)
max_h(f) == Max({f.comps[c].h : c \in DOMAIN f.comps})
max_v(f) == Max({f.comps[c].v : c \in DOMAIN f.comps})
width_in_blocks(f, c) == DivUp(f.width * f.comps[c].h, max_h(f) * DCTSIZE)
height_in_blocks(f, c) == DivUp(f.height * f.comps[c].v, max_v(f) * DCTSIZE)
MCU_cols(f) == f.width \div (max_h(f) * DCTSIZE)
MCU_rows(f) == f.height \div (max_v(f) * DCTSIZE)
comp_width(c) == MCU_cols(dst) * dst.comps[c].h
comp_height(c) == MCU_rows(dst) * dst.comps[c].v

Places == (0 .. DCTSIZE - 1) \X (0 .. DCTSIZE - 1)    \* <<row, column>> in a block
ZeroBlock == [p \in Places |-> 0]

(* The arrays of a component are padded to whole iMCUs. What the padding    *)
(* holds is not told apart: zeros.                                          *)
PaddedRows(f, c) == RoundUp(height_in_blocks(f, c), f.comps[c].v)
PaddedCols(f, c) == RoundUp(width_in_blocks(f, c), f.comps[c].h)
Padded(f, c, blocks) ==
  [y \in 0 .. PaddedRows(f, c) - 1 |->
     [x \in 0 .. PaddedCols(f, c) - 1 |->
        IF y < height_in_blocks(f, c) /\ x < width_in_blocks(f, c) THEN blocks[y][x] ELSE ZeroBlock]]

(* The APP0 and APP14 of JFIF and of Adobe, others, other APPn, comments.   *)
MarkerKinds == {"JFIF", "APP0", "Adobe", "APP14", "APP", "COM"}

(* A file that jpeg_read_header accepts, with a block for each place.       *)
Component == [h : 1 .. 4, v : 1 .. 4, tbl : Nat]
Transforms == Transposes \union {"NONE", "FLIP_H", "FLIP_V", "ROT_180"}
IsFile(f) ==
  /\ f \in [width : Nat \ {0}, height : Nat \ {0}, space : {f.space}, comps : Seq(Component),
            quant : {f.quant}, markers : {f.markers}, arrays : {f.arrays}]
  /\ f.comps # <<>>
  /\ f.arrays = [c \in DOMAIN f.comps |-> f.arrays[c]]
  /\ \A c \in DOMAIN f.comps :
       f.arrays[c] \in [0 .. PaddedRows(f, c) - 1 -> [0 .. PaddedCols(f, c) - 1 -> [Places -> Int]]]

(* No component has more samples than the first. Nothing checks it in a file*)
(* that loses its colors, where component 1 becomes the only one, at 1 x 1, *)
(* and is taken to be as large as the image.                                *)
FullFirst(f) ==
  f.space = "YCbCr" => \A c \in DOMAIN f.comps : /\ f.comps[c].h <= f.comps[1].h
                                                 /\ f.comps[c].v <= f.comps[1].v

ASSUME JobsAssumption ==
  \A j \in Jobs :
    /\ IsFile(Image(j.source))
    /\ j.options \in Seq([transform : Transforms, trim : BOOLEAN, force_grayscale : BOOLEAN,
                          copy : {"NONE", "COMMENTS", "ALL"}])
    /\ j.options # <<>> /\ Image(j.source).markers \in Seq(MarkerKinds)
-----------------------------------------------------------------------------
Init == /\ phase = "open" /\ job \in Jobs /\ round = 1 /\ src = Image(job.source)
        /\ work = <<>> /\ dst = <<>> /\ turned = <<>> /\ at = <<1, 0>> /\ markers = <<>> /\ before = src

(* The markers of a list that are among those of S, in their order.         *)
Those(ms, S) ==
  LET f[n \in 0 .. Len(ms)] ==
        IF n = 0 THEN <<>> ELSE IF ms[n] \in S THEN Append(f[n - 1], ms[n]) ELSE f[n - 1]
  IN f[Len(ms)]

(* jcopy_markers_setup, jpeg_read_header: the markers that are saved.       *)
Saved == CASE info.copy = "NONE" -> {}
           [] info.copy = "COMMENTS" -> {"COM"}
           [] info.copy = "ALL" -> MarkerKinds

ReadHeader ==
  /\ phase = "open" /\ phase' = "header" /\ before' = src
  /\ src' = [src EXCEPT !.markers = Those(@, Saved)]
  /\ UNCHANGED <<job, round, work, dst, turned, at, markers>>

(* Mutant of WorkSize: the workspace ends with the last block of the image. *)
WorkSizeBare(c) ==
  LET w == width_in_blocks(src, c)   h == height_in_blocks(src, c)
  IN IF turn \in Transposes THEN [rows |-> w, cols |-> h, maxaccess |-> src.comps[c].h]
     ELSE [rows |-> h, cols |-> w, maxaccess |-> src.comps[c].v]

WorkSize(c) ==
  LET w == PaddedCols(src, c)   h == PaddedRows(src, c)
  IN IF turn \in Transposes THEN [rows |-> w, cols |-> h, maxaccess |-> src.comps[c].h]
     ELSE [rows |-> h, cols |-> w, maxaccess |-> src.comps[c].v]

jtransform_request_workspace ==
  /\ phase = "header" /\ phase' = "read"
  /\ LET n == IF info.force_grayscale /\ src.space = "YCbCr" /\ Len(src.comps) = 3
              THEN 1 ELSE Len(src.comps)
     IN work' = IF InPlace THEN <<>> ELSE [c \in 1 .. n |-> WorkSize(c)]
  /\ turned' = [c \in DOMAIN work' |-> <<>>]
  /\ UNCHANGED <<job, round, src, dst, at, markers, before>>
-----------------------------------------------------------------------------
(* jpeg_copy_critical_parameters.                                           *)
Critical == [width |-> src.width, height |-> src.height, space |-> src.space,
             comps |-> src.comps, quant |-> src.quant,
             write_JFIF_header |-> src.space \in {"YCbCr", "GRAYSCALE"},
             write_Adobe_marker |-> src.space \in {"RGB", "CMYK", "YCCK"}]

(* jpeg_set_colorspace to grayscale, which keeps the quantization table.    *)
Gray(d) == [d EXCEPT !.space = "GRAYSCALE", !.write_JFIF_header = TRUE, !.write_Adobe_marker = FALSE,
                     !.comps = <<[h |-> 1, v |-> 1, tbl |-> d.comps[1].tbl]>>]

Transposed(b) == [p \in Places |-> b[<<p[2], p[1]>>]]

transpose_critical_parameters(d) ==
  [d EXCEPT !.width = d.height, !.height = d.width,
            !.comps = [c \in DOMAIN @ |-> [@[c] EXCEPT !.h = d.comps[c].v, !.v = d.comps[c].h]],
            !.quant = [n \in DOMAIN @ |-> Transposed(@[n])]]

(* Can't trim to 0 pixels.                                                  *)
trim_right_edge(d) ==
  IF MCU_cols(d) > 0 THEN [d EXCEPT !.width = MCU_cols(d) * (max_h(d) * DCTSIZE)] ELSE d
trim_bottom_edge(d) ==
  IF MCU_rows(d) > 0 THEN [d EXCEPT !.height = MCU_rows(d) * (max_v(d) * DCTSIZE)] ELSE d

Trimmed(d) ==
  LET right == IF info.trim /\ turn \in {"FLIP_H", "TRANSVERSE", "ROT_90", "ROT_180"}
               THEN trim_right_edge(d) ELSE d
  IN IF info.trim /\ turn \in {"FLIP_V", "TRANSVERSE", "ROT_180", "ROT_270"}
     THEN trim_bottom_edge(right) ELSE right

GrayFails == info.force_grayscale /\ ~(src.space = "YCbCr" /\ Len(src.comps) = 3)
                                  /\ ~(src.space = "GRAYSCALE" /\ Len(src.comps) = 1)

jtransform_adjust_parameters ==
  /\ phase = "read"
  /\ IF GrayFails THEN phase' = "error" /\ UNCHANGED dst
     ELSE /\ phase' = "adjusted"
          /\ LET d == IF info.force_grayscale THEN Gray(Critical) ELSE Critical
             IN dst' = Trimmed(IF turn \in Transposes THEN transpose_critical_parameters(d) ELSE d)
  /\ UNCHANGED <<job, round, src, work, turned, at, markers, before>>

(* jpeg_write_coefficients writes the headers of the encoder.               *)
WriteCoefficients ==
  /\ phase = "adjusted" /\ phase' = "copying"
  /\ markers' = (IF dst.write_JFIF_header THEN <<"JFIF">> ELSE <<>>) \o
                (IF dst.write_Adobe_marker THEN <<"Adobe">> ELSE <<>>)
  /\ at' = <<1, 0>>
  /\ UNCHANGED <<job, round, src, work, dst, turned, before>>

(* Mutant of Duplicate: any APP0 is taken for the JFIF marker.              *)
DuplicateAny == (IF dst.write_JFIF_header THEN {"JFIF", "APP0"} ELSE {}) \union
                (IF dst.write_Adobe_marker THEN {"Adobe"} ELSE {})

Duplicate == (IF dst.write_JFIF_header THEN {"JFIF"} ELSE {}) \union
             (IF dst.write_Adobe_marker THEN {"Adobe"} ELSE {})

jcopy_markers_execute ==
  /\ phase = "copying" /\ phase' = "turning"
  /\ markers' = markers \o Those(src.markers, MarkerKinds \ Duplicate)
  /\ UNCHANGED <<job, round, src, work, dst, turned, at, before>>
-----------------------------------------------------------------------------
(* A block mirrored: the signs of its odd columns, of its odd rows change.  *)
FlipCols(b) == [p \in Places |-> IF p[2] % 2 = 1 THEN -b[p] ELSE b[p]]
FlipRows(b) == [p \in Places |-> IF p[1] % 2 = 1 THEN -b[p] ELSE b[p]]

(* The rows of blocks y .. y + v - 1 of component c, from the source array  *)
(* a: one operator for each routine.                                        *)
Rows(c, y, Block(_, _)) ==
  [r \in 0 .. dst.comps[c].v - 1 |-> [x \in 0 .. PaddedCols(dst, c) - 1 |-> Block(y + r, x)]]
Mirror(n, x) == IF x < n THEN n - x - 1 ELSE x

flip_h(c, a, y, x) ==
  IF x < comp_width(c) THEN FlipCols(a[y][comp_width(c) - x - 1]) ELSE a[y][x]

flip_v(c, a, y, x) ==
  IF y < comp_height(c) THEN FlipRows(a[comp_height(c) - y - 1][x]) ELSE a[y][x]

transpose(a, y, x) == Transposed(a[x][y])

(* Mutant of rot_90: all blocks of a row change places, as if there were no *)
(* partial iMCU.                                                            *)
rot_90_all(c, a, y, x) == Transposed(FlipRows(a[PaddedCols(dst, c) - x - 1][y]))

rot_90(c, a, y, x) ==
  IF x < comp_width(c) THEN Transposed(FlipRows(a[comp_width(c) - x - 1][y]))
  ELSE Transposed(a[x][y])

rot_270(c, a, y, x) ==
  IF y < comp_height(c) THEN Transposed(FlipCols(a[x][comp_height(c) - y - 1]))
  ELSE Transposed(a[x][y])

rot_180(c, a, y, x) ==
  CASE y < comp_height(c) /\ x < comp_width(c) ->
         FlipRows(FlipCols(a[comp_height(c) - y - 1][comp_width(c) - x - 1]))
    [] y < comp_height(c) /\ x >= comp_width(c) -> FlipRows(a[comp_height(c) - y - 1][x])
    [] y >= comp_height(c) /\ x < comp_width(c) -> FlipCols(a[y][comp_width(c) - x - 1])
    [] y >= comp_height(c) /\ x >= comp_width(c) -> a[y][x]

transverse(c, a, y, x) ==
  LET from(b) == IF x < comp_width(c) THEN Transposed(FlipRows(b)) ELSE Transposed(b)
      row == Mirror(comp_width(c), x)
  IN IF y < comp_height(c) THEN from(FlipCols(a[row][comp_height(c) - y - 1]))
     ELSE from(a[row][y])

TurnedBlock(c, a, y, x) ==
  CASE turn = "FLIP_V" -> flip_v(c, a, y, x)
    [] turn = "FLIP_H" -> flip_h(c, a, y, x)
    [] turn = "TRANSPOSE" -> transpose(a, y, x)
    [] turn = "ROT_90" -> rot_90(c, a, y, x)
    [] turn = "ROT_180" -> rot_180(c, a, y, x)
    [] turn = "ROT_270" -> rot_270(c, a, y, x)
    [] turn = "TRANSVERSE" -> transverse(c, a, y, x)

(* The virtual arrays are accessed for a whole row of iMCUs at a time: the  *)
(* source rows that are looked at for the rows from y on.                   *)
SourceRows(c, y) ==
  LET v == dst.comps[c].v   h == dst.comps[c].h
      whole == comp_height(c)
  IN IF turn \in Transposes
     THEN {[start |-> x, num |-> h] : x \in {h * i : i \in 0 .. (PaddedCols(dst, c) \div h) - 1}}
     ELSE IF turn \in {"FLIP_V", "ROT_180"} /\ y < whole
     THEN {[start |-> whole - y - v, num |-> v]}
     ELSE {[start |-> y, num |-> v]}

(* access_virt_barray refuses a strip that is higher than was asked for in  *)
(* the request, or not in the array.                                        *)
RowsGranted(c, y) ==
  /\ work # <<>> => dst.comps[c].v <= work[c].maxaccess /\ y + dst.comps[c].v <= work[c].rows
  /\ \A r \in SourceRows(c, y) : /\ r.start >= 0 /\ r.num <= src.comps[c].v
                                 /\ r.start + r.num <= PaddedRows(src, c)

(* Nothing looks after the columns: those of the source are read as far as  *)
(* this.                                                                    *)
ColumnsRead(c, y) ==
  CASE turn = "FLIP_H" -> comp_width(c)
    [] turn \in {"FLIP_V", "ROT_180"} -> PaddedCols(dst, c)
    [] turn \in {"ROT_270", "TRANSVERSE"} /\ y < comp_height(c) -> comp_height(c) - y
    [] OTHER -> y + dst.comps[c].v

ColumnsExist(c, y) == /\ ColumnsRead(c, y) <= PaddedCols(src, c)
                      /\ work # <<>> => PaddedCols(dst, c) <= work[c].cols

(* The arrays of the source, when they are what is written.                 *)
ImageExists ==
  work = <<>> => \A c \in DOMAIN dst.comps : /\ PaddedRows(dst, c) <= PaddedRows(src, c)
                                            /\ width_in_blocks(dst, c) <= PaddedCols(src, c)

RowsLeft == turn # "NONE" /\ at[1] <= Len(dst.comps)
StepFits == IF RowsLeft THEN RowsGranted(at[1], at[2]) /\ ColumnsExist(at[1], at[2])
                        ELSE ImageExists

NextRows ==
  LET c == at[1]   y == at[2] + dst.comps[at[1]].v
  IN IF y < height_in_blocks(dst, c) THEN <<c, y>> ELSE <<c + 1, 0>>

(* One turn of the outer loops of do_flip_h, in place ...                   *)
FlipInPlace ==
  /\ phase = "turning" /\ RowsLeft /\ StepFits /\ turn = "FLIP_H"
  /\ LET c == at[1]   y == at[2]
         a == src.arrays[c]
     IN src' = [src EXCEPT !.arrays[c] =
                  [r \in DOMAIN @ |->
                     IF r \notin y .. y + dst.comps[c].v - 1 THEN @[r]
                     ELSE [x \in DOMAIN @[r] |-> flip_h(c, a, r, x)]]]
  /\ at' = NextRows
  /\ UNCHANGED <<phase, job, round, work, dst, turned, markers, before>>

(* ... and of the other routines, into the workspace.                       *)
TurnRows ==
  /\ phase = "turning" /\ RowsLeft /\ StepFits /\ ~InPlace
  /\ LET c == at[1]   y == at[2]
         new == Rows(c, y, LAMBDA r, x : TurnedBlock(c, src.arrays[c], r, x))
     IN turned' = [turned EXCEPT ![c] = @ \o [i \in 1 .. dst.comps[c].v |-> new[i - 1]]]
  /\ at' = NextRows
  /\ UNCHANGED <<phase, job, round, src, work, dst, markers, before>>

(* jpeg_finish_compress: the blocks of the arrays that jtransform_adjust_-  *)
(* parameters has returned, as far as the image extends.                    *)
Written ==
  LET blocks(c) == IF work = <<>> THEN src.arrays[c]
                   ELSE [y \in 0 .. Len(turned[c]) - 1 |-> turned[c][y + 1]]
  IN [width |-> dst.width, height |-> dst.height, space |-> dst.space, comps |-> dst.comps,
      quant |-> dst.quant, markers |-> markers,
      arrays |-> [c \in DOMAIN dst.comps |-> Padded(dst, c, blocks(c))]]

FinishCompress ==
  /\ phase = "turning" /\ ~RowsLeft /\ StepFits
  /\ phase' = "done" /\ src' = Written
  /\ work' = <<>> /\ turned' = <<>> /\ at' = <<1, 0>>
  /\ UNCHANGED <<job, round, dst, markers, before>>

(* Rows that are not there are refused with an error exit; after columns    *)
(* that are not there, nothing is said of the result.                       *)
LeaveArrays ==
  /\ phase = "turning" /\ ~StepFits
  /\ phase' = "outside"
  /\ UNCHANGED <<job, round, src, work, dst, turned, at, markers, before>>

(* The result is the source of the next run.                                *)
NextRun ==
  /\ phase = "done" /\ round < Len(job.options)
  /\ phase' = "open" /\ round' = round + 1
  /\ dst' = <<>> /\ markers' = <<>>
  /\ UNCHANGED <<job, src, work, turned, at, before>>

Next == \/ ReadHeader \/ jtransform_request_workspace \/ jtransform_adjust_parameters
        \/ WriteCoefficients \/ jcopy_markers_execute \/ FlipInPlace \/ TurnRows
        \/ FinishCompress \/ LeaveArrays \/ NextRun

Spec == Init /\ [][Next]_vars
-----------------------------------------------------------------------------
Phases == {"open", "header", "read", "adjusted", "copying", "turning", "done", "error", "outside"}

(* The one job for which the arrays of the source need not be large enough: *)
(* its colors are dropped, and its first component has fewer samples than   *)
(* another.                                                                 *)
Overgrown == info.force_grayscale /\ ~FullFirst(before)

AccessesFit ==
  /\ phase = "outside" => Overgrown
  /\ phase = "turning" /\ work # <<>> =>
       IF RowsLeft THEN at[2] = Len(turned[at[1]])
       ELSE \A c \in DOMAIN dst.comps : height_in_blocks(dst, c) <= Len(turned[c])

(* Types, and every access in its array, but in an overgrown job: as many   *)
(* rows at a time as were asked for, no column beyond the last, the         *)
(* workspace from the top down, no row read before it was written           *)
(* (transupp.c:37-41, 57-59; jmemmgr.c, JERR_BAD_VIRTUAL_ACCESS).           *)
TypeOK ==
  /\ AccessesFit
  /\ phase \in Phases /\ round \in DOMAIN job.options
  /\ at[2] % (IF phase = "turning" /\ RowsLeft THEN dst.comps[at[1]].v ELSE 1) = 0
  /\ \A c \in DOMAIN src.comps : \A y \in DOMAIN src.arrays[c] : \A x \in DOMAIN src.arrays[c][y] :
       src.arrays[c][y][x] \in [Places -> Int]

(* A sample of a component of a file, up to a factor: what the inverse      *)
(* transform makes of the dequantized coefficients.                         *)
Sample(f, c, y, x) ==
  LET b == f.arrays[c][y \div DCTSIZE][x \div DCTSIZE]
      q == f.quant[f.comps[c].tbl]
  IN FoldSet(LAMBDA p, n : n + b[p] * q[p] * Cosine[p[1]][y % DCTSIZE] * Cosine[p[2]][x % DCTSIZE],
             0, Places)

(* Samples of a component, in all and in whole iMCUs.                       *)
Samples(n, samp, max) == DivUp(n * samp, max)
Whole(n, samp, max) == (Max({m \in 0 .. n : m % (max * DCTSIZE) = 0}) * samp) \div max

(* Where the sample (y, x) comes from, if code is done to an image: sides   *)
(* are mirrored as far as there are whole iMCUs, which are X wide, Y high.  *)
Origin(code, X, Y, y, x) ==
  LET mx == IF code \in {"FLIP_H", "TRANSVERSE", "ROT_90", "ROT_180"} THEN Mirror(X, x) ELSE x
      my == IF code \in {"FLIP_V", "TRANSVERSE", "ROT_180", "ROT_270"} THEN Mirror(Y, y) ELSE y
  IN IF code \in Transposes THEN <<mx, my>> ELSE <<my, mx>>

Depicts(new, old, code) ==
  \A c \in DOMAIN new.comps :
    LET h == new.comps[c].h   v == new.comps[c].v
        X == Whole(new.width, h, max_h(new))   Y == Whole(new.height, v, max_v(new))
    IN \A y \in 0 .. Samples(new.height, v, max_v(new)) - 1 :
       \A x \in 0 .. Samples(new.width, h, max_h(new)) - 1 :
         LET from == Origin(code, X, Y, y, x)
         IN Sample(new, c, y, x) = Sample(old, c, from[1], from[2])

(* Two runs that lose nothing combine as transupp.c:229-470 and transupp.h: *)
(* 68 say, edges included; each transform has its inverse.                  *)
Combination == {<<"TRANSPOSE", "FLIP_H", "ROT_90">>, <<"FLIP_H", "TRANSPOSE", "ROT_270">>,
                <<"FLIP_V", "FLIP_H", "ROT_180">>, <<"ROT_180", "TRANSPOSE", "TRANSVERSE">>,
                <<"FLIP_H", "FLIP_H", "NONE">>, <<"FLIP_V", "FLIP_V", "NONE">>,
                <<"TRANSPOSE", "TRANSPOSE", "NONE">>, <<"TRANSVERSE", "TRANSVERSE", "NONE">>,
                <<"ROT_180", "ROT_180", "NONE">>, <<"ROT_90", "ROT_270", "NONE">>,
                <<"ROT_270", "ROT_90", "NONE">>, <<"ROT_90", "ROT_90", "ROT_180">>}
Lossless == \A i \in DOMAIN job.options : ~job.options[i].trim /\ ~job.options[i].force_grayscale

Combined ==
  phase = "done" /\ round = 2 /\ Lossless =>
    \A k \in Combination :
      k[1] = job.options[1].transform /\ k[2] = turn =>
        /\ \A original \in {Image(job.source)} : Depicts(src, original, k[3])
        /\ k[3] = "NONE" => /\ src.width = job.source.width /\ src.height = job.source.height
                            /\ src.comps = job.source.comps /\ src.quant = Image(job.source).quant

(* A trimmed result has no partial iMCU left that could not be mirrored,    *)
(* and less than an iMCU is lost of each side (transupp.h:71-76).           *)
NoEdgeLeft ==
  phase = "done" /\ info.trim =>
    LET old == [w |-> IF turn \in Transposes THEN before.height ELSE before.width,
                h |-> IF turn \in Transposes THEN before.width ELSE before.height]
        iw == max_h(src) * DCTSIZE   ih == max_v(src) * DCTSIZE
        moved == {p \in (0 .. src.height - 1) \X (0 .. src.width - 1) :
                    Origin(turn, src.width, src.height, p[1], p[2]) #
                    Origin(turn, src.width - (src.width % iw), src.height - (src.height % ih), p[1], p[2])}
    IN /\ src.width \in old.w - (iw - 1) .. old.w /\ src.height \in old.h - (ih - 1) .. old.h
       /\ src.width >= iw /\ src.height >= ih => moved = {}
       /\ turn \in {"NONE", "TRANSPOSE"} => src.width = old.w /\ src.height = old.h

(* The new file shows the old one turned: its whole iMCUs are mirrored, a   *)
(* partial one at the right or bottom edge stays there (transupp.h:51-69),  *)
(* whatever the sampling, the sizes and the quantization tables; trimming   *)
(* takes those away and nothing else; and two runs combine.                 *)
Geometry == (phase = "done" => Depicts(src, before, turn)) /\ NoEdgeLeft /\ Combined

(* The markers of the encoder are there once, and those of the source that  *)
(* were asked for, once and in order (transupp.c:891-895).                  *)
Foreign == MarkerKinds \ {"JFIF", "Adobe"}
MarkersOnce ==
  phase = "done" =>
    /\ dst.write_JFIF_header => Those(src.markers, {"JFIF"}) = <<"JFIF">>
    /\ dst.write_Adobe_marker => Those(src.markers, {"Adobe"}) = <<"Adobe">>
    /\ Those(src.markers, Foreign) = Those(before.markers, Foreign \intersect Saved)

(* What a header says, and fails: a file that loses its colors keeps its    *)
(* luminance, and so as many samples of it as before (transupp.h:78-80).    *)
LuminancePreserved ==
  phase = "done" /\ info.force_grayscale /\ ~info.trim =>
    LET wide(f) == Samples(f.width, f.comps[1].h, max_h(f))
        high(f) == Samples(f.height, f.comps[1].v, max_v(f))
    IN <<wide(src), high(src)>> = IF turn \in Transposes THEN <<high(before), wide(before)>>
                                                         ELSE <<wide(before), high(before)>>
=============================================================================
