----------------------------- MODULE JpegDecode -----------------------------
(* The output side of the libjpeg decompressor: the calls of the            *)
(* application (jdapistd.c, jdapimin.c), the choice of modules and passes   *)
(* (jdmaster.c), the coefficient controller (jdcoefct.c), the main buffer   *)
(* and its context rows (jdmainct.c), the postprocessor (jdpostct.c) and    *)
(* the upsamplers (jdsample.c, jdmerge.c). The input is a list of scans; it *)
(* may suspend before any MCU or marker. A row of samples is [r, cols]:     *)
(* which row of the component it is, and the block columns of it that hold  *)
(* all the data wanted. ERREXIT leads to "ERROR".                           *)
EXTENDS Integers, Sequences, FiniteSets, FiniteSetsExt

CONSTANTS Configs,         \* images, with what the application asks of them
          DCTSIZE,
          LinesAsked,      \* bound: the max_lines of the application
          MaxPasses        \* bound: output passes in buffered-image mode

(* What the headers and the application can ask for: initial_setup refuses  *)
(* other sampling factors; get_sos finds each component of a scan in the    *)
(* frame, none twice in a file that follows the standard; a color map that  *)
(* is there from the start is the application's.                            *)
IsScan(scan, n) ==
  /\ scan.comps \in Seq(1 .. n) /\ scan.comps # <<>> /\ scan.Ss \in Nat /\ scan.Al \in Nat
  /\ \A i, j \in DOMAIN scan.comps : scan.comps[i] = scan.comps[j] => i = j

IsImage(c) ==
  /\ c.comps \in Seq([h : 1 .. 4, v : 1 .. 4, needed : BOOLEAN]) /\ c.comps # <<>>
  /\ c.width \in Nat \ {0} /\ c.height \in Nat \ {0} /\ c.scaled \in 1 .. DCTSIZE
  /\ Len(c.scans) \in Nat \ {0} /\ DOMAIN c.scans = 1 .. Len(c.scans)
  /\ \A k \in DOMAIN c.scans : IsScan(c.scans[k], Len(c.comps))
  /\ c.colormap \in {"none", "external"}
  /\ {c.progressive, c.buffered, c.raw, c.fancy, c.ycc, c.smoothing, c.quantize,
      c.two_pass} \subseteq BOOLEAN

ASSUME ConfigsAssumption == \A c \in Configs : IsImage(c)
ASSUME SizesAssumption ==
  DCTSIZE \in Nat \ {0} /\ LinesAsked \subseteq Nat \ {0} /\ MaxPasses \in Nat \ {0}

VARIABLES cfg,             \* the one of Configs that is decompressed
          global_state,
          call,            \* [op, max]: what the application waits for
          input,           \* [scan, row, vert, mcu, data, eoi]
          coefs,           \* whole_image: the last scan decoded into each block
          coef_bits,       \* [dc, ac]: the accuracy known, -1 at first
          output,          \* [scan, row, scanline, smooth]
          main,            \* the main buffer controller
          up,              \* the upsampler
          post,            \* the postprocessing controller
          quant,           \* [colormap, active, two_pass, dummy, changed]
          shown,           \* [from, rows]: the last rows given to the application
          passes           \* output passes started

vars == <<cfg, global_state, call, input, coefs, coef_bits, output, main, up, post,
          quant, shown, passes>>
pipe == <<main, up, post>>

Least(x, y) == IF x < y THEN x ELSE y
Ceil(x, y) == (x + y - 1) \div y

Comps == DOMAIN cfg.comps
Needed == {c \in Comps : cfg.comps[c].needed}
h(c) == cfg.comps[c].h
v(c) == cfg.comps[c].v
MaxH == Max({h(c) : c \in Comps})
MaxV == Max({v(c) : c \in Comps})
M == cfg.scaled                                \* min_DCT_scaled_size
-----------------------------------------------------------------------------
(* jpeg_calc_output_dimensions                                              *)
OutputHeight == Ceil(cfg.height * M, DCTSIZE)

(* The size is doubled as long as the samples do not outnumber the pixels.  *)
DCT_scaled_size(c) ==
  M * Max({n \in {1, 2, 4, 8} : /\ M * n <= DCTSIZE
                                /\ h(c) * (M * n) <= MaxH * M
                                /\ v(c) * (M * n) <= MaxV * M})

downsampled_width(c) == Ceil(cfg.width * h(c) * DCT_scaled_size(c), MaxH * DCTSIZE)
downsampled_height(c) == Ceil(cfg.height * v(c) * DCT_scaled_size(c), MaxV * DCTSIZE)

(* initial_setup                                                            *)
width_in_blocks(c) == Ceil(cfg.width * h(c), MaxH * DCTSIZE)
height_in_blocks(c) == Ceil(cfg.height * v(c), MaxV * DCTSIZE)
total_iMCU_rows == Ceil(cfg.height, MaxV * DCTSIZE)
has_multiple_scans == Len(cfg.scans[1].comps) < Len(cfg.comps) \/ cfg.progressive

iMCUheight(c) == v(c) * DCT_scaled_size(c)
rgroup(c) == iMCUheight(c) \div M
last_block_rows(c) == LET n == height_in_blocks(c) % v(c) IN IF n = 0 THEN v(c) ELSE n
-----------------------------------------------------------------------------
(* Selection of modules: use_merged_upsample, jinit_upsampler.              *)
use_merged_upsample ==
  /\ ~cfg.fancy /\ cfg.ycc /\ Len(cfg.comps) = 3
  /\ h(1) = 2 /\ h(2) = 1 /\ h(3) = 1
  /\ v(1) <= 2 /\ v(2) = 1 /\ v(3) = 1
  /\ \A c \in Comps : DCT_scaled_size(c) = M

VRatio(c) == MaxV \div rgroup(c)
HRatio(c) == (MaxH * M) \div (h(c) * DCT_scaled_size(c))

h2v2_fancy(c) == /\ cfg.fancy /\ M > 1 /\ c \in Needed
                 /\ HRatio(c) = 2 /\ VRatio(c) = 2 /\ downsampled_width(c) > 2

need_context_rows == ~cfg.raw /\ ~use_merged_upsample /\ \E c \in Comps : h2v2_fancy(c)

(* Errors of master_selection and jinit_upsampler: raw data are not         *)
(* quantized, and only whole factors are upsampled.                         *)
hgroup(c) == (h(c) * DCT_scaled_size(c)) \div M
Supported ==
  IF cfg.raw THEN ~cfg.quantize
  ELSE use_merged_upsample
       \/ \A c \in Needed : MaxV % rgroup(c) = 0 /\ MaxH % hgroup(c) = 0

use_c_buffer == has_multiple_scans \/ cfg.buffered

(* master_selection: which quantizers are there.                            *)
ThreeComps == Len(cfg.comps) = 3
enable_2pass == /\ cfg.quantize /\ ThreeComps
                /\ (cfg.buffered /\ cfg.enable2) \/ (cfg.colormap = "none" /\ cfg.two_pass)
enable_external == /\ cfg.quantize /\ ThreeComps
                   /\ (cfg.buffered /\ cfg.enable_ext) \/ cfg.colormap # "none"
enable_1pass == /\ cfg.quantize
                /\ \/ ~ThreeComps \/ (cfg.buffered /\ cfg.enable1)
                   \/ (cfg.colormap = "none" /\ ~cfg.two_pass)
-----------------------------------------------------------------------------
NoRow == [r |-> -1, cols |-> {}]

Groups == IF need_context_rows THEN M + 2 ELSE M
EmptyBuffer == [c \in Comps |-> [i \in 0 .. rgroup(c) * Groups - 1 |-> NoRow]]

(* make_funny_pointers: the two lists of row pointers into the buffer; the  *)
(* last four row groups are swapped in the second. 0: not set yet.          *)
FunnyPointers(c) ==
  LET g == rgroup(c)
      range == -g .. g * (M + 3) - 1
      first == [i \in range |-> IF i \in 0 .. g * (M + 2) - 1 THEN i ELSE 0]
  IN <<first,
       [i \in range |-> IF i \in g * (M - 2) .. g * M - 1 THEN first[i + 2 * g]
                        ELSE IF i \in g * M .. g * (M + 2) - 1 THEN first[i - 2 * g]
                        ELSE first[i]]>>

(* set_wraparound_pointers                                                  *)
Wraparound(list, g) ==
  [i \in DOMAIN list |-> IF i < 0 THEN list[i + g * (M + 2)]
                         ELSE IF i >= g * (M + 2) THEN list[i - g * (M + 2)]
                         ELSE list[i]]

RowsLeft(c) == LET n == downsampled_height(c) % iMCUheight(c)
               IN IF n = 0 THEN iMCUheight(c) ELSE n

(* set_bottom_pointers: the last row is there 2 * rgroup times more.        *)
Bottom(list, c) ==
  LET left == RowsLeft(c)
  IN [i \in DOMAIN list |->
        IF i \in left .. left + 2 * rgroup(c) - 1 THEN list[left - 1] ELSE list[i]]

BottomGroups == ((RowsLeft(1) - 1) \div rgroup(1)) + 1

(* What the coefficient controller fills: the rows the list points to.      *)
Physical(c, i) == IF need_context_rows THEN main.xbuffer[c][main.whichptr][i] ELSE i

(* The rows as the postprocessor sees them.                                 *)
InputRows(m) ==
  IF need_context_rows
  THEN [c \in Comps |-> [i \in DOMAIN m.xbuffer[c][m.whichptr] |->
                            m.buf[c][m.xbuffer[c][m.whichptr][i]]]]
  ELSE m.buf

NewMain == [buf |-> EmptyBuffer, xbuffer |-> <<>>, whichptr |-> 1, buffer_full |-> FALSE,
            context_state |-> "PREPARE", rowgroup_ctr |-> 0, rowgroups_avail |-> M,
            iMCU_row_ctr |-> 0, crank |-> FALSE]

(* start_pass_main                                                          *)
StartMain(m) ==
  [m EXCEPT !.xbuffer = IF need_context_rows THEN [c \in Comps |-> FunnyPointers(c)]
                        ELSE <<>>,
            !.whichptr = 1, !.buffer_full = FALSE, !.context_state = "PREPARE",
            !.rowgroup_ctr = 0, !.iMCU_row_ctr = 0, !.crank = FALSE]

(* start_pass_upsample, start_pass_merged_upsample                          *)
NewUp == [next_row_out |-> MaxV, rows_to_go |-> OutputHeight, color |-> <<>>,
          spare |-> <<>>]

strip_height == MaxV

(* jinit_d_post_controller: the image the 2-pass quantizer keeps, in strips.*)
NewWhole == [k \in 1 .. (IF enable_2pass THEN strip_height * Ceil(OutputHeight, strip_height)
                        ELSE 0) |-> [c \in Needed |-> <<NoRow, NoRow>>]]

Init ==
  /\ cfg \in Configs
  /\ global_state = "READY" /\ call = [op |-> "none", max |-> 0]
  /\ input = [scan |-> 1, row |-> 0, vert |-> 0, mcu |-> 0, data |-> TRUE, eoi |-> FALSE]
  /\ coefs = [c \in Comps |-> [b \in (0 .. total_iMCU_rows * v(c) - 1) \X
                                     (0 .. Ceil(width_in_blocks(c), h(c)) * h(c) - 1) |-> 0]]
  /\ coef_bits = [c \in Comps |-> [dc |-> -1, ac |-> -1]]
  /\ output = [scan |-> 0, row |-> 0, scanline |-> 0, smooth |-> FALSE]
  /\ main = NewMain /\ up = NewUp
  /\ post = [mode |-> "PASS_THRU", starting_row |-> 0, next_row |-> 0, whole |-> NewWhole]
  /\ quant = [colormap |-> cfg.colormap, two_pass |-> cfg.two_pass, dummy |-> FALSE,
              active |-> "none", changed |-> FALSE]
  /\ shown = [from |-> 0, rows |-> <<>>]
  /\ passes = 0
-----------------------------------------------------------------------------
(* The upsamplers. Which rows of component c row j of a row group is made   *)
(* of: the nearest one, and the one that triangle filtering mixes in.       *)
Sources(rows, c, group, j) ==
  LET near == rgroup(c) * group + (j \div VRatio(c))
  IN <<rows[c][near],
       rows[c][IF ~h2v2_fancy(c) THEN near ELSE IF j % 2 = 0 THEN near - 1 ELSE near + 1]>>

RowGroup(rows, group) ==
  [j \in 1 .. MaxV |-> [c \in Needed |-> Sources(rows, c, group, j - 1)]]

(* sep_upsample: from the row group in the conversion buffer, at most room  *)
(* rows. q holds up, the row group counter and the rows given.              *)
SepUpsample(q, rows, room) ==
  LET empty == q.up.next_row_out >= MaxV
      color == IF empty THEN RowGroup(rows, q.group) ELSE q.up.color
      next == IF empty THEN 0 ELSE q.up.next_row_out
      n == Least(Least(MaxV - next, q.up.rows_to_go), room)
  IN [q EXCEPT !.up.color = color, !.up.next_row_out = next + n,
               !.up.rows_to_go = @ - n,
               !.rows = SubSeq(color, next + 1, next + n),
               !.group = IF next + n >= MaxV THEN @ + 1 ELSE @]

(* merged_2v_upsample: the second row of the pair may have to be spared.    *)
Merged2v(q, rows, room) ==
  LET pair == RowGroup(rows, q.group)
      n == IF q.up.spare # <<>> THEN 1 ELSE Least(Least(2, q.up.rows_to_go), room)
      spare == IF q.up.spare = <<>> /\ n <= 1 THEN <<pair[2]>> ELSE <<>>
  IN [q EXCEPT !.up.spare = spare, !.up.rows_to_go = @ - n,
               !.rows = IF q.up.spare # <<>> THEN q.up.spare ELSE SubSeq(pair, 1, n),
               !.group = IF spare = <<>> THEN @ + 1 ELSE @]

(* merged_1v_upsample                                                       *)
Merged1v(q, rows) ==
  [q EXCEPT !.rows = RowGroup(rows, q.group), !.group = @ + 1]

upsample(q, rows, room) ==
  IF use_merged_upsample
  THEN IF MaxV = 2 THEN Merged2v(q, rows, room) ELSE Merged1v(q, rows)
  ELSE SepUpsample(q, rows, room)

NextStrip(p) == IF p.next_row >= strip_height
                THEN [p EXCEPT !.starting_row = @ + strip_height, !.next_row = 0]
                ELSE p

(* post_process_prepass: rows go to the whole image, none to the caller,    *)
(* which is told how many there were.                                       *)
Prepass(q, rows) ==
  LET got == upsample(q, rows, strip_height - q.post.next_row)
      n == Len(got.rows)
      at == q.post.starting_row + q.post.next_row
      p == [q.post EXCEPT !.next_row = @ + n,
                          !.whole = SubSeq(@, 1, at) \o got.rows \o
                                    SubSeq(@, at + n + 1, Len(@))]
  IN [got EXCEPT !.post = NextStrip(p), !.rows = <<>>, !.count = n]

(* post_process_2pass                                                       *)
SecondPass(q, room) ==
  LET n == Least(Least(strip_height - q.post.next_row, room),
                 OutputHeight - q.post.starting_row)
      at == q.post.starting_row + q.post.next_row
  IN [q EXCEPT !.rows = SubSeq(q.post.whole, at + 1, at + n), !.count = n,
               !.post = NextStrip([q.post EXCEPT !.next_row = @ + n])]

(* post_process_1pass, or the upsampler itself when nothing is quantized    *)
OnePass(q, rows, room) ==
  LET got == upsample(q, rows, IF cfg.quantize THEN Least(room, strip_height) ELSE room)
  IN [got EXCEPT !.count = Len(got.rows)]

(* On the row groups from number group of these rows, for room lines.       *)
post_process_data(rows, group, room) ==
  LET q == [up |-> up, post |-> post, group |-> group, rows |-> <<>>, count |-> 0]
  IN CASE post.mode = "PASS_THRU" -> OnePass(q, rows, room)
       [] post.mode = "SAVE_AND_PASS" -> Prepass(q, rows)
       [] post.mode = "CRANK_DEST" -> SecondPass(q, room)
-----------------------------------------------------------------------------
(* The steps of the main buffer controller, as functions of its state.      *)
AfterSimple(m, group) ==
  LET all == group >= M
  IN [m EXCEPT !.buffer_full = ~all, !.rowgroup_ctr = IF all THEN 0 ELSE group]

AfterPostponed(m, group) ==
  [m EXCEPT !.rowgroup_ctr = group,
            !.context_state = IF group < m.rowgroups_avail THEN @ ELSE "PREPARE"]

AtBottom(m) == m.iMCU_row_ctr = total_iMCU_rows

Prepare(m) ==
  [m EXCEPT !.rowgroup_ctr = 0, !.context_state = "PROCESS",
            !.rowgroups_avail = IF AtBottom(m) THEN BottomGroups ELSE M - 1,
            !.xbuffer = IF ~AtBottom(m) THEN @
                        ELSE [c \in Comps |-> [m.xbuffer[c] EXCEPT ![m.whichptr] = Bottom(@, c)]]]

(* Mutant of NextBuffer: the top wraparound pointers are kept.              *)
NextBufferTop(m) ==
  [m EXCEPT !.whichptr = 3 - @, !.buffer_full = FALSE, !.context_state = "POSTPONED",
            !.rowgroup_ctr = M + 1, !.rowgroups_avail = M + 2]

NextBuffer(m) ==
  [m EXCEPT !.xbuffer = IF m.iMCU_row_ctr # 1 THEN @
                        ELSE [c \in Comps |-> [w \in 1 .. 2 |->
                                                  Wraparound(m.xbuffer[c][w], rgroup(c))]],
            !.whichptr = 3 - @, !.buffer_full = FALSE, !.context_state = "POSTPONED",
            !.rowgroup_ctr = M + 1, !.rowgroups_avail = M + 2]

AfterProcess(m, group) ==
  IF group < m.rowgroups_avail THEN [m EXCEPT !.rowgroup_ctr = group] ELSE NextBuffer(m)
-----------------------------------------------------------------------------
(* The input side.                                                          *)
Scan == cfg.scans[input.scan]
Interleaved == Len(Scan.comps) > 1
InScan == {Scan.comps[k] : k \in DOMAIN Scan.comps}

(* start_iMCU_row, per_scan_setup                                           *)
MCU_rows_per_iMCU_row ==
  IF Interleaved THEN 1
  ELSE IF input.row < total_iMCU_rows - 1 THEN v(Scan.comps[1])
  ELSE last_block_rows(Scan.comps[1])

MCUs_per_row == IF Interleaved THEN Ceil(cfg.width, MaxH * DCTSIZE)
                ELSE width_in_blocks(Scan.comps[1])

(* The blocks of component c in the MCU that is next, dummy ones included.  *)
BlocksOf(c) ==
  IF c \notin InScan THEN {}
  ELSE IF ~Interleaved THEN {<<input.row * v(c) + input.vert, input.mcu>>}
  ELSE (input.row * v(c) .. input.row * v(c) + v(c) - 1) \X
       (input.mcu * h(c) .. input.mcu * h(c) + h(c) - 1)

RowEnds == /\ input.mcu + 1 = MCUs_per_row
           /\ input.vert + 1 = MCU_rows_per_iMCU_row

(* The counters after this MCU; finish_input_pass at the end of the scan.   *)
AfterMCU ==
  IF RowEnds
  THEN [input EXCEPT !.mcu = 0, !.vert = 0, !.row = @ + 1,
                     !.data = input.row + 1 < total_iMCU_rows]
  ELSE IF input.mcu + 1 = MCUs_per_row THEN [input EXCEPT !.mcu = 0, !.vert = @ + 1]
  ELSE [input EXCEPT !.mcu = @ + 1]

(* start_input_pass: a progressive scan says how accurate its coefficients  *)
(* will be.                                                                 *)
BitsAfter(scan) ==
  [c \in Comps |->
     IF ~cfg.progressive \/ \A k \in DOMAIN scan.comps : scan.comps[k] # c THEN coef_bits[c]
     ELSE IF scan.Ss = 0 THEN [coef_bits[c] EXCEPT !.dc = scan.Al]
     ELSE [coef_bits[c] EXCEPT !.ac = scan.Al]]
-----------------------------------------------------------------------------
(* The coefficient controller: does decompress_data need more input first?  *)
(* Mutant of SmoothWaits: the row below is not waited for.                  *)
SmoothWaitsLess ==
  /\ input.scan <= output.scan /\ ~input.eoi
  /\ ~(input.scan = output.scan /\ input.row > output.row)

(* decompress_smooth_data: a DC scan has to be one row ahead.               *)
SmoothWaits ==
  /\ input.scan <= output.scan /\ ~input.eoi
  /\ ~(/\ input.scan = output.scan
       /\ input.row > output.row + (IF Scan.Ss = 0 THEN 1 ELSE 0))

(* decompress_data                                                          *)
DataWaits == \/ input.scan < output.scan
             \/ input.scan = output.scan /\ input.row <= output.row

CoefWaits == IF ~use_c_buffer THEN TRUE ELSE IF output.smooth THEN SmoothWaits ELSE DataWaits

(* The last scan up to number n that component c is in, and the last one    *)
(* with its DC coefficients.                                                *)
InScans(c, n) == {k \in 1 .. Least(n, Len(cfg.scans)) :
                    \E i \in DOMAIN cfg.scans[k].comps : cfg.scans[k].comps[i] = c}
Wanted(c, n) == Max({0} \cup InScans(c, n))
WantedDC(c, n) == Max({0} \cup {k \in InScans(c, n) : cfg.scans[k].Ss = 0})

Columns(c) == 0 .. width_in_blocks(c) - 1

(* The columns of block row b that hold what the pass is to show; smoothing *)
(* also takes the DC values of the rows above and below.                    *)
Good(c, b) ==
  LET up1 == IF b = 0 THEN b ELSE b - 1
      down1 == IF b = height_in_blocks(c) - 1 THEN b ELSE b + 1
  IN {x \in Columns(c) :
        /\ coefs[c][<<b, x>>] >= Wanted(c, output.scan)
        /\ output.smooth => \A n \in {up1, down1} :
                              coefs[c][<<n, x>>] >= WantedDC(c, output.scan)}

BlockRows(c) == IF output.row < total_iMCU_rows - 1 THEN v(c) ELSE last_block_rows(c)

(* decompress_data, decompress_smooth_data: an iMCU row from the arrays.    *)
Decompressed ==
  [c \in Comps |->
     LET s == DCT_scaled_size(c)
         at == {i \in 0 .. BlockRows(c) * s - 1 : c \in Needed}
         where == {Physical(c, i) : i \in at}
         row(p) == CHOOSE i \in at : Physical(c, i) = p
     IN [p \in DOMAIN main.buf[c] |->
           IF p \notin where THEN main.buf[c][p]
           ELSE LET r == output.row * iMCUheight(c) + row(p)
                IN [r |-> r, cols |-> Good(c, r \div s)]]]

(* decompress_onepass: the blocks of one MCU go to the buffer at once.      *)
OnePassMCU ==
  [c \in Comps |->
     LET s == DCT_scaled_size(c)
         real == {b \in BlocksOf(c) : b[1] < height_in_blocks(c) /\ b[2] \in Columns(c)}
         first == input.row * v(c)
         at == {i \in 0 .. iMCUheight(c) - 1 :
                  c \in Needed /\ \E b \in real : i \div s = b[1] - first}
         where == {Physical(c, i) : i \in at}
         row(p) == CHOOSE i \in at : Physical(c, i) = p
     IN [p \in DOMAIN main.buf[c] |->
           IF p \notin where THEN main.buf[c][p]
           ELSE LET old == main.buf[c][p]
                    r == first * s + row(p)
                    new == {b[2] : b \in {d \in real : d[1] = r \div s}}
                IN [r |-> r, cols |-> IF old.r = r THEN old.cols \cup new ELSE new]]]

(* smoothing_ok                                                             *)
smoothing_ok ==
  /\ cfg.progressive
  /\ \A c \in Comps : coef_bits[c].dc >= 0
  /\ \E c \in Comps : coef_bits[c].ac # 0

Filled(m) == [m EXCEPT !.buffer_full = TRUE,
                       !.iMCU_row_ctr = IF need_context_rows THEN @ + 1 ELSE @]
-----------------------------------------------------------------------------
(* The loops of the library that consume input.                             *)
Filling == call.op \in {"setup", "read"} /\ ~main.buffer_full /\ ~main.crank
           /\ (call.op = "setup" => quant.dummy /\ output.scanline < OutputHeight)

Waiting ==
  \/ call.op \in {"consume"}
  \/ call.op = "preload" /\ has_multiple_scans /\ ~input.eoi
  \/ Filling /\ CoefWaits
  \/ call.op = "finish_output" /\ input.scan <= output.scan /\ ~input.eoi
  \/ call.op = "finish" /\ ~input.eoi

Return(op) == [call EXCEPT !.op = op]

(* consume_data, decompress_onepass: one MCU.                               *)
DecodeMCU ==
  /\ Waiting /\ input.data
  /\ input' = AfterMCU
  /\ IF use_c_buffer
     THEN /\ coefs' = [c \in Comps |-> [b \in DOMAIN coefs[c] |->
                         IF b \in BlocksOf(c) THEN input.scan ELSE coefs[c][b]]]
          /\ UNCHANGED <<main, output>>
     ELSE /\ Filling
          /\ main' = LET m == [main EXCEPT !.buf = OnePassMCU]
                     IN IF RowEnds THEN Filled(m) ELSE m
          /\ output' = [output EXCEPT !.row = IF RowEnds THEN @ + 1 ELSE @]
          /\ UNCHANGED coefs
  /\ call' = IF call.op = "consume" /\ RowEnds THEN Return("none") ELSE call
  /\ UNCHANGED <<cfg, global_state, coef_bits, up, post, quant, shown, passes>>

(* Mutant of ClampedScan: the number of the scan to show is not limited.    *)
NotClamped(n) == n

(* A scan past the last one is the last one.                                *)
ClampedScan(n) == Least(n, input.scan)

(* consume_markers                                                          *)
ConsumeMarkers ==
  /\ Waiting /\ ~input.data
  /\ IF input.eoi THEN UNCHANGED <<input, coef_bits, output>>
     ELSE IF input.scan < Len(cfg.scans)
     THEN /\ input' = [input EXCEPT !.scan = @ + 1, !.row = 0, !.vert = 0, !.mcu = 0,
                                    !.data = TRUE]
          /\ coef_bits' = BitsAfter(cfg.scans[input.scan + 1])
          /\ UNCHANGED output
     ELSE /\ input' = [input EXCEPT !.eoi = TRUE]
          /\ output' = [output EXCEPT !.scan = ClampedScan(@)]
          /\ UNCHANGED coef_bits
  /\ call' = IF call.op = "consume" THEN Return("none") ELSE call
  /\ UNCHANGED <<cfg, global_state, coefs, pipe, quant, shown, passes>>

(* The source has no more data for now: the call returns.                   *)
Suspend ==
  /\ Waiting /\ ~input.eoi
  /\ call' = Return("none")
  /\ UNCHANGED <<cfg, global_state, input, coefs, coef_bits, output, pipe, quant, shown,
                 passes>>

(* decompress_data with all its input there.                                *)
FillBuffer ==
  /\ Filling /\ ~CoefWaits
  /\ main' = Filled([main EXCEPT !.buf = Decompressed])
  /\ output' = [output EXCEPT !.row = @ + 1]
  /\ UNCHANGED <<cfg, global_state, call, input, coefs, coef_bits, up, post, quant, shown,
                 passes>>
-----------------------------------------------------------------------------
(* prepare_for_output_pass, with the start_pass of every module. The 2-pass *)
(* quantizer keeps its map of the last dummy pass in colormap.              *)
Active == IF quant.two_pass /\ enable_2pass THEN "2pass" ELSE "1pass"
Chooses == cfg.quantize /\ quant.colormap = "none"

(* Mutant of NewActive: the quantizer in use is not changed.                *)
NewActiveKept == quant.active

NewActive == IF Chooses THEN Active ELSE quant.active

PreparePass(scan) ==
  LET dummy == Chooses /\ Active = "2pass"
  IN IF Chooses /\ Active = "1pass" /\ ~enable_1pass
     THEN /\ global_state' = "ERROR"
          /\ UNCHANGED <<quant, post, main, output, up, passes>>
     ELSE /\ quant' = [quant EXCEPT !.dummy = dummy, !.active = NewActive, !.changed = FALSE,
                                    !.colormap = IF Chooses /\ ~dummy THEN "uniform" ELSE @]
          /\ post' = [post EXCEPT !.mode = IF dummy THEN "SAVE_AND_PASS" ELSE "PASS_THRU",
                                  !.starting_row = 0, !.next_row = 0]
          /\ main' = StartMain(main) /\ up' = NewUp
          /\ output' = [scan |-> scan, row |-> 0, scanline |-> 0,
                        smooth |-> use_c_buffer /\ cfg.smoothing /\ smoothing_ok]
          /\ global_state' = "PRESCAN" /\ passes' = passes + 1

(* jpeg_start_decompress                                                    *)
StartDecompress ==
  /\ call.op = "none" /\ global_state = "READY"
  /\ IF ~Supported THEN global_state' = "ERROR" /\ UNCHANGED <<call, coef_bits, quant>>
     ELSE /\ global_state' = IF cfg.buffered THEN "BUFIMAGE" ELSE "PRELOAD"
          /\ call' = Return(IF cfg.buffered THEN "none" ELSE "preload")
          /\ coef_bits' = BitsAfter(cfg.scans[1])
          /\ quant' = [quant EXCEPT !.active = IF ~cfg.quantize THEN "none"
                                               ELSE IF enable_2pass \/ enable_external
                                               THEN "2pass" ELSE "1pass",
                                    !.colormap = IF ThreeComps THEN @ ELSE "none"]
  /\ UNCHANGED <<cfg, input, coefs, output, pipe, shown, passes>>

Preloaded ==
  /\ call.op = "preload" /\ ~Waiting
  /\ PreparePass(input.scan)
  /\ call' = Return("setup")
  /\ UNCHANGED <<cfg, input, coefs, coef_bits, shown>>

(* The application calls again what was suspended.                          *)
CallAgain ==
  /\ call.op = "none"
  /\ \/ global_state = "PRELOAD" /\ call' = Return("preload")
     \/ global_state = "PRESCAN" /\ call' = Return("setup")
     \/ global_state = "BUFPOST" /\ call' = Return("finish_output")
     \/ global_state = "STOPPING" /\ call' = Return("finish")
  /\ UNCHANGED <<cfg, global_state, input, coefs, coef_bits, output, pipe, quant, shown,
                 passes>>

(* output_pass_setup: after the dummy pass, or without one.                 *)
EndDummyPass ==
  /\ call.op = "setup" /\ global_state = "PRESCAN"
  /\ quant.dummy /\ output.scanline >= OutputHeight
  /\ quant' = [quant EXCEPT !.dummy = FALSE, !.colormap = "chosen"]
  /\ post' = [post EXCEPT !.mode = "CRANK_DEST", !.starting_row = 0, !.next_row = 0]
  /\ main' = [main EXCEPT !.crank = TRUE]
  /\ output' = [output EXCEPT !.scanline = 0]
  /\ UNCHANGED <<cfg, global_state, call, input, coefs, coef_bits, up, shown, passes>>

SetupDone ==
  /\ call.op = "setup" /\ ~quant.dummy /\ global_state = "PRESCAN"
  /\ global_state' = "SCANNING" /\ call' = Return("none")
  /\ UNCHANGED <<cfg, input, coefs, coef_bits, output, pipe, quant, shown, passes>>

(* jpeg_read_scanlines, jpeg_read_raw_data; reads past the end give nothing.*)
ReadScanlines(n) ==
  /\ call.op = "none" /\ global_state = "SCANNING"
  /\ output.scanline < OutputHeight
  /\ call' = [op |-> "read", max |-> n]
  /\ shown' = [from |-> output.scanline, rows |-> <<>>]
  /\ UNCHANGED <<cfg, global_state, input, coefs, coef_bits, output, pipe, quant, passes>>

(* process_data: called by the application, or by output_pass_setup until   *)
(* the dummy pass is over.                                                  *)
Processing ==
  /\ call.op = "read" \/ (call.op = "setup" /\ quant.dummy /\ output.scanline < OutputHeight)
  /\ ~cfg.raw

Room == call.max - Len(shown.rows)

(* What the postprocessor did, and whether process_data returns.            *)
Posted(q, returns) ==
  /\ up' = q.up /\ post' = q.post
  /\ output' = [output EXCEPT !.scanline = @ + q.count]
  /\ shown' = [shown EXCEPT !.rows = @ \o q.rows]
  /\ call' = IF (call.op = "read" /\ returns) \/ q.count = 0 THEN Return("none") ELSE call
  /\ UNCHANGED <<cfg, global_state, input, coefs, coef_bits, quant, passes>>

SimpleMain ==
  /\ Processing /\ ~main.crank /\ ~need_context_rows /\ main.buffer_full
  /\ \E q \in {post_process_data(InputRows(main), main.rowgroup_ctr, Room)} :
       main' = AfterSimple(main, q.group) /\ Posted(q, TRUE)

(* process_data_context_main: the row group that waited for its context     *)
PostponedRow ==
  /\ Processing /\ ~main.crank /\ need_context_rows /\ main.buffer_full
  /\ main.context_state = "POSTPONED"
  /\ \E q \in {post_process_data(InputRows(main), main.rowgroup_ctr, Room)} :
       /\ main' = AfterPostponed(main, q.group)
       /\ Posted(q, q.group < main.rowgroups_avail \/ q.count >= Room)

(* then the first M - 1 row groups of the iMCU row that was read.           *)
ProcessRows ==
  /\ Processing /\ ~main.crank /\ need_context_rows /\ main.buffer_full
  /\ main.context_state # "POSTPONED"
  /\ \E m \in {IF main.context_state = "PREPARE" THEN Prepare(main) ELSE main} :
       \E q \in {post_process_data(InputRows(m), m.rowgroup_ctr, Room)} :
         main' = AfterProcess(m, q.group) /\ Posted(q, TRUE)

(* process_data_crank_post                                                  *)
CrankPost ==
  /\ Processing /\ main.crank
  /\ \E q \in {post_process_data(<<>>, 0, Room)} : Posted(q, TRUE)
  /\ UNCHANGED main

RawData ==
  /\ call.op = "read" /\ cfg.raw /\ main.buffer_full
  /\ main' = [main EXCEPT !.buffer_full = FALSE]
  /\ output' = [output EXCEPT !.scanline = @ + MaxV * M]
  /\ shown' = [shown EXCEPT !.rows = <<main.buf>>]
  /\ call' = Return("none")
  /\ UNCHANGED <<cfg, global_state, input, coefs, coef_bits, up, post, quant, passes>>

(* jpeg_start_output                                                        *)
StartOutput(n) ==
  /\ call.op = "none" /\ global_state = "BUFIMAGE" /\ passes < MaxPasses
  /\ PreparePass(IF input.eoi THEN ClampedScan(Max({1, n})) ELSE Max({1, n}))
  /\ call' = Return(IF global_state' = "ERROR" THEN "none" ELSE "setup")
  /\ UNCHANGED <<cfg, input, coefs, coef_bits, shown>>

(* The application changes its mind on colours, once a pass: requantize, or *)
(* set a map (jpeg_new_colormap).                                           *)
Requantize(two) ==
  /\ call.op = "none" /\ global_state = "BUFIMAGE" /\ cfg.quantize
  /\ passes \in 1 .. MaxPasses - 1
  /\ ~quant.changed
  /\ quant' = [quant EXCEPT !.colormap = "none", !.two_pass = two, !.changed = TRUE]
  /\ UNCHANGED <<cfg, global_state, call, input, coefs, coef_bits, output, pipe, shown,
                 passes>>

jpeg_new_colormap ==
  /\ call.op = "none" /\ global_state = "BUFIMAGE"
  /\ passes \in 1 .. MaxPasses - 1
  /\ cfg.quantize /\ enable_external /\ ~quant.changed
  /\ quant' = [quant EXCEPT !.colormap = "external", !.active = "2pass", !.dummy = FALSE,
                            !.changed = TRUE]
  /\ UNCHANGED <<cfg, global_state, call, input, coefs, coef_bits, output, pipe, shown,
                 passes>>

(* jpeg_finish_output, at any point of the pass                             *)
FinishOutput ==
  /\ call.op = "none" /\ global_state = "SCANNING" /\ cfg.buffered
  /\ global_state' = "BUFPOST" /\ call' = Return("finish_output")
  /\ UNCHANGED <<cfg, input, coefs, coef_bits, output, pipe, quant, shown, passes>>

OutputFinished ==
  /\ call.op = "finish_output" /\ ~Waiting
  /\ global_state' = "BUFIMAGE" /\ call' = Return("none")
  /\ UNCHANGED <<cfg, input, coefs, coef_bits, output, pipe, quant, shown, passes>>

(* jpeg_finish_decompress                                                   *)
FinishDecompress ==
  /\ call.op = "none"
  /\ \/ global_state = "SCANNING" /\ ~cfg.buffered /\ output.scanline >= OutputHeight
     \/ global_state = "BUFIMAGE"
  /\ global_state' = "STOPPING" /\ call' = Return("finish")
  /\ UNCHANGED <<cfg, input, coefs, coef_bits, output, pipe, quant, shown, passes>>

Finished ==
  /\ call.op = "finish" /\ ~Waiting
  /\ global_state' = "DONE" /\ call' = Return("none")
  /\ UNCHANGED <<cfg, input, coefs, coef_bits, output, pipe, quant, shown, passes>>

(* jpeg_consume_input, between other calls                                  *)
ConsumeInput ==
  /\ call.op = "none" /\ cfg.buffered /\ ~input.eoi
  /\ global_state \in {"BUFIMAGE", "SCANNING"}
  /\ call' = Return("consume")
  /\ UNCHANGED <<cfg, global_state, input, coefs, coef_bits, output, pipe, quant, shown,
                 passes>>

Library == FillBuffer \/ Preloaded \/ EndDummyPass \/ SetupDone \/ SimpleMain
           \/ PostponedRow \/ ProcessRows \/ CrankPost \/ RawData
           \/ OutputFinished \/ Finished
Application == StartDecompress \/ CallAgain \/ (\E n \in LinesAsked : ReadScanlines(n))
               \/ (\E n \in 0 .. Len(cfg.scans) + 1 : StartOutput(n))
               \/ (\E two \in BOOLEAN : Requantize(two)) \/ jpeg_new_colormap
               \/ FinishOutput \/ FinishDecompress
Source == DecodeMCU \/ ConsumeMarkers

Next == Library \/ Application \/ Source \/ Suspend \/ ConsumeInput

(* The application goes on with what it began, and the source gets its data *)
(* in the end.                                                              *)
Spec == /\ Init /\ [][Next]_vars
        /\ WF_vars(Library) /\ WF_vars(Application) /\ SF_vars(Source)
-----------------------------------------------------------------------------
States == {"READY", "PRELOAD", "BUFIMAGE", "PRESCAN", "SCANNING", "BUFPOST", "STOPPING",
           "DONE", "ERROR"}
Ops == {"none", "preload", "setup", "read", "finish_output", "finish", "consume"}

(* Whatever the application changed between passes, pixels are mapped by the*)
(* quantizer the color map was made for, and never without one, nor while   *)
(* the histogram is still gathered (jdmaster.c:453, jdmaster.c:515).        *)
MapMatches ==
  global_state = "SCANNING" /\ cfg.quantize =>
    /\ ~quant.dummy
    /\ quant.colormap \in (IF quant.active = "2pass" THEN {"chosen", "external"}
                           ELSE {"uniform"})

(* Types, and a color map that is the one the active quantizer needs.       *)
TypeOK ==
  /\ MapMatches
  /\ global_state \in States /\ call.op \in Ops
  /\ input.scan \in 1 .. Len(cfg.scans) /\ input.row \in 0 .. total_iMCU_rows
  /\ input.vert \in 0 .. MCU_rows_per_iMCU_row - 1 /\ input.mcu \in 0 .. MCUs_per_row - 1
  /\ input.data \in BOOLEAN /\ input.eoi \in BOOLEAN /\ output.smooth \in BOOLEAN
  /\ \A c \in Comps : \A b \in DOMAIN coefs[c] : coefs[c][b] \in 0 .. input.scan
  /\ output.scan \in 0 .. Len(cfg.scans) + 1 /\ output.row \in 0 .. total_iMCU_rows
  /\ output.scanline \in 0 .. total_iMCU_rows * MaxV * M
  /\ main.whichptr \in 1 .. 2 /\ main.context_state \in {"PREPARE", "PROCESS", "POSTPONED"}
  /\ main.rowgroup_ctr \in 0 .. M + 2 /\ up.next_row_out \in 0 .. MaxV
  /\ up.rows_to_go \in 0 .. OutputHeight
  /\ post.starting_row \in 0 .. OutputHeight + strip_height
  /\ quant.colormap \in {"none", "uniform", "chosen", "external"}
  /\ passes \in 0 .. MaxPasses

(* Scanline number k given to the application, and the rows it is made of.  *)
Line(i) == shown.from + i - 1
Other(c, near, k) ==
  IF ~h2v2_fancy(c) THEN near
  ELSE IF k % 2 = 0 THEN Max({near - 1, 0}) ELSE Least(near + 1, downsampled_height(c) - 1)
RawRow(c, k) == (shown.from \div (MaxV * M)) * iMCUheight(c) + k
Lines == IF cfg.raw THEN {} ELSE DOMAIN shown.rows

(* The row that triangle filtering mixes in is the true neighbour, across   *)
(* the boundaries of iMCU rows, and at the top and the bottom of the image  *)
(* the edge row itself: the funny pointers of jdmainct.c:21-109.            *)
ContextIsTrue(i, c) == shown.rows[i][c][2].r = Other(c, Line(i) \div VRatio(c), Line(i))

(* Every scanline of the image is given once, in order, and is made of the  *)
(* rows of its own place in every component, whatever was suspended, however*)
(* the lines were asked for, with a spare row, through the strips of the    *)
(* postprocessor or replayed from them, and so are their context rows       *)
(* (jdsample.c:80, jdmerge.c:143, jdpostct.c:202, jdcoefct.c:149).          *)
RowsInOrder ==
  /\ \A i \in Lines : /\ Line(i) < OutputHeight
                      /\ \A c \in Needed : /\ shown.rows[i][c][1].r = Line(i) \div VRatio(c)
                                           /\ ContextIsTrue(i, c)
  /\ cfg.raw =>
       \A i \in DOMAIN shown.rows : \A c \in Needed : \A k \in DOMAIN shown.rows[i][c] :
         RawRow(c, k) < downsampled_height(c) => shown.rows[i][c][k].r = RawRow(c, k)

(* What jdpostct.c:223 says the second pass of the 2-pass quantizer does: it*)
(* checks for the bottom of the image, so no line below it is given and     *)
(* output_scanline stops at output_height.                                  *)
StopsAtBottom == ~cfg.raw => output.scanline <= OutputHeight

(* What is given to the application has all the data of the scan that the   *)
(* pass is to show (all scans, outside buffered-image mode), in every       *)
(* column, the DC values above and below it that smoothing uses included    *)
(* (jdcoefct.c:315, jdcoefct.c:461).                                        *)
RowsCurrent ==
  /\ \A i \in Lines : \A c \in Needed : \A n \in 1 .. 2 :
       shown.rows[i][c][n].cols = Columns(c)
  /\ cfg.raw =>
       \A i \in DOMAIN shown.rows : \A c \in Needed : \A k \in DOMAIN shown.rows[i][c] :
         RawRow(c, k) < downsampled_height(c) => shown.rows[i][c][k].cols = Columns(c)

(* The decompression ends if the application goes on and the data come: no  *)
(* loop that reads ahead waits for a scan the file does not have            *)
(* (jdinput.c:319).                                                         *)
DecompressionEnds == <>(global_state \in {"DONE", "ERROR"})
=============================================================================
