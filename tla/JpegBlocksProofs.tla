-------------------------- MODULE JpegBlocksProofs --------------------------
(* Proofs about JpegEncode: the data. From the lines through the ring of the*)
(* preprocessor, the main buffer and the arrays of coefficients to the      *)
(* blocks of the MCUs, each in its place in the scan; and with what         *)
(* JpegEncodeProofs has shown, that the scans are coded in order.           *)
EXTENDS JpegEncodeProofs, WellFoundedInduction

(* Where the lines, raw rows or coefficients come from, and what the        *)
(* coefficient controller does in which pass.                               *)
InputInv ==
  /\ global_state = "SCANNING" => J.input = "lines"
  /\ global_state = "RAW_OK" => J.input = "raw"
  /\ global_state = "WRCOEFS" => J.input = "coefs"
  /\ global_state = "WRCOEFS" \/ source.state \in {"STOPPING", "COPIED"} => source.read = J.units

ModeInv ==
  Writing =>
    /\ global_state = "WRCOEFS" <=> coef.mode = "TRANSCODE"
    /\ ~Between /\ global_state # "WRCOEFS" =>
         coef.mode = IF master.pass_type # "main" THEN "CRANK_DEST"
                     ELSE IF total_passes > 1 THEN "SAVE_AND_PASS" ELSE "PASS_THRU"
    /\ Between /\ global_state # "WRCOEFS" /\ total_passes > 1 =>
         coef.mode \in {"CRANK_DEST", "SAVE_AND_PASS"}
    /\ ~Between /\ call.op = "finish" /\ call.at # "finish_pass" => master.pass_type # "main"

(* color_buf: lines as they come, from number first on; a row group with    *)
(* the last line of the image repeated; the ring, where the lines around a  *)
(* row group are the ones around it in the image, those at its edges        *)
(* repeated.                                                                *)
HasRows(buf) == DOMAIN buf = 0 .. 3 * MaxV - 1
Holds(buf, first, n) == \A i \in 0 .. n - 1 : buf[i] = first + i
HoldsGroup(buf, first) == \A i \in 0 .. MaxV - 1 : buf[i] = Clip(first + i)
HoldsAround(buf, this, first, n) ==
  \A d \in -MaxV .. n - 1 : buf[RowPointer(this + d)] = Clip(first + d)

(* What the downsamplers make of row group number G, and the first n row    *)
(* groups of iMCU row number row in the main buffer.                        *)
Downsampled(buf, from, G) ==
  \A c \in Comps : \A j \in 0 .. v(c) - 1 : DownRow(buf, c, from, j) = Line(c, G * v(c) + j)
HasLines(out, row, n) ==
  /\ DOMAIN out = Comps
  /\ \A c \in Comps : DOMAIN out[c] = 0 .. v(c) * DCTSIZE - 1
  /\ \A c \in Comps : \A i \in 0 .. n * v(c) - 1 :
       out[c][i] = Line(c, row * (v(c) * DCTSIZE) + i)

(* Where the ring is: the row group to be downsampled next, the places that *)
(* are filled before that. No row has come, or those ahead are there.       *)
RingAt(this, stop, next) ==
  /\ this \in {0, MaxV, 2 * MaxV}
  /\ stop = IF this = 2 * MaxV THEN MaxV ELSE this + 2 * MaxV
  /\ next \in Nat /\ next < stop /\ next + 2 * MaxV >= stop
RingHolds(p, first, n) ==
  IF p.rows_to_go = J.height THEN p.next_buf_row = 0 /\ p.this_row_group = 0 /\ first = 0
  ELSE HoldsAround(p.buf, p.this_row_group, first, n)

Ahead == 2 * MaxV + prep.next_buf_row - prep.next_buf_stop
RingOK ==
  /\ RingAt(prep.this_row_group, prep.next_buf_stop, prep.next_buf_row)
  /\ RingHolds(prep, Groups * MaxV, Ahead)
  /\ prep.rows_to_go = 0 => Groups * MaxV + Ahead >= J.height
RingInv ==
  global_state = "SCANNING" /\ MainPass =>
    /\ HasRows(prep.buf)
    /\ context_rows => RingOK
    /\ ~context_rows /\ prep.rows_to_go > 0 => Holds(prep.buf, Groups * MaxV, prep.next_buf_row)

(* The main buffer: the row groups of the iMCU row that are there.          *)
Ready == IF global_state = "SCANNING" THEN main.rowgroup_ctr
         ELSE IF call.op = "raw" THEN DCTSIZE ELSE 0
BufferInv == Writing /\ MainPass => HasLines(main.buffer, coef.iMCU_row_num, Ready)

(* The block in row row and column col of component c; what is beyond the   *)
(* image has the DC of a block at its edge.                                 *)
Block(c, row, col) ==
  LET rows == height_in_blocks(c)
      cols == width_in_blocks(c)
      d == IF row < rows THEN Data(c, row, Least(col, cols - 1))
           ELSE Data(c, rows - 1, Least((col \div h(c)) * h(c) + h(c) - 1, cols - 1))
  IN [dc |-> d, ac |-> IF row < rows /\ col < cols THEN d ELSE <<>>]

(* The arrays of an image that takes more than one pass.                    *)
WholeBlocks(c) == (0 .. Ceil(height_in_blocks(c), v(c)) * v(c) - 1)
                    \X (0 .. Ceil(width_in_blocks(c), h(c)) * h(c) - 1)
Kept == IF coef.mode = "CRANK_DEST" \/ call.at = "passes" THEN total_iMCU_rows
        ELSE IF call.at = "mcu" THEN coef.iMCU_row_num + 1 ELSE coef.iMCU_row_num
WholeInv ==
  Writing /\ coef.mode \in {"SAVE_AND_PASS", "CRANK_DEST"} =>
    /\ DOMAIN coef.whole = Comps
    /\ \A c \in Comps : DOMAIN coef.whole[c] = WholeBlocks(c)
    /\ \A c \in Comps : \A b \in WholeBlocks(c) :
         b[1] < Kept * v(c) => coef.whole[c][b] = Block(c, b[1], b[2])

DataInv == InputInv /\ ModeInv /\ RingInv /\ BufferInv /\ WholeInv
-----------------------------------------------------------------------------
LEMMA InputStep == ASSUME IInv, InputInv, [Next]_vars PROVE InputInv'
  <1>1. CASE /\ jobs' = jobs /\ job' = job /\ source' = source
             /\ global_state' \in {global_state, "ERROR", "DONE"}
    <2>1. J' = J
      BY <1>1, ImageKept, Zenon
    <2>2. QED
      BY <1>1, <2>1 DEF InputInv
  <1>2. CASE StartCompress
    <2>1. jobs' = jobs /\ job' = job /\ source' = source /\ J.input \in {"lines", "raw"}
          /\ global_state = "START"
      BY <1>2 DEF StartCompress, Idle
    <2>2. global_state' = "ERROR"
          \/ global_state' = (IF J.input = "raw" THEN "RAW_OK" ELSE "SCANNING")
      BY <1>2, Zenon DEF StartCompress, Start
    <2>3. J' = J
      BY <2>1, ImageKept, Zenon
    <2>4. QED
      BY <2>1, <2>2, <2>3 DEF InputInv
  <1>3. CASE WriteCoefficients
    <2>1. jobs' = jobs /\ job' = job /\ source' = [source EXCEPT !.state = "WRITTEN"]
          /\ source.state = "COPIED"
      BY <1>3 DEF WriteCoefficients
    <2>2. global_state' = "ERROR" \/ global_state' = "WRCOEFS"
      BY <1>3, Zenon DEF WriteCoefficients, Start
    <2>3. J' = J
      BY <2>1, ImageKept, Zenon
    <2>4. J.input = "coefs" /\ source.read = J.units /\ source'.read = source.read
      BY <2>1 DEF InputInv, IInv, PassTypes
    <2>5. source'.state \notin {"STOPPING", "COPIED"} \/ source'.read = J'.units
      BY <2>3, <2>4
    <2>6. QED
      BY <2>2, <2>3, <2>4 DEF InputInv
  <1>4. CASE ReadCoefficients
    <2>1. jobs' = jobs /\ job' = job /\ global_state' = "START"
      BY <1>4 DEF ReadCoefficients, Idle
    <2>2. PICK k : source' = [state |-> IF source.read + k = J.units THEN "STOPPING" ELSE "RDCOEFS",
                              read |-> source.read + k]
      BY <1>4, Zenon DEF ReadCoefficients
    <2>3. J' = J
      BY <2>1, ImageKept, Zenon
    <2>4. source'.state \in {"STOPPING", "COPIED"} => source'.read = J.units
      BY <2>2
    <2>5. QED
      BY <2>1, <2>3, <2>4 DEF InputInv
  <1>5. CASE CopyCriticalParameters
    <2>1. jobs' = jobs /\ job' = job /\ source' = [source EXCEPT !.state = "COPIED"]
          /\ source.state = "STOPPING" /\ global_state = "START" /\ global_state' \in {"START", "ERROR"}
      BY <1>5 DEF CopyCriticalParameters, Idle
    <2>2. J' = J
      BY <2>1, ImageKept, Zenon
    <2>3. QED
      BY <2>1, <2>2 DEF InputInv
  <1>6. CASE NextJob
    BY <1>6 DEF NextJob, InputInv
  <1>7. CASE WriteTables \/ Trailer
    BY <1>1, <1>7, Zenon DEF WriteTables, Trailer, others
  <1>8. CASE \/ Preprocess \/ LinesDone \/ CompressData \/ EncodeMCU \/ SuspendMCU \/ RowCompressed
             \/ FinishPass \/ NextPass \/ WriteMarker \/ WriteScanlines \/ WriteRawData
             \/ FinishCompress \/ UNCHANGED vars
    <2>1. jobs' = jobs /\ job' = job /\ source' = source
      BY <1>8, Zenon DEF Preprocess, LinesDone, CompressData, EncodeMCU, SuspendMCU, RowCompressed,
         FinishPass, NextPass, WriteMarker, WriteScanlines, WriteRawData, FinishCompress, vars, others
    <2>2. global_state' \in {global_state, "ERROR", "DONE"}
      BY <1>8 DEF Preprocess, LinesDone, CompressData, EncodeMCU, SuspendMCU, RowCompressed,
         FinishPass, NextPass, WriteMarker, WriteScanlines, WriteRawData, FinishCompress, vars
    <2>3. QED
      BY <1>1, <2>1, <2>2
  <1>9. QED
    BY <1>2, <1>3, <1>4, <1>5, <1>6, <1>7, <1>8, Zenon DEF Next, Library, Application

(* The steps inside a call leave the mode of the coefficient controller.    *)
LEMMA ModeStays ==
  ASSUME IInv, Course,
         Preprocess \/ LinesDone \/ CompressData \/ EncodeMCU \/ SuspendMCU \/ RowCompressed
  PROVE  /\ coef'.mode = coef.mode /\ CoefTyped(coef) /\ Writing
         /\ call'.op = "finish" => call.op = "finish"
         /\ call.at \in {"prep", "compress", "mcu"}
  <1>1. Writing /\ ~Between /\ CoefTyped(coef) /\ CallTyped(call)
        /\ call.at \in {"prep", "compress", "mcu"}
    <2>1. call.at \in {"prep", "compress", "mcu"}
      BY DEF Preprocess, LinesDone, CompressData, EncodeMCU, SuspendMCU, RowCompressed, MCUStep
    <2>2. Writing /\ ~Between
      BY <2>1, Running DEF Course
    <2>3. QED
      BY <2>1, <2>2, Zenon DEF Course, CountInv, CallInv
  <1>2. coef'.mode = coef.mode
    <2>1. \/ coef' = coef
          \/ coef' = [coef EXCEPT !.whole = Stored]
          \/ coef' = [coef EXCEPT !.mcu_ctr = 0]
          \/ coef' = [coef EXCEPT !.MCU_vert_offset = call.y, !.mcu_ctr = call.x]
          \/ coef' = [coef EXCEPT !.iMCU_row_num = @ + 1, !.mcu_ctr = 0, !.MCU_vert_offset = 0]
      BY Zenon DEF Preprocess, LinesDone, CompressData, EncodeMCU, SuspendMCU, RowCompressed, engine,
                   SuspendedAt
    <2>2. QED
      BY <1>1, <2>1 DEF CoefTyped
  <1>3. call'.op = "finish" => call.op = "finish"
    <2>1. CASE call' = NoCall
      BY <2>1 DEF NoCall
    <2>2. CASE call' # NoCall
      <3>1. CASE Preprocess \/ CompressData
        BY <1>1, <3>1 DEF Preprocess, CompressData, CallTyped
      <3>2. CASE EncodeMCU
        BY <1>1, <3>2 DEF EncodeMCU, CallTyped
      <3>3. CASE LinesDone \/ SuspendMCU
        BY <2>2, <3>3 DEF LinesDone, SuspendMCU
      <3>4. CASE RowCompressed
        <4>1. CASE call.op = "lines"
          <5>1. call' = [call EXCEPT !.at = "prep",
                                    !.row_ctr = IF main.suspended THEN @ + 1 ELSE @]
            BY <3>4, <4>1 DEF RowCompressed
          <5>2. QED
            BY <1>1, <4>1, <5>1 DEF CallTyped
        <4>2. CASE call.op = "raw"
          BY <2>2, <3>4, <4>2 DEF RowCompressed
        <4>3. CASE call.op = "finish"
          BY <4>3
        <4>4. QED
          BY <1>1, <4>1, <4>2, <4>3 DEF CallTyped
      <3>5. QED
        BY <3>1, <3>2, <3>3, <3>4
    <2>3. QED
      BY <2>1, <2>2
  <1>4. QED
    BY <1>1, <1>2, <1>3

LEMMA ModeStep == ASSUME IInv, IInv', CourseInv, CourseInv', ModeInv, [Next]_vars PROVE ModeInv'
  <1>1. MasterOK(master) /\ Course /\ Shape /\ CallInv /\ PassInv /\ CountInv
    BY Zenon DEF IInv, Shape, CourseInv, Course
  <1> SUFFICES ASSUME Writing' PROVE ModeInv'
    BY Zenon DEF ModeInv
  <1>2. CASE Preprocess \/ LinesDone \/ CompressData \/ EncodeMCU \/ SuspendMCU \/ RowCompressed
    <2>1. master' = master /\ ~Between /\ ~Between'
      BY <1>1, <1>2, StaysInPass
    <2>2. /\ coef'.mode = coef.mode /\ Writing
          /\ call'.op = "finish" => call.op = "finish"
          /\ call.at # "finish_pass"
      BY <1>1, <1>2, ModeStays
    <2>3. jobs' = jobs /\ job' = job /\ (global_state' = global_state \/ global_state' = "ERROR")
      BY <1>2 DEF Preprocess, LinesDone, CompressData, EncodeMCU, SuspendMCU, RowCompressed, others
    <2>4. total_passes' = total_passes /\ global_state' = global_state
      BY <2>3, ImageKept DEF Writing
    <2>5. QED
      BY <2>1, <2>2, <2>4, Zenon DEF ModeInv
  <1>3. CASE FinishPass
    <2>1. /\ jobs' = jobs /\ job' = job /\ coef' = coef /\ global_state' = global_state
          /\ call.at = "finish_pass" /\ call' = [call EXCEPT !.at = "passes"]
      BY <1>3, Zenon DEF FinishPass, others
    <2>2. Writing /\ ~Between /\ Between'
      <3>1. Writing /\ ~Between
        BY <1>1, <1>3, FinishPassPass, Zenon
      <3>2. CallOK(call)
        BY Zenon DEF IInv, Shape
      <3>3. call'.at = "passes"
        BY <2>1, <3>2 DEF CallOK
      <3>4. QED
        BY <3>1, <3>3 DEF Between
    <2>3. total_passes' = total_passes
      BY <2>1, ImageKept, Zenon
    <2>4. ModeInv'
      <3>1. global_state = "WRCOEFS" <=> coef.mode = "TRANSCODE"
        BY <2>2, Zenon DEF ModeInv
      <3>2. global_state # "WRCOEFS" /\ total_passes > 1 =>
              coef.mode \in {"CRANK_DEST", "SAVE_AND_PASS"}
        BY <2>2 DEF ModeInv
      <3>3. QED
        BY <2>1, <2>2, <2>3, <3>1, <3>2, Zenon DEF ModeInv
    <2>5. QED
      BY <2>4
  <1>4. CASE NextPass
    <2>1. /\ jobs' = jobs /\ job' = job /\ global_state' = global_state
          /\ coef' = NewCoef(IF coef.mode = "TRANSCODE" THEN coef.mode ELSE "CRANK_DEST", coef.whole)
      BY <1>4, Zenon DEF NextPass, others
    <2>2. Writing /\ ~Between' /\ master'.pass_type # "main"
      BY <1>1, <1>4, NextPassPass
    <2>3. coef'.mode = IF coef.mode = "TRANSCODE" THEN "TRANSCODE" ELSE "CRANK_DEST"
      BY <2>1 DEF NewCoef
    <2>4. global_state = "WRCOEFS" <=> coef.mode = "TRANSCODE"
      BY <2>2, Zenon DEF ModeInv
    <2>5. coef'.mode = "TRANSCODE" <=> global_state' = "WRCOEFS"
      BY <2>1, <2>3, <2>4
    <2>6. global_state' # "WRCOEFS" => coef'.mode = "CRANK_DEST"
      BY <2>1, <2>3, <2>4
    <2>7. QED
      BY <2>2, <2>5, <2>6, Zenon DEF ModeInv
  <1>5. CASE StartCompress
    <2>1. validate_script(script, Len(J.comps))
      BY <1>5 DEF StartCompress, Writing
    <2>2. /\ jobs' = jobs /\ job' = job /\ call' = call /\ call = NoCall
          /\ master' = Prepared(NewMaster) /\ J.input \in {"lines", "raw"}
          /\ coef' = NewCoef(IF total_passes > 1 THEN "SAVE_AND_PASS" ELSE "PASS_THRU", NewWhole)
      BY <1>5, <2>1, Zenon DEF StartCompress, Idle
    <2>3. global_state' = (IF J.input = "raw" THEN "RAW_OK" ELSE "SCANNING")
      BY <1>5, <2>1, Zenon DEF StartCompress, Start
    <2>4. NewMaster.pass_type = "main" /\ MasterOK(NewMaster) /\ NewMaster.scan_number = 1
      BY <2>2 DEF NewMaster, MasterOK
    <2>5. master'.pass_type = "main" /\ master'.scan = 1
      BY <2>2, <2>4, PreparedIs DEF SkipsOptimization
    <2>6. ~Between'
      BY <2>2, <2>5 DEF Between, NoCall
    <2>7. coef'.mode = (IF total_passes > 1 THEN "SAVE_AND_PASS" ELSE "PASS_THRU")
      BY <2>2 DEF NewCoef
    <2>8. total_passes' = total_passes
      BY <2>2, ImageKept, Zenon
    <2>9. call'.op # "finish" /\ global_state' # "WRCOEFS" /\ coef'.mode # "TRANSCODE"
      BY <2>2, <2>3, <2>7 DEF NoCall
    <2>10. QED
      BY <2>5, <2>6, <2>7, <2>8, <2>9, Zenon DEF ModeInv
  <1>6. CASE WriteCoefficients
    <2>1. validate_script(script, Len(J.comps))
      BY <1>6 DEF WriteCoefficients, Writing
    <2>2. master' = NewMaster /\ \E w : coef' = NewCoef("TRANSCODE", w)
      BY <1>6, <2>1, Zenon DEF WriteCoefficients
    <2>3. global_state' = "WRCOEFS"
      BY <1>6, <2>1, Zenon DEF WriteCoefficients, Start
    <2>4. Between' /\ coef'.mode = "TRANSCODE"
      BY <2>2 DEF NewMaster, Between, NewCoef
    <2>5. QED
      BY <2>3, <2>4, Zenon DEF ModeInv
  <1>7. CASE WriteMarker \/ UNCHANGED vars
    <2>1. /\ jobs' = jobs /\ job' = job /\ coef' = coef /\ master' = master /\ call' = call
          /\ global_state' = global_state
      BY <1>7 DEF WriteMarker, vars, engine
    <2>2. total_passes' = total_passes
      BY <2>1, ImageKept, Zenon
    <2>3. Writing' = Writing /\ Between' = Between
      BY <2>1, Zenon DEF Writing, Between
    <2>4. QED
      BY <2>1, <2>2, <2>3, Zenon DEF ModeInv
  <1>8. CASE WriteScanlines \/ WriteRawData \/ FinishCompress
    <2>1. /\ jobs' = jobs /\ job' = job /\ global_state' = global_state /\ call = NoCall /\ coef' = coef
      BY <1>8, Zenon DEF WriteScanlines, WriteRawData, FinishCompress, Idle, engine
    <2>2. master'.scan = master.scan /\ master'.pass_type = master.pass_type
      BY <1>1, <1>8 DEF WriteScanlines, WriteRawData, FinishCompress, engine, PassStartup, MasterOK
    <2>3. Writing /\ total_passes' = total_passes
      BY <2>1, ImageKept, Zenon DEF Writing
    <2>4. CASE global_state = "WRCOEFS"
      <3>1. FinishCompress
        BY <1>8, <2>4 DEF WriteScanlines, WriteRawData, Idle
      <3>2. Between'
        BY <2>4, <3>1 DEF FinishCompress, NoCall, Between
      <3>3. QED
        BY <2>1, <2>3, <2>4, <3>2, Zenon DEF ModeInv
    <2>5. CASE global_state # "WRCOEFS"
      <3>1. call'.op = "finish" => call'.at = "finish_pass"
        BY <1>8, <2>5 DEF WriteScanlines, WriteRawData, FinishCompress, NoCall
      <3>2. ~Between
        <4>1. master.scan > 0
          BY <2>3, <2>5 DEF IInv, ScanSelected
        <4>2. QED
          BY <1>1, <2>1, <4>1 DEF Between, NoCall, MasterOK
      <3>3. call'.at # "passes"
        BY <1>8, <2>5 DEF WriteScanlines, WriteRawData, FinishCompress, NoCall
      <3>4. ~Between'
        BY <2>2, <3>2, <3>3 DEF Between
      <3>5. QED
        BY <2>1, <2>2, <2>3, <2>5, <3>1, <3>2, <3>4, Zenon DEF ModeInv
    <2>6. QED
      BY <2>4, <2>5
  <1>9. CASE \/ NextJob \/ WriteTables \/ ReadCoefficients \/ CopyCriticalParameters \/ Trailer
    BY <1>9 DEF NextJob, WriteTables, ReadCoefficients, CopyCriticalParameters, Trailer, Idle, Writing
  <1>10. QED
    BY <1>2, <1>3, <1>4, <1>5, <1>6, <1>7, <1>8, <1>9, Zenon DEF Next, Library, Application
-----------------------------------------------------------------------------
(* What a scan should hold depends on the image alone.                      *)
LEMMA ShapesKept ==
  ASSUME jobs' = jobs, job' = job
  PROVE  /\ Comps' = Comps /\ \A c : h(c)' = h(c) /\ v(c)' = v(c)
         /\ \A c : smoothed(c)' = smoothed(c)
         /\ \A c : width_in_blocks(c)' = width_in_blocks(c) /\ height_in_blocks(c)' = height_in_blocks(c)
         /\ \A c : WholeBlocks(c)' = WholeBlocks(c)
         /\ \A i : RowPointer(i)' = RowPointer(i)
  <1>1. J' = J /\ MaxV' = MaxV /\ MaxH' = MaxH /\ context_rows' = context_rows
    BY ImageKept, Zenon
  <1>2. Comps' = Comps
    BY <1>1, Zenon DEF Comps
  <1>3. \A c : h(c)' = h(c) /\ v(c)' = v(c)
    BY <1>1, Zenon DEF h, v
  <1>4. \A c : smoothed(c)' = smoothed(c)
    BY <1>1, <1>3, Zenon DEF smoothed
  <1>5. \A c : width_in_blocks(c)' = width_in_blocks(c) /\ height_in_blocks(c)' = height_in_blocks(c)
    BY <1>1, <1>3, Zenon DEF width_in_blocks, height_in_blocks
  <1>6. \A c : WholeBlocks(c)' = WholeBlocks(c)
    BY <1>3, <1>5, Zenon DEF WholeBlocks
  <1>7. \A i : RowPointer(i)' = RowPointer(i)
    BY <1>1, Zenon DEF RowPointer
  <1>8. QED
    BY <1>2, <1>3, <1>4, <1>5, <1>6, <1>7

LEMMA LinesKept ==
  ASSUME jobs' = jobs, job' = job
  PROVE  /\ \A r : Clip(r)' = Clip(r)
         /\ \A c, j : Line(c, j)' = Line(c, j)
         /\ \A c, row, col : Data(c, row, col)' = Data(c, row, col)
         /\ \A c, row, col : Block(c, row, col)' = Block(c, row, col)
  <1>1. J' = J /\ MaxV' = MaxV /\ context_rows' = context_rows
    BY ImageKept, Zenon
  <1>2. /\ \A c : h(c)' = h(c) /\ v(c)' = v(c)
        /\ \A c : smoothed(c)' = smoothed(c)
        /\ \A c : width_in_blocks(c)' = width_in_blocks(c) /\ height_in_blocks(c)' = height_in_blocks(c)
    BY ShapesKept
  <1>3. \A r : Clip(r)' = Clip(r)
    BY <1>1, Zenon DEF Clip
  <1>4. ASSUME NEW c, NEW j PROVE Line(c, j)' = Line(c, j)
    BY <1>1, <1>2, <1>3, Zenon DEF Line
  <1>5. ASSUME NEW c, NEW row, NEW col PROVE Data(c, row, col)' = Data(c, row, col)
    BY <1>1, <1>4, Zenon DEF Data
  <1>6. ASSUME NEW c, NEW row, NEW col PROVE Block(c, row, col)' = Block(c, row, col)
    BY <1>2, <1>5, Zenon DEF Block
  <1>7. QED
    BY <1>3, <1>4, <1>5, <1>6

LEMMA RightKept ==
  ASSUME jobs' = jobs, job' = job
  PROVE  \A scan, c, n, blocks, b :
           BlockIsRight(scan, c, n, blocks, b)' = BlockIsRight(scan, c, n, blocks, b)
  <1>1. /\ \A c : h(c)' = h(c) /\ v(c)' = v(c)
        /\ \A c : width_in_blocks(c)' = width_in_blocks(c) /\ height_in_blocks(c)' = height_in_blocks(c)
    BY ShapesKept
  <1>2. \A c, row, col : Data(c, row, col)' = Data(c, row, col)
    BY LinesKept
  <1> TAKE scan, c, n, blocks, b
  <1>3. Across(scan)' = Across(scan)
    BY <1>1, Zenon DEF Across, Wide
  <1>4. Wide(scan, c)' = Wide(scan, c) /\ Tall(scan, c)' = Tall(scan, c)
    BY <1>1, Zenon DEF Wide, Tall
  <1>5. QED
    BY <1>1, <1>2, <1>3, <1>4, Zenon DEF BlockIsRight

LEMMA SamplingIs == ASSUME Shape, NEW c \in Comps PROVE v(c) \in Nat \ {0} /\ h(c) \in Nat \ {0}
  BY ImageIs

LEMMA SizesAre ==
  ASSUME Shape
  PROVE  MaxV \in Nat \ {0} /\ J.height \in Nat \ {0} /\ DCTSIZE \in Nat \ {0}
  <1>1. MaxV \in Nat \ {0}
    BY ImageIs
  <1>2. QED
    BY <1>1, HeightPositive, SizeAssumption

(* Row r of the image, or the one at its edge.                              *)
LEMMA ClipIs ==
  ASSUME Shape, NEW r \in Int
  PROVE  Clip(r) = IF r < 0 THEN 0 ELSE IF r < J.height THEN r ELSE J.height - 1
  <1>1. J.height \in Nat \ {0}
    BY HeightPositive
  <1> DEFINE x == Least(r, J.height - 1)
  <1>2. x \in Int /\ x = IF r < J.height THEN r ELSE J.height - 1
    BY <1>1 DEF Least
  <1> HIDE DEF x
  <1>3. Max({0, x}) = IF x > 0 THEN x ELSE 0
    BY <1>2 DEF Max
  <1>4. QED
    BY <1>1, <1>2, <1>3 DEF Clip, x

(* The row groups of the components hold MaxV rows of the image.            *)
LEMMA FactorsIs ==
  ASSUME Shape, J.input = "lines", NEW c \in Comps
  PROVE  /\ MaxV \div v(c) \in Nat \ {0} /\ v(c) \in Nat \ {0} /\ v(c) <= MaxV
         /\ (MaxV \div v(c)) * v(c) = MaxV /\ MaxV \in Nat \ {0}
  <1>1. MaxV \in 1 .. 4 /\ v(c) \in 1 .. 4 /\ v(c) <= MaxV /\ IsImage(J)
    BY ImageIs
  <1>2. MaxV % v(c) = 0
    BY <1>1 DEF IsImage, MaxV, v, Comps
  <1> DEFINE m == MaxV
             n == v(c)
  <1>3. m \in 1 .. 4 /\ n \in 1 .. 4 /\ n <= m /\ m % n = 0
    BY <1>1, <1>2
  <1> HIDE DEF m, n
  <1>4. m \div n \in Nat /\ m = n * (m \div n) + (m % n)
    BY ONLY <1>3
  <1>5. m \div n \in Nat \ {0} /\ (m \div n) * n = m /\ m \in Nat \ {0} /\ n \in Nat \ {0}
    BY ONLY <1>3, <1>4
  <1>6. QED
    BY <1>3, <1>5 DEF m, n
-----------------------------------------------------------------------------
(* The downsamplers. Row j of row group G is made of the rows of the image  *)
(* that it stands for.                                                      *)
LEMMA ContextRow ==
  ASSUME Shape, J.input = "lines", context_rows, NEW c \in Comps, NEW G \in Nat, NEW buf,
         NEW from \in Nat, NEW j \in 0 .. v(c) - 1, HoldsAround(buf, from, G * MaxV, 2 * MaxV)
  PROVE  DownRow(buf, c, from, j) = Line(c, G * v(c) + j)
  <1> DEFINE f == MaxV \div v(c)
             margin == IF smoothed(c) THEN 1 ELSE 0
  <1>1. f \in Nat \ {0} /\ v(c) \in Nat \ {0} /\ f * v(c) = MaxV /\ MaxV \in Nat \ {0}
    BY FactorsIs
  <1>2. margin \in {0, 1}
    OBVIOUS
  <1> HIDE DEF f, margin
  <1>3. j \in Nat /\ (G * v(c) + j) * f = G * MaxV + j * f
    <2>1. j \in Nat /\ f \in Nat /\ v(c) \in Nat /\ MaxV \in Nat /\ f * v(c) = MaxV
      BY <1>1
    <2>2. (G * v(c) + j) * f = G * (f * v(c)) + j * f
      <3> DEFINE y == v(c)
      <3>1. y \in Nat
        BY <2>1
      <3> HIDE DEF y
      <3>2. (G * y + j) * f = G * (f * y) + j * f
        BY <2>1, <3>1
      <3>3. QED
        BY <3>2 DEF y
    <2>3. QED
      BY <2>1, <2>2
  <1>4. j * f \in Nat /\ j * f <= MaxV - f
    <2>1. j * f <= (v(c) - 1) * f /\ j * f \in Int
      BY <1>1, FactorKeeps
    <2>2. (v(c) - 1) * f = f * v(c) - f /\ j * f >= 0
      BY <1>1
    <2>3. QED
      BY <1>1, <2>1, <2>2
  <1>5. ASSUME NEW k \in 1 .. f + 2 * margin
        PROVE  buf[RowPointer(from + j * f + k - 1 - margin)] =
                 Clip((G * v(c) + j) * f + k - 1 - margin)
    <2> DEFINE d == j * f + k - 1 - margin
    <2>1. d \in -MaxV .. 2 * MaxV - 1
      BY <1>1, <1>2, <1>4
    <2>2. from + j * f + k - 1 - margin = from + d
      BY <1>1, <1>2, <1>4
    <2>3. G * MaxV \in Nat
      BY <1>1
    <2>4. (G * v(c) + j) * f + k - 1 - margin = G * MaxV + d
      BY <1>1, <1>2, <1>3, <1>4, <2>3
    <2>5. \A e \in -MaxV .. 2 * MaxV - 1 : buf[RowPointer(from + e)] = Clip(G * MaxV + e)
      BY Zenon DEF HoldsAround
    <2> HIDE DEF d
    <2>6. QED
      BY <2>1, <2>2, <2>4, <2>5
  <1>6. DownRow(buf, c, from, j) =
          [k \in 1 .. f + 2 * margin |-> buf[RowPointer(from + j * f + k - 1 - margin)]]
    BY Zenon DEF DownRow, f, margin
  <1>7. Line(c, G * v(c) + j) =
          [k \in 1 .. f + 2 * margin |-> Clip((G * v(c) + j) * f + k - 1 - margin)]
    <2>1. J.input # "raw"
      OBVIOUS
    <2>2. QED
      BY <2>1, Zenon DEF Line, f, margin
  <1>8. QED
    BY <1>5, <1>6, <1>7, Zenon

LEMMA GroupsOfImage ==
  ASSUME Shape, NEW G \in Nat, G * MaxV < J.height
  PROVE  G + 1 <= Ceil(J.height, MaxV) /\ Ceil(J.height, MaxV) \in Nat
  <1>1. J.height \in Nat \ {0} /\ MaxV \in Nat \ {0}
    BY HeightPositive, ImageIs
  <1>2. Ceil(J.height, MaxV) \in Nat \ {0} /\ J.height <= Ceil(J.height, MaxV) * MaxV
    BY <1>1, CeilIs
  <1>3. Ceil(J.height, MaxV) * MaxV \in Int /\ G * MaxV \in Int
    BY <1>1, <1>2
  <1>4. G * MaxV < Ceil(J.height, MaxV) * MaxV
    BY <1>1, <1>2, <1>3
  <1>5. G < Ceil(J.height, MaxV)
    BY <1>1, <1>2, <1>4, LessFactor
  <1>6. QED
    BY <1>2, <1>5

LEMMA SimpleRow ==
  ASSUME Shape, J.input = "lines", ~context_rows, NEW c \in Comps, NEW G \in Nat, NEW buf,
         NEW j \in 0 .. v(c) - 1, G * MaxV < J.height, HoldsGroup(buf, G * MaxV)
  PROVE  DownRow(buf, c, 0, j) = Line(c, G * v(c) + j)
  <1> DEFINE f == MaxV \div v(c)
  <1>1. f \in Nat \ {0} /\ v(c) \in Nat \ {0} /\ f * v(c) = MaxV /\ MaxV \in Nat \ {0}
    BY FactorsIs
  <1>2. ~smoothed(c)
    BY DEF context_rows
  <1> HIDE DEF f
  <1>3. j \in Nat /\ (G * v(c) + j) * f = G * MaxV + j * f
    <2>1. j \in Nat /\ f \in Nat /\ v(c) \in Nat /\ MaxV \in Nat /\ f * v(c) = MaxV
      BY <1>1
    <2>2. (G * v(c) + j) * f = G * (f * v(c)) + j * f
      <3> DEFINE y == v(c)
      <3>1. y \in Nat
        BY <2>1
      <3> HIDE DEF y
      <3>2. (G * y + j) * f = G * (f * y) + j * f
        BY <2>1, <3>1
      <3>3. QED
        BY <3>2 DEF y
    <2>3. QED
      BY <2>1, <2>2
  <1>4. j * f \in Nat /\ j * f <= MaxV - f
    <2>1. j * f <= (v(c) - 1) * f /\ j * f \in Int
      BY <1>1, FactorKeeps
    <2>2. (v(c) - 1) * f = f * v(c) - f /\ j * f >= 0
      BY <1>1
    <2>3. QED
      BY <1>1, <2>1, <2>2
  <1>5. ASSUME NEW k \in 1 .. f
        PROVE  buf[RowPointer(0 + j * f + k - 1 - 0)] = Clip((G * v(c) + j) * f + k - 1 - 0)
    <2> DEFINE d == j * f + k - 1
    <2>1. d \in 0 .. MaxV - 1
      BY <1>1, <1>4
    <2>2. RowPointer(0 + j * f + k - 1 - 0) = d
      BY <1>1, <1>4 DEF RowPointer
    <2>3. G * MaxV \in Nat
      BY <1>1
    <2>4. (G * v(c) + j) * f + k - 1 - 0 = G * MaxV + d
      BY <1>1, <1>3, <1>4, <2>3
    <2>5. \A e \in 0 .. MaxV - 1 : buf[e] = Clip(G * MaxV + e)
      BY Zenon DEF HoldsGroup
    <2> HIDE DEF d
    <2>6. QED
      BY <2>1, <2>2, <2>4, <2>5
  <1>6. DownRow(buf, c, 0, j) =
          [k \in 1 .. f + 2 * 0 |-> buf[RowPointer(0 + j * f + k - 1 - 0)]]
    BY <1>2 DEF DownRow, f
  <1>7. Line(c, G * v(c) + j) = [k \in 1 .. f + 2 * 0 |-> Clip((G * v(c) + j) * f + k - 1 - 0)]
    <2>1. J.input # "raw"
      OBVIOUS
    <2>2. G + 1 <= Ceil(J.height, MaxV) /\ Ceil(J.height, MaxV) \in Nat
      BY GroupsOfImage
    <2>3. (G + 1) * v(c) <= Ceil(J.height, MaxV) * v(c) /\ Ceil(J.height, MaxV) * v(c) \in Int
      BY <1>1, <2>2, FactorKeeps
    <2>4. (G + 1) * v(c) = G * v(c) + v(c) /\ G * v(c) \in Nat
      BY <1>1
    <2>5. Least(G * v(c) + j, Ceil(J.height, MaxV) * v(c) - 1) = G * v(c) + j
      <3> DEFINE a == G * v(c)
                 b == Ceil(J.height, MaxV) * v(c)
      <3>1. a \in Nat /\ b \in Int /\ a + v(c) <= b /\ v(c) \in Nat
        BY <1>1, <2>3, <2>4
      <3> HIDE DEF a, b
      <3>2. Least(a + j, b - 1) = a + j
        BY <3>1 DEF Least
      <3>3. QED
        BY <3>2 DEF a, b
    <2>6. QED
      BY <1>2, <2>1, <2>5, Zenon DEF Line, f
  <1>8. f + 2 * 0 = f
    BY <1>1
  <1>9. QED
    BY <1>5, <1>6, <1>7, <1>8, Zenon

(* A row group more in the main buffer.                                     *)
LEMMA DownsampleIs ==
  ASSUME Shape, NEW out, NEW buf, NEW from, NEW cur \in Nat, NEW group \in 0 .. DCTSIZE - 1,
         HasLines(out, cur, group), Downsampled(buf, from, cur * DCTSIZE + group),
         NEW new, new = Downsample(out, buf, from, group)
  PROVE  HasLines(new, cur, group + 1)
  <1>1. DOMAIN new = Comps
    BY DEF Downsample
  <1>2. ASSUME NEW c \in Comps
        PROVE  new[c] = [i \in 0 .. v(c) * DCTSIZE - 1 |->
                 IF i \div v(c) = group THEN DownRow(buf, c, from, i % v(c)) ELSE out[c][i]]
    BY <1>2, Zenon DEF Downsample, HasLines
  <1>3. \A c \in Comps : DOMAIN new[c] = 0 .. v(c) * DCTSIZE - 1
    BY <1>2
  <1>4. ASSUME NEW c \in Comps, NEW i \in 0 .. (group + 1) * v(c) - 1
        PROVE  new[c][i] = Line(c, cur * (v(c) * DCTSIZE) + i)
    <2>1. v(c) \in Nat \ {0} /\ DCTSIZE \in Nat \ {0}
      BY SamplingIs, SizeAssumption
    <2>2. (group + 1) * v(c) <= DCTSIZE * v(c) /\ (group + 1) * v(c) \in Int /\ DCTSIZE * v(c) \in Int
      BY <2>1, FactorKeeps
    <2>3. v(c) * DCTSIZE = DCTSIZE * v(c) /\ (group + 1) * v(c) = group * v(c) + v(c)
          /\ group * v(c) \in Nat
      BY <2>1
    <2>4. i \in 0 .. v(c) * DCTSIZE - 1 /\ i \in Nat
      BY <2>2, <2>3
    <2>5. new[c][i] = IF i \div v(c) = group THEN DownRow(buf, c, from, i % v(c)) ELSE out[c][i]
      BY <1>2, <2>4, Zenon
    <2>6. CASE i < group * v(c)
      <3>1. i \div v(c) # group
        <4>1. i \div v(c) \in Nat /\ (i \div v(c)) * v(c) <= i
          <5> DEFINE y == v(c)
          <5>1. y \in Nat \ {0} /\ i \in Nat
            BY <2>1, <2>4
          <5> HIDE DEF y
          <5>2. i \div y \in Nat /\ i = y * (i \div y) + (i % y) /\ i % y \in 0 .. y - 1
            BY <5>1
          <5>3. (i \div y) * y = y * (i \div y)
            BY <5>1, <5>2
          <5>4. QED
            BY <5>1, <5>2, <5>3 DEF y
        <4>2. QED
          BY <2>3, <2>4, <2>6, <4>1
      <3>2. i \in 0 .. group * v(c) - 1
        BY <2>3, <2>4, <2>6
      <3>3. out[c][i] = Line(c, cur * (v(c) * DCTSIZE) + i)
        BY <3>2, Zenon DEF HasLines
      <3>4. QED
        BY <2>5, <3>1, <3>3
    <2>7. CASE ~(i < group * v(c))
      <3> DEFINE j == i - group * v(c)
      <3>1. j \in 0 .. v(c) - 1 /\ i = group * v(c) + j
        <4> DEFINE g == group * v(c)
        <4>1. g \in Nat /\ i \in 0 .. g + v(c) - 1 /\ ~(i < g) /\ v(c) \in Nat
          BY <2>1, <2>3, <2>4, <2>7
        <4> HIDE DEF g
        <4>2. i - g \in 0 .. v(c) - 1 /\ i = g + (i - g)
          BY <4>1
        <4>3. QED
          BY <4>2 DEF g
      <3>2. i \div v(c) = group /\ i % v(c) = j
        <4> HIDE DEF j
        <4>1. i \in Nat /\ v(c) \in Nat \ {0} /\ group \in Nat /\ j \in 0 .. v(c) - 1
          BY <2>1, <2>4, <3>1
        <4>2. QED
          BY <3>1, <4>1, DivisionUnique, Zenon
      <3>3. new[c][i] = DownRow(buf, c, from, j)
        BY <2>5, <3>2
      <3>4. (cur * DCTSIZE + group) * v(c) + j = cur * (v(c) * DCTSIZE) + i
        <4>1. (cur * DCTSIZE + group) * v(c) = cur * (v(c) * DCTSIZE) + group * v(c)
          BY <2>1
        <4>2. cur * (v(c) * DCTSIZE) \in Nat
          BY <2>1
        <4>3. QED
          BY <2>1, <2>3, <2>4, <4>1, <4>2
      <3> HIDE DEF j
      <3>5. DownRow(buf, c, from, j) = Line(c, (cur * DCTSIZE + group) * v(c) + j)
        BY <3>1, Zenon DEF Downsampled
      <3>6. QED
        BY <3>3, <3>4, <3>5
    <2>8. QED
      BY <2>6, <2>7
  <1>5. QED
    BY <1>1, <1>3, <1>4, Zenon DEF HasLines
-----------------------------------------------------------------------------
(* The preprocessing controller: what its turns do to the rows.             *)
LEMMA ConvertBuf ==
  ASSUME NEW p, DOMAIN p = PrepFields, NEW row, NEW n
  PROVE  /\ Convert(p, row, n).this_row_group = p.this_row_group
         /\ DOMAIN Convert(p, row, n).buf = DOMAIN p.buf
         /\ \A i \in DOMAIN p.buf :
              /\ i \in p.next_buf_row .. p.next_buf_row + n - 1 =>
                   Convert(p, row, n).buf[i] = row + i - p.next_buf_row
              /\ i \notin p.next_buf_row .. p.next_buf_row + n - 1 =>
                   Convert(p, row, n).buf[i] = p.buf[i]
  BY DEF Convert, PrepFields

LEMMA ExpandBuf ==
  ASSUME NEW p, DOMAIN p = PrepFields, NEW last, NEW stop
  PROVE  /\ Expand(p, last, stop).this_row_group = p.this_row_group
         /\ DOMAIN Expand(p, last, stop).buf = DOMAIN p.buf
         /\ \A i \in DOMAIN p.buf :
              /\ i \in last .. stop - 1 => Expand(p, last, stop).buf[i] = p.buf[RowPointer(last - 1)]
              /\ i \notin last .. stop - 1 => Expand(p, last, stop).buf[i] = p.buf[i]
  BY DEF Expand, PrepFields

(* Without context rows color_buf has one row group, filled from the top.   *)
LEMMA SimpleRows ==
  ASSUME Shape, ~context_rows, NEW p, DOMAIN p = PrepFields, HasRows(p.buf),
         p.next_buf_row \in 0 .. MaxV - 1, NEW n \in 1 .. MaxV - p.next_buf_row, NEW gm \in Nat,
         NEW row, row = gm + p.next_buf_row, row + n <= J.height,
         Holds(p.buf, gm, p.next_buf_row), NEW got, got = Convert(p, row, n)
  PROVE  /\ HasRows(got.buf) /\ Holds(got.buf, gm, p.next_buf_row + n)
         /\ p.next_buf_row + n = MaxV => HoldsGroup(got.buf, gm)
         /\ \A last : last = got.next_buf_row /\ row + n = J.height =>
              HasRows(Expand(got, last, MaxV).buf) /\ HoldsGroup(Expand(got, last, MaxV).buf, gm)
  <1> DEFINE next == p.next_buf_row
  <1>1. MaxV \in Nat \ {0} /\ J.height \in Nat \ {0}
    BY ImageIs, HeightPositive
  <1>2. /\ DOMAIN got.buf = DOMAIN p.buf
        /\ \A i \in 0 .. 3 * MaxV - 1 :
             /\ i \in next .. next + n - 1 => got.buf[i] = row + i - next
             /\ i \notin next .. next + n - 1 => got.buf[i] = p.buf[i]
    <2>1. /\ DOMAIN got.buf = DOMAIN p.buf
          /\ \A i \in DOMAIN p.buf :
               /\ i \in next .. next + n - 1 => got.buf[i] = row + i - next
               /\ i \notin next .. next + n - 1 => got.buf[i] = p.buf[i]
      BY ConvertBuf
    <2>2. DOMAIN p.buf = 0 .. 3 * MaxV - 1
      BY Zenon DEF HasRows
    <2>3. QED
      BY <2>1, <2>2, Zenon
  <1>3. DOMAIN got = PrepFields /\ got.next_buf_row = next + n
    BY ConvertIs
  <1>4. next \in Nat /\ next + n <= MaxV /\ n \in Nat \ {0} /\ row = gm + next
        /\ gm + next + n <= J.height /\ (row + n = J.height => gm + next + n = J.height)
    BY <1>1
  <1> HIDE DEF next
  <1>5. ASSUME NEW i \in 0 .. (next + n) - 1 PROVE got.buf[i] = gm + i /\ got.buf[i] = Clip(gm + i)
    <2>1. i \in 0 .. 3 * MaxV - 1
      BY <1>1, <1>4
    <2>2. got.buf[i] = gm + i
      <3>1. CASE i < next
        <4>1. i \in 0 .. p.next_buf_row - 1
          BY <1>4, <3>1 DEF next
        <4>2. i \notin next .. next + n - 1
          BY <1>4, <3>1
        <4>3. p.buf[i] = gm + i
          BY <4>1, Zenon DEF Holds
        <4>4. QED
          BY <1>2, <2>1, <4>2, <4>3
      <3>2. CASE ~(i < next)
        <4>1. i \in next .. next + n - 1 /\ row + i - next = gm + i
          BY <1>4, <3>2
        <4>2. QED
          BY <1>2, <2>1, <4>1
      <3>3. QED
        BY <3>1, <3>2
    <2>3. Clip(gm + i) = gm + i
      <3>1. gm + i \in Int /\ ~(gm + i < 0) /\ gm + i < J.height
        BY <1>1, <1>4
      <3>2. QED
        BY <3>1, ClipIs
    <2>4. QED
      BY <2>2, <2>3
  <1>6. ASSUME NEW last, last = got.next_buf_row, row + n = J.height
        PROVE  HasRows(Expand(got, last, MaxV).buf) /\ HoldsGroup(Expand(got, last, MaxV).buf, gm)
    <2>1. /\ last = next + n /\ RowPointer(last - 1) = last - 1 /\ gm + last = J.height
          /\ last \in Nat
      BY <1>3, <1>4, <1>6 DEF RowPointer
    <2>2. /\ DOMAIN Expand(got, last, MaxV).buf = DOMAIN got.buf
          /\ \A i \in 0 .. 3 * MaxV - 1 :
               /\ i \in last .. MaxV - 1 => Expand(got, last, MaxV).buf[i] = got.buf[last - 1]
               /\ i \notin last .. MaxV - 1 => Expand(got, last, MaxV).buf[i] = got.buf[i]
      <3> DEFINE e == Expand(got, last, MaxV)
      <3>1. DOMAIN e.buf = DOMAIN got.buf
        BY <1>3, ExpandBuf
      <3>2. \A i \in DOMAIN got.buf :
              /\ i \in last .. MaxV - 1 => e.buf[i] = got.buf[RowPointer(last - 1)]
              /\ i \notin last .. MaxV - 1 => e.buf[i] = got.buf[i]
        BY <1>3, ExpandBuf
      <3> HIDE DEF e
      <3>3. RowPointer(last - 1) = last - 1 /\ DOMAIN got.buf = 0 .. 3 * MaxV - 1
        <4>1. DOMAIN p.buf = 0 .. 3 * MaxV - 1
          BY Zenon DEF HasRows
        <4>2. QED
          BY <1>2, <2>1, <4>1, Zenon
      <3>4. QED
        BY <3>1, <3>2, <3>3, Zenon DEF e
    <2>3. ASSUME NEW i \in 0 .. MaxV - 1 PROVE Expand(got, last, MaxV).buf[i] = Clip(gm + i)
      <3>1. i \in 0 .. 3 * MaxV - 1
        BY <1>1
      <3>2. CASE i < last
        <4>1. i \in 0 .. (next + n) - 1 /\ i \notin last .. MaxV - 1
          BY <1>4, <2>1, <3>2
        <4>2. QED
          BY <1>5, <2>2, <3>1, <4>1
      <3>3. CASE ~(i < last)
        <4>1. i \in last .. MaxV - 1 /\ last - 1 \in 0 .. (next + n) - 1
          BY <1>4, <2>1, <3>3
        <4>2. Expand(got, last, MaxV).buf[i] = gm + (last - 1)
          <5>1. Expand(got, last, MaxV).buf[i] = got.buf[last - 1]
            BY <2>2, <3>1, <4>1
          <5>2. got.buf[last - 1] = gm + (last - 1)
            BY <1>5, <4>1, Zenon
          <5>3. QED
            BY <5>1, <5>2, Zenon
        <4>3. gm + i \in Int /\ ~(gm + i < 0) /\ ~(gm + i < J.height) /\ gm + (last - 1) = J.height - 1
          <5>1. i \in Nat /\ i >= last /\ gm \in Nat
            BY <1>1, <2>1, <3>3
          <5>2. ~(gm + i < J.height)
            BY <1>1, <2>1, <5>1
          <5>3. gm + (last - 1) = J.height - 1
            BY <1>1, <2>1, <5>1
          <5>4. QED
            BY <5>1, <5>2, <5>3
        <4>4. QED
          BY <4>2, <4>3, ClipIs
      <3>4. QED
        BY <3>2, <3>3
    <2>4. HasRows(Expand(got, last, MaxV).buf)
      BY <1>2, <2>2, Zenon DEF HasRows
    <2>5. HoldsGroup(Expand(got, last, MaxV).buf, gm)
      BY <2>3, Zenon DEF HoldsGroup
    <2>6. QED
      BY <2>4, <2>5
  <1>7. HasRows(got.buf) /\ Holds(got.buf, gm, next + n)
    <2>1. HasRows(got.buf)
      BY <1>2, Zenon DEF HasRows
    <2>2. \A i \in 0 .. (next + n) - 1 : got.buf[i] = gm + i
      BY <1>5, Zenon
    <2>3. Holds(got.buf, gm, next + n)
      BY <2>2, Zenon DEF Holds
    <2>4. QED
      BY <2>1, <2>3
  <1>8. next + n = MaxV => HoldsGroup(got.buf, gm)
    <2> SUFFICES ASSUME next + n = MaxV PROVE HoldsGroup(got.buf, gm)
      OBVIOUS
    <2>1. \A i \in 0 .. (next + n) - 1 : got.buf[i] = Clip(gm + i)
      BY <1>5, Zenon
    <2>2. \A i \in 0 .. MaxV - 1 : got.buf[i] = Clip(gm + i)
      BY <2>1, Zenon
    <2>3. QED
      BY <2>2, Zenon DEF HoldsGroup
  <1>9. QED
    BY <1>6, <1>7, <1>8 DEF next

(* expand_bottom_edge of the main buffer, after the last row group.         *)
LEMMA BottomEdge ==
  ASSUME Shape, J.input = "lines", ~context_rows, NEW out, NEW cur \in Nat,
         NEW group \in 1 .. DCTSIZE, HasLines(out, cur, group),
         (cur * DCTSIZE + group - 1) * MaxV < J.height,
         J.height <= (cur * DCTSIZE + group) * MaxV,
         NEW new, new = [c \in Comps |-> [i \in DOMAIN out[c] |-> out[c][Least(i, group * v(c) - 1)]]]
  PROVE  HasLines(new, cur, DCTSIZE)
  <1>1. DCTSIZE \in Nat \ {0} /\ MaxV \in Nat \ {0} /\ J.height \in Nat \ {0}
    BY SizeAssumption, ImageIs, HeightPositive
  <1>2. Ceil(J.height, MaxV) = cur * DCTSIZE + group
    <2>1. cur * DCTSIZE + group \in Int
      BY <1>1
    <2>2. QED
      BY <1>1, <2>1, CeilUnique
  <1>3. ASSUME NEW c \in Comps, NEW i \in 0 .. DCTSIZE * v(c) - 1
        PROVE  new[c][i] = Line(c, cur * (v(c) * DCTSIZE) + i)
    <2> DEFINE y == v(c)
               base == cur * (y * DCTSIZE)
               top == group * y
    <2>1. y \in Nat \ {0} /\ ~smoothed(c)
      BY ImageIs DEF context_rows
    <2>2. base \in Nat /\ top \in Nat \ {0} /\ (cur * DCTSIZE + group) * y = base + top
      <3> HIDE DEF y
      <3>1. cur * (y * DCTSIZE) \in Nat /\ group * y \in Nat /\ group * y # 0
        BY <1>1, <2>1
      <3>2. (cur * DCTSIZE + group) * y = cur * (y * DCTSIZE) + group * y
        BY <1>1, <2>1
      <3>3. QED
        BY <3>1, <3>2
    <2>3. i \in 0 .. v(c) * DCTSIZE - 1 /\ i \in Nat
      <3>1. v(c) * DCTSIZE = DCTSIZE * v(c)
        BY <1>1, <2>1
      <3>2. QED
        BY <1>1, <2>1, <3>1
    <2>4. new[c][i] = out[c][Least(i, top - 1)]
      <3>1. DOMAIN out[c] = 0 .. v(c) * DCTSIZE - 1
        BY Zenon DEF HasLines
      <3>2. QED
        BY <2>3, <3>1
    <2>5. \A k \in 0 .. top - 1 : out[c][k] = Line(c, base + k)
      BY Zenon DEF HasLines
    <2>6. \A k : Line(c, k) = [n \in 1 .. (MaxV \div y) + 2 * 0 |->
                    Clip(Least(k, (cur * DCTSIZE + group) * y - 1) * (MaxV \div y) + n - 1 - 0)]
      BY <1>2, <2>1 DEF Line
    <2> HIDE DEF y, base, top
    <2>10. base \in Nat /\ top \in Nat \ {0} /\ i \in Nat
      BY <2>2, <2>3
    <2>7. CASE i < top
      <3>1. Least(i, top - 1) = i
        BY ONLY <2>10, <2>7 DEF Least
      <3>2. i \in 0 .. top - 1
        BY ONLY <2>10, <2>7
      <3>3. QED
        BY <2>4, <2>5, <3>1, <3>2 DEF base, y
    <2>8. CASE ~(i < top)
      <3>1. Least(i, top - 1) = top - 1 /\ top - 1 \in 0 .. top - 1
        BY ONLY <2>10, <2>8 DEF Least
      <3>2. Least(base + i, base + top - 1) = base + top - 1
            /\ Least(base + (top - 1), base + top - 1) = base + top - 1
        BY ONLY <2>10, <2>8 DEF Least
      <3>3. Line(c, base + i) = Line(c, base + (top - 1))
        <4>1. (cur * DCTSIZE + group) * y - 1 = base + top - 1
          BY <2>2
        <4> DEFINE F(k) == [n \in 1 .. (MaxV \div y) + 2 * 0 |-> Clip(k * (MaxV \div y) + n - 1 - 0)]
        <4>2. \A k : Line(c, k) = F(Least(k, base + top - 1))
          BY <2>6, <4>1, Zenon
        <4> HIDE DEF F
        <4>3. QED
          BY <3>2, <4>2
      <3>4. QED
        BY <2>4, <2>5, <3>1, <3>3 DEF base, y
    <2>9. QED
      BY <2>7, <2>8
  <1>4. DOMAIN new = Comps /\ \A c \in Comps : DOMAIN new[c] = 0 .. v(c) * DCTSIZE - 1
    <2>1. \A c \in Comps : DOMAIN out[c] = 0 .. v(c) * DCTSIZE - 1
      BY Zenon DEF HasLines
    <2>2. QED
      BY <2>1, Zenon
  <1>5. QED
    BY <1>3, <1>4, Zenon DEF HasLines
-----------------------------------------------------------------------------
(* A turn without context rows: the row group, when it is full, becomes     *)
(* lines of the components; at the bottom of the image the last ones are    *)
(* repeated.                                                                *)
LEMMA SimpleData ==
  ASSUME Shape, J.input = "lines", ~context_rows, NEW q, DOMAIN q.prep = PrepFields, NEW cur \in Nat,
         q.group \in 0 .. DCTSIZE - 1, q.prep.next_buf_row \in 0 .. MaxV - 1,
         NEW n \in 1 .. MaxV - q.prep.next_buf_row,
         n = Least(MaxV - q.prep.next_buf_row, call.lines - q.row_ctr),
         NEW gm \in Nat, gm = (cur * DCTSIZE + q.group) * MaxV,
         NEW row, row = next_scanline + q.row_ctr, row = gm + q.prep.next_buf_row,
         row + n <= J.height, q.prep.rows_to_go = J.height - row,
         HasRows(q.prep.buf), Holds(q.prep.buf, gm, q.prep.next_buf_row),
         HasLines(q.out, cur, q.group), NEW r, r = SimpleTurn(q)
  PROVE  /\ HasRows(r.prep.buf) /\ HasLines(r.out, cur, r.group)
         /\ r.prep.rows_to_go > 0 =>
              Holds(r.prep.buf, (cur * DCTSIZE + r.group) * MaxV, r.prep.next_buf_row)
  <1>0. MaxV \in Nat \ {0} /\ J.height \in Nat \ {0} /\ DCTSIZE \in Nat \ {0}
    BY SizesAre, Zenon
  <1> DEFINE next == q.prep.next_buf_row
             rtg == q.prep.rows_to_go
             got == Convert(q.prep, next_scanline + q.row_ctr, n)
             p == IF got.rows_to_go = 0 THEN Expand(got, got.next_buf_row, MaxV) ELSE got
             full == p.next_buf_row = MaxV
             group == q.group + (IF full THEN 1 ELSE 0)
             out == IF full THEN Downsample(q.out, p.buf, 0, q.group) ELSE q.out
             pad == p.rows_to_go = 0
             lines == IF ~pad THEN out
                      ELSE [c \in Comps |-> [i \in DOMAIN out[c] |->
                               out[c][Least(i, group * v(c) - 1)]]]
             new == IF full THEN [p EXCEPT !.next_buf_row = 0] ELSE p
             after == IF pad THEN DCTSIZE ELSE group
  <1>1. r = [prep |-> new, row_ctr |-> q.row_ctr + n, group |-> after, out |-> lines]
    BY Zenon DEF SimpleTurn
  <1>2. r.prep = new /\ r.group = after /\ r.out = lines
    <2> HIDE DEF new, after, lines
    <2>1. QED
      BY <1>1
  <1>4. /\ DOMAIN got = PrepFields /\ got.rows_to_go = rtg - n /\ got.next_buf_row = next + n
    BY ConvertIs
  <1>5. got = Convert(q.prep, row, n)
    OBVIOUS
  <1> HIDE DEF got
  <1>6. /\ HasRows(got.buf) /\ Holds(got.buf, gm, next + n)
        /\ next + n = MaxV => HoldsGroup(got.buf, gm)
        /\ \A last : last = got.next_buf_row /\ row + n = J.height =>
             HasRows(Expand(got, last, MaxV).buf) /\ HoldsGroup(Expand(got, last, MaxV).buf, gm)
    BY <1>5, SimpleRows
  <1>7. next \in Nat /\ next + n <= MaxV /\ rtg - n = J.height - (row + n) /\ row = gm + next
        /\ n \in Nat \ {0} /\ gm < J.height /\ row \in Nat
        /\ (rtg - n = 0 => row + n = J.height)
    <2>1. /\ next \in 0 .. MaxV - 1 /\ n \in 1 .. MaxV - next /\ gm \in Nat
          /\ row = gm + next /\ row + n <= J.height /\ rtg = J.height - row
      OBVIOUS
    <2> HIDE DEF next, rtg
    <2>2. QED
      BY ONLY <1>0, <2>1
  <1>8. /\ DOMAIN p = PrepFields /\ p.rows_to_go = rtg - n
        /\ p.next_buf_row = IF rtg - n = 0 THEN MaxV ELSE next + n
    BY <1>4, ExpandIs
  <1>9. HasRows(p.buf)
    <2>1. CASE rtg - n = 0
      <3>1. row + n = J.height
        BY <1>7, <2>1, Zenon
      <3>2. p = Expand(got, got.next_buf_row, MaxV)
        BY <1>4, <2>1
      <3>3. QED
        BY <1>6, <3>1, <3>2
    <2>2. CASE rtg - n # 0
      <3>1. p = got
        BY <1>4, <2>2
      <3>2. QED
        BY <1>6, <3>1
    <2>3. QED
      BY <2>1, <2>2
  <1>10. full => HoldsGroup(p.buf, gm)
    <2>1. CASE rtg - n = 0
      <3>1. row + n = J.height
        BY <1>7, <2>1, Zenon
      <3>2. p = Expand(got, got.next_buf_row, MaxV)
        BY <1>4, <2>1
      <3>3. QED
        BY <1>6, <3>1, <3>2
    <2>2. CASE rtg - n # 0
      <3>1. p = got
        BY <1>4, <2>2
      <3>2. full => next + n = MaxV
        BY <1>8, <2>2
      <3>3. QED
        BY <1>6, <3>1, <3>2
    <2>3. QED
      BY <2>1, <2>2
  <1>11. rtg - n # 0 => Holds(p.buf, gm, next + n)
    <2> SUFFICES ASSUME rtg - n # 0 PROVE Holds(p.buf, gm, next + n)
      OBVIOUS
    <2>1. p = got
      BY <1>4
    <2>2. QED
      BY <1>6, <2>1
  <1> HIDE DEF p
  <1>12. full => HasLines(out, cur, q.group + 1)
    <2> SUFFICES ASSUME full PROVE HasLines(out, cur, q.group + 1)
      OBVIOUS
    <2>1. out = Downsample(q.out, p.buf, 0, q.group)
      OBVIOUS
    <2> DEFINE G == cur * DCTSIZE + q.group
    <2>2. G \in Nat /\ G * MaxV < J.height /\ HoldsGroup(p.buf, G * MaxV)
      BY <1>0, <1>7, <1>10
    <2> HIDE DEF out, G
    <2>3. ASSUME NEW c \in Comps, NEW j \in 0 .. v(c) - 1
          PROVE  DownRow(p.buf, c, 0, j) = Line(c, G * v(c) + j)
      BY <2>2, SimpleRow
    <2>4. Downsampled(p.buf, 0, G)
      BY <2>3, Zenon DEF Downsampled
    <2>5. QED
      BY <2>1, <2>4, DownsampleIs DEF G
  <1>13. CASE rtg - n = 0
    <2>1. full /\ pad /\ after = DCTSIZE /\ group = q.group + 1
      BY <1>8, <1>13
    <2>2. lines = [c \in Comps |-> [i \in DOMAIN out[c] |-> out[c][Least(i, (q.group + 1) * v(c) - 1)]]]
      BY <2>1
    <2>3. /\ q.group + 1 \in 1 .. DCTSIZE /\ (cur * DCTSIZE + (q.group + 1) - 1) * MaxV < J.height
          /\ J.height <= (cur * DCTSIZE + (q.group + 1)) * MaxV
      <3> DEFINE g == cur * DCTSIZE + q.group
      <3>1. g \in Nat /\ cur * DCTSIZE + (q.group + 1) - 1 = g /\ cur * DCTSIZE + (q.group + 1) = g + 1
        BY <1>0
      <3>2. gm = g * MaxV
        OBVIOUS
      <3> HIDE DEF g
      <3>3. (g + 1) * MaxV = gm + MaxV
        BY <1>0, <3>1, <3>2
      <3>4. J.height <= gm + MaxV
        BY <1>0, <1>7, <1>13
      <3>5. q.group + 1 \in 1 .. DCTSIZE
        BY <1>0
      <3>6. QED
        BY <1>7, <3>1, <3>2, <3>3, <3>4, <3>5
    <2> HIDE DEF out, lines, new, after, group, full, pad
    <2>4. HasLines(lines, cur, DCTSIZE)
      BY <1>12, <2>1, <2>2, <2>3, BottomEdge
    <2>6. new = [p EXCEPT !.next_buf_row = 0]
      BY <2>1 DEF new
    <2>7. new.buf = p.buf /\ new.rows_to_go = p.rows_to_go
      BY <1>8, <2>6 DEF PrepFields
    <2>8. ~(r.prep.rows_to_go > 0)
      BY <1>2, <1>8, <1>13, <2>7
    <2>9. QED
      BY <1>2, <1>9, <2>1, <2>4, <2>7, <2>8
  <1>14. CASE rtg - n # 0 /\ next + n = MaxV
    <2>1. full /\ ~pad /\ after = q.group + 1 /\ lines = out
      BY <1>8, <1>14
    <2>2. new = [p EXCEPT !.next_buf_row = 0]
      BY <2>1
    <2>3. new.buf = p.buf /\ new.next_buf_row = 0
      <3> HIDE DEF new
      <3>1. QED
        BY <1>8, <2>2 DEF PrepFields
    <2> HIDE DEF out, lines, new, after, group, full, pad
    <2>4. \A b, first : Holds(b, first, 0)
      BY DEF Holds
    <2>5. QED
      BY <1>2, <1>9, <1>12, <2>1, <2>3, <2>4, Zenon
  <1>15. CASE rtg - n # 0 /\ next + n # MaxV
    <2>1. ~full /\ ~pad /\ after = q.group /\ lines = q.out /\ new = p
      <3>1. ~full /\ ~pad
        BY <1>8, <1>15
      <3>2. group = q.group
        BY <3>1
      <3>3. QED
        BY <3>1, <3>2
    <2>2. p.next_buf_row = next + n
      BY <1>8, <1>15
    <2> HIDE DEF out, lines, new, after, group, full, pad
    <2>3. Holds(r.prep.buf, (cur * DCTSIZE + r.group) * MaxV, r.prep.next_buf_row)
      BY <1>2, <1>11, <1>15, <2>1, <2>2
    <2>4. QED
      BY <1>2, <1>9, <2>1, <2>3, Zenon
  <1>16. QED
    BY <1>13, <1>14, <1>15
-----------------------------------------------------------------------------
(* The ring: where the next rows go, seen from the row group that is to be  *)
(* downsampled next.                                                        *)
LEMMA RingPlaces ==
  ASSUME Shape, context_rows, NEW this, NEW stop, NEW next, RingAt(this, stop, next),
         NEW a, a = 2 * MaxV + next - stop
  PROVE  /\ a \in 0 .. 2 * MaxV - 1 /\ stop \in {MaxV, 2 * MaxV, 3 * MaxV}
         /\ \A k \in 0 .. (stop - next) - 1 :
              RowPointer(this + (a + k)) = next + k /\ next + k \in 0 .. 3 * MaxV - 1
         /\ \A d \in -MaxV .. a - 1 :
              RowPointer(this + d) \in 0 .. 3 * MaxV - 1 /\ RowPointer(this + d) \notin next .. stop - 1
         /\ RowPointer(next - 1) = RowPointer(this + (a - 1))
  <1> DEFINE m == MaxV
  <1>1. m \in Nat \ {0}
    BY SizesAre
  <1>2. \A i : RowPointer(i) = IF i < 0 THEN i + 3 * m ELSE IF i >= 3 * m THEN i - 3 * m ELSE i
    BY DEF RowPointer
  <1>3. this \in {0, m, 2 * m} /\ stop = (IF this = 2 * m THEN m ELSE this + 2 * m)
        /\ next + 2 * m >= stop /\ a = 2 * m + next - stop /\ next \in Nat /\ next < stop
    BY DEF RingAt
  <1> HIDE DEF m
  <1>4. CASE this = 0
    <2>1. stop = 2 * m /\ a = next
      BY <1>1, <1>3, <1>4
    <2>2. \A k \in 0 .. (stop - next) - 1 :
            RowPointer(this + (a + k)) = next + k /\ next + k \in 0 .. 3 * m - 1
      BY <1>1, <1>2, <1>3, <1>4, <2>1
    <2>3. \A d \in -m .. a - 1 :
            RowPointer(this + d) \in 0 .. 3 * m - 1 /\ RowPointer(this + d) \notin next .. stop - 1
      BY <1>1, <1>2, <1>3, <1>4, <2>1
    <2>4. RowPointer(next - 1) = RowPointer(this + (a - 1))
      BY <1>1, <1>2, <1>3, <1>4, <2>1
    <2>5. a \in 0 .. 2 * m - 1 /\ stop \in {m, 2 * m, 3 * m}
      BY <1>1, <1>3, <2>1
    <2>6. QED
      BY <2>2, <2>3, <2>4, <2>5 DEF m
  <1>5. CASE this = m
    <2>1. stop = 3 * m /\ a = next - m
      BY <1>1, <1>3, <1>5
    <2>2. \A k \in 0 .. (stop - next) - 1 :
            RowPointer(this + (a + k)) = next + k /\ next + k \in 0 .. 3 * m - 1
      BY <1>1, <1>2, <1>3, <1>5, <2>1
    <2>3. \A d \in -m .. a - 1 :
            RowPointer(this + d) \in 0 .. 3 * m - 1 /\ RowPointer(this + d) \notin next .. stop - 1
      BY <1>1, <1>2, <1>3, <1>5, <2>1
    <2>4. RowPointer(next - 1) = RowPointer(this + (a - 1))
      BY <1>1, <1>2, <1>3, <1>5, <2>1
    <2>5. a \in 0 .. 2 * m - 1 /\ stop \in {m, 2 * m, 3 * m}
      BY <1>1, <1>3, <2>1
    <2>6. QED
      BY <2>2, <2>3, <2>4, <2>5 DEF m
  <1>6. CASE this = 2 * m
    <2>1. stop = m /\ a = next + m
      BY <1>1, <1>3, <1>6
    <2>2. \A k \in 0 .. (stop - next) - 1 :
            RowPointer(this + (a + k)) = next + k /\ next + k \in 0 .. 3 * m - 1
      BY <1>1, <1>2, <1>3, <1>6, <2>1
    <2>3. \A d \in -m .. a - 1 :
            RowPointer(this + d) \in 0 .. 3 * m - 1 /\ RowPointer(this + d) \notin next .. stop - 1
      BY <1>1, <1>2, <1>3, <1>6, <2>1
    <2>4. RowPointer(next - 1) = RowPointer(this + (a - 1))
      BY <1>1, <1>2, <1>3, <1>6, <2>1
    <2>5. a \in 0 .. 2 * m - 1 /\ stop \in {m, 2 * m, 3 * m}
      BY <1>1, <1>3, <2>1
    <2>6. QED
      BY <2>2, <2>3, <2>4, <2>5 DEF m
  <1>7. QED
    BY <1>3, <1>4, <1>5, <1>6

(* n rows, that of the image number first and those after it, are put at    *)
(* next.                                                                    *)
Came(old, new, next, n, first) ==
  /\ \A i \in 0 .. 3 * MaxV - 1 : i \notin next .. (next + n) - 1 => new[i] = old[i]
  /\ \A k \in 0 .. n - 1 : new[next + k] = Clip(first + k)

(* Rows that come go where they belong in the ring.                         *)
LEMMA RingFilled ==
  ASSUME Shape, context_rows, NEW this, NEW stop, NEW next, RingAt(this, stop, next),
         NEW a, a = 2 * MaxV + next - stop, NEW n \in Nat, next + n <= stop,
         NEW old, NEW gm \in Nat, HoldsAround(old, this, gm, a), NEW new,
         Came(old, new, next, n, gm + a)
  PROVE  HoldsAround(new, this, gm, a + n)
  <1>1. /\ a \in 0 .. 2 * MaxV - 1
        /\ \A k \in 0 .. (stop - next) - 1 :
             RowPointer(this + (a + k)) = next + k /\ next + k \in 0 .. 3 * MaxV - 1
        /\ \A d \in -MaxV .. a - 1 :
             RowPointer(this + d) \in 0 .. 3 * MaxV - 1 /\ RowPointer(this + d) \notin next .. stop - 1
    BY RingPlaces
  <1>2. MaxV \in Nat \ {0} /\ stop \in Nat /\ next \in Nat
    BY SizesAre DEF RingAt
  <1>3. \A d \in -MaxV .. a - 1 : old[RowPointer(this + d)] = Clip(gm + d)
    BY Zenon DEF HoldsAround
  <1>4. ASSUME NEW d \in -MaxV .. (a + n) - 1 PROVE new[RowPointer(this + d)] = Clip(gm + d)
    <2>1. CASE d < a
      <3>1. d \in -MaxV .. a - 1
        BY <1>1, <1>2, <2>1
      <3>2. RowPointer(this + d) \in 0 .. 3 * MaxV - 1 /\ RowPointer(this + d) \notin next .. stop - 1
        BY <1>1, <3>1
      <3>3. RowPointer(this + d) \notin next .. (next + n) - 1
        BY <1>2, <3>2
      <3>4. QED
        BY <1>3, <3>1, <3>2, <3>3 DEF Came
    <2>2. CASE ~(d < a)
      <3> DEFINE k == d - a
      <3>1. k \in 0 .. n - 1 /\ k \in 0 .. (stop - next) - 1 /\ d = a + k
        BY <1>1, <1>2, <2>2
      <3> HIDE DEF k
      <3>2. RowPointer(this + d) = next + k
        BY <1>1, <3>1
      <3>3. new[next + k] = Clip(gm + a + k)
        BY <3>1, Zenon DEF Came
      <3>4. gm + a + k = gm + d
        BY <1>1, <3>1
      <3>5. QED
        BY <3>2, <3>3, <3>4
    <2>3. QED
      BY <2>1, <2>2, <1>1, <1>2
  <1>5. QED
    BY <1>4, Zenon DEF HoldsAround
-----------------------------------------------------------------------------
InputAt(q, this, next, stop, a, n, b, row, gm) ==
  /\ this = q.prep.this_row_group /\ next = q.prep.next_buf_row /\ a = 2 * MaxV + next - stop
  /\ n = Least(q.prep.next_buf_stop - q.prep.next_buf_row, call.lines - q.row_ctr)
  /\ row = next_scanline + q.row_ctr /\ n \in Nat \ {0} /\ next + n <= stop /\ b = a + n
  /\ row = gm + a /\ row + n <= J.height /\ gm \in Nat

LEMMA ContextInputData ==
  ASSUME Shape, context_rows, NEW q, DOMAIN q.prep = PrepFields, HasRows(q.prep.buf),
         NEW this, NEW next, NEW stop, NEW a, NEW n, NEW b, NEW row, NEW gm,
         InputAt(q, this, next, stop, a, n, b, row, gm), RingAt(this, stop, next),
         RingHolds(q.prep, gm, a), NEW p, p = ContextInput(q)
  PROVE  /\ HasRows(p.buf) /\ p.this_row_group = this
         /\ HoldsAround(p.buf, this, gm, b)
  <1> /\ this = q.prep.this_row_group /\ next = q.prep.next_buf_row /\ a = 2 * MaxV + next - stop
      /\ n = Least(q.prep.next_buf_stop - q.prep.next_buf_row, call.lines - q.row_ctr)
      /\ row = next_scanline + q.row_ctr /\ n \in Nat \ {0} /\ next + n <= stop /\ b = a + n
      /\ row = gm + a /\ row + n <= J.height /\ gm \in Nat
    BY Zenon DEF InputAt
  <1> DEFINE got == Convert(q.prep, next_scanline + q.row_ctr, n)
             top == {RowPointer(-r) : r \in 1 .. MaxV}
             buf == [i \in DOMAIN got.buf |-> IF i \in top THEN got.buf[0] ELSE got.buf[i]]
  <1>1. p = IF q.prep.rows_to_go # J.height THEN got ELSE [got EXCEPT !.buf = buf]
    BY Zenon DEF ContextInput
  <1>2. got = Convert(q.prep, row, n)
    OBVIOUS
  <1> HIDE DEF got, buf
  <1>3. /\ DOMAIN got = PrepFields
        /\ got.this_row_group = this /\ DOMAIN got.buf = DOMAIN q.prep.buf
        /\ \A i \in DOMAIN q.prep.buf :
             /\ i \in next .. next + n - 1 => got.buf[i] = row + i - next
             /\ i \notin next .. next + n - 1 => got.buf[i] = q.prep.buf[i]
    <2>1. DOMAIN got = PrepFields
      BY <1>2, ConvertIs
    <2>2. /\ got.this_row_group = q.prep.this_row_group /\ DOMAIN got.buf = DOMAIN q.prep.buf
          /\ \A i \in DOMAIN q.prep.buf :
             /\ i \in q.prep.next_buf_row .. q.prep.next_buf_row + n - 1 =>
                  got.buf[i] = row + i - q.prep.next_buf_row
             /\ i \notin q.prep.next_buf_row .. q.prep.next_buf_row + n - 1 => got.buf[i] = q.prep.buf[i]
      BY <1>2, ConvertBuf
    <2>3. QED
      BY <2>1, <2>2
  <1>4. HasRows(got.buf) /\ DOMAIN q.prep.buf = 0 .. 3 * MaxV - 1
    BY <1>3, Zenon DEF HasRows
  <1>5. /\ a \in 0 .. 2 * MaxV - 1 /\ stop \in {MaxV, 2 * MaxV, 3 * MaxV}
        /\ \A k \in 0 .. (stop - next) - 1 :
             RowPointer(this + (a + k)) = next + k /\ next + k \in 0 .. 3 * MaxV - 1
    BY RingPlaces
  <1>6. MaxV \in Nat \ {0} /\ J.height \in Nat \ {0}
    BY SizesAre, Zenon
  <1>7. stop \in Nat /\ next \in Nat
    BY <1>5, <1>6 DEF RingAt
  <1>8. ASSUME NEW k \in 0 .. n - 1 PROVE got.buf[next + k] = gm + a + k /\ gm + a + k = Clip(gm + a + k)
    <2>1. next + k \in 0 .. 3 * MaxV - 1 /\ next + k \in next .. next + n - 1
      <3>1. k \in 0 .. (stop - next) - 1 /\ k \in Nat
        BY <1>7
      <3>2. next + k \in 0 .. 3 * MaxV - 1
        BY <1>5, <3>1
      <3>3. QED
        BY <1>7, <3>1, <3>2
    <2>2. got.buf[next + k] = row + (next + k) - next
      BY <1>3, <1>4, <2>1
    <2>3. row + (next + k) - next = gm + a + k
      BY <1>5, <1>6, <1>7
    <2>4. gm + a + k \in Int /\ ~(gm + a + k < 0) /\ gm + a + k < J.height
      BY <1>5, <1>6
    <2>5. Clip(gm + a + k) = gm + a + k
      BY <2>4, ClipIs
    <2>6. QED
      BY <2>2, <2>3, <2>5
  <1>9. CASE q.prep.rows_to_go # J.height
    <2>1. p = got
      BY <1>1, <1>9
    <2>2. HoldsAround(q.prep.buf, this, gm, a)
      BY <1>9 DEF RingHolds
    <2>3. \A i \in 0 .. 3 * MaxV - 1 : i \notin next .. (next + n) - 1 => got.buf[i] = q.prep.buf[i]
      <3>1. next + n - 1 = (next + n) - 1
        BY <1>7
      <3>2. QED
        BY <1>3, <1>4, <3>1, Zenon
    <2>4. \A k \in 0 .. n - 1 : got.buf[next + k] = Clip(gm + a + k)
      BY <1>8
    <2>5. Came(q.prep.buf, got.buf, next, n, gm + a)
      BY <2>3, <2>4, Zenon DEF Came
    <2>6. HoldsAround(got.buf, this, gm, a + n)
      BY <2>2, <2>5, RingFilled
    <2>7. QED
      BY <1>3, <1>4, <2>1, <2>6
  <1>10. CASE q.prep.rows_to_go = J.height
    <2>1. p = [got EXCEPT !.buf = buf] /\ next = 0 /\ this = 0 /\ gm = 0 /\ stop = 2 * MaxV /\ a = 0
      <3>1. p = [got EXCEPT !.buf = buf] /\ next = 0 /\ this = 0 /\ gm = 0
        BY <1>1, <1>10 DEF RingHolds
      <3>2. stop = 2 * MaxV
        BY <1>6, <3>1 DEF RingAt
      <3>3. QED
        BY <1>6, <3>1, <3>2
    <2>2. p.this_row_group = this /\ p.buf = buf
      BY <1>3, <2>1 DEF PrepFields
    <2>3. HasRows(buf)
      BY <1>4, Zenon DEF HasRows, buf
    <2>4. \A i \in 0 .. 3 * MaxV - 1 : buf[i] = IF i \in top THEN got.buf[0] ELSE got.buf[i]
      <3>1. DOMAIN got.buf = 0 .. 3 * MaxV - 1
        BY <1>4, Zenon DEF HasRows
      <3>2. QED
        BY <3>1, Zenon DEF buf
    <2>5. \A i \in 0 .. 3 * MaxV - 1 : i \in top <=> i >= 2 * MaxV
      <3>1. \A r \in 1 .. MaxV : RowPointer(-r) = 3 * MaxV - r
        BY <1>6 DEF RowPointer
      <3>2. ASSUME NEW i \in 0 .. 3 * MaxV - 1, i \in top PROVE i >= 2 * MaxV
        <4>1. PICK r \in 1 .. MaxV : i = RowPointer(-r)
          BY <3>2
        <4>2. QED
          BY <1>6, <3>1, <4>1
      <3>3. ASSUME NEW i \in 0 .. 3 * MaxV - 1, i >= 2 * MaxV PROVE i \in top
        <4>1. 3 * MaxV - i \in 1 .. MaxV /\ i = 3 * MaxV - (3 * MaxV - i)
          BY <1>6, <3>3
        <4>2. i = RowPointer(-(3 * MaxV - i))
          BY <3>1, <4>1
        <4>3. QED
          BY <4>1, <4>2
      <3>4. QED
        BY <3>2, <3>3
    <2> HIDE DEF top
    <2>6. \A k \in 0 .. n - 1 : got.buf[k] = k /\ k = Clip(k)
      <3>1. ASSUME NEW k \in 0 .. n - 1 PROVE got.buf[k] = k /\ k = Clip(k)
        <4>1. next + k = k /\ gm + a + k = k
          BY <2>1
        <4>2. QED
          BY <1>8, <4>1
      <3>2. QED
        BY <3>1
    <2>7. ASSUME NEW d \in -MaxV .. (a + n) - 1 PROVE buf[RowPointer(this + d)] = Clip(gm + d)
      <3>1. d \in Int /\ d >= -MaxV /\ d < n /\ n <= 2 * MaxV /\ this + d = d /\ gm + d = d
        BY <1>6, <2>1
      <3>2. CASE d < 0
        <4>1. RowPointer(d) = d + 3 * MaxV /\ d + 3 * MaxV \in 0 .. 3 * MaxV - 1 /\ d + 3 * MaxV >= 2 * MaxV
          BY <1>6, <3>1, <3>2 DEF RowPointer
        <4>2. buf[RowPointer(d)] = got.buf[0]
          BY <2>4, <2>5, <4>1
        <4>3. got.buf[0] = 0
          <5>1. 0 \in 0 .. n - 1
            OBVIOUS
          <5>2. QED
            BY <2>6, <5>1
        <4>4. Clip(d) = 0
          BY <3>1, <3>2, ClipIs
        <4>5. QED
          BY <3>1, <4>2, <4>3, <4>4
      <3>3. CASE ~(d < 0)
        <4>1. RowPointer(d) = d /\ d \in 0 .. 3 * MaxV - 1 /\ ~(d >= 2 * MaxV) /\ d \in 0 .. n - 1
          <5>1. d \in 0 .. n - 1
            BY <3>1, <3>3
          <5>2. ~(d >= 2 * MaxV) /\ d \in 0 .. 3 * MaxV - 1
            BY <1>6, <3>1, <3>3
          <5>3. RowPointer(d) = d
            BY <1>6, <3>1, <3>3, <5>2 DEF RowPointer
          <5>4. QED
            BY <5>1, <5>2, <5>3
        <4>2. buf[d] = got.buf[d]
          BY <2>4, <2>5, <4>1
        <4>3. QED
          BY <2>6, <3>1, <4>1, <4>2
      <3>4. QED
        BY <3>2, <3>3
    <2>8. HoldsAround(buf, this, gm, a + n)
      BY <2>7, Zenon DEF HoldsAround
    <2>9. QED
      BY <2>2, <2>3, <2>8
  <1>11. QED
    BY <1>9, <1>10
(* The rows of the ring that no line is left for repeat the last line.      *)
LEMMA ExpandData ==
  ASSUME Shape, context_rows, NEW p, DOMAIN p = PrepFields, HasRows(p.buf),
         NEW this, this = p.this_row_group, NEW next, next = p.next_buf_row,
         NEW stop, stop = p.next_buf_stop, RingAt(this, stop, next),
         NEW a, a = 2 * MaxV + next - stop, NEW gm \in Nat, HoldsAround(p.buf, this, gm, a),
         gm + a >= J.height, NEW e, e = Expand(p, next, stop)
  PROVE  HasRows(e.buf) /\ e.this_row_group = this /\ HoldsAround(e.buf, this, gm, 2 * MaxV)
  <1>1. /\ e.this_row_group = this /\ DOMAIN e.buf = DOMAIN p.buf
        /\ \A i \in DOMAIN p.buf :
             /\ i \in next .. stop - 1 => e.buf[i] = p.buf[RowPointer(next - 1)]
             /\ i \notin next .. stop - 1 => e.buf[i] = p.buf[i]
    BY ExpandBuf
  <1>2. HasRows(e.buf) /\ DOMAIN p.buf = 0 .. 3 * MaxV - 1
    BY <1>1, Zenon DEF HasRows
  <1>3. /\ a \in 0 .. 2 * MaxV - 1 /\ stop \in {MaxV, 2 * MaxV, 3 * MaxV}
        /\ \A k \in 0 .. (stop - next) - 1 :
             RowPointer(this + (a + k)) = next + k /\ next + k \in 0 .. 3 * MaxV - 1
        /\ RowPointer(next - 1) = RowPointer(this + (a - 1))
    BY RingPlaces
  <1>4. MaxV \in Nat \ {0} /\ J.height \in Nat \ {0}
    BY SizesAre, Zenon
  <1>5. stop \in Nat /\ next \in Nat /\ next < stop
    BY <1>3, <1>4 DEF RingAt
  <1>6. p.buf[RowPointer(next - 1)] = J.height - 1
    <2>1. a - 1 \in -MaxV .. a - 1
      BY <1>3, <1>4
    <2>2. p.buf[RowPointer(this + (a - 1))] = Clip(gm + (a - 1))
      BY <2>1, Zenon DEF HoldsAround
    <2>3. gm + (a - 1) \in Int /\ ~(gm + (a - 1) < J.height - 1) /\ gm + (a - 1) >= 0
      BY <1>3, <1>4
    <2>4. Clip(gm + (a - 1)) = J.height - 1
      <3> DEFINE x == gm + (a - 1)
      <3>1. x \in Int /\ ~(x < J.height - 1) /\ x >= 0
        BY <2>3
      <3> HIDE DEF x
      <3>2. Clip(x) = J.height - 1
        BY <1>4, <3>1, ClipIs
      <3>3. QED
        BY <3>2 DEF x
    <2>5. QED
      BY <1>3, <2>2, <2>4
  <1>7. ASSUME NEW k \in 0 .. (stop - next) - 1 PROVE e.buf[next + k] = Clip(gm + a + k)
    <2>1. next + k \in 0 .. 3 * MaxV - 1 /\ next + k \in next .. stop - 1
      <3>1. next + k \in 0 .. 3 * MaxV - 1
        BY <1>3
      <3>2. QED
        BY <1>5, <3>1
    <2>2. e.buf[next + k] = J.height - 1
      BY <1>1, <1>2, <1>6, <2>1
    <2> DEFINE x == gm + a + k
    <2>3. x \in Int /\ ~(x < 0) /\ ~(x < J.height)
      BY <1>3, <1>4, <1>5
    <2> HIDE DEF x
    <2>4. Clip(x) = J.height - 1
      BY <1>4, <2>3, ClipIs
    <2>5. QED
      BY <2>2, <2>4 DEF x
  <1>8. \A i \in 0 .. 3 * MaxV - 1 :
          i \notin next .. (next + (stop - next)) - 1 => e.buf[i] = p.buf[i]
    <2>1. (next + (stop - next)) - 1 = stop - 1
      BY <1>5
    <2>2. QED
      BY <1>1, <1>2, <2>1, Zenon
  <1>9. Came(p.buf, e.buf, next, stop - next, gm + a)
    BY <1>7, <1>8, Zenon DEF Came
  <1>10. stop - next \in Nat /\ next + (stop - next) <= stop /\ a + (stop - next) = 2 * MaxV
    BY <1>3, <1>4, <1>5
  <1>11. HoldsAround(e.buf, this, gm, a + (stop - next))
    BY <1>9, <1>10, RingFilled
  <1>12. QED
    BY <1>1, <1>2, <1>10, <1>11
-----------------------------------------------------------------------------
LEMMA ContextTurnRows ==
  ASSUME NEW q, DOMAIN q = {"prep", "out", "group", "row_ctr"}, DOMAIN q.prep = PrepFields, NEW p,
         p = IF q.row_ctr < call.lines THEN ContextInput(q)
             ELSE Expand(q.prep, q.prep.next_buf_row, q.prep.next_buf_stop),
         DOMAIN p = PrepFields, NEW r, r = ContextTurn(q)
  PROVE  IF p.next_buf_row < p.next_buf_stop
         THEN r.prep = p /\ r.group = q.group /\ r.out = q.out
         ELSE /\ r.group = q.group + 1 /\ r.prep.rows_to_go = p.rows_to_go
              /\ r.prep.next_buf_row = IF p.next_buf_row >= 3 * MaxV THEN 0 ELSE p.next_buf_row
              /\ r.prep.next_buf_stop = r.prep.next_buf_row + MaxV
              /\ r.prep.buf = p.buf
              /\ r.prep.this_row_group = (p.this_row_group + MaxV) % (3 * MaxV)
              /\ r.out = Downsample(q.out, p.buf, p.this_row_group, q.group)
  <1> DEFINE rows == IF q.row_ctr < call.lines
                     THEN q.row_ctr + q.prep.rows_to_go - p.rows_to_go ELSE q.row_ctr
             next == IF p.next_buf_row >= 3 * MaxV THEN 0 ELSE p.next_buf_row
             out == Downsample(q.out, p.buf, p.this_row_group, q.group)
             g == (p.this_row_group + MaxV) % (3 * MaxV)
             new == [p EXCEPT !.this_row_group = g, !.next_buf_row = next, !.next_buf_stop = next + MaxV]
  <1>1. r = IF p.next_buf_row < p.next_buf_stop THEN [q EXCEPT !.prep = p, !.row_ctr = rows]
            ELSE [prep |-> new, row_ctr |-> rows, group |-> q.group + 1, out |-> out]
    BY Zenon DEF ContextTurn
  <1> HIDE DEF out, g, next, rows
  <1>2. /\ new.rows_to_go = p.rows_to_go /\ new.next_buf_row = next
        /\ new.next_buf_stop = next + MaxV /\ new.buf = p.buf /\ new.this_row_group = g
    BY DEF PrepFields
  <1> HIDE DEF new
  <1>3. CASE p.next_buf_row < p.next_buf_stop
    <2>1. r.prep = p /\ r.group = q.group /\ r.out = q.out
      BY <1>1, <1>3
    <2>2. QED
      BY <1>3, <2>1
  <1>4. CASE ~(p.next_buf_row < p.next_buf_stop)
    <2>1. r.prep = new /\ r.group = q.group + 1 /\ r.out = out
      BY <1>1, <1>4
    <2>2. QED
      BY <1>2, <1>4, <2>1 DEF g, next, out
  <1>5. QED
    BY <1>3, <1>4

(* The ring turns: the next row group has those of the rows around it that  *)
(* were there for the last one.                                             *)
LEMMA RingTurns ==
  ASSUME Shape, context_rows, NEW this, NEW stop, NEW next, RingAt(this, stop, next),
         NEW t, t = (this + MaxV) % (3 * MaxV), NEW n, n = (IF stop >= 3 * MaxV THEN 0 ELSE stop),
         NEW s, s = n + MaxV, NEW gm \in Nat, NEW buf, HoldsAround(buf, this, gm, 2 * MaxV)
  PROVE  RingAt(t, s, n) /\ 2 * MaxV + n - s = MaxV /\ HoldsAround(buf, t, gm + MaxV, MaxV)
  <1> DEFINE m == MaxV
  <1>1. m \in Nat \ {0} /\ t = (this + m) % (3 * m) /\ n = (IF stop >= 3 * m THEN 0 ELSE stop) /\ s = n + m
    BY SizesAre, Zenon
  <1>2. this \in {0, m, 2 * m} /\ stop = (IF this = 2 * m THEN m ELSE this + 2 * m)
    BY DEF RingAt
  <1> HIDE DEF m
  <1>3. t = (IF this = 2 * m THEN 0 ELSE this + m)
    <2>1. CASE this = 2 * m
      <3>1. this + m = 1 * (3 * m) + 0 /\ this + m \in Nat /\ 3 * m \in Nat \ {0} /\ 0 \in 0 .. (3 * m) - 1
        BY <1>1, <2>1
      <3>2. (this + m) % (3 * m) = 0
        BY <3>1, DivisionUnique
      <3>3. QED
        BY <1>1, <2>1, <3>2
    <2>2. CASE this # 2 * m
      <3>1. /\ this + m = 0 * (3 * m) + (this + m) /\ this + m \in Nat /\ 3 * m \in Nat \ {0}
            /\ this + m \in 0 .. (3 * m) - 1
        BY <1>1, <1>2, <2>2
      <3>2. (this + m) % (3 * m) = this + m
        BY <3>1, DivisionUnique
      <3>3. QED
        BY <1>1, <2>2, <3>2
    <2>3. QED
      BY <2>1, <2>2
  <1>4. /\ t \in {0, m, 2 * m} /\ s = (IF t = 2 * m THEN m ELSE t + 2 * m)
        /\ n \in Nat /\ n < s /\ n + 2 * m >= s /\ 2 * m + n - s = m
    <2>1. CASE this = 0
      <3>1. stop = 2 * m /\ n = 2 * m /\ s = 3 * m /\ t = m
        BY <1>1, <1>2, <1>3, <2>1
      <3>2. QED
        BY <1>1, <3>1
    <2>2. CASE this = m
      <3>1. stop = 3 * m /\ n = 0 /\ s = m /\ t = 2 * m
        BY <1>1, <1>2, <1>3, <2>2
      <3>2. QED
        BY <1>1, <3>1
    <2>3. CASE this = 2 * m
      <3>1. stop = m /\ n = m /\ s = 2 * m /\ t = 0
        BY <1>1, <1>2, <1>3, <2>3
      <3>2. QED
        BY <1>1, <3>1
    <2>4. QED
      BY <1>2, <2>1, <2>2, <2>3
  <1>5. RingAt(t, s, n) /\ 2 * MaxV + n - s = MaxV
    BY <1>4 DEF RingAt, m
  <1>6. ASSUME NEW d \in -m .. m - 1 PROVE buf[RowPointer(t + d)] = Clip(gm + m + d)
    <2>1. m + d \in -m .. (2 * m) - 1
      BY <1>1
    <2>2. buf[RowPointer(this + (m + d))] = Clip(gm + (m + d))
      BY <2>1, Zenon DEF HoldsAround, m
    <2>3. RowPointer(this + (m + d)) = RowPointer(t + d)
      <3>1. CASE this = 2 * m
        <4>1. this + (m + d) = 3 * m + d /\ t + d = d
          BY <1>1, <1>3, <3>1
        <4>2. RowPointer(3 * m + d) = RowPointer(d)
          BY <1>1 DEF RowPointer, m
        <4>3. QED
          BY <4>1, <4>2
      <3>2. CASE this # 2 * m
        <4>1. this + (m + d) = t + d
          BY <1>1, <1>2, <1>3, <3>2
        <4>2. QED
          BY <4>1
      <3>3. QED
        BY <3>1, <3>2
    <2>4. gm + (m + d) = gm + m + d
      BY <1>1
    <2>5. QED
      BY <2>2, <2>3, <2>4
  <1>7. HoldsAround(buf, t, gm + MaxV, MaxV)
    BY <1>6, Zenon DEF HoldsAround, m
  <1>8. QED
    BY <1>5, <1>7

(* One turn of pre_process_context, its rows converted or expanded.         *)
ContextPrep(q) == IF q.row_ctr < call.lines THEN ContextInput(q)
                  ELSE Expand(q.prep, q.prep.next_buf_row, q.prep.next_buf_stop)
PrepComes(p, this, next, stop, gm) ==
  /\ DOMAIN p = PrepFields /\ HasRows(p.buf) /\ p.this_row_group = this
  /\ p.next_buf_stop = stop /\ p.next_buf_row \in Nat /\ next <= p.next_buf_row
  /\ p.next_buf_row <= stop /\ p.rows_to_go # J.height
  /\ HoldsAround(p.buf, this, gm, 2 * MaxV + p.next_buf_row - stop)
  /\ p.rows_to_go = 0 => gm + (2 * MaxV + p.next_buf_row - stop) >= J.height
TurnAt(q, this, next, stop, a, gm, rtg, rows) ==
  /\ this = q.prep.this_row_group /\ next = q.prep.next_buf_row /\ stop = q.prep.next_buf_stop
  /\ a = 2 * MaxV + next - stop /\ gm \in Nat /\ rtg \in 0 .. J.height /\ rtg = q.prep.rows_to_go
  /\ rows \in Nat /\ rows = q.row_ctr /\ J.height - rtg = next_scanline + rows
  /\ call.lines \in Nat /\ next_scanline \in Nat /\ next_scanline + call.lines <= J.height
  /\ rtg > 0 => J.height - rtg = gm + a
  /\ rtg = 0 => gm + a >= J.height
  /\ rows < call.lines \/ rtg = 0

LEMMA ContextComes ==
  ASSUME Shape, context_rows, NEW q, DOMAIN q.prep = PrepFields, HasRows(q.prep.buf),
         NEW this, NEW next, NEW stop, RingAt(this, stop, next), NEW a, NEW gm,
         RingHolds(q.prep, gm, a), NEW rtg, NEW rows,
         TurnAt(q, this, next, stop, a, gm, rtg, rows),
         NEW p, p = ContextPrep(q)
  PROVE  PrepComes(p, this, next, stop, gm)
  <1>0. /\ this = q.prep.this_row_group /\ next = q.prep.next_buf_row /\ stop = q.prep.next_buf_stop
        /\ a = 2 * MaxV + next - stop /\ gm \in Nat /\ rtg \in 0 .. J.height /\ rtg = q.prep.rows_to_go
        /\ rows \in Nat /\ rows = q.row_ctr /\ J.height - rtg = next_scanline + rows
        /\ call.lines \in Nat /\ next_scanline \in Nat /\ next_scanline + call.lines <= J.height
        /\ rtg > 0 => J.height - rtg = gm + a
        /\ rtg = 0 => gm + a >= J.height
        /\ rows < call.lines \/ rtg = 0
    BY Zenon DEF TurnAt
  <1>1. MaxV \in Nat \ {0} /\ J.height \in Nat \ {0}
    BY SizesAre, Zenon
  <1>2. stop \in {MaxV, 2 * MaxV, 3 * MaxV} /\ a \in 0 .. 2 * MaxV - 1
    BY <1>0, RingPlaces
  <1>3. stop \in Nat /\ next \in Nat /\ next < stop
    BY <1>0, <1>1, <1>2 DEF RingAt
  <1>4. CASE rows < call.lines
    <2> DEFINE n == Least(q.prep.next_buf_stop - q.prep.next_buf_row, call.lines - q.row_ctr)
    <2>1. n = Least(stop - next, call.lines - rows)
      BY <1>0, Zenon
    <2>2. n \in Nat \ {0} /\ next + n <= stop /\ rows + n <= call.lines
      BY <1>0, <1>3, <1>4, <2>1 DEF Least
    <2>3. p = ContextInput(q)
      BY <1>0, <1>4 DEF ContextPrep
    <2> HIDE DEF n
    <2>4. n = Least(q.prep.next_buf_stop - q.prep.next_buf_row, call.lines - q.row_ctr)
      BY DEF n
    <2> DEFINE row == next_scanline + q.row_ctr
    <2>5. row = next_scanline + rows /\ rtg > 0 /\ row = gm + a /\ row + n <= J.height /\ rtg >= n
      BY <1>0, <1>1, <1>4, <2>2
    <2>6. HasRows(p.buf) /\ p.this_row_group = this /\ HoldsAround(p.buf, this, gm, a + n)
      <3>1. row = next_scanline + q.row_ctr
        OBVIOUS
      <3> HIDE DEF row
      <3> DEFINE b == a + n
      <3>2. InputAt(q, this, next, stop, a, n, b, row, gm)
        BY <1>0, <2>2, <2>4, <2>5, <3>1, Zenon DEF InputAt
      <3> HIDE DEF b
      <3>3. HasRows(p.buf) /\ p.this_row_group = this /\ HoldsAround(p.buf, this, gm, b)
        BY <2>3, <3>2, ContextInputData, Zenon
      <3>4. QED
        BY <3>3, Zenon DEF b
    <2>7. /\ DOMAIN p = PrepFields /\ p.rows_to_go = rtg - n
          /\ p.next_buf_row = next + n /\ p.next_buf_stop = stop
      BY <1>0, <2>3, <2>4, ContextInputIs
    <2> HIDE DEF row
    <2>8. a + n = 2 * MaxV + p.next_buf_row - stop
      BY <1>0, <1>1, <1>3, <2>2, <2>7
    <2>9. p.rows_to_go # J.height
      BY <1>0, <1>1, <2>2, <2>7
    <2>10. p.rows_to_go = 0 => gm + (2 * MaxV + p.next_buf_row - stop) >= J.height
      <3>1. p.rows_to_go = 0 => gm + (a + n) >= J.height
        BY <1>0, <1>1, <1>2, <2>2, <2>5, <2>7
      <3>2. QED
        BY <2>8, <3>1
    <2>11. p.next_buf_row \in Nat /\ next <= p.next_buf_row /\ p.next_buf_row <= stop
      BY <1>3, <2>2, <2>7
    <2>12. HoldsAround(p.buf, this, gm, 2 * MaxV + p.next_buf_row - stop)
      BY <2>6, <2>8, Zenon
    <2>13. QED
      BY <2>6, <2>7, <2>9, <2>10, <2>11, <2>12, Zenon DEF PrepComes
  <1>5. CASE ~(rows < call.lines)
    <2>1. p = Expand(q.prep, next, stop)
      BY <1>0, <1>5 DEF ContextPrep
    <2>2. rtg = 0 /\ gm + a >= J.height /\ rtg # J.height
      BY <1>0, <1>1, <1>5
    <2>3. HoldsAround(q.prep.buf, this, gm, a)
      BY <1>0, <2>2, Zenon DEF RingHolds
    <2>4. HasRows(p.buf) /\ p.this_row_group = this /\ HoldsAround(p.buf, this, gm, 2 * MaxV)
      BY <1>0, <2>1, <2>2, <2>3, ExpandData
    <2>5. /\ DOMAIN p = PrepFields /\ p.rows_to_go = rtg
          /\ p.next_buf_row = stop /\ p.next_buf_stop = stop
      BY <1>0, <2>1, ExpandIs
    <2>6. 2 * MaxV + p.next_buf_row - stop = 2 * MaxV
      BY <1>1, <1>3, <2>5
    <2>7. gm + (2 * MaxV + p.next_buf_row - stop) >= J.height
      <3>1. gm + 2 * MaxV >= J.height
        BY <1>0, <1>1, <1>2, <2>2
      <3>2. QED
        BY <2>6, <3>1
    <2>8. p.next_buf_row \in Nat /\ next <= p.next_buf_row /\ p.next_buf_row <= stop
      BY <1>3, <2>5
    <2>9. HoldsAround(p.buf, this, gm, 2 * MaxV + p.next_buf_row - stop)
      BY <2>4, <2>6, Zenon
    <2>10. QED
      BY <2>2, <2>4, <2>5, <2>7, <2>8, <2>9, Zenon DEF PrepComes
  <1>6. QED
    BY <1>4, <1>5

(* The whole turn: what is in the ring, and in the main buffer.             *)
LEMMA ContextData ==
  ASSUME Shape, J.input = "lines", context_rows, NEW q, DOMAIN q = {"prep", "out", "group", "row_ctr"},
         DOMAIN q.prep = PrepFields, HasRows(q.prep.buf), NEW cur \in Nat,
         NEW grp \in 0 .. DCTSIZE - 1, grp = q.group, NEW gm, gm = (cur * DCTSIZE + grp) * MaxV,
         NEW this, NEW next, NEW stop, RingAt(this, stop, next), NEW a,
         RingHolds(q.prep, gm, a), NEW rtg, NEW rows,
         TurnAt(q, this, next, stop, a, gm, rtg, rows),
         HasLines(q.out, cur, grp), NEW r, r = ContextTurn(q),
         NEW gm2, gm2 = (cur * DCTSIZE + r.group) * MaxV,
         NEW a2, a2 = 2 * MaxV + r.prep.next_buf_row - r.prep.next_buf_stop
  PROVE  /\ HasRows(r.prep.buf) /\ HasLines(r.out, cur, r.group)
         /\ RingAt(r.prep.this_row_group, r.prep.next_buf_stop, r.prep.next_buf_row)
         /\ RingHolds(r.prep, gm2, a2)
         /\ r.prep.rows_to_go = 0 => gm2 + a2 >= J.height
  <1> DEFINE p == ContextPrep(q)
  <1>0. /\ this = q.prep.this_row_group /\ next = q.prep.next_buf_row /\ stop = q.prep.next_buf_stop
        /\ a = 2 * MaxV + next - stop /\ gm \in Nat
    BY Zenon DEF TurnAt
  <1>1. MaxV \in Nat \ {0} /\ J.height \in Nat \ {0} /\ DCTSIZE \in Nat \ {0}
    BY SizesAre, Zenon
  <1>2. p = ContextPrep(q)
    OBVIOUS
  <1> HIDE DEF p
  <1>3. /\ DOMAIN p = PrepFields /\ HasRows(p.buf) /\ p.this_row_group = this
        /\ p.next_buf_stop = stop /\ p.next_buf_row \in Nat /\ next <= p.next_buf_row
        /\ p.next_buf_row <= stop
        /\ p.rows_to_go # J.height
        /\ HoldsAround(p.buf, this, gm, 2 * MaxV + p.next_buf_row - stop)
        /\ p.rows_to_go = 0 => gm + (2 * MaxV + p.next_buf_row - stop) >= J.height
    <2>1. PrepComes(p, this, next, stop, gm)
      BY <1>2, ContextComes, Zenon
    <2>2. QED
      BY <2>1, Zenon DEF PrepComes
  <1>4. stop \in {MaxV, 2 * MaxV, 3 * MaxV}
    BY <1>0, RingPlaces
  <1>5. stop \in Nat /\ next \in Nat
    BY <1>0, <1>1, <1>4 DEF RingAt
  <1>6. IF p.next_buf_row < p.next_buf_stop
        THEN r.prep = p /\ r.group = q.group /\ r.out = q.out
        ELSE /\ r.group = q.group + 1 /\ r.prep.rows_to_go = p.rows_to_go
             /\ r.prep.next_buf_row = IF p.next_buf_row >= 3 * MaxV THEN 0 ELSE p.next_buf_row
             /\ r.prep.next_buf_stop = r.prep.next_buf_row + MaxV
             /\ r.prep.buf = p.buf
             /\ r.prep.this_row_group = (p.this_row_group + MaxV) % (3 * MaxV)
             /\ r.out = Downsample(q.out, p.buf, p.this_row_group, q.group)
    BY <1>2, <1>3, ContextTurnRows DEF ContextPrep
  <1>7. CASE p.next_buf_row < stop
    <2>1. r.prep = p /\ r.group = grp /\ r.out = q.out
      BY <1>3, <1>6, <1>7
    <2>2. gm2 = gm /\ a2 = 2 * MaxV + p.next_buf_row - stop
      BY <1>3, <2>1
    <2>3. RingAt(this, stop, p.next_buf_row)
      <3>1. p.next_buf_row + 2 * MaxV >= stop
        BY <1>1, <1>3, <1>5 DEF RingAt
      <3>2. QED
        BY <1>3, <1>7, <3>1 DEF RingAt
    <2>4. RingHolds(p, gm2, a2)
      BY <1>3, <2>2, Zenon DEF RingHolds
    <2>5. p.rows_to_go = 0 => gm2 + a2 >= J.height
      BY <1>3, <2>2, Zenon
    <2>6. HasLines(r.out, cur, r.group)
      BY <2>1, Zenon
    <2>7. QED
      BY <1>3, <2>1, <2>3, <2>4, <2>5, <2>6, Zenon
  <1>8. CASE ~(p.next_buf_row < stop)
    <2>1. p.next_buf_row = stop
      BY <1>3, <1>5, <1>8
    <2>2. /\ r.group = grp + 1 /\ r.prep.rows_to_go = p.rows_to_go
          /\ r.prep.next_buf_row = IF stop >= 3 * MaxV THEN 0 ELSE stop
          /\ r.prep.next_buf_stop = r.prep.next_buf_row + MaxV
          /\ r.prep.buf = p.buf
          /\ r.prep.this_row_group = (this + MaxV) % (3 * MaxV)
          /\ r.out = Downsample(q.out, p.buf, this, q.group)
      BY <1>3, <1>6, <2>1
    <2>3. HoldsAround(p.buf, this, gm, 2 * MaxV)
      <3>1. 2 * MaxV + p.next_buf_row - stop = 2 * MaxV
        BY <1>1, <1>5, <2>1
      <3>2. QED
        BY <1>3, <3>1, Zenon
    <2>4. p.rows_to_go = 0 => gm + 2 * MaxV >= J.height
      BY <1>1, <1>3, <1>5, <2>1
    <2>5. /\ RingAt(r.prep.this_row_group, r.prep.next_buf_stop, r.prep.next_buf_row)
          /\ 2 * MaxV + r.prep.next_buf_row - r.prep.next_buf_stop = MaxV
          /\ HoldsAround(p.buf, r.prep.this_row_group, gm + MaxV, MaxV)
      <3>1. /\ r.prep.this_row_group = (this + MaxV) % (3 * MaxV)
            /\ r.prep.next_buf_row = (IF stop >= 3 * MaxV THEN 0 ELSE stop)
            /\ r.prep.next_buf_stop = r.prep.next_buf_row + MaxV
        BY <2>2
      <3> DEFINE t == r.prep.this_row_group
                 n == r.prep.next_buf_row
                 s == r.prep.next_buf_stop
                 buf == p.buf
      <3>2. t = (this + MaxV) % (3 * MaxV) /\ n = (IF stop >= 3 * MaxV THEN 0 ELSE stop) /\ s = n + MaxV
            /\ HoldsAround(buf, this, gm, 2 * MaxV)
        BY <2>3, <3>1
      <3> HIDE DEF t, n, s, buf
      <3>3. RingAt(t, s, n) /\ 2 * MaxV + n - s = MaxV /\ HoldsAround(buf, t, gm + MaxV, MaxV)
        BY <1>0, <3>2, RingTurns
      <3>4. QED
        BY <3>3 DEF t, n, s, buf
    <2>6. a2 = MaxV /\ gm2 = gm + MaxV
      <3> DEFINE cd == cur * DCTSIZE
      <3>1. cd \in Nat
        BY <1>1
      <3>2. gm2 = (cd + (grp + 1)) * MaxV /\ gm = (cd + grp) * MaxV
        BY <2>2
      <3> HIDE DEF cd
      <3>3. gm2 = gm + MaxV
        BY <1>1, <3>1, <3>2
      <3>4. QED
        BY <2>5, <3>3
    <2>7. RingHolds(r.prep, gm2, a2)
      <3>1. r.prep.rows_to_go # J.height
        BY <1>3, <2>2
      <3>2. HoldsAround(r.prep.buf, r.prep.this_row_group, gm2, a2)
        BY <2>2, <2>5, <2>6, Zenon
      <3>3. QED
        BY <3>1, <3>2, Zenon DEF RingHolds
    <2>8. r.prep.rows_to_go = 0 => gm2 + a2 >= J.height
      <3>1. p.rows_to_go = 0 => gm + MaxV + MaxV >= J.height
        BY <1>1, <2>4
      <3>2. QED
        BY <2>2, <2>6, <3>1, Zenon
    <2>9. HasLines(r.out, cur, r.group)
      <3> DEFINE G == cur * DCTSIZE + grp
      <3>1. G \in Nat /\ gm = G * MaxV
        BY <1>1
      <3>2. this \in Nat
        BY <1>1 DEF RingAt
      <3> HIDE DEF G
      <3>3. HoldsAround(p.buf, this, G * MaxV, 2 * MaxV)
        BY <2>3, <3>1, Zenon
      <3>4. ASSUME NEW c \in Comps, NEW j \in 0 .. v(c) - 1
            PROVE  DownRow(p.buf, c, this, j) = Line(c, G * v(c) + j)
        BY <3>1, <3>2, <3>3, ContextRow
      <3>5. Downsampled(p.buf, this, cur * DCTSIZE + grp)
        BY <3>4, Zenon DEF Downsampled, G
      <3> DEFINE out == r.out
      <3>6. out = Downsample(q.out, p.buf, this, grp)
        BY <2>2
      <3> HIDE DEF out
      <3>7. HasLines(out, cur, grp + 1)
        BY <3>5, <3>6, DownsampleIs
      <3>8. QED
        BY <2>2, <3>7, Zenon DEF out
    <2>10. HasRows(r.prep.buf)
      BY <1>3, <2>2, Zenon
    <2>11. QED
      BY <2>5, <2>7, <2>8, <2>9, <2>10, Zenon
  <1>9. QED
    BY <1>7, <1>8
-----------------------------------------------------------------------------
(* What the ring and the main buffer should hold depends on the image alone.*)
LEMMA RowsKept ==
  ASSUME jobs' = jobs, job' = job
  PROVE  /\ HasRows(prep.buf)' <=> HasRows(prep'.buf)
         /\ RingAt(prep.this_row_group, prep.next_buf_stop, prep.next_buf_row)' <=>
              RingAt(prep'.this_row_group, prep'.next_buf_stop, prep'.next_buf_row)
         /\ RingHolds(prep, Groups * MaxV, Ahead)' <=> RingHolds(prep', Groups' * MaxV, Ahead')
         /\ HasLines(main.buffer, coef.iMCU_row_num, Ready)' <=>
              HasLines(main'.buffer, coef'.iMCU_row_num, Ready')
  <1>1. J' = J /\ MaxV' = MaxV
    BY ImageKept, Zenon
  <1>2. Comps' = Comps /\ \A c : h(c)' = h(c) /\ v(c)' = v(c)
    BY ShapesKept
  <1>3. /\ \A i : RowPointer(i)' = RowPointer(i)
        /\ \A r : Clip(r)' = Clip(r)
        /\ \A c, j : Line(c, j)' = Line(c, j)
    BY ShapesKept, LinesKept
  <1>4. HasRows(prep.buf)' <=> HasRows(prep'.buf)
    BY <1>1, Zenon DEF HasRows
  <1>5. RingAt(prep.this_row_group, prep.next_buf_stop, prep.next_buf_row)' <=>
          RingAt(prep'.this_row_group, prep'.next_buf_stop, prep'.next_buf_row)
    BY <1>1, Zenon DEF RingAt
  <1>6. RingHolds(prep, Groups * MaxV, Ahead)' <=> RingHolds(prep', Groups' * MaxV, Ahead')
    BY <1>1, <1>3, Zenon DEF RingHolds, HoldsAround
  <1>7. HasLines(main.buffer, coef.iMCU_row_num, Ready)' <=>
          HasLines(main'.buffer, coef'.iMCU_row_num, Ready')
    BY <1>2, <1>3, Zenon DEF HasLines
  <1>8. QED
    BY <1>4, <1>5, <1>6, <1>7

(* A turn of the preprocessor.                                              *)
LEMMA PreprocessData ==
  ASSUME IInv, CourseInv, InputInv, RingInv, BufferInv, Preprocess PROVE RingInv' /\ BufferInv'
  <1> DEFINE q == [prep |-> prep, out |-> main.buffer, group |-> main.rowgroup_ctr,
                   row_ctr |-> call.row_ctr]
             r == IF context_rows THEN ContextTurn(q) ELSE SimpleTurn(q)
             cur == main.cur_iMCU_row
             grp == main.rowgroup_ctr
             gm == (cur * DCTSIZE + grp) * MaxV
             rtg == prep.rows_to_go
             nbr == prep.next_buf_row
             stop == prep.next_buf_stop
             this == prep.this_row_group
             row == call.row_ctr
  <1>0. Course /\ Shape
    BY Zenon DEF CourseInv, IInv
  <1>1. /\ prep' = r.prep
        /\ main' = [main EXCEPT !.buffer = r.out, !.rowgroup_ctr = r.group]
        /\ call' = [call EXCEPT !.row_ctr = r.row_ctr]
    BY Zenon DEF Preprocess
  <1>2. /\ jobs' = jobs /\ job' = job /\ global_state' = global_state
        /\ next_scanline' = next_scanline /\ coef' = coef
        /\ call.at = "prep" /\ MoreRows
    BY Zenon DEF Preprocess, others, written
  <1>3. Writing /\ ~Between /\ ~Startup /\ call # NoCall
    BY <1>0, <1>2, Running DEF Course
  <1>4. call.op = "lines" /\ CallTyped(call)
    BY <1>0, <1>2 DEF Course, CallInv, CallTyped
  <1>5. global_state = "SCANNING" /\ MainPass /\ J.input = "lines"
    BY <1>0, <1>3, <1>4 DEF Course, CallInv, MainPass, InputInv
  <1>6. /\ next_scanline \in Nat /\ MainTyped(main) /\ PrepTyped(prep)
        /\ next_scanline + call.row_ctr + (IF main.suspended THEN 1 ELSE 0) = Taken
        /\ coef.iMCU_row_num = main.cur_iMCU_row
        /\ call.lines > 0 /\ call.row_ctr <= call.lines
        /\ next_scanline + call.lines <= J.height
        /\ main.suspended => main.rowgroup_ctr = DCTSIZE /\ call.row_ctr = 0
    BY <1>0, <1>3, <1>4, <1>5, Zenon DEF Course, RowsInv
  <1>7. /\ context_rows /\ prep.rows_to_go > 0 =>
             Taken = (Groups + 2) * MaxV + prep.next_buf_row - prep.next_buf_stop
        /\ ~context_rows =>
             /\ prep.next_buf_row < MaxV
             /\ prep.rows_to_go > 0 => Taken = Groups * MaxV + prep.next_buf_row
    BY <1>0, <1>3, <1>5, Zenon DEF Course, RowsInv
  <1>8. MaxV \in Nat \ {0} /\ DCTSIZE \in Nat \ {0} /\ J.height \in Nat \ {0}
    BY <1>0, SizesAre, Zenon
  <1>9. grp \in 0 .. DCTSIZE - 1 /\ cur \in Nat
        /\ (row < call.lines \/ (context_rows /\ rtg = 0))
    BY <1>2, <1>6, <1>8 DEF MoreRows, MainTyped
  <1>10. ~main.suspended
    BY <1>6, <1>8, <1>9
  <1>11. /\ rtg \in 0 .. J.height /\ nbr \in Nat /\ stop \in Nat /\ row \in Nat
         /\ call.lines \in Nat /\ J.height - rtg = next_scanline + row /\ Taken = J.height - rtg
    BY <1>4, <1>6, <1>8, <1>10 DEF PrepTyped, CallTyped, Taken
  <1>12. gm \in Nat /\ Groups * MaxV = gm /\ (Groups + 2) * MaxV = gm + 2 * MaxV
    <2> DEFINE G == cur * DCTSIZE + grp
    <2>1. G \in Nat /\ Groups = G
      BY <1>8, <1>9 DEF Groups
    <2>2. gm = G * MaxV
      OBVIOUS
    <2> HIDE DEF G, gm
    <2>3. QED
      BY <1>8, <2>1, <2>2
  <1>13. HasRows(prep.buf) /\ HasLines(main.buffer, cur, grp)
    <2>1. HasRows(prep.buf) /\ HasLines(main.buffer, coef.iMCU_row_num, Ready)
      BY <1>3, <1>5, Zenon DEF RingInv, BufferInv
    <2>2. Ready = grp
      BY <1>5 DEF Ready
    <2>3. QED
      BY <1>6, <2>1, <2>2, Zenon
  <1>14. /\ context_rows => r = ContextTurn(q)
         /\ ~context_rows => r = SimpleTurn(q)
    OBVIOUS
  <1> HIDE DEF r
  <1>15. /\ DOMAIN q = {"prep", "out", "group", "row_ctr"} /\ q.prep = prep /\ q.group = grp
         /\ q.row_ctr = row /\ q.out = main.buffer /\ DOMAIN q.prep = PrepFields
    BY <1>6 DEF PrepTyped, PrepFields
  <1> HIDE DEF q
  <1> DEFINE gm2 == (cur * DCTSIZE + r.group) * MaxV
             a2 == 2 * MaxV + r.prep.next_buf_row - r.prep.next_buf_stop
  <1>16. /\ HasRows(r.prep.buf) /\ HasLines(r.out, cur, r.group)
         /\ context_rows =>
              /\ RingAt(r.prep.this_row_group, r.prep.next_buf_stop, r.prep.next_buf_row)
              /\ RingHolds(r.prep, gm2, a2)
              /\ r.prep.rows_to_go = 0 => gm2 + a2 >= J.height
         /\ ~context_rows /\ r.prep.rows_to_go > 0 =>
              Holds(r.prep.buf, gm2, r.prep.next_buf_row)
    <2>1. CASE context_rows
      <3> DEFINE a == 2 * MaxV + nbr - stop
      <3>1. RingAt(this, stop, nbr) /\ RingHolds(prep, gm, a) /\ (rtg = 0 => gm + a >= J.height)
        <4>1. RingOK
          BY <1>5, <2>1, Zenon DEF RingInv
        <4>2. Ahead = a
          BY DEF Ahead
        <4>3. QED
          BY <1>12, <4>1, <4>2, Zenon DEF RingOK
      <3>2. rtg > 0 => J.height - rtg = gm + a
        <4> HIDE DEF gm
        <4>1. QED
          BY <1>7, <1>8, <1>11, <1>12, <2>1
      <3>3. row < call.lines \/ rtg = 0
        BY <1>9
      <3>4. TurnAt(q, this, nbr, stop, a, gm, rtg, row)
        <4>1. this = q.prep.this_row_group /\ nbr = q.prep.next_buf_row /\ stop = q.prep.next_buf_stop
              /\ rtg = q.prep.rows_to_go /\ row = q.row_ctr /\ a = 2 * MaxV + nbr - stop
          BY <1>15
        <4> HIDE DEF a, gm, rtg, nbr, stop, this, row
        <4>2. QED
          BY <1>6, <1>11, <1>12, <3>1, <3>2, <3>3, <4>1, Zenon DEF TurnAt
      <3>5. r = ContextTurn(q) /\ grp = q.group /\ DOMAIN q.prep = PrepFields /\ HasRows(q.prep.buf)
            /\ RingHolds(q.prep, gm, a) /\ HasLines(q.out, cur, grp)
        BY <1>13, <1>14, <1>15, <2>1, <3>1, Zenon
      <3>6. gm = (cur * DCTSIZE + grp) * MaxV /\ gm2 = (cur * DCTSIZE + r.group) * MaxV
            /\ a2 = 2 * MaxV + r.prep.next_buf_row - r.prep.next_buf_stop
        OBVIOUS
      <3> HIDE DEF a, gm, rtg, nbr, stop, this, row, gm2, a2, cur, grp
      <3>7. /\ HasRows(r.prep.buf) /\ HasLines(r.out, cur, r.group)
            /\ RingAt(r.prep.this_row_group, r.prep.next_buf_stop, r.prep.next_buf_row)
            /\ RingHolds(r.prep, gm2, a2)
            /\ r.prep.rows_to_go = 0 => gm2 + a2 >= J.height
        BY <1>0, <1>5, <1>9, <1>15, <2>1, <3>1, <3>4, <3>5, <3>6, ContextData
      <3>8. QED
        BY <2>1, <3>7, Zenon
    <2>2. CASE ~context_rows
      <3> DEFINE n == Least(MaxV - nbr, call.lines - row)
      <3>1. n \in 1 .. MaxV - nbr /\ n \in Nat /\ row + n <= call.lines /\ nbr \in 0 .. MaxV - 1
            /\ rtg > 0
        BY <1>6, <1>7, <1>8, <1>9, <1>11, <2>2 DEF Least
      <3>2. n = Least(MaxV - q.prep.next_buf_row, call.lines - q.row_ctr)
        BY <1>15
      <3> HIDE DEF n
      <3> DEFINE line == next_scanline + q.row_ctr
      <3>3. line = next_scanline + row
        BY <1>15
      <3>4. line = gm + nbr /\ line + n <= J.height /\ rtg = J.height - line
        <4> HIDE DEF gm, line
        <4>1. QED
          BY <1>6, <1>7, <1>8, <1>11, <1>12, <2>2, <3>1, <3>3
      <3>5. Holds(prep.buf, gm, nbr)
        BY <1>5, <1>12, <2>2, <3>1, Zenon DEF RingInv
      <3>6. r = SimpleTurn(q) /\ DOMAIN q.prep = PrepFields /\ HasRows(q.prep.buf)
            /\ Holds(q.prep.buf, gm, q.prep.next_buf_row) /\ HasLines(q.out, cur, q.group)
            /\ q.prep.next_buf_row = nbr /\ q.prep.rows_to_go = rtg
        BY <1>13, <1>14, <1>15, <2>2, <3>5, Zenon
      <3>7. gm = (cur * DCTSIZE + grp) * MaxV /\ line = next_scanline + q.row_ctr
            /\ gm2 = (cur * DCTSIZE + r.group) * MaxV
        OBVIOUS
      <3> HIDE DEF gm, rtg, nbr, stop, this, row, gm2, a2, cur, grp, line
      <3>8. /\ HasRows(r.prep.buf) /\ HasLines(r.out, cur, r.group)
            /\ r.prep.rows_to_go > 0 =>
                 Holds(r.prep.buf, (cur * DCTSIZE + r.group) * MaxV, r.prep.next_buf_row)
        BY <1>0, <1>5, <1>9, <1>12, <1>15, <2>2, <3>1, <3>2, <3>4, <3>6, <3>7, SimpleData
      <3>9. QED
        BY <2>2, <3>7, <3>8, Zenon
    <2>3. QED
      BY <2>1, <2>2
  <1>17. main'.cur_iMCU_row = cur /\ main'.rowgroup_ctr = r.group /\ main'.buffer = r.out
         /\ call'.op = "lines"
    BY <1>1, <1>4, <1>6 DEF MainTyped, CallTyped
  <1>18. /\ J' = J /\ MaxV' = MaxV /\ context_rows' = context_rows
    BY <1>2, ImageKept, Zenon
  <1>19. Groups' * MaxV = gm2 /\ Ahead' = a2 /\ Ready' = r.group
    BY <1>1, <1>2, <1>5, <1>17, <1>18 DEF Groups, Ahead, Ready
  <1>20. /\ HasRows(prep.buf)' <=> HasRows(prep'.buf)
         /\ RingAt(prep.this_row_group, prep.next_buf_stop, prep.next_buf_row)' <=>
              RingAt(prep'.this_row_group, prep'.next_buf_stop, prep'.next_buf_row)
         /\ RingHolds(prep, Groups * MaxV, Ahead)' <=> RingHolds(prep', Groups' * MaxV, Ahead')
         /\ HasLines(main.buffer, coef.iMCU_row_num, Ready)' <=>
              HasLines(main'.buffer, coef'.iMCU_row_num, Ready')
    BY <1>2, RowsKept, Zenon
  <1> HIDE DEF gm, rtg, nbr, stop, this, row, gm2, a2, cur, grp
  <1>21. context_rows => RingOK'
    BY <1>1, <1>16, <1>18, <1>19, <1>20, Zenon DEF RingOK
  <1>22. ~context_rows /\ prep'.rows_to_go > 0 =>
           Holds(prep.buf, Groups * MaxV, prep.next_buf_row)'
    BY <1>1, <1>16, <1>18, <1>19, Zenon DEF Holds
  <1>23. RingInv'
    BY <1>1, <1>16, <1>18, <1>20, <1>21, <1>22, Zenon DEF RingInv
  <1>24. BufferInv'
    <2>1. coef'.iMCU_row_num = cur
      BY <1>2, <1>6 DEF cur
    <2>2. QED
      BY <1>16, <1>17, <1>19, <1>20, <2>1, Zenon DEF BufferInv
  <1>25. QED
    BY <1>23, <1>24

(* A new iMCU row: nothing in the main buffer counts.                       *)
LEMMA NoLines ==
  ASSUME Shape, NEW out, NEW row, NEW n, HasLines(out, row, n), NEW row2
  PROVE  HasLines(out, row2, 0)
  <1>1. ASSUME NEW c \in Comps PROVE 0 .. 0 * v(c) - 1 = {}
    BY ImageIs
  <1>2. QED
    BY <1>1, Zenon DEF HasLines

LEMMA RowsDataKept ==
  ASSUME IInv, RingInv, BufferInv, jobs' = jobs, job' = job,
         MainPass' => MainPass /\ global_state' = global_state, prep' = prep,
         main'.buffer = main.buffer, MainPass' => Groups' = Groups,
         MainPass' => \/ coef'.iMCU_row_num = coef.iMCU_row_num /\ Ready' = Ready
                      \/ Ready' = 0
  PROVE  RingInv' /\ BufferInv'
  <1> SUFFICES ASSUME MainPass' PROVE RingInv' /\ BufferInv'
    BY Zenon DEF RingInv, BufferInv
  <1>1. J' = J /\ MaxV' = MaxV /\ context_rows' = context_rows
    BY ImageKept, Zenon
  <1>2. /\ HasRows(prep.buf)' <=> HasRows(prep'.buf)
        /\ RingAt(prep.this_row_group, prep.next_buf_stop, prep.next_buf_row)' <=>
             RingAt(prep'.this_row_group, prep'.next_buf_stop, prep'.next_buf_row)
        /\ RingHolds(prep, Groups * MaxV, Ahead)' <=> RingHolds(prep', Groups' * MaxV, Ahead')
        /\ HasLines(main.buffer, coef.iMCU_row_num, Ready)' <=>
             HasLines(main'.buffer, coef'.iMCU_row_num, Ready')
    BY RowsKept, Zenon
  <1>3. Ahead' = Ahead
    BY <1>1, Zenon DEF Ahead
  <1>4. RingOK => RingOK'
    BY <1>1, <1>2, <1>3, Zenon DEF RingOK
  <1>5. Holds(prep.buf, Groups * MaxV, prep.next_buf_row) =>
          Holds(prep.buf, Groups * MaxV, prep.next_buf_row)'
    BY <1>1, Zenon DEF Holds
  <1>6. RingInv'
    BY <1>1, <1>2, <1>4, <1>5, Zenon DEF RingInv
  <1>7. Writing /\ Shape
    BY Zenon DEF MainPass, Writing, IInv
  <1>8. HasLines(main.buffer, coef.iMCU_row_num, Ready)
    BY <1>7, Zenon DEF BufferInv
  <1>9. HasLines(main.buffer, coef'.iMCU_row_num, 0)
    BY <1>7, <1>8, NoLines, Zenon
  <1>10. HasLines(main'.buffer, coef'.iMCU_row_num, Ready')
    BY <1>8, <1>9, Zenon
  <1>11. BufferInv'
    BY <1>2, <1>10, Zenon DEF BufferInv
  <1>12. QED
    BY <1>6, <1>11

(* The steps that neither take rows nor give a row group back.              *)
LEMMA RowsDataFrame ==
  ASSUME IInv, RingInv, BufferInv, jobs' = jobs, job' = job, global_state' = global_state,
         MainPass' => MainPass, prep' = prep, main'.buffer = main.buffer,
         main'.cur_iMCU_row = main.cur_iMCU_row, main'.rowgroup_ctr = main.rowgroup_ctr,
         coef'.iMCU_row_num = coef.iMCU_row_num, call'.op = call.op \/ call'.op # "raw"
  PROVE  RingInv' /\ BufferInv'
  <1>1. Groups' = Groups
    BY Zenon DEF Groups
  <1>2. Ready' = Ready \/ Ready' = 0
    BY DEF Ready
  <1>3. QED
    BY <1>1, <1>2, RowsDataKept, Zenon

(* An iMCU row is coded.                                                    *)
LEMMA RowCompressedData ==
  ASSUME IInv, CourseInv, RingInv, BufferInv, RowCompressed PROVE RingInv' /\ BufferInv'
  <1>0. Course
    BY Zenon DEF CourseInv
  <1>1. /\ call.at = "mcu" /\ jobs' = jobs /\ job' = job /\ global_state' = global_state /\ prep' = prep
        /\ coef' = [coef EXCEPT !.iMCU_row_num = @ + 1, !.mcu_ctr = 0, !.MCU_vert_offset = 0]
    BY Zenon DEF RowCompressed, others
  <1>2. Writing /\ ~Between /\ CallTyped(call)
    BY <1>0, <1>1, Running, Zenon DEF Course, CallInv
  <1>3. MainTyped(main) /\ DCTSIZE \in Nat
    BY <1>0, <1>2, SizeAssumption DEF Course, RowsInv
  <1>4. CASE call.op = "lines"
    <2>1. /\ call' = [call EXCEPT !.at = "prep",
                                  !.row_ctr = IF main.suspended THEN @ + 1 ELSE @]
          /\ main' = [main EXCEPT !.suspended = FALSE, !.rowgroup_ctr = 0, !.cur_iMCU_row = @ + 1]
      BY <1>4 DEF RowCompressed
    <2>2. global_state = "SCANNING" /\ MainPass /\ main.rowgroup_ctr = DCTSIZE
      <3>1. global_state = "SCANNING" /\ MainPass
        BY <1>0, <1>2, <1>4 DEF Course, CallInv, MainPass
      <3>2. QED
        BY <1>0, <1>1, <1>2, <3>1, Zenon DEF Course, RowsInv
    <2>3. main'.buffer = main.buffer /\ main'.rowgroup_ctr = 0
          /\ main'.cur_iMCU_row = main.cur_iMCU_row + 1
      BY <1>3, <2>1 DEF MainTyped
    <2>4. Groups' = Groups
      <3>1. Groups' = (main.cur_iMCU_row + 1) * DCTSIZE + 0 /\ Groups = main.cur_iMCU_row * DCTSIZE + DCTSIZE
        BY <2>2, <2>3 DEF Groups
      <3>2. main.cur_iMCU_row \in Nat
        BY <1>3 DEF MainTyped
      <3>3. QED
        BY <1>3, <3>1, <3>2
    <2>5. Ready' = 0
      BY <1>1, <2>2, <2>3 DEF Ready
    <2>6. QED
      BY <1>1, <2>2, <2>3, <2>4, <2>5, RowsDataKept, Zenon
  <1>5. CASE call.op = "raw"
    <2>1. call' = NoCall /\ main' = main
      BY <1>5 DEF RowCompressed
    <2>2. global_state = "RAW_OK"
      BY <1>0, <1>2, <1>5 DEF Course, CallInv
    <2>3. Ready' = 0 /\ Groups' = Groups /\ MainPass
      BY <1>1, <1>5, <2>1, <2>2 DEF Ready, NoCall, Groups, MainPass
    <2>4. QED
      BY <1>1, <2>1, <2>3, RowsDataKept, Zenon
  <1>6. CASE call.op = "finish"
    <2>1. main' = main /\ call' = [call EXCEPT !.at = IF coef.iMCU_row_num + 1 < total_iMCU_rows
                                           THEN "compress" ELSE "finish_pass"]
      BY <1>6 DEF RowCompressed
    <2>2. call'.op = "finish"
      BY <1>2, <1>6, <2>1 DEF CallTyped
    <2>3. ~MainPass'
      BY <2>2 DEF MainPass
    <2>4. QED
      BY <1>1, <2>1, <2>3, RowsDataKept, Zenon
  <1>7. QED
    BY <1>2, <1>4, <1>5, <1>6, Running, <1>0, <1>1 DEF Course

(* jpeg_write_raw_data: the rows of an iMCU row.                            *)
LEMMA RawLines ==
  ASSUME Shape, J.input = "raw", NEW row \in Nat, next_scanline = row * (MaxV * DCTSIZE)
  PROVE  HasLines(RawRows, row, DCTSIZE)
  <1>1. MaxV \in Nat \ {0} /\ DCTSIZE \in Nat \ {0}
    BY SizesAre, Zenon
  <1>2. next_scanline \div MaxV = row * DCTSIZE
    <2> DEFINE rd == row * DCTSIZE
    <2>1. next_scanline = rd * MaxV + 0 /\ rd \in Nat
      BY <1>1
    <2> HIDE DEF rd
    <2>2. next_scanline \in Nat /\ 0 \in 0 .. MaxV - 1
      BY <1>1, <2>1
    <2>3. next_scanline \div MaxV = rd
      BY <1>1, <2>1, <2>2, DivisionUnique
    <2>4. QED
      BY <2>3 DEF rd
  <1>3. ASSUME NEW c \in Comps, NEW i \in 0 .. DCTSIZE * v(c) - 1
        PROVE  RawRows[c][i] = Line(c, row * (v(c) * DCTSIZE) + i)
    <2>1. v(c) \in Nat
      BY ImageIs
    <2>2. DCTSIZE * v(c) = v(c) * DCTSIZE /\ (row * DCTSIZE) * v(c) = row * (v(c) * DCTSIZE)
      BY <1>1, <2>1
    <2>3. RawRows[c][i] = <<(row * DCTSIZE) * v(c) + i>>
      BY <1>2, <2>2 DEF RawRows
    <2>4. Line(c, row * (v(c) * DCTSIZE) + i) = <<row * (v(c) * DCTSIZE) + i>>
      BY DEF Line
    <2>5. QED
      BY <2>2, <2>3, <2>4
  <1>4. DOMAIN RawRows = Comps /\ \A c \in Comps : DOMAIN RawRows[c] = 0 .. v(c) * DCTSIZE - 1
    BY DEF RawRows
  <1>5. QED
    BY <1>3, <1>4, Zenon DEF HasLines

LEMMA WriteRawDataRows ==
  ASSUME IInv, CourseInv, InputInv, WriteRawData PROVE RingInv' /\ BufferInv'
  <1>0. Course /\ Shape
    BY Zenon DEF CourseInv, IInv
  <1>1. /\ jobs' = jobs /\ job' = job /\ coef' = coef /\ global_state' = "RAW_OK"
        /\ global_state = "RAW_OK" /\ call = NoCall
        /\ main' = [main EXCEPT !.buffer = RawRows]
        /\ \E room \in Room : call' = [NoCall EXCEPT !.op = "raw", !.at = "compress", !.room = room]
    <2>1. Idle({"RAW_OK"}) /\ global_state' = global_state
      BY Zenon DEF WriteRawData
    <2>2. /\ jobs' = jobs /\ job' = job /\ coef' = coef /\ main' = [main EXCEPT !.buffer = RawRows]
          /\ \E room \in Room : call' = [NoCall EXCEPT !.op = "raw", !.at = "compress", !.room = room]
      BY Zenon DEF WriteRawData
    <2>3. global_state = "RAW_OK" /\ call = NoCall
      BY <2>1 DEF Idle
    <2>4. QED
      BY <2>1, <2>2, <2>3, Zenon
  <1>2. call'.op = "raw"
    BY <1>1 DEF NoCall
  <1>3. MainPass /\ Writing
    BY <1>1 DEF MainPass, Writing, NoCall
  <1>4. MainTyped(main) /\ next_scanline = coef.iMCU_row_num * (MaxV * DCTSIZE)
    BY <1>0, <1>1, <1>3, Zenon DEF Course, RowsInv
  <1>5. main'.buffer = RawRows /\ Ready' = DCTSIZE
    <2>1. global_state' # "SCANNING"
      BY <1>1
    <2>2. Ready' = DCTSIZE
      BY <1>2, <2>1, Zenon DEF Ready
    <2>3. QED
      BY <1>1, <1>4, <2>2 DEF MainTyped
  <1>6. coef.iMCU_row_num \in Nat
    <2>1. ~Between
      <3>1. master.scan > 0
        BY <1>1, <1>3 DEF IInv, ScanSelected
      <3>2. QED
        BY <1>0, <1>1, <3>1 DEF Between, NoCall, Shape, MasterOK
    <2>2. CoefTyped(coef)
      BY <1>0, <1>3, <2>1, Zenon DEF Course, CountInv
    <2>3. QED
      BY <2>2 DEF CoefTyped
  <1>7. HasLines(RawRows, coef.iMCU_row_num, DCTSIZE)
    BY <1>0, <1>1, <1>4, <1>6, RawLines DEF InputInv
  <1>8. BufferInv'
    <2>1. HasLines(main.buffer, coef.iMCU_row_num, Ready)' <=>
             HasLines(main'.buffer, coef'.iMCU_row_num, Ready')
      BY <1>1, RowsKept
    <2>2. HasLines(main'.buffer, coef'.iMCU_row_num, Ready')
      BY <1>1, <1>5, <1>7, Zenon
    <2>3. QED
      BY <2>1, <2>2, Zenon DEF BufferInv
  <1>9. RingInv'
    BY <1>1 DEF RingInv
  <1>10. QED
    BY <1>8, <1>9

(* An image begins: the buffers are empty.                                  *)
LEMMA StartData ==
  ASSUME IInv, jobs' = jobs, job' = job, NEW state, Start(state), call' = NoCall
  PROVE  RingInv' /\ BufferInv'
  <1>0. Shape
    BY Zenon DEF IInv
  <1>1. prep' = NewPrep /\ main' = NewMain
    BY Zenon DEF Start
  <1>2. J' = J /\ MaxV' = MaxV /\ context_rows' = context_rows
    BY <1>0, ImageKept, Zenon
  <1>3. MaxV \in Nat \ {0} /\ J.height \in Nat \ {0} /\ DCTSIZE \in Nat \ {0}
    BY <1>0, SizesAre, Zenon
  <1>4. /\ HasRows(prep.buf)' <=> HasRows(prep'.buf)
        /\ RingAt(prep.this_row_group, prep.next_buf_stop, prep.next_buf_row)' <=>
             RingAt(prep'.this_row_group, prep'.next_buf_stop, prep'.next_buf_row)
        /\ RingHolds(prep, Groups * MaxV, Ahead)' <=> RingHolds(prep', Groups' * MaxV, Ahead')
        /\ HasLines(main.buffer, coef.iMCU_row_num, Ready)' <=>
             HasLines(main'.buffer, coef'.iMCU_row_num, Ready')
    BY RowsKept, Zenon
  <1>5. /\ prep'.rows_to_go = J.height /\ prep'.next_buf_row = 0 /\ prep'.this_row_group = 0
        /\ prep'.next_buf_stop = 2 * MaxV /\ DOMAIN prep'.buf = 0 .. 3 * MaxV - 1
    BY <1>1 DEF NewPrep
  <1>6. Groups' * MaxV = 0 /\ Ready' = 0 /\ Groups' = 0
    <2>1. main'.cur_iMCU_row = 0 /\ main'.rowgroup_ctr = 0 /\ call'.op = "none"
      BY <1>1 DEF NewMain, NoCall
    <2>2. Groups' = 0
      BY <1>3, <2>1 DEF Groups
    <2>3. QED
      BY <1>3, <2>1, <2>2 DEF Ready
  <1>7. HasRows(prep'.buf)
    BY <1>5, Zenon DEF HasRows
  <1>8. RingAt(prep'.this_row_group, prep'.next_buf_stop, prep'.next_buf_row)
    BY <1>3, <1>5 DEF RingAt
  <1>9. RingHolds(prep', Groups' * MaxV, Ahead')
    BY <1>5, <1>6, Zenon DEF RingHolds
  <1>10. RingOK'
    <2>1. prep'.rows_to_go # 0
      BY <1>3, <1>5
    <2>2. QED
      BY <1>4, <1>8, <1>9, <2>1, Zenon DEF RingOK
  <1>11. Holds(prep.buf, Groups * MaxV, prep.next_buf_row)'
    <2>1. 0 .. prep'.next_buf_row - 1 = {}
      BY <1>5
    <2>2. QED
      BY <2>1, Zenon DEF Holds
  <1>12. RingInv'
    BY <1>4, <1>7, <1>10, <1>11, Zenon DEF RingInv
  <1>13. HasLines(main'.buffer, coef'.iMCU_row_num, 0)
    <2>1. main'.buffer = [c \in Comps |-> [i \in 0 .. v(c) * DCTSIZE - 1 |-> <<>>]]
      <3>1. /\ Comps' = Comps /\ \A c : v(c)' = v(c)
        BY ShapesKept
      <3>2. NewMain.buffer = [c \in Comps |-> [i \in 0 .. v(c) * DCTSIZE - 1 |-> <<>>]]
        BY DEF NewMain
      <3>3. QED
        BY <1>1, <3>2, Zenon
    <2>2. ASSUME NEW c \in Comps PROVE 0 .. 0 * v(c) - 1 = {}
      BY <1>0, ImageIs
    <2>3. /\ DOMAIN main'.buffer = Comps
          /\ \A c \in Comps : DOMAIN main'.buffer[c] = 0 .. v(c) * DCTSIZE - 1
      BY <2>1
    <2>4. QED
      BY <2>2, <2>3, Zenon DEF HasLines
  <1>14. BufferInv'
    BY <1>4, <1>6, <1>13, Zenon DEF BufferInv
  <1>15. QED
    BY <1>12, <1>14

LEMMA RowsDataStep ==
  ASSUME IInv, CourseInv, InputInv, RingInv, BufferInv, [Next]_vars PROVE RingInv' /\ BufferInv'
  <1>0. Course
    BY Zenon DEF CourseInv
  <1>1. CASE ~MainPass'
    BY <1>1, Zenon DEF RingInv, BufferInv
  <1>2. CASE Preprocess
    BY <1>2, PreprocessData
  <1>3. CASE RowCompressed
    BY <1>3, RowCompressedData
  <1>4. CASE WriteRawData
    BY <1>4, WriteRawDataRows
  <1>5. CASE StartCompress /\ MainPass'
    <2>1. jobs' = jobs /\ job' = job /\ call' = NoCall /\ global_state' # "ERROR"
      BY <1>5 DEF StartCompress, Idle, MainPass
    <2>2. \E state : Start(state)
      BY <1>5, <2>1, Zenon DEF StartCompress
    <2>3. QED
      BY <2>1, <2>2, StartData
  <1>6. CASE WriteCoefficients \/ NextJob \/ WriteTables \/ ReadCoefficients \/ CopyCriticalParameters
             \/ Trailer
    <2>1. global_state' \notin {"SCANNING", "RAW_OK"}
      <3>1. CASE WriteCoefficients
        BY <3>1 DEF WriteCoefficients, Start
      <3>2. CASE NextJob \/ WriteTables \/ Trailer
        BY <3>2 DEF NextJob, WriteTables, Trailer
      <3>3. CASE ReadCoefficients \/ CopyCriticalParameters
        BY <3>3 DEF ReadCoefficients, CopyCriticalParameters, Idle
      <3>4. QED
        BY <1>6, <3>1, <3>2, <3>3
    <2>2. QED
      BY <1>1, <2>1 DEF MainPass
  <1>7. CASE NextPass \/ FinishPass \/ FinishCompress
    <2>1. call'.op = "finish"
      <3>1. CASE FinishCompress
        BY <3>1 DEF FinishCompress, NoCall
      <3>2. CASE NextPass \/ FinishPass
        <4>1. call.op = "finish" /\ CallTyped(call) /\ \E at : call' = [call EXCEPT !.at = at]
          BY <1>0, <3>2 DEF NextPass, FinishPass, Course, CallInv, CallTyped
        <4>2. QED
          BY <4>1 DEF CallTyped
      <3>3. QED
        BY <1>7, <3>1, <3>2
    <2>2. QED
      BY <1>1, <2>1 DEF MainPass
  <1>8. CASE LinesDone \/ CompressData \/ EncodeMCU \/ WriteMarker \/ WriteScanlines \/ UNCHANGED vars
    <2>1. /\ jobs' = jobs /\ job' = job /\ global_state' = global_state /\ prep' = prep /\ main' = main
      BY <1>8, Zenon DEF LinesDone, CompressData, EncodeMCU, WriteMarker, WriteScanlines, vars, engine,
         others
    <2>2. coef'.iMCU_row_num = coef.iMCU_row_num
      <3>1. CASE CompressData \/ EncodeMCU
        <4>1. CoefTyped(coef)
          BY <1>0, <3>1, ModeStays DEF Course
        <4>2. \/ coef' = coef \/ coef' = [coef EXCEPT !.whole = Stored]
              \/ coef' = [coef EXCEPT !.mcu_ctr = 0]
          BY <3>1, Zenon DEF CompressData, EncodeMCU
        <4>3. QED
          BY <4>1, <4>2 DEF CoefTyped
      <3>2. CASE LinesDone \/ WriteMarker \/ WriteScanlines \/ UNCHANGED vars
        BY <3>2, Zenon DEF LinesDone, WriteMarker, WriteScanlines, vars, engine
      <3>3. QED
        BY <1>8, <3>1, <3>2
    <2>3. call'.op = call.op \/ (call'.op # "raw" /\ (MainPass' => MainPass))
      <3>1. CASE CompressData \/ EncodeMCU
        <4>1. CallTyped(call)
          BY <1>0 DEF Course, CallInv
        <4>2. QED
          BY <3>1, <4>1 DEF CompressData, EncodeMCU, CallTyped
      <3>2. CASE LinesDone
        <4>1. call' = NoCall /\ call.at = "prep"
          BY <3>2 DEF LinesDone
        <4>2. call.op = "lines"
          BY <1>0, <4>1 DEF Course, CallInv, CallTyped
        <4>3. QED
          BY <2>1, <4>1, <4>2 DEF NoCall, MainPass
      <3>3. CASE WriteMarker \/ UNCHANGED vars
        BY <3>3 DEF WriteMarker, vars
      <3>4. CASE WriteScanlines
        <4>1. call'.op = "lines" /\ call = NoCall
          BY <3>4 DEF WriteScanlines, NoCall, Idle
        <4>2. QED
          BY <2>1, <4>1 DEF NoCall, MainPass
      <3>5. QED
        BY <1>8, <3>1, <3>2, <3>3, <3>4
    <2>4. MainPass' => MainPass
      BY <2>1, <2>3 DEF MainPass
    <2>5. QED
      BY <2>1, <2>2, <2>3, <2>4, RowsDataFrame, Zenon
  <1>9. CASE SuspendMCU
    <2>1. /\ jobs' = jobs /\ job' = job /\ prep' = prep /\ call' = NoCall
          /\ \/ main' = main \/ main' = [main EXCEPT !.suspended = TRUE]
          /\ coef' = [coef EXCEPT !.MCU_vert_offset = call.y, !.mcu_ctr = call.x]
          /\ global_state' = global_state \/ global_state' = "ERROR"
          /\ call.op = "finish" => global_state' = "ERROR"
      <3>1. /\ jobs' = jobs /\ job' = job /\ prep' = prep /\ call' = NoCall /\ coef' = SuspendedAt
            /\ main' = IF call.op = "lines" THEN [main EXCEPT !.suspended = TRUE] ELSE main
            /\ global_state' = IF call.op = "finish" THEN "ERROR" ELSE global_state
        BY <1>9, Zenon DEF SuspendMCU, others
      <3>2. QED
        BY <3>1 DEF SuspendedAt
    <2>2. Writing /\ CoefTyped(coef)
      BY <1>0, <1>9, ModeStays
    <2>3. MainTyped(main)
      BY <1>0, <2>2, Zenon DEF Course, RowsInv
    <2>4. coef'.iMCU_row_num = coef.iMCU_row_num /\ main'.buffer = main.buffer
          /\ main'.cur_iMCU_row = main.cur_iMCU_row /\ main'.rowgroup_ctr = main.rowgroup_ctr
      BY <2>1, <2>2, <2>3 DEF CoefTyped, MainTyped
    <2>5. CASE MainPass'
      <3>1. global_state' = global_state /\ MainPass /\ call'.op # "raw"
        BY <2>1, <2>5 DEF MainPass, NoCall
      <3>2. QED
        BY <2>1, <2>4, <3>1, RowsDataFrame, Zenon
    <2>6. QED
      BY <1>1, <2>5
  <1>10. QED
    BY <1>1, <1>2, <1>3, <1>4, <1>5, <1>6, <1>7, <1>8, <1>9, Zenon DEF Next, Library, Application
-----------------------------------------------------------------------------
(* What forward_DCT, or the source of a transcoder, is to give: the iMCU row*)
(* is in the main buffer, the whole image in the source.                    *)
Given == IF coef.mode = "TRANSCODE" THEN J.input = "coefs" /\ source.read = J.units
         ELSE J.input # "coefs" /\ HasLines(main.buffer, coef.iMCU_row_num, DCTSIZE)

LEMMA DctIs ==
  ASSUME Shape, Given, coef.mode # "TRANSCODE", coef.iMCU_row_num \in Nat,
         NEW c \in Comps, NEW y \in 0 .. v(c) - 1, NEW x
  PROVE  Dct(c, y, x) = [dc |-> Data(c, coef.iMCU_row_num * v(c) + y, x),
                         ac |-> Data(c, coef.iMCU_row_num * v(c) + y, x)]
  <1> DEFINE r == coef.iMCU_row_num
             V == v(c)
             at(i) == y * DCTSIZE + i - 1
  <1>1. DCTSIZE \in Nat \ {0} /\ V \in Nat \ {0} /\ r \in Nat /\ y \in 0 .. V - 1
    BY ImageIs, SizesAre
  <1>2. J.input # "coefs" /\ HasLines(main.buffer, r, DCTSIZE)
    BY DEF Given
  <1>3. ASSUME NEW i \in 1 .. DCTSIZE
        PROVE  main.buffer[c][at(i)] = Line(c, (r * V + y) * DCTSIZE + i - 1)
    <2> HIDE DEF r, V
    <2>1. (y + 1) * DCTSIZE <= V * DCTSIZE /\ (y + 1) * DCTSIZE = y * DCTSIZE + DCTSIZE
          /\ y * DCTSIZE \in Nat /\ V * DCTSIZE = DCTSIZE * V
      BY <1>1, FactorKeeps
    <2>2. at(i) \in 0 .. DCTSIZE * V - 1
      <3> DEFINE p == y * DCTSIZE
                 q == DCTSIZE * V
      <3>1. p \in Nat /\ p + DCTSIZE <= q /\ q \in Int
        BY <1>1, <2>1
      <3> HIDE DEF p, q
      <3>2. p + i - 1 \in 0 .. q - 1
        BY <1>1, <3>1
      <3>3. QED
        BY <3>2 DEF p, q
    <2>3. main.buffer[c][at(i)] = Line(c, r * (V * DCTSIZE) + at(i))
      <3> HIDE DEF at
      <3>1. \A k \in 0 .. DCTSIZE * V - 1 : main.buffer[c][k] = Line(c, r * (V * DCTSIZE) + k)
        BY <1>2, Zenon DEF HasLines, V
      <3>2. QED
        BY <2>2, <3>1, Zenon
    <2>4. r * (V * DCTSIZE) + at(i) = (r * V + y) * DCTSIZE + i - 1
      <3>1. r * (V * DCTSIZE) = (r * V) * DCTSIZE /\ (r * V + y) * DCTSIZE = (r * V) * DCTSIZE + y * DCTSIZE
            /\ (r * V) * DCTSIZE \in Nat /\ y * DCTSIZE \in Nat
        BY <1>1
      <3> DEFINE p == y * DCTSIZE
                 q == (r * V) * DCTSIZE
      <3>2. p \in Nat /\ q \in Nat /\ r * (V * DCTSIZE) = q /\ (r * V + y) * DCTSIZE = q + p
        BY <3>1
      <3> HIDE DEF p, q
      <3>3. q + (p + i - 1) = (q + p) + i - 1
        BY <3>2
      <3>4. QED
        BY <3>2, <3>3 DEF p
    <2>5. QED
      BY <2>3, <2>4
  <1>4. [i \in 1 .. DCTSIZE |-> main.buffer[c][at(i)]] =
          [i \in 1 .. DCTSIZE |-> Line(c, (r * V + y) * DCTSIZE + i - 1)]
    BY <1>3
  <1>5. Data(c, r * V + y, x) = <<x, [i \in 1 .. DCTSIZE |-> Line(c, (r * V + y) * DCTSIZE + i - 1)]>>
    BY <1>2 DEF Data
  <1>6. QED
    BY <1>4, <1>5, Zenon DEF Dct

LEMMA RealBlockIs ==
  ASSUME Shape, Given, coef.iMCU_row_num \in Nat, NEW c \in Comps, NEW y \in 0 .. v(c) - 1, NEW x
  PROVE  RealBlock(c, y, x) = [dc |-> Data(c, coef.iMCU_row_num * v(c) + y, x),
                               ac |-> Data(c, coef.iMCU_row_num * v(c) + y, x)]
  <1>1. CASE coef.mode = "TRANSCODE"
    <2>1. J.input = "coefs" /\ source.read = J.units
      BY <1>1 DEF Given
    <2>2. QED
      BY <1>1, <2>1 DEF RealBlock, FromSource, Data
  <1>2. CASE coef.mode # "TRANSCODE"
    BY <1>2, DctIs, Zenon DEF RealBlock
  <1>3. QED
    BY <1>1, <1>2

(* Which rows of blocks of an iMCU row are in the image.                    *)
RowsOf(c) == IF coef.iMCU_row_num < total_iMCU_rows - 1 THEN v(c) ELSE last_row_height(c)

LEMMA RowsInImage ==
  ASSUME Shape, coef.iMCU_row_num \in Nat, coef.iMCU_row_num < total_iMCU_rows,
         NEW c \in Comps, NEW y \in 0 .. v(c) - 1
  PROVE  /\ RowsOf(c) \in 1 .. v(c)
         /\ y < RowsOf(c) <=> coef.iMCU_row_num * v(c) + y < height_in_blocks(c)
         /\ y >= RowsOf(c) => /\ coef.iMCU_row_num = total_iMCU_rows - 1
                              /\ coef.iMCU_row_num * v(c) + (RowsOf(c) - 1) = height_in_blocks(c) - 1
  <1> DEFINE r == coef.iMCU_row_num
             T == total_iMCU_rows
             V == v(c)
             L == last_row_height(c)
             H == height_in_blocks(c)
  <1>1. V \in Nat \ {0} /\ r \in Nat /\ T \in Nat \ {0} /\ r < T /\ L \in 1 .. V
        /\ H = (T - 1) * V + L /\ H \in Nat \ {0} /\ y \in 0 .. V - 1
        /\ RowsOf(c) = (IF r < T - 1 THEN V ELSE L)
    <2>1. V \in Nat \ {0}
      BY ImageIs
    <2>2. T \in Nat \ {0}
      BY RowsIs
    <2>3. L \in 1 .. V /\ H = (T - 1) * V + L /\ H \in Nat \ {0}
      BY BlocksIs
    <2> HIDE DEF r, T, V, L, H
    <2>4. r \in Nat /\ r < T
      BY DEF r, T
    <2>5. RowsOf(c) = IF r < T - 1 THEN V ELSE L
      BY Zenon DEF RowsOf, r, T, V, L
    <2>6. y \in 0 .. V - 1
      BY DEF V
    <2>7. QED
      BY <2>1, <2>2, <2>3, <2>4, <2>5, <2>6
  <1> HIDE DEF r, T, V, L, H
  <1>2. CASE r = T - 1
    <2>1. (T - 1) * V \in Int /\ r * V = (T - 1) * V /\ RowsOf(c) = L
      BY <1>1, <1>2
    <2> DEFINE p == (T - 1) * V
    <2>2. p \in Int /\ r * V = p /\ H = p + L
      BY <1>1, <2>1
    <2> HIDE DEF p
    <2>3. QED
      BY <1>1, <1>2, <2>1, <2>2 DEF r, T, V, H
  <1>3. CASE r < T - 1
    <2>1. (r + 1) * V <= (T - 1) * V /\ (r + 1) * V = r * V + V /\ r * V \in Int /\ (T - 1) * V \in Int
      BY <1>1, <1>3, FactorKeeps
    <2> DEFINE p == (T - 1) * V
               q == r * V
    <2>2. p \in Int /\ q \in Int /\ H = p + L /\ q + V <= p /\ RowsOf(c) = V /\ r * V = q
      BY <1>1, <1>3, <2>1
    <2> HIDE DEF p, q
    <2>3. QED
      BY <1>1, <1>3, <2>2 DEF r, T, V, H
  <1>4. QED
    BY <1>1, <1>2, <1>3

(* The last block of an MCU, when all of it is in the array.                *)
LEMMA LastOfMCU ==
  ASSUME NEW w \in Nat \ {0}, NEW n \in Nat, NEW x \in 0 .. n * w - 1
  PROVE  (x \div w) * w + w - 1 \in 0 .. n * w - 1
  <1> DEFINE q == x \div w
             r == x % w
  <1>1. q \in Nat /\ r \in 0 .. w - 1 /\ x = q * w + r /\ x \in Nat /\ x < n * w
    <2>1. n * w \in Nat /\ x \in Nat /\ x < n * w
      BY FactorKeeps
    <2>2. QED
      BY <2>1
  <1> HIDE DEF q, r
  <1>2. q < n
    <2>1. q * w \in Nat /\ n * w \in Nat
      BY <1>1
    <2>2. q * w < n * w
      BY <1>1, <2>1
    <2>3. QED
      BY <1>1, <2>2, LessFactor
  <1>3. (q + 1) * w <= n * w /\ (q + 1) * w = q * w + w /\ q * w \in Nat /\ n * w \in Nat
    BY <1>1, <1>2, FactorKeeps
  <1> DEFINE a == q * w
             b == n * w
  <1>4. a \in Nat /\ b \in Nat /\ a + w <= b
    BY <1>3
  <1> HIDE DEF a, b
  <1>5. a + w - 1 \in 0 .. b - 1
    BY <1>4
  <1>6. QED
    BY <1>5 DEF a, b, q

(* compress_first_pass                                                      *)
LEMMA FirstPassIs ==
  ASSUME Shape, Given, coef.mode # "TRANSCODE", coef.iMCU_row_num \in Nat,
         coef.iMCU_row_num < total_iMCU_rows, NEW c \in Comps, NEW y \in 0 .. v(c) - 1,
         NEW x \in 0 .. Ceil(width_in_blocks(c), h(c)) * h(c) - 1
  PROVE  FirstPass(c)[<<y, x>>] = Block(c, coef.iMCU_row_num * v(c) + y, x)
  <1> DEFINE cols == width_in_blocks(c)
             padded == Ceil(cols, h(c)) * h(c)
             rows == RowsOf(c)
             real == [b \in (0 .. rows - 1) \X (0 .. padded - 1) |->
                        IF b[2] < cols THEN Dct(c, b[1], b[2]) ELSE Dummy(Dct(c, b[1], cols - 1))]
             row == coef.iMCU_row_num * v(c) + y
             e == (x \div h(c)) * h(c) + h(c) - 1
             last == coef.iMCU_row_num * v(c) + (rows - 1)
  <1>1. FirstPass(c)[<<y, x>>] = IF y < rows THEN real[<<y, x>>] ELSE Dummy(real[<<rows - 1, e>>])
    <2>1. <<y, x>> \in (0 .. v(c) - 1) \X (0 .. padded - 1)
      BY Zenon
    <2>2. FirstPass(c) = [b \in (0 .. v(c) - 1) \X (0 .. padded - 1) |->
            IF b[1] < rows THEN real[b]
            ELSE Dummy(real[<<rows - 1, (b[2] \div h(c)) * h(c) + h(c) - 1>>])]
      BY DEF FirstPass, RowsOf
    <2> HIDE DEF real, rows, padded
    <2>3. QED
      BY <2>1, <2>2 DEF e
  <1>2. /\ rows \in 1 .. v(c) /\ v(c) \in Nat \ {0}
        /\ y < rows <=> row < height_in_blocks(c)
        /\ y >= rows => last = height_in_blocks(c) - 1
    <2>1. v(c) \in Nat \ {0}
      BY ImageIs
    <2>2. QED
      BY <2>1, RowsInImage
  <1>3. h(c) \in Nat \ {0} /\ cols \in Nat \ {0} /\ Ceil(cols, h(c)) \in Nat
    <2>1. h(c) \in Nat \ {0}
      BY ImageIs
    <2>2. cols \in Nat \ {0}
      BY BlocksIs
    <2> HIDE DEF cols
    <2>3. QED
      BY <2>1, <2>2, CeilIs
  <1>4. x \in Nat /\ padded \in Nat
    BY <1>3
  <1>5. ASSUME NEW j \in 0 .. rows - 1, NEW k \in 0 .. padded - 1
        PROVE  real[<<j, k>>] = [dc |-> Data(c, coef.iMCU_row_num * v(c) + j, Least(k, cols - 1)),
                                 ac |-> IF k < cols THEN Data(c, coef.iMCU_row_num * v(c) + j, Least(k, cols - 1)) ELSE <<>>]
    <2>1. real[<<j, k>>] = IF k < cols THEN Dct(c, j, k) ELSE Dummy(Dct(c, j, cols - 1))
      <3>1. <<j, k>> \in (0 .. rows - 1) \X (0 .. padded - 1)
        BY Zenon
      <3> HIDE DEF rows, padded, cols
      <3>2. QED
        BY <3>1
    <2>2. j \in 0 .. v(c) - 1 /\ k \in Nat
      BY <1>2, <1>4
    <2>3. \A i : Dct(c, j, i) = [dc |-> Data(c, coef.iMCU_row_num * v(c) + j, i),
                                 ac |-> Data(c, coef.iMCU_row_num * v(c) + j, i)]
      BY <2>2, DctIs
    <2> HIDE DEF real, rows, padded, cols
    <2>4. CASE k < cols
      <3>1. Least(k, cols - 1) = k
        BY <1>3, <2>2, <2>4 DEF Least
      <3>2. QED
        BY <2>1, <2>3, <2>4, <3>1
    <2>5. CASE ~(k < cols)
      <3>1. Least(k, cols - 1) = cols - 1
        BY <1>3, <2>2, <2>5 DEF Least
      <3>2. QED
        BY <2>1, <2>3, <2>5, <3>1 DEF Dummy
    <2>6. QED
      BY <2>4, <2>5
  <1>6. CASE y < rows
    <2>1. y \in 0 .. rows - 1 /\ row < height_in_blocks(c)
      BY <1>2, <1>6
    <2>2. real[<<y, x>>] = [dc |-> Data(c, row, Least(x, cols - 1)),
                            ac |-> IF x < cols THEN Data(c, row, Least(x, cols - 1)) ELSE <<>>]
      <3> HIDE DEF real
      <3>1. QED
        BY <1>5, <2>1
    <2>3. Block(c, row, x) = [dc |-> Data(c, row, Least(x, cols - 1)),
                              ac |-> IF x < cols THEN Data(c, row, Least(x, cols - 1)) ELSE <<>>]
      <3> HIDE DEF row
      <3>1. QED
        BY <2>1 DEF Block
    <2> HIDE DEF real
    <2>4. QED
      BY <1>1, <1>6, <2>2, <2>3
  <1>7. CASE ~(y < rows)
    <2>1. rows - 1 \in 0 .. rows - 1 /\ ~(row < height_in_blocks(c)) /\ last = height_in_blocks(c) - 1
      BY <1>2, <1>7
    <2>2. e \in 0 .. padded - 1
      BY <1>3, LastOfMCU
    <2>3. real[<<rows - 1, e>>].dc = Data(c, height_in_blocks(c) - 1, Least(e, cols - 1))
      <3> DEFINE j == rows - 1
      <3> HIDE DEF real, e, rows, padded, cols, j
      <3>0. j \in 0 .. rows - 1
        BY <2>1 DEF j
      <3>1a. real[<<j, e>>] =
              [dc |-> Data(c, coef.iMCU_row_num * v(c) + j, Least(e, cols - 1)),
               ac |-> IF e < cols THEN Data(c, coef.iMCU_row_num * v(c) + j, Least(e, cols - 1)) ELSE <<>>]
        BY <1>5, <2>2, <3>0, Zenon
      <3>1. real[<<rows - 1, e>>].dc = Data(c, coef.iMCU_row_num * v(c) + (rows - 1), Least(e, cols - 1))
        BY <3>1a DEF j
      <3>2. QED
        BY <2>1, <3>1
    <2>4. Block(c, row, x) = [dc |-> Data(c, height_in_blocks(c) - 1, Least(e, cols - 1)), ac |-> <<>>]
      <3> HIDE DEF row
      <3>1. QED
        BY <2>1 DEF Block
    <2> HIDE DEF real
    <2>5. QED
      BY <1>1, <1>7, <2>3, <2>4 DEF Dummy
  <1>8. QED
    BY <1>6, <1>7

(* What compress_first_pass leaves in the arrays.                           *)
LEMMA StoredIs ==
  ASSUME Shape, Given, coef.mode # "TRANSCODE", coef.iMCU_row_num \in Nat,
         coef.iMCU_row_num < total_iMCU_rows, DOMAIN coef.whole = Comps, NEW c \in Comps,
         DOMAIN coef.whole[c] = WholeBlocks(c),
         \A b \in WholeBlocks(c) :
           b[1] < coef.iMCU_row_num * v(c) => coef.whole[c][b] = Block(c, b[1], b[2])
  PROVE  /\ DOMAIN Stored[c] = WholeBlocks(c)
         /\ \A b \in WholeBlocks(c) :
              b[1] < (coef.iMCU_row_num + 1) * v(c) => Stored[c][b] = Block(c, b[1], b[2])
  <1> DEFINE p == coef.iMCU_row_num * v(c)
  <1>1. v(c) \in Nat \ {0} /\ p \in Nat /\ (coef.iMCU_row_num + 1) * v(c) = p + v(c)
    <2> DEFINE y == v(c)
               k == coef.iMCU_row_num
    <2>1. y \in Nat \ {0} /\ k \in Nat
      BY SamplingIs
    <2> HIDE DEF y, k
    <2>2. k * y \in Nat /\ (k + 1) * y = k * y + y
      BY ONLY <2>1
    <2>3. QED
      BY <2>1, <2>2 DEF y, k
  <1>2. Stored[c] = [b \in WholeBlocks(c) |->
                       IF b[1] - p \in 0 .. v(c) - 1 THEN FirstPass(c)[<<b[1] - p, b[2]>>]
                       ELSE coef.whole[c][b]]
    BY DEF Stored
  <1>3. ASSUME NEW b \in WholeBlocks(c), b[1] < (coef.iMCU_row_num + 1) * v(c)
        PROVE  Stored[c][b] = Block(c, b[1], b[2])
    <2>1. b[1] \in Nat /\ b[2] \in 0 .. Ceil(width_in_blocks(c), h(c)) * h(c) - 1
      <3>1. b[1] \in 0 .. Ceil(height_in_blocks(c), v(c)) * v(c) - 1
            /\ b[2] \in 0 .. Ceil(width_in_blocks(c), h(c)) * h(c) - 1
        BY Zenon DEF WholeBlocks
      <3>2. QED
        BY <3>1
    <2> HIDE DEF p
    <2>2. CASE b[1] < p
      <3>1. b[1] - p \notin 0 .. v(c) - 1
        BY <1>1, <2>1, <2>2
      <3>2. Stored[c][b] = coef.whole[c][b]
        BY <1>2, <3>1, Zenon
      <3>3. QED
        BY <2>2, <3>2 DEF p
    <2>3. CASE ~(b[1] < p)
      <3> DEFINE y == b[1] - p
      <3>1. y \in 0 .. v(c) - 1 /\ p + y = b[1]
        BY <1>1, <1>3, <2>1, <2>3
      <3> HIDE DEF y
      <3>2. Stored[c][b] = FirstPass(c)[<<y, b[2]>>]
        BY <1>2, <3>1, Zenon DEF y
      <3>3. FirstPass(c)[<<y, b[2]>>] = Block(c, p + y, b[2])
        BY <2>1, <3>1, FirstPassIs DEF p
      <3>4. QED
        BY <3>1, <3>2, <3>3
    <2>4. QED
      BY <2>2, <2>3
  <1>4. QED
    BY <1>2, <1>3
-----------------------------------------------------------------------------
(* The arrays, as far as n iMCU rows.                                       *)
Arrays(whole, n) ==
  /\ DOMAIN whole = Comps
  /\ \A c \in Comps : DOMAIN whole[c] = WholeBlocks(c)
  /\ \A c \in Comps : \A b \in WholeBlocks(c) :
       b[1] < n * v(c) => whole[c][b] = Block(c, b[1], b[2])

LEMMA ArraysAre ==
  WholeInv <=> (Writing /\ coef.mode \in {"SAVE_AND_PASS", "CRANK_DEST"} => Arrays(coef.whole, Kept))
  BY Zenon DEF WholeInv, Arrays

LEMMA ArraysNext ==
  WholeInv' <=>
    (Writing' /\ coef'.mode \in {"SAVE_AND_PASS", "CRANK_DEST"} => Arrays(coef.whole, Kept)')
  BY Zenon DEF WholeInv, Arrays

LEMMA ArraysKept ==
  ASSUME jobs' = jobs, job' = job
  PROVE  Arrays(coef.whole, Kept)' <=> Arrays(coef'.whole, Kept')
  <1>1. /\ Comps' = Comps
        /\ \A c : v(c)' = v(c)
        /\ \A c : WholeBlocks(c)' = WholeBlocks(c)
    BY ShapesKept
  <1>2. \A c, row, col : Block(c, row, col)' = Block(c, row, col)
    BY LinesKept
  <1>3. QED
    BY <1>1, <1>2, Zenon DEF Arrays

LEMMA ArraysLess ==
  ASSUME Shape, NEW whole, NEW n \in Int, NEW m \in Int, m <= n, Arrays(whole, n)
  PROVE  Arrays(whole, m)
  <1>1. ASSUME NEW c \in Comps, NEW b \in WholeBlocks(c), b[1] < m * v(c)
        PROVE  whole[c][b] = Block(c, b[1], b[2])
    <2>1. v(c) \in Nat
      BY ImageIs
    <2>2. m * v(c) <= n * v(c) /\ m * v(c) \in Int /\ n * v(c) \in Int
      BY <2>1, FactorKeeps
    <2>3. b[1] \in Int
      <3>1. b[1] \in 0 .. Ceil(height_in_blocks(c), v(c)) * v(c) - 1
        BY Zenon DEF WholeBlocks
      <3>2. QED
        BY <3>1
    <2> DEFINE p == m * v(c)
               q == n * v(c)
               r == b[1]
    <2>4. p \in Int /\ q \in Int /\ r \in Int /\ p <= q /\ r < p
      BY <1>1, <2>2, <2>3
    <2> HIDE DEF p, q, r
    <2>5. r < q
      BY <2>4
    <2>6. b[1] < n * v(c)
      BY <2>5 DEF q, r
    <2>7. QED
      BY <2>6, Zenon DEF Arrays
  <1>2. QED
    BY <1>1, Zenon DEF Arrays

LEMMA KeptIs ==
  ASSUME IInv, CourseInv, Writing
  PROVE  Kept \in Int /\ coef.iMCU_row_num \in Nat /\ total_iMCU_rows \in Nat
  <1>1. total_iMCU_rows \in Nat
    BY RowsIs DEF IInv
  <1>2. coef.iMCU_row_num \in Nat
    <2>1. CASE Between
      BY <1>1, <2>1 DEF CourseInv, Small
    <2>2. CASE ~Between
      BY <2>2 DEF CourseInv, Course, CountInv, CoefTyped
    <2>3. QED
      BY <2>1, <2>2
  <1>3. QED
    BY <1>1, <1>2 DEF Kept

LEMMA WholeFrame ==
  ASSUME IInv, IInv', CourseInv, CourseInv', WholeInv, jobs' = jobs, job' = job, Writing' => Writing,
         coef'.whole = coef.whole,
         Writing' /\ coef'.mode \in {"SAVE_AND_PASS", "CRANK_DEST"} =>
           coef.mode \in {"SAVE_AND_PASS", "CRANK_DEST"} /\ Kept' <= Kept
  PROVE  WholeInv'
  <1> SUFFICES ASSUME Writing', coef'.mode \in {"SAVE_AND_PASS", "CRANK_DEST"}
               PROVE  Arrays(coef.whole, Kept)'
    BY ArraysNext, Zenon
  <1>1. Arrays(coef.whole, Kept) /\ Kept' <= Kept /\ Kept \in Int /\ Shape
    <2>1. Kept \in Int
      BY KeptIs
    <2>2. QED
      BY <2>1, ArraysAre, Zenon DEF IInv
  <1>2. Kept' \in Int
    <2>1. (IInv /\ CourseInv /\ Writing => Kept \in Int)'
      BY KeptIs, PTL
    <2>2. QED
      BY <2>1
  <1>3. Arrays(coef.whole, Kept')
    <2> DEFINE n == Kept
               m == Kept'
    <2>1. n \in Int /\ m \in Int /\ m <= n /\ Arrays(coef.whole, n) /\ Shape
      BY <1>1, <1>2
    <2> HIDE DEF n, m
    <2>2. Arrays(coef.whole, m)
      BY <2>1, ArraysLess, Zenon
    <2>3. QED
      BY <2>2 DEF m
  <1>4. QED
    BY <1>3, ArraysKept, Zenon

(* compress_data of the first pass of several puts its iMCU row there.      *)
LEMMA GivenInMainPass ==
  ASSUME IInv, CourseInv, InputInv, BufferInv, Writing, MainPass, Ready = DCTSIZE,
         coef.mode # "TRANSCODE"
  PROVE  Given
  <1>1. J.input # "coefs"
    BY DEF InputInv, MainPass
  <1>2. QED
    BY <1>1, Zenon DEF Given, BufferInv

LEMMA CompressDataWhole ==
  ASSUME IInv, IInv', CourseInv, CourseInv', DataInv, CompressData PROVE WholeInv'
  <1>0. Course /\ CourseInv /\ Shape /\ InputInv /\ ModeInv /\ BufferInv /\ WholeInv
    BY Zenon DEF CourseInv, IInv, DataInv
  <1>1. /\ jobs' = jobs /\ job' = job /\ global_state' = global_state
        /\ call' = [call EXCEPT !.at = "mcu", !.y = coef.MCU_vert_offset, !.x = coef.mcu_ctr]
        /\ coef' = IF coef.mode = "SAVE_AND_PASS" THEN [coef EXCEPT !.whole = Stored] ELSE coef
    BY Zenon DEF CompressData, others
  <1>2. /\ call.at = "prep" /\ main.cur_iMCU_row < total_iMCU_rows /\ main.rowgroup_ctr = DCTSIZE
        \/ call.at = "compress"
    BY DEF CompressData
  <1>3. Writing /\ ~Between /\ CallTyped(call) /\ CoefTyped(coef) /\ Writing'
    <2>1. Writing /\ ~Between
      BY <1>0, <1>2, Running DEF Course
    <2>2. QED
      BY <1>0, <1>1, <2>1, Zenon DEF Course, CallInv, CountInv, Writing
  <1>4. call'.at = "mcu"
    BY <1>1, <1>3 DEF CallTyped
  <1>5. CASE coef.mode = "SAVE_AND_PASS"
    <2>1. global_state # "WRCOEFS" /\ call.op # "finish"
      <3>1. global_state # "WRCOEFS"
        BY <1>0, <1>3, <1>5 DEF ModeInv
      <3>2. master.pass_type = "main"
        BY <1>0, <1>3, <1>5, <3>1 DEF ModeInv
      <3>3. QED
        BY <1>0, <1>2, <1>3, <3>1, <3>2 DEF ModeInv
    <2>2. MainPass
      BY <1>3, <2>1 DEF MainPass, Writing
    <2>3. Ready = DCTSIZE /\ coef.iMCU_row_num < total_iMCU_rows
      <3>1. CASE call.at = "compress"
        <4>1. call.op = "raw"
          BY <1>3, <2>1, <3>1 DEF CallTyped
        <4>2. global_state = "RAW_OK"
          BY <1>0, <1>3, <4>1 DEF Course, CallInv
        <4>3. coef.iMCU_row_num < total_iMCU_rows
          BY <1>0, <1>3, <3>1 DEF Course, CountInv
        <4>4. QED
          BY <4>1, <4>2, <4>3 DEF Ready
      <3>2. CASE call.at = "prep"
        <4>1. call.op = "lines" /\ main.cur_iMCU_row < total_iMCU_rows /\ main.rowgroup_ctr = DCTSIZE
          BY <1>2, <1>3, <3>2 DEF CallTyped
        <4>2. global_state = "SCANNING"
          BY <1>0, <1>3, <4>1 DEF Course, CallInv
        <4>3. coef.iMCU_row_num = main.cur_iMCU_row
          BY <1>0, <1>3, <2>2, <4>2, Zenon DEF Course, RowsInv
        <4>4. QED
          BY <4>1, <4>2, <4>3 DEF Ready
      <3>3. QED
        BY <1>2, <3>1, <3>2
    <2>4. Given /\ coef.mode # "TRANSCODE"
      BY <1>0, <1>3, <1>5, <2>2, <2>3, GivenInMainPass
    <2>5. Kept = coef.iMCU_row_num /\ coef.iMCU_row_num \in Nat
      BY <1>2, <1>3, <1>5 DEF Kept, CoefTyped
    <2>6. Kept' = coef.iMCU_row_num + 1 /\ coef'.whole = Stored
      <3>1. coef'.whole = Stored /\ coef'.mode = "SAVE_AND_PASS" /\ coef'.iMCU_row_num = coef.iMCU_row_num
        BY <1>1, <1>3, <1>5 DEF CoefTyped
      <3>2. QED
        BY <1>4, <3>1 DEF Kept
    <2>7. Arrays(coef.whole, coef.iMCU_row_num)
      <3>1. Arrays(coef.whole, Kept)
        BY <1>0, <1>3, <1>5, ArraysAre
      <3>2. QED
        BY <2>5, <3>1, Zenon
    <2>8. Arrays(Stored, coef.iMCU_row_num + 1)
      <3>1. DOMAIN Stored = Comps
        BY DEF Stored
      <3>2. ASSUME NEW c \in Comps
            PROVE  /\ DOMAIN Stored[c] = WholeBlocks(c)
                   /\ \A b \in WholeBlocks(c) :
                        b[1] < (coef.iMCU_row_num + 1) * v(c) => Stored[c][b] = Block(c, b[1], b[2])
        <4>1. /\ DOMAIN coef.whole = Comps /\ DOMAIN coef.whole[c] = WholeBlocks(c)
              /\ \A b \in WholeBlocks(c) :
                   b[1] < coef.iMCU_row_num * v(c) => coef.whole[c][b] = Block(c, b[1], b[2])
          BY <2>7, Zenon DEF Arrays
        <4>2. QED
          BY <1>0, <2>3, <2>4, <2>5, <4>1, StoredIs, Zenon
      <3>3. QED
        BY <3>1, <3>2, Zenon DEF Arrays
    <2>9. Arrays(coef.whole, Kept)'
      BY <1>1, <2>6, <2>8, ArraysKept, Zenon
    <2>10. QED
      <3>1. WholeInv' <=> (Writing' /\ coef'.mode \in {"SAVE_AND_PASS", "CRANK_DEST"} =>
                             Arrays(coef.whole, Kept)')
        BY ArraysNext, Zenon
      <3>2. QED
        BY <2>9, <3>1
  <1>6. CASE coef.mode # "SAVE_AND_PASS"
    <2>1. coef' = coef
      BY <1>1, <1>6
    <2>2. coef.mode = "CRANK_DEST" => Kept' = Kept
      <3>1. total_iMCU_rows' = total_iMCU_rows
        BY <1>1, ImageKept, Zenon
      <3>2. QED
        BY <2>1, <3>1 DEF Kept
    <2>3. Kept \in Int
      BY <1>3, KeptIs
    <2>4. Writing' /\ coef'.mode \in {"SAVE_AND_PASS", "CRANK_DEST"} =>
            coef.mode \in {"SAVE_AND_PASS", "CRANK_DEST"} /\ Kept' <= Kept
      BY <1>6, <2>1, <2>2, <2>3
    <2>5. QED
      BY <1>0, <1>1, <1>3, <2>1, <2>4, WholeFrame, Zenon
  <1>7. QED
    BY <1>5, <1>6

(* The steps that do not touch the arrays.                                  *)
LEMMA KeepsWhole ==
  ASSUME IInv, IInv', CourseInv, CourseInv', WholeInv, jobs' = jobs, job' = job,
         Writing' => Writing /\ global_state' = global_state,
         coef'.whole = coef.whole, coef'.mode = coef.mode,
         Writing' /\ coef.mode \in {"SAVE_AND_PASS", "CRANK_DEST"} =>
           \/ coef.mode = "CRANK_DEST"
           \/ /\ call'.at # "passes"
              /\ \/ coef'.iMCU_row_num = coef.iMCU_row_num /\ (call'.at = "mcu" => call.at = "mcu")
                 \/ /\ coef'.iMCU_row_num = coef.iMCU_row_num + 1
                    /\ call.at = "mcu" /\ call'.at # "mcu"
              /\ call.at # "passes"
           \/ /\ call'.at = "passes"
              /\ \/ call.at = "passes"
                 \/ coef.iMCU_row_num = total_iMCU_rows /\ call.at # "mcu"
  PROVE  WholeInv'
  <1>1. total_iMCU_rows' = total_iMCU_rows
    BY ImageKept, Zenon
  <1>2. ASSUME Writing', coef'.mode \in {"SAVE_AND_PASS", "CRANK_DEST"}
        PROVE  coef.mode \in {"SAVE_AND_PASS", "CRANK_DEST"} /\ Kept' <= Kept
    <2>1. coef.iMCU_row_num \in Nat /\ total_iMCU_rows \in Nat
      BY <1>2, KeptIs
    <2>2. QED
      BY <1>1, <1>2, <2>1 DEF Kept
  <1>3. QED
    BY <1>2, WholeFrame, Zenon

(* Another pass: the arrays are full.                                       *)
LEMMA NextPassWhole ==
  ASSUME IInv, IInv', CourseInv, CourseInv', ModeInv, WholeInv, NextPass PROVE WholeInv'
  <1>0. Course /\ PassInv /\ Shape /\ CallInv
    BY Zenon DEF CourseInv, IInv, Course
  <1>1. /\ jobs' = jobs /\ job' = job /\ global_state' = global_state
        /\ call.at = "passes" /\ ~master.is_last_pass /\ call' = [call EXCEPT !.at = "compress"]
        /\ coef' = NewCoef(IF coef.mode = "TRANSCODE" THEN coef.mode ELSE "CRANK_DEST", coef.whole)
    BY Zenon DEF NextPass, others
  <1>2. Writing /\ Between
    BY <1>0, NextPassPass
  <1>3. coef'.whole = coef.whole
        /\ coef'.mode = IF coef.mode = "TRANSCODE" THEN "TRANSCODE" ELSE "CRANK_DEST"
    BY <1>1 DEF NewCoef
  <1>4. CASE coef.mode = "TRANSCODE"
    <2>1. coef'.mode \notin {"SAVE_AND_PASS", "CRANK_DEST"}
      BY <1>3, <1>4
    <2>2. QED
      BY <2>1, Zenon DEF WholeInv
  <1>5. CASE coef.mode # "TRANSCODE"
    <2>1. global_state # "WRCOEFS"
      BY <1>2, <1>5, Zenon DEF ModeInv
    <2>2. total_passes > 1
      <3>1. /\ Len(script) \in Nat \ {0}
            /\ total_passes = (IF optimize_coding THEN 2 * Len(script) ELSE Len(script))
        BY <1>0, <1>2, ScriptIs DEF PassInv
      <3>2. /\ master.pass_number # total_passes /\ master.pass_number <= total_passes
            /\ file.scan = master.scan_number - 1
            /\ ~optimize_coding => master.pass_number = master.scan_number - 1
        BY <1>0, <1>1, <1>2 DEF PassInv, PassOK
      <3>3. master.scan_number \in Nat \ {0}
        BY DEF IInv, Shape, MasterOK
      <3>4. CASE ~optimize_coding /\ master.scan_number = 1
        <4>1. file.scan = 0
          BY <3>2, <3>4
        <4>2. call = NoCall
          BY <1>2, <2>1, <3>4, <4>1, Zenon DEF IInv, Beginning
        <4>3. QED
          BY <1>1, <4>2 DEF NoCall
      <3>5. QED
        BY <3>1, <3>2, <3>3, <3>4
    <2>3. coef.mode \in {"CRANK_DEST", "SAVE_AND_PASS"}
      BY <1>2, <2>1, <2>2, Zenon DEF ModeInv
    <2>4. Kept = total_iMCU_rows /\ Kept' = total_iMCU_rows' /\ total_iMCU_rows' = total_iMCU_rows
      <3>1. coef'.mode = "CRANK_DEST"
        BY <1>3, <1>5
      <3>2. total_iMCU_rows' = total_iMCU_rows
        BY <1>1, ImageKept, Zenon
      <3>3. QED
        BY <1>1, <3>1, <3>2 DEF Kept
    <2>5. Kept' <= Kept
      <3>1. total_iMCU_rows \in Nat
        BY <1>0, RowsIs
      <3>2. QED
        BY <2>4, <3>1
    <2>6. QED
      BY <1>1, <1>2, <1>3, <2>3, <2>5, WholeFrame, Zenon
  <1>6. QED
    BY <1>4, <1>5

(* A new image, whose arrays are empty.                                     *)
LEMMA StartCompressWhole ==
  ASSUME IInv, StartCompress PROVE WholeInv'
  <1>0. Shape
    BY Zenon DEF IInv
  <1>1. SUFFICES ASSUME Writing', coef'.mode \in {"SAVE_AND_PASS", "CRANK_DEST"}
                 PROVE  Arrays(coef.whole, Kept)'
    BY ArraysNext, Zenon
  <1>2. validate_script(script, Len(J.comps))
    BY <1>1 DEF StartCompress, Writing
  <1>3. /\ jobs' = jobs /\ job' = job /\ call' = call /\ call = NoCall
        /\ coef' = NewCoef(IF total_passes > 1 THEN "SAVE_AND_PASS" ELSE "PASS_THRU", NewWhole)
    BY <1>2, Zenon DEF StartCompress, Idle
  <1>4. total_passes > 1 /\ coef'.mode = "SAVE_AND_PASS" /\ coef'.whole = NewWhole
        /\ coef'.iMCU_row_num = 0
    BY <1>1, <1>3 DEF NewCoef
  <1>5. Kept' = 0
    BY <1>3, <1>4 DEF Kept, NoCall
  <1>6. DOMAIN NewWhole = Comps /\ \A c \in Comps : DOMAIN NewWhole[c] = WholeBlocks(c)
    BY <1>4 DEF NewWhole, WholeBlocks
  <1>7. ASSUME NEW c \in Comps, NEW b \in WholeBlocks(c) PROVE ~(b[1] < 0 * v(c))
    <2>1. v(c) \in Nat
      BY <1>0, ImageIs
    <2>2. b[1] \in 0 .. Ceil(height_in_blocks(c), v(c)) * v(c) - 1
      BY Zenon DEF WholeBlocks
    <2>3. QED
      BY <2>1, <2>2
  <1>8. Arrays(NewWhole, 0)
    BY <1>6, <1>7, Zenon DEF Arrays
  <1>9. QED
    BY <1>3, <1>4, <1>5, <1>8, ArraysKept, Zenon

LEMMA WholeStep ==
  ASSUME IInv, IInv', CourseInv, CourseInv', DataInv, [Next]_vars PROVE WholeInv'
  <1>0. Course /\ WholeInv /\ ModeInv /\ CallInv /\ CallTyped(call) /\ CountInv
    BY Zenon DEF CourseInv, DataInv, Course, CallInv
  <1> SUFFICES ASSUME Writing' PROVE WholeInv'
    BY Zenon DEF WholeInv
  <1>1. CASE CompressData
    BY <1>1, CompressDataWhole
  <1>2. CASE NextPass
    BY <1>0, <1>2, NextPassWhole
  <1>3. CASE StartCompress
    BY <1>3, StartCompressWhole
  <1>4. CASE WriteCoefficients
    <2>1. coef'.mode = "TRANSCODE"
      BY <1>4 DEF WriteCoefficients, NewCoef, Writing
    <2>2. QED
      BY <2>1 DEF WholeInv
  <1>5. CASE Preprocess \/ LinesDone \/ EncodeMCU \/ SuspendMCU \/ RowCompressed
    <2>1. /\ coef'.mode = coef.mode /\ CoefTyped(coef) /\ Writing
          /\ call.at \in {"prep", "compress", "mcu"}
      BY <1>0, <1>5, ModeStays
    <2>2. jobs' = jobs /\ job' = job /\ (global_state' = global_state \/ global_state' = "ERROR")
      BY <1>5 DEF Preprocess, LinesDone, EncodeMCU, SuspendMCU, RowCompressed, others
    <2>3. /\ coef'.whole = coef.whole
          /\ IF RowCompressed THEN coef'.iMCU_row_num = coef.iMCU_row_num + 1
             ELSE coef'.iMCU_row_num = coef.iMCU_row_num
      <3>1. \/ ~RowCompressed /\ coef' = coef
            \/ ~RowCompressed /\ coef' = [coef EXCEPT !.mcu_ctr = 0]
            \/ ~RowCompressed /\ coef' = [coef EXCEPT !.MCU_vert_offset = call.y, !.mcu_ctr = call.x]
            \/ /\ RowCompressed
               /\ coef' = [coef EXCEPT !.iMCU_row_num = @ + 1, !.mcu_ctr = 0, !.MCU_vert_offset = 0]
        <4>1. CASE RowCompressed
          BY <4>1, Zenon DEF RowCompressed
        <4>2. CASE ~RowCompressed
          BY <1>5, <4>2, Zenon DEF Preprocess, LinesDone, EncodeMCU, SuspendMCU, engine, SuspendedAt
        <4>3. QED
          BY <4>1, <4>2
      <3>2. QED
        BY <2>1, <3>1 DEF CoefTyped
    <2>4. /\ RowCompressed => call.at = "mcu" /\ call'.at # "mcu" /\ call'.at # "passes"
          /\ ~RowCompressed => call'.at # "passes" /\ (call'.at = "mcu" => call.at = "mcu")
      <3>1. CASE RowCompressed
        <4>1. call.at = "mcu" /\ call.op \in {"lines", "raw", "finish"}
          BY <1>0, <3>1 DEF RowCompressed, CallTyped
        <4>2. CASE call.op = "lines"
          <5>1. call' = [call EXCEPT !.at = "prep", !.row_ctr = IF main.suspended THEN @ + 1 ELSE @]
            BY <3>1, <4>2 DEF RowCompressed
          <5>2. QED
            BY <1>0, <3>1, <4>1, <5>1 DEF CallTyped
        <4>3. CASE call.op = "raw"
          BY <3>1, <4>1, <4>3 DEF RowCompressed, NoCall
        <4>4. CASE call.op = "finish"
          <5>1. call' = [call EXCEPT !.at = IF coef.iMCU_row_num + 1 < total_iMCU_rows
                                           THEN "compress" ELSE "finish_pass"]
            BY <3>1, <4>4 DEF RowCompressed
          <5>2. QED
            BY <1>0, <3>1, <4>1, <5>1 DEF CallTyped
        <4>5. QED
          BY <4>1, <4>2, <4>3, <4>4
      <3>2. CASE LinesDone \/ SuspendMCU
        <4>1. call' = NoCall
          BY <3>2 DEF LinesDone, SuspendMCU
        <4>2. RowCompressed => call.at = "mcu" /\ call'.at # "mcu" /\ call'.at # "passes"
          BY <4>1 DEF RowCompressed, NoCall
        <4>3. QED
          BY <4>1, <4>2 DEF NoCall
      <3>3. CASE Preprocess
        BY <1>0, <3>1, <3>3 DEF Preprocess, CallTyped
      <3>4. CASE EncodeMCU
        BY <1>0, <3>1, <3>4 DEF EncodeMCU, MCUStep, CallTyped
      <3>5. QED
        BY <1>5, <3>1, <3>2, <3>3, <3>4
    <2>5. \/ /\ coef'.iMCU_row_num = coef.iMCU_row_num /\ (call'.at = "mcu" => call.at = "mcu")
          \/ /\ coef'.iMCU_row_num = coef.iMCU_row_num + 1
             /\ call.at = "mcu" /\ call'.at # "mcu"
      BY <2>3, <2>4
    <2>6. call'.at # "passes" /\ call.at # "passes" /\ global_state' = global_state
      BY <2>1, <2>2, <2>4 DEF Writing
    <2>7. QED
      BY <1>0, <2>1, <2>2, <2>3, <2>5, <2>6, KeepsWhole, Zenon
  <1>6. CASE WriteMarker \/ WriteScanlines \/ WriteRawData \/ UNCHANGED vars
    <2>1. jobs' = jobs /\ job' = job /\ global_state' = global_state /\ coef' = coef
      BY <1>6, Zenon DEF WriteMarker, WriteScanlines, WriteRawData, vars, engine
    <2>2. /\ call'.at = "mcu" => call.at = "mcu"
          /\ call'.at = "passes" <=> call.at = "passes"
      <3>1. CASE WriteMarker \/ UNCHANGED vars
        BY <3>1 DEF WriteMarker, vars
      <3>2. CASE WriteScanlines \/ WriteRawData
        <4>1. call = NoCall /\ call'.at \in {"prep", "compress"}
          <5>1. CASE WriteScanlines
            BY <5>1 DEF WriteScanlines, NoCall, Idle
          <5>2. CASE WriteRawData
            BY <5>2 DEF WriteRawData, NoCall, Idle
          <5>3. QED
            BY <3>2, <5>1, <5>2
        <4>2. QED
          BY <4>1 DEF NoCall
      <3>3. QED
        BY <1>6, <3>1, <3>2
    <2>3. Writing
      BY <2>1 DEF Writing
    <2>4. QED
      BY <1>0, <2>1, <2>2, <2>3, KeepsWhole, Zenon
  <1>7. CASE FinishPass
    <2>1. /\ jobs' = jobs /\ job' = job /\ global_state' = global_state /\ coef' = coef
          /\ call.at = "finish_pass" /\ call' = [call EXCEPT !.at = "passes"]
      BY <1>7, Zenon DEF FinishPass, others
    <2>2. Writing /\ ~Between
      BY <1>0, <2>1, Running
    <2>3. coef.iMCU_row_num = total_iMCU_rows /\ call'.at = "passes"
      BY <1>0, <2>1, <2>2 DEF CountInv, CallTyped
    <2>4. QED
      BY <1>0, <2>1, <2>2, <2>3, KeepsWhole, Zenon
  <1>8. CASE FinishCompress
    <2>1. /\ jobs' = jobs /\ job' = job /\ global_state' = global_state /\ coef' = coef /\ call = NoCall
          /\ Writing
      BY <1>8, Zenon DEF FinishCompress, engine, Idle, Writing
    <2>2. CASE global_state = "WRCOEFS"
      <3>1. coef'.mode = "TRANSCODE"
        BY <1>0, <2>1, <2>2, Zenon DEF ModeInv
      <3>2. QED
        BY <3>1 DEF WholeInv
    <2>3. CASE global_state # "WRCOEFS"
      <3>1. call'.at = "finish_pass" /\ call.at = "none"
        BY <1>8, <2>1, <2>3 DEF FinishCompress, NoCall
      <3>2. QED
        BY <1>0, <2>1, <3>1, KeepsWhole, Zenon
    <2>4. QED
      BY <2>2, <2>3
  <1>9. CASE NextJob \/ WriteTables \/ ReadCoefficients \/ CopyCriticalParameters \/ Trailer
    BY <1>9 DEF NextJob, WriteTables, ReadCoefficients, CopyCriticalParameters, Trailer, Idle, Writing
  <1>10. QED
    BY <1>1, <1>2, <1>3, <1>4, <1>5, <1>6, <1>7, <1>8, <1>9, Zenon DEF Next, Library, Application
-----------------------------------------------------------------------------
(* An MCU: where its blocks are. The MCU at (y, x) of an iMCU row begins at *)
(* row coef.iMCU_row_num * v(c) + y and column x * MCU_width(c) of blocks,  *)
(* and this first block is in the image.                                    *)
InMCU(c, y, x) ==
  /\ y \in Nat /\ x \in Nat /\ y + MCU_height(c) <= v(c) /\ y < RowsOf(c)
  /\ x < MCUs_per_row
  /\ coef.iMCU_row_num \in Nat /\ coef.iMCU_row_num < total_iMCU_rows
  /\ ~Interleaved => c = Scan.comps[1]

LEMMA SizeOfMCU ==
  ASSUME Shape, NEW c \in Comps
  PROVE  MCU_width(c) \in Nat \ {0} /\ MCU_height(c) \in Nat \ {0}
  <1>1. h(c) \in Nat \ {0} /\ v(c) \in Nat \ {0}
    BY ImageIs
  <1>2. QED
    BY <1>1 DEF MCU_width, MCU_height

(* The columns of an MCU that are in the image.                             *)
ColsOf(c, x) == IF x < MCUs_per_row - 1 THEN MCU_width(c) ELSE last_col_width(c)

LEMMA ColsInImage ==
  ASSUME Shape, NEW c \in Comps, NEW y, NEW x, InMCU(c, y, x), NEW j \in 0 .. MCU_width(c) - 1
  PROVE  /\ ColsOf(c, x) \in Nat \ {0}
         /\ j < ColsOf(c, x) <=> x * MCU_width(c) + j < width_in_blocks(c)
         /\ x * MCU_width(c) + j \in Nat
         /\ x * MCU_width(c) + j \in 0 .. Ceil(width_in_blocks(c), h(c)) * h(c) - 1
  <1> DEFINE W == width_in_blocks(c)
             w == MCU_width(c)
             n == Ceil(W, h(c))
  <1>1. W \in Nat \ {0} /\ h(c) \in Nat \ {0} /\ Ceil(W, h(c)) = Ceil(J.width, MaxH * DCTSIZE)
    <2>1. h(c) \in Nat \ {0}
      BY ImageIs
    <2>2. QED
      BY <2>1, BlocksIs
  <1>2. x \in Nat /\ w \in Nat \ {0} /\ x < MCUs_per_row /\ j \in 0 .. w - 1
    <2>1. w \in Nat \ {0}
      BY SizeOfMCU
    <2>2. QED
      BY <2>1 DEF InMCU
  <1> HIDE DEF W
  <1>3. n \in Nat \ {0} /\ (n - 1) * h(c) < W /\ W <= n * h(c) /\ n * h(c) \in Nat
    <2>1. n \in Nat \ {0} /\ (n - 1) * h(c) < W /\ W <= n * h(c)
      BY <1>1, CeilIs
    <2>2. QED
      BY <1>1, <2>1
  <1>4. CASE Interleaved
    <2>1. w = h(c) /\ MCUs_per_row = n
      BY <1>1, <1>4, Zenon DEF MCU_width, MCUs_per_row
    <2> DEFINE L == LastOr(W, h(c))
    <2>2. L \in 1 .. h(c) /\ W = (n - 1) * h(c) + L
      BY <1>1, LastOrIs
    <2>3. ColsOf(c, x) = IF x < n - 1 THEN h(c) ELSE L
      BY <1>4, <2>1, Zenon DEF ColsOf, last_col_width, W
    <2> HIDE DEF L, n, w
    <2>4. CASE x = n - 1
      <3> DEFINE p == (n - 1) * h(c)
      <3>1. p \in Nat /\ n * h(c) = p + h(c) /\ x * w = p
        BY <1>1, <1>3, <2>1, <2>4
      <3>2. W = p + L
        BY <2>2
      <3> HIDE DEF p
      <3>3. QED
        BY <1>1, <1>2, <1>3, <2>1, <2>2, <2>3, <2>4, <3>1, <3>2 DEF W, n, w
    <2>5. CASE x < n - 1
      <3> DEFINE p == (n - 1) * h(c)
                 q == x * h(c)
      <3>1. p \in Nat /\ n * h(c) = p + h(c) /\ q \in Nat /\ q + h(c) <= p
        <4>1. (x + 1) * h(c) <= (n - 1) * h(c) /\ (x + 1) * h(c) = x * h(c) + h(c)
          BY <1>1, <1>2, <1>3, <2>5, FactorKeeps
        <4>2. QED
          BY <1>1, <1>2, <1>3, <4>1
      <3>2. W = p + L /\ x * w = q
        BY <2>1, <2>2
      <3> HIDE DEF p, q
      <3>3. QED
        BY <1>1, <1>2, <1>3, <2>1, <2>2, <2>3, <2>5, <3>1, <3>2 DEF W, n, w
    <2>6. QED
      BY <1>2, <1>3, <2>1, <2>4, <2>5
  <1>5. CASE ~Interleaved
    <2>1. w = 1 /\ c = Scan.comps[1]
      BY <1>5, Zenon DEF MCU_width, InMCU
    <2>2. MCUs_per_row = W /\ ColsOf(c, x) = 1 /\ w = 1
      BY <1>5, <2>1, Zenon DEF MCUs_per_row, ColsOf, last_col_width, W
    <2>3. j = 0 /\ x * w = x /\ x < W /\ x * w + j = x
      BY <1>2, <2>2
    <2> DEFINE p == n * h(c)
    <2>4. p \in Nat /\ W <= p
      BY <1>3
    <2> HIDE DEF n, w, p
    <2>5. ColsOf(c, x) \in Nat \ {0} /\ (j < ColsOf(c, x) <=> x * w + j < W) /\ x * w + j \in 0 .. p - 1
      BY <1>1, <1>2, <2>2, <2>3, <2>4
    <2>6. QED
      BY <1>2, <2>3, <2>5 DEF W, n, w, p
  <1>6. QED
    BY <1>4, <1>5

(* The rows of an MCU that are in the image.                                *)
HeightOf(c, y) == IF coef.iMCU_row_num < total_iMCU_rows - 1 THEN MCU_height(c)
                  ELSE Least(MCU_height(c), last_row_height(c) - y)

LEMMA RowsOfMCU ==
  ASSUME Shape, NEW c \in Comps, NEW y, NEW x, InMCU(c, y, x), NEW i \in 0 .. MCU_height(c) - 1
  PROVE  /\ HeightOf(c, y) \in Nat \ {0} /\ y + i \in 0 .. v(c) - 1
         /\ i < HeightOf(c, y) <=> coef.iMCU_row_num * v(c) + y + i < height_in_blocks(c)
         /\ coef.iMCU_row_num * v(c) + y + i \in Nat
         /\ coef.iMCU_row_num * v(c) + (y + i) = coef.iMCU_row_num * v(c) + y + i
         /\ coef.iMCU_row_num * v(c) + y + i < (coef.iMCU_row_num + 1) * v(c)
         /\ coef.iMCU_row_num * v(c) + y + i \in 0 .. Ceil(height_in_blocks(c), v(c)) * v(c) - 1
  <1> DEFINE t == MCU_height(c)
             r == coef.iMCU_row_num
             T == total_iMCU_rows
             V == v(c)
             L == last_row_height(c)
             H == height_in_blocks(c)
  <1>1. t \in Nat \ {0} /\ i \in 0 .. t - 1
    BY SizeOfMCU
  <1>2. y \in Nat /\ y + t <= V /\ y < RowsOf(c) /\ r \in Nat /\ r < T
    BY DEF InMCU
  <1>3. V \in Nat \ {0} /\ T \in Nat \ {0} /\ L \in 1 .. V /\ Ceil(H, V) = T
    <2>1. V \in Nat \ {0}
      BY ImageIs
    <2>2. T \in Nat \ {0}
      BY RowsIs
    <2>3. QED
      BY <2>1, <2>2, BlocksIs
  <1>4. RowsOf(c) = IF r < T - 1 THEN V ELSE L
    BY Zenon DEF RowsOf
  <1>5. HeightOf(c, y) = IF r < T - 1 THEN t ELSE IF t < L - y THEN t ELSE L - y
    BY Zenon DEF HeightOf, Least
  <1>6. y + i \in 0 .. V - 1
    <2> HIDE DEF t, V
    <2>1. y + i \in 0 .. V - 1
      BY <1>1, <1>2, <1>3
    <2>2. QED
      BY <2>1
  <1>7. y + i < RowsOf(c) <=> r * V + (y + i) < H
    BY <1>2, <1>6, RowsInImage
  <1> DEFINE p == r * V
             q == (r + 1) * V
             u == T * V
  <1>8. p \in Nat /\ q = p + V /\ q <= u /\ u \in Nat
    <2>1. r \in Nat /\ r + 1 <= T /\ T \in Nat /\ V \in Nat
      BY <1>2, <1>3
    <2> HIDE DEF r, T, V
    <2>2. q <= u
      BY <2>1, FactorKeeps
    <2>3. QED
      BY <2>1, <2>2
  <1>9. H \in Nat
    BY BlocksIs
  <1> HIDE DEF t, r, T, V, L, H, p, q, u
  <1>10. p + (y + i) = p + y + i /\ p + y + i \in Nat /\ p + y + i < q /\ p + y + i \in 0 .. u - 1
    BY <1>1, <1>2, <1>3, <1>6, <1>8
  <1>11. i < HeightOf(c, y) <=> y + i < RowsOf(c)
    BY <1>1, <1>2, <1>3, <1>4, <1>5, <1>6
  <1>12. HeightOf(c, y) \in Nat \ {0}
    BY <1>1, <1>2, <1>3, <1>4, <1>5
  <1>13. i < HeightOf(c, y) <=> p + y + i < H
    BY <1>7, <1>10, <1>11 DEF p
  <1>14. QED
    BY <1>3, <1>6, <1>10, <1>12, <1>13 DEF r, V, H, p, q, u

(* Block b of an MCU: row and column.                                       *)
LEMMA PlaceInMCU ==
  ASSUME NEW w \in Nat \ {0}, NEW t \in Nat \ {0}, NEW b \in 1 .. w * t
  PROVE  /\ (b - 1) \div w \in 0 .. t - 1 /\ (b - 1) % w \in 0 .. w - 1
         /\ b - 1 = ((b - 1) \div w) * w + ((b - 1) % w)
  <1> DEFINE q == (b - 1) \div w
             r == (b - 1) % w
             m == b - 1
  <1>1. m \in Nat /\ q \in Nat /\ r \in 0 .. w - 1 /\ m = q * w + r /\ m < t * w
    <2>1. w * t \in Nat /\ w * t = t * w
      OBVIOUS
    <2>2. b \in Nat /\ b >= 1 /\ b <= w * t
      BY <2>1
    <2>3. m \in Nat /\ m < t * w
      BY <2>1, <2>2
    <2>4. QED
      BY <2>3
  <1> HIDE DEF q, r, m
  <1>2. q * w < t * w /\ q * w \in Nat /\ t * w \in Nat
    <2>1. q * w \in Nat /\ t * w \in Nat
      BY <1>1
    <2>2. QED
      BY <1>1, <2>1
  <1>3. q < t
    BY <1>1, <1>2, LessFactor
  <1>4. QED
    BY <1>1, <1>3 DEF q, r, m
-----------------------------------------------------------------------------
(* The blocks of an MCU are what they should be.                            *)
RealAt(c, y, x, b) ==
  /\ coef.iMCU_row_num * v(c) + y + ((b - 1) \div MCU_width(c)) < height_in_blocks(c)
  /\ x * MCU_width(c) + ((b - 1) % MCU_width(c)) < width_in_blocks(c)
DataAt(c, y, x, b) ==
  Data(c, coef.iMCU_row_num * v(c) + y + ((b - 1) \div MCU_width(c)),
       x * MCU_width(c) + ((b - 1) % MCU_width(c)))
RightBlocks(c, y, x, blocks) ==
  /\ DOMAIN blocks = 1 .. MCU_width(c) * MCU_height(c)
  /\ \A b \in 1 .. MCU_width(c) * MCU_height(c) :
       IF RealAt(c, y, x, b) THEN blocks[b] = [dc |-> DataAt(c, y, x, b), ac |-> DataAt(c, y, x, b)]
       ELSE blocks[b] = Dummy(blocks[b - 1])

(* Block (i, j) of an MCU that is kept in the arrays.                       *)
BlockAt(c, y, x, i, j) ==
  Block(c, coef.iMCU_row_num * v(c) + y + i, x * MCU_width(c) + j)

LEMMA BlockBefore ==
  ASSUME Shape, NEW c \in Comps, NEW y, NEW x, InMCU(c, y, x),
         NEW i \in 0 .. MCU_height(c) - 1, NEW j \in 1 .. MCU_width(c) - 1,
         ~(/\ coef.iMCU_row_num * v(c) + y + i < height_in_blocks(c)
           /\ x * MCU_width(c) + j < width_in_blocks(c))
  PROVE  BlockAt(c, y, x, i, j) = Dummy(BlockAt(c, y, x, i, j - 1))
  <1> DEFINE row == coef.iMCU_row_num * v(c) + y + i
             w == MCU_width(c)
             p == x * w
             W == width_in_blocks(c)
             H == height_in_blocks(c)
  <1>1. w \in Nat \ {0} /\ x \in Nat /\ W \in Nat \ {0} /\ p \in Nat
    <2>1. w \in Nat \ {0} /\ x \in Nat
      BY SizeOfMCU DEF InMCU
    <2>2. QED
      BY <2>1, BlocksIs
  <1>2. w = h(c)
    <2>1. w # 1
      <3> HIDE DEF w
      <3>1. j \in 1 .. w - 1
        BY DEF w
      <3>2. QED
        BY <1>1, <3>1
    <2>2. QED
      BY <2>1 DEF MCU_width
  <1>3. (p + j) \div w = x /\ (p + (j - 1)) \div w = x
    <2> DEFINE j2 == j - 1
               m == p + j
               m2 == p + j2
    <2>1. m \in Nat /\ m2 \in Nat /\ m = x * w + j /\ m2 = x * w + j2 /\ j \in 0 .. w - 1 /\ j2 \in 0 .. w - 1
      BY <1>1
    <2> HIDE DEF w, p, j2, m, m2
    <2>2. m \div w = x /\ m2 \div w = x
      BY <1>1, <2>1, DivisionUnique
    <2>3. QED
      BY <2>2 DEF m, m2, j2
  <1> DEFINE e == x * h(c) + h(c) - 1
             d(k) == IF row < H THEN Data(c, row, Least(k, W - 1))
                     ELSE Data(c, H - 1, Least((k \div h(c)) * h(c) + h(c) - 1, W - 1))
  <1>4. \A k : Block(c, row, k) = [dc |-> d(k), ac |-> IF row < H /\ k < W THEN d(k) ELSE <<>>]
    <2> HIDE DEF row
    <2>1. QED
      BY Zenon DEF Block
  <1>5. d(p + j) = d(p + (j - 1))
    <2>1. CASE row < H
      <3>1. ~(p + j < W)
        BY <2>1
      <3>2. Least(p + j, W - 1) = W - 1 /\ Least(p + (j - 1), W - 1) = W - 1
        <4> HIDE DEF p, W
        <4>1. j \in Nat
          OBVIOUS
        <4>2. QED
          BY <1>1, <3>1, <4>1 DEF Least
      <3> HIDE DEF row, p, W, H
      <3>3. QED
        BY <2>1, <3>2
    <2>2. CASE ~(row < H)
      <3> HIDE DEF row, p, W, H
      <3>1. QED
        BY <1>2, <1>3, <2>2
    <2>3. QED
      BY <2>1, <2>2
  <1>6. ~(row < H /\ p + j < W)
    OBVIOUS
  <1> HIDE DEF d, row, H, W
  <1>7. Block(c, row, p + j) = [dc |-> d(p + (j - 1)), ac |-> <<>>]
    BY <1>4, <1>5, <1>6
  <1>8. Block(c, row, p + (j - 1)).dc = d(p + (j - 1))
    BY <1>4
  <1>9. BlockAt(c, y, x, i, j) = Block(c, row, p + j)
        /\ BlockAt(c, y, x, i, j - 1) = Block(c, row, p + (j - 1))
    BY DEF BlockAt, row
  <1> HIDE DEF p
  <1>10. QED
    BY <1>7, <1>8, <1>9 DEF Dummy

LEMMA BlockAbove ==
  ASSUME Shape, NEW c \in Comps, NEW y, NEW x, InMCU(c, y, x),
         NEW i \in 1 .. MCU_height(c) - 1,
         ~(/\ coef.iMCU_row_num * v(c) + y + i < height_in_blocks(c)
           /\ x * MCU_width(c) + 0 < width_in_blocks(c))
  PROVE  BlockAt(c, y, x, i, 0) = Dummy(BlockAt(c, y, x, i - 1, MCU_width(c) - 1))
  <1> DEFINE r == coef.iMCU_row_num * v(c) + y
             row == r + i
             w == MCU_width(c)
             p == x * w
             W == width_in_blocks(c)
             H == height_in_blocks(c)
  <1>1. /\ w \in Nat \ {0} /\ x \in Nat /\ W \in Nat \ {0} /\ H \in Nat \ {0} /\ p \in Nat
        /\ i \in Nat \ {0}
    <2>1. w \in Nat \ {0} /\ x \in Nat /\ i \in Nat \ {0}
      BY SizeOfMCU DEF InMCU
    <2>2. QED
      BY <2>1, BlocksIs
  <1>2. r \in Int
    <2>1. r + 0 \in Nat
      <3>1. 0 \in 0 .. MCU_height(c) - 1
        BY SizeOfMCU
      <3>2. QED
        BY <3>1, RowsOfMCU
    <2>2. v(c) \in Nat /\ coef.iMCU_row_num \in Nat /\ y \in Nat
      BY ImageIs DEF InMCU
    <2>3. QED
      BY <2>2
  <1>3. w = h(c)
    <2>1. Interleaved
      <3>1. MCU_height(c) # 1
        <4> DEFINE t == MCU_height(c)
        <4>1. i \in 1 .. t - 1
          OBVIOUS
        <4> HIDE DEF t
        <4>2. t # 1
          BY <4>1
        <4>3. QED
          BY <4>2 DEF t
      <3>2. QED
        BY <3>1 DEF MCU_height
    <2>2. QED
      BY <2>1 DEF MCU_width
  <1>4. p + 0 < W
    <2>1. 0 \in 0 .. w - 1
      BY <1>1
    <2>2. ColsOf(c, x) \in Nat \ {0} /\ (0 < ColsOf(c, x) <=> p + 0 < W)
      BY <2>1, ColsInImage
    <2>3. QED
      BY <2>2
  <1>5. ~(row < H)
    BY <1>4
  <1>6. (p + 0) \div w = x /\ (p + (w - 1)) \div w = x
    <2> DEFINE j2 == w - 1
               m == p + 0
               m2 == p + j2
    <2>1. m \in Nat /\ m2 \in Nat /\ m = x * w + 0 /\ m2 = x * w + j2 /\ 0 \in 0 .. w - 1 /\ j2 \in 0 .. w - 1
      BY <1>1
    <2> HIDE DEF w, p, j2, m, m2
    <2>2. m \div w = x /\ m2 \div w = x
      BY <1>1, <2>1, DivisionUnique
    <2>3. QED
      BY <2>2 DEF m, m2, j2
  <1> DEFINE e == p + (w - 1)
             D == Data(c, H - 1, Least(e, W - 1))
  <1>7. e = p + w - 1
    <2> HIDE DEF p, w
    <2>1. QED
      BY <1>1
  <1>8. Block(c, row, p + 0) = [dc |-> D, ac |-> <<>>]
    <2> DEFINE k == p + 0
    <2>1. k \div h(c) = x /\ x * h(c) + h(c) - 1 = e
      BY <1>3, <1>6, <1>7
    <2> HIDE DEF row, k, e
    <2>2. Block(c, row, k) = [dc |-> D, ac |-> <<>>]
      BY <1>5, <2>1 DEF Block
    <2>3. QED
      BY <2>2 DEF k
  <1>9. Block(c, row - 1, e).dc = D
    <2> DEFINE above == row - 1
    <2>1. e \div h(c) = x /\ x * h(c) + h(c) - 1 = e
      BY <1>3, <1>6, <1>7
    <2>2. above < H => above = H - 1
      <3> HIDE DEF r, H
      <3>1. QED
        BY <1>1, <1>2, <1>5
    <2> HIDE DEF above, e
    <2>3. Block(c, above, e).dc = D
      <3>1. CASE above < H
        BY <2>2, <3>1 DEF Block
      <3>2. CASE ~(above < H)
        BY <2>1, <3>2 DEF Block
      <3>3. QED
        BY <3>1, <3>2
    <2>4. QED
      BY <2>3 DEF above
  <1>10. r + (i - 1) = row - 1
    <2> HIDE DEF r
    <2>1. QED
      BY <1>1, <1>2
  <1>11. BlockAt(c, y, x, i, 0) = Block(c, row, p + 0)
         /\ BlockAt(c, y, x, i - 1, w - 1) = Block(c, r + (i - 1), e)
    BY DEF BlockAt
  <1> HIDE DEF row, p, e, D, r
  <1>12. QED
    BY <1>8, <1>9, <1>10, <1>11 DEF Dummy
-----------------------------------------------------------------------------
(* compress_output: the blocks come from the arrays.                        *)
LEMMA ArrayBlocks ==
  ASSUME Shape, NEW c \in Comps, NEW y, NEW x, InMCU(c, y, x),
         coef.mode \notin {"PASS_THRU", "TRANSCODE"}, Arrays(coef.whole, coef.iMCU_row_num + 1),
         NEW b \in 1 .. MCU_width(c) * MCU_height(c)
  PROVE  BlocksAt(c, y, x)[b] =
           BlockAt(c, y, x, (b - 1) \div MCU_width(c), (b - 1) % MCU_width(c))
  <1> DEFINE w == MCU_width(c)
             t == MCU_height(c)
             i == (b - 1) \div w
             j == (b - 1) % w
             a == coef.iMCU_row_num * v(c)
             row == a + y + i
             col == x * w + j
  <1>1. w \in Nat \ {0} /\ t \in Nat \ {0}
    BY SizeOfMCU
  <1>2. i \in 0 .. t - 1 /\ j \in 0 .. w - 1
    <2> HIDE DEF w, t
    <2>1. b \in 1 .. w * t
      BY DEF w, t
    <2>2. QED
      BY <1>1, <2>1, PlaceInMCU
  <1>3. BlocksAt(c, y, x)[b] = coef.whole[c][<<a + (y + i), col>>]
    <2>1. BlocksAt(c, y, x) = [k \in 1 .. w * t |->
            coef.whole[c][<<a + (y + ((k - 1) \div w)), x * w + ((k - 1) % w)>>]]
      BY DEF BlocksAt, FromArray
    <2> HIDE DEF w, t, a
    <2>2. QED
      BY <2>1 DEF w, t
  <1>4. a + (y + i) = row /\ row < (coef.iMCU_row_num + 1) * v(c)
        /\ row \in 0 .. Ceil(height_in_blocks(c), v(c)) * v(c) - 1
    BY <1>2, RowsOfMCU
  <1>5. col \in 0 .. Ceil(width_in_blocks(c), h(c)) * h(c) - 1
    BY <1>2, ColsInImage
  <1>6. <<row, col>> \in WholeBlocks(c)
    <2> HIDE DEF row, col
    <2>1. QED
      BY <1>4, <1>5, Zenon DEF WholeBlocks
  <1>7. coef.whole[c][<<row, col>>] = Block(c, row, col)
    <2> DEFINE z == <<row, col>>
    <2>1. z[1] = row /\ z[2] = col
      OBVIOUS
    <2> HIDE DEF z, row, col
    <2>2. coef.whole[c][z] = Block(c, z[1], z[2])
      <3>1. z \in WholeBlocks(c) /\ z[1] < (coef.iMCU_row_num + 1) * v(c)
        BY <1>4, <1>6, <2>1 DEF z
      <3>2. QED
        BY <3>1, Zenon DEF Arrays
    <2>3. QED
      BY <2>1, <2>2 DEF z
  <1>8. BlockAt(c, y, x, i, j) = Block(c, row, col)
    BY DEF BlockAt
  <1> HIDE DEF row, col, a, i, j, w
  <1>9. BlocksAt(c, y, x)[b] = BlockAt(c, y, x, i, j)
    BY <1>3, <1>4, <1>7, <1>8
  <1>10. QED
    BY <1>9 DEF i, j, w

LEMMA ArrayRight ==
  ASSUME Shape, NEW c \in Comps, NEW y, NEW x, InMCU(c, y, x),
         coef.mode \notin {"PASS_THRU", "TRANSCODE"}, Arrays(coef.whole, coef.iMCU_row_num + 1)
  PROVE  RightBlocks(c, y, x, BlocksAt(c, y, x))
  <1> DEFINE w == MCU_width(c)
             t == MCU_height(c)
             n == w * t
             blocks == BlocksAt(c, y, x)
             a == coef.iMCU_row_num * v(c) + y
             H == height_in_blocks(c)
             W == width_in_blocks(c)
             B(i, j) == BlockAt(c, y, x, i, j)
  <1>1. w \in Nat \ {0} /\ t \in Nat \ {0} /\ n \in Nat
    BY SizeOfMCU
  <1>2. DOMAIN blocks = 1 .. n
    BY DEF BlocksAt
  <1>3. ASSUME NEW b \in 1 .. n
        PROVE  IF RealAt(c, y, x, b) THEN blocks[b] = [dc |-> DataAt(c, y, x, b), ac |-> DataAt(c, y, x, b)]
               ELSE blocks[b] = Dummy(blocks[b - 1])
    <2> DEFINE i == (b - 1) \div w
               j == (b - 1) % w
               real == a + i < H /\ x * w + j < W
    <2>1. i \in 0 .. t - 1 /\ j \in 0 .. w - 1 /\ b - 1 = i * w + j
      <3> HIDE DEF w, t
      <3>1. QED
        BY <1>1, PlaceInMCU
    <2>2. blocks[b] = B(i, j)
      BY ArrayBlocks
    <2>3. RealAt(c, y, x, b) <=> real
      BY Zenon DEF RealAt
    <2>4. CASE real
      <3>1. W \in Nat \ {0} /\ x * w + j \in Nat
        <4>1. W \in Nat \ {0}
          BY BlocksIs
        <4>2. x * w + j \in Nat
          BY <2>1, ColsInImage
        <4>3. QED
          BY <4>1, <4>2
      <3> DEFINE col == x * w + j
                 row == a + i
                 D == Data(c, row, col)
      <3>2. Least(col, W - 1) = col
        <4> HIDE DEF W, col
        <4>1. col < W
          BY <2>4 DEF col
        <4>2. QED
          BY <3>1, <4>1 DEF Least, col
      <3>3. B(i, j) = Block(c, row, col)
        BY DEF BlockAt
      <3>4. row < H /\ col < W
        BY <2>4
      <3> HIDE DEF row, col, B
      <3>5. Block(c, row, col) = [dc |-> D, ac |-> D]
        BY <3>2, <3>4, Zenon DEF Block
      <3>6. DataAt(c, y, x, b) = D
        BY Zenon DEF DataAt, row, col
      <3> HIDE DEF D, blocks
      <3>7. QED
        BY <2>2, <2>3, <2>4, <3>3, <3>5, <3>6
    <2>5. CASE ~real
      <3>1. b - 1 \in 1 .. n
        <4>1. CASE b = 1
          <5>1. i = 0 /\ j = 0
            <6> HIDE DEF i, j, w
            <6>1. i \in Nat /\ j \in Nat /\ i * w \in Nat /\ i * w + j = 0
              BY <1>1, <2>1, <4>1
            <6>2. j = 0 /\ i * w = 0
              BY <6>1
            <6>3. i = 0
              BY <1>1, <6>1, <6>2
            <6>4. QED
              BY <6>2, <6>3
          <5>2. 0 \in 0 .. t - 1 /\ 0 \in 0 .. w - 1
            BY <1>1
          <5>3. x * w + 0 < W
            <6>1. ColsOf(c, x) \in Nat \ {0} /\ (0 < ColsOf(c, x) <=> x * w + 0 < W)
              BY <5>2, ColsInImage
            <6>2. QED
              BY <6>1
          <5>4. a + 0 < H
            <6>1. HeightOf(c, y) \in Nat \ {0} /\ (0 < HeightOf(c, y) <=> a + 0 < H)
              BY <5>2, RowsOfMCU
            <6>2. QED
              BY <6>1
          <5> HIDE DEF i, j
          <5>5. QED
            BY <2>5, <5>1, <5>3, <5>4
        <4>2. CASE b # 1
          <5> HIDE DEF n
          <5>1. QED
            BY <1>1, <4>2
        <4>3. QED
          BY <4>1, <4>2
      <3> DEFINE b2 == b - 1
      <3>2. blocks[b2] = B((b2 - 1) \div w, (b2 - 1) % w)
        <4>1. b2 \in 1 .. MCU_width(c) * MCU_height(c)
          BY <3>1
        <4> HIDE DEF b2
        <4>2. QED
          BY <4>1, ArrayBlocks
      <3>3. CASE j # 0
        <4>1. (b2 - 1) \div w = i /\ (b2 - 1) % w = j - 1
          <5> DEFINE m == b2 - 1
                     k == j - 1
                     p == i * w
          <5>1. m \in Nat /\ k \in 0 .. w - 1 /\ i \in Nat /\ m = i * w + k
            <6>1. p \in Nat /\ b - 1 = p + j /\ j \in Nat /\ i \in Nat /\ j \in 0 .. w - 1
              <7> HIDE DEF i, j, w, t
              <7>1. QED
                BY <1>1, <2>1
            <6>2. m = b - 2
              BY <1>1
            <6> HIDE DEF i, j, w, m, p
            <6>3. m = p + k /\ m \in Nat /\ k \in 0 .. w - 1
              BY <1>1, <3>3, <6>1, <6>2
            <6>4. QED
              BY <6>1, <6>3 DEF p
          <5> HIDE DEF m, k, i, w
          <5>2. m \div w = i /\ m % w = k
            BY <1>1, <5>1, DivisionUnique
          <5>3. QED
            BY <5>2 DEF m, k
        <4>2. B(i, j) = Dummy(B(i, j - 1))
          <5>1. j \in 1 .. w - 1
            <6> HIDE DEF j, w
            <6>1. QED
              BY <1>1, <2>1, <3>3
          <5>2. ~(a + i < H /\ x * w + j < W)
            BY <2>5
          <5> HIDE DEF i, j
          <5>3. QED
            BY <2>1, <5>1, <5>2, BlockBefore
        <4> HIDE DEF B, i, j, blocks, w
        <4>3. blocks[b] = Dummy(blocks[b2])
          BY <2>2, <3>2, <4>1, <4>2
        <4>4. QED
          BY <2>3, <2>5, <4>3 DEF b2
      <3>4. CASE j = 0
        <4>1. i \in 1 .. t - 1 /\ (b2 - 1) \div w = i - 1 /\ (b2 - 1) % w = w - 1
          <5> DEFINE m == b2 - 1
                     k == w - 1
                     i2 == i - 1
                     p == i * w
                     p2 == i2 * w
          <5>1. p \in Nat /\ b - 1 = p + 0 /\ i \in Nat /\ i \in 0 .. t - 1 /\ b - 1 \in Nat \ {0}
            <6>1. n \in Nat /\ b - 1 \in 1 .. n
              BY <1>1, <3>1
            <6> HIDE DEF n
            <6>2. b - 1 \in Nat \ {0}
              BY <6>1
            <6>3. i \in Nat /\ i * w \in Nat
              <7> HIDE DEF i, w, t
              <7>1. QED
                BY <1>1, <2>1
            <6>4. QED
              BY <2>1, <3>4, <6>2, <6>3
          <5>2. i # 0
            <6> HIDE DEF i, w
            <6>1. i = 0 => p = 0
              BY <1>1
            <6> HIDE DEF p
            <6>2. QED
              BY <5>1, <6>1
          <5>3. m = b - 2
            BY <1>1
          <5>4. p = p2 + w /\ p2 \in Nat /\ i2 \in Nat /\ i \in 1 .. t - 1
            <6> HIDE DEF i, w, t
            <6>1. QED
              BY <1>1, <5>1, <5>2
          <5> HIDE DEF i, w, m, p, t
          <5>5. m \in Nat /\ k \in 0 .. w - 1 /\ m = i2 * w + k
            <6> HIDE DEF p2
            <6>1. m \in Nat /\ k \in 0 .. w - 1 /\ m = p2 + k
              BY <1>1, <5>1, <5>3, <5>4
            <6>2. QED
              BY <6>1 DEF p2
          <5> HIDE DEF k, i2
          <5>6. m \div w = i2 /\ m % w = k
            BY <1>1, <5>4, <5>5, DivisionUnique
          <5>7. QED
            BY <5>4, <5>6 DEF m, k, i2
        <4>2. B(i, 0) = Dummy(B(i - 1, w - 1))
          <5>1. ~(a + i < H /\ x * w + 0 < W)
            BY <2>5, <3>4
          <5> HIDE DEF i, j
          <5>2. QED
            BY <4>1, <5>1, BlockAbove
        <4> HIDE DEF B, i, j, blocks, w
        <4>3. blocks[b] = Dummy(blocks[b2])
          BY <2>2, <3>2, <3>4, <4>1, <4>2
        <4>4. QED
          BY <2>3, <2>5, <4>3 DEF b2
      <3>5. QED
        BY <3>3, <3>4
    <2>6. QED
      BY <2>4, <2>5
  <1>4. QED
    BY <1>2, <1>3, Zenon DEF RightBlocks
-----------------------------------------------------------------------------
(* compress_data, and that of jctrans.c: each block is in the image or      *)
(* repeats the DC of the one before it.                                     *)
Repeats(f, n, real, R) == f = [b \in 0 .. n |-> IF b \in real THEN R[b] ELSE Dummy(f[b - 1])]

(* The last place up to b that is real; there is one, as 0 is.              *)
IsLast(real, b, r) == r \in real /\ r \in 0 .. b /\ \A s \in r + 1 .. b : s \notin real

LEMMA LastReal ==
  ASSUME NEW b \in Nat, NEW real, 0 \in real
  PROVE  \E r \in Nat : IsLast(real, b, r)
  <1> DEFINE T == {i \in 0 .. b : b - i \in real}
             R == OpToRel(<, Nat)
  <1>1. T \subseteq Nat /\ T # {}
    <2>1. b - b = 0 /\ b \in 0 .. b
      OBVIOUS
    <2>2. QED
      BY <2>1
  <1>2. IsWellFoundedOn(R, Nat)
    BY NatLessThanWellFounded, Zenon
  <1>3. \A i, k \in Nat : k < i => <<k, i>> \in R
    BY DEF OpToRel
  <1> HIDE DEF R
  <1>4. PICK i \in T : \A k \in T : ~(<<k, i>> \in R)
    BY <1>1, <1>2, WFMin
  <1>5. i \in 0 .. b /\ b - i \in real
    BY <1>4
  <1>6. ASSUME NEW s \in b - i + 1 .. b, s \in real PROVE FALSE
    <2> DEFINE k == b - s
    <2>1. k \in 0 .. b /\ k < i /\ b - k = s /\ k \in Nat /\ i \in Nat
      BY <1>5
    <2> HIDE DEF k
    <2>2. k \in T
      BY <1>6, <2>1
    <2>3. QED
      BY <1>3, <1>4, <2>1, <2>2
  <1>7. b - i \in 0 .. b /\ b - i \in Nat
    BY <1>5
  <1>8. QED
    BY <1>5, <1>6, <1>7 DEF IsLast

LEMMA RepeatsExists ==
  ASSUME NEW n \in Nat, NEW real, 0 \in real, NEW R
  PROVE  \E f : Repeats(f, n, real, R)
  <1> DEFINE L(b) == CHOOSE r : IsLast(real, b, r)
             f == [b \in 0 .. n |-> IF b \in real THEN R[b] ELSE Dummy(R[L(b)])]
  <1>1. ASSUME NEW b \in 1 .. n, b \notin real
        PROVE  f[b] = Dummy(f[b - 1])
    <2>1. \A r : IsLast(real, b, r) <=> IsLast(real, b - 1, r)
      <3> TAKE r
      <3>1. ASSUME IsLast(real, b, r) PROVE IsLast(real, b - 1, r)
        <4>1. r \in real /\ r \in 0 .. b /\ \A s \in r + 1 .. b : s \notin real
          BY <3>1 DEF IsLast
        <4>2. r # b
          BY <1>1, <4>1
        <4>3. r \in 0 .. b - 1 /\ \A s \in r + 1 .. b - 1 : s \in r + 1 .. b
          BY <4>1, <4>2
        <4>4. QED
          BY <4>1, <4>3 DEF IsLast
      <3>2. ASSUME IsLast(real, b - 1, r) PROVE IsLast(real, b, r)
        <4>1. r \in real /\ r \in 0 .. b - 1 /\ \A s \in r + 1 .. b - 1 : s \notin real
          BY <3>2 DEF IsLast
        <4>2. r \in 0 .. b /\ \A s \in r + 1 .. b : s = b \/ s \in r + 1 .. b - 1
          BY <4>1
        <4>3. QED
          BY <1>1, <4>1, <4>2 DEF IsLast
      <3>3. QED
        BY <3>1, <3>2
    <2>2. L(b) = L(b - 1)
      BY <2>1
    <2>3. IsLast(real, b - 1, L(b - 1))
      <3>1. b - 1 \in Nat
        OBVIOUS
      <3>2. \E r : IsLast(real, b - 1, r)
        BY <3>1, LastReal
      <3>3. QED
        BY <3>2
    <2> HIDE DEF L
    <2>4. b - 1 \in 0 .. n /\ b \in 0 .. n
      OBVIOUS
    <2>5. f[b] = Dummy(R[L(b - 1)])
      BY <1>1, <2>2, <2>4
    <2>6. CASE b - 1 \in real
      <3>1. L(b - 1) = b - 1
        BY <2>3, <2>6 DEF IsLast
      <3>2. f[b - 1] = R[b - 1]
        BY <2>4, <2>6
      <3>3. QED
        BY <2>5, <3>1, <3>2
    <2>7. CASE b - 1 \notin real
      <3>1. f[b - 1] = Dummy(R[L(b - 1)])
        BY <2>4, <2>7
      <3>2. \A z : Dummy(Dummy(z)) = Dummy(z)
        BY DEF Dummy
      <3>3. QED
        BY <2>5, <3>1, <3>2
    <2>8. QED
      BY <2>6, <2>7
  <1>2. ASSUME NEW b \in 0 .. n PROVE f[b] = IF b \in real THEN R[b] ELSE Dummy(f[b - 1])
    <2>1. CASE b \in real
      BY <2>1
    <2>2. CASE b \notin real
      <3>1. b \in 1 .. n
        BY <2>2
      <3> HIDE DEF f
      <3>2. QED
        BY <1>1, <2>2, <3>1
    <2>3. QED
      BY <2>1, <2>2
  <1>3. f = [b \in 0 .. n |-> IF b \in real THEN R[b] ELSE Dummy(f[b - 1])]
    <2>1. f = [b \in 0 .. n |-> f[b]]
      OBVIOUS
    <2> HIDE DEF f
    <2>2. [b \in 0 .. n |-> f[b]] = [b \in 0 .. n |-> IF b \in real THEN R[b] ELSE Dummy(f[b - 1])]
      BY <1>2
    <2>3. QED
      BY <2>1, <2>2
  <1> HIDE DEF f
  <1>4. QED
    BY <1>3, Zenon DEF Repeats

LEMMA DummiesRight ==
  ASSUME Shape, Given, NEW c \in Comps, NEW y, NEW x, InMCU(c, y, x)
  PROVE  RightBlocks(c, y, x, WithDummies(c, y, x))
  <1> DEFINE w == MCU_width(c)
             t == MCU_height(c)
             n == w * t
             m == n - 1
             cols == ColsOf(c, x)
             rows == HeightOf(c, y)
             a == coef.iMCU_row_num * v(c) + y
             H == height_in_blocks(c)
             W == width_in_blocks(c)
             Q(f) == f = [b \in 0 .. m |->
                            IF b \div w < rows /\ b % w < cols
                            THEN RealBlock(c, y + (b \div w), x * w + (b % w)) ELSE Dummy(f[b - 1])]
             block == CHOOSE f : Q(f)
             blocks == WithDummies(c, y, x)
  <1>1. w \in Nat \ {0} /\ t \in Nat \ {0} /\ n \in Nat \ {0} /\ m \in Nat
    <2>1. w \in Nat \ {0} /\ t \in Nat \ {0}
      BY SizeOfMCU
    <2> HIDE DEF w, t
    <2>2. n \in Nat \ {0}
      BY <2>1
    <2>3. QED
      BY <2>1, <2>2
  <1>2. blocks = [b \in 1 .. n |-> block[b - 1]]
    BY DEF WithDummies, ColsOf, HeightOf
  <1>3. rows \in Nat \ {0} /\ cols \in Nat \ {0}
    <2>1. 0 \in 0 .. w - 1 /\ 0 \in 0 .. t - 1
      BY <1>1
    <2>2. QED
      BY <2>1, ColsInImage, RowsOfMCU
  <1>4. \E f : Q(f)
    <2> DEFINE real == {b \in 0 .. m : b \div w < rows /\ b % w < cols}
               R == [b \in 0 .. m |-> RealBlock(c, y + (b \div w), x * w + (b % w))]
    <2>1. 0 \in real
      <3> HIDE DEF w, m, rows, cols
      <3>1. 0 \in 0 .. m /\ 0 \div w = 0 /\ 0 % w = 0
        BY <1>1
      <3>2. QED
        BY <1>3, <3>1
    <2>2. \E f : Repeats(f, m, real, R)
      <3>0. m \in Nat
        BY <1>1
      <3> HIDE DEF real, R, m
      <3>1. QED
        BY <3>0, <2>1, RepeatsExists, Zenon
    <2>3. PICK f : f = [b \in 0 .. m |-> IF b \in real THEN R[b] ELSE Dummy(f[b - 1])]
      BY <2>2, Zenon DEF Repeats
    <2>4. ASSUME NEW b \in 0 .. m
          PROVE  (IF b \in real THEN R[b] ELSE Dummy(f[b - 1])) =
                 (IF b \div w < rows /\ b % w < cols
                  THEN RealBlock(c, y + (b \div w), x * w + (b % w)) ELSE Dummy(f[b - 1]))
      <3> HIDE DEF w, m, rows, cols
      <3>1. QED
        OBVIOUS
    <2> DEFINE E(b) == IF b \in real THEN R[b] ELSE Dummy(f[b - 1])
               F(b) == IF b \div w < rows /\ b % w < cols
                       THEN RealBlock(c, y + (b \div w), x * w + (b % w)) ELSE Dummy(f[b - 1])
    <2>5. f = [b \in 0 .. m |-> E(b)] /\ \A b \in 0 .. m : E(b) = F(b)
      BY <2>3, <2>4
    <2>6. f = [b \in 0 .. m |-> F(b)]
      <3> HIDE DEF E, F, m
      <3>1. QED
        BY <2>5
    <2>7. Q(f)
      BY <2>6
    <2> HIDE DEF Q
    <2>8. QED
      BY <2>7
  <1>5. Q(block)
    <2> HIDE DEF Q
    <2>1. QED
      BY <1>4, Zenon
  <1> HIDE DEF block
  <1>6. ASSUME NEW b \in 1 .. n
        PROVE  IF RealAt(c, y, x, b) THEN blocks[b] = [dc |-> DataAt(c, y, x, b), ac |-> DataAt(c, y, x, b)]
               ELSE blocks[b] = Dummy(blocks[b - 1])
    <2> DEFINE k == b - 1
               i == k \div w
               j == k % w
               row == a + i
               col == x * w + j
    <2>1. i \in 0 .. t - 1 /\ j \in 0 .. w - 1 /\ k = i * w + j
      <3> HIDE DEF w, t
      <3>1. QED
        BY <1>1, PlaceInMCU
    <2>2. k \in 0 .. m /\ b - 1 = k
      <3> HIDE DEF n
      <3>1. QED
        BY <1>1
    <2>3. blocks[b] = block[k]
      <3> HIDE DEF n
      <3>1. QED
        BY <1>2
    <2>4. block[k] = IF i < rows /\ j < cols THEN RealBlock(c, y + i, col) ELSE Dummy(block[k - 1])
      <3> HIDE DEF m, w, rows, cols, k
      <3>1. QED
        BY <1>5, <2>2
    <2>5. /\ i < rows <=> row < H
          /\ y + i \in 0 .. v(c) - 1 /\ coef.iMCU_row_num * v(c) + (y + i) = row
      <3> HIDE DEF i
      <3>1. QED
        BY <2>1, RowsOfMCU
    <2>6. j < cols <=> col < W
      <3> HIDE DEF j
      <3>1. QED
        BY <2>1, ColsInImage
    <2>7. RealAt(c, y, x, b) <=> row < H /\ col < W
      BY Zenon DEF RealAt
    <2>8. DataAt(c, y, x, b) = Data(c, row, col)
      BY Zenon DEF DataAt
    <2>9. CASE row < H /\ col < W
      <3>1. coef.iMCU_row_num \in Nat
        BY DEF InMCU
      <3> HIDE DEF row, col, i, j, k, rows, cols, blocks, w, H, W, a
      <3>2. RealBlock(c, y + i, col) = [dc |-> Data(c, coef.iMCU_row_num * v(c) + (y + i), col),
                                        ac |-> Data(c, coef.iMCU_row_num * v(c) + (y + i), col)]
        BY <2>5, <3>1, RealBlockIs
      <3>3. RealBlock(c, y + i, col) = [dc |-> Data(c, row, col), ac |-> Data(c, row, col)]
        BY <2>5, <3>2
      <3>4. block[k] = RealBlock(c, y + i, col)
        BY <2>4, <2>5, <2>6, <2>9
      <3>5. QED
        BY <2>3, <2>7, <2>8, <2>9, <3>3, <3>4
    <2>10. CASE ~(row < H /\ col < W)
      <3>1. k # 0
        <4>1. ASSUME k = 0 PROVE FALSE
          <5> HIDE DEF w, k, rows, cols, row, col, H, W
          <5>1. i = 0 /\ j = 0
            BY <1>1, <4>1
          <5> HIDE DEF i, j
          <5>2. i < rows /\ j < cols
            BY <1>3, <5>1
          <5>3. QED
            BY <2>5, <2>6, <2>10, <5>2
        <4>2. QED
          BY <4>1
      <3>2. blocks[k] = block[k - 1]
        <4> HIDE DEF n
        <4>1. k \in 1 .. n
          BY <1>1, <3>1
        <4> HIDE DEF k
        <4>2. QED
          BY <1>2, <4>1
      <3> HIDE DEF row, col, i, j, k, rows, cols, blocks, w, H, W, a
      <3>3. block[k] = Dummy(block[k - 1])
        BY <2>4, <2>5, <2>6, <2>10
      <3>4. blocks[b] = Dummy(blocks[k])
        BY <2>3, <3>2, <3>3
      <3>5. QED
        BY <2>2, <2>7, <2>10, <3>4
    <2>11. QED
      BY <2>9, <2>10
  <1>7. DOMAIN blocks = 1 .. n
    BY <1>2
  <1>8. QED
    BY <1>6, <1>7, Zenon DEF RightBlocks
-----------------------------------------------------------------------------
(* encode_mcu: the MCU that comes next.                                     *)
LEMMA CompsInScan ==
  ASSUME Shape, validate_script(script, Len(J.comps)), master.scan \in 1 .. Len(script),
         NEW k \in DOMAIN Scan.comps
  PROVE  Scan.comps[k] \in Comps /\ (~Interleaved => k = 1)
  <1>1. script \in Seq(Scans)
    BY ScriptIs
  <1>2. Scan \in Scans
    BY <1>1 DEF Scan
  <1>3. Scan.comps \in Seq(Int)
    BY <1>2 DEF Scans
  <1>4. GoodComponents(Scan, Len(J.comps))
    <2>1. master.scan \in DOMAIN script
      BY <1>1
    <2>2. QED
      BY <2>1, Zenon DEF validate_script, GoodScan, Scan
  <1>5. Scan.comps[k] \in 1 .. Len(J.comps)
    BY <1>4, Zenon DEF GoodComponents
  <1>6. ~Interleaved => k = 1
    <2>1. k \in 1 .. Len(Scan.comps) /\ Len(Scan.comps) \in Nat
      BY <1>3
    <2>2. QED
      BY <2>1 DEF Interleaved
  <1>7. QED
    BY <1>5, <1>6, ImageIs

LEMMA AcrossIs ==
  ASSUME Shape, validate_script(script, Len(J.comps)), master.scan \in 1 .. Len(script)
  PROVE  Across(Scan) = MCUs_per_row
  <1> DEFINE c == Scan.comps[1]
  <1>1. c \in Comps
    BY ScriptIs DEF Scan
  <1>2. /\ width_in_blocks(c) \in Nat \ {0}
        /\ Ceil(width_in_blocks(c), h(c)) = Ceil(J.width, MaxH * DCTSIZE)
    BY <1>1, BlocksIs
  <1>3. CASE Interleaved
    BY <1>2, <1>3, Zenon DEF Across, Wide, MCUs_per_row, Interleaved
  <1>4. CASE ~Interleaved
    <2>1. Across(Scan) = Ceil(width_in_blocks(c), 1)
      BY <1>4, Zenon DEF Across, Wide, Interleaved
    <2>2. Ceil(width_in_blocks(c), 1) = width_in_blocks(c)
      BY <1>2, CeilOne
    <2>3. QED
      BY <1>4, <2>1, <2>2, Zenon DEF MCUs_per_row
  <1>5. QED
    BY <1>3, <1>4

LEMMA EncodesHere ==
  ASSUME IInv, CourseInv, MCUStep
  PROVE  /\ Shape /\ Writing /\ ~Between /\ ~Startup /\ CallTyped(call)
         /\ validate_script(script, Len(J.comps)) /\ master.scan \in 1 .. Len(script)
         /\ MCUs_per_row \in Nat \ {0} /\ MCURows \in Nat \ {0}
         /\ coef.iMCU_row_num \in Nat /\ coef.iMCU_row_num < total_iMCU_rows
         /\ call.at = "mcu" /\ call.y < MCU_rows_per_iMCU_row /\ call.x < MCUs_per_row
         /\ entropy.counted \in Nat
         /\ entropy.counted =
              (coef.iMCU_row_num * MCURows + call.y) * MCUs_per_row + call.x
  <1>1. Shape /\ PassInv /\ CountInv /\ CallInv /\ CallTyped(call)
    BY Zenon DEF IInv, CourseInv, Course, CallInv
  <1>2. call.at = "mcu" /\ call.y < MCU_rows_per_iMCU_row
    BY DEF MCUStep
  <1>3. Writing /\ ~Between /\ ~Startup
    BY <1>1, <1>2, Running
  <1>4. /\ master.scan \in 1 .. Len(script) /\ validate_script(script, Len(J.comps))
        /\ MCUs_per_row \in Nat \ {0} /\ MCURows \in Nat \ {0}
    BY <1>1, <1>3, InPass
  <1>5. /\ CoefTyped(coef) /\ entropy.counted \in Nat
        /\ call.at \in {"compress", "mcu"} => coef.iMCU_row_num < total_iMCU_rows
        /\ coef.iMCU_row_num < total_iMCU_rows /\ call.at = "mcu" =>
             /\ entropy.counted =
                  (coef.iMCU_row_num * MCURows + call.y) * MCUs_per_row + call.x
             /\ \/ call.y < MCU_rows_per_iMCU_row /\ call.x < MCUs_per_row
                \/ call.y = MCU_rows_per_iMCU_row /\ call.x = 0
    BY <1>1, <1>3, Zenon DEF CountInv
  <1>6. coef.iMCU_row_num \in Nat /\ coef.iMCU_row_num < total_iMCU_rows
    BY <1>2, <1>5 DEF CoefTyped
  <1>7. MCU_rows_per_iMCU_row \in Nat
    BY <1>1, <1>3, <1>6, InPass
  <1>8. call.x < MCUs_per_row
    <2>1. call.y \in Nat
      BY <1>1 DEF CallTyped
    <2>2. call.y # MCU_rows_per_iMCU_row
      BY <1>2, <1>7, <2>1
    <2>3. QED
      BY <1>2, <1>5, <1>6, <2>2
  <1>9. entropy.counted =
          (coef.iMCU_row_num * MCURows + call.y) * MCUs_per_row + call.x
    BY <1>2, <1>5, <1>6
  <1>10. QED
    BY <1>1, <1>2, <1>3, <1>4, <1>5, <1>6, <1>8, <1>9

LEMMA InMCUHere ==
  ASSUME IInv, CourseInv, MCUStep, NEW k \in DOMAIN Scan.comps
  PROVE  InMCU(Scan.comps[k], call.y, call.x)
  <1> DEFINE c == Scan.comps[k]
  <1>1. /\ Shape /\ CallTyped(call) /\ call.y < MCU_rows_per_iMCU_row /\ call.x < MCUs_per_row
        /\ coef.iMCU_row_num \in Nat /\ coef.iMCU_row_num < total_iMCU_rows
        /\ validate_script(script, Len(J.comps)) /\ master.scan \in 1 .. Len(script)
    BY EncodesHere
  <1>2. c \in Comps /\ (~Interleaved => c = Scan.comps[1])
    <2>1. c \in Comps /\ (~Interleaved => k = 1)
      BY <1>1, CompsInScan
    <2>2. QED
      BY <2>1, Zenon
  <1>3. v(c) \in Nat \ {0} /\ call.y \in Nat /\ call.x \in Nat
    BY <1>1, <1>2, ImageIs DEF CallTyped
  <1>4. RowsOf(c) \in 1 .. v(c)
    <2>1. 0 \in 0 .. v(c) - 1
      BY <1>3
    <2>2. QED
      BY <1>1, <1>2, <2>1, RowsInImage
  <1> HIDE DEF c
  <1>5. CASE Interleaved
    <2>1. MCU_rows_per_iMCU_row = 1 /\ MCU_height(c) = v(c)
      BY <1>5, Zenon DEF MCU_rows_per_iMCU_row, MCU_height
    <2>2. call.y = 0 /\ call.y + MCU_height(c) <= v(c) /\ call.y < RowsOf(c)
      BY <1>1, <1>3, <1>4, <2>1
    <2>3. QED
      BY <1>1, <1>3, <1>5, <2>2 DEF InMCU, c
  <1>6. CASE ~Interleaved
    <2>1. MCU_rows_per_iMCU_row = RowsOf(c) /\ MCU_height(c) = 1
      BY <1>2, <1>6, Zenon DEF MCU_rows_per_iMCU_row, MCU_height, RowsOf
    <2>2. call.y + MCU_height(c) <= v(c) /\ call.y < RowsOf(c)
      BY <1>1, <1>3, <1>4, <2>1
    <2>3. QED
      BY <1>1, <1>2, <1>3, <2>2 DEF InMCU, c
  <1>7. QED
    BY <1>5, <1>6

(* What the blocks are taken from.                                          *)
LEMMA SourceHere ==
  ASSUME IInv, CourseInv, DataInv, MCUStep
  PROVE  IF coef.mode \in {"PASS_THRU", "TRANSCODE"} THEN Given
         ELSE Arrays(coef.whole, coef.iMCU_row_num + 1)
  <1>1. /\ Shape /\ Writing /\ ~Between /\ CallTyped(call) /\ call.at = "mcu"
        /\ coef.iMCU_row_num \in Nat /\ coef.iMCU_row_num < total_iMCU_rows
    BY EncodesHere
  <1>2. InputInv /\ ModeInv /\ BufferInv /\ WholeInv /\ Course
    BY Zenon DEF DataInv, CourseInv
  <1>3. CASE global_state = "WRCOEFS"
    <2>1. coef.mode = "TRANSCODE"
      BY <1>1, <1>2, <1>3, Zenon DEF ModeInv
    <2>2. J.input = "coefs" /\ source.read = J.units
      BY <1>2, <1>3 DEF InputInv
    <2>3. QED
      BY <2>1, <2>2, Zenon DEF Given
  <1>4. CASE global_state # "WRCOEFS"
    <2>1. coef.mode = (IF master.pass_type # "main" THEN "CRANK_DEST"
                       ELSE IF total_passes > 1 THEN "SAVE_AND_PASS" ELSE "PASS_THRU")
      BY <1>1, <1>2, <1>4, Zenon DEF ModeInv
    <2>2. CASE coef.mode = "PASS_THRU"
      <3>1. master.pass_type = "main"
        BY <2>1, <2>2
      <3>2. call.op # "finish"
        BY <1>1, <1>2, <3>1 DEF ModeInv
      <3>3. MainPass
        BY <1>1, <1>4, <3>2 DEF MainPass, Writing
      <3>4. Ready = DCTSIZE
        <4>1. CASE global_state = "SCANNING"
          <5>1. main.rowgroup_ctr = DCTSIZE
            BY <1>1, <1>2, <3>3, <4>1, Zenon DEF Course, RowsInv
          <5>2. QED
            BY <4>1, <5>1 DEF Ready
        <4>2. CASE global_state # "SCANNING"
          <5>1. call.op # "lines"
            BY <1>1, <1>2, <4>2 DEF Course, CallInv
          <5>2. call.op = "raw"
            BY <1>1, <3>2, <5>1 DEF CallTyped
          <5>3. QED
            BY <4>2, <5>2, Zenon DEF Ready
        <4>3. QED
          BY <4>1, <4>2
      <3>5. Given
        BY <1>1, <1>2, <2>2, <3>3, <3>4, GivenInMainPass
      <3>6. QED
        BY <2>2, <3>5, Zenon
    <2>3. CASE coef.mode # "PASS_THRU"
      <3>1. coef.mode \in {"SAVE_AND_PASS", "CRANK_DEST"}
        BY <2>1, <2>3
      <3>2. Arrays(coef.whole, Kept)
        BY <1>1, <1>2, <3>1, ArraysAre
      <3>3. Kept = (IF coef.mode = "CRANK_DEST" THEN total_iMCU_rows ELSE coef.iMCU_row_num + 1)
        BY <1>1 DEF Kept
      <3>4. total_iMCU_rows \in Nat
        BY <1>1, RowsIs
      <3> DEFINE n == Kept
                 m == coef.iMCU_row_num + 1
      <3>5. n \in Int /\ m \in Int /\ m <= n /\ Arrays(coef.whole, n)
        BY <1>1, <3>2, <3>3, <3>4
      <3> HIDE DEF n, m
      <3>6. Arrays(coef.whole, m)
        BY <1>1, <3>5, ArraysLess, Zenon
      <3>7. coef.mode \notin {"PASS_THRU", "TRANSCODE"}
        BY <3>1
      <3>8. QED
        BY <3>6, <3>7, Zenon DEF m
    <2>4. QED
      BY <2>2, <2>3
  <1>5. QED
    BY <1>3, <1>4

(* Each block of the MCU is the one a reader of the scan takes it for.      *)
ItemRight(scan, n, blocks) ==
  \A k \in DOMAIN scan.comps : \A b \in DOMAIN blocks[k] :
    BlockIsRight(scan, scan.comps[k], n, blocks[k], b)

LEMMA MCURight ==
  ASSUME IInv, CourseInv, DataInv, MCUStep
  PROVE  ItemRight(Scan, entropy.counted, MCUAt(call.y, call.x))
  <1> SUFFICES ASSUME NEW k \in DOMAIN Scan.comps, NEW b \in DOMAIN MCUAt(call.y, call.x)[k]
               PROVE  BlockIsRight(Scan, Scan.comps[k], entropy.counted,
                                   MCUAt(call.y, call.x)[k], b)
    BY Zenon DEF ItemRight
  <1> DEFINE c == Scan.comps[k]
             y == call.y
             x == call.x
             blocks == BlocksAt(c, y, x)
             n == entropy.counted
             w == MCU_width(c)
             p == MCUs_per_row
             r == coef.iMCU_row_num
  <1>1. MCUAt(y, x)[k] = blocks
    BY DEF MCUAt
  <1>2. /\ Shape /\ CallTyped(call) /\ y < MCU_rows_per_iMCU_row /\ x < p
        /\ r \in Nat /\ p \in Nat \ {0} /\ MCURows \in Nat \ {0}
        /\ validate_script(script, Len(J.comps)) /\ master.scan \in 1 .. Len(script)
        /\ n \in Nat /\ n = (r * MCURows + y) * p + x
    BY EncodesHere
  <1>3. c \in Comps /\ (~Interleaved => c = Scan.comps[1])
    <2>1. c \in Comps /\ (~Interleaved => k = 1)
      BY <1>2, CompsInScan
    <2>2. QED
      BY <2>1, Zenon
  <1>4. InMCU(c, y, x)
    BY InMCUHere
  <1>5. RightBlocks(c, y, x, blocks)
    <2>1. IF coef.mode \in {"PASS_THRU", "TRANSCODE"} THEN Given ELSE Arrays(coef.whole, r + 1)
      BY SourceHere
    <2>2. CASE coef.mode \in {"PASS_THRU", "TRANSCODE"}
      <3>1. Given
        BY <2>1, <2>2
      <3>2. RightBlocks(c, y, x, WithDummies(c, y, x))
        <4> HIDE DEF c, y, x
        <4>1. QED
          BY <1>2, <1>3, <1>4, <3>1, DummiesRight
      <3>3. blocks = WithDummies(c, y, x)
        BY <2>2 DEF BlocksAt
      <3>4. QED
        BY <3>2, <3>3
    <2>3. CASE coef.mode \notin {"PASS_THRU", "TRANSCODE"}
      <3>1. Arrays(coef.whole, r + 1)
        BY <2>1, <2>3
      <3> HIDE DEF c, y, x
      <3>2. QED
        BY <1>2, <1>3, <1>4, <2>3, <3>1, ArrayRight
    <2>4. QED
      BY <2>2, <2>3
  <1>6. x \in Nat /\ y \in Nat
    BY <1>2 DEF CallTyped
  <1>7. n \div p = r * MCURows + y /\ n % p = x
    <2> DEFINE q == r * MCURows + y
    <2>1. q \in Nat /\ n = q * p + x /\ x \in 0 .. p - 1
      <3> HIDE DEF n, p, x, y, r
      <3>1. r * MCURows \in Nat
        BY <1>2
      <3>2. q \in Nat
        BY <1>6, <3>1
      <3>3. x \in 0 .. p - 1
        BY <1>2, <1>6
      <3>4. QED
        BY <1>2, <3>2, <3>3
    <2> HIDE DEF n, q, p, x
    <2>2. n \div p = q /\ n % p = x
      BY <1>2, <2>1, DivisionUnique
    <2>3. QED
      BY <2>2 DEF q
  <1>8. Across(Scan) = p /\ Wide(Scan, c) = w
    <2>1. Wide(Scan, c) = w
      BY Zenon DEF Wide, MCU_width, Interleaved
    <2>2. Across(Scan) = p
      BY <1>2, AcrossIs
    <2>3. QED
      BY <2>1, <2>2
  <1>9. v(c) \in Nat
    <2> HIDE DEF c
    <2>1. QED
      BY <1>2, <1>3, SamplingIs
  <1>10. (n \div Across(Scan)) * Tall(Scan, c) = r * v(c) + y
    <2>1. CASE Interleaved
      <3>1. MCURows = 1 /\ Tall(Scan, c) = v(c) /\ MCU_rows_per_iMCU_row = 1
        BY <2>1, Zenon DEF MCURows, Tall, Interleaved, MCU_rows_per_iMCU_row
      <3>2. y = 0
        BY <1>2, <1>6, <3>1
      <3>3. n \div Across(Scan) = r
        BY <1>2, <1>7, <1>8, <3>1, <3>2
      <3>4. r * v(c) \in Nat
        BY <1>2, <1>9
      <3>5. QED
        BY <3>1, <3>2, <3>3, <3>4
    <2>2. CASE ~Interleaved
      <3>1. MCURows = v(c) /\ Tall(Scan, c) = 1
        BY <1>3, <2>2, Zenon DEF MCURows, Tall, Interleaved
      <3>2. n \div Across(Scan) = r * v(c) + y
        BY <1>7, <1>8, <3>1
      <3>3. r * v(c) + y \in Nat
        <4> DEFINE u == v(c)
        <4> HIDE DEF c, y, x, n, p, r, w, u
        <4>1. r * u \in Nat
          BY <1>2, <1>9 DEF u
        <4>2. r * u + y \in Nat
          BY <1>6, <4>1
        <4>3. QED
          BY <4>2 DEF u
      <3>4. QED
        BY <3>1, <3>2, <3>3
    <2>3. QED
      BY <2>1, <2>2
  <1>11. n % Across(Scan) = x
    BY <1>7, <1>8
  <1> HIDE DEF c, y, x, n, w, r, p, blocks
  <1>12. b \in 1 .. MCU_width(c) * MCU_height(c)
    BY <1>1, <1>5 DEF RightBlocks, y, x
  <1>13. IF RealAt(c, y, x, b) THEN blocks[b] = [dc |-> DataAt(c, y, x, b), ac |-> DataAt(c, y, x, b)]
         ELSE blocks[b] = Dummy(blocks[b - 1])
    BY <1>5, <1>12, Zenon DEF RightBlocks
  <1> DEFINE row == (n \div Across(Scan)) * Tall(Scan, c) + ((b - 1) \div Wide(Scan, c))
             col == (n % Across(Scan)) * Wide(Scan, c) + ((b - 1) % Wide(Scan, c))
  <1>14. row = r * v(c) + y + ((b - 1) \div w) /\ col = x * w + ((b - 1) % w)
    BY <1>8, <1>10, <1>11, Zenon
  <1>15. (RealAt(c, y, x, b) <=> row < height_in_blocks(c) /\ col < width_in_blocks(c))
         /\ DataAt(c, y, x, b) = Data(c, row, col)
    BY <1>14, Zenon DEF RealAt, DataAt, w, r
  <1>16. BlockIsRight(Scan, c, n, blocks, b)
    <2>1. BlockIsRight(Scan, c, n, blocks, b) <=>
            IF row < height_in_blocks(c) /\ col < width_in_blocks(c)
            THEN blocks[b] = [dc |-> Data(c, row, col), ac |-> Data(c, row, col)]
            ELSE blocks[b] = Dummy(blocks[b - 1])
      BY Zenon DEF BlockIsRight
    <2> HIDE DEF row, col
    <2>2. QED
      BY <1>13, <1>15, <2>1
  <1>17. QED
    BY <1>1, <1>16, Zenon DEF c, y, x, n
-----------------------------------------------------------------------------
(* The blocks of a file, MCU by MCU.                                        *)
FileRight == \A n \in DOMAIN file.mcus : ItemRight(script[file.scan], n - 1, file.mcus[n].blocks)

FileInOrder == Writing /\ file.scan > 0 => FileRight

LEMMA BlocksAreIn == BlocksInOrder <=> FileInOrder
  <1>1. \A scan : BlocksAreRight(scan) <=>
                    \A n \in DOMAIN file.mcus : ItemRight(scan, n - 1, file.mcus[n].blocks)
    BY Zenon DEF BlocksAreRight, ItemRight
  <1>2. QED
    BY <1>1, Zenon DEF BlocksInOrder, FileRight, FileInOrder

LEMMA BlocksAreInNext == BlocksInOrder' <=> FileInOrder'
  BY BlocksAreIn, PTL

LEMMA ItemsKept ==
  ASSUME jobs' = jobs, job' = job
  PROVE  FileRight' <=> \A n \in DOMAIN file'.mcus :
                          ItemRight(script[file'.scan], n - 1, file'.mcus[n].blocks)
  <1>1. script' = script
    BY ParametersKept
  <1>2. \A scan, c, n, blocks, b :
          BlockIsRight(scan, c, n, blocks, b)' = BlockIsRight(scan, c, n, blocks, b)
    BY RightKept
  <1>3. FileRight' <=>
          \A n \in DOMAIN file'.mcus : \A k \in DOMAIN script'[file'.scan].comps :
            \A b \in DOMAIN file'.mcus[n].blocks[k] :
              BlockIsRight(script[file.scan], script[file.scan].comps[k], n - 1,
                           file.mcus[n].blocks[k], b)'
    BY Zenon DEF FileRight, ItemRight
  <1>4. QED
    BY <1>1, <1>2, <1>3, Zenon DEF ItemRight

LEMMA BlocksFrame ==
  ASSUME BlocksInOrder, jobs' = jobs, job' = job, Writing' => Writing, file'.scan = file.scan,
         file'.mcus = file.mcus
  PROVE  BlocksInOrder'
  <1>1. FileRight' <=> FileRight
    BY ItemsKept, Zenon DEF FileRight
  <1>2. QED
    BY <1>1, BlocksAreIn, BlocksAreInNext, Zenon DEF FileInOrder

LEMMA HeadersBlocks == ASSUME NEW m, Headers(m) PROVE BlocksInOrder'
  <1>1. file'.mcus = <<>>
    BY HeadersAre
  <1>2. \A n : n \notin DOMAIN file'.mcus
    BY <1>1
  <1>3. FileRight'
    BY <1>2, Zenon DEF FileRight
  <1>4. QED
    BY <1>3, BlocksAreInNext, Zenon DEF FileInOrder

LEMMA EncodeBlocks ==
  ASSUME IInv, CourseInv, DataInv, BlocksInOrder, EncodeMCU
  PROVE  BlocksInOrder'
  <1>1. jobs' = jobs /\ job' = job /\ global_state' = global_state /\ MCUStep
    BY Zenon DEF EncodeMCU, MCUStep, others
  <1>2. Shape /\ PassInv /\ CountInv /\ FileOK(file)
    BY Zenon DEF IInv, CourseInv, Course, Shape
  <1>3. Writing /\ ~Between /\ ~Startup /\ Writing'
    <2>1. Writing /\ ~Between /\ ~Startup
      BY <1>1, EncodesHere
    <2>2. QED
      BY <1>1, <2>1, Zenon DEF Writing
  <1>4. CASE entropy.gather
    <2>1. file' = file
      BY <1>4, Zenon DEF EncodeMCU
    <2>2. QED
      BY <1>1, <1>3, <2>1, BlocksFrame, Zenon
  <1>5. CASE ~entropy.gather
    <2> DEFINE n == entropy.counted
               blocks == MCUAt(call.y, call.x)
    <2>1. \E rst : file' = [file EXCEPT !.mcus = Append(@, [rst |-> rst, blocks |-> blocks])]
      BY <1>5, Zenon DEF EncodeMCU
    <2>2. PICK rst : file' = [file EXCEPT !.mcus = Append(@, [rst |-> rst, blocks |-> blocks])]
      BY <2>1
    <2>3. ItemRight(Scan, n, blocks)
      BY <1>1, MCURight
    <2> HIDE DEF blocks
    <2> DEFINE mcu == [rst |-> rst, blocks |-> blocks]
               mcus == Append(file.mcus, mcu)
    <2>4. mcu.blocks = blocks
      OBVIOUS
    <2>5. file' = [file EXCEPT !.mcus = mcus]
      BY <2>2
    <2> HIDE DEF mcu, mcus
    <2>6. file'.mcus = mcus /\ file'.scan = file.scan
      BY <1>2, <2>5 DEF FileOK
    <2>7. /\ file.scan = master.scan /\ IsSequence(file.mcus) /\ Len(file.mcus) = n
      BY <1>2, <1>3, <1>5, Zenon DEF PassInv, CountInv
    <2>8. n \in Nat /\ master.scan \in 1 .. Len(script)
      BY <1>1, EncodesHere
    <2>9. FileRight
      <3>1. file.scan > 0
        BY <2>7, <2>8
      <3>2. QED
        BY <1>3, <3>1, BlocksAreIn, Zenon DEF FileInOrder
    <2>10. /\ DOMAIN file.mcus = 1 .. n /\ DOMAIN mcus = 1 .. n + 1
           /\ \A i \in 1 .. n : mcus[i] = file.mcus[i]
           /\ mcus[n + 1] = mcu
      BY <2>7, AppendItems DEF mcus
    <2> HIDE DEF n
    <2>11. \A i \in 1 .. n + 1 : ItemRight(Scan, i - 1, mcus[i].blocks)
      <3> SUFFICES ASSUME NEW i \in 1 .. n + 1 PROVE ItemRight(Scan, i - 1, mcus[i].blocks)
        OBVIOUS
      <3>1. CASE i = n + 1
        <4>1. i - 1 = n
          BY <2>8, <3>1
        <4>2. QED
          BY <2>3, <2>4, <2>10, <3>1, <4>1, Zenon
      <3>2. CASE i # n + 1
        <4>1. i \in 1 .. n
          BY <2>8, <3>2
        <4>2. i \in DOMAIN file.mcus /\ mcus[i] = file.mcus[i]
          BY <2>10, <4>1
        <4>3. QED
          BY <2>7, <2>9, <4>2, Zenon DEF FileRight, Scan
      <3>3. QED
        BY <3>1, <3>2
    <2>12. FileRight'
      BY <1>1, <2>6, <2>7, <2>10, <2>11, ItemsKept, Zenon DEF Scan
    <2>13. QED
      BY <2>12, BlocksAreInNext, Zenon DEF FileInOrder
  <1>6. QED
    BY <1>4, <1>5

LEMMA BlocksStep ==
  ASSUME IInv, CourseInv, DataInv, BlocksInOrder, [Next]_vars
  PROVE  BlocksInOrder'
  <1>1. FileOK(file)
    BY Zenon DEF IInv, Shape
  <1>2. CASE EncodeMCU
    BY <1>2, EncodeBlocks
  <1>3. CASE \/ Preprocess \/ LinesDone \/ CompressData \/ SuspendMCU \/ RowCompressed
             \/ FinishPass \/ FinishCompress \/ WriteMarker \/ UNCHANGED vars
    <2>1. jobs' = jobs /\ job' = job
      BY <1>3, Zenon DEF Preprocess, LinesDone, CompressData, SuspendMCU, RowCompressed, FinishPass,
                  FinishCompress, WriteMarker, vars, others
    <2>2. global_state' = global_state \/ global_state' = "ERROR"
      BY <1>3, Zenon DEF Preprocess, LinesDone, CompressData, SuspendMCU, RowCompressed, FinishPass,
                  FinishCompress, WriteMarker, vars
    <2>3. Writing' => Writing
      BY <2>2 DEF Writing
    <2>4. file'.scan = file.scan /\ file'.mcus = file.mcus
      <3>1. CASE WriteMarker
        BY <1>1, <3>1 DEF WriteMarker, FileOK
      <3>2. CASE ~WriteMarker
        <4>1. file' = file
          BY <1>3, <3>2, Zenon DEF Preprocess, LinesDone, CompressData, SuspendMCU, RowCompressed,
                            FinishCompress, FinishPass, vars, written
        <4>2. QED
          BY <4>1
      <3>3. QED
        BY <3>1, <3>2
    <2>5. QED
      BY <2>1, <2>3, <2>4, BlocksFrame, Zenon
  <1>4. CASE NextPass
    <2>1. /\ jobs' = jobs /\ job' = job
          /\ IF master'.pass_type = "output" THEN Headers(master') ELSE file' = file
      BY <1>4, Zenon DEF NextPass, others
    <2>2. CASE master'.pass_type = "output"
      BY <2>1, <2>2, HeadersBlocks, Zenon
    <2>3. CASE master'.pass_type # "output"
      <3>1. Writing' => Writing
        BY <1>4 DEF NextPass, Writing
      <3>2. QED
        BY <2>1, <2>3, <3>1, BlocksFrame, Zenon
    <2>4. QED
      BY <2>2, <2>3
  <1>5. CASE StartCompress \/ WriteCoefficients
    <2>1. CASE ~Writing'
      BY <2>1, Zenon DEF BlocksInOrder
    <2>2. CASE Writing'
      <3>1. validate_script(script, Len(J.comps))
        BY <1>5, <2>2 DEF StartCompress, WriteCoefficients, Writing
      <3>2. \E state : Start(state)
        BY <1>5, <3>1, Zenon DEF StartCompress, WriteCoefficients
      <3>3. ~(file'.scan > 0)
        <4>1. file'.scan = 0
          BY <3>2, StartMarks
        <4>2. QED
          BY <4>1
      <3>4. QED
        BY <3>3, Zenon DEF BlocksInOrder
    <2>3. QED
      BY <2>1, <2>2
  <1>6. CASE WriteScanlines \/ WriteRawData
    <2>1. /\ jobs' = jobs /\ job' = job /\ global_state' = global_state /\ PassStartup
      BY <1>6, Zenon DEF WriteScanlines, WriteRawData
    <2>2. CASE master.call_pass_startup
      <3>1. Headers(master)
        BY <2>1, <2>2, Zenon DEF PassStartup
      <3>2. QED
        BY <3>1, HeadersBlocks
    <2>3. CASE ~master.call_pass_startup
      <3>1. file' = file
        BY <2>1, <2>3, Zenon DEF PassStartup
      <3>2. Writing' => Writing
        BY <2>1, Zenon DEF Writing
      <3>3. QED
        BY <2>1, <3>1, <3>2, BlocksFrame, Zenon
    <2>4. QED
      BY <2>2, <2>3
  <1>7. CASE \/ NextJob \/ WriteTables \/ ReadCoefficients \/ CopyCriticalParameters \/ Trailer
    <2>1. ~Writing'
      BY <1>7 DEF NextJob, WriteTables, ReadCoefficients, CopyCriticalParameters, Trailer, Idle, Writing
    <2>2. QED
      BY <2>1, Zenon DEF BlocksInOrder
  <1>8. QED
    BY <1>2, <1>3, <1>4, <1>5, <1>6, <1>7, Zenon DEF Next, Library, Application
-----------------------------------------------------------------------------
LEMMA DataHolds == Spec => [](IInv /\ CourseInv /\ CodingInv /\ DataInv /\ BlocksInOrder)
  <1>1. Init => DataInv /\ BlocksInOrder
    <2> SUFFICES ASSUME Init PROVE DataInv /\ BlocksInOrder
      OBVIOUS
    <2>1. global_state = "START" /\ source.state = "READY"
      BY Zenon DEF Init
    <2>2. InputInv
      BY <2>1 DEF InputInv
    <2>3. ~Writing /\ ~MainPass
      BY <2>1 DEF Writing, MainPass
    <2>4. QED
      BY <2>2, <2>3, Zenon DEF DataInv, ModeInv, RingInv, BufferInv, WholeInv, BlocksInOrder
  <1>2. IInv /\ IInv' /\ CourseInv /\ CourseInv' /\ DataInv /\ BlocksInOrder /\ [Next]_vars
          => DataInv' /\ BlocksInOrder'
    <2> SUFFICES ASSUME IInv, IInv', CourseInv, CourseInv', DataInv, BlocksInOrder, [Next]_vars
                 PROVE  DataInv' /\ BlocksInOrder'
      OBVIOUS
    <2>1. InputInv /\ ModeInv /\ RingInv /\ BufferInv
      BY Zenon DEF DataInv
    <2>2. InputInv' /\ ModeInv' /\ RingInv' /\ BufferInv'
      BY <2>1, InputStep, ModeStep, RowsDataStep
    <2>3. WholeInv' /\ BlocksInOrder'
      BY WholeStep, BlocksStep
    <2>4. QED
      BY <2>2, <2>3, Zenon DEF DataInv
  <1>3. Spec => [](IInv /\ CourseInv /\ CodingInv)
    BY CodingHolds
  <1>4. QED
    BY <1>1, <1>2, <1>3, PTL DEF Spec

(* In every file: each block stands in its place in the scan, with the data *)
(* of the lines, raw rows or coefficients it is made of, the lines at the   *)
(* edges repeated, and beyond the image with the block that costs least,    *)
(* however many lines each call brought and whatever was suspended; the     *)
(* restart markers come where a reader of the DRI looks for them, numbered  *)
(* in turn; when all lines are reported written, all of them have been      *)
(* through the entropy coder; and an optimized table is that of the         *)
(* statistics of the whole scan it is used for.                             *)
THEOREM CodingInOrder == Spec => []CodedInOrder
  <1>1. IInv /\ CourseInv /\ CodingInv /\ BlocksInOrder => CodedInOrder
    BY LinesAreCoded, TablesAreOptimal DEF CodingInv, CodedInOrder
  <1>2. QED
    BY <1>1, DataHolds, PTL
=============================================================================
