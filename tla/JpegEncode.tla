----------------------------- MODULE JpegEncode -----------------------------
(* The libjpeg compressor: the calls of the application (jcapimin.c,        *)
(* jcapistd.c, jctrans.c), the sequence of passes (jcmaster.c), the main    *)
(* and preprocessing controllers (jcmainct.c, jcprepct.c), the coefficient  *)
(* controllers (jccoefct.c, jctrans.c), what the entropy coders keep from   *)
(* one MCU to the next (jchuff.c, jcphuff.c), and which tables are written  *)
(* (jcmarker.c). One object compresses a list of jobs, as an application    *)
(* that writes abbreviated files does. A sample row is named by the rows of *)
(* the image it is made of; a block is [dc, ac]: whose DC and AC values it  *)
(* holds, <<>> for zeroes. ERREXIT leads to "ERROR".                        *)
EXTENDS JpegScript

CONSTANTS Jobs,            \* lists of images, with how each one is compressed
          DCTSIZE,
          LinesGiven,      \* bound: the num_lines of the application
          Rooms            \* bound: the MCUs a suspending destination takes

(* An image; sampling factors beyond MAX_SAMP_FACTOR lead to ERREXIT, and   *)
(* so do those the downsamplers cannot do.                                  *)
Samplings == [h : 1 .. 4, v : 1 .. 4, q : {0, 1}, t : {0, 1}]
Scans == [comps : Seq(Int), Ss : Int, Se : Int, Ah : Int, Al : Int]
IsImage(j) ==
  /\ j.width \in Nat \ {0} /\ j.height \in Nat \ {0} /\ j.restart_in_rows \in Nat
  /\ j.comps \in Seq(Samplings) /\ j.comps # <<>> /\ j.script \in Seq(Scans)
  /\ j.input = "lines" =>
       \A c \in DOMAIN j.comps : /\ Max({j.comps[d].h : d \in DOMAIN j.comps}) % j.comps[c].h = 0
                                /\ Max({j.comps[d].v : d \in DOMAIN j.comps}) % j.comps[c].v = 0

ASSUME JobsAssumption ==
  \A list \in Jobs : /\ Len(list) \in Nat \ {0}
                     /\ \A n \in 1 .. Len(list) : IsImage(list[n])
ASSUME SizeAssumption == DCTSIZE \in Nat \ {0} /\ LinesGiven \subseteq Nat \ {0}

VARIABLES jobs,            \* the one of Jobs that runs
          job,             \* the current one
          global_state,
          next_scanline,
          call,            \* [op, lines, row_ctr, at, y, x]: the call that runs
          master,          \* [pass_type, pass_number, scan_number, call_pass_startup,
                           \*  is_last_pass, scan]
          prep,            \* the preprocessing controller
          main,            \* the main buffer controller
          coef,            \* the coefficient controller
          entropy,         \* the entropy coder
          tables,          \* [q, dc, ac]: the tables, with their sent_table
          source,          \* the image a transcoder reads
          file,            \* the image file written, as far as it matters here
          decoder          \* the tables of whoever reads all these files

vars == <<jobs, job, global_state, next_scanline, call, master, prep, main, coef,
          entropy, tables, source, file, decoder>>

Ceil(x, y) == (x + y - 1) \div y
Least(x, y) == IF x < y THEN x ELSE y

J == jobs[job]
Comps == DOMAIN J.comps
h(c) == J.comps[c].h
v(c) == J.comps[c].v
MaxH == Max({h(c) : c \in Comps})
MaxV == Max({v(c) : c \in Comps})
-----------------------------------------------------------------------------
(* initial_setup                                                            *)
width_in_blocks(c) == Ceil(J.width * h(c), MaxH * DCTSIZE)
height_in_blocks(c) == Ceil(J.height * v(c), MaxV * DCTSIZE)
total_iMCU_rows == Ceil(J.height, MaxV * DCTSIZE)
LastOr(n, m) == IF n % m = 0 THEN m ELSE n % m

(* jinit_c_master_control                                                   *)
script == IF J.script # <<>> THEN J.script
          ELSE <<[comps |-> [c \in Comps |-> c], Ss |-> 0, Se |-> DCTSIZE2 - 1,
                  Ah |-> 0, Al |-> 0]>>
progressive == progressive_mode(script)
optimize_coding == progressive \/ J.optimize
total_passes == IF optimize_coding THEN 2 * Len(script) ELSE Len(script)

NewMaster ==
  [pass_type |-> IF J.input # "coefs" THEN "main"
                 ELSE IF optimize_coding THEN "huff_opt" ELSE "output",
   pass_number |-> 0, scan_number |-> 1, call_pass_startup |-> FALSE,
   is_last_pass |-> FALSE, scan |-> 0]

(* per_scan_setup: the scan that was selected, the counts of its MCUs.      *)
Scan == script[master.scan]
InScan == {Scan.comps[k] : k \in DOMAIN Scan.comps}
Interleaved == Len(Scan.comps) > 1
MCUs_per_row == IF Interleaved THEN Ceil(J.width, MaxH * DCTSIZE)
                ELSE width_in_blocks(Scan.comps[1])
MCU_width(c) == IF Interleaved THEN h(c) ELSE 1
MCU_height(c) == IF Interleaved THEN v(c) ELSE 1
last_col_width(c) == IF Interleaved THEN LastOr(width_in_blocks(c), h(c)) ELSE 1
last_row_height(c) == LastOr(height_in_blocks(c), v(c))
restart_interval ==
  IF J.restart_in_rows > 0 THEN Least(J.restart_in_rows * MCUs_per_row, 65535) ELSE 0
-----------------------------------------------------------------------------
(* Tables. A table has a version, by which it is told from others.          *)
Slots == {"q", "dc", "ac"} \X {0, 1}

FrameTables == {<<"q", J.comps[c].q>> : c \in Comps}
Uses(scan) ==
  LET comps == {scan.comps[k] : k \in DOMAIN scan.comps}
      dc == {<<"dc", J.comps[c].t>> : c \in comps}
      ac == {<<"ac", J.comps[c].t>> : c \in comps}
  IN IF ~progressive THEN dc \cup ac
     ELSE IF scan.Ss # 0 THEN ac ELSE IF scan.Ah = 0 THEN dc ELSE {}

(* jpeg_suppress_tables                                                     *)
Suppressed(t, suppress) == [s \in Slots |-> [t[s] EXCEPT !.sent = suppress]]

(* emit_dqt, emit_dht: of the tables S those not sent before.               *)
Emit(S) ==
  /\ tables' = [s \in Slots |-> IF s \in S THEN [tables[s] EXCEPT !.sent = TRUE]
                                ELSE tables[s]]
  /\ decoder' = [s \in Slots |-> IF s \in S /\ ~tables[s].sent THEN tables[s].version
                                 ELSE decoder[s]]

(* jpeg_set_defaults for the job: all tables are set again.                 *)
Defaults(t) == [s \in Slots |-> [version |-> <<job, 0, 0>>, sent |-> FALSE]]
-----------------------------------------------------------------------------
(* The application's rows. create_context_buffer: the pointers that wrap    *)
(* around the three row groups of color_buf.                                *)
smoothed(c) == /\ J.smooth
               /\ \/ h(c) = MaxH /\ v(c) = MaxV
                  \/ 2 * h(c) = MaxH /\ 2 * v(c) = MaxV
context_rows == \E c \in Comps : smoothed(c)
RowPointer(i) == IF context_rows
                 THEN IF i < 0 THEN i + 3 * MaxV ELSE IF i >= 3 * MaxV THEN i - 3 * MaxV ELSE i
                 ELSE i

(* start_pass_prep                                                          *)
NewPrep == [buf |-> [i \in 0 .. 3 * MaxV - 1 |-> -1], rows_to_go |-> J.height,
            next_buf_row |-> 0, this_row_group |-> 0, next_buf_stop |-> 2 * MaxV]

(* The downsamplers: row j of component c from the row group that starts at *)
(* row `from` of color_buf, smoothing with the rows above and below.        *)
DownRow(buf, c, from, j) ==
  LET f == MaxV \div v(c)
      margin == IF smoothed(c) THEN 1 ELSE 0
  IN [k \in 1 .. f + 2 * margin |-> buf[RowPointer(from + j * f + k - 1 - margin)]]

Downsample(out, buf, from, group) ==
  [c \in Comps |-> [i \in DOMAIN out[c] |->
      IF i \div v(c) = group THEN DownRow(buf, c, from, i % v(c)) ELSE out[c][i]]]

(* n rows of the application, from number row on, put at p.next_buf_row.    *)
Convert(p, row, n) ==
  [p EXCEPT !.buf = [i \in DOMAIN @ |->
                       IF i \in p.next_buf_row .. p.next_buf_row + n - 1
                       THEN row + i - p.next_buf_row ELSE @[i]],
            !.next_buf_row = @ + n, !.rows_to_go = @ - n]

(* expand_bottom_edge of color_buf                                          *)
Expand(p, last, stop) ==
  [p EXCEPT !.buf = [i \in DOMAIN @ |-> IF i \notin last .. stop - 1 THEN @[i]
                                         ELSE @[RowPointer(last - 1)]],
            !.next_buf_row = stop]

(* One turn of pre_process_data; q is [prep, out, group, row_ctr].          *)
SimpleTurn(q) ==
  LET n == Least(MaxV - q.prep.next_buf_row, call.lines - q.row_ctr)
      got == Convert(q.prep, next_scanline + q.row_ctr, n)
      p == IF got.rows_to_go = 0 THEN Expand(got, got.next_buf_row, MaxV) ELSE got
      full == p.next_buf_row = MaxV
      group == q.group + (IF full THEN 1 ELSE 0)
      out == IF full THEN Downsample(q.out, p.buf, 0, q.group) ELSE q.out
      pad == p.rows_to_go = 0
  IN [prep |-> IF full THEN [p EXCEPT !.next_buf_row = 0] ELSE p,
      row_ctr |-> q.row_ctr + n,
      group |-> IF pad THEN DCTSIZE ELSE group,
      out |-> IF ~pad THEN out
              ELSE [c \in Comps |-> [i \in DOMAIN out[c] |->
                       out[c][Least(i, group * v(c) - 1)]]]]

(* pre_process_context: rows are converted; the first one is repeated above *)
(* the image, in the rows that wrap around.                                 *)
ContextInput(q) ==
  LET n == Least(q.prep.next_buf_stop - q.prep.next_buf_row, call.lines - q.row_ctr)
      p == Convert(q.prep, next_scanline + q.row_ctr, n)
      top == {RowPointer(-r) : r \in 1 .. MaxV}
  IN IF q.prep.rows_to_go # J.height THEN p
     ELSE [p EXCEPT !.buf = [i \in DOMAIN @ |-> IF i \in top THEN @[0] ELSE @[i]]]

(* One turn of pre_process_context.                                         *)
ContextTurn(q) ==
  LET input == q.row_ctr < call.lines
      p == IF input THEN ContextInput(q)
           ELSE Expand(q.prep, q.prep.next_buf_row, q.prep.next_buf_stop)
      row_ctr == IF input THEN q.row_ctr + q.prep.rows_to_go - p.rows_to_go ELSE q.row_ctr
      next == IF p.next_buf_row >= 3 * MaxV THEN 0 ELSE p.next_buf_row
  IN IF p.next_buf_row < p.next_buf_stop THEN [q EXCEPT !.prep = p, !.row_ctr = row_ctr]
     ELSE [prep |-> [p EXCEPT !.this_row_group = (@ + MaxV) % (3 * MaxV),
                              !.next_buf_row = next, !.next_buf_stop = next + MaxV],
           row_ctr |-> row_ctr, group |-> q.group + 1,
           out |-> Downsample(q.out, p.buf, p.this_row_group, q.group)]

(* Whether pre_process_data makes another turn.                             *)
MoreRows == /\ main.rowgroup_ctr < DCTSIZE
            /\ call.row_ctr < call.lines \/ (context_rows /\ prep.rows_to_go = 0)

(* What the application gives to jpeg_write_raw_data: rows of each          *)
(* component, below the image too.                                          *)
RawRows == [c \in Comps |-> [i \in 0 .. v(c) * DCTSIZE - 1 |->
              <<(next_scanline \div MaxV) * v(c) + i>>]]

(* jinit_c_main_controller, start_pass_main                                 *)
NewMain == [buffer |-> [c \in Comps |-> [i \in 0 .. v(c) * DCTSIZE - 1 |-> <<>>]],
            cur_iMCU_row |-> 0, rowgroup_ctr |-> 0, suspended |-> FALSE]
-----------------------------------------------------------------------------
(* The coefficient controllers.                                             *)
MCU_rows_per_iMCU_row ==
  IF Interleaved THEN 1
  ELSE IF coef.iMCU_row_num < total_iMCU_rows - 1 THEN v(Scan.comps[1])
  ELSE last_row_height(Scan.comps[1])

(* forward_DCT of the block in row y and column x of the iMCU row           *)
Dct(c, y, x) == LET rows == [i \in 1 .. DCTSIZE |-> main.buffer[c][y * DCTSIZE + i - 1]]
                IN [dc |-> <<x, rows>>, ac |-> <<x, rows>>]
Dummy(block) == [dc |-> block.dc, ac |-> <<>>]

FromSource(c, y, x) ==
  LET b == <<source.read, coef.iMCU_row_num * v(c) + y, x>> IN [dc |-> b, ac |-> b]

(* A block of the image: of the rows that came, or of the source.           *)
RealBlock(c, y, x) == IF coef.mode = "TRANSCODE" THEN FromSource(c, y, x) ELSE Dct(c, y, x)

(* The blocks of component c in the MCU at (y, x) of a scan, row by row:    *)
(* those beyond the image repeat the DC of the one before them.             *)
WithDummies(c, y, x) ==
  LET w == MCU_width(c)
      cols == IF x < MCUs_per_row - 1 THEN w ELSE last_col_width(c)
      rows == IF coef.iMCU_row_num < total_iMCU_rows - 1 THEN MCU_height(c)
              ELSE Least(MCU_height(c), last_row_height(c) - y)
      block[b \in 0 .. w * MCU_height(c) - 1] ==
        IF b \div w < rows /\ b % w < cols THEN RealBlock(c, y + (b \div w), x * w + (b % w))
        ELSE Dummy(block[b - 1])
  IN [b \in 1 .. w * MCU_height(c) |-> block[b - 1]]

(* compress_first_pass: the iMCU row of each component, dummy blocks too.   *)
FirstPass(c) ==
  LET across == width_in_blocks(c)
      padded == Ceil(across, h(c)) * h(c)
      rows == IF coef.iMCU_row_num < total_iMCU_rows - 1 THEN v(c) ELSE last_row_height(c)
      real == [b \in (0 .. rows - 1) \X (0 .. padded - 1) |->
                 IF b[2] < across THEN Dct(c, b[1], b[2]) ELSE Dummy(Dct(c, b[1], across - 1))]
  IN [b \in (0 .. v(c) - 1) \X (0 .. padded - 1) |->
        IF b[1] < rows THEN real[b]
        ELSE Dummy(real[<<rows - 1, (b[2] \div h(c)) * h(c) + h(c) - 1>>])]

Stored == [c \in Comps |-> LET strip == FirstPass(c) IN
             [b \in DOMAIN coef.whole[c] |->
                LET y == b[1] - coef.iMCU_row_num * v(c)
                IN IF y \in 0 .. v(c) - 1 THEN strip[<<y, b[2]>>] ELSE coef.whole[c][b]]]

(* jinit_c_coef_controller: whole_image if there is more than one pass.     *)
NewWhole ==
  [c \in Comps |-> [b \in IF total_passes > 1 THEN (0 .. Ceil(height_in_blocks(c), v(c)) * v(c) - 1)
                                                  \X (0 .. Ceil(width_in_blocks(c), h(c)) * h(c) - 1)
                          ELSE {} |-> [dc |-> <<>>, ac |-> <<>>]]]

FromArray(c, y, x) == coef.whole[c][<<coef.iMCU_row_num * v(c) + y, x>>]

(* compress_data; compress_output of jccoefct.c; and that of jctrans.c.     *)
BlocksAt(c, y, x) ==
  IF coef.mode \in {"PASS_THRU", "TRANSCODE"} THEN WithDummies(c, y, x)
  ELSE [b \in 1 .. MCU_width(c) * MCU_height(c) |->
                   FromArray(c, y + ((b - 1) \div MCU_width(c)),
                             x * MCU_width(c) + ((b - 1) % MCU_width(c)))]

MCUAt(y, x) == [k \in DOMAIN Scan.comps |-> BlocksAt(Scan.comps[k], y, x)]
-----------------------------------------------------------------------------
NoCall == [op |-> "none", lines |-> 0, row_ctr |-> 0, at |-> "none", y |-> 0, x |-> 0,
           room |-> 0]
NewCoef(mode, whole) == [mode |-> mode, iMCU_row_num |-> 0, MCU_vert_offset |-> 0,
                         mcu_ctr |-> 0, whole |-> whole]
NewFile == [marks |-> <<>>, dri |-> 0, scan |-> 0, mcus |-> <<>>]

(* start_pass_huff, start_pass_phuff                                        *)
NewEntropy(gather, interval) ==
  [gather |-> gather, restarts_to_go |-> interval, next_restart_num |-> 0, counted |-> 0]

(* A DC refinement scan needs no tables, hence no statistics pass.          *)
SkipsOptimization(m) ==
  m.pass_type = "huff_opt" /\ script[m.scan_number].Ss = 0 /\ script[m.scan_number].Ah # 0

(* prepare_for_pass: what it does to the master record.                     *)
Prepared(m) ==
  LET n == IF SkipsOptimization(m)
           THEN [m EXCEPT !.pass_type = "output", !.pass_number = @ + 1] ELSE m
  IN [n EXCEPT !.scan = IF m.pass_type # "output" \/ ~optimize_coding THEN m.scan_number ELSE @,
               !.call_pass_startup = m.pass_type = "main" /\ ~optimize_coding,
               !.is_last_pass = n.pass_number = total_passes - 1]

(* Mutant of AfterPass: the scan of the main pass is coded again.           *)
AfterPassAgain(m) ==
  [m EXCEPT !.pass_type = IF m.pass_type = "output" /\ optimize_coding THEN "huff_opt"
                          ELSE "output",
            !.scan_number = IF m.pass_type = "output" THEN @ + 1 ELSE @,
            !.pass_number = @ + 1]

(* finish_pass_master                                                       *)
AfterPass(m) ==
  [m EXCEPT !.pass_type = IF m.pass_type = "output" /\ optimize_coding THEN "huff_opt"
                          ELSE "output",
            !.scan_number = CASE m.pass_type = "main" /\ ~optimize_coding -> @ + 1
                              [] m.pass_type = "output" -> @ + 1
                              [] OTHER -> @,
            !.pass_number = @ + 1]

Init ==
  /\ jobs \in Jobs /\ job = 1
  /\ global_state = "START" /\ next_scanline = 0
  /\ call = NoCall
  /\ master = NewMaster /\ prep = NewPrep /\ main = NewMain
  /\ coef = NewCoef("PASS_THRU", NewWhole)
  /\ entropy = NewEntropy(FALSE, 0)
  /\ tables = Defaults(Slots)
  /\ source = [state |-> "READY", read |-> 0]
  /\ file = NewFile
  /\ decoder = [s \in Slots |-> <<0, 0, 0>>]
-----------------------------------------------------------------------------
(* The application between calls.                                           *)
Idle(state) == call = NoCall /\ global_state \in state
engine == <<master, prep, main, coef, entropy>>

(* The next image, with all parameters set anew or with those of the last.  *)
NextJob ==
  /\ Idle({"DONE"}) /\ job < Len(jobs)
  /\ job' = job + 1 /\ global_state' = "START"
  /\ tables' = IF jobs[job'].defaults
               THEN [s \in Slots |-> [version |-> <<job', 0, 0>>, sent |-> FALSE]] ELSE tables
  /\ source' = [state |-> "READY", read |-> 0]
  /\ UNCHANGED <<jobs, next_scanline, call, engine, file, decoder>>

(* jpeg_write_tables, write_tables_only                                     *)
WriteTables ==
  /\ Idle({"START"}) /\ J.input = "tables"
  /\ Emit(Slots) /\ file' = NewFile /\ global_state' = "DONE"
  /\ UNCHANGED <<jobs, job, next_scanline, call, engine, source>>

(* The modules of a new image; write_file_header.                           *)
Start(state) ==
  /\ next_scanline' = 0 /\ file' = [NewFile EXCEPT !.marks = <<"SOI">>]
  /\ prep' = NewPrep /\ main' = NewMain
  /\ global_state' = state

(* jpeg_start_compress, jinit_compress_master. The decoder of a complete    *)
(* file knows no tables before it.                                          *)
StartCompress ==
  /\ Idle({"START"}) /\ J.input \in {"lines", "raw"}
  /\ UNCHANGED <<jobs, job, call, source>>
  /\ tables' = IF J.all THEN Suppressed(tables, FALSE) ELSE tables
  /\ decoder' = IF J.all THEN [s \in Slots |-> <<0, 0, 0>>] ELSE decoder
  /\ IF ~validate_script(script, Len(J.comps))
     THEN global_state' = "ERROR" /\ UNCHANGED <<next_scanline, engine, file>>
     ELSE /\ Start(IF J.input = "raw" THEN "RAW_OK" ELSE "SCANNING")
          /\ master' = Prepared(NewMaster)
          /\ coef' = NewCoef(IF total_passes > 1 THEN "SAVE_AND_PASS" ELSE "PASS_THRU", NewWhole)
          /\ entropy' = NewEntropy(optimize_coding, restart_interval')

(* jpeg_read_coefficients: it returns when the source suspends or at EOI.   *)
ReadCoefficients ==
  /\ Idle({"START"}) /\ J.input = "coefs" /\ source.state \in {"READY", "RDCOEFS"}
  /\ \E k \in 1 .. J.units - source.read :
       source' = [state |-> IF source.read + k = J.units THEN "STOPPING" ELSE "RDCOEFS",
                  read |-> source.read + k]
  /\ UNCHANGED <<jobs, job, global_state, next_scanline, call, engine, tables, file, decoder>>

(* jpeg_copy_critical_parameters: all tables are set again, the quantizers  *)
(* to those of the source, unless one of its slots was used twice.          *)
CopyCriticalParameters ==
  /\ Idle({"START"}) /\ source.state = "STOPPING"
  /\ source' = [source EXCEPT !.state = "COPIED"]
  /\ tables' = [s \in Slots |-> [version |-> IF s[1] = "q" THEN <<job, 0, 1>> ELSE <<job, 0, 0>>,
                                 sent |-> FALSE]]
  /\ global_state' = IF J.slot_reused THEN "ERROR" ELSE global_state
  /\ UNCHANGED <<jobs, job, next_scanline, call, engine, file, decoder>>

(* jpeg_write_coefficients, transencode_master_selection                    *)
WriteCoefficients ==
  /\ Idle({"START"}) /\ source.state = "COPIED"
  /\ source' = [source EXCEPT !.state = "WRITTEN"]
  /\ tables' = Suppressed(tables, FALSE)
  /\ decoder' = [s \in Slots |-> <<0, 0, 0>>]
  /\ IF ~validate_script(script, Len(J.comps))
     THEN global_state' = "ERROR" /\ UNCHANGED <<next_scanline, engine, file>>
     ELSE /\ Start("WRCOEFS") /\ master' = NewMaster
          /\ coef' = NewCoef("TRANSCODE", [c \in Comps |-> <<>>])
          /\ UNCHANGED entropy
  /\ UNCHANGED <<jobs, job, call>>

(* jpeg_write_marker                                                        *)
WriteMarker ==
  /\ Idle({"SCANNING", "RAW_OK", "WRCOEFS"}) /\ next_scanline = 0
  /\ J.comment /\ file.marks = <<"SOI">>
  /\ file' = [file EXCEPT !.marks = Append(@, "COM")]
  /\ UNCHANGED <<jobs, job, global_state, next_scanline, call, engine, tables, source, decoder>>

Room == IF J.suspends THEN Rooms ELSE {-1}

(* write_frame_header, write_scan_header; DRI if the interval has changed.  *)
Headers(m) ==
  LET first == m.scan_number = 1
      interval == restart_interval'
  IN /\ Emit((IF first THEN FrameTables ELSE {}) \cup Uses(script[m.scan]))
     /\ file' = [marks |-> file.marks \o (IF first THEN <<"SOF">> ELSE <<>>) \o <<"SOS">>,
                 dri |-> interval, scan |-> m.scan, mcus |-> <<>>]

(* pass_startup, at the first lines.                                        *)
PassStartup ==
  IF master.call_pass_startup
  THEN master' = [master EXCEPT !.call_pass_startup = FALSE] /\ Headers(master)
  ELSE UNCHANGED <<master, file, tables, decoder>>

(* jpeg_write_scanlines begins.                                             *)
WriteScanlines ==
  /\ Idle({"SCANNING"}) /\ next_scanline < J.height
  /\ \E n \in LinesGiven, room \in Room :
       call' = [NoCall EXCEPT !.op = "lines", !.at = "prep", !.room = room,
                              !.lines = Least(n, J.height - next_scanline)]
  /\ UNCHANGED <<jobs, job, global_state, next_scanline, prep, main, coef, entropy, source>>
  /\ PassStartup

(* jpeg_write_raw_data begins.                                              *)
WriteRawData ==
  /\ Idle({"RAW_OK"}) /\ next_scanline < J.height
  /\ \E room \in Room : call' = [NoCall EXCEPT !.op = "raw", !.at = "compress", !.room = room]
  /\ main' = [main EXCEPT !.buffer = RawRows]
  /\ UNCHANGED <<jobs, job, global_state, next_scanline, prep, coef, entropy, source>>
  /\ PassStartup

(* jpeg_finish_compress begins.                                             *)
FinishCompress ==
  /\ \/ Idle({"SCANNING", "RAW_OK"}) /\ next_scanline >= J.height
     \/ Idle({"WRCOEFS"})
  /\ \E room \in Room :
       call' = [NoCall EXCEPT !.op = "finish", !.room = room,
                  !.at = IF global_state = "WRCOEFS" THEN "passes" ELSE "finish_pass"]
  /\ UNCHANGED <<jobs, job, global_state, next_scanline, engine, tables, source, file, decoder>>
-----------------------------------------------------------------------------
(* The library.                                                             *)
others == <<jobs, job, source>>
written == <<tables, file, decoder>>

(* process_data_simple_main: a turn of the preprocessor.                    *)
Preprocess ==
  /\ call.at = "prep" /\ main.cur_iMCU_row < total_iMCU_rows /\ MoreRows
  /\ \E q \in {[prep |-> prep, out |-> main.buffer, group |-> main.rowgroup_ctr,
                row_ctr |-> call.row_ctr]} :
     \E r \in {IF context_rows THEN ContextTurn(q) ELSE SimpleTurn(q)} :
       /\ prep' = r.prep
       /\ main' = [main EXCEPT !.buffer = r.out, !.rowgroup_ctr = r.group]
       /\ call' = [call EXCEPT !.row_ctr = r.row_ctr]
  /\ UNCHANGED <<others, global_state, next_scanline, master, coef, entropy, written>>

(* process_data_simple_main returns: the rows it took are counted.          *)
LinesDone ==
  /\ call.at = "prep"
  /\ main.cur_iMCU_row = total_iMCU_rows \/ (main.rowgroup_ctr < DCTSIZE /\ ~MoreRows)
  /\ next_scanline' = next_scanline + call.row_ctr /\ call' = NoCall
  /\ UNCHANGED <<others, global_state, engine, written>>

(* compress_data is called, with a full main buffer or from the arrays.     *)
CompressData ==
  /\ \/ call.at = "prep" /\ main.cur_iMCU_row < total_iMCU_rows /\ main.rowgroup_ctr = DCTSIZE
     \/ call.at = "compress"
  /\ coef' = IF coef.mode = "SAVE_AND_PASS" THEN [coef EXCEPT !.whole = Stored] ELSE coef
  /\ call' = [call EXCEPT !.at = "mcu", !.y = coef.MCU_vert_offset, !.x = coef.mcu_ctr]
  /\ UNCHANGED <<others, global_state, next_scanline, master, prep, main, entropy, written>>

(* What encode_mcu keeps of its restart intervals.                          *)
Restarted(e) ==
  IF restart_interval = 0 THEN e
  ELSE IF e.restarts_to_go # 0 THEN [e EXCEPT !.restarts_to_go = @ - 1]
  ELSE [e EXCEPT !.restarts_to_go = restart_interval - 1,
                 !.next_restart_num = IF e.gather THEN @ ELSE (@ + 1) % 8]

MCUStep == call.at = "mcu" /\ call.y < MCU_rows_per_iMCU_row

(* encode_mcu succeeds; a restart marker may come before the MCU.           *)
EncodeMCU ==
  /\ MCUStep /\ (entropy.gather \/ call.room # 0)
  /\ entropy' = [Restarted(entropy) EXCEPT !.counted = @ + 1]
  /\ IF entropy.gather THEN UNCHANGED file
     ELSE \E blocks \in {MCUAt(call.y, call.x)} :
            file' = [file EXCEPT !.mcus = Append(@,
              [rst |-> IF restart_interval > 0 /\ entropy.restarts_to_go = 0
                       THEN entropy.next_restart_num ELSE -1,
               blocks |-> blocks])]
  /\ LET ends == call.x + 1 = MCUs_per_row
     IN /\ call' = [call EXCEPT !.x = IF ends THEN 0 ELSE @ + 1, !.y = IF ends THEN @ + 1 ELSE @,
                                !.room = IF entropy.gather \/ @ < 0 THEN @ ELSE @ - 1]
        /\ coef' = IF ends THEN [coef EXCEPT !.mcu_ctr = 0] ELSE coef
  /\ UNCHANGED <<others, global_state, next_scanline, master, prep, main, tables, decoder>>

(* Mutant of SuspendedAt: the row of the MCU is not kept.                   *)
SuspendedAtTop == [coef EXCEPT !.mcu_ctr = call.x]

SuspendedAt == [coef EXCEPT !.MCU_vert_offset = call.y, !.mcu_ctr = call.x]

(* Mutant of RowsTaken: the last row is given back each time.               *)
RowsTakenLess == call.row_ctr - 1

(* The suspension hack: the last row is given again.                        *)
RowsTaken == IF main.suspended THEN call.row_ctr ELSE call.row_ctr - 1

(* encode_mcu fails for lack of room.                                       *)
SuspendMCU ==
  /\ MCUStep /\ ~entropy.gather /\ call.room = 0
  /\ coef' = SuspendedAt
  /\ main' = IF call.op = "lines" THEN [main EXCEPT !.suspended = TRUE] ELSE main
  /\ next_scanline' = IF call.op = "lines" THEN next_scanline + RowsTaken ELSE next_scanline
  /\ global_state' = IF call.op = "finish" THEN "ERROR" ELSE global_state
  /\ call' = NoCall
  /\ UNCHANGED <<others, master, prep, entropy, written>>

(* compress_data returns TRUE: the counters of the coefficient controller,  *)
(* then those of its caller.                                                *)
RowCompressed ==
  /\ call.at = "mcu" /\ call.y = MCU_rows_per_iMCU_row
  /\ coef' = [coef EXCEPT !.iMCU_row_num = @ + 1, !.mcu_ctr = 0, !.MCU_vert_offset = 0]
  /\ CASE call.op = "lines" ->
            /\ call' = [call EXCEPT !.at = "prep",
                                    !.row_ctr = IF main.suspended THEN @ + 1 ELSE @]
            /\ main' = [main EXCEPT !.suspended = FALSE, !.rowgroup_ctr = 0,
                                    !.cur_iMCU_row = @ + 1]
            /\ UNCHANGED next_scanline
       [] call.op = "raw" -> /\ next_scanline' = next_scanline + MaxV * DCTSIZE
                             /\ call' = NoCall /\ UNCHANGED main
       [] call.op = "finish" ->
            /\ call' = [call EXCEPT !.at = IF coef.iMCU_row_num + 1 < total_iMCU_rows
                                           THEN "compress" ELSE "finish_pass"]
            /\ UNCHANGED <<next_scanline, main>>
  /\ UNCHANGED <<others, global_state, master, prep, entropy, written>>

(* Mutant of Optimal: a table that was sent counts as sent for ever.        *)
OptimalUnsent == [s \in Slots |-> IF s \in Uses(Scan)
                     THEN [tables[s] EXCEPT !.version = <<job, master.scan, entropy.counted>>]
                     ELSE tables[s]]

(* finish_pass_gather, finish_pass_gather_phuff: the tables of this scan.   *)
Optimal == [s \in Slots |-> IF s \in Uses(Scan)
                            THEN [version |-> <<job, master.scan, entropy.counted>>, sent |-> FALSE]
                            ELSE tables[s]]

FinishPass ==
  /\ call.at = "finish_pass"
  /\ tables' = IF entropy.gather THEN Optimal ELSE tables
  /\ master' = AfterPass(master)
  /\ call' = [call EXCEPT !.at = "passes"]
  /\ UNCHANGED <<others, global_state, next_scanline, prep, main, coef, entropy, file, decoder>>

(* Another pass: prepare_for_pass.                                          *)
NextPass ==
  /\ call.at = "passes" /\ ~master.is_last_pass
  /\ UNCHANGED <<others, global_state, next_scanline, prep, main>>
  /\ master' = Prepared(master)
  /\ coef' = NewCoef(IF coef.mode = "TRANSCODE" THEN coef.mode ELSE "CRANK_DEST", coef.whole)
  /\ entropy' = NewEntropy(master'.pass_type = "huff_opt", restart_interval')
  /\ IF master'.pass_type = "output" THEN Headers(master')
     ELSE UNCHANGED <<tables, file, decoder>>
  /\ call' = [call EXCEPT !.at = "compress"]

(* write_file_trailer, jpeg_abort                                           *)
Trailer ==
  /\ call.at = "passes" /\ master.is_last_pass
  /\ file' = [file EXCEPT !.marks = Append(@, "EOI")]
  /\ global_state' = "DONE" /\ call' = NoCall
  /\ UNCHANGED <<others, next_scanline, engine, tables, decoder>>
-----------------------------------------------------------------------------
Library == \/ Preprocess \/ LinesDone \/ CompressData \/ EncodeMCU \/ SuspendMCU
           \/ RowCompressed \/ FinishPass \/ NextPass \/ Trailer

Application == \/ NextJob \/ WriteTables \/ StartCompress \/ ReadCoefficients
               \/ CopyCriticalParameters \/ WriteCoefficients \/ WriteMarker
               \/ WriteScanlines \/ WriteRawData \/ FinishCompress

Next == Library \/ Application

(* The library runs to the end of a call; the application goes on until     *)
(* its images are written.                                                  *)
Spec == Init /\ [][Next]_vars /\ WF_vars(Library) /\ WF_vars(Application)
-----------------------------------------------------------------------------
(* What a file should hold, scan by scan.                                   *)
Writing == global_state \in {"SCANNING", "RAW_OK", "WRCOEFS"}
Wide(scan, c) == IF Len(scan.comps) > 1 THEN h(c) ELSE 1
Tall(scan, c) == IF Len(scan.comps) > 1 THEN v(c) ELSE 1
Across(scan) == Ceil(width_in_blocks(scan.comps[1]), Wide(scan, scan.comps[1]))
Count(scan) == Across(scan) * Ceil(height_in_blocks(scan.comps[1]), Tall(scan, scan.comps[1]))

(* Line j of component c: the lines of the image it is made of, those at    *)
(* the edges repeated.                                                      *)
Clip(r) == Max({0, Least(r, J.height - 1)})
Line(c, j) ==
  LET f == MaxV \div v(c)
      margin == IF smoothed(c) THEN 1 ELSE 0
      i == IF context_rows THEN j ELSE Least(j, Ceil(J.height, MaxV) * v(c) - 1)
  IN IF J.input = "raw" THEN <<j>>
     ELSE [k \in 1 .. f + 2 * margin |-> Clip(i * f + k - 1 - margin)]

Data(c, row, col) ==
  IF J.input = "coefs" THEN <<J.units, row, col>>
  ELSE <<col, [i \in 1 .. DCTSIZE |-> Line(c, row * DCTSIZE + i - 1)]>>

(* Block b of component c in MCU number n of the scan.                      *)
BlockIsRight(scan, c, n, blocks, b) ==
  LET row == (n \div Across(scan)) * Tall(scan, c) + ((b - 1) \div Wide(scan, c))
      col == (n % Across(scan)) * Wide(scan, c) + ((b - 1) % Wide(scan, c))
  IN IF row < height_in_blocks(c) /\ col < width_in_blocks(c)
     THEN LET d == Data(c, row, col) IN blocks[b] = [dc |-> d, ac |-> d]
     ELSE blocks[b] = Dummy(blocks[b - 1])

(* What a reader expects who has seen the DRI of the file.                  *)
RestartBefore(n) ==
  IF file.dri > 0 /\ n > 0 /\ n % file.dri = 0 THEN ((n \div file.dri) - 1) % 8 ELSE -1

Complete == file.scan > 0 /\ Len(file.mcus) = Count(script[file.scan])

TypeOK ==
  /\ global_state \in {"START", "SCANNING", "RAW_OK", "WRCOEFS", "DONE", "ERROR"}
  /\ \A s \in Slots : tables[s].sent \in BOOLEAN
  /\ Writing =>
       /\ next_scanline \in 0 .. J.height + MaxV * DCTSIZE
       /\ call.lines \in 0 .. J.height /\ call.row_ctr \in 0 .. call.lines
       /\ master.pass_number \in 0 .. total_passes /\ master.scan_number \in 1 .. Len(script) + 1
       /\ prep.rows_to_go \in 0 .. J.height /\ prep.next_buf_row \in 0 .. 3 * MaxV
       /\ main.rowgroup_ctr \in 0 .. DCTSIZE /\ main.cur_iMCU_row \in 0 .. total_iMCU_rows
       /\ coef.iMCU_row_num \in 0 .. total_iMCU_rows
       /\ entropy.next_restart_num \in 0 .. 7

RestartsAreRight(scan) ==
  /\ file.dri = Least(J.restart_in_rows * Across(scan), 65535)
  /\ \A n \in DOMAIN file.mcus : file.mcus[n].rst = RestartBefore(n - 1)

BlocksAreRight(scan) ==
  \A n \in DOMAIN file.mcus, k \in DOMAIN scan.comps :
    LET blocks == file.mcus[n].blocks[k] IN
    \A b \in DOMAIN blocks : BlockIsRight(scan, scan.comps[k], n - 1, blocks, b)

RestartsInOrder == Writing /\ file.scan > 0 => RestartsAreRight(script[file.scan])
BlocksInOrder == Writing /\ file.scan > 0 => BlocksAreRight(script[file.scan])

(* When all lines are reported written, all have been through the coder.    *)
LinesCoded ==
  global_state \in {"SCANNING", "RAW_OK"} /\ call = NoCall /\ next_scanline >= J.height =>
    entropy.counted = Count(script[1])

(* Optimized tables are those of the statistics of this scan, all of it.    *)
OutputPass == Writing /\ file.scan > 0 /\ file.scan = master.scan /\ ~entropy.gather

TablesOptimal ==
  OutputPass /\ optimize_coding =>
    \A s \in Uses(script[file.scan]) :
      decoder[s] = <<job, file.scan, Count(script[file.scan])>>

(* Every MCU is written once and in its place, with the lines of the image  *)
(* it stands for and the restart marker due before it; what is beyond the   *)
(* image costs least (jccoefct.c:161-166), whatever is suspended and however*)
(* many lines each call brings. When all lines are reported written, all of *)
(* them have been through the entropy coder: the application may call       *)
(* jpeg_finish_compress (jcmainct.c:135-146).                               *)
CodedInOrder == BlocksInOrder /\ RestartsInOrder /\ LinesCoded /\ TablesOptimal

(* Who reads the files has the tables each scan was coded with, whatever    *)
(* tables were suppressed, set anew or optimized since (jcapistd.c:26-34).  *)
DecoderHasTables ==
  OutputPass =>
    \A s \in Slots : s \in FrameTables \cup Uses(script[file.scan]) =>
      decoder[s] = tables[s].version

(* The scans of the script follow one another, each one complete, after one *)
(* frame header and the markers of the application; then comes EOI.         *)
ScansComplete ==
  [][/\ file'.scan > file.scan => /\ file'.scan = file.scan + 1
                                  /\ file.scan > 0 => Complete
     /\ Writing =>
          (global_state' = "DONE" =>
             /\ file.scan = Len(script) /\ Complete
             /\ file.marks = (IF "COM" = file.marks[2] THEN <<"SOI", "COM", "SOF">>
                              ELSE <<"SOI", "SOF">>) \o [n \in DOMAIN script |-> "SOS"])]_vars

(* The application's images get written, however the destination suspends.  *)
CompressionEnds == <>(global_state = "ERROR" \/ (global_state = "DONE" /\ job = Len(jobs)))
=============================================================================
