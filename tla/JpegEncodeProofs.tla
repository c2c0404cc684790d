-------------------------- MODULE JpegEncodeProofs --------------------------
(* Proofs about JpegEncode. First that sent_table tells the truth, so that  *)
(* whoever reads the files has the tables of every scan; then the course of *)
(* the passes, of the rows and of the MCUs, from which the counters stay in *)
(* range and the scans follow one another; and what the scans hold: restart *)
(* markers, all lines that were taken, and the tables of their statistics.  *)
(* That the blocks are right is shown in JpegBlocksProofs.                  *)
EXTENDS JpegEncode, SequenceTheorems, TLAPS

CallOK(k) ==
  /\ DOMAIN k = {"op", "lines", "row_ctr", "at", "y", "x", "room"}
  /\ k.at # "none" => k.op \in {"lines", "raw", "finish"}
MasterOK(m) ==
  /\ DOMAIN m = {"pass_type", "pass_number", "scan_number", "call_pass_startup",
                 "is_last_pass", "scan"}
  /\ m.pass_type \in {"main", "huff_opt", "output"}
  /\ m.scan_number \in Nat \ {0} /\ m.scan \in Nat
EntropyOK(e) == DOMAIN e = {"gather", "restarts_to_go", "next_restart_num", "counted"}
FileOK(f) == DOMAIN f = {"marks", "dri", "scan", "mcus"} /\ f.scan \in Nat
TablesOK(t) == DOMAIN t = Slots /\ \A s \in Slots : DOMAIN t[s] = {"version", "sent"}

Shape ==
  /\ jobs \in Jobs /\ job \in 1 .. Len(jobs)
  /\ CallOK(call) /\ MasterOK(master) /\ EntropyOK(entropy) /\ FileOK(file) /\ TablesOK(tables)

(* sent_table: the reader has this very table.                              *)
SentKnown == \A s \in Slots : tables[s].sent => decoder[s] = tables[s].version

(* The tables of the frame were sent with the first scan, those of a scan   *)
(* that is written with its header.                                         *)
FrameSent ==
  Writing /\ file.scan > 0 => \A s \in Slots : s \in FrameTables => tables[s].sent
ScanSent ==
  OutputPass => \A s \in Slots : s \in Uses(script[file.scan]) => tables[s].sent

(* A scan is selected from the first pass on; a transcoder has it later.    *)
ScanSelected ==
  Writing => \/ master.scan > 0
             \/ /\ global_state = "WRCOEFS" /\ master = NewMaster
                /\ call = NoCall \/ call.at = "passes"

(* Until a scan header is written the image is at its first scan: in the    *)
(* statistics pass, between it and the output pass, or before the first call*)
Beginning ==
  Writing /\ file.scan = 0 =>
    /\ master.scan_number = 1
    /\ global_state = "WRCOEFS" =>
         master.pass_type = "huff_opt" \/ call.at = "passes" \/ call = NoCall
    /\ global_state # "WRCOEFS" /\ optimize_coding =>
         master.pass_type = "main" \/ (call.at = "passes" /\ master.pass_type = "output")
    /\ global_state # "WRCOEFS" /\ ~optimize_coding =>
         next_scanline = 0 /\ master.call_pass_startup /\ call = NoCall

(* Coefficients are read for a transcoder only, which has no main pass; and *)
(* the main pass is the first one.                                          *)
PassTypes ==
  /\ source.state # "READY" => J.input = "coefs"
  /\ Writing /\ (global_state = "WRCOEFS" \/ call.at = "passes") => master.pass_type # "main"

(* No call goes on after the image.                                         *)
Calls == ~Writing => call = NoCall

IInv == /\ Shape /\ SentKnown /\ FrameSent /\ ScanSent /\ ScanSelected /\ Beginning
        /\ PassTypes /\ Calls
-----------------------------------------------------------------------------
(* The parameters depend on the image alone.                                *)
LEMMA ParametersKept ==
  ASSUME jobs' = jobs, job' = job
  PROVE  /\ FrameTables' = FrameTables /\ script' = script /\ J' = J /\ progressive' = progressive
         /\ optimize_coding' = optimize_coding /\ NewMaster' = NewMaster
  <1>1. J' = J
    BY Zenon DEF J
  <1>2. script' = script /\ FrameTables' = FrameTables
    BY <1>1, Zenon DEF script, FrameTables, Comps
  <1>3. progressive' = progressive /\ optimize_coding' = optimize_coding
    BY <1>1, <1>2, Zenon DEF optimize_coding, progressive
  <1>4. NewMaster' = NewMaster
    BY <1>1, <1>3, Zenon DEF NewMaster
  <1>5. QED
    BY <1>1, <1>2, <1>3, <1>4

LEMMA UsesKept ==
  ASSUME jobs' = jobs, job' = job, NEW n, file'.scan = n
  PROVE  Uses(script[file.scan])' = Uses(script[n])
  <1>1. script'[file'.scan] = script[n] /\ J' = J /\ progressive' = progressive
    BY ParametersKept, Zenon
  <1>2. QED
    BY <1>1 DEF Uses

(* Optimized tables are Huffman tables.                                     *)
LEMMA FrameTablesAreQuantizers == FrameTables \cap Uses(Scan) = {}
  BY DEF FrameTables, Uses

LEMMA HeightPositive == ASSUME Shape PROVE J.height \in Nat \ {0}
  BY JobsAssumption DEF Shape, J, IsImage

LEMMA InitIInv == ASSUME Init PROVE IInv
  <1>1. ~Writing
    BY DEF Init, Writing
  <1>2. /\ jobs \in Jobs /\ job = 1 /\ call = NoCall /\ master = NewMaster
        /\ entropy = NewEntropy(FALSE, 0) /\ file = NewFile
        /\ tables = [s \in Slots |-> [version |-> <<job, 0, 0>>, sent |-> FALSE]]
        /\ source.state = "READY"
    BY Zenon DEF Init, Defaults
  <1>3. job \in 1 .. Len(jobs)
    BY <1>2, JobsAssumption
  <1>4. CallOK(call) /\ MasterOK(master) /\ EntropyOK(entropy) /\ FileOK(file)
    BY <1>2 DEF CallOK, MasterOK, EntropyOK, FileOK, NoCall, NewMaster, NewEntropy, NewFile
  <1>5. TablesOK(tables)
    BY <1>2 DEF TablesOK
  <1>6. SentKnown
    BY <1>2 DEF SentKnown
  <1>7. QED
    BY <1>1, <1>2, <1>3, <1>4, <1>5, <1>6, Zenon
    DEF IInv, Shape, FrameSent, ScanSent, ScanSelected, Beginning, PassTypes, Calls, OutputPass

(* Between images nothing is written yet; what counts is sent_table.        *)
LEMMA NotWriting ==
  ASSUME Shape', SentKnown', ~Writing', (source.state # "READY" => J.input = "coefs")',
         call' = NoCall
  PROVE  IInv'
  <1>1. Calls'
    BY DEF Calls, NoCall
  <1>2. QED
    BY <1>1, Zenon DEF IInv, FrameSent, ScanSent, ScanSelected, Beginning, PassTypes, OutputPass

LEMMA SourceKept ==
  ASSUME PassTypes, jobs' = jobs, job' = job, source' = source
  PROVE  (source.state # "READY" => J.input = "coefs")'
  BY ParametersKept, Zenon DEF PassTypes
-----------------------------------------------------------------------------
(* emit_dqt and emit_dht keep sent_table true, and send what they are given.*)
LEMMA EmitKeeps ==
  ASSUME TablesOK(tables), SentKnown, NEW S, Emit(S)
  PROVE  /\ TablesOK(tables')
         /\ SentKnown'
         /\ \A s \in Slots : tables[s].sent \/ s \in S => tables'[s].sent
  <1>1. ASSUME NEW s \in Slots
        PROVE  /\ tables'[s] = IF s \in S THEN [tables[s] EXCEPT !.sent = TRUE] ELSE tables[s]
               /\ decoder'[s] = IF s \in S /\ ~tables[s].sent THEN tables[s].version ELSE decoder[s]
    BY Zenon DEF Emit
  <1>2. ASSUME NEW s \in Slots
        PROVE  /\ DOMAIN tables'[s] = {"version", "sent"}
               /\ tables'[s].version = tables[s].version
               /\ s \in S => tables'[s].sent
               /\ s \notin S => tables'[s].sent = tables[s].sent
    BY <1>1 DEF TablesOK
  <1>3. ASSUME NEW s \in Slots, tables'[s].sent PROVE decoder'[s] = tables'[s].version
    <2>1. CASE s \in S
      BY <1>1, <1>2, <2>1 DEF SentKnown
    <2>2. CASE s \notin S
      BY <1>1, <1>2, <1>3, <2>2 DEF SentKnown
    <2>3. QED
      BY <2>1, <2>2
  <1>4. DOMAIN tables' = Slots
    BY DEF Emit
  <1>5. ASSUME NEW s \in Slots, tables[s].sent \/ s \in S PROVE tables'[s].sent
    BY <1>2, <1>5
  <1>6. QED
    BY <1>2, <1>3, <1>4, <1>5 DEF SentKnown, TablesOK

(* jpeg_suppress_tables(FALSE)                                              *)
LEMMA SuppressedNone ==
  ASSUME TablesOK(tables), tables' = Suppressed(tables, FALSE)
  PROVE  TablesOK(tables') /\ SentKnown'
  <1>1. ASSUME NEW s \in Slots
        PROVE  ~tables'[s].sent /\ DOMAIN tables'[s] = {"version", "sent"}
    <2>1. tables'[s] = [tables[s] EXCEPT !.sent = FALSE]
      BY Zenon DEF Suppressed
    <2>2. QED
      BY <2>1 DEF TablesOK
  <1>2. DOMAIN tables' = Slots
    BY DEF Suppressed
  <1>3. QED
    BY <1>1, <1>2 DEF SentKnown, TablesOK

(* The header of a scan, before which the tables it needs are written.      *)
LEMMA HeadersKeep ==
  ASSUME IInv, jobs' = jobs, job' = job, Writing,
         NEW m, m.scan_number = master.scan_number, m.scan \in Nat \ {0}, Headers(m)
  PROVE  /\ TablesOK(tables') /\ SentKnown' /\ FileOK(file') /\ file'.scan = m.scan
         /\ \A s \in Slots : s \in FrameTables => tables'[s].sent
         /\ \A s \in Slots : s \in Uses(script[m.scan]) => tables'[s].sent
  <1> DEFINE S == (IF m.scan_number = 1 THEN FrameTables ELSE {}) \cup Uses(script[m.scan])
  <1>1. Emit(S)
    BY Zenon DEF Headers
  <1>2. FileOK(file') /\ file'.scan = m.scan
    <2>1. \E marks, dri, mcus : file' = [marks |-> marks, dri |-> dri, scan |-> m.scan, mcus |-> mcus]
      BY Zenon DEF Headers
    <2>2. QED
      BY <2>1 DEF FileOK
  <1>3. \A s \in Slots : s \in Uses(script[m.scan]) => s \in S
    BY Zenon
  <1>4. \A s \in Slots : s \in FrameTables => s \in S \/ tables[s].sent
    <2>1. CASE m.scan_number = 1
      BY <2>1, Zenon
    <2>2. CASE m.scan_number # 1
      <3>1. file.scan # 0
        BY <2>2 DEF IInv, Beginning
      <3>2. file.scan > 0
        BY <3>1 DEF IInv, Shape, FileOK
      <3>3. QED
        BY <3>2, Zenon DEF IInv, FrameSent
    <2>3. QED
      BY <2>1, <2>2
  <1>5. TablesOK(tables) /\ SentKnown
    BY Zenon DEF IInv, Shape
  <1> HIDE DEF S
  <1>6. /\ TablesOK(tables') /\ SentKnown'
        /\ \A s \in Slots : tables[s].sent \/ s \in S => tables'[s].sent
    BY <1>1, <1>5, EmitKeeps, Zenon
  <1>7. QED
    BY <1>2, <1>3, <1>4, <1>6, Zenon
-----------------------------------------------------------------------------
(* The application between images.                                          *)
LEMMA NextJobKeeps == ASSUME IInv, NextJob PROVE IInv'
  <1>0. call' = NoCall
    BY DEF NextJob, Idle, engine
  <1>1. ~Writing'
    BY DEF NextJob, Writing
  <1>2. /\ jobs' = jobs /\ job' = job + 1 /\ job < Len(jobs)
        /\ call' = call /\ master' = master /\ entropy' = entropy
        /\ file' = file /\ decoder' = decoder
        /\ tables' = IF jobs[job'].defaults
                     THEN [s \in Slots |-> [version |-> <<job', 0, 0>>, sent |-> FALSE]] ELSE tables
        /\ source' = [state |-> "READY", read |-> 0]
    BY Zenon DEF NextJob, engine
  <1>3. jobs' \in Jobs /\ job' \in 1 .. Len(jobs')
    BY <1>2, JobsAssumption DEF IInv, Shape
  <1>4. TablesOK(tables') /\ SentKnown'
    <2>1. CASE jobs[job'].defaults
      <3>1. tables' = [s \in Slots |-> [version |-> <<job', 0, 0>>, sent |-> FALSE]]
        BY <1>2, <2>1, Zenon
      <3>2. QED
        BY <3>1 DEF TablesOK, SentKnown
    <2>2. CASE ~jobs[job'].defaults
      <3>1. tables' = tables
        BY <1>2, <2>2, Zenon
      <3>2. QED
        BY <1>2, <3>1, Zenon DEF IInv, Shape, SentKnown
    <2>3. QED
      BY <2>1, <2>2
  <1>5. Shape'
    BY <1>2, <1>3, <1>4, Zenon DEF IInv, Shape
  <1>6. (source.state # "READY" => J.input = "coefs")'
    BY <1>2
  <1>7. QED
    BY <1>0, <1>1, <1>4, <1>5, <1>6, NotWriting

LEMMA WriteTablesKeeps == ASSUME IInv, WriteTables PROVE IInv'
  <1>0. call' = NoCall
    BY DEF WriteTables, Idle, engine
  <1>1. ~Writing'
    BY DEF WriteTables, Writing
  <1>2. /\ jobs' = jobs /\ job' = job /\ call' = call /\ master' = master /\ entropy' = entropy
        /\ Emit(Slots) /\ file' = NewFile /\ source' = source
    BY Zenon DEF WriteTables, engine
  <1>3. TablesOK(tables') /\ SentKnown'
    BY <1>2, EmitKeeps, Zenon DEF IInv, Shape
  <1>4. FileOK(file')
    BY <1>2 DEF FileOK, NewFile
  <1>5. Shape'
    BY <1>2, <1>3, <1>4, Zenon DEF IInv, Shape
  <1>6. QED
    BY <1>0, <1>1, <1>2, <1>3, <1>5, NotWriting, SourceKept, Zenon DEF IInv

LEMMA ReadCoefficientsKeeps == ASSUME IInv, ReadCoefficients PROVE IInv'
  <1>0. call' = NoCall
    BY DEF ReadCoefficients, Idle, engine
  <1>1. UNCHANGED <<jobs, job, global_state, call, master, entropy, tables, file, decoder>>
    BY Zenon DEF ReadCoefficients, engine
  <1>2. global_state = "START" /\ J.input = "coefs"
    BY DEF ReadCoefficients, Idle
  <1>3. Shape' /\ SentKnown'
    BY <1>1, Zenon DEF IInv, Shape, SentKnown
  <1>4. ~Writing'
    BY <1>1, <1>2 DEF Writing
  <1>5. J' = J
    BY <1>1, ParametersKept, Zenon
  <1>6. QED
    BY <1>0, <1>2, <1>3, <1>4, <1>5, NotWriting, Zenon

LEMMA CopyCriticalParametersKeeps == ASSUME IInv, CopyCriticalParameters PROVE IInv'
  <1>0. call' = NoCall
    BY DEF CopyCriticalParameters, Idle, engine
  <1>1. /\ jobs' = jobs /\ job' = job /\ call' = call /\ master' = master /\ entropy' = entropy
        /\ file' = file /\ decoder' = decoder
        /\ tables' = [s \in Slots |-> [version |-> IF s[1] = "q" THEN <<job, 0, 1>> ELSE <<job, 0, 0>>,
                                       sent |-> FALSE]]
        /\ global_state' = IF J.slot_reused THEN "ERROR" ELSE global_state
        /\ source.state = "STOPPING" /\ global_state = "START"
    BY Zenon DEF CopyCriticalParameters, Idle, engine
  <1>2. TablesOK(tables') /\ SentKnown'
    BY <1>1 DEF TablesOK, SentKnown
  <1>3. Shape'
    BY <1>1, <1>2, Zenon DEF IInv, Shape
  <1>4. ~Writing'
    BY <1>1 DEF Writing
  <1>5. (source.state # "READY" => J.input = "coefs")'
    <2>1. J.input = "coefs"
      BY <1>1 DEF IInv, PassTypes
    <2>2. J' = J
      BY <1>1, ParametersKept, Zenon
    <2>3. QED
      BY <2>1, <2>2, Zenon
  <1>6. QED
    BY <1>0, <1>2, <1>3, <1>4, <1>5, NotWriting

(* prepare_for_pass                                                         *)
LEMMA PreparedIs ==
  ASSUME NEW m, MasterOK(m)
  PROVE  /\ MasterOK(Prepared(m))
         /\ Prepared(m).scan_number = m.scan_number
         /\ Prepared(m).pass_type = (IF SkipsOptimization(m) THEN "output" ELSE m.pass_type)
         /\ Prepared(m).scan = (IF m.pass_type # "output" \/ ~optimize_coding
                                THEN m.scan_number ELSE m.scan)
         /\ Prepared(m).call_pass_startup = (m.pass_type = "main" /\ ~optimize_coding)
  <1> DEFINE n == IF SkipsOptimization(m)
                  THEN [m EXCEPT !.pass_type = "output", !.pass_number = @ + 1] ELSE m
             scan == IF m.pass_type # "output" \/ ~optimize_coding THEN m.scan_number ELSE n.scan
             startup == m.pass_type = "main" /\ ~optimize_coding
             last == n.pass_number = total_passes - 1
  <1>1. Prepared(m) = [n EXCEPT !.scan = scan, !.call_pass_startup = startup, !.is_last_pass = last]
    BY Zenon DEF Prepared
  <1>2. /\ DOMAIN n = DOMAIN m /\ n.scan_number = m.scan_number /\ n.scan = m.scan
        /\ n.pass_type = IF SkipsOptimization(m) THEN "output" ELSE m.pass_type
    BY DEF MasterOK
  <1> HIDE DEF n, startup, last
  <1>3. scan \in Nat /\ scan = IF m.pass_type # "output" \/ ~optimize_coding
                               THEN m.scan_number ELSE m.scan
    BY <1>2 DEF MasterOK
  <1> HIDE DEF scan
  <1>4. /\ DOMAIN Prepared(m) = DOMAIN m
        /\ Prepared(m).scan_number = m.scan_number /\ Prepared(m).pass_type = n.pass_type
        /\ Prepared(m).scan = scan /\ Prepared(m).call_pass_startup = startup
    BY <1>1, <1>2 DEF MasterOK
  <1>5. MasterOK(Prepared(m))
    BY <1>2, <1>3, <1>4 DEF MasterOK
  <1>6. QED
    BY <1>2, <1>3, <1>4, <1>5, Zenon DEF startup

LEMMA NewMasterIs ==
  /\ MasterOK(NewMaster) /\ NewMaster.scan_number = 1 /\ NewMaster.scan = 0
  /\ NewMaster.pass_type = IF J.input # "coefs" THEN "main"
                           ELSE IF optimize_coding THEN "huff_opt" ELSE "output"
  BY DEF NewMaster, MasterOK
-----------------------------------------------------------------------------
(* An image begins.                                                         *)
LEMMA StartCompressKeeps == ASSUME IInv, StartCompress PROVE IInv'
  <1>1. /\ jobs' = jobs /\ job' = job /\ call' = call /\ source' = source
        /\ call = NoCall /\ J.input # "coefs"
        /\ tables' = IF J.all THEN Suppressed(tables, FALSE) ELSE tables
        /\ decoder' = IF J.all THEN [s \in Slots |-> <<0, 0, 0>>] ELSE decoder
    BY DEF StartCompress, Idle
  <1>2. TablesOK(tables') /\ SentKnown'
    <2>1. CASE J.all
      BY <1>1, <2>1, SuppressedNone, Zenon DEF IInv, Shape
    <2>2. CASE ~J.all
      BY <1>1, <2>2, Zenon DEF IInv, Shape, SentKnown
    <2>3. QED
      BY <2>1, <2>2
  <1>3. CASE ~validate_script(script, Len(J.comps))
    <2>1. global_state' = "ERROR" /\ master' = master /\ entropy' = entropy /\ file' = file
      BY <1>3, Zenon DEF StartCompress, engine
    <2>2. ~Writing'
      BY <2>1 DEF Writing
    <2>3. Shape'
      BY <1>1, <1>2, <2>1, Zenon DEF IInv, Shape
    <2>4. QED
      BY <1>1, <1>2, <2>2, <2>3, NotWriting, SourceKept, Zenon DEF IInv
  <1>4. CASE validate_script(script, Len(J.comps))
    <2>1. /\ global_state' \in {"RAW_OK", "SCANNING"} /\ next_scanline' = 0
          /\ file' = [NewFile EXCEPT !.marks = <<"SOI">>]
          /\ master' = Prepared(NewMaster)
          /\ entropy' = NewEntropy(optimize_coding, restart_interval')
      BY <1>4 DEF StartCompress, Start
    <2>2. file'.scan = 0 /\ FileOK(file')
      BY <2>1 DEF NewFile, FileOK
    <2>3. /\ master'.pass_type = "main" /\ master'.scan_number = 1 /\ master'.scan = 1
          /\ master'.call_pass_startup = ~optimize_coding
          /\ MasterOK(master')
      <3>1. NewMaster.pass_type = "main"
        BY <1>1, NewMasterIs
      <3>2. ~SkipsOptimization(NewMaster)
        BY <3>1 DEF SkipsOptimization
      <3>3. QED
        BY <2>1, <3>1, <3>2, PreparedIs, NewMasterIs
    <2>4. EntropyOK(entropy')
      BY <2>1 DEF EntropyOK, NewEntropy
    <2>5. Shape'
      BY <1>1, <1>2, <2>2, <2>3, <2>4, Zenon DEF IInv, Shape
    <2>6. optimize_coding' = optimize_coding
      BY <1>1, ParametersKept, Zenon
    <2>7. FrameSent' /\ ScanSent'
      BY <2>2 DEF FrameSent, ScanSent, OutputPass
    <2>8. ScanSelected'
      BY <2>3 DEF ScanSelected
    <2>9. global_state' # "WRCOEFS" /\ call'.at # "passes"
      BY <1>1, <2>1 DEF NoCall
    <2>10. Beginning'
      BY <1>1, <2>1, <2>3, <2>6, <2>9, Zenon DEF Beginning
    <2>11. PassTypes'
      BY <1>1, <2>9, SourceKept, Zenon DEF IInv, PassTypes
    <2>12. Calls'
      BY <2>1 DEF Calls, Writing
    <2>13. QED
      BY <1>2, <2>5, <2>7, <2>8, <2>10, <2>11, <2>12, Zenon DEF IInv
  <1>5. QED
    BY <1>3, <1>4

LEMMA WriteCoefficientsKeeps == ASSUME IInv, WriteCoefficients PROVE IInv'
  <1>1. /\ jobs' = jobs /\ job' = job /\ call' = call /\ call = NoCall
        /\ tables' = Suppressed(tables, FALSE)
        /\ source.state = "COPIED"
    BY DEF WriteCoefficients, Idle
  <1>2. TablesOK(tables') /\ SentKnown'
    BY <1>1, SuppressedNone, Zenon DEF IInv, Shape
  <1>3. J.input = "coefs" /\ J' = J
    BY <1>1, ParametersKept DEF IInv, PassTypes
  <1>4. CASE ~validate_script(script, Len(J.comps))
    <2>1. global_state' = "ERROR" /\ master' = master /\ entropy' = entropy /\ file' = file
      BY <1>4, Zenon DEF WriteCoefficients, engine
    <2>2. ~Writing'
      BY <2>1 DEF Writing
    <2>3. Shape'
      BY <1>1, <1>2, <2>1, Zenon DEF IInv, Shape
    <2>4. QED
      BY <1>1, <1>2, <1>3, <2>2, <2>3, NotWriting, Zenon
  <1>5. CASE validate_script(script, Len(J.comps))
    <2>1. /\ global_state' = "WRCOEFS"
          /\ file' = [NewFile EXCEPT !.marks = <<"SOI">>]
          /\ master' = NewMaster /\ entropy' = entropy
      BY <1>5 DEF WriteCoefficients, Start
    <2>2. file'.scan = 0 /\ FileOK(file')
      BY <2>1 DEF NewFile, FileOK
    <2>3. MasterOK(master') /\ master'.scan_number = 1 /\ master'.pass_type # "main"
      BY <1>3, <2>1, NewMasterIs
    <2>4. Shape'
      BY <1>1, <1>2, <2>1, <2>2, <2>3, Zenon DEF IInv, Shape
    <2>5. NewMaster' = NewMaster
      BY <1>1, ParametersKept, Zenon
    <2>6. FrameSent' /\ ScanSent'
      BY <2>2 DEF FrameSent, ScanSent, OutputPass
    <2>7. ScanSelected'
      BY <1>1, <2>1, <2>5, Zenon DEF ScanSelected
    <2>8. call' = NoCall' /\ NoCall' = NoCall
      BY <1>1 DEF NoCall
    <2>9. Beginning'
      BY <2>1, <2>3, <2>8, Zenon DEF Beginning
    <2>10. PassTypes'
      BY <1>3, <2>3, Zenon DEF PassTypes
    <2>11. Calls'
      BY <2>1 DEF Calls, Writing
    <2>12. QED
      BY <1>2, <2>4, <2>6, <2>7, <2>9, <2>10, <2>11, Zenon DEF IInv
  <1>6. QED
    BY <1>4, <1>5
-----------------------------------------------------------------------------
(* While a call works on MCUs nothing but them changes here.                *)
LEMMA Working ==
  ASSUME IInv, call.at \in {"prep", "compress", "mcu"},
         jobs' = jobs, job' = job, source' = source, master' = master, tables' = tables,
         decoder' = decoder, file'.scan = file.scan, entropy'.gather = entropy.gather,
         global_state' = global_state \/ (global_state' = "ERROR" /\ call' = NoCall),
         FileOK(file'), EntropyOK(entropy'), CallOK(call'), call'.at # "passes"
  PROVE  IInv'
  <1>1. Shape' /\ SentKnown'
    BY Zenon DEF IInv, Shape, SentKnown
  <1>2. CASE ~Writing'
    <2>1. call # NoCall
      BY DEF NoCall
    <2>2. Writing
      BY <2>1 DEF IInv, Calls
    <2>3. call' = NoCall
      BY <1>2, <2>2 DEF Writing
    <2>4. QED
      BY <1>1, <1>2, <2>3, NotWriting, SourceKept, Zenon DEF IInv
  <1>3. CASE Writing'
    <2>1. global_state' = global_state /\ Writing
      BY <1>3 DEF Writing
    <2>2. /\ FrameTables' = FrameTables /\ script' = script
          /\ optimize_coding' = optimize_coding
      BY ParametersKept, Zenon
    <2>3. Uses(script[file.scan])' = Uses(script[file.scan])
      BY UsesKept
    <2>4. call # NoCall /\ call.at # "passes"
      BY DEF NoCall
    <2>5. FrameSent'
      BY <2>1, <2>2, Zenon DEF IInv, FrameSent
    <2>6. ScanSent'
      BY <2>1, <2>3, Zenon DEF IInv, ScanSent, OutputPass
    <2>7. ScanSelected'
      BY <2>1, <2>4, Zenon DEF IInv, ScanSelected
    <2>8. Beginning'
      BY <2>1, <2>2, <2>4, Zenon DEF IInv, Beginning
    <2>9. PassTypes'
      BY <2>1, SourceKept, Zenon DEF IInv, PassTypes
    <2>10. Calls'
      BY <1>3 DEF Calls
    <2>11. QED
      BY <1>1, <2>5, <2>6, <2>7, <2>8, <2>9, <2>10, Zenon DEF IInv
  <1>4. QED
    BY <1>2, <1>3

LEMMA PreprocessKeeps == ASSUME IInv, Preprocess PROVE IInv'
  <1>1. PICK r : call' = [call EXCEPT !.row_ctr = r.row_ctr]
    BY Zenon DEF Preprocess
  <1>2. CallOK(call') /\ call'.at = call.at
    BY <1>1 DEF IInv, Shape, CallOK
  <1>3. /\ jobs' = jobs /\ job' = job /\ source' = source /\ master' = master
        /\ tables' = tables /\ decoder' = decoder /\ file' = file /\ entropy' = entropy
        /\ global_state' = global_state /\ call.at = "prep"
    BY Zenon DEF Preprocess, others, written
  <1>4. QED
    BY <1>2, <1>3, Working DEF IInv, Shape

LEMMA LinesDoneKeeps == ASSUME IInv, LinesDone PROVE IInv'
  <1>1. call' = NoCall
    BY DEF LinesDone
  <1>2. CallOK(call') /\ call'.at # "passes"
    BY <1>1 DEF NoCall, CallOK
  <1>3. /\ jobs' = jobs /\ job' = job /\ source' = source /\ master' = master
        /\ tables' = tables /\ decoder' = decoder /\ file' = file /\ entropy' = entropy
        /\ global_state' = global_state /\ call.at = "prep"
    BY Zenon DEF LinesDone, others, written, engine
  <1>4. QED
    BY <1>2, <1>3, Working DEF IInv, Shape

LEMMA CompressDataKeeps == ASSUME IInv, CompressData PROVE IInv'
  <1>1. call' = [call EXCEPT !.at = "mcu", !.y = coef.MCU_vert_offset, !.x = coef.mcu_ctr]
    BY Zenon DEF CompressData
  <1>2. CallOK(call') /\ call'.at = "mcu"
    BY <1>1 DEF CompressData, IInv, Shape, CallOK
  <1>3. /\ jobs' = jobs /\ job' = job /\ source' = source /\ master' = master
        /\ tables' = tables /\ decoder' = decoder /\ file' = file /\ entropy' = entropy
        /\ global_state' = global_state /\ call.at \in {"prep", "compress"}
    BY DEF CompressData, others, written
  <1>4. QED
    BY <1>2, <1>3, Working DEF IInv, Shape

LEMMA RestartedKeeps ==
  ASSUME NEW e, EntropyOK(e)
  PROVE  EntropyOK(Restarted(e)) /\ Restarted(e).gather = e.gather
  <1>1. \/ Restarted(e) = e
        \/ Restarted(e) = [e EXCEPT !.restarts_to_go = @ - 1]
        \/ \E i, n : Restarted(e) = [e EXCEPT !.restarts_to_go = i, !.next_restart_num = n]
    BY Zenon DEF Restarted
  <1>2. QED
    BY <1>1 DEF EntropyOK

LEMMA EncodeMCUKeeps == ASSUME IInv, EncodeMCU PROVE IInv'
  <1>1. PICK x, y, room : call' = [call EXCEPT !.x = x, !.y = y, !.room = room]
    BY Zenon DEF EncodeMCU
  <1>2. CallOK(call') /\ call'.at = call.at
    BY <1>1 DEF IInv, Shape, CallOK
  <1>3. /\ jobs' = jobs /\ job' = job /\ source' = source /\ master' = master
        /\ tables' = tables /\ decoder' = decoder
        /\ global_state' = global_state /\ call.at = "mcu"
        /\ entropy' = [Restarted(entropy) EXCEPT !.counted = @ + 1]
    BY Zenon DEF EncodeMCU, MCUStep, others
  <1>4. EntropyOK(entropy') /\ entropy'.gather = entropy.gather
    <2>1. EntropyOK(Restarted(entropy)) /\ Restarted(entropy).gather = entropy.gather
      BY RestartedKeeps DEF IInv, Shape
    <2>2. QED
      BY <1>3, <2>1 DEF EntropyOK
  <1>5. FileOK(file') /\ file'.scan = file.scan
    <2>1. file' = file \/ \E mcus : file' = [file EXCEPT !.mcus = mcus]
      BY Zenon DEF EncodeMCU
    <2>2. QED
      BY <2>1 DEF IInv, Shape, FileOK
  <1>6. QED
    BY <1>2, <1>3, <1>4, <1>5, Working

LEMMA SuspendMCUKeeps == ASSUME IInv, SuspendMCU PROVE IInv'
  <1>1. call' = NoCall
    BY DEF SuspendMCU
  <1>2. CallOK(call') /\ call'.at # "passes"
    BY <1>1 DEF NoCall, CallOK
  <1>3. /\ jobs' = jobs /\ job' = job /\ source' = source /\ master' = master
        /\ tables' = tables /\ decoder' = decoder /\ file' = file /\ entropy' = entropy
        /\ global_state' = global_state \/ global_state' = "ERROR"
        /\ call.at = "mcu"
    BY Zenon DEF SuspendMCU, MCUStep, others, written
  <1>4. QED
    BY <1>1, <1>2, <1>3, Working DEF IInv, Shape

LEMMA RowCompressedKeeps == ASSUME IInv, RowCompressed PROVE IInv'
  <1>1. /\ jobs' = jobs /\ job' = job /\ source' = source /\ master' = master
        /\ tables' = tables /\ decoder' = decoder /\ file' = file /\ entropy' = entropy
        /\ global_state' = global_state /\ call.at = "mcu"
    BY Zenon DEF RowCompressed, others, written
  <1>2. CallOK(call') /\ call'.at # "passes"
    <2>1. CallOK(call) /\ call.op \in {"lines", "raw", "finish"}
      BY <1>1 DEF IInv, Shape, CallOK
    <2>2. CASE call.op = "lines"
      <3>1. PICK n : call' = [call EXCEPT !.at = "prep", !.row_ctr = n]
        BY <2>2 DEF RowCompressed
      <3>2. QED
        BY <2>1, <3>1 DEF CallOK
    <2>3. CASE call.op = "raw"
      <3>1. call' = NoCall
        BY <2>3 DEF RowCompressed
      <3>2. QED
        BY <3>1 DEF NoCall, CallOK
    <2>4. CASE call.op = "finish"
      <3>1. PICK at \in {"compress", "finish_pass"} : call' = [call EXCEPT !.at = at]
        BY <2>4 DEF RowCompressed
      <3>2. QED
        BY <2>1, <3>1 DEF CallOK
    <2>5. QED
      BY <2>1, <2>2, <2>3, <2>4
  <1>3. QED
    BY <1>1, <1>2, Working DEF IInv, Shape
-----------------------------------------------------------------------------
(* The application while an image is written.                               *)
LEMMA WriteMarkerKeeps == ASSUME IInv, WriteMarker PROVE IInv'
  <1>1. /\ jobs' = jobs /\ job' = job /\ source' = source /\ master' = master /\ call' = call
        /\ tables' = tables /\ decoder' = decoder /\ entropy' = entropy
        /\ global_state' = global_state /\ next_scanline' = next_scanline
        /\ file' = [file EXCEPT !.marks = Append(@, "COM")]
    BY Zenon DEF WriteMarker, engine
  <1>2. FileOK(file') /\ file'.scan = file.scan
    BY <1>1 DEF IInv, Shape, FileOK
  <1>3. Shape' /\ SentKnown'
    BY <1>1, <1>2, Zenon DEF IInv, Shape, SentKnown
  <1>4. /\ FrameTables' = FrameTables /\ script' = script /\ J' = J
        /\ optimize_coding' = optimize_coding /\ NewMaster' = NewMaster
    BY <1>1, ParametersKept, Zenon
  <1>5. Writing' = Writing /\ NoCall' = NoCall
    BY <1>1 DEF Writing, NoCall
  <1>6. FrameSent'
    BY <1>1, <1>2, <1>4, <1>5, Zenon DEF IInv, FrameSent
  <1>7. ScanSent'
    <2>1. Uses(script[file.scan])' = Uses(script[file.scan])
      BY <1>1, <1>2, UsesKept
    <2>2. QED
      BY <1>1, <1>2, <1>5, <2>1, Zenon DEF IInv, ScanSent, OutputPass
  <1>8. ScanSelected' /\ Beginning' /\ PassTypes'
    BY <1>1, <1>2, <1>4, <1>5, Zenon DEF IInv, ScanSelected, Beginning, PassTypes
  <1>9. Calls'
    BY <1>1, <1>5, Zenon DEF IInv, Calls, NoCall
  <1>10. QED
    BY <1>3, <1>6, <1>7, <1>8, <1>9, Zenon DEF IInv

(* The first lines of a pass that does not gather statistics write its      *)
(* headers.                                                                 *)
LEMMA FirstLines ==
  ASSUME IInv, Writing, global_state # "WRCOEFS", call = NoCall, PassStartup,
         jobs' = jobs, job' = job, source' = source, entropy' = entropy,
         global_state' = global_state, next_scanline' = next_scanline,
         CallOK(call'), call'.at # "passes"
  PROVE  IInv'
  <1>1. /\ FrameTables' = FrameTables /\ script' = script /\ J' = J
        /\ optimize_coding' = optimize_coding
    BY ParametersKept, Zenon
  <1>2. Writing' /\ Calls'
    BY DEF Writing, Calls
  <1>3. master.scan \in Nat \ {0}
    BY DEF IInv, Shape, MasterOK, ScanSelected
  <1>4. call.at # "passes"
    BY DEF NoCall
  <1>5. PassTypes'
    BY SourceKept, Zenon DEF IInv, PassTypes
  <1>6. CASE master.call_pass_startup
    <2>1. master' = [master EXCEPT !.call_pass_startup = FALSE] /\ Headers(master)
      BY <1>6, Zenon DEF PassStartup
    <2>2. MasterOK(master') /\ master'.scan = master.scan
      BY <2>1 DEF IInv, Shape, MasterOK
    <2>3. /\ TablesOK(tables') /\ SentKnown' /\ FileOK(file') /\ file'.scan = master.scan
          /\ \A s \in Slots : s \in FrameTables => tables'[s].sent
          /\ \A s \in Slots : s \in Uses(script[master.scan]) => tables'[s].sent
      BY <1>3, <2>1, HeadersKeep
    <2>4. Shape'
      BY <2>2, <2>3, Zenon DEF IInv, Shape
    <2>5. Uses(script[file.scan])' = Uses(script[master.scan])
      BY <2>3, UsesKept
    <2>6. FrameSent' /\ ScanSent'
      BY <1>1, <2>3, <2>5, Zenon DEF FrameSent, ScanSent
    <2>7. ScanSelected' /\ Beginning'
      BY <1>3, <2>2, <2>3 DEF ScanSelected, Beginning
    <2>8. QED
      BY <1>2, <1>5, <2>3, <2>4, <2>6, <2>7, Zenon DEF IInv
  <1>7. CASE ~master.call_pass_startup
    <2>1. master' = master /\ file' = file /\ tables' = tables /\ decoder' = decoder
      BY <1>7, Zenon DEF PassStartup
    <2>2. Shape' /\ SentKnown'
      BY <2>1, Zenon DEF IInv, Shape, SentKnown
    <2>3. FrameSent'
      BY <1>1, <2>1, Zenon DEF IInv, FrameSent
    <2>4. ScanSent'
      <3>1. Uses(script[file.scan])' = Uses(script[file.scan])
        BY <2>1, UsesKept
      <3>2. QED
        BY <2>1, <3>1, Zenon DEF IInv, ScanSent, OutputPass
    <2>5. ScanSelected'
      BY <1>3, <2>1 DEF ScanSelected
    <2>6. Beginning'
      BY <1>1, <1>4, <1>7, <2>1, Zenon DEF IInv, Beginning
    <2>7. QED
      BY <1>2, <1>5, <2>2, <2>3, <2>4, <2>5, <2>6, Zenon DEF IInv
  <1>8. QED
    BY <1>6, <1>7

LEMMA WriteScanlinesKeeps == ASSUME IInv, WriteScanlines PROVE IInv'
  <1>1. /\ Writing /\ global_state # "WRCOEFS" /\ call = NoCall /\ PassStartup
        /\ jobs' = jobs /\ job' = job /\ source' = source /\ entropy' = entropy
        /\ global_state' = global_state /\ next_scanline' = next_scanline
    BY DEF WriteScanlines, Idle, Writing
  <1>2. PICK room, lines : call' = [NoCall EXCEPT !.op = "lines", !.at = "prep", !.room = room,
                                                 !.lines = lines]
    BY Zenon DEF WriteScanlines
  <1>3. CallOK(call') /\ call'.at # "passes"
    BY <1>2 DEF CallOK, NoCall
  <1>4. QED
    BY <1>1, <1>3, FirstLines

LEMMA WriteRawDataKeeps == ASSUME IInv, WriteRawData PROVE IInv'
  <1>1. /\ Writing /\ global_state # "WRCOEFS" /\ call = NoCall /\ PassStartup
        /\ jobs' = jobs /\ job' = job /\ source' = source /\ entropy' = entropy
        /\ global_state' = global_state /\ next_scanline' = next_scanline
    BY DEF WriteRawData, Idle, Writing
  <1>2. PICK room : call' = [NoCall EXCEPT !.op = "raw", !.at = "compress", !.room = room]
    BY Zenon DEF WriteRawData
  <1>3. CallOK(call') /\ call'.at # "passes"
    BY <1>2 DEF CallOK, NoCall
  <1>4. QED
    BY <1>1, <1>3, FirstLines

(* Lines can be all written only if some were: the first pass has begun.    *)
LEMMA FinishCompressKeeps == ASSUME IInv, FinishCompress PROVE IInv'
  <1>1. /\ jobs' = jobs /\ job' = job /\ source' = source /\ master' = master
        /\ tables' = tables /\ decoder' = decoder /\ file' = file /\ entropy' = entropy
        /\ global_state' = global_state /\ next_scanline' = next_scanline
    BY Zenon DEF FinishCompress, engine
  <1>2. /\ call = NoCall
        /\ \/ global_state = "WRCOEFS"
           \/ global_state \in {"SCANNING", "RAW_OK"} /\ next_scanline >= J.height
    BY DEF FinishCompress, Idle
  <1>3. CallOK(call') /\ call'.at = IF global_state = "WRCOEFS" THEN "passes" ELSE "finish_pass"
    <2>1. PICK room : call' = [NoCall EXCEPT !.op = "finish", !.room = room,
                                !.at = IF global_state = "WRCOEFS" THEN "passes" ELSE "finish_pass"]
      BY Zenon DEF FinishCompress
    <2>2. QED
      BY <2>1 DEF CallOK, NoCall
  <1>4. /\ FrameTables' = FrameTables /\ script' = script /\ J' = J
        /\ optimize_coding' = optimize_coding /\ NewMaster' = NewMaster
    BY <1>1, ParametersKept, Zenon
  <1>5. Writing' = Writing
    BY <1>1 DEF Writing
  <1>6. Shape' /\ SentKnown'
    BY <1>1, <1>3, Zenon DEF IInv, Shape, SentKnown
  <1>7. FrameSent'
    BY <1>1, <1>4, <1>5, Zenon DEF IInv, FrameSent
  <1>8. ScanSent'
    <2>1. Uses(script[file.scan])' = Uses(script[file.scan])
      BY <1>1, UsesKept
    <2>2. QED
      BY <1>1, <1>5, <2>1, Zenon DEF IInv, ScanSent, OutputPass
  <1>9. ScanSelected'
    BY <1>1, <1>3, <1>4, <1>5, Zenon DEF IInv, ScanSelected
  <1>10. call.at # "passes" /\ (global_state # "WRCOEFS" => next_scanline # 0)
    <2>1. J.height \in Nat \ {0}
      BY HeightPositive DEF IInv
    <2>2. QED
      BY <1>2, <2>1 DEF NoCall
  <1>11. Beginning'
    BY <1>1, <1>3, <1>4, <1>5, <1>10, Zenon DEF IInv, Beginning
  <1>12. PassTypes'
    <2>1. global_state # "WRCOEFS" => call'.at # "passes"
      BY <1>3
    <2>2. QED
      BY <1>1, <1>5, <2>1, SourceKept, Zenon DEF IInv, PassTypes
  <1>13. Calls'
    BY <1>1, <1>2 DEF Calls, Writing
  <1>14. QED
    BY <1>6, <1>7, <1>8, <1>9, <1>11, <1>12, <1>13, Zenon DEF IInv
-----------------------------------------------------------------------------
(* finish_pass_gather: the new tables of the scan are not those that were   *)
(* sent, and no scan is written until the next pass.                        *)
LEMMA OptimalKeeps ==
  ASSUME Shape, SentKnown, tables' = Optimal, decoder' = decoder
  PROVE  /\ TablesOK(tables') /\ SentKnown'
         /\ \A s \in Slots : s \in FrameTables => tables'[s] = tables[s]
  <1>1. ASSUME NEW s \in Slots
        PROVE  /\ DOMAIN tables'[s] = {"version", "sent"}
               /\ tables'[s].sent => tables'[s] = tables[s]
               /\ s \in FrameTables => tables'[s] = tables[s]
    <2>1. CASE s \in Uses(Scan)
      <3>1. tables'[s] = [version |-> <<job, master.scan, entropy.counted>>, sent |-> FALSE]
        BY <2>1, Zenon DEF Optimal
      <3>2. s \notin FrameTables
        BY <2>1, FrameTablesAreQuantizers
      <3>3. QED
        BY <3>1, <3>2
    <2>2. CASE s \notin Uses(Scan)
      <3>1. tables'[s] = tables[s]
        BY <2>2, Zenon DEF Optimal
      <3>2. QED
        BY <3>1, Zenon DEF Shape, TablesOK
    <2>3. QED
      BY <2>1, <2>2
  <1>2. DOMAIN tables' = Slots
    BY DEF Optimal
  <1>3. ASSUME NEW s \in Slots, tables'[s].sent PROVE decoder'[s] = tables'[s].version
    BY <1>1, <1>3 DEF SentKnown
  <1>4. QED
    BY <1>1, <1>2, <1>3 DEF TablesOK, SentKnown

(* finish_pass_master                                                       *)
LEMMA AfterPassIs ==
  ASSUME NEW m, MasterOK(m)
  PROVE  /\ MasterOK(AfterPass(m)) /\ AfterPass(m).scan = m.scan
         /\ AfterPass(m).pass_type # "main"
         /\ m.pass_type # "output" => AfterPass(m).pass_type = "output"
         /\ m.pass_type # "output" /\ (m.pass_type = "main" => optimize_coding) =>
              AfterPass(m).scan_number = m.scan_number
  <1> DEFINE type == IF m.pass_type = "output" /\ optimize_coding THEN "huff_opt" ELSE "output"
             number == CASE m.pass_type = "main" /\ ~optimize_coding -> m.scan_number + 1
                         [] m.pass_type = "output" -> m.scan_number + 1
                         [] OTHER -> m.scan_number
  <1>1. AfterPass(m) = [m EXCEPT !.pass_type = type, !.scan_number = number, !.pass_number = @ + 1]
    BY Zenon DEF AfterPass
  <1>2. /\ number \in Nat \ {0}
        /\ m.pass_type # "output" /\ (m.pass_type = "main" => optimize_coding) =>
             number = m.scan_number
    BY DEF MasterOK
  <1>3. /\ type \in {"huff_opt", "output"}
        /\ m.pass_type # "output" => type = "output"
    OBVIOUS
  <1> HIDE DEF type, number
  <1>4. /\ DOMAIN AfterPass(m) = DOMAIN m /\ AfterPass(m).scan = m.scan
        /\ AfterPass(m).pass_type = type /\ AfterPass(m).scan_number = number
    BY <1>1 DEF MasterOK
  <1>5. MasterOK(AfterPass(m))
    BY <1>2, <1>3, <1>4 DEF MasterOK
  <1>6. QED
    BY <1>2, <1>3, <1>4, <1>5

LEMMA FinishPassKeeps == ASSUME IInv, FinishPass PROVE IInv'
  <1>1. /\ jobs' = jobs /\ job' = job /\ source' = source /\ decoder' = decoder
        /\ file' = file /\ entropy' = entropy
        /\ global_state' = global_state /\ next_scanline' = next_scanline
        /\ call.at = "finish_pass" /\ call' = [call EXCEPT !.at = "passes"]
        /\ master' = AfterPass(master)
        /\ tables' = IF entropy.gather THEN Optimal ELSE tables
    BY Zenon DEF FinishPass, others
  <1>2. CallOK(call') /\ call'.at = "passes"
    BY <1>1 DEF IInv, Shape, CallOK
  <1>3. call # NoCall
    BY <1>1 DEF NoCall
  <1>4. /\ FrameTables' = FrameTables /\ script' = script
        /\ optimize_coding' = optimize_coding
    BY <1>1, ParametersKept, Zenon
  <1>5. Writing' = Writing
    BY <1>1 DEF Writing
  <1>6. /\ MasterOK(master') /\ master'.scan = master.scan /\ master'.pass_type # "main"
        /\ master.pass_type # "output" => master'.pass_type = "output"
        /\ master.pass_type # "output" /\ (master.pass_type = "main" => optimize_coding) =>
             master'.scan_number = master.scan_number
    BY <1>1, AfterPassIs DEF IInv, Shape
  <1>7. /\ TablesOK(tables') /\ SentKnown'
        /\ \A s \in Slots : s \in FrameTables => tables'[s] = tables[s]
        /\ ~entropy.gather => tables' = tables
    <2>1. CASE entropy.gather
      BY <1>1, <2>1, OptimalKeeps DEF IInv
    <2>2. CASE ~entropy.gather
      BY <1>1, <2>2, Zenon DEF IInv, Shape, SentKnown
    <2>3. QED
      BY <2>1, <2>2
  <1>8. Shape'
    BY <1>1, <1>2, <1>6, <1>7, Zenon DEF IInv, Shape
  <1>9. FrameSent'
    BY <1>1, <1>4, <1>5, <1>7, Zenon DEF IInv, FrameSent
  <1>10. ScanSent'
    <2>1. Uses(script[file.scan])' = Uses(script[file.scan])
      BY <1>1, UsesKept
    <2>2. QED
      BY <1>1, <1>5, <1>6, <1>7, <2>1, Zenon DEF IInv, ScanSent, OutputPass
  <1>11. ScanSelected'
    <2>1. Writing => master.scan > 0
      BY <1>1, <1>3 DEF IInv, ScanSelected
    <2>2. QED
      BY <1>5, <1>6, <2>1, Zenon DEF ScanSelected
  <1>12. Beginning'
    <2>1. SUFFICES ASSUME Writing, file.scan = 0
                   PROVE  /\ master'.scan_number = 1
                          /\ (master'.pass_type = "output" /\ optimize_coding)
                             \/ global_state = "WRCOEFS"
      BY <1>1, <1>2, <1>4, <1>5, Zenon DEF Beginning
    <2>2. master.scan_number = 1
      BY <2>1 DEF IInv, Beginning
    <2>3. CASE global_state = "WRCOEFS"
      <3>1. master.pass_type = "huff_opt"
        BY <1>1, <1>3, <2>1, <2>3 DEF IInv, Beginning
      <3>2. QED
        BY <1>6, <2>2, <2>3, <3>1
    <2>4. CASE global_state # "WRCOEFS"
      <3>1. optimize_coding /\ master.pass_type = "main"
        BY <1>1, <1>3, <2>1, <2>4 DEF IInv, Beginning
      <3>2. QED
        BY <1>6, <2>2, <3>1
    <2>5. QED
      BY <2>3, <2>4
  <1>13. PassTypes'
    BY <1>1, <1>6, SourceKept, Zenon DEF IInv, PassTypes
  <1>14. Calls'
    BY <1>3, <1>5, Zenon DEF IInv, Calls
  <1>15. QED
    BY <1>7, <1>8, <1>9, <1>10, <1>11, <1>12, <1>13, <1>14, Zenon DEF IInv

LEMMA NextPassKeeps == ASSUME IInv, NextPass PROVE IInv'
  <1>1. /\ jobs' = jobs /\ job' = job /\ source' = source
        /\ global_state' = global_state /\ next_scanline' = next_scanline
        /\ call.at = "passes" /\ call' = [call EXCEPT !.at = "compress"]
        /\ master' = Prepared(master)
        /\ entropy' = NewEntropy(master'.pass_type = "huff_opt", restart_interval')
        /\ IF master'.pass_type = "output" THEN Headers(master')
           ELSE tables' = tables /\ file' = file /\ decoder' = decoder
    BY Zenon DEF NextPass, others
  <1>2. CallOK(call') /\ call'.at = "compress"
    BY <1>1 DEF IInv, Shape, CallOK
  <1>3. EntropyOK(entropy') /\ entropy'.gather = (master'.pass_type = "huff_opt")
    BY <1>1 DEF EntropyOK, NewEntropy
  <1>4. call # NoCall
    BY <1>1 DEF NoCall
  <1>5. /\ FrameTables' = FrameTables /\ script' = script
        /\ optimize_coding' = optimize_coding
    BY <1>1, ParametersKept, Zenon
  <1>6. Writing' = Writing
    BY <1>1 DEF Writing
  <1>7. /\ MasterOK(master') /\ master'.scan_number = master.scan_number
        /\ master'.pass_type = "output" \/ master'.pass_type = master.pass_type
        /\ master'.scan = IF master.pass_type # "output" \/ ~optimize_coding
                          THEN master.scan_number ELSE master.scan
    BY <1>1, PreparedIs DEF IInv, Shape
  <1>8. Writing /\ Calls'
    BY <1>4, <1>6, Zenon DEF IInv, Calls
  <1>9. master'.scan \in Nat \ {0}
    <2>1. master.pass_type = "output" /\ optimize_coding => master # NewMaster
      BY NewMasterIs
    <2>2. master.pass_type = "output" /\ optimize_coding => master.scan > 0
      BY <1>8, <2>1 DEF IInv, ScanSelected
    <2>3. QED
      BY <1>7, <2>2 DEF IInv, Shape, MasterOK
  <1>10. master.pass_type # "main"
    BY <1>1, <1>8 DEF IInv, PassTypes
  <1>11. ScanSelected'
    BY <1>9 DEF ScanSelected
  <1>12. PassTypes'
    <2>1. master'.pass_type # "main"
      BY <1>7, <1>10
    <2>2. QED
      BY <1>1, <2>1, SourceKept, Zenon DEF IInv, PassTypes
  <1>13. CASE master'.pass_type = "output"
    <2>1. Headers(master')
      BY <1>1, <1>13, Zenon
    <2>2. /\ TablesOK(tables') /\ SentKnown' /\ FileOK(file') /\ file'.scan = master'.scan
          /\ \A s \in Slots : s \in FrameTables => tables'[s].sent
          /\ \A s \in Slots : s \in Uses(script[master'.scan]) => tables'[s].sent
      BY <1>1, <1>7, <1>8, <1>9, <2>1, HeadersKeep
    <2>3. Shape'
      BY <1>1, <1>2, <1>3, <1>7, <2>2, Zenon DEF IInv, Shape
    <2>4. Uses(script[file.scan])' = Uses(script[master'.scan])
      BY <1>1, <2>2, UsesKept
    <2>5. FrameSent' /\ ScanSent'
      BY <1>5, <2>2, <2>4, Zenon DEF FrameSent, ScanSent
    <2>6. Beginning'
      BY <1>9, <2>2 DEF Beginning
    <2>7. QED
      BY <1>8, <1>11, <1>12, <2>2, <2>3, <2>5, <2>6, Zenon DEF IInv
  <1>14. CASE master'.pass_type # "output"
    <2>1. tables' = tables /\ file' = file /\ decoder' = decoder
      BY <1>1, <1>14, Zenon
    <2>2. master.pass_type = "huff_opt" /\ master'.pass_type = "huff_opt" /\ entropy'.gather
      BY <1>3, <1>7, <1>10, <1>14 DEF IInv, Shape, MasterOK
    <2>3. Shape' /\ SentKnown'
      BY <1>1, <1>2, <1>3, <1>7, <2>1, Zenon DEF IInv, Shape, SentKnown
    <2>4. FrameSent'
      BY <1>5, <1>6, <2>1, Zenon DEF IInv, FrameSent
    <2>5. ScanSent'
      BY <2>2 DEF ScanSent, OutputPass
    <2>6. Beginning'
      BY <1>1, <1>4, <1>5, <1>6, <1>7, <2>1, <2>2, Zenon DEF IInv, Beginning
    <2>7. QED
      BY <1>8, <1>11, <1>12, <2>3, <2>4, <2>5, <2>6, Zenon DEF IInv
  <1>15. QED
    BY <1>13, <1>14

LEMMA TrailerKeeps == ASSUME IInv, Trailer PROVE IInv'
  <1>1. /\ jobs' = jobs /\ job' = job /\ source' = source /\ master' = master
        /\ tables' = tables /\ decoder' = decoder /\ entropy' = entropy
        /\ global_state' = "DONE" /\ call' = NoCall
        /\ file' = [file EXCEPT !.marks = Append(@, "EOI")]
    BY Zenon DEF Trailer, others, engine
  <1>2. FileOK(file') /\ CallOK(call') /\ ~Writing'
    BY <1>1 DEF IInv, Shape, FileOK, CallOK, NoCall, Writing
  <1>3. Shape' /\ SentKnown'
    BY <1>1, <1>2, Zenon DEF IInv, Shape, SentKnown
  <1>4. QED
    BY <1>1, <1>2, <1>3, NotWriting, SourceKept, Zenon DEF IInv
-----------------------------------------------------------------------------
LEMMA NextKeeps == ASSUME IInv, [Next]_vars PROVE IInv'
  <1>1. CASE Library
    BY <1>1, PreprocessKeeps, LinesDoneKeeps, CompressDataKeeps, EncodeMCUKeeps, SuspendMCUKeeps,
       RowCompressedKeeps, FinishPassKeeps, NextPassKeeps, TrailerKeeps, Zenon DEF Library
  <1>2. CASE Application
    BY <1>2, NextJobKeeps, WriteTablesKeeps, StartCompressKeeps, ReadCoefficientsKeeps,
       CopyCriticalParametersKeeps, WriteCoefficientsKeeps, WriteMarkerKeeps, WriteScanlinesKeeps,
       WriteRawDataKeeps, FinishCompressKeeps, Zenon DEF Application
  <1>3. CASE UNCHANGED vars
    <2>1. /\ jobs' = jobs /\ job' = job /\ source' = source /\ master' = master /\ call' = call
          /\ tables' = tables /\ decoder' = decoder /\ entropy' = entropy /\ file' = file
          /\ global_state' = global_state /\ next_scanline' = next_scanline
      BY <1>3 DEF vars
    <2>2. /\ FrameTables' = FrameTables /\ script' = script /\ J' = J
          /\ optimize_coding' = optimize_coding /\ NewMaster' = NewMaster
      BY <2>1, ParametersKept, Zenon
    <2>3. Writing' = Writing /\ NoCall' = NoCall
      BY <2>1 DEF Writing, NoCall
    <2>4. Uses(script[file.scan])' = Uses(script[file.scan])
      BY <2>1, UsesKept
    <2>5. Shape' /\ SentKnown' /\ FrameSent'
      BY <2>1, <2>2, <2>3, Zenon DEF IInv, Shape, SentKnown, FrameSent
    <2>6. ScanSent'
      BY <2>1, <2>3, <2>4, Zenon DEF IInv, ScanSent, OutputPass
    <2>7. ScanSelected' /\ Beginning' /\ PassTypes' /\ Calls'
      BY <2>1, <2>2, <2>3, Zenon DEF IInv, ScanSelected, Beginning, PassTypes, Calls
    <2>8. QED
      BY <2>5, <2>6, <2>7, Zenon DEF IInv
  <1>4. QED
    BY <1>1, <1>2, <1>3, Zenon DEF Next

LEMMA Invariance == Spec => []IInv
  <1>1. Init => IInv
    BY InitIInv
  <1>2. IInv /\ [Next]_vars => IInv'
    BY NextKeeps
  <1>3. QED
    BY <1>1, <1>2, PTL DEF Spec

(* Whoever reads the files has, in each scan, the very quantization tables  *)
(* and Huffman tables it was made with: sent_table is right in jcmarker.c   *)
(* over scans, images, tables-only files, suppression and optimization, for *)
(* any images, scripts and orders of calls.                                 *)
THEOREM TablesKnown == Spec => []DecoderHasTables
  <1>1. IInv => DecoderHasTables
    <2>1. SUFFICES ASSUME IInv, OutputPass, NEW s \in Slots,
                          s \in FrameTables \cup Uses(script[file.scan])
                   PROVE  decoder[s] = tables[s].version
      BY DEF DecoderHasTables
    <2>2. CASE s \in FrameTables
      <3>1. Writing /\ file.scan > 0
        BY <2>1, Zenon DEF OutputPass
      <3>2. tables[s].sent
        BY <2>1, <2>2, <3>1, Zenon DEF IInv, FrameSent
      <3>3. QED
        BY <2>1, <3>2, Zenon DEF IInv, SentKnown
    <2>3. CASE s \in Uses(script[file.scan])
      BY <2>1, <2>3, Zenon DEF IInv, ScanSent, SentKnown
    <2>4. QED
      BY <2>1, <2>2, <2>3
  <1>2. QED
    BY <1>1, Invariance, PTL
-----------------------------------------------------------------------------
(* The course of the passes. A pass codes a scan, MCU by MCU; between two   *)
(* passes ("passes") and before the first one of a transcoder none runs.    *)
Between == call.at = "passes" \/ master.scan = 0
MainPass == global_state \in {"SCANNING", "RAW_OK"} /\ call.op # "finish"
Startup == master.call_pass_startup

CallTyped(k) ==
  /\ DOMAIN k = {"op", "lines", "row_ctr", "at", "y", "x", "room"}
  /\ k.lines \in Nat /\ k.row_ctr \in Nat /\ k.y \in Nat /\ k.x \in Nat
  /\ <<k.op, k.at>> \in {<<"none", "none">>, <<"lines", "prep">>, <<"lines", "mcu">>,
                         <<"raw", "compress">>, <<"raw", "mcu">>, <<"finish", "compress">>,
                         <<"finish", "mcu">>, <<"finish", "finish_pass">>, <<"finish", "passes">>}
  /\ k.op # "lines" => k.lines = 0 /\ k.row_ctr = 0
CoefTyped(k) ==
  /\ DOMAIN k = {"mode", "iMCU_row_num", "MCU_vert_offset", "mcu_ctr", "whole"}
  /\ k.iMCU_row_num \in Nat /\ k.MCU_vert_offset \in Nat /\ k.mcu_ctr \in Nat
MainTyped(k) ==
  /\ DOMAIN k = {"buffer", "cur_iMCU_row", "rowgroup_ctr", "suspended"}
  /\ k.cur_iMCU_row \in Nat /\ k.rowgroup_ctr \in 0 .. DCTSIZE /\ k.suspended \in BOOLEAN
PrepTyped(k) ==
  /\ DOMAIN k = {"buf", "rows_to_go", "next_buf_row", "this_row_group", "next_buf_stop"}
  /\ k.rows_to_go \in 0 .. J.height /\ k.next_buf_row \in Nat /\ k.next_buf_stop \in Nat
IsSequence(s) == s \in Seq({s[n] : n \in DOMAIN s})

(* Which pass it is. pass_number counts the statistics passes, those that   *)
(* are skipped too.                                                         *)
PassOK(m) ==
  /\ m.pass_number = IF optimize_coding
                     THEN 2 * (m.scan_number - 1) + (IF m.pass_type = "output" THEN 1 ELSE 0)
                     ELSE m.scan_number - 1
  /\ m.pass_number <= total_passes
  /\ m.pass_type = "main" => m.scan_number = 1 /\ global_state # "WRCOEFS"
  /\ ~optimize_coding => m.pass_type # "huff_opt"

PassInv ==
  Writing =>
    /\ validate_script(script, Len(J.comps)) /\ PassOK(master)
    /\ IF Between
       THEN /\ master.is_last_pass <=> master.pass_number = total_passes
            /\ optimize_coding /\ master.pass_type = "output" => master.scan = master.scan_number
            /\ file.scan = master.scan_number - 1
       ELSE /\ master.is_last_pass <=> master.pass_number = total_passes - 1
            /\ master.pass_number < total_passes /\ master.scan = master.scan_number
            /\ entropy.gather <=>
                 master.pass_type = "huff_opt" \/ (master.pass_type = "main" /\ optimize_coding)
            /\ file.scan = IF entropy.gather \/ Startup THEN master.scan - 1 ELSE master.scan
    /\ file.scan > 0 /\ (Between \/ file.scan < master.scan) => Complete

(* Who calls whom; the main pass is that of the application's lines.        *)
CallInv ==
  /\ CallTyped(call) /\ (call = NoCall <=> call.at = "none")
  /\ Writing =>
       /\ call.op = "lines" => global_state = "SCANNING"
       /\ call.op = "raw" => global_state = "RAW_OK"
       /\ global_state = "WRCOEFS" => (call = NoCall /\ master.scan = 0) \/ call.op = "finish"
       /\ MainPass => master.pass_type = "main"
       /\ Startup => MainPass /\ call = NoCall /\ entropy.counted = 0 /\ ~optimize_coding

(* Where the scan is: so many MCUs have been coded.                         *)
MCURows == IF Interleaved THEN 1 ELSE v(Scan.comps[1])

CountInv ==
  Writing /\ ~Between =>
    /\ ~entropy.gather => IsSequence(file.mcus) /\ Len(file.mcus) = entropy.counted
    /\ CoefTyped(coef) /\ coef.iMCU_row_num <= total_iMCU_rows /\ entropy.counted \in Nat
    /\ coef.iMCU_row_num = total_iMCU_rows => entropy.counted = Count(Scan)
    /\ call.at \in {"compress", "mcu"} => coef.iMCU_row_num < total_iMCU_rows
    /\ call.at = "finish_pass" => coef.iMCU_row_num = total_iMCU_rows
    /\ coef.iMCU_row_num < total_iMCU_rows =>
         IF call.at = "mcu"
         THEN /\ entropy.counted =
                   (coef.iMCU_row_num * MCURows + call.y) * MCUs_per_row + call.x
              /\ \/ call.y < MCU_rows_per_iMCU_row /\ call.x < MCUs_per_row
                 \/ call.y = MCU_rows_per_iMCU_row /\ call.x = 0
         ELSE /\ entropy.counted =
                   (coef.iMCU_row_num * MCURows + coef.MCU_vert_offset) * MCUs_per_row + coef.mcu_ctr
              /\ coef.MCU_vert_offset < MCU_rows_per_iMCU_row /\ coef.mcu_ctr < MCUs_per_row

(* The rows of the application: how many are taken, in which row groups.    *)
Taken == J.height - prep.rows_to_go
Groups == main.cur_iMCU_row * DCTSIZE + main.rowgroup_ctr

RowsInv ==
  Writing =>
    /\ next_scanline \in Nat /\ MainTyped(main) /\ PrepTyped(prep)
    /\ main.cur_iMCU_row <= total_iMCU_rows /\ prep.next_buf_row <= 3 * MaxV
    /\ global_state # "SCANNING" => next_scanline <= J.height + MaxV * DCTSIZE - 1
    /\ MainPass /\ global_state = "RAW_OK" =>
         next_scanline = coef.iMCU_row_num * (MaxV * DCTSIZE)
    /\ global_state = "SCANNING" =>
         /\ next_scanline + call.row_ctr + (IF main.suspended THEN 1 ELSE 0) = Taken
         /\ prep.rows_to_go > 0 => main.cur_iMCU_row < total_iMCU_rows
    /\ global_state = "SCANNING" /\ MainPass =>
         /\ coef.iMCU_row_num = main.cur_iMCU_row
         /\ call.op = "lines" => call.lines > 0 /\ call.row_ctr <= call.lines
                                 /\ next_scanline + call.lines <= J.height
         /\ main.suspended => main.rowgroup_ctr = DCTSIZE /\ call.row_ctr = 0
         /\ main.rowgroup_ctr = DCTSIZE => main.cur_iMCU_row < total_iMCU_rows
         /\ main.rowgroup_ctr = DCTSIZE /\ ~main.suspended => call.row_ctr > 0
         /\ call.at = "mcu" => main.rowgroup_ctr = DCTSIZE
         /\ IF context_rows
            THEN /\ prep.next_buf_stop \in {MaxV, 2 * MaxV, 3 * MaxV}
                 /\ prep.next_buf_row < prep.next_buf_stop
                 /\ prep.next_buf_row + 2 * MaxV >= prep.next_buf_stop
                 /\ prep.rows_to_go > 0 =>
                      Taken = (Groups + 2) * MaxV + prep.next_buf_row - prep.next_buf_stop
            ELSE /\ prep.next_buf_row < MaxV
                 /\ prep.rows_to_go > 0 => Taken = Groups * MaxV + prep.next_buf_row
                 /\ prep.rows_to_go = 0 =>
                      IF main.cur_iMCU_row = total_iMCU_rows THEN TRUE
                      ELSE main.cur_iMCU_row + 1 = total_iMCU_rows /\ main.rowgroup_ctr = DCTSIZE
         /\ call = NoCall /\ next_scanline >= J.height => main.cur_iMCU_row = total_iMCU_rows

(* The markers so far, one SOS for each scan begun.                         *)
MarksInv ==
  Writing =>
    IF file.scan = 0 THEN file.marks \in {<<"SOI">>, <<"SOI", "COM">>}
    ELSE \E first \in {<<"SOI", "SOF">>, <<"SOI", "COM", "SOF">>} :
           file.marks = first \o [n \in 1 .. file.scan |-> "SOS"]

Small ==
  /\ global_state \in {"START", "SCANNING", "RAW_OK", "WRCOEFS", "DONE", "ERROR"}
  /\ \A s \in Slots : tables[s].sent \in BOOLEAN
  /\ entropy.next_restart_num \in 0 .. 7
  /\ Writing /\ Between => coef.iMCU_row_num \in 0 .. total_iMCU_rows

Course == PassInv /\ CallInv /\ CountInv /\ RowsInv /\ MarksInv
Marker == entropy.next_restart_num \in 0 .. 7
CourseInv == Course /\ Small
-----------------------------------------------------------------------------
(* Rounding up.                                                             *)
LEMMA CeilIs ==
  ASSUME NEW x \in Nat \ {0}, NEW y \in Nat \ {0}
  PROVE  Ceil(x, y) \in Nat \ {0} /\ (Ceil(x, y) - 1) * y < x /\ x <= Ceil(x, y) * y
  <1> DEFINE q == (x + y - 1) \div y
             r == (x + y - 1) % y
  <1>1. q \in Nat /\ r \in 0 .. y - 1 /\ x + y - 1 = q * y + r
    OBVIOUS
  <1> HIDE DEF q, r
  <1>2. q # 0
    BY <1>1
  <1>3. (q - 1) * y = q * y - y
    BY <1>1
  <1>4. (q - 1) * y < x /\ x <= q * y
    <2> DEFINE p == q * y
    <2>1. p \in Nat
      BY <1>1
    <2> HIDE DEF p
    <2>2. x + y - 1 = p + r /\ (q - 1) * y = p - y
      BY <1>1, <1>3 DEF p
    <2>3. (q - 1) * y < x /\ x <= p
      BY <1>1, <2>1, <2>2
    <2>4. QED
      BY <2>3 DEF p
  <1>5. QED
    BY <1>1, <1>2, <1>4 DEF Ceil, q

LEMMA LessFactor ==
  ASSUME NEW a \in Int, NEW b \in Int, NEW y \in Nat \ {0}, a * y < b * y
  PROVE  a < b
  <1>1. SUFFICES ASSUME b <= a PROVE FALSE
    OBVIOUS
  <1>2. PICK d \in Nat : a = b + d
    <2>1. a - b \in Nat /\ a = b + (a - b)
      BY <1>1
    <2>2. QED
      BY <2>1
  <1>3. a * y = b * y + d * y /\ d * y \in Nat /\ b * y \in Int
    BY <1>2
  <1>4. QED
    BY <1>3

LEMMA FactorKeeps ==
  ASSUME NEW a \in Int, NEW b \in Int, NEW y \in Nat, a <= b
  PROVE  a * y <= b * y /\ a * y \in Int /\ b * y \in Int
  <1>1. PICK d \in Nat : b = a + d
    <2>1. b - a \in Nat /\ b = a + (b - a)
      OBVIOUS
    <2>2. QED
      BY <2>1
  <1>2. b * y = a * y + d * y /\ d * y \in Nat /\ a * y \in Int
    BY <1>1
  <1>3. QED
    BY <1>1, <1>2

LEMMA CeilUnique ==
  ASSUME NEW x \in Nat \ {0}, NEW y \in Nat \ {0}, NEW n \in Int,
         (n - 1) * y < x, x <= n * y
  PROVE  n = Ceil(x, y)
  <1> DEFINE c == Ceil(x, y)
  <1>1. c \in Nat \ {0} /\ (c - 1) * y < x /\ x <= c * y
    BY CeilIs
  <1> HIDE DEF c
  <1>2. n - 1 < c
    BY <1>1, LessFactor
  <1>3. c - 1 < n
    BY <1>1, LessFactor
  <1>4. QED
    BY <1>1, <1>2, <1>3 DEF c

(* The blocks of a component make as many MCUs as the image has iMCUs.      *)
LEMMA CeilCeil ==
  ASSUME NEW w \in Nat \ {0}, NEW k \in Nat \ {0}, NEW m \in Nat \ {0}
  PROVE  /\ Ceil(w * k, m) \in Nat \ {0}
         /\ Ceil(Ceil(w * k, m), k) = Ceil(w, m)
  <1> DEFINE wk == w * k
             a == Ceil(wk, m)
             b == Ceil(a, k)
  <1>1. wk \in Nat \ {0}
    OBVIOUS
  <1> HIDE DEF wk
  <1>2. a \in Nat \ {0} /\ (a - 1) * m < wk /\ wk <= a * m
    BY <1>1, CeilIs
  <1> HIDE DEF a
  <1>3. b \in Nat \ {0} /\ (b - 1) * k < a /\ a <= b * k
    BY <1>2, CeilIs
  <1> HIDE DEF b
  <1>4. (b - 1) * m < w
    <2>1. (b - 1) * k <= a - 1 /\ (b - 1) * k \in Int
      BY <1>2, <1>3
    <2>2. ((b - 1) * k) * m <= (a - 1) * m
      BY <1>2, <2>1, FactorKeeps
    <2>3. ((b - 1) * k) * m = ((b - 1) * m) * k /\ ((b - 1) * k) * m \in Int
      BY <1>3
    <2>4. (a - 1) * m \in Int
      BY <1>2
    <2>5. ((b - 1) * m) * k < w * k
      BY <1>1, <1>2, <2>2, <2>3, <2>4 DEF wk
    <2>6. (b - 1) * m \in Int
      BY <1>3
    <2>7. QED
      BY <2>5, <2>6, LessFactor
  <1>5. w <= b * m
    <2>1. a * m <= (b * k) * m /\ (b * k) * m \in Int /\ a * m \in Int
      BY <1>2, <1>3, FactorKeeps
    <2>2. (b * k) * m = (b * m) * k
      BY <1>3
    <2>3. SUFFICES ASSUME b * m < w PROVE FALSE
      BY <1>3
    <2>4. b * m + 1 <= w /\ b * m + 1 \in Int
      BY <1>3, <2>3
    <2>5. (b * m + 1) * k <= w * k
      BY <2>4, FactorKeeps
    <2>6. (b * m + 1) * k = (b * m) * k + k /\ (b * m) * k \in Int
      BY <1>3
    <2>7. QED
      BY <1>1, <1>2, <2>1, <2>2, <2>5, <2>6 DEF wk
  <1>6. b = Ceil(w, m)
    BY <1>3, <1>4, <1>5, CeilUnique
  <1>7. QED
    BY <1>2, <1>6 DEF a, b, wk

LEMMA LastOrIs ==
  ASSUME NEW n \in Nat \ {0}, NEW m \in Nat \ {0}
  PROVE  LastOr(n, m) \in 1 .. m /\ n = (Ceil(n, m) - 1) * m + LastOr(n, m)
  <1> DEFINE l == LastOr(n, m)
             q == n \div m
             r == n % m
             c == IF r = 0 THEN q ELSE q + 1
  <1>1. q \in Nat /\ r \in 0 .. m - 1 /\ n = q * m + r
    OBVIOUS
  <1>2. l = IF r = 0 THEN m ELSE r
    BY DEF LastOr
  <1> HIDE DEF q, r, l
  <1>3. c \in Int /\ l \in 1 .. m
    BY <1>1, <1>2
  <1>4. n = (c - 1) * m + l
    <2>1. CASE r = 0
      <3>1. c = q /\ (q - 1) * m = q * m - m /\ q * m \in Int
        BY <1>1, <2>1
      <3>2. QED
        BY <1>1, <1>2, <2>1, <3>1
    <2>2. CASE r # 0
      <3>1. c = q + 1 /\ c - 1 = q
        BY <1>1, <2>2
      <3>2. QED
        BY <1>1, <1>2, <2>2, <3>1
    <2>3. QED
      BY <2>1, <2>2
  <1> HIDE DEF c
  <1>5. (c - 1) * m < n /\ n <= c * m
    <2>1. c * m = (c - 1) * m + m /\ (c - 1) * m \in Int
      BY <1>3
    <2>2. QED
      BY <1>3, <1>4, <2>1
  <1>6. c = Ceil(n, m)
    BY <1>3, <1>5, CeilUnique
  <1>7. QED
    BY <1>3, <1>4, <1>6 DEF l

LEMMA CeilOne == ASSUME NEW n \in Nat \ {0} PROVE Ceil(n, 1) = n
  <1>1. (n - 1) * 1 < n /\ n <= n * 1
    OBVIOUS
  <1>2. QED
    BY <1>1, CeilUnique
-----------------------------------------------------------------------------
(* The geometry of an image.                                                *)
LEMMA LargestFactor ==
  ASSUME NEW S, S \subseteq 1 .. 4, S # {}
  PROVE  Max(S) \in S /\ \A x \in S : x <= Max(S)
  <1>1. \E x \in S : \A y \in S : x >= y
    <2>1. CASE 4 \in S
      BY <2>1
    <2>2. CASE 4 \notin S /\ 3 \in S
      BY <2>2
    <2>3. CASE 4 \notin S /\ 3 \notin S /\ 2 \in S
      BY <2>3
    <2>4. CASE 4 \notin S /\ 3 \notin S /\ 2 \notin S
      <3>1. \A x \in S : x \in 1 .. 4 /\ x # 4 /\ x # 3 /\ x # 2
        BY <2>4
      <3>2. PICK x : x \in S
        OBVIOUS
      <3>3. \A y \in S : y = 1
        BY <3>1
      <3>4. x = 1 /\ \A y \in S : x >= y
        BY <3>2, <3>3
      <3>5. QED
        BY <3>2, <3>4
    <2>5. QED
      BY <2>1, <2>2, <2>3, <2>4
  <1>2. Max(S) = CHOOSE x \in S : \A y \in S : x >= y
    BY Zenon DEF Max
  <1>3. Max(S) \in S /\ \A y \in S : Max(S) >= y
    BY <1>1, <1>2, Zenon
  <1>4. QED
    BY <1>3

LEMMA ImageIs ==
  ASSUME Shape
  PROVE  /\ IsImage(J) /\ Comps = 1 .. Len(J.comps) /\ Len(J.comps) \in Nat \ {0}
         /\ MaxH \in 1 .. 4 /\ MaxV \in 1 .. 4
         /\ \A c \in Comps : h(c) \in 1 .. 4 /\ v(c) \in 1 .. 4 /\ v(c) <= MaxV /\ h(c) <= MaxH
  <1>1. IsImage(J)
    BY JobsAssumption DEF Shape, J
  <1>2. J.comps \in Seq(Samplings) /\ J.comps # <<>>
    BY <1>1 DEF IsImage
  <1>3. Comps = 1 .. Len(J.comps) /\ Len(J.comps) \in Nat \ {0}
    BY <1>2 DEF Comps
  <1>4. \A c \in Comps : J.comps[c] \in Samplings
    BY <1>2 DEF Comps
  <1>5. \A c \in Comps : h(c) \in 1 .. 4 /\ v(c) \in 1 .. 4
    BY <1>4 DEF Samplings, h, v
  <1> DEFINE H == {h(c) : c \in Comps}
             V == {v(c) : c \in Comps}
  <1>6. 1 \in Comps
    BY <1>3
  <1>7. H \subseteq 1 .. 4 /\ H # {} /\ V \subseteq 1 .. 4 /\ V # {}
    BY <1>5, <1>6
  <1>8. (\A c \in Comps : h(c) \in H /\ v(c) \in V) /\ MaxH = Max(H) /\ MaxV = Max(V)
    BY Zenon DEF MaxH, MaxV
  <1> HIDE DEF H, V
  <1>9. /\ Max(H) \in H /\ \A x \in H : x <= Max(H)
        /\ Max(V) \in V /\ \A x \in V : x <= Max(V)
    BY <1>7, LargestFactor
  <1>10. \A c \in Comps : v(c) <= MaxV /\ h(c) <= MaxH
    BY <1>8, <1>9, Zenon
  <1>11. MaxH \in 1 .. 4 /\ MaxV \in 1 .. 4
    BY <1>7, <1>8, <1>9
  <1>12. QED
    BY <1>1, <1>3, <1>5, <1>10, <1>11

(* The height in iMCU rows, the width and the height in blocks.             *)
LEMMA RowsIs ==
  ASSUME Shape
  PROVE  /\ MaxV * DCTSIZE \in Nat \ {0} /\ total_iMCU_rows \in Nat \ {0}
         /\ (total_iMCU_rows - 1) * (MaxV * DCTSIZE) < J.height
         /\ J.height <= total_iMCU_rows * (MaxV * DCTSIZE)
  <1>1. MaxV * DCTSIZE \in Nat \ {0} /\ J.height \in Nat \ {0}
    BY ImageIs, SizeAssumption DEF IsImage
  <1> DEFINE m == MaxV * DCTSIZE
  <1>2. m \in Nat \ {0} /\ total_iMCU_rows = Ceil(J.height, m)
    BY <1>1 DEF total_iMCU_rows
  <1> HIDE DEF m
  <1>3. /\ total_iMCU_rows \in Nat \ {0} /\ (total_iMCU_rows - 1) * m < J.height
        /\ J.height <= total_iMCU_rows * m
    BY <1>1, <1>2, CeilIs
  <1>4. QED
    BY <1>2, <1>3 DEF m

LEMMA BlocksIs ==
  ASSUME Shape, NEW c \in Comps
  PROVE  /\ width_in_blocks(c) \in Nat \ {0} /\ height_in_blocks(c) \in Nat \ {0}
         /\ Ceil(height_in_blocks(c), v(c)) = total_iMCU_rows
         /\ Ceil(width_in_blocks(c), h(c)) = Ceil(J.width, MaxH * DCTSIZE)
         /\ last_row_height(c) \in 1 .. v(c)
         /\ height_in_blocks(c) = (total_iMCU_rows - 1) * v(c) + last_row_height(c)
  <1>1. /\ h(c) \in Nat \ {0} /\ v(c) \in Nat \ {0}
        /\ J.width \in Nat \ {0} /\ J.height \in Nat \ {0}
        /\ MaxV * DCTSIZE \in Nat \ {0} /\ MaxH * DCTSIZE \in Nat \ {0}
    <2>1. /\ h(c) \in 1 .. 4 /\ v(c) \in 1 .. 4 /\ MaxH \in 1 .. 4 /\ MaxV \in 1 .. 4
          /\ IsImage(J)
      BY ImageIs
    <2>2. MaxH * DCTSIZE \in Nat \ {0} /\ MaxV * DCTSIZE \in Nat \ {0}
      BY <2>1, SizeAssumption
    <2>3. QED
      BY <2>1, <2>2 DEF IsImage
  <1>2. /\ width_in_blocks(c) \in Nat \ {0}
        /\ Ceil(width_in_blocks(c), h(c)) = Ceil(J.width, MaxH * DCTSIZE)
    <2> DEFINE m == MaxH * DCTSIZE
    <2>2. width_in_blocks(c) = Ceil(J.width * h(c), m) /\ m \in Nat \ {0}
      BY <1>1, Zenon DEF width_in_blocks
    <2> HIDE DEF m
    <2>3. /\ Ceil(J.width * h(c), m) \in Nat \ {0}
          /\ Ceil(Ceil(J.width * h(c), m), h(c)) = Ceil(J.width, m)
      <3> DEFINE x == J.width
                 k == h(c)
      <3>1. x \in Nat \ {0} /\ k \in Nat \ {0} /\ m \in Nat \ {0}
        BY <1>1, <2>2
      <3> HIDE DEF x, k
      <3>2. Ceil(x * k, m) \in Nat \ {0} /\ Ceil(Ceil(x * k, m), k) = Ceil(x, m)
        BY <3>1, CeilCeil
      <3>3. QED
        BY <3>2 DEF x, k
    <2>4. QED
      BY <2>2, <2>3, Zenon DEF m
  <1>3. /\ height_in_blocks(c) \in Nat \ {0}
        /\ Ceil(height_in_blocks(c), v(c)) = total_iMCU_rows
    <2> DEFINE m == MaxV * DCTSIZE
    <2>2. /\ height_in_blocks(c) = Ceil(J.height * v(c), m) /\ total_iMCU_rows = Ceil(J.height, m)
          /\ m \in Nat \ {0}
      BY <1>1, Zenon DEF height_in_blocks, total_iMCU_rows
    <2> HIDE DEF m
    <2>3. /\ Ceil(J.height * v(c), m) \in Nat \ {0}
          /\ Ceil(Ceil(J.height * v(c), m), v(c)) = Ceil(J.height, m)
      <3> DEFINE x == J.height
                 k == v(c)
      <3>1. x \in Nat \ {0} /\ k \in Nat \ {0} /\ m \in Nat \ {0}
        BY <1>1, <2>2
      <3> HIDE DEF x, k
      <3>2. Ceil(x * k, m) \in Nat \ {0} /\ Ceil(Ceil(x * k, m), k) = Ceil(x, m)
        BY <3>1, CeilCeil
      <3>3. QED
        BY <3>2 DEF x, k
    <2>4. QED
      BY <2>2, <2>3, Zenon
  <1>4. /\ last_row_height(c) \in 1 .. v(c)
        /\ height_in_blocks(c) = (total_iMCU_rows - 1) * v(c) + last_row_height(c)
    BY <1>1, <1>3, LastOrIs DEF last_row_height
  <1>5. QED
    BY <1>2, <1>3, <1>4

LEMMA ScriptIs ==
  ASSUME Shape, validate_script(script, Len(J.comps))
  PROVE  /\ script \in Seq(Scans) /\ Len(script) \in Nat \ {0}
         /\ total_passes = (IF optimize_coding THEN 2 * Len(script) ELSE Len(script))
         /\ \A n \in 1 .. Len(script) : script[n].comps[1] \in Comps
  <1>1. script \in Seq(Scans)
    <2>1. CASE J.script # <<>>
      BY <2>1, ImageIs DEF script, IsImage
    <2>2. CASE J.script = <<>>
      <3> DEFINE whole == [comps |-> [c \in Comps |-> c], Ss |-> 0, Se |-> DCTSIZE2 - 1,
                           Ah |-> 0, Al |-> 0]
                 n == Len(J.comps)
      <3>1. script = <<whole>>
        BY <2>2, Zenon DEF script
      <3>2. n \in Nat /\ [c \in Comps |-> c] = [c \in 1 .. n |-> c]
        BY ImageIs
      <3>3. [c \in 1 .. n |-> c] \in Seq(Int)
        <4> HIDE DEF n
        <4>1. QED
          BY <3>2
      <3>4. whole \in Scans
        BY <3>2, <3>3, ScriptAssumption DEF Scans
      <3> HIDE DEF whole
      <3>5. QED
        BY <3>1, <3>4
    <2>3. QED
      BY <2>1, <2>2
  <1>2. script # <<>> /\ \A n \in DOMAIN script : GoodComponents(script[n], Len(J.comps))
    BY Zenon DEF validate_script, GoodScan
  <1>3. Len(script) \in Nat \ {0} /\ DOMAIN script = 1 .. Len(script)
    BY <1>1, <1>2
  <1>4. ASSUME NEW n \in 1 .. Len(script) PROVE script[n].comps[1] \in Comps
    <2>1. script[n] \in Scans
      BY <1>1
    <2>2. script[n].comps \in Seq(Int)
      BY <2>1 DEF Scans
    <2>3. /\ Len(script[n].comps) \in 1 .. MAX_COMPS_IN_SCAN
          /\ \A k \in DOMAIN script[n].comps : script[n].comps[k] \in 1 .. Len(J.comps)
      BY <1>2, <1>3 DEF GoodComponents
    <2>4. 1 \in DOMAIN script[n].comps
      BY <2>2, <2>3, ScriptAssumption
    <2>5. QED
      BY <2>3, <2>4, ImageIs
  <1>5. QED
    BY <1>1, <1>3, <1>4, Zenon DEF total_passes

(* The MCUs of the scan, row by row: all rows of MCUs but those of the last *)
(* iMCU row are alike, and together they are the MCUs of the scan.          *)
LEMMA ScanIs ==
  ASSUME Shape, validate_script(script, Len(J.comps)), master.scan \in 1 .. Len(script)
  PROVE  /\ MCUs_per_row \in Nat \ {0} /\ MCURows \in Nat \ {0} /\ total_iMCU_rows \in Nat \ {0}
         /\ coef.iMCU_row_num \in Nat /\ coef.iMCU_row_num < total_iMCU_rows =>
              /\ MCU_rows_per_iMCU_row \in Nat \ {0}
              /\ coef.iMCU_row_num + 1 < total_iMCU_rows => MCU_rows_per_iMCU_row = MCURows
              /\ coef.iMCU_row_num + 1 = total_iMCU_rows =>
                   (coef.iMCU_row_num * MCURows + MCU_rows_per_iMCU_row) * MCUs_per_row = Count(Scan)
  <1> DEFINE c == Scan.comps[1]
  <1>1. c \in Comps
    BY ScriptIs DEF Scan
  <1>2. /\ width_in_blocks(c) \in Nat \ {0} /\ height_in_blocks(c) \in Nat \ {0}
        /\ Ceil(height_in_blocks(c), v(c)) = total_iMCU_rows
        /\ Ceil(width_in_blocks(c), h(c)) = Ceil(J.width, MaxH * DCTSIZE)
        /\ last_row_height(c) \in 1 .. v(c)
        /\ height_in_blocks(c) = (total_iMCU_rows - 1) * v(c) + last_row_height(c)
    BY <1>1, BlocksIs
  <1>3. v(c) \in Nat \ {0} /\ h(c) \in Nat \ {0}
    BY <1>1, ImageIs
  <1>4. total_iMCU_rows \in Nat \ {0}
    BY RowsIs
  <1>5. Count(Scan) = Across(Scan) * Ceil(height_in_blocks(c), Tall(Scan, c))
    BY DEF Count
  <1>6. CASE Interleaved
    <2>1. Across(Scan) = MCUs_per_row /\ Tall(Scan, c) = v(c) /\ MCURows = 1
      BY <1>2, <1>6, Zenon DEF Across, Wide, Tall, MCUs_per_row, Interleaved, MCURows
    <2>2. MCUs_per_row \in Nat \ {0}
      <3>1. Ceil(width_in_blocks(c), h(c)) \in Nat \ {0}
        BY <1>2, <1>3, CeilIs
      <3>2. QED
        BY <1>2, <1>6, <3>1, Zenon DEF MCUs_per_row
    <2>3. MCU_rows_per_iMCU_row = 1
      BY <1>6, Zenon DEF MCU_rows_per_iMCU_row
    <2>4. Count(Scan) = MCUs_per_row * total_iMCU_rows
      BY <1>2, <1>5, <2>1, Zenon
    <2>5. ASSUME coef.iMCU_row_num \in Nat, coef.iMCU_row_num + 1 = total_iMCU_rows
          PROVE  (coef.iMCU_row_num * MCURows + MCU_rows_per_iMCU_row) * MCUs_per_row = Count(Scan)
      <3>1. coef.iMCU_row_num * MCURows + MCU_rows_per_iMCU_row = total_iMCU_rows
        BY <2>1, <2>3, <2>5
      <3>2. total_iMCU_rows * MCUs_per_row = MCUs_per_row * total_iMCU_rows
        BY <1>4, <2>2
      <3>3. QED
        BY <2>4, <3>1, <3>2
    <2>6. QED
      BY <1>4, <2>1, <2>2, <2>3, <2>5
  <1>7. CASE ~Interleaved
    <2>1. Wide(Scan, c) = 1 /\ Tall(Scan, c) = 1 /\ MCURows = v(c)
      BY <1>7, Zenon DEF Wide, Tall, Interleaved, MCURows
    <2>2. MCUs_per_row = width_in_blocks(c)
      BY <1>7, Zenon DEF MCUs_per_row
    <2>3. Across(Scan) = Ceil(width_in_blocks(c), 1)
      BY <2>1, Zenon DEF Across
    <2>4. Count(Scan) = MCUs_per_row * height_in_blocks(c)
      <3>1. Ceil(width_in_blocks(c), 1) = width_in_blocks(c)
        BY <1>2, CeilOne
      <3>2. Ceil(height_in_blocks(c), 1) = height_in_blocks(c)
        BY <1>2, CeilOne
      <3>3. QED
        BY <1>5, <2>1, <2>2, <2>3, <3>1, <3>2, Zenon
    <2>5. MCU_rows_per_iMCU_row = IF coef.iMCU_row_num < total_iMCU_rows - 1 THEN v(c)
                                  ELSE last_row_height(c)
      BY <1>7, Zenon DEF MCU_rows_per_iMCU_row
    <2>6. ASSUME coef.iMCU_row_num \in Nat, coef.iMCU_row_num + 1 = total_iMCU_rows
          PROVE  (coef.iMCU_row_num * MCURows + MCU_rows_per_iMCU_row) * MCUs_per_row = Count(Scan)
      <3>1. MCU_rows_per_iMCU_row = last_row_height(c)
        BY <1>4, <2>5, <2>6
      <3>2. coef.iMCU_row_num = total_iMCU_rows - 1
        BY <1>4, <2>6
      <3>3. coef.iMCU_row_num * MCURows + MCU_rows_per_iMCU_row = height_in_blocks(c)
        BY <1>2, <2>1, <3>1, <3>2
      <3>4. height_in_blocks(c) * MCUs_per_row = MCUs_per_row * height_in_blocks(c)
        BY <1>2, <2>2
      <3>5. QED
        BY <2>4, <3>3, <3>4
    <2>7. last_row_height(c) \in Nat \ {0}
      BY <1>2, <1>3
    <2> HIDE DEF c
    <2>8. QED
      BY <1>2, <1>3, <1>4, <2>1, <2>2, <2>5, <2>6, <2>7
  <1>8. QED
    BY <1>6, <1>7
-----------------------------------------------------------------------------
(* What depends on the image, or on the scan, changes with it only.         *)
LEMMA ImageKept ==
  ASSUME jobs' = jobs, job' = job
  PROVE  /\ J' = J /\ script' = script /\ optimize_coding' = optimize_coding
         /\ total_passes' = total_passes /\ MaxV' = MaxV /\ MaxH' = MaxH
         /\ total_iMCU_rows' = total_iMCU_rows /\ context_rows' = context_rows
         /\ validate_script(script, Len(J.comps))' = validate_script(script, Len(J.comps))
  <1>1. J' = J /\ script' = script /\ optimize_coding' = optimize_coding
    BY ParametersKept, Zenon
  <1>2. total_passes' = total_passes
    BY <1>1, Zenon DEF total_passes
  <1>3. MaxV' = MaxV /\ MaxH' = MaxH
    BY <1>1, Zenon DEF MaxV, MaxH, Comps, v, h
  <1>4. total_iMCU_rows' = total_iMCU_rows
    BY <1>1, <1>3, Zenon DEF total_iMCU_rows
  <1>5. context_rows' = context_rows
    BY <1>1, <1>3, Zenon DEF context_rows, smoothed, Comps, h, v
  <1>6. validate_script(script, Len(J.comps))' = validate_script(script, Len(J.comps))
    BY <1>1, Zenon
  <1>7. QED
    BY <1>1, <1>2, <1>3, <1>4, <1>5, <1>6

LEMMA ScanKept ==
  ASSUME jobs' = jobs, job' = job, master'.scan = master.scan
  PROVE  /\ MCUs_per_row' = MCUs_per_row /\ MCURows' = MCURows /\ Count(Scan)' = Count(Scan)
         /\ coef'.iMCU_row_num = coef.iMCU_row_num =>
              MCU_rows_per_iMCU_row' = MCU_rows_per_iMCU_row
  <1>1. J' = J /\ script' = script /\ MaxV' = MaxV /\ MaxH' = MaxH /\ total_iMCU_rows' = total_iMCU_rows
    BY ImageKept, Zenon
  <1>2. Scan' = Scan
    BY <1>1, Zenon DEF Scan
  <1>3. Interleaved' = Interleaved
    BY <1>2, Zenon DEF Interleaved
  <1>4. MCUs_per_row' = MCUs_per_row
    BY <1>1, <1>2, <1>3, Zenon DEF MCUs_per_row, width_in_blocks, h
  <1>5. MCURows' = MCURows
    BY <1>1, <1>2, <1>3, Zenon DEF MCURows, v
  <1>6. Count(Scan)' = Count(Scan)
    BY <1>1, <1>2, Zenon DEF Count, Across, Wide, Tall, width_in_blocks, height_in_blocks, h, v
  <1>7. ASSUME coef'.iMCU_row_num = coef.iMCU_row_num
        PROVE  MCU_rows_per_iMCU_row' = MCU_rows_per_iMCU_row
    BY <1>1, <1>2, <1>3, <1>7, Zenon
    DEF MCU_rows_per_iMCU_row, last_row_height, height_in_blocks, v
  <1>8. QED
    BY <1>4, <1>5, <1>6, <1>7

LEMMA CompleteKept ==
  ASSUME jobs' = jobs, job' = job, file'.scan = file.scan, file'.mcus = file.mcus
  PROVE  Complete' = Complete
  <1>1. J' = J /\ script' = script /\ MaxV' = MaxV /\ MaxH' = MaxH
    BY ImageKept, Zenon
  <1>2. Count(script[file.scan])' = Count(script[file.scan])
    BY <1>1, Zenon DEF Count, Across, Wide, Tall, width_in_blocks, height_in_blocks, h, v
  <1>3. QED
    BY <1>2, Zenon DEF Complete
-----------------------------------------------------------------------------
(* The course of the passes.                                                *)
LEMMA InPass ==
  ASSUME Shape, PassInv, Writing, ~Between
  PROVE  /\ master.scan \in 1 .. Len(script) /\ validate_script(script, Len(J.comps))
         /\ MCUs_per_row \in Nat \ {0} /\ MCURows \in Nat \ {0} /\ total_iMCU_rows \in Nat \ {0}
         /\ coef.iMCU_row_num \in Nat /\ coef.iMCU_row_num < total_iMCU_rows =>
              /\ MCU_rows_per_iMCU_row \in Nat \ {0}
              /\ coef.iMCU_row_num + 1 < total_iMCU_rows => MCU_rows_per_iMCU_row = MCURows
              /\ coef.iMCU_row_num + 1 = total_iMCU_rows =>
                   (coef.iMCU_row_num * MCURows + MCU_rows_per_iMCU_row) * MCUs_per_row = Count(Scan)
  <1>1. /\ validate_script(script, Len(J.comps)) /\ PassOK(master)
        /\ master.pass_number < total_passes /\ master.scan = master.scan_number
    BY DEF PassInv
  <1>2. /\ Len(script) \in Nat \ {0}
        /\ total_passes = (IF optimize_coding THEN 2 * Len(script) ELSE Len(script))
    BY <1>1, ScriptIs
  <1>3. master.scan_number \in Nat \ {0}
    BY DEF Shape, MasterOK
  <1>4. master.scan_number \in 1 .. Len(script)
    BY <1>1, <1>2, <1>3 DEF PassOK
  <1>5. QED
    BY <1>1, <1>4, ScanIs

(* The same of the next state.                                              *)
LEMMA InPassNext ==
  Shape' /\ PassInv' /\ Writing' /\ ~Between' =>
    (/\ MCUs_per_row \in Nat \ {0} /\ MCURows \in Nat \ {0}
     /\ coef.iMCU_row_num \in Nat /\ coef.iMCU_row_num < total_iMCU_rows =>
          MCU_rows_per_iMCU_row \in Nat \ {0})'
  <1>1. Shape /\ PassInv /\ Writing /\ ~Between =>
          (/\ MCUs_per_row \in Nat \ {0} /\ MCURows \in Nat \ {0}
           /\ coef.iMCU_row_num \in Nat /\ coef.iMCU_row_num < total_iMCU_rows =>
                MCU_rows_per_iMCU_row \in Nat \ {0})
    BY InPass, Zenon
  <1>2. QED
    BY <1>1, PTL

LEMMA PassFrame ==
  ASSUME Shape, PassInv, jobs' = jobs, job' = job, Writing' => global_state' = global_state,
         master' = master, entropy'.gather = entropy.gather, file'.scan = file.scan,
         Between' = Between, file'.mcus = file.mcus \/ (~Between /\ file.scan = master.scan)
  PROVE  PassInv'
  <1> SUFFICES ASSUME Writing' PROVE PassInv'
    BY Zenon DEF PassInv
  <1>1. Writing /\ global_state' = global_state
    BY Zenon DEF Writing
  <1>2. /\ J' = J /\ script' = script /\ optimize_coding' = optimize_coding
        /\ total_passes' = total_passes
        /\ validate_script(script, Len(J.comps))' = validate_script(script, Len(J.comps))
    BY ImageKept, Zenon
  <1>3. PassOK(master)' = PassOK(master)
    BY <1>1, <1>2, Zenon DEF PassOK
  <1>4. Startup' = Startup
    BY Zenon DEF Startup
  <1>5. file.scan > 0 /\ (Between \/ file.scan < master.scan) => Complete'
    <2>1. CASE file'.mcus = file.mcus
      <3>1. Complete' = Complete
        BY <2>1, CompleteKept, Zenon
      <3>2. QED
        BY <1>1, <3>1, Zenon DEF PassInv
    <2>2. CASE ~Between /\ file.scan = master.scan
      <3>1. ~(file.scan < master.scan)
        BY <2>2 DEF Shape, MasterOK
      <3>2. QED
        BY <2>2, <3>1
    <2>3. QED
      BY <2>1, <2>2
  <1>6. QED
    BY <1>1, <1>2, <1>3, <1>4, <1>5, Zenon DEF PassInv

(* prepare_for_pass: the number of the pass.                                *)
LEMMA PreparedNumber ==
  ASSUME NEW m, MasterOK(m)
  PROVE  /\ Prepared(m).pass_number = (IF SkipsOptimization(m) THEN m.pass_number + 1
                                       ELSE m.pass_number)
         /\ Prepared(m).is_last_pass <=> Prepared(m).pass_number = total_passes - 1
  <1> DEFINE n == IF SkipsOptimization(m)
                  THEN [m EXCEPT !.pass_type = "output", !.pass_number = @ + 1] ELSE m
             scan == IF m.pass_type # "output" \/ ~optimize_coding THEN m.scan_number ELSE n.scan
             startup == m.pass_type = "main" /\ ~optimize_coding
             last == n.pass_number = total_passes - 1
  <1>1. Prepared(m) = [n EXCEPT !.scan = scan, !.call_pass_startup = startup, !.is_last_pass = last]
    BY Zenon DEF Prepared
  <1>2. /\ DOMAIN n = DOMAIN m
        /\ n.pass_number = IF SkipsOptimization(m) THEN m.pass_number + 1 ELSE m.pass_number
    BY DEF MasterOK
  <1>3. last <=> n.pass_number = total_passes - 1
    OBVIOUS
  <1> HIDE DEF n, startup, last, scan
  <1>4. Prepared(m).pass_number = n.pass_number /\ Prepared(m).is_last_pass = last
    BY <1>1, <1>2 DEF MasterOK
  <1>5. QED
    BY <1>2, <1>3, <1>4

LEMMA AfterPassNumber ==
  ASSUME NEW m, MasterOK(m)
  PROVE  /\ AfterPass(m).pass_number = m.pass_number + 1
         /\ AfterPass(m).is_last_pass = m.is_last_pass /\ AfterPass(m).scan = m.scan
         /\ AfterPass(m).call_pass_startup = m.call_pass_startup
         /\ AfterPass(m).pass_type = (IF m.pass_type = "output" /\ optimize_coding THEN "huff_opt"
                                      ELSE "output")
         /\ AfterPass(m).scan_number =
              (IF (m.pass_type = "main" /\ ~optimize_coding) \/ m.pass_type = "output"
               THEN m.scan_number + 1 ELSE m.scan_number)
  <1> DEFINE type == IF m.pass_type = "output" /\ optimize_coding THEN "huff_opt" ELSE "output"
             number == CASE m.pass_type = "main" /\ ~optimize_coding -> m.scan_number + 1
                         [] m.pass_type = "output" -> m.scan_number + 1
                         [] OTHER -> m.scan_number
  <1>1. AfterPass(m) = [m EXCEPT !.pass_type = type, !.scan_number = number, !.pass_number = @ + 1]
    BY Zenon DEF AfterPass
  <1>2. number = (IF (m.pass_type = "main" /\ ~optimize_coding) \/ m.pass_type = "output"
                  THEN m.scan_number + 1 ELSE m.scan_number)
    OBVIOUS
  <1>3. type = (IF m.pass_type = "output" /\ optimize_coding THEN "huff_opt" ELSE "output")
    OBVIOUS
  <1> HIDE DEF type, number
  <1>4. QED
    BY <1>1, <1>2, <1>3 DEF MasterOK

LEMMA HeadersAre ==
  ASSUME NEW m, Headers(m)
  PROVE  /\ file'.scan = m.scan /\ file'.mcus = <<>>
         /\ file'.marks = file.marks \o (IF m.scan_number = 1 THEN <<"SOF">> ELSE <<>>) \o <<"SOS">>
  <1> DEFINE marks == file.marks \o (IF m.scan_number = 1 THEN <<"SOF">> ELSE <<>>) \o <<"SOS">>
  <1>1. file' = [marks |-> marks, dri |-> restart_interval', scan |-> m.scan, mcus |-> <<>>]
    BY Zenon DEF Headers
  <1> HIDE DEF marks
  <1>2. file'.scan = m.scan /\ file'.mcus = <<>> /\ file'.marks = marks
    BY <1>1
  <1>3. QED
    BY <1>2 DEF marks

(* The first pass, of a new image.                                          *)
LEMMA FirstPassInv ==
  ASSUME IInv, IInv', jobs' = jobs, job' = job, Writing', validate_script(script, Len(J.comps)),
         file'.scan = 0, call' = NoCall,
         \/ /\ master' = Prepared(NewMaster) /\ J.input # "coefs" /\ global_state' # "WRCOEFS"
            /\ (entropy'.gather <=> optimize_coding)
         \/ master' = NewMaster /\ J.input = "coefs" /\ global_state' = "WRCOEFS"
  PROVE  PassInv'
  <1>1. /\ J' = J /\ script' = script /\ optimize_coding' = optimize_coding
        /\ total_passes' = total_passes
        /\ validate_script(script, Len(J.comps))' = validate_script(script, Len(J.comps))
    BY ImageKept, Zenon
  <1>2. /\ MasterOK(NewMaster) /\ NewMaster.pass_number = 0 /\ NewMaster.scan_number = 1
        /\ NewMaster.scan = 0 /\ NewMaster.call_pass_startup = FALSE
        /\ NewMaster.is_last_pass = FALSE
        /\ NewMaster.pass_type = IF J.input # "coefs" THEN "main"
                                 ELSE IF optimize_coding THEN "huff_opt" ELSE "output"
    BY DEF NewMaster, MasterOK
  <1>3. total_passes \in Nat \ {0}
    BY ScriptIs DEF IInv
  <1>4. CASE master' = NewMaster /\ J.input = "coefs" /\ global_state' = "WRCOEFS"
    <2>1. Between'
      BY <1>2, <1>4 DEF Between
    <2>2. PassOK(master)'
      BY <1>1, <1>2, <1>3, <1>4 DEF PassOK
    <2>3. QED
      BY <1>1, <1>2, <1>3, <1>4, <2>1, <2>2 DEF PassInv
  <1>5. CASE /\ master' = Prepared(NewMaster) /\ J.input # "coefs" /\ global_state' # "WRCOEFS"
             /\ (entropy'.gather <=> optimize_coding)
    <2>1. ~SkipsOptimization(NewMaster)
      BY <1>2, <1>5 DEF SkipsOptimization
    <2>2. /\ master'.scan_number = 1 /\ master'.pass_type = "main" /\ master'.scan = 1
          /\ master'.pass_number = 0 /\ master'.call_pass_startup = ~optimize_coding
          /\ master'.is_last_pass <=> 0 = total_passes - 1
      BY <1>2, <1>5, <2>1, PreparedIs, PreparedNumber
    <2>3. ~Between'
      BY <2>2 DEF Between, NoCall
    <2>4. PassOK(master)'
      BY <1>1, <1>3, <1>5, <2>2 DEF PassOK
    <2>5. Startup' = ~optimize_coding
      BY <2>2 DEF Startup
    <2>6. /\ (master.is_last_pass <=> master.pass_number = total_passes - 1)'
          /\ (master.pass_number < total_passes)'
      BY <1>1, <1>3, <2>2
    <2>7. /\ (master.scan = master.scan_number)'
          /\ (entropy.gather <=>
                 master.pass_type = "huff_opt" \/ (master.pass_type = "main" /\ optimize_coding))'
      BY <1>1, <1>5, <2>2
    <2>8. (file.scan = IF entropy.gather \/ Startup THEN master.scan - 1 ELSE master.scan)'
      <3>1. entropy'.gather \/ Startup'
        BY <1>5, <2>5, Zenon
      <3>2. file'.scan = master'.scan - 1
        BY <2>2
      <3>3. QED
        BY <3>1, <3>2, Zenon
    <2>9. ~(file.scan > 0)'
      OBVIOUS
    <2>10. QED
      BY <1>1, <2>3, <2>4, <2>6, <2>7, <2>8, <2>9, Zenon DEF PassInv
  <1>6. QED
    BY <1>4, <1>5

(* A pass ends: if it wrote the scan, the scan is complete.                 *)
LEMMA FinishPassPass ==
  ASSUME IInv, PassInv, CallInv, CountInv, FinishPass
  PROVE  PassInv' /\ Writing /\ ~Between /\ (file.scan > 0 => Complete)
  <1>1. /\ jobs' = jobs /\ job' = job /\ file' = file
        /\ global_state' = global_state
        /\ call.at = "finish_pass" /\ call' = [call EXCEPT !.at = "passes"]
        /\ master' = AfterPass(master)
    BY Zenon DEF FinishPass, others
  <1>2. call'.at = "passes" /\ call # NoCall
    BY <1>1 DEF CallInv, CallTyped, NoCall
  <1>3. Writing /\ Writing'
    BY <1>1, <1>2, Zenon DEF IInv, Calls, Writing
  <1>4. ~Between /\ Between'
    BY <1>1, <1>2, <1>3 DEF IInv, Shape, MasterOK, ScanSelected, Between
  <1>5. /\ J' = J /\ script' = script /\ optimize_coding' = optimize_coding
        /\ total_passes' = total_passes
        /\ validate_script(script, Len(J.comps))' = validate_script(script, Len(J.comps))
    BY <1>1, ImageKept, Zenon
  <1>6. ~Startup
    BY <1>2, <1>3, Zenon DEF CallInv
  <1>7. file.scan = IF entropy.gather THEN master.scan - 1 ELSE master.scan
    BY <1>3, <1>4, <1>6, Zenon DEF PassInv
  <1>8. file.scan > 0 => Complete
    <2>1. CASE entropy.gather
      <3>1. file.scan < master.scan
        BY <1>7, <2>1 DEF IInv, Shape, MasterOK
      <3>2. QED
        BY <1>3, <3>1, Zenon DEF PassInv
    <2>2. CASE ~entropy.gather
      <3>1. coef.iMCU_row_num = total_iMCU_rows
        BY <1>1, <1>3, <1>4, Zenon DEF CountInv
      <3>2. Len(file.mcus) = Count(Scan)
        BY <1>3, <1>4, <2>2, <3>1, Zenon DEF CountInv
      <3>3. file.scan = master.scan
        BY <1>7, <2>2, Zenon
      <3>4. Count(script[file.scan]) = Count(Scan)
        BY <3>3, Zenon DEF Scan
      <3>5. QED
        BY <3>2, <3>4, Zenon DEF Complete
    <2>3. QED
      BY <2>1, <2>2
  <1>9. Complete' = Complete
    BY <1>1, CompleteKept, Zenon
  <1>10. /\ master'.pass_number = master.pass_number + 1
         /\ master'.is_last_pass = master.is_last_pass /\ master'.scan = master.scan
         /\ master'.pass_type = (IF master.pass_type = "output" /\ optimize_coding THEN "huff_opt"
                                 ELSE "output")
         /\ master'.scan_number =
              (IF (master.pass_type = "main" /\ ~optimize_coding) \/ master.pass_type = "output"
               THEN master.scan_number + 1 ELSE master.scan_number)
    BY <1>1, AfterPassNumber DEF IInv, Shape
  <1>11. /\ PassOK(master) /\ (master.is_last_pass <=> master.pass_number = total_passes - 1)
         /\ master.pass_number < total_passes /\ master.scan = master.scan_number
         /\ entropy.gather <=>
              master.pass_type = "huff_opt" \/ (master.pass_type = "main" /\ optimize_coding)
    BY <1>3, <1>4 DEF PassInv
  <1>12. total_passes \in Nat \ {0}
    BY <1>3, ScriptIs DEF IInv, PassInv
  <1>13. /\ master.scan_number \in Nat \ {0}
         /\ master.pass_type \in {"main", "huff_opt", "output"}
    BY DEF IInv, Shape, MasterOK
  <1>14. master.pass_number \in Nat
    BY <1>11, <1>13 DEF PassOK
  <1>15. PassOK(master)'
    <2>1. (master.pass_number <= total_passes)'
      BY <1>5, <1>10, <1>11, <1>12, <1>14
    <2>2. (~optimize_coding => master.pass_type # "huff_opt")' /\ master'.pass_type # "main"
      BY <1>5, <1>10
    <2>3. master.pass_type # "output" /\ ~optimize_coding => master.pass_type = "main"
      BY <1>11, <1>13 DEF PassOK
    <2>4. (master.pass_number = IF optimize_coding
                     THEN 2 * (master.scan_number - 1) + (IF master.pass_type = "output" THEN 1 ELSE 0)
                     ELSE master.scan_number - 1)'
      BY <1>5, <1>10, <1>11, <1>13, <2>3 DEF PassOK
    <2>5. QED
      BY <2>1, <2>2, <2>4 DEF PassOK
  <1>16. (master.is_last_pass <=> master.pass_number = total_passes)'
    BY <1>5, <1>10, <1>11, <1>12, <1>14
  <1>17. (optimize_coding /\ master.pass_type = "output" => master.scan = master.scan_number)'
    BY <1>5, <1>10, <1>11, <1>13
  <1>18. (file.scan = master.scan_number - 1)'
    BY <1>1, <1>7, <1>10, <1>11, <1>13 DEF PassOK
  <1>19. validate_script(script, Len(J.comps))
    BY <1>3, Zenon DEF PassInv
  <1>20. PassInv'
    BY <1>1, <1>4, <1>5, <1>8, <1>9, <1>15, <1>16, <1>17, <1>18, <1>19, Zenon DEF PassInv
  <1>21. QED
    BY <1>3, <1>4, <1>8, <1>20

(* Another pass. The scan before it is complete.                            *)
LEMMA NextPassPass ==
  ASSUME IInv, PassInv, NextPass
  PROVE  /\ PassInv' /\ Writing /\ Writing' /\ Between /\ ~Between' /\ ~Startup'
         /\ file.scan > 0 => Complete
         /\ file'.scan = file.scan \/ file'.scan = file.scan + 1
         /\ master'.pass_type # "main"
  <1>1. /\ jobs' = jobs /\ job' = job
        /\ global_state' = global_state
        /\ call.at = "passes" /\ call' = [call EXCEPT !.at = "compress"]
        /\ master' = Prepared(master) /\ ~master.is_last_pass
        /\ entropy' = NewEntropy(master'.pass_type = "huff_opt", restart_interval')
        /\ IF master'.pass_type = "output" THEN Headers(master')
           ELSE tables' = tables /\ file' = file /\ decoder' = decoder
    BY Zenon DEF NextPass, others
  <1>2. call'.at = "compress" /\ call # NoCall
    BY <1>1 DEF IInv, Shape, CallOK, NoCall
  <1>3. entropy'.gather <=> master'.pass_type = "huff_opt"
    BY <1>1 DEF NewEntropy
  <1>4. Writing /\ Writing'
    BY <1>1, <1>2, Zenon DEF IInv, Calls, Writing
  <1>5. Between
    BY <1>1 DEF Between
  <1>6. /\ J' = J /\ script' = script /\ optimize_coding' = optimize_coding
        /\ total_passes' = total_passes
        /\ validate_script(script, Len(J.comps))' = validate_script(script, Len(J.comps))
    BY <1>1, ImageKept, Zenon
  <1>7. /\ validate_script(script, Len(J.comps)) /\ PassOK(master)
        /\ (master.is_last_pass <=> master.pass_number = total_passes)
        /\ (optimize_coding /\ master.pass_type = "output" => master.scan = master.scan_number)
        /\ file.scan = master.scan_number - 1
        /\ (file.scan > 0 => Complete)
    BY <1>4, <1>5, Zenon DEF PassInv
  <1>8. /\ master.scan_number \in Nat \ {0}
        /\ master.pass_type \in {"huff_opt", "output"}
    BY <1>1, <1>4 DEF IInv, Shape, MasterOK, PassTypes
  <1>9. /\ Len(script) \in Nat \ {0} /\ total_passes \in Nat \ {0}
        /\ total_passes = (IF optimize_coding THEN 2 * Len(script) ELSE Len(script))
    BY <1>7, ScriptIs DEF IInv
  <1>10. master.pass_number \in Nat /\ master.pass_number < total_passes
    BY <1>1, <1>7, <1>8, <1>9 DEF PassOK
  <1>11. /\ master'.scan_number = master.scan_number
         /\ master'.pass_type = (IF SkipsOptimization(master) THEN "output" ELSE master.pass_type)
         /\ master'.scan = (IF master.pass_type # "output" \/ ~optimize_coding
                            THEN master.scan_number ELSE master.scan)
         /\ ~master'.call_pass_startup
    BY <1>1, <1>8, PreparedIs DEF IInv, Shape
  <1>12. /\ master'.pass_number = (IF SkipsOptimization(master) THEN master.pass_number + 1
                                   ELSE master.pass_number)
         /\ master'.is_last_pass <=> master'.pass_number = total_passes - 1
    BY <1>1, PreparedNumber DEF IInv, Shape
  <1>13. master'.scan = master.scan_number
    BY <1>7, <1>8, <1>11
  <1>14. ~Between' /\ ~Startup'
    BY <1>2, <1>8, <1>11, <1>13 DEF Between, Startup
  <1>15. SkipsOptimization(master) => master.pass_type = "huff_opt" /\ optimize_coding
    BY <1>7 DEF SkipsOptimization, PassOK
  <1>16. PassOK(master)' /\ (master.pass_number < total_passes)'
    <2>1. CASE SkipsOptimization(master)
      <3>1. /\ master.pass_type = "huff_opt" /\ optimize_coding
            /\ master'.pass_type = "output" /\ master'.pass_number = master.pass_number + 1
        BY <1>11, <1>12, <1>15, <2>1
      <3>2. master.pass_number = 2 * (master.scan_number - 1)
        BY <1>7, <1>8, <3>1 DEF PassOK
      <3>3. (master.pass_number < total_passes)'
        <4>1. total_passes = 2 * Len(script)
          BY <1>9, <3>1, Zenon
        <4>2. master.pass_number + 1 < total_passes
          BY <1>8, <1>9, <1>10, <3>2, <4>1
        <4>3. QED
          BY <1>6, <3>1, <4>2
      <3>4. QED
        BY <1>6, <1>8, <1>9, <1>10, <1>11, <3>1, <3>2, <3>3 DEF PassOK
    <2>2. CASE ~SkipsOptimization(master)
      <3>1. master'.pass_type = master.pass_type /\ master'.pass_number = master.pass_number
        BY <1>11, <1>12, <2>2
      <3>2. QED
        BY <1>6, <1>7, <1>8, <1>9, <1>10, <1>11, <3>1 DEF PassOK
    <2>3. QED
      BY <2>1, <2>2
  <1>17. master'.pass_type \in {"huff_opt", "output"}
    BY <1>8, <1>11
  <1>18. CASE master'.pass_type = "output"
    <2>1. ~entropy'.gather
      BY <1>3, <1>18
    <2>2. file'.scan = master'.scan
      BY <1>1, <1>18, HeadersAre
    <2>3. file'.scan = file.scan + 1 /\ ~(file'.scan < master'.scan)
      BY <1>7, <1>8, <1>13, <2>2
    <2>4. (entropy.gather <=>
             master.pass_type = "huff_opt" \/ (master.pass_type = "main" /\ optimize_coding))'
      BY <1>18, <2>1
    <2>5. PassInv'
      BY <1>6, <1>7, <1>11, <1>12, <1>13, <1>14, <1>16, <2>1, <2>2, <2>3, <2>4, Zenon DEF PassInv
    <2>6. QED
      BY <1>4, <1>5, <1>7, <1>14, <1>17, <2>3, <2>5
  <1>19. CASE master'.pass_type # "output"
    <2>1. file' = file /\ master'.pass_type = "huff_opt"
      BY <1>1, <1>17, <1>19
    <2>2. entropy'.gather
      BY <1>3, <2>1
    <2>3. (entropy.gather <=>
             master.pass_type = "huff_opt" \/ (master.pass_type = "main" /\ optimize_coding))'
      BY <2>1, <2>2
    <2>4. file'.scan = master'.scan - 1
      BY <1>7, <1>13, <2>1
    <2>5. Complete' = Complete
      BY <1>1, <2>1, CompleteKept, Zenon
    <2>6. PassInv'
      BY <1>6, <1>7, <1>11, <1>12, <1>13, <1>14, <1>16, <2>1, <2>2, <2>3, <2>4, <2>5, Zenon
      DEF PassInv
    <2>7. QED
      BY <1>4, <1>5, <1>7, <1>14, <1>17, <2>1, <2>6
  <1>20. QED
    BY <1>18, <1>19
-----------------------------------------------------------------------------
(* What an action leaves alone.                                             *)
LEMMA NoCallIs ==
  ASSUME call' = NoCall
  PROVE  /\ (call = NoCall)' /\ call'.at = "none" /\ call'.op = "none" /\ CallTyped(call')
         /\ call'.lines = 0 /\ call'.row_ctr = 0
  <1>1. (call = NoCall)'
    BY Zenon DEF NoCall
  <1>2. QED
    BY <1>1 DEF NoCall, CallTyped

LEMMA NotWritingCourse ==
  ASSUME ~Writing', call' = NoCall, Marker, entropy' = entropy
  PROVE  Course' /\ Marker'
  <1>1. CallInv'
    BY NoCallIs, Zenon DEF CallInv
  <1>2. QED
    BY <1>1, Zenon DEF Course, Marker, PassInv, CountInv, RowsInv, MarksInv

LEMMA CountFrame ==
  ASSUME CountInv, jobs' = jobs, job' = job, master'.scan = master.scan, Writing' => Writing,
         Between' = Between, entropy' = entropy, coef' = coef,
         file'.mcus = file.mcus \/ (file'.mcus = <<>> /\ entropy.counted = 0),
         \/ call'.at = call.at /\ call'.y = call.y /\ call'.x = call.x
         \/ /\ call.at # "mcu" /\ call'.at # "mcu"
            /\ call'.at = "compress" => coef.iMCU_row_num < total_iMCU_rows
            /\ call'.at = "finish_pass" => coef.iMCU_row_num = total_iMCU_rows
  PROVE  CountInv'
  <1>1. total_iMCU_rows' = total_iMCU_rows
    BY ImageKept, Zenon
  <1>2. /\ MCUs_per_row' = MCUs_per_row /\ MCURows' = MCURows /\ Count(Scan)' = Count(Scan)
        /\ MCU_rows_per_iMCU_row' = MCU_rows_per_iMCU_row
    BY ScanKept, Zenon
  <1>3. SUFFICES ASSUME Writing', ~Between' PROVE CountInv'
    BY Zenon DEF CountInv
  <1>4. Writing /\ ~Between
    BY <1>3, Zenon
  <1>7. ~entropy'.gather => IsSequence(file'.mcus) /\ Len(file'.mcus) = entropy'.counted
    <2>1. IsSequence(<<>>) /\ Len(<<>>) = 0
      BY DEF IsSequence
    <2>2. ~entropy.gather => IsSequence(file.mcus) /\ Len(file.mcus) = entropy.counted
      BY <1>4, Zenon DEF CountInv
    <2>3. QED
      BY <2>1, <2>2, Zenon
  <1>5. CASE call'.at = call.at /\ call'.y = call.y /\ call'.x = call.x
    BY <1>7, <1>1, <1>2, <1>4, <1>5, Zenon DEF CountInv
  <1>6. CASE /\ call.at # "mcu" /\ call'.at # "mcu"
             /\ call'.at = "compress" => coef.iMCU_row_num < total_iMCU_rows
             /\ call'.at = "finish_pass" => coef.iMCU_row_num = total_iMCU_rows
    <2>1. call'.at \in {"compress", "mcu"} => (coef.iMCU_row_num < total_iMCU_rows)'
      BY <1>1, <1>6
    <2>2. QED
      BY <1>7, <1>1, <1>2, <1>4, <1>6, <2>1, Zenon DEF CountInv
  <1>8. QED
    BY <1>5, <1>6

LEMMA MarksFrame ==
  ASSUME MarksInv, Writing' => Writing, file'.scan = file.scan, file'.marks = file.marks
  PROVE  MarksInv'
  BY Zenon DEF MarksInv

LEMMA RowsFrame ==
  ASSUME RowsInv, jobs' = jobs, job' = job, Writing' => global_state' = global_state,
         next_scanline' = next_scanline, main' = main, prep' = prep, 
         coef'.iMCU_row_num = coef.iMCU_row_num, call'.op = call.op,
         call'.lines = call.lines, call'.row_ctr = call.row_ctr,
         (call' = NoCall) = (call = NoCall), 
         call'.at # call.at => call'.at # "mcu" \/ main.rowgroup_ctr = DCTSIZE
                               \/ ~(global_state = "SCANNING" /\ MainPass)
  PROVE  RowsInv'
  <1> SUFFICES ASSUME Writing' PROVE RowsInv'
    BY Zenon DEF RowsInv
  <1>1. Writing /\ global_state' = global_state
    BY Zenon DEF Writing
  <1>2. /\ J' = J /\ MaxV' = MaxV /\ context_rows' = context_rows
        /\ total_iMCU_rows' = total_iMCU_rows
    BY ImageKept, Zenon
  <1>3. Taken' = Taken /\ Groups' = Groups /\ MainPass' = MainPass
    BY <1>1, <1>2, Zenon DEF Taken, Groups, MainPass
  <1>4. MainTyped(main)' = MainTyped(main) /\ PrepTyped(prep)' = PrepTyped(prep)
    BY <1>2, Zenon DEF MainTyped, PrepTyped
  <1>5. ASSUME global_state = "SCANNING", MainPass, call'.at = "mcu"
        PROVE  main.rowgroup_ctr = DCTSIZE
    <2>1. CASE call'.at = call.at
      BY <1>1, <1>5, <2>1, Zenon DEF RowsInv
    <2>2. CASE call'.at # call.at
      BY <1>5, <2>2
    <2>3. QED
      BY <2>1, <2>2
  <1>6. QED
    BY <1>1, <1>2, <1>3, <1>4, <1>5, Zenon DEF RowsInv

(* The calls of jpeg_finish_compress: no rows come any more.                *)
LEMMA RowsFinish ==
  ASSUME RowsInv, jobs' = jobs, job' = job, Writing' => global_state' = global_state,
         next_scanline' = next_scanline, main' = main, prep' = prep,
         call'.op = "finish", call'.row_ctr = call.row_ctr
  PROVE  RowsInv'
  <1> SUFFICES ASSUME Writing' PROVE RowsInv'
    BY Zenon DEF RowsInv
  <1>1. Writing /\ global_state' = global_state
    BY Zenon DEF Writing
  <1>2. /\ J' = J /\ MaxV' = MaxV /\ context_rows' = context_rows
        /\ total_iMCU_rows' = total_iMCU_rows
    BY ImageKept, Zenon
  <1>3. Taken' = Taken /\ ~MainPass'
    BY <1>1, <1>2, Zenon DEF Taken, MainPass
  <1>4. MainTyped(main)' = MainTyped(main) /\ PrepTyped(prep)' = PrepTyped(prep)
    BY <1>2, Zenon DEF MainTyped, PrepTyped
  <1>5. QED
    BY <1>1, <1>2, <1>3, <1>4, Zenon DEF RowsInv

(* Small, but for the restart marker.                                       *)
LEMMA SmallFrame ==
  ASSUME IInv, Small, [Next]_vars,
         entropy'.next_restart_num \in 0 .. 7,
         (Writing /\ Between => coef.iMCU_row_num \in 0 .. total_iMCU_rows)'
  PROVE  Small'
  <1>1. global_state' \in {"START", "SCANNING", "RAW_OK", "WRCOEFS", "DONE", "ERROR"}
    <2>1. CASE Library
      BY <2>1 DEF Library, Small, Preprocess, LinesDone, CompressData, EncodeMCU, SuspendMCU,
                  RowCompressed, FinishPass, NextPass, Trailer
    <2>2. CASE Application
      BY <2>2 DEF Application, Small, NextJob, WriteTables, StartCompress, ReadCoefficients,
                  CopyCriticalParameters, WriteCoefficients, WriteMarker, WriteScanlines,
                  WriteRawData, FinishCompress, Start
    <2>3. CASE UNCHANGED vars
      BY <2>3 DEF vars, Small
    <2>4. QED
      BY <2>1, <2>2, <2>3, Zenon DEF Next
  <1>2. \/ tables' = tables \/ \E S : Emit(S) \/ tables' = Suppressed(tables, FALSE)
        \/ tables' = Optimal
        \/ \E t : tables' = [s \in Slots |-> [version |-> t[s], sent |-> FALSE]]
    <2>0. ASSUME NEW a, NEW b, NEW c,
                 tables' = [s \in Slots |-> [version |-> IF s[1] = a THEN b ELSE c, sent |-> FALSE]]
          PROVE  \E t : tables' = [s \in Slots |-> [version |-> t[s], sent |-> FALSE]]
      <3> DEFINE t == [s \in Slots |-> IF s[1] = a THEN b ELSE c]
      <3>1. tables' = [s \in Slots |-> [version |-> t[s], sent |-> FALSE]]
        BY <2>0
      <3> HIDE DEF t
      <3>2. QED
        BY <3>1, Zenon
    <2>1. CASE Library
      <3>1. CASE NextPass
        BY <3>1, Zenon DEF NextPass, Headers
      <3>2. CASE FinishPass
        BY <3>2, Zenon DEF FinishPass
      <3>3. QED
        BY <2>1, <3>1, <3>2, Zenon DEF Library, Preprocess, LinesDone, CompressData, EncodeMCU,
           SuspendMCU, RowCompressed, Trailer, written
    <2>2. CASE Application
      <3>1. CASE NextJob
        <4>1. CASE jobs[job'].defaults
          <5>1. tables' = [s \in Slots |-> [version |-> <<job', 0, 0>>, sent |-> FALSE]]
            BY <3>1, <4>1, Zenon DEF NextJob
          <5>2. tables' = [s \in Slots |-> [version |-> IF s[1] = "q" THEN <<job', 0, 0>>
                                                        ELSE <<job', 0, 0>>, sent |-> FALSE]]
            BY <5>1
          <5>3. QED
            BY <2>0, <5>2, Zenon
        <4>2. CASE ~jobs[job'].defaults
          BY <3>1, <4>2, Zenon DEF NextJob
        <4>3. QED
          BY <4>1, <4>2
      <3>2. CASE WriteTables
        BY <3>2, Zenon DEF WriteTables
      <3>3. CASE StartCompress
        BY <3>3, Zenon DEF StartCompress
      <3>4. CASE CopyCriticalParameters
        BY <2>0, <3>4, Zenon DEF CopyCriticalParameters
      <3>5. CASE WriteCoefficients
        BY <3>5, Zenon DEF WriteCoefficients
      <3>6. CASE WriteScanlines \/ WriteRawData
        BY <3>6, Zenon DEF WriteScanlines, WriteRawData, PassStartup, Headers
      <3>7. QED
        BY <2>2, <3>1, <3>2, <3>3, <3>4, <3>5, <3>6, Zenon
        DEF Application, ReadCoefficients, WriteMarker, FinishCompress
    <2>3. CASE UNCHANGED vars
      BY <2>3 DEF vars
    <2>4. QED
      BY <2>1, <2>2, <2>3, Zenon DEF Next
  <1>3. ASSUME NEW s \in Slots PROVE tables'[s].sent \in BOOLEAN
    <2>1. tables[s].sent \in BOOLEAN /\ DOMAIN tables[s] = {"version", "sent"}
      BY Zenon DEF Small, IInv, Shape, TablesOK
    <2>2. ASSUME NEW S, Emit(S) PROVE tables'[s].sent \in BOOLEAN
      <3>1. tables'[s] = IF s \in S THEN [tables[s] EXCEPT !.sent = TRUE] ELSE tables[s]
        BY <2>2, Zenon DEF Emit
      <3>2. CASE s \in S
        <4>1. tables'[s] = [tables[s] EXCEPT !.sent = TRUE]
          BY <3>1, <3>2, Zenon
        <4>2. QED
          BY <2>1, <4>1
      <3>3. CASE s \notin S
        BY <2>1, <3>1, <3>3, Zenon
      <3>4. QED
        BY <3>2, <3>3
    <2>3. ASSUME tables' = Suppressed(tables, FALSE) PROVE tables'[s].sent \in BOOLEAN
      <3>1. tables'[s] = [tables[s] EXCEPT !.sent = FALSE]
        BY <2>3, Zenon DEF Suppressed
      <3>2. QED
        BY <2>1, <3>1
    <2>4. ASSUME tables' = Optimal PROVE tables'[s].sent \in BOOLEAN
      <3>1. tables'[s] = IF s \in Uses(Scan)
                         THEN [version |-> <<job, master.scan, entropy.counted>>, sent |-> FALSE]
                         ELSE tables[s]
        BY <2>4, Zenon DEF Optimal
      <3>2. CASE s \in Uses(Scan)
        <4>1. tables'[s] = [version |-> <<job, master.scan, entropy.counted>>, sent |-> FALSE]
          BY <3>1, <3>2, Zenon
        <4>2. QED
          BY <4>1
      <3>3. CASE s \notin Uses(Scan)
        BY <2>1, <3>1, <3>3, Zenon
      <3>4. QED
        BY <3>2, <3>3
    <2>5. ASSUME NEW t, tables' = [r \in Slots |-> [version |-> t[r], sent |-> FALSE]]
          PROVE  tables'[s].sent \in BOOLEAN
      BY <2>5
    <2>6. QED
      BY <1>2, <2>1, <2>2, <2>3, <2>4, <2>5, Zenon
  <1>4. QED
    BY <1>1, <1>3, Zenon DEF Small
-----------------------------------------------------------------------------
(* Steps of the library.                                                    *)
LEMMA Running ==
  ASSUME IInv, CallInv, call.at \notin {"none", "passes"}
  PROVE  Writing /\ ~Between /\ ~Startup /\ call # NoCall /\ call.op \in {"lines", "raw", "finish"}
  <1>1. call # NoCall /\ call.op \in {"lines", "raw", "finish"}
    BY DEF CallInv, CallTyped
  <1>2. Writing
    BY <1>1, Zenon DEF IInv, Calls
  <1>3. master.scan > 0
    BY <1>1, <1>2 DEF IInv, ScanSelected
  <1>4. ~Between
    BY <1>3 DEF Between
  <1>5. ~Startup
    BY <1>1, <1>2, Zenon DEF CallInv
  <1>6. QED
    BY <1>1, <1>2, <1>4, <1>5

LEMMA LinesDoneCourse == ASSUME IInv, Course, Marker, LinesDone PROVE Course' /\ Marker'
  <1>1. /\ jobs' = jobs /\ job' = job /\ global_state' = global_state
        /\ call.at = "prep" /\ call' = NoCall
        /\ master' = master /\ prep' = prep /\ main' = main /\ coef' = coef /\ entropy' = entropy
        /\ file' = file /\ next_scanline' = next_scanline + call.row_ctr
    BY Zenon DEF LinesDone, others, engine, written
  <1>2. main.cur_iMCU_row = total_iMCU_rows \/ (main.rowgroup_ctr < DCTSIZE /\ ~MoreRows)
    BY DEF LinesDone
  <1>3. /\ Writing /\ ~Between /\ ~Startup /\ call # NoCall /\ call.op = "lines"
        /\ global_state = "SCANNING" /\ MainPass
    BY <1>1, Running DEF Course, CallInv, CallTyped, MainPass
  <1>4. Writing' = Writing
    BY <1>1, Zenon DEF Writing
  <1>5. call'.at = "none" /\ call'.op = "none" /\ call'.row_ctr = 0 /\ CallTyped(call')
    BY <1>1 DEF NoCall, CallTyped
  <1>6. Between' = Between /\ Startup' = Startup
    BY <1>1, <1>5 DEF Between, Startup
  <1>7. PassInv'
    BY <1>1, <1>6, PassFrame, Zenon DEF Course, IInv
  <1>8. CountInv'
    <2>1. call.at # "mcu" /\ call'.at # "mcu" /\ call'.at # "compress" /\ call'.at # "finish_pass"
      BY <1>1, <1>5
    <2>2. QED
      BY <1>1, <1>4, <1>6, <2>1, CountFrame, Zenon DEF Course
  <1>9. MarksInv'
    BY <1>1, <1>4, MarksFrame, Zenon DEF Course
  <1>10. MainPass'
    BY <1>1, <1>3, <1>5 DEF MainPass
  <1>11. CallInv'
    <2>1. master'.pass_type = "main"
      BY <1>1, <1>3, Zenon DEF Course, CallInv
    <2>2. (call = NoCall <=> call.at = "none")'
      BY <1>1, <1>5 DEF NoCall
    <2>3. QED
      BY <1>1, <1>3, <1>5, <1>6, <2>1, <2>2 DEF CallInv
  <1>12. /\ J' = J /\ MaxV' = MaxV /\ context_rows' = context_rows
         /\ total_iMCU_rows' = total_iMCU_rows
    BY <1>1, ImageKept, Zenon
  <1>13. Taken' = Taken /\ Groups' = Groups
    BY <1>1, <1>12, Zenon DEF Taken, Groups
  <1>14. MainTyped(main)' = MainTyped(main) /\ PrepTyped(prep)' = PrepTyped(prep)
    BY <1>1, <1>12, Zenon DEF MainTyped, PrepTyped
  <1> DEFINE susp == IF main.suspended THEN 1 ELSE 0
  <1>15. /\ next_scanline \in Nat /\ call.row_ctr \in Nat /\ Taken \in Int
         /\ next_scanline + call.row_ctr + susp = Taken
         /\ MainTyped(main) /\ PrepTyped(prep) /\ J.height \in Nat
    BY <1>3, HeightPositive DEF Course, RowsInv, CallInv, CallTyped, IInv, Taken, PrepTyped
  <1>16. next_scanline' \in Nat /\ next_scanline' + call'.row_ctr + susp' = Taken'
    BY <1>1, <1>5, <1>13, <1>15
  <1>17. main.rowgroup_ctr # DCTSIZE
    BY <1>2, <1>3, <1>15, SizeAssumption DEF Course, RowsInv, MainTyped
  <1>18. ASSUME next_scanline' >= J.height PROVE main.cur_iMCU_row = total_iMCU_rows
    <2>1. prep.rows_to_go = 0
      BY <1>1, <1>15, <1>18 DEF Taken, PrepTyped
    <2>2. CASE context_rows
      BY <1>2, <2>1, <2>2 DEF MoreRows
    <2>3. CASE ~context_rows
      BY <1>3, <1>17, <2>1, <2>3 DEF Course, RowsInv
    <2>4. QED
      BY <2>2, <2>3
  <1>19. RowsInv'
    <2>1. (main.suspended => main.rowgroup_ctr = DCTSIZE /\ call.row_ctr = 0)'
      BY <1>1, <1>3, <1>5, Zenon DEF Course, RowsInv
    <2>2. (global_state # "RAW_OK")' /\ global_state' = "SCANNING" /\ global_state # "RAW_OK"
      BY <1>1, <1>3
    <2>3. call'.op # "lines" /\ call'.at # "mcu"
      BY <1>5
    <2>4. /\ main.cur_iMCU_row <= total_iMCU_rows
          /\ prep.rows_to_go > 0 => main.cur_iMCU_row < total_iMCU_rows
          /\ prep.next_buf_row <= 3 * MaxV
          /\ coef.iMCU_row_num = main.cur_iMCU_row
          /\ IF context_rows
             THEN /\ prep.next_buf_stop \in {MaxV, 2 * MaxV, 3 * MaxV}
                  /\ prep.next_buf_row < prep.next_buf_stop
                  /\ prep.next_buf_row + 2 * MaxV >= prep.next_buf_stop
                  /\ prep.rows_to_go > 0 =>
                       Taken = (Groups + 2) * MaxV + prep.next_buf_row - prep.next_buf_stop
             ELSE /\ prep.next_buf_row < MaxV
                  /\ prep.rows_to_go > 0 => Taken = Groups * MaxV + prep.next_buf_row
                  /\ prep.rows_to_go = 0 =>
                       IF main.cur_iMCU_row = total_iMCU_rows THEN TRUE
                       ELSE main.cur_iMCU_row + 1 = total_iMCU_rows /\ main.rowgroup_ctr = DCTSIZE
      BY <1>3, Zenon DEF Course, RowsInv
    <2>5. next_scanline' + call'.row_ctr + (IF main'.suspended THEN 1 ELSE 0) = Taken'
      BY <1>16
    <2> HIDE DEF susp
    <2>6. QED
      BY <1>1, <1>12, <1>13, <1>14, <1>15, <1>16, <1>17, <1>18, <2>1, <2>2, <2>3, <2>4, <2>5, Zenon
      DEF RowsInv
  <1>20. Marker'
    BY <1>1, <1>4, Zenon DEF Marker
  <1>21. QED
    BY <1>7, <1>8, <1>9, <1>11, <1>19, <1>20 DEF Course

(* compress_data is called.                                                 *)
LEMMA CompressDataCourse == ASSUME IInv, Course, Marker, CompressData PROVE Course' /\ Marker'
  <1>1. /\ jobs' = jobs /\ job' = job /\ global_state' = global_state
        /\ call' = [call EXCEPT !.at = "mcu", !.y = coef.MCU_vert_offset, !.x = coef.mcu_ctr]
        /\ coef' = IF coef.mode = "SAVE_AND_PASS" THEN [coef EXCEPT !.whole = Stored] ELSE coef
        /\ master' = master /\ prep' = prep /\ main' = main /\ entropy' = entropy
        /\ file' = file /\ next_scanline' = next_scanline
    BY Zenon DEF CompressData, others, written
  <1>2. \/ call.at = "prep" /\ main.cur_iMCU_row < total_iMCU_rows /\ main.rowgroup_ctr = DCTSIZE
        \/ call.at = "compress"
    BY DEF CompressData
  <1>3. Writing /\ ~Between /\ ~Startup /\ call # NoCall /\ call.op \in {"lines", "raw", "finish"}
    BY <1>2, Running DEF Course
  <1>4. Writing' = Writing
    BY <1>1, Zenon DEF Writing
  <1>5. CoefTyped(coef)
    BY <1>3, Zenon DEF Course, CountInv
  <1>6. /\ call'.at = "mcu" /\ call'.op = call.op /\ call'.row_ctr = call.row_ctr
        /\ call'.lines = call.lines /\ call'.y = coef.MCU_vert_offset /\ call'.x = coef.mcu_ctr
        /\ CallTyped(call')
    BY <1>1, <1>2, <1>5 DEF Course, CallInv, CallTyped, CoefTyped
  <1>7. /\ CoefTyped(coef') /\ coef'.iMCU_row_num = coef.iMCU_row_num
        /\ coef'.MCU_vert_offset = coef.MCU_vert_offset /\ coef'.mcu_ctr = coef.mcu_ctr
    <2>1. CASE coef.mode = "SAVE_AND_PASS"
      <3>1. \E w : coef' = [coef EXCEPT !.whole = w]
        BY <1>1, <2>1, Zenon
      <3>2. QED
        BY <1>5, <3>1 DEF CoefTyped
    <2>2. CASE coef.mode # "SAVE_AND_PASS"
      BY <1>1, <1>5, <2>2, Zenon
    <2>3. QED
      BY <2>1, <2>2
  <1>8. Between' = Between /\ Startup' = Startup /\ call' # NoCall
    BY <1>1, <1>2, <1>6 DEF Between, Startup, NoCall
  <1>9. PassInv'
    BY <1>1, <1>8, PassFrame, Zenon DEF Course, IInv
  <1>10. coef.iMCU_row_num < total_iMCU_rows
    <2>1. CASE call.at = "compress"
      BY <1>3, <2>1, Zenon DEF Course, CountInv
    <2>2. CASE call.at = "prep"
      <3>1. call.op = "lines"
        BY <2>2 DEF Course, CallInv, CallTyped
      <3>2. global_state = "SCANNING" /\ MainPass
        BY <1>3, <3>1 DEF Course, CallInv, MainPass
      <3>3. coef.iMCU_row_num = main.cur_iMCU_row
        BY <1>3, <3>2, Zenon DEF Course, RowsInv
      <3>4. QED
        BY <1>2, <2>2, <3>3
    <2>3. QED
      BY <1>2, <2>1, <2>2
  <1>11. CountInv'
    <2>1. total_iMCU_rows' = total_iMCU_rows
      BY <1>1, ImageKept, Zenon
    <2>2. /\ MCUs_per_row' = MCUs_per_row /\ MCURows' = MCURows /\ Count(Scan)' = Count(Scan)
          /\ MCU_rows_per_iMCU_row' = MCU_rows_per_iMCU_row
      BY <1>1, <1>7, ScanKept, Zenon
    <2>3. call.at # "mcu" /\ call'.at # "finish_pass"
      BY <1>2, <1>6
    <2>4. QED
      BY <1>1, <1>3, <1>6, <1>7, <1>10, <2>1, <2>2, <2>3, Zenon DEF CountInv, Course
  <1>12. MarksInv'
    BY <1>1, <1>4, MarksFrame, Zenon DEF Course
  <1>13. CallInv'
    <2>1. MainPass' = MainPass
      BY <1>1, <1>6, Zenon DEF MainPass
    <2>2. call'.at # "none" /\ ~Startup'
      BY <1>3, <1>6, <1>8
    <2>3. QED
      BY <1>1, <1>3, <1>4, <1>6, <1>8, <2>1, <2>2, Zenon DEF CallInv, Course
  <1>14. RowsInv'
    <2>1. call'.at # "mcu" \/ main.rowgroup_ctr = DCTSIZE \/ ~(global_state = "SCANNING" /\ MainPass)
      <3>1. CASE call.at = "compress"
        <4>1. call.op = "raw" \/ call.op = "finish"
          BY <3>1 DEF Course, CallInv, CallTyped
        <4>2. QED
          BY <1>3, <4>1 DEF Course, CallInv, MainPass
      <3>2. QED
        BY <1>2, <3>1
    <2>2. (call' = NoCall) = (call = NoCall)
      <3>1. NoCall' = NoCall
        BY Zenon DEF NoCall
      <3>2. QED
        BY <1>3, <1>8, <3>1
    <2>3. QED
      BY <1>1, <1>6, <1>7, <2>1, <2>2, RowsFrame, Zenon DEF Course
  <1>15. Marker'
    BY <1>1, <1>4, Zenon DEF Marker
  <1>16. QED
    BY <1>9, <1>11, <1>12, <1>13, <1>14, <1>15 DEF Course

LEMMA AppendIs ==
  ASSUME NEW s, IsSequence(s), NEW e
  PROVE  IsSequence(Append(s, e)) /\ Len(Append(s, e)) = Len(s) + 1
  <1> DEFINE R == {s[n] : n \in DOMAIN s}
             t == Append(s, e)
             U == R \cup {e}
             Q == {t[n] : n \in DOMAIN t}
  <1>1. s \in Seq(R)
    BY DEF IsSequence
  <1> HIDE DEF R
  <1>2. s \in Seq(U) /\ e \in U
    BY <1>1
  <1> HIDE DEF U
  <1>3. t \in Seq(U) /\ Len(t) = Len(s) + 1 /\ DOMAIN t = 1 .. Len(t) /\ Len(t) \in Nat
    BY <1>2
  <1>4. \A n \in 1 .. Len(t) : t[n] \in Q
    BY <1>3
  <1> HIDE DEF Q, t
  <1>5. t \in Seq(Q)
    BY <1>3, <1>4
  <1>6. QED
    BY <1>3, <1>5 DEF IsSequence, Q, t

(* One more MCU; its place follows from the number of those before it.      *)
LEMMA NextPlace ==
  ASSUME NEW i \in Nat, NEW r \in Nat, NEW p \in Nat \ {0}, NEW y \in Nat, NEW x \in Nat,
         x + 1 = p
  PROVE  (i * r + y) * p + x + 1 = (i * r + (y + 1)) * p + 0
  <1> DEFINE k == i * r + y
  <1>1. k \in Nat /\ i * r + (y + 1) = k + 1
    OBVIOUS
  <1> HIDE DEF k
  <1>2. (k + 1) * p = k * p + p /\ k * p \in Nat
    BY <1>1
  <1>3. QED
    BY <1>1, <1>2 DEF k

LEMMA EncodeMCUCourse == ASSUME IInv, IInv', Course, Marker, EncodeMCU PROVE Course' /\ Marker'
  <1> DEFINE ends == call.x + 1 = MCUs_per_row
  <1>1. /\ jobs' = jobs /\ job' = job /\ global_state' = global_state
        /\ call.at = "mcu" /\ call.y < MCU_rows_per_iMCU_row
        /\ entropy' = [Restarted(entropy) EXCEPT !.counted = @ + 1]
        /\ call' = [call EXCEPT !.x = IF ends THEN 0 ELSE @ + 1, !.y = IF ends THEN @ + 1 ELSE @,
                                !.room = IF entropy.gather \/ @ < 0 THEN @ ELSE @ - 1]
        /\ coef' = IF ends THEN [coef EXCEPT !.mcu_ctr = 0] ELSE coef
        /\ master' = master /\ prep' = prep /\ main' = main /\ next_scanline' = next_scanline
    BY Zenon DEF EncodeMCU, MCUStep, others
  <1>2. IF entropy.gather THEN file' = file
        ELSE \E e : file' = [file EXCEPT !.mcus = Append(@, e)]
    BY Zenon DEF EncodeMCU
  <1>3. Writing /\ ~Between /\ ~Startup /\ call # NoCall /\ call.op \in {"lines", "raw", "finish"}
    BY <1>1, Running DEF Course
  <1>4. Writing' = Writing
    BY <1>1, Zenon DEF Writing
  <1>5. /\ ~entropy.gather => IsSequence(file.mcus) /\ Len(file.mcus) = entropy.counted
        /\ CoefTyped(coef) /\ entropy.counted \in Nat
        /\ coef.iMCU_row_num < total_iMCU_rows /\ coef.iMCU_row_num <= total_iMCU_rows
        /\ entropy.counted = (coef.iMCU_row_num * MCURows + call.y) * MCUs_per_row + call.x
        /\ \/ call.y < MCU_rows_per_iMCU_row /\ call.x < MCUs_per_row
           \/ call.y = MCU_rows_per_iMCU_row /\ call.x = 0
    BY <1>1, <1>3, Zenon DEF Course, CountInv
  <1>6. /\ entropy'.gather = entropy.gather /\ entropy'.counted = entropy.counted + 1
        /\ entropy'.next_restart_num \in 0 .. 7
    <2>1. EntropyOK(entropy) /\ entropy.next_restart_num \in 0 .. 7
      BY <1>3, Zenon DEF IInv, Shape, Marker
    <2>2. /\ DOMAIN Restarted(entropy) = DOMAIN entropy
          /\ Restarted(entropy).gather = entropy.gather
          /\ Restarted(entropy).counted = entropy.counted
          /\ Restarted(entropy).next_restart_num \in 0 .. 7
      <3>1. CASE restart_interval = 0
        BY <2>1, <3>1, Zenon DEF Restarted
      <3>2. CASE restart_interval # 0 /\ entropy.restarts_to_go # 0
        <4>1. Restarted(entropy) = [entropy EXCEPT !.restarts_to_go = @ - 1]
          BY <3>2, Zenon DEF Restarted
        <4>2. QED
          BY <2>1, <4>1 DEF EntropyOK
      <3>3. CASE restart_interval # 0 /\ entropy.restarts_to_go = 0
        <4> DEFINE n == IF entropy.gather THEN entropy.next_restart_num
                        ELSE (entropy.next_restart_num + 1) % 8
        <4>1. Restarted(entropy) = [entropy EXCEPT !.restarts_to_go = restart_interval - 1,
                                                   !.next_restart_num = n]
          BY <3>3, Zenon DEF Restarted
        <4>2. n \in 0 .. 7
          BY <2>1
        <4> HIDE DEF n
        <4>3. QED
          BY <2>1, <4>1, <4>2 DEF EntropyOK
      <3>4. QED
        BY <3>1, <3>2, <3>3
    <2> HIDE DEF Restarted
    <2>3. QED
      BY <1>1, <2>1, <2>2 DEF EntropyOK
  <1>7. /\ MCUs_per_row \in Nat \ {0} /\ MCURows \in Nat \ {0}
        /\ MCU_rows_per_iMCU_row \in Nat \ {0}
    BY <1>3, <1>5, InPass DEF Course, IInv, CoefTyped
  <1>8. call.x \in Nat /\ call.y \in Nat /\ call.x < MCUs_per_row
    BY <1>1, <1>5, <1>7 DEF Course, CallInv, CallTyped
  <1>9. /\ call'.at = "mcu" /\ call'.op = call.op /\ call'.lines = call.lines
        /\ call'.row_ctr = call.row_ctr /\ call'.y = (IF ends THEN call.y + 1 ELSE call.y)
        /\ call'.x = (IF ends THEN 0 ELSE call.x + 1) /\ CallTyped(call')
    <2> DEFINE x == IF ends THEN 0 ELSE call.x + 1
               y == IF ends THEN call.y + 1 ELSE call.y
               room == IF entropy.gather \/ call.room < 0 THEN call.room ELSE call.room - 1
    <2>1. CallTyped(call) /\ x \in Nat /\ y \in Nat
      BY <1>8 DEF Course, CallInv
    <2>2. call' = [call EXCEPT !.x = x, !.y = y, !.room = room]
      BY <1>1
    <2> HIDE DEF x, y, room
    <2>3. /\ call'.at = "mcu" /\ call'.op = call.op /\ call'.lines = call.lines
          /\ call'.row_ctr = call.row_ctr /\ call'.y = y /\ call'.x = x /\ CallTyped(call')
      BY <1>1, <2>1, <2>2 DEF CallTyped
    <2>4. QED
      BY <2>3 DEF x, y
  <1>10. /\ CoefTyped(coef') /\ coef'.iMCU_row_num = coef.iMCU_row_num
    <2> HIDE DEF ends
    <2>1. CASE ends
      BY <1>1, <1>5, <2>1 DEF CoefTyped
    <2>2. CASE ~ends
      BY <1>1, <1>5, <2>2
    <2>3. QED
      BY <2>1, <2>2
  <1>11. Between' = Between /\ Startup' = Startup /\ call' # NoCall
    BY <1>1, <1>9 DEF Between, Startup, NoCall
  <1>12. /\ file'.scan = file.scan /\ file'.marks = file.marks
         /\ ~entropy.gather => IsSequence(file'.mcus) /\ Len(file'.mcus) = Len(file.mcus) + 1
         /\ entropy.gather => file'.mcus = file.mcus
    <2>1. CASE entropy.gather
      BY <1>2, <1>5, <2>1, Zenon
    <2>2. CASE ~entropy.gather
      <3>1. PICK e : file' = [file EXCEPT !.mcus = Append(file.mcus, e)]
        BY <1>2, <2>2, Zenon
      <3>2. FileOK(file)
        BY DEF IInv, Shape
      <3>3. /\ file'.mcus = Append(file.mcus, e) /\ file'.scan = file.scan
            /\ file'.marks = file.marks
        BY <3>1, <3>2 DEF FileOK
      <3>4. IsSequence(Append(file.mcus, e)) /\ Len(Append(file.mcus, e)) = Len(file.mcus) + 1
        BY <1>5, <2>2, AppendIs
      <3>5. QED
        BY <2>2, <3>3, <3>4
    <2>3. QED
      BY <2>1, <2>2
  <1>13. PassInv'
    <2>1. ~entropy.gather => file.scan = master.scan
      BY <1>3, Zenon DEF Course, PassInv
    <2>2. QED
      BY <1>1, <1>3, <1>6, <1>11, <1>12, <2>1, PassFrame, Zenon DEF Course, IInv
  <1>14. MarksInv'
    BY <1>4, <1>12, MarksFrame, Zenon DEF Course
  <1>15. CallInv'
    <2>1. MainPass' = MainPass
      BY <1>1, <1>9, Zenon DEF MainPass
    <2>2. call'.at # "none" /\ ~Startup'
      BY <1>3, <1>9, <1>11
    <2>3. QED
      BY <1>1, <1>3, <1>4, <1>9, <1>11, <2>1, <2>2, Zenon DEF CallInv, Course
  <1>16. RowsInv'
    <2>1. (call' = NoCall) = (call = NoCall)
      <3>1. NoCall' = NoCall
        BY Zenon DEF NoCall
      <3>2. QED
        BY <1>3, <1>11, <3>1
    <2>2. QED
      BY <1>1, <1>9, <1>10, <2>1, RowsFrame, Zenon DEF Course
  <1>17. CountInv'
    <2>1. total_iMCU_rows' = total_iMCU_rows
      BY <1>1, ImageKept, Zenon
    <2>2. /\ MCUs_per_row' = MCUs_per_row /\ MCURows' = MCURows /\ Count(Scan)' = Count(Scan)
          /\ MCU_rows_per_iMCU_row' = MCU_rows_per_iMCU_row
      BY <1>1, <1>10, ScanKept, Zenon
    <2>3. /\ entropy.counted + 1 =
               (coef.iMCU_row_num * MCURows + call'.y) * MCUs_per_row + call'.x
          /\ \/ call'.y < MCU_rows_per_iMCU_row /\ call'.x < MCUs_per_row
             \/ call'.y = MCU_rows_per_iMCU_row /\ call'.x = 0
      <3>1. CASE ends
        <4>1. (coef.iMCU_row_num * MCURows + call.y) * MCUs_per_row + call.x + 1 =
              (coef.iMCU_row_num * MCURows + (call.y + 1)) * MCUs_per_row + 0
          <5> DEFINE i == coef.iMCU_row_num
                     y == call.y
                     x == call.x
          <5>1. /\ i \in Nat /\ MCURows \in Nat /\ MCUs_per_row \in Nat \ {0} /\ y \in Nat
                /\ x \in Nat /\ x + 1 = MCUs_per_row
            BY <1>5, <1>7, <1>8, <3>1 DEF CoefTyped
          <5> HIDE DEF i, y, x
          <5>2. (i * MCURows + y) * MCUs_per_row + x + 1 =
                (i * MCURows + (y + 1)) * MCUs_per_row + 0
            BY <5>1, NextPlace
          <5>3. QED
            BY <5>2 DEF i, y, x
        <4>2. QED
          BY <1>1, <1>5, <1>7, <1>8, <1>9, <3>1, <4>1
      <3>2. CASE ~ends
        <4> DEFINE k == (coef.iMCU_row_num * MCURows + call.y) * MCUs_per_row
        <4>1. k \in Nat
          <5>1. coef.iMCU_row_num * MCURows + call.y \in Nat /\ MCUs_per_row \in Nat
            BY <1>5, <1>7, <1>8 DEF CoefTyped
          <5>2. QED
            BY <5>1
        <4>2. entropy.counted = k + call.x
          BY <1>5
        <4>3. call'.y = call.y /\ call'.x = call.x + 1
          BY <1>9, <3>2
        <4>4. (coef.iMCU_row_num * MCURows + call'.y) * MCUs_per_row = k
          BY <4>3
        <4> HIDE DEF k
        <4>5. QED
          BY <1>1, <1>7, <1>8, <3>2, <4>1, <4>2, <4>3, <4>4
      <3>3. QED
        BY <3>1, <3>2
    <2>4. entropy.counted + 1 \in Nat /\ coef.iMCU_row_num # total_iMCU_rows
      BY <1>5, <1>7, InPass, <1>3 DEF Course, IInv, CoefTyped
    <2>5. ~entropy.gather => IsSequence(file'.mcus) /\ Len(file'.mcus) = entropy'.counted
      BY <1>5, <1>6, <1>12
    <2> HIDE DEF ends
    <2>6. QED
      BY <1>5, <1>6, <1>9, <1>10, <1>12, <2>1, <2>2, <2>3, <2>4, <2>5 DEF CountInv
  <1>18. Marker'
    BY <1>6 DEF Marker
  <1>19. QED
    BY <1>13, <1>14, <1>15, <1>16, <1>17, <1>18 DEF Course

(* No call goes on; what was called had the lines of the application.       *)
LEMMA ReturnCall ==
  ASSUME CallInv, Writing, MainPass, ~Startup, call' = NoCall, global_state' = global_state,
         master' = master
  PROVE  CallInv' /\ MainPass' /\ ~Startup' /\ (~Between => ~Between')
  <1>1. /\ (call = NoCall)' /\ call'.at = "none" /\ call'.op = "none" /\ CallTyped(call')
    BY NoCallIs, Zenon
  <1>2. MainPass' /\ ~Startup' /\ (~Between => ~Between')
    BY <1>1 DEF MainPass, Startup, Between
  <1>3. (MainPass => master.pass_type = "main")'
    BY Zenon DEF CallInv
  <1>4. call'.op # "lines" /\ call'.op # "raw" /\ global_state' # "WRCOEFS"
    BY <1>1 DEF MainPass
  <1>5. CallInv'
    BY <1>1, <1>2, <1>3, <1>4, Zenon DEF CallInv
  <1>6. QED
    BY <1>2, <1>5

(* The rows of jpeg_write_raw_data: nothing but the count of iMCU rows.     *)
LEMMA RowsRaw ==
  ASSUME RowsInv, Writing, jobs' = jobs, job' = job, global_state' = global_state,
         global_state = "RAW_OK", MainTyped(main'), main'.cur_iMCU_row = main.cur_iMCU_row,
         prep' = prep, next_scanline' \in Nat,
         next_scanline' <= J.height + MaxV * DCTSIZE - 1,
         MainPass' => next_scanline' = coef'.iMCU_row_num * (MaxV * DCTSIZE)
  PROVE  RowsInv'
  <1>1. /\ J' = J /\ MaxV' = MaxV /\ total_iMCU_rows' = total_iMCU_rows
    BY ImageKept, Zenon
  <1>2. MainTyped(main)' = MainTyped(main') /\ PrepTyped(prep)' = PrepTyped(prep)
    BY <1>1, Zenon DEF MainTyped, PrepTyped
  <1>3. global_state' # "SCANNING"
    OBVIOUS
  <1>4. QED
    BY <1>1, <1>2, <1>3, Zenon DEF RowsInv

(* encode_mcu fails for lack of room: the MCU is coded by the next call.    *)
LEMMA SuspendMCUCourse == ASSUME IInv, IInv', Course, Marker, SuspendMCU PROVE Course' /\ Marker'
  <1>1. /\ jobs' = jobs /\ job' = job
        /\ global_state' = IF call.op = "finish" THEN "ERROR" ELSE global_state
        /\ call.at = "mcu" /\ call.y < MCU_rows_per_iMCU_row /\ ~entropy.gather
        /\ coef' = [coef EXCEPT !.MCU_vert_offset = call.y, !.mcu_ctr = call.x]
        /\ main' = IF call.op = "lines" THEN [main EXCEPT !.suspended = TRUE] ELSE main
        /\ next_scanline' = IF call.op = "lines" THEN next_scanline + RowsTaken ELSE next_scanline
        /\ call' = NoCall
        /\ master' = master /\ prep' = prep /\ entropy' = entropy /\ file' = file
    BY Zenon DEF SuspendMCU, SuspendedAt, MCUStep, others, written
  <1>2. Writing /\ ~Between /\ ~Startup /\ call # NoCall /\ call.op \in {"lines", "raw", "finish"}
    BY <1>1, Running DEF Course
  <1>3. CASE call.op = "finish"
    <2>1. ~Writing'
      BY <1>1, <1>3 DEF Writing
    <2>2. QED
      BY <1>1, <2>1, NotWritingCourse, Zenon
  <1>4. CASE call.op # "finish"
    <2>1. global_state' = global_state /\ Writing' = Writing
      BY <1>1, <1>4, Zenon DEF Writing
    <2>2. MainPass /\ (call.op = "lines" => global_state = "SCANNING")
          /\ (call.op # "lines" => global_state = "RAW_OK")
      BY <1>2, <1>4 DEF Course, CallInv, MainPass
    <2>3. CallInv' /\ MainPass' /\ ~Startup' /\ ~Between'
      BY <1>1, <1>2, <2>1, <2>2, ReturnCall, Zenon DEF Course
    <2>4. Between' = Between /\ call'.at = "none" /\ call'.row_ctr = 0 /\ (call = NoCall)'
          /\ call'.op = "none"
      <3>1. call'.at = "none" /\ call'.row_ctr = 0 /\ (call = NoCall)' /\ call'.op = "none"
        BY <1>1, NoCallIs, Zenon
      <3>2. QED
        BY <1>1, <3>1 DEF Between
    <2>5. PassInv'
      BY <1>1, <2>1, <2>4, PassFrame, Zenon DEF Course, IInv
    <2>6. MarksInv'
      BY <1>1, <2>1, MarksFrame, Zenon DEF Course
    <2>7. /\ CoefTyped(coef) /\ entropy.counted \in Nat
          /\ coef.iMCU_row_num < total_iMCU_rows /\ coef.iMCU_row_num <= total_iMCU_rows
          /\ entropy.counted = (coef.iMCU_row_num * MCURows + call.y) * MCUs_per_row + call.x
          /\ \/ call.y < MCU_rows_per_iMCU_row /\ call.x < MCUs_per_row
             \/ call.y = MCU_rows_per_iMCU_row /\ call.x = 0
          /\ ~entropy.gather => IsSequence(file.mcus) /\ Len(file.mcus) = entropy.counted
      BY <1>1, <1>2, Zenon DEF Course, CountInv
    <2>8. /\ MCU_rows_per_iMCU_row \in Nat \ {0} /\ total_iMCU_rows \in Nat \ {0}
      BY <1>2, <2>7, InPass DEF Course, IInv, CoefTyped
    <2>9. call.x \in Nat /\ call.y \in Nat /\ call.x < MCUs_per_row
      BY <1>1, <2>7, <2>8 DEF Course, CallInv, CallTyped
    <2>10. /\ CoefTyped(coef') /\ coef'.iMCU_row_num = coef.iMCU_row_num
           /\ coef'.MCU_vert_offset = call.y /\ coef'.mcu_ctr = call.x
      BY <1>1, <2>7, <2>9 DEF CoefTyped
    <2>11. /\ MCUs_per_row' = MCUs_per_row /\ MCURows' = MCURows /\ Count(Scan)' = Count(Scan)
           /\ MCU_rows_per_iMCU_row' = MCU_rows_per_iMCU_row
           /\ total_iMCU_rows' = total_iMCU_rows
      BY <1>1, <2>10, ScanKept, ImageKept, Zenon
    <2>12. CountInv'
      <3>1. call'.at # "mcu" /\ call'.at \notin {"compress", "mcu"} /\ call'.at # "finish_pass"
            /\ coef.iMCU_row_num # total_iMCU_rows
        BY <2>4, <2>7, <2>8 DEF CoefTyped
      <3>2. QED
        BY <1>1, <2>7, <2>9, <2>10, <2>11, <3>1, Zenon DEF CountInv
    <2>13. CASE call.op = "raw"
      <3>1. /\ MainTyped(main) /\ next_scanline \in Nat
            /\ next_scanline <= J.height + MaxV * DCTSIZE - 1
            /\ next_scanline = coef.iMCU_row_num * (MaxV * DCTSIZE)
        BY <1>2, <2>2, <2>13, Zenon DEF Course, RowsInv
      <3>2. main' = main /\ next_scanline' = next_scanline /\ global_state = "RAW_OK"
        BY <1>1, <2>2, <2>13
      <3>3. RowsInv'
        BY <1>1, <1>2, <2>1, <2>10, <3>1, <3>2, RowsRaw, Zenon DEF Course
      <3>4. Marker'
        BY <1>1, <2>1, Zenon DEF Marker
      <3>5. QED
        BY <2>3, <2>5, <2>6, <2>12, <3>3, <3>4, Zenon DEF Course
    <2>14. CASE call.op = "lines"
      <3>1. /\ next_scanline \in Nat /\ MainTyped(main) /\ PrepTyped(prep)
            /\ main.cur_iMCU_row <= total_iMCU_rows
            /\ next_scanline + call.row_ctr + (IF main.suspended THEN 1 ELSE 0) = Taken
            /\ prep.rows_to_go > 0 => main.cur_iMCU_row < total_iMCU_rows
            /\ prep.next_buf_row <= 3 * MaxV
            /\ coef.iMCU_row_num = main.cur_iMCU_row
            /\ main.suspended => main.rowgroup_ctr = DCTSIZE /\ call.row_ctr = 0
            /\ main.rowgroup_ctr = DCTSIZE
            /\ main.rowgroup_ctr = DCTSIZE => main.cur_iMCU_row < total_iMCU_rows
            /\ main.rowgroup_ctr = DCTSIZE /\ ~main.suspended => call.row_ctr > 0
        BY <1>1, <1>2, <2>2, <2>14, Zenon DEF Course, RowsInv
      <3>2. IF context_rows
            THEN /\ prep.next_buf_stop \in {MaxV, 2 * MaxV, 3 * MaxV}
                 /\ prep.next_buf_row < prep.next_buf_stop
                 /\ prep.next_buf_row + 2 * MaxV >= prep.next_buf_stop
                 /\ prep.rows_to_go > 0 =>
                      Taken = (Groups + 2) * MaxV + prep.next_buf_row - prep.next_buf_stop
            ELSE /\ prep.next_buf_row < MaxV
                 /\ prep.rows_to_go > 0 => Taken = Groups * MaxV + prep.next_buf_row
                 /\ prep.rows_to_go = 0 =>
                      IF main.cur_iMCU_row = total_iMCU_rows THEN TRUE
                      ELSE main.cur_iMCU_row + 1 = total_iMCU_rows /\ main.rowgroup_ctr = DCTSIZE
        BY <1>2, <2>2, <2>14, Zenon DEF Course, RowsInv
      <3>3. /\ MainTyped(main') /\ main'.cur_iMCU_row = main.cur_iMCU_row
            /\ main'.rowgroup_ctr = main.rowgroup_ctr /\ main'.suspended
        BY <1>1, <2>14, <3>1 DEF MainTyped
      <3>4. Taken \in Int /\ Taken <= J.height /\ J.height \in Nat /\ call.row_ctr \in Nat
        BY <3>1, HeightPositive DEF Taken, PrepTyped, IInv, Course, CallInv, CallTyped
      <3>5. next_scanline' \in Nat /\ next_scanline' + 1 = Taken
        BY <1>1, <2>14, <3>1, <3>4 DEF RowsTaken, MainTyped
      <3>6. ~(next_scanline' >= J.height)
        <4>1. \A n \in Nat, t \in Int, k \in Nat : n + 1 = t /\ t <= k => ~(n >= k)
          OBVIOUS
        <4>2. QED
          BY <3>4, <3>5, <4>1, Zenon
      <3>7. next_scanline' + call'.row_ctr + (IF main'.suspended THEN 1 ELSE 0) = Taken
        <4>1. call'.row_ctr = 0 /\ main'.suspended
          BY <2>4, <3>3
        <4>2. \A n \in Nat : n + 0 + 1 = n + 1
          OBVIOUS
        <4>3. QED
          BY <3>5, <4>1, <4>2, Zenon
      <3>8. /\ J' = J /\ MaxV' = MaxV /\ context_rows' = context_rows
        BY <1>1, ImageKept, Zenon
      <3>9. Taken' = Taken /\ Groups' = Groups
        BY <1>1, <3>3, <3>8, Zenon DEF Taken, Groups
      <3>10. MainTyped(main)' = MainTyped(main') /\ PrepTyped(prep)' = PrepTyped(prep)
        BY <1>1, <3>8, Zenon DEF MainTyped, PrepTyped
      <3>11. global_state' # "RAW_OK" /\ global_state' = "SCANNING" /\ call'.op # "lines" /\ call'.at # "mcu"
        BY <2>1, <2>2, <2>4, <2>14
      <3>12. RowsInv'
        BY <1>1, <2>4, <2>10, <2>11, <3>1, <3>2, <3>3, <3>5, <3>6, <3>7, <3>8, <3>9, <3>10, <3>11, Zenon
        DEF RowsInv
      <3>13. Marker'
        BY <1>1, <2>1, Zenon DEF Marker
      <3>14. QED
        BY <2>3, <2>5, <2>6, <2>12, <3>12, <3>13, Zenon DEF Course
    <2>15. QED
      BY <1>2, <1>4, <2>13, <2>14
  <1>5. QED
    BY <1>3, <1>4

(* An iMCU row is coded: the count of its MCUs is that of the next one, or  *)
(* of the scan.                                                             *)
LEMMA RowCompressedCount ==
  ASSUME IInv, IInv', Course, RowCompressed, PassInv', Writing, Writing', ~Between, ~Between',
         call'.at # "mcu",
         call'.at = "compress" => coef.iMCU_row_num + 1 < total_iMCU_rows,
         call'.at = "finish_pass" => ~(coef.iMCU_row_num + 1 < total_iMCU_rows)
  PROVE  CountInv'
  <1>1. /\ jobs' = jobs /\ job' = job
        /\ call.at = "mcu" /\ call.y = MCU_rows_per_iMCU_row
        /\ coef' = [coef EXCEPT !.iMCU_row_num = @ + 1, !.mcu_ctr = 0, !.MCU_vert_offset = 0]
        /\ master' = master /\ entropy' = entropy /\ file' = file
    BY Zenon DEF RowCompressed, others, written
  <1>2. /\ ~entropy.gather => IsSequence(file.mcus) /\ Len(file.mcus) = entropy.counted
        /\ CoefTyped(coef) /\ entropy.counted \in Nat
        /\ coef.iMCU_row_num < total_iMCU_rows
        /\ entropy.counted = (coef.iMCU_row_num * MCURows + call.y) * MCUs_per_row + call.x
        /\ \/ call.y < MCU_rows_per_iMCU_row /\ call.x < MCUs_per_row
           \/ call.y = MCU_rows_per_iMCU_row /\ call.x = 0
    BY <1>1, Zenon DEF Course, CountInv
  <1>3. /\ MCUs_per_row \in Nat \ {0} /\ MCURows \in Nat \ {0} /\ total_iMCU_rows \in Nat \ {0}
        /\ MCU_rows_per_iMCU_row \in Nat \ {0}
        /\ coef.iMCU_row_num + 1 < total_iMCU_rows => MCU_rows_per_iMCU_row = MCURows
        /\ coef.iMCU_row_num + 1 = total_iMCU_rows =>
             (coef.iMCU_row_num * MCURows + MCU_rows_per_iMCU_row) * MCUs_per_row = Count(Scan)
    BY <1>2, InPass DEF Course, IInv, CoefTyped
  <1>4. /\ CoefTyped(coef') /\ coef'.iMCU_row_num = coef.iMCU_row_num + 1
        /\ coef'.MCU_vert_offset = 0 /\ coef'.mcu_ctr = 0
        /\ coef.iMCU_row_num \in Nat
    BY <1>1, <1>2 DEF CoefTyped
  <1>5. /\ MCUs_per_row' = MCUs_per_row /\ MCURows' = MCURows /\ Count(Scan)' = Count(Scan)
        /\ total_iMCU_rows' = total_iMCU_rows
    BY <1>1, ScanKept, ImageKept, Zenon
  <1>6. call.x = 0
    BY <1>1, <1>2, <1>3
  <1>7. coef.iMCU_row_num + 1 < total_iMCU_rows =>
          /\ MCU_rows_per_iMCU_row' \in Nat \ {0}
          /\ entropy.counted = ((coef.iMCU_row_num + 1) * MCURows + 0) * MCUs_per_row + 0
    <2> SUFFICES ASSUME coef.iMCU_row_num + 1 < total_iMCU_rows
        PROVE  /\ MCU_rows_per_iMCU_row' \in Nat \ {0}
               /\ entropy.counted = ((coef.iMCU_row_num + 1) * MCURows + 0) * MCUs_per_row + 0
      OBVIOUS
    <2>1. MCU_rows_per_iMCU_row' \in Nat \ {0}
      <3>1. Shape'
        BY Zenon DEF IInv
      <3>2. (coef.iMCU_row_num \in Nat /\ coef.iMCU_row_num < total_iMCU_rows)'
        BY <1>4, <1>5
      <3>3. QED
        BY <3>1, <3>2, InPassNext, Zenon
    <2>2. entropy.counted = (coef.iMCU_row_num * MCURows + MCURows) * MCUs_per_row + 0
      BY <1>1, <1>2, <1>3, <1>6
    <2>3. coef.iMCU_row_num * MCURows + MCURows = (coef.iMCU_row_num + 1) * MCURows + 0
      BY <1>3, <1>4
    <2>4. QED
      BY <2>1, <2>2, <2>3, Zenon
  <1>8. coef.iMCU_row_num + 1 = total_iMCU_rows => entropy.counted = Count(Scan)
    <2> SUFFICES ASSUME coef.iMCU_row_num + 1 = total_iMCU_rows PROVE entropy.counted = Count(Scan)
      OBVIOUS
    <2> DEFINE n == (coef.iMCU_row_num * MCURows + MCU_rows_per_iMCU_row) * MCUs_per_row
    <2>1. n = Count(Scan)
      BY <1>3
    <2>2. entropy.counted = n + 0
      BY <1>1, <1>2, <1>6
    <2>3. n \in Nat
      BY <1>3, <1>4
    <2> HIDE DEF n
    <2>4. QED
      BY <2>1, <2>2, <2>3
  <1>9. /\ coef'.iMCU_row_num <= total_iMCU_rows
        /\ coef'.iMCU_row_num < total_iMCU_rows \/ coef'.iMCU_row_num = total_iMCU_rows
        /\ call'.at = "compress" => coef'.iMCU_row_num < total_iMCU_rows
        /\ call'.at = "finish_pass" => coef'.iMCU_row_num = total_iMCU_rows
        /\ ~(coef'.iMCU_row_num < total_iMCU_rows /\ coef'.iMCU_row_num = total_iMCU_rows)
    BY <1>2, <1>3, <1>4
  <1>10. CASE coef'.iMCU_row_num = total_iMCU_rows
    <2>1. entropy.counted = Count(Scan)
      BY <1>4, <1>8, <1>10
    <2>2. ~(coef'.iMCU_row_num < total_iMCU_rows) /\ call'.at \notin {"compress", "mcu"}
      BY <1>9, <1>10
    <2>3. QED
      BY <1>1, <1>2, <1>4, <1>5, <1>9, <1>10, <2>1, <2>2, Zenon DEF CountInv
  <1>11. CASE coef'.iMCU_row_num < total_iMCU_rows
    <2>1. /\ MCU_rows_per_iMCU_row' \in Nat \ {0}
          /\ entropy.counted = (coef'.iMCU_row_num * MCURows + 0) * MCUs_per_row + 0
      BY <1>4, <1>7, <1>11
    <2>2. 0 < MCU_rows_per_iMCU_row' /\ 0 < MCUs_per_row
      BY <1>3, <2>1
    <2>3. coef'.iMCU_row_num # total_iMCU_rows
      BY <1>9, <1>11
    <2>4. QED
      BY <1>1, <1>2, <1>4, <1>5, <1>9, <1>11, <2>1, <2>2, <2>3, Zenon DEF CountInv
  <1>12. QED
    BY <1>9, <1>10, <1>11

(* The rows of the image reach below those of the first cur_iMCU_row rows.  *)
LEMMA RowsLeft ==
  ASSUME Shape, NEW k \in Nat, k * (MaxV * DCTSIZE) < J.height
  PROVE  k < total_iMCU_rows
  <1> DEFINE m == MaxV * DCTSIZE
             t == total_iMCU_rows
  <1>1. /\ m \in Nat \ {0} /\ t \in Nat \ {0} /\ J.height <= t * m /\ k * m < J.height
    BY RowsIs
  <1>2. J.height \in Nat
    BY HeightPositive
  <1> HIDE DEF m, t
  <1>3. k * m \in Int /\ t * m \in Int
    BY <1>1
  <1>4. k * m < t * m
    BY <1>1, <1>2, <1>3
  <1>5. k < t
    BY <1>1, <1>4, LessFactor
  <1>6. QED
    BY <1>5 DEF t

LEMMA RowsRight ==
  ASSUME Shape, NEW k \in Nat, k < total_iMCU_rows
  PROVE  k * (MaxV * DCTSIZE) < J.height
  <1> DEFINE m == MaxV * DCTSIZE
             t == total_iMCU_rows
  <1>1. /\ m \in Nat \ {0} /\ t \in Nat \ {0} /\ (t - 1) * m < J.height /\ k < t
    BY RowsIs
  <1>2. J.height \in Nat
    BY HeightPositive
  <1> HIDE DEF m, t
  <1>3. k * m <= (t - 1) * m /\ k * m \in Int /\ (t - 1) * m \in Int
    BY <1>1, FactorKeeps
  <1>4. k * m < J.height
    BY <1>1, <1>2, <1>3
  <1>5. QED
    BY <1>4 DEF m

LEMMA Regroup ==
  ASSUME NEW k \in Nat, NEW d \in Nat, NEW m \in Nat
  PROVE  (k * d + d) * m = (k + 1) * (m * d) /\ (k * d + 0) * m = k * (m * d)
  <1> DEFINE kd == k * d
  <1>1. kd \in Nat
    OBVIOUS
  <1>2. kd * m = k * (m * d)
    OBVIOUS
  <1> HIDE DEF kd
  <1>3. (kd + d) * m = kd * m + m * d /\ (kd + 0) * m = kd * m
    BY <1>1
  <1>4. k * (m * d) + m * d = (k + 1) * (m * d)
    <2> DEFINE md == m * d
    <2>1. md \in Nat
      OBVIOUS
    <2> HIDE DEF md
    <2>2. k * md + md = (k + 1) * md
      BY <2>1
    <2>3. QED
      BY <2>2 DEF md
  <1>5. QED
    BY <1>2, <1>3, <1>4 DEF kd

(* What the row groups in the main buffer hold was taken.                   *)
LEMMA GroupsTaken ==
  ASSUME Shape, RowsInv, Writing, global_state = "SCANNING", MainPass, prep.rows_to_go > 0
  PROVE  Groups \in Nat /\ Groups * MaxV <= Taken /\ Taken \in Nat /\ Taken < J.height
  <1>1. /\ MainTyped(main) /\ PrepTyped(prep) /\ J.height \in Nat
        /\ MaxV \in 1 .. 4
    BY ImageIs, HeightPositive DEF RowsInv
  <1>2. /\ Taken \in Nat /\ Taken < J.height
    BY <1>1 DEF Taken, PrepTyped
  <1>3. Groups \in Nat
    BY <1>1, SizeAssumption DEF Groups, MainTyped
  <1>4. /\ prep.next_buf_row \in Nat /\ prep.next_buf_stop \in Nat
        /\ context_rows => /\ prep.next_buf_row + 2 * MaxV >= prep.next_buf_stop
                           /\ Taken = (Groups + 2) * MaxV + prep.next_buf_row - prep.next_buf_stop
        /\ ~context_rows => Taken = Groups * MaxV + prep.next_buf_row
    BY <1>1 DEF RowsInv, PrepTyped
  <1> DEFINE gm == Groups * MaxV
  <1>5. gm \in Nat /\ (Groups + 2) * MaxV = gm + 2 * MaxV
    BY <1>1, <1>3
  <1> HIDE DEF gm
  <1>6. gm <= Taken
    <2>1. CASE context_rows
      BY <1>1, <1>2, <1>4, <1>5, <2>1
    <2>2. CASE ~context_rows
      <3>1. Taken = gm + prep.next_buf_row
        BY <1>4, <2>2 DEF gm
      <3>2. QED
        BY <1>4, <1>5, <3>1
    <2>3. QED
      BY <2>1, <2>2
  <1>7. QED
    BY <1>2, <1>3, <1>6 DEF gm

LEMMA RowCompressedCourse ==
  ASSUME IInv, IInv', Course, Marker, RowCompressed PROVE Course' /\ Marker'
  <1>1. /\ jobs' = jobs /\ job' = job /\ global_state' = global_state
        /\ call.at = "mcu" /\ call.y = MCU_rows_per_iMCU_row
        /\ coef' = [coef EXCEPT !.iMCU_row_num = @ + 1, !.mcu_ctr = 0, !.MCU_vert_offset = 0]
        /\ master' = master /\ prep' = prep /\ entropy' = entropy /\ file' = file
    BY Zenon DEF RowCompressed, others, written
  <1>2. /\ call.op = "lines" =>
             /\ call' = [call EXCEPT !.at = "prep",
                                     !.row_ctr = IF main.suspended THEN @ + 1 ELSE @]
             /\ main' = [main EXCEPT !.suspended = FALSE, !.rowgroup_ctr = 0,
                                     !.cur_iMCU_row = @ + 1]
             /\ next_scanline' = next_scanline
        /\ call.op = "raw" =>
             next_scanline' = next_scanline + MaxV * DCTSIZE /\ call' = NoCall /\ main' = main
        /\ call.op = "finish" =>
             /\ call' = [call EXCEPT !.at = IF coef.iMCU_row_num + 1 < total_iMCU_rows
                                           THEN "compress" ELSE "finish_pass"]
             /\ next_scanline' = next_scanline /\ main' = main
    BY DEF RowCompressed
  <1>3. Writing /\ ~Between /\ ~Startup /\ call # NoCall /\ call.op \in {"lines", "raw", "finish"}
    BY <1>1, Running DEF Course
  <1>4. Writing' = Writing
    BY <1>1, Zenon DEF Writing
  <1>5. CoefTyped(coef) /\ coef.iMCU_row_num < total_iMCU_rows
    BY <1>1, <1>3, Zenon DEF Course, CountInv
  <1>6. coef'.iMCU_row_num = coef.iMCU_row_num + 1 /\ coef.iMCU_row_num \in Nat
    BY <1>1, <1>5 DEF CoefTyped
  <1>7. CallTyped(call)
    BY DEF Course, CallInv
  <1>8. /\ call'.at # "mcu" /\ call'.at # "passes" /\ CallTyped(call')
        /\ call.op = "lines" => /\ call'.at = "prep" /\ call'.op = "lines" /\ call'.lines = call.lines
                                /\ call'.row_ctr = call.row_ctr + (IF main.suspended THEN 1 ELSE 0)
        /\ call.op = "raw" => call'.at = "none" /\ call'.op = "none"
        /\ call.op = "finish" =>
             /\ call'.op = "finish" /\ call'.row_ctr = call.row_ctr
             /\ call'.at = IF coef.iMCU_row_num + 1 < total_iMCU_rows
                           THEN "compress" ELSE "finish_pass"
    <2>1. CASE call.op = "lines"
      <3> DEFINE n == IF main.suspended THEN call.row_ctr + 1 ELSE call.row_ctr
      <3>1. call' = [call EXCEPT !.at = "prep", !.row_ctr = n]
        BY <1>2, <2>1
      <3>2. n \in Nat /\ n = call.row_ctr + (IF main.suspended THEN 1 ELSE 0)
        BY <1>7 DEF CallTyped
      <3> HIDE DEF n
      <3>3. QED
        BY <1>7, <2>1, <3>1, <3>2 DEF CallTyped
    <2>2. CASE call.op = "raw"
      BY <1>2, <2>2, NoCallIs DEF NoCall
    <2>3. CASE call.op = "finish"
      <3> DEFINE a == IF coef.iMCU_row_num + 1 < total_iMCU_rows THEN "compress" ELSE "finish_pass"
      <3>1. call' = [call EXCEPT !.at = a] /\ a \in {"compress", "finish_pass"}
        BY <1>2, <2>3
      <3> HIDE DEF a
      <3>2. call'.at = a /\ call'.op = "finish" /\ call'.row_ctr = call.row_ctr /\ CallTyped(call')
        BY <1>7, <2>3, <3>1 DEF CallTyped
      <3>3. QED
        BY <2>3, <3>1, <3>2 DEF a
    <2>4. QED
      BY <1>3, <2>1, <2>2, <2>3
  <1>9. Between' = Between /\ Startup' = Startup
    BY <1>1, <1>8 DEF Between, Startup
  <1>10. PassInv'
    BY <1>1, <1>9, PassFrame, Zenon DEF Course, IInv
  <1>11. MarksInv'
    BY <1>1, <1>4, MarksFrame, Zenon DEF Course
  <1>12. CountInv'
    <2>1. /\ call'.at = "compress" => coef.iMCU_row_num + 1 < total_iMCU_rows
          /\ call'.at = "finish_pass" => ~(coef.iMCU_row_num + 1 < total_iMCU_rows)
      BY <1>3, <1>8
    <2>2. ~Between'
      BY <1>3, <1>9
    <2>3. QED
      BY <1>3, <1>4, <1>8, <1>10, <2>1, <2>2, RowCompressedCount
  <1>13. Marker'
    BY <1>1, <1>4, Zenon DEF Marker
  <1>14. CASE call.op = "raw"
    <2>1. global_state = "RAW_OK" /\ MainPass
      BY <1>3, <1>14 DEF Course, CallInv, MainPass
    <2>2. CallInv'
      BY <1>1, <1>2, <1>3, <1>14, <2>1, ReturnCall, Zenon DEF Course
    <2>3. /\ MainTyped(main) /\ next_scanline \in Nat
          /\ next_scanline = coef.iMCU_row_num * (MaxV * DCTSIZE)
      BY <1>3, <2>1, Zenon DEF Course, RowsInv
    <2> DEFINE m == MaxV * DCTSIZE
    <2>4. /\ next_scanline' = next_scanline + m /\ m \in Nat /\ J.height \in Nat
          /\ coef.iMCU_row_num * m < J.height /\ next_scanline = coef.iMCU_row_num * m
      BY <1>2, <1>5, <1>6, <1>14, <2>3, RowsRight, RowsIs, HeightPositive DEF IInv
    <2> HIDE DEF m
    <2>5. /\ next_scanline' \in Nat /\ next_scanline' <= J.height + m - 1
          /\ next_scanline' = (coef.iMCU_row_num + 1) * m
      <3> DEFINE k == coef.iMCU_row_num
      <3>1. k \in Nat /\ next_scanline' = k * m + m /\ m \in Nat /\ J.height \in Nat /\ k * m < J.height
        BY <1>6, <2>3, <2>4
      <3> HIDE DEF k
      <3>2. (k + 1) * m = k * m + m /\ k * m \in Nat
        BY ONLY <3>1
      <3>3. QED
        BY <3>1, <3>2 DEF k
    <2>6. RowsInv'
      BY <1>1, <1>2, <1>3, <1>6, <1>14, <2>1, <2>3, <2>5, RowsRaw, Zenon DEF Course, m
    <2>7. QED
      BY <1>10, <1>11, <1>12, <1>13, <2>2, <2>6, Zenon DEF Course
  <1>15. CASE call.op = "finish"
    <2>1. RowsInv'
      BY <1>1, <1>2, <1>8, <1>15, RowsFinish, Zenon DEF Course
    <2>2. ~MainPass' /\ ~Startup'
      BY <1>3, <1>8, <1>9, <1>15 DEF MainPass
    <2>3. call'.at # "none" /\ call'.op = "finish" /\ (call # NoCall)'
      BY <1>8, <1>15 DEF NoCall
    <2>4. CallInv'
      <3>1. call'.op # "lines" /\ call'.op # "raw" /\ (call = NoCall <=> call.at = "none")'
        BY <2>3
      <3>2. QED
        BY <1>8, <2>2, <2>3, <3>1, Zenon DEF CallInv
    <2>5. QED
      BY <1>10, <1>11, <1>12, <1>13, <2>1, <2>4, Zenon DEF Course
  <1>16. CASE call.op = "lines"
    <2>1. global_state = "SCANNING" /\ MainPass
      BY <1>3, <1>16 DEF Course, CallInv, MainPass
    <2>2. MainPass' /\ ~Startup'
      BY <1>1, <1>3, <1>8, <1>9, <1>16, <2>1 DEF MainPass
    <2>3. call'.at # "none" /\ (call # NoCall)'
      BY <1>8, <1>16 DEF NoCall
    <2>4. CallInv'
      <3>1. call'.op # "raw" /\ (call = NoCall <=> call.at = "none")' /\ global_state' = "SCANNING"
        BY <1>1, <1>8, <1>16, <2>1, <2>3
      <3>2. master'.pass_type = "main"
        BY <1>1, <1>3, <2>1, Zenon DEF Course, CallInv
      <3>3. QED
        BY <1>8, <2>2, <2>3, <3>1, <3>2, Zenon DEF CallInv
    <2>5. /\ next_scanline \in Nat /\ MainTyped(main) /\ PrepTyped(prep)
          /\ main.cur_iMCU_row <= total_iMCU_rows
          /\ next_scanline + call.row_ctr + (IF main.suspended THEN 1 ELSE 0) = Taken
          /\ prep.next_buf_row <= 3 * MaxV
          /\ coef.iMCU_row_num = main.cur_iMCU_row
          /\ call.lines > 0 /\ call.row_ctr <= call.lines
          /\ next_scanline + call.lines <= J.height
          /\ main.suspended => call.row_ctr = 0
          /\ main.rowgroup_ctr = DCTSIZE
      BY <1>1, <1>3, <1>16, <2>1, Zenon DEF Course, RowsInv
    <2>6. IF context_rows
          THEN /\ prep.next_buf_stop \in {MaxV, 2 * MaxV, 3 * MaxV}
               /\ prep.next_buf_row < prep.next_buf_stop
               /\ prep.next_buf_row + 2 * MaxV >= prep.next_buf_stop
               /\ prep.rows_to_go > 0 =>
                    Taken = (Groups + 2) * MaxV + prep.next_buf_row - prep.next_buf_stop
          ELSE /\ prep.next_buf_row < MaxV
               /\ prep.rows_to_go > 0 => Taken = Groups * MaxV + prep.next_buf_row
               /\ prep.rows_to_go = 0 =>
                    IF main.cur_iMCU_row = total_iMCU_rows THEN TRUE
                    ELSE main.cur_iMCU_row + 1 = total_iMCU_rows /\ main.rowgroup_ctr = DCTSIZE
      BY <1>3, <2>1, Zenon DEF Course, RowsInv
    <2>7. /\ MainTyped(main') /\ main'.cur_iMCU_row = main.cur_iMCU_row + 1
          /\ main'.rowgroup_ctr = 0 /\ ~main'.suspended
      <3>1. main' = [main EXCEPT !.suspended = FALSE, !.rowgroup_ctr = 0, !.cur_iMCU_row = @ + 1]
        BY <1>2, <1>16, Zenon
      <3>2. 0 \in 0 .. DCTSIZE /\ main.cur_iMCU_row + 1 \in Nat
        BY <2>5, SizeAssumption DEF MainTyped
      <3>3. QED
        BY <2>5, <3>1, <3>2 DEF MainTyped
    <2>8. /\ J' = J /\ MaxV' = MaxV /\ context_rows' = context_rows
          /\ total_iMCU_rows' = total_iMCU_rows
      BY <1>1, ImageKept, Zenon
    <2>9. Taken' = Taken
      BY <1>1, <2>8, Zenon DEF Taken
    <2>10. /\ main.cur_iMCU_row \in Nat /\ DCTSIZE \in Nat \ {0} /\ MaxV \in Nat
           /\ total_iMCU_rows \in Nat /\ call.row_ctr \in Nat /\ call.lines \in Nat
           /\ main.cur_iMCU_row < total_iMCU_rows
      <3>1. MaxV \in Nat
        BY ImageIs DEF IInv
      <3>2. total_iMCU_rows \in Nat
        BY RowsIs DEF IInv
      <3>3. QED
        BY <1>5, <1>7, <2>5, <3>1, <3>2, SizeAssumption DEF MainTyped, CallTyped
    <2>11. Groups' = Groups
      <3>1. Groups = main.cur_iMCU_row * DCTSIZE + DCTSIZE
        BY <2>5 DEF Groups
      <3>2. Groups' = (main.cur_iMCU_row + 1) * DCTSIZE + 0
        BY <2>7 DEF Groups
      <3>3. QED
        BY <2>10, <3>1, <3>2
    <2>12. prep.rows_to_go > 0 => main.cur_iMCU_row + 1 < total_iMCU_rows
      <3> SUFFICES ASSUME prep.rows_to_go > 0 PROVE main.cur_iMCU_row + 1 < total_iMCU_rows
        OBVIOUS
      <3>1. Groups * MaxV <= Taken /\ Taken \in Nat /\ Taken < J.height /\ Groups \in Nat
        BY <1>3, <2>1, GroupsTaken DEF Course, IInv
      <3>2. Groups * MaxV = (main.cur_iMCU_row + 1) * (MaxV * DCTSIZE)
        <4>1. Groups = main.cur_iMCU_row * DCTSIZE + DCTSIZE
          BY <2>5 DEF Groups
        <4>2. QED
          BY <2>10, <4>1, Regroup
      <3>3. J.height \in Nat
        BY HeightPositive DEF IInv
      <3> DEFINE gm == Groups * MaxV
      <3>4. gm \in Nat /\ gm <= Taken
        BY <2>10, <3>1
      <3> HIDE DEF gm
      <3>5. gm < J.height
        BY <3>1, <3>3, <3>4
      <3>6. main.cur_iMCU_row + 1 \in Nat
        BY <2>10
      <3>7. (main.cur_iMCU_row + 1) * (MaxV * DCTSIZE) < J.height
        BY <3>2, <3>5, Zenon DEF gm
      <3>8. QED
        BY <3>6, <3>7, RowsLeft DEF IInv
    <2>13. /\ main'.cur_iMCU_row <= total_iMCU_rows
           /\ coef'.iMCU_row_num = main'.cur_iMCU_row
           /\ prep.rows_to_go > 0 => main'.cur_iMCU_row < total_iMCU_rows
           /\ main'.rowgroup_ctr # DCTSIZE
      BY <1>6, <2>5, <2>7, <2>10, <2>12
    <2>14. /\ call'.lines > 0 /\ call'.row_ctr <= call'.lines
           /\ next_scanline + call'.lines <= J.height
           /\ next_scanline + call'.row_ctr + (IF main'.suspended THEN 1 ELSE 0) = Taken
      <3>1. next_scanline + call'.row_ctr + 0 = Taken
        BY <1>8, <1>16, <2>5, <2>10
      <3>2. call'.row_ctr <= call.lines
        BY <1>8, <1>16, <2>5, <2>10
      <3>3. QED
        BY <1>8, <1>16, <2>5, <2>7, <3>1, <3>2, Zenon
    <2>15. /\ context_rows =>
                /\ prep.next_buf_stop \in {MaxV, 2 * MaxV, 3 * MaxV}
                /\ prep.next_buf_row < prep.next_buf_stop
                /\ prep.next_buf_row + 2 * MaxV >= prep.next_buf_stop
                /\ prep.rows_to_go > 0 =>
                     Taken = (Groups + 2) * MaxV + prep.next_buf_row - prep.next_buf_stop
           /\ ~context_rows =>
                /\ prep.next_buf_row < MaxV
                /\ prep.rows_to_go > 0 => Taken = Groups * MaxV + prep.next_buf_row
                /\ prep.rows_to_go = 0 => main'.cur_iMCU_row = total_iMCU_rows
      <3>1. main.cur_iMCU_row # total_iMCU_rows
        BY <2>10
      <3>2. QED
        BY <2>6, <2>7, <3>1, Zenon
    <2>16. MainTyped(main)' = MainTyped(main') /\ PrepTyped(prep)' = PrepTyped(prep)
      BY <1>1, <2>8, Zenon DEF MainTyped, PrepTyped
    <2>17. global_state' # "RAW_OK" /\ global_state' = "SCANNING" /\ call'.at # "mcu" /\ ~main'.suspended /\ (call # NoCall)'
      BY <1>1, <1>8, <2>1, <2>3, <2>7
    <2>18. next_scanline' = next_scanline
      BY <1>2, <1>16
    <2>19. RowsInv'
      BY <1>1, <2>5, <2>7, <2>8, <2>9, <2>11, <2>13, <2>14, <2>15, <2>16, <2>17, <2>18, Zenon
      DEF RowsInv
    <2>20. QED
      BY <1>10, <1>11, <1>12, <1>13, <2>4, <2>19, Zenon DEF Course
  <1>17. QED
    BY <1>3, <1>14, <1>15, <1>16

(* One SOS more. The frame header comes before the first one.               *)
Repeated(n) == [k \in 1 .. n |-> "SOS"]
Firsts == {<<"SOI", "SOF">>, <<"SOI", "COM", "SOF">>}

Kinds == {"SOI", "COM", "SOF", "SOS"}

LEMMA FirstsAre ==
  /\ \A first \in Firsts : first \in Seq(Kinds) /\ (Len(first) = 2 \/ Len(first) = 3)
  /\ Len(<<"SOI">>) = 1 /\ Append(<<"SOI">>, "COM") = <<"SOI", "COM">>
  /\ <<"SOI">> \in Seq(Kinds) /\ <<"SOI", "COM">> \in Seq(Kinds)
  /\ <<"SOF">> \in Seq(Kinds) /\ <<"SOS">> \in Seq(Kinds)
  /\ <<"SOI">> \o <<"SOF">> \in Firsts /\ <<"SOI", "COM">> \o <<"SOF">> \in Firsts
  <1> DEFINE S == Kinds
  <1>1. /\ \A a \in S : <<a>> \in Seq(S) /\ Len(<<a>>) = 1 /\ <<a>>[1] = a
        /\ \A a, b \in S : <<a, b>> \in Seq(S) /\ Len(<<a, b>>) = 2
        /\ \A a, b, c \in S : <<a, b, c>> \in Seq(S) /\ Len(<<a, b, c>>) = 3
    OBVIOUS
  <1>2. "SOI" \in S /\ "COM" \in S /\ "SOF" \in S /\ "SOS" \in S
    BY DEF Kinds
  <1> HIDE DEF S
  <1>3. ASSUME NEW a \in S, NEW b \in S PROVE <<a>> \o <<b>> = <<a, b>>
    <2> DEFINE s == <<a>> \o <<b>>
               t == <<a, b>>
    <2>1. s \in Seq(S) /\ Len(s) = 2 /\ \A i \in 1 .. 2 : s[i] = IF i <= 1 THEN <<a>>[i] ELSE <<b>>[i - 1]
      BY <1>1, ConcatProperties
    <2>2. t \in Seq(S) /\ Len(t) = 2 /\ t[1] = a /\ t[2] = b
      BY <1>1
    <2>3. s[1] = a /\ s[2] = b
      BY <1>1, <2>1
    <2> HIDE DEF s, t
    <2>4. \A i \in 1 .. 2 : s[i] = t[i]
      BY <2>2, <2>3
    <2>5. s = t
      BY <2>1, <2>2, <2>4, SeqEqual
    <2>6. QED
      BY <2>5 DEF s, t
  <1>4. ASSUME NEW a \in S, NEW b \in S, NEW c \in S PROVE <<a, b>> \o <<c>> = <<a, b, c>>
    <2> DEFINE s == <<a, b>> \o <<c>>
               t == <<a, b, c>>
    <2>1. s \in Seq(S) /\ Len(s) = 3
          /\ \A i \in 1 .. 3 : s[i] = IF i <= 2 THEN <<a, b>>[i] ELSE <<c>>[i - 2]
      BY <1>1, ConcatProperties
    <2>2. t \in Seq(S) /\ Len(t) = 3 /\ t[1] = a /\ t[2] = b /\ t[3] = c
      BY <1>1
    <2>3. s[1] = a /\ s[2] = b /\ s[3] = c
      BY <1>1, <2>1
    <2> HIDE DEF s, t
    <2>4. \A i \in 1 .. 3 : s[i] = t[i]
      BY <2>2, <2>3
    <2>5. s = t
      BY <2>1, <2>2, <2>4, SeqEqual
    <2>6. QED
      BY <2>5 DEF s, t
  <1>5. /\ <<"SOI">> \o <<"SOF">> = <<"SOI", "SOF">>
        /\ <<"SOI", "COM">> \o <<"SOF">> = <<"SOI", "COM", "SOF">>
    BY <1>2, <1>3, <1>4
  <1>6. Append(<<"SOI">>, "COM") = <<"SOI", "COM">>
    <2>1. Append(<<"SOI">>, "COM") = <<"SOI">> \o <<"COM">>
      BY <1>1, <1>2, AppendIsConcat
    <2>2. QED
      BY <1>2, <1>3, <2>1
  <1>7. /\ Len(<<"SOI">>) = 1 /\ Len(<<"SOI", "SOF">>) = 2 /\ Len(<<"SOI", "COM", "SOF">>) = 3
        /\ <<"SOI">> \in Seq(S) /\ <<"SOI", "COM">> \in Seq(S)
        /\ <<"SOF">> \in Seq(S) /\ <<"SOS">> \in Seq(S)
        /\ <<"SOI", "SOF">> \in Seq(S) /\ <<"SOI", "COM", "SOF">> \in Seq(S)
    BY <1>1, <1>2
  <1>8. QED
    BY <1>5, <1>6, <1>7, Zenon DEF Firsts, S

LEMMA OneMore ==
  ASSUME NEW first \in Firsts, NEW n \in Nat
  PROVE  (first \o Repeated(n)) \o <<"SOS">> = first \o Repeated(n + 1)
  <1> DEFINE S == Kinds
             r == Repeated(n)
             s == Repeated(n + 1)
             t == r \o <<"SOS">>
  <1>1. first \in Seq(S) /\ <<"SOS">> \in Seq(S) /\ "SOS" \in S
    BY FirstsAre DEF Kinds
  <1>2. r \in Seq(S) /\ s \in Seq(S) /\ Len(r) = n /\ Len(s) = n + 1
    BY <1>1 DEF Repeated
  <1>3. /\ \A i \in 1 .. n : r[i] = "SOS"
        /\ \A i \in 1 .. n + 1 : s[i] = "SOS"
    BY DEF Repeated
  <1> HIDE DEF S, r, s
  <1>4. /\ t \in Seq(S) /\ Len(t) = n + 1
        /\ \A i \in 1 .. n + 1 : t[i] = "SOS"
    BY <1>1, <1>2, <1>3
  <1> HIDE DEF t
  <1>5. t = s
    BY <1>2, <1>3, <1>4, SeqEqual
  <1>6. (first \o r) \o <<"SOS">> = first \o t
    BY <1>1, <1>2, ConcatAssociative DEF t
  <1>7. QED
    BY <1>5, <1>6 DEF r, s

LEMMA FirstScan ==
  ASSUME NEW m \in {<<"SOI">>, <<"SOI", "COM">>}
  PROVE  \E first \in Firsts : (m \o <<"SOF">>) \o <<"SOS">> = first \o Repeated(1)
  <1>1. Repeated(1) = <<"SOS">>
    <2>1. Repeated(1) \in Seq({"SOS"}) /\ Len(Repeated(1)) = 1 /\ Repeated(1)[1] = "SOS"
      BY DEF Repeated
    <2>2. QED
      BY <2>1
  <1>2. m \o <<"SOF">> \in Firsts
    BY FirstsAre, Zenon
  <1>3. QED
    BY <1>1, <1>2, Zenon

LEMMA HeadersMarks ==
  ASSUME Shape, MarksInv, Writing, NEW m, Headers(m), m.scan \in Nat \ {0},
         m.scan_number = m.scan, file.scan = m.scan - 1
  PROVE  MarksInv'
  <1>1. /\ file'.scan = m.scan
        /\ file'.marks = file.marks \o (IF m.scan_number = 1 THEN <<"SOF">> ELSE <<>>) \o <<"SOS">>
    BY HeadersAre
  <1>2. CASE m.scan = 1
    <2>1. file.marks \in {<<"SOI">>, <<"SOI", "COM">>}
      BY <1>2 DEF MarksInv
    <2>2. file'.marks = (file.marks \o <<"SOF">>) \o <<"SOS">> /\ file'.scan = 1
      BY <1>1, <1>2
    <2>3. \E first \in Firsts : file'.marks = first \o Repeated(1)
      BY <2>1, <2>2, FirstScan, Zenon
    <2>4. file'.scan # 0
      BY <2>2
    <2>5. QED
      BY <2>2, <2>3, <2>4, Zenon DEF MarksInv, Firsts, Repeated
  <1>3. CASE m.scan # 1
    <2>1. file.scan \in Nat \ {0} /\ file'.scan = file.scan + 1 /\ file'.scan # 0
      BY <1>1, <1>3
    <2>2. PICK first \in Firsts : file.marks = first \o Repeated(file.scan)
      BY <2>1 DEF MarksInv, Firsts, Repeated
    <2>3. file'.marks = (file.marks \o <<>>) \o <<"SOS">>
      BY <1>1, <1>3
    <2>4. file.marks \o <<>> = file.marks
      <3>1. file.marks \in Seq(Kinds)
        <4>1. first \in Seq(Kinds)
          BY FirstsAre
        <4>2. Repeated(file.scan) \in Seq(Kinds)
          BY <2>1 DEF Repeated, Kinds
        <4>3. QED
          BY <2>2, <4>1, <4>2
      <3>2. QED
        BY <3>1, ConcatEmptySeq
    <2>5. file'.marks = first \o Repeated(file'.scan)
      BY <2>1, <2>2, <2>3, <2>4, OneMore
    <2>6. QED
      BY <2>1, <2>5 DEF MarksInv, Firsts, Repeated
  <1>4. QED
    BY <1>2, <1>3

(* A scan begins, none of its MCUs are coded.                               *)
LEMMA NewScanCount ==
  ASSUME IInv', PassInv', Writing', ~Between', CoefTyped(coef'), coef'.iMCU_row_num = 0,
         coef'.MCU_vert_offset = 0, coef'.mcu_ctr = 0, entropy'.counted = 0,
         ~entropy'.gather => file'.mcus = <<>>, total_iMCU_rows' \in Nat \ {0},
         call'.at # "mcu", call'.at # "finish_pass"
  PROVE  CountInv'
  <1>1. Shape'
    BY Zenon DEF IInv
  <1>2. 0 \in Nat /\ 0 < total_iMCU_rows' /\ 0 <= total_iMCU_rows' /\ 0 # total_iMCU_rows'
    OBVIOUS
  <1>3. (coef.iMCU_row_num \in Nat /\ coef.iMCU_row_num < total_iMCU_rows)'
    BY <1>2
  <1>4. /\ MCUs_per_row' \in Nat \ {0} /\ MCURows' \in Nat \ {0}
        /\ MCU_rows_per_iMCU_row' \in Nat \ {0}
    BY <1>1, <1>3, InPassNext, Zenon
  <1>5. IsSequence(<<>>) /\ Len(<<>>) = 0
    BY DEF IsSequence
  <1>6. 0 < MCUs_per_row' /\ 0 < MCU_rows_per_iMCU_row'
    BY <1>4
  <1>7. 0 = (0 * MCURows' + 0) * MCUs_per_row' + 0
    <2>1. \A a \in Nat, b \in Nat : (0 * a + 0) * b + 0 = 0
      OBVIOUS
    <2>2. MCURows' \in Nat /\ MCUs_per_row' \in Nat
      BY <1>4
    <2>3. QED
      BY <2>1, <2>2, Zenon
  <1>8. ~entropy'.gather => IsSequence(file'.mcus) /\ Len(file'.mcus) = entropy'.counted
    BY <1>5
  <1>9. QED
    BY <1>2, <1>3, <1>6, <1>7, <1>8, Zenon DEF CountInv

LEMMA FinishPassCourse == ASSUME IInv, Course, Marker, FinishPass PROVE Course' /\ Marker'
  <1>1. /\ jobs' = jobs /\ job' = job /\ global_state' = global_state
        /\ call.at = "finish_pass" /\ call' = [call EXCEPT !.at = "passes"]
        /\ master' = AfterPass(master) /\ next_scanline' = next_scanline /\ prep' = prep
        /\ main' = main /\ coef' = coef /\ entropy' = entropy /\ file' = file
    BY Zenon DEF FinishPass, others
  <1>2. PassInv' /\ Writing /\ ~Between
    BY FinishPassPass, Zenon DEF Course
  <1>3. CallTyped(call) /\ ~Startup
    BY <1>1, Running DEF Course, CallInv
  <1>4. /\ call'.at = "passes" /\ call'.op = "finish" /\ CallTyped(call')
        /\ call'.row_ctr = call.row_ctr
    BY <1>1, <1>3 DEF CallTyped
  <1>5. Between' /\ ~MainPass' /\ ~Startup'
    BY <1>1, <1>3, <1>4, AfterPassNumber DEF Between, MainPass, Startup, IInv, Shape
  <1>6. CallInv'
    <2>1. call'.op # "lines" /\ call'.op # "raw" /\ (call = NoCall <=> call.at = "none")'
      BY <1>4 DEF NoCall
    <2>2. QED
      BY <1>4, <1>5, <2>1, Zenon DEF CallInv
  <1>7. CountInv'
    BY <1>5, Zenon DEF CountInv
  <1>8. RowsInv'
    BY <1>1, <1>4, RowsFinish, Zenon DEF Course
  <1>9. MarksInv' /\ Marker'
    BY <1>1, <1>2, MarksFrame, Zenon DEF Course, Marker
  <1>10. QED
    BY <1>2, <1>6, <1>7, <1>8, <1>9, Zenon DEF Course

LEMMA NextPassCourse == ASSUME IInv, IInv', Course, Marker, NextPass PROVE Course' /\ Marker'
  <1>1. /\ jobs' = jobs /\ job' = job /\ global_state' = global_state
        /\ call.at = "passes" /\ call' = [call EXCEPT !.at = "compress"]
        /\ master' = Prepared(master) /\ next_scanline' = next_scanline /\ prep' = prep
        /\ main' = main
        /\ coef' = NewCoef(IF coef.mode = "TRANSCODE" THEN coef.mode ELSE "CRANK_DEST", coef.whole)
        /\ entropy' = NewEntropy(master'.pass_type = "huff_opt", restart_interval')
        /\ IF master'.pass_type = "output" THEN Headers(master')
           ELSE tables' = tables /\ file' = file /\ decoder' = decoder
    BY Zenon DEF NextPass, others
  <1>2. PassInv' /\ Writing /\ Writing' /\ Between /\ ~Between' /\ ~Startup'
    BY NextPassPass, Zenon DEF Course
  <1>3. CallTyped(call) /\ call.op = "finish"
    BY <1>1 DEF Course, CallInv, CallTyped
  <1>4. /\ call'.at = "compress" /\ call'.op = "finish" /\ CallTyped(call')
        /\ call'.row_ctr = call.row_ctr
    BY <1>1, <1>3 DEF CallTyped
  <1>5. ~MainPass'
    BY <1>4 DEF MainPass
  <1>6. CallInv'
    <2>1. call'.op # "lines" /\ call'.op # "raw" /\ (call = NoCall <=> call.at = "none")'
      BY <1>4 DEF NoCall
    <2>2. QED
      BY <1>2, <1>4, <1>5, <2>1, Zenon DEF CallInv
  <1>7. RowsInv'
    BY <1>1, <1>4, RowsFinish, Zenon DEF Course
  <1>8. /\ entropy'.counted = 0 /\ entropy'.next_restart_num = 0
        /\ (entropy'.gather <=> master'.pass_type = "huff_opt")
    BY <1>1 DEF NewEntropy
  <1>9. /\ CoefTyped(coef') /\ coef'.iMCU_row_num = 0 /\ coef'.MCU_vert_offset = 0
        /\ coef'.mcu_ctr = 0
    <2>1. \A m, w : /\ CoefTyped(NewCoef(m, w)) /\ NewCoef(m, w).iMCU_row_num = 0
                    /\ NewCoef(m, w).MCU_vert_offset = 0 /\ NewCoef(m, w).mcu_ctr = 0
      BY DEF NewCoef, CoefTyped
    <2>2. QED
      BY <1>1, <2>1, Zenon
  <1>10. /\ file.scan = master.scan_number - 1 /\ master'.scan = master'.scan_number
         /\ master'.scan_number = master.scan_number
    <2>1. file.scan = master.scan_number - 1
      BY <1>2, Zenon DEF Course, PassInv
    <2>2. master'.scan = master'.scan_number
      BY <1>2, Zenon DEF PassInv
    <2>3. master'.scan_number = master.scan_number
      BY <1>1, PreparedIs DEF IInv, Shape
    <2>4. QED
      BY <2>1, <2>2, <2>3
  <1>11. ~entropy'.gather => file'.mcus = <<>>
    <2> SUFFICES ASSUME ~entropy'.gather PROVE file'.mcus = <<>>
      OBVIOUS
    <2>1. master'.pass_type \in {"main", "huff_opt", "output"} /\ master'.pass_type # "main"
      BY NextPassPass DEF Course, IInv, Shape, MasterOK
    <2>2. master'.pass_type = "output"
      BY <1>8, <2>1
    <2>3. QED
      BY <1>1, <2>2, HeadersAre, Zenon
  <1>12. total_iMCU_rows' \in Nat \ {0}
    <2>1. total_iMCU_rows' = total_iMCU_rows
      BY <1>1, ImageKept, Zenon
    <2>2. QED
      BY <2>1, RowsIs DEF IInv
  <1>13. CountInv'
    <2>1. call'.at # "mcu" /\ call'.at # "finish_pass"
      BY <1>4
    <2>2. QED
      BY <1>2, <1>8, <1>9, <1>11, <1>12, <2>1, NewScanCount, Zenon
  <1>14. MarksInv'
    <2>1. CASE master'.pass_type = "output"
      <3>1. master'.scan \in Nat \ {0} /\ file.scan = master'.scan - 1
        BY <1>10 DEF IInv, Shape, MasterOK
      <3>2. Headers(master') /\ Shape /\ MarksInv
        BY <1>1, <2>1, Zenon DEF IInv, Course
      <3>3. QED
        BY <1>2, <1>10, <3>1, <3>2, HeadersMarks, Zenon
    <2>2. CASE master'.pass_type # "output"
      BY <1>1, <1>2, <2>2, MarksFrame, Zenon DEF Course
    <2>3. QED
      BY <2>1, <2>2
  <1>15. Marker'
    BY <1>8 DEF Marker
  <1>16. QED
    BY <1>2, <1>6, <1>7, <1>13, <1>14, <1>15, Zenon DEF Course
-----------------------------------------------------------------------------
(* Steps of the application.                                                *)
LEMMA NoCallKeeps ==
  ASSUME CallInv, call = NoCall
  PROVE  /\ call.at = "none" /\ call.op = "none" /\ call.lines = 0 /\ call.row_ctr = 0
  BY DEF NoCall

LEMMA PassStartupCourse ==
  ASSUME IInv, Course, Marker, PassStartup, global_state \in {"SCANNING", "RAW_OK"}, call = NoCall,
         jobs' = jobs, job' = job, global_state' = global_state, coef' = coef, entropy' = entropy,
         call'.at \in {"prep", "compress"},
         call'.at = "compress" => coef.iMCU_row_num < total_iMCU_rows
  PROVE  /\ PassInv' /\ CountInv' /\ MarksInv' /\ Marker'
         /\ ~Startup' /\ master'.pass_type = "main" /\ MainPass
  <1>1. Writing /\ Writing'
    BY DEF Writing
  <1>2. call.at = "none" /\ call.op = "none"
    BY NoCallKeeps DEF Course
  <1>3. MainPass
    BY <1>2 DEF MainPass
  <1>4. ~Between
    BY <1>1, <1>2 DEF IInv, Shape, MasterOK, ScanSelected, Between
  <1>5. master.pass_type = "main"
    BY <1>1, <1>3, Zenon DEF Course, CallInv
  <1>6. /\ validate_script(script, Len(J.comps)) /\ PassOK(master)
        /\ (master.is_last_pass <=> master.pass_number = total_passes - 1)
        /\ master.pass_number < total_passes /\ master.scan = master.scan_number
        /\ (entropy.gather <=>
              master.pass_type = "huff_opt" \/ (master.pass_type = "main" /\ optimize_coding))
        /\ file.scan = IF entropy.gather \/ Startup THEN master.scan - 1 ELSE master.scan
    BY <1>1, <1>4, Zenon DEF Course, PassInv
  <1>7. CASE ~Startup
    <2>1. master' = master /\ file' = file
      BY <1>7 DEF PassStartup, Startup
    <2>2. Between' = Between
      BY <1>2, <2>1 DEF Between
    <2>3. PassInv'
      BY <2>1, <2>2, PassFrame, Zenon DEF Course, IInv
    <2>4. call.at # "mcu" /\ call'.at # "mcu" /\ call'.at # "finish_pass"
      BY <1>2
    <2>5. CountInv'
      BY <1>1, <2>1, <2>2, <2>4, CountFrame, Zenon DEF Course
    <2>6. MarksInv' /\ Marker'
      BY <1>1, <2>1, MarksFrame, Zenon DEF Course, Marker
    <2>7. ~Startup'
      BY <1>7, <2>1 DEF Startup
    <2>8. QED
      BY <1>3, <1>5, <2>1, <2>3, <2>5, <2>6, <2>7
  <1>8. CASE Startup
    <2>1. master' = [master EXCEPT !.call_pass_startup = FALSE] /\ Headers(master)
      BY <1>8 DEF PassStartup, Startup
    <2>2. entropy.counted = 0 /\ ~optimize_coding
      BY <1>1, <1>8, Zenon DEF Course, CallInv
    <2>3. /\ master'.scan = master.scan /\ master'.scan_number = master.scan_number
          /\ master'.pass_type = master.pass_type /\ master'.pass_number = master.pass_number
          /\ master'.is_last_pass = master.is_last_pass /\ ~master'.call_pass_startup
      BY <2>1 DEF IInv, Shape, MasterOK
    <2>4. /\ file'.scan = master.scan /\ file'.mcus = <<>>
      BY <2>1, HeadersAre
    <2>5. ~entropy.gather
      BY <1>5, <1>6, <2>2
    <2>6. Between' = Between /\ ~Between' /\ ~Startup'
      BY <1>2, <1>4, <2>3 DEF Between, Startup
    <2>7. /\ J' = J /\ script' = script /\ optimize_coding' = optimize_coding
          /\ total_passes' = total_passes
          /\ validate_script(script, Len(J.comps))' = validate_script(script, Len(J.comps))
      BY ImageKept, Zenon
    <2>8. PassOK(master)'
      BY <1>6, <2>3, <2>7, Zenon DEF PassOK
    <2>9. ~(file'.scan < master'.scan)
      BY <2>3, <2>4 DEF IInv, Shape, MasterOK
    <2>10. (entropy.gather <=>
              master.pass_type = "huff_opt" \/ (master.pass_type = "main" /\ optimize_coding))'
      BY <1>6, <2>3, <2>7, Zenon
    <2>11. (master.is_last_pass <=> master.pass_number = total_passes - 1)'
      BY <1>6, <2>3, <2>7, Zenon
    <2>12. PassInv'
      BY <1>6, <2>3, <2>4, <2>5, <2>6, <2>7, <2>8, <2>9, <2>10, <2>11, Zenon DEF PassInv
    <2>13. CountInv'
      <3>1. call.at # "mcu" /\ call'.at # "mcu" /\ call'.at # "finish_pass"
        BY <1>2
      <3>2. QED
        BY <1>1, <2>2, <2>3, <2>4, <2>6, <3>1, CountFrame, Zenon DEF Course
    <2>14. MarksInv'
      <3>1. file.scan = master.scan - 1
        BY <1>6, <1>8
      <3>2. master.scan \in Nat \ {0}
        BY <1>6 DEF IInv, Shape, MasterOK
      <3>3. QED
        BY <1>1, <1>6, <2>1, <3>1, <3>2, HeadersMarks, Zenon DEF Course, IInv
    <2>15. Marker'
      BY <1>1, Zenon DEF Marker
    <2>16. QED
      BY <1>3, <1>5, <2>3, <2>6, <2>12, <2>13, <2>14, <2>15
  <1>9. QED
    BY <1>7, <1>8

LEMMA WriteMarkerCourse == ASSUME IInv, Course, Marker, WriteMarker PROVE Course' /\ Marker'
  <1>1. /\ jobs' = jobs /\ job' = job /\ global_state' = global_state /\ call' = call
        /\ master' = master /\ prep' = prep /\ main' = main /\ coef' = coef /\ entropy' = entropy
        /\ next_scanline' = next_scanline
        /\ file' = [file EXCEPT !.marks = Append(@, "COM")] /\ file.marks = <<"SOI">>
        /\ Writing
    BY DEF WriteMarker, engine, Idle, Writing
  <1>2. /\ file'.scan = file.scan /\ file'.mcus = file.mcus
        /\ file'.marks = Append(<<"SOI">>, "COM")
    BY <1>1 DEF IInv, Shape, FileOK
  <1>3. Between' = Between /\ MainPass' = MainPass /\ Startup' = Startup /\ Writing' = Writing
    BY <1>1, Zenon DEF Between, MainPass, Startup, Writing
  <1>4. PassInv'
    BY <1>1, <1>2, <1>3, PassFrame, Zenon DEF Course, IInv
  <1>5. CountInv'
    BY <1>1, <1>2, <1>3, CountFrame, Zenon DEF Course
  <1>6. (call' = NoCall') = (call = NoCall)
    BY <1>1, Zenon DEF NoCall
  <1>7. RowsInv'
    BY <1>1, <1>6, RowsFrame, Zenon DEF Course
  <1>8. CallInv'
    <2>1. CallTyped(call)' = CallTyped(call) /\ optimize_coding' = optimize_coding
      BY <1>1, ImageKept, Zenon DEF CallTyped
    <2>2. QED
      BY <1>1, <1>3, <1>6, <2>1, Zenon DEF Course, CallInv
  <1>9. file.scan = 0
    <2> SUFFICES ASSUME file.scan # 0 PROVE FALSE
      OBVIOUS
    <2>1. file.scan \in Nat
      BY DEF IInv, Shape, FileOK
    <2>2. PICK first \in Firsts : file.marks = first \o Repeated(file.scan)
      BY <1>1, Zenon DEF Course, MarksInv, Firsts, Repeated
    <2>3. first \in Seq(Kinds) /\ Repeated(file.scan) \in Seq(Kinds)
          /\ (Len(first) = 2 \/ Len(first) = 3)
      <3>1. Repeated(file.scan) \in Seq(Kinds)
        BY <2>1 DEF Repeated, Kinds
      <3>2. QED
        BY <3>1, FirstsAre, Zenon
    <2>4. Len(file.marks) = Len(first) + Len(Repeated(file.scan))
          /\ Len(Repeated(file.scan)) \in Nat
      BY <2>2, <2>3
    <2>5. Len(file.marks) = 1
      BY <1>1, FirstsAre, Zenon
    <2>6. QED
      <3>1. \A n \in Nat : 1 # 2 + n /\ 1 # 3 + n
        OBVIOUS
      <3>2. QED
        BY <2>3, <2>4, <2>5, <3>1, Zenon
  <1>10. file'.marks = <<"SOI", "COM">>
    BY <1>2, FirstsAre, Zenon
  <1>11. MarksInv'
    BY <1>2, <1>9, <1>10 DEF MarksInv
  <1>12. Marker'
    BY <1>1, <1>3, Zenon DEF Marker
  <1>13. QED
    BY <1>4, <1>5, <1>7, <1>8, <1>11, <1>12, Zenon DEF Course

(* What RowsInv says while the application gives its lines, of any buffer.  *)
LEMMA WriteScanlinesCourse == ASSUME IInv, Course, Marker, WriteScanlines PROVE Course' /\ Marker'
  <1>1. /\ jobs' = jobs /\ job' = job /\ global_state' = global_state /\ call = NoCall
        /\ prep' = prep /\ main' = main /\ coef' = coef /\ entropy' = entropy
        /\ next_scanline' = next_scanline /\ next_scanline < J.height /\ PassStartup
        /\ global_state = "SCANNING"
    BY DEF WriteScanlines, Idle
  <1>2. PICK n \in LinesGiven, room \in Room :
          call' = [NoCall EXCEPT !.op = "lines", !.at = "prep", !.room = room,
                                 !.lines = Least(n, J.height - next_scanline)]
    BY Zenon DEF WriteScanlines
  <1>3. Writing /\ Writing'
    BY <1>1 DEF Writing
  <1>4. /\ next_scanline \in Nat /\ J.height \in Nat /\ n \in Nat \ {0}
    BY <1>2, <1>3, SizeAssumption, HeightPositive DEF Course, RowsInv, IInv
  <1> DEFINE k == Least(n, J.height - next_scanline)
  <1>5. k \in Nat \ {0} /\ next_scanline + k <= J.height
    BY <1>1, <1>4 DEF Least
  <1>6. call' = [NoCall EXCEPT !.op = "lines", !.at = "prep", !.room = room, !.lines = k]
    BY <1>2
  <1> HIDE DEF k
  <1>7. /\ call'.at = "prep" /\ call'.op = "lines" /\ call'.lines = k /\ call'.row_ctr = 0
        /\ CallTyped(call') /\ (call # NoCall)'
    BY <1>5, <1>6 DEF NoCall, CallTyped
  <1>8. /\ PassInv' /\ CountInv' /\ MarksInv' /\ Marker'
        /\ ~Startup' /\ master'.pass_type = "main" /\ MainPass
    BY <1>1, <1>7, PassStartupCourse
  <1>9. MainPass'
    BY <1>1, <1>7 DEF MainPass
  <1>10. CallInv'
    <2>1. call'.op # "raw" /\ (call = NoCall <=> call.at = "none")' /\ global_state' = "SCANNING"
      BY <1>1, <1>7
    <2>2. QED
      BY <1>7, <1>8, <2>1, Zenon DEF CallInv
  <1>11. call.row_ctr = 0
    BY <1>1, NoCallKeeps DEF Course
  <1>12. RowsInv'
    <2>1. /\ MainTyped(main) /\ PrepTyped(prep)
          /\ main.cur_iMCU_row <= total_iMCU_rows /\ prep.next_buf_row <= 3 * MaxV
          /\ next_scanline + call.row_ctr + (IF main.suspended THEN 1 ELSE 0) = Taken
          /\ prep.rows_to_go > 0 => main.cur_iMCU_row < total_iMCU_rows
          /\ coef.iMCU_row_num = main.cur_iMCU_row
          /\ main.suspended => main.rowgroup_ctr = DCTSIZE /\ call.row_ctr = 0
          /\ main.rowgroup_ctr = DCTSIZE => main.cur_iMCU_row < total_iMCU_rows
          /\ main.rowgroup_ctr = DCTSIZE /\ ~main.suspended => call.row_ctr > 0
      BY <1>1, <1>3, <1>8, Zenon DEF Course, RowsInv
    <2>2. IF context_rows
          THEN /\ prep.next_buf_stop \in {MaxV, 2 * MaxV, 3 * MaxV}
               /\ prep.next_buf_row < prep.next_buf_stop
               /\ prep.next_buf_row + 2 * MaxV >= prep.next_buf_stop
               /\ prep.rows_to_go > 0 =>
                    Taken = (Groups + 2) * MaxV + prep.next_buf_row - prep.next_buf_stop
          ELSE /\ prep.next_buf_row < MaxV
               /\ prep.rows_to_go > 0 => Taken = Groups * MaxV + prep.next_buf_row
               /\ prep.rows_to_go = 0 =>
                    IF main.cur_iMCU_row = total_iMCU_rows THEN TRUE
                    ELSE main.cur_iMCU_row + 1 = total_iMCU_rows /\ main.rowgroup_ctr = DCTSIZE
      BY <1>1, <1>3, <1>8, Zenon DEF Course, RowsInv
    <2>3. /\ J' = J /\ MaxV' = MaxV /\ context_rows' = context_rows
          /\ total_iMCU_rows' = total_iMCU_rows
      BY <1>1, ImageKept, Zenon
    <2>4. Taken' = Taken /\ Groups' = Groups
      BY <1>1, <2>3, Zenon DEF Taken, Groups
    <2>5. MainTyped(main)' = MainTyped(main) /\ PrepTyped(prep)' = PrepTyped(prep)
      BY <1>1, <2>3, Zenon DEF MainTyped, PrepTyped
    <2>6. 0 <= k /\ k > 0
      BY <1>5
    <2>7. global_state' = "SCANNING" /\ call'.at # "mcu" /\ global_state' # "RAW_OK"
      BY <1>1, <1>7
    <2>8. QED
      BY <1>1, <1>4, <1>5, <1>7, <1>11, <2>1, <2>2, <2>3, <2>4, <2>5, <2>6, <2>7, Zenon
      DEF RowsInv
  <1>13. QED
    BY <1>8, <1>10, <1>12, Zenon DEF Course

LEMMA WriteRawDataCourse == ASSUME IInv, Course, Marker, WriteRawData PROVE Course' /\ Marker'
  <1>1. /\ jobs' = jobs /\ job' = job /\ global_state' = global_state /\ call = NoCall
        /\ prep' = prep /\ coef' = coef /\ entropy' = entropy
        /\ next_scanline' = next_scanline /\ next_scanline < J.height /\ PassStartup
        /\ global_state = "RAW_OK" /\ main' = [main EXCEPT !.buffer = RawRows]
    BY DEF WriteRawData, Idle
  <1>2. PICK room \in Room :
          call' = [NoCall EXCEPT !.op = "raw", !.at = "compress", !.room = room]
    BY Zenon DEF WriteRawData
  <1>3. Writing /\ Writing'
    BY <1>1 DEF Writing
  <1>4. /\ call'.at = "compress" /\ call'.op = "raw" /\ CallTyped(call') /\ (call # NoCall)'
    BY <1>2 DEF NoCall, CallTyped
  <1>5. MainPass /\ MainPass'
    BY <1>1, <1>4, NoCallKeeps DEF MainPass, Course
  <1>6. /\ next_scanline \in Nat /\ MainTyped(main)
        /\ next_scanline <= J.height + MaxV * DCTSIZE - 1
        /\ next_scanline = coef.iMCU_row_num * (MaxV * DCTSIZE)
    <2>1. global_state # "SCANNING"
      BY <1>1
    <2>2. QED
      BY <1>1, <1>3, <1>5, <2>1, Zenon DEF Course, RowsInv
  <1>7. coef.iMCU_row_num < total_iMCU_rows
    <2>1. ~Between
      BY <1>1, <1>3, NoCallKeeps DEF IInv, Shape, MasterOK, ScanSelected, Between, Course
    <2>2. coef.iMCU_row_num \in Nat
      BY <1>3, <2>1 DEF Course, CountInv, CoefTyped
    <2>3. coef.iMCU_row_num * (MaxV * DCTSIZE) < J.height
      BY <1>1, <1>6, Zenon
    <2>4. QED
      BY <2>2, <2>3, RowsLeft DEF IInv
  <1>8. /\ PassInv' /\ CountInv' /\ MarksInv' /\ Marker'
        /\ ~Startup' /\ master'.pass_type = "main" /\ MainPass
    BY <1>1, <1>4, <1>7, PassStartupCourse
  <1>9. CallInv'
    <2>1. call'.op # "lines" /\ (call = NoCall <=> call.at = "none")' /\ global_state' = "RAW_OK"
          /\ global_state' # "WRCOEFS"
      BY <1>1, <1>4
    <2>2. QED
      BY <1>4, <1>8, <2>1, Zenon DEF CallInv
  <1>10. MainTyped(main') /\ main'.cur_iMCU_row = main.cur_iMCU_row
    <2> DEFINE b == RawRows
    <2>1. main' = [main EXCEPT !.buffer = b]
      BY <1>1
    <2> HIDE DEF b
    <2>2. QED
      BY <1>6, <2>1 DEF MainTyped
  <1>11. RowsInv'
    BY <1>1, <1>3, <1>6, <1>10, RowsRaw, Zenon DEF Course
  <1>12. QED
    BY <1>8, <1>9, <1>11, Zenon DEF Course

LEMMA FinishCompressCourse == ASSUME IInv, Course, Marker, FinishCompress PROVE Course' /\ Marker'
  <1>1. /\ jobs' = jobs /\ job' = job /\ global_state' = global_state /\ call = NoCall
        /\ prep' = prep /\ main' = main /\ coef' = coef /\ entropy' = entropy /\ master' = master
        /\ next_scanline' = next_scanline /\ file' = file
        /\ \/ global_state \in {"SCANNING", "RAW_OK"} /\ next_scanline >= J.height
           \/ global_state = "WRCOEFS"
    BY DEF FinishCompress, Idle, engine
  <1>2. PICK room \in Room :
          call' = [NoCall EXCEPT !.op = "finish", !.room = room,
                     !.at = IF global_state = "WRCOEFS" THEN "passes" ELSE "finish_pass"]
    BY Zenon DEF FinishCompress
  <1>3. Writing /\ Writing'
    BY <1>1 DEF Writing
  <1>4. /\ call'.at = (IF global_state = "WRCOEFS" THEN "passes" ELSE "finish_pass")
        /\ call'.op = "finish" /\ CallTyped(call') /\ (call # NoCall)' /\ call'.row_ctr = 0
    BY <1>2 DEF NoCall, CallTyped
  <1>5. call.row_ctr = 0 /\ call.at = "none" /\ call.op = "none"
    BY <1>1, NoCallKeeps DEF Course
  <1>6. ~MainPass'
    BY <1>4 DEF MainPass
  <1>7. RowsInv'
    BY <1>1, <1>4, <1>5, RowsFinish, Zenon DEF Course
  <1>8. MarksInv' /\ Marker'
    BY <1>1, <1>3, MarksFrame, Zenon DEF Course, Marker
  <1>9. CASE global_state = "WRCOEFS"
    <2>1. master.scan = 0
      BY <1>3, <1>5, <1>9 DEF Course, CallInv
    <2>2. Between /\ Between'
      BY <1>1, <2>1 DEF Between
    <2>3. Between' = Between
      BY <1>1, <2>1 DEF Between
    <2>4. PassInv'
      BY <1>1, <2>3, PassFrame, Zenon DEF Course, IInv
    <2>5. CountInv'
      BY <2>2, Zenon DEF CountInv
    <2>6. ~MainPass
      BY <1>9 DEF MainPass
    <2>7. ~Startup'
      BY <1>1, <1>3, <2>6, Zenon DEF Course, CallInv, Startup
    <2>8. CallInv'
      <3>1. call'.op # "lines" /\ call'.op # "raw" /\ (call = NoCall <=> call.at = "none")'
        BY <1>4, <1>9
      <3>2. QED
        BY <1>4, <1>6, <2>7, <3>1, Zenon DEF CallInv
    <2>9. QED
      BY <1>7, <1>8, <2>4, <2>5, <2>8, Zenon DEF Course
  <1>10. CASE global_state # "WRCOEFS"
    <2>1. MainPass /\ next_scanline >= J.height
      BY <1>1, <1>5, <1>10 DEF MainPass
    <2>2. ~Between /\ Between' = Between
      BY <1>1, <1>3, <1>4, <1>5, <1>10 DEF IInv, Shape, MasterOK, ScanSelected, Between
    <2>3. ~Startup
      <3> SUFFICES ASSUME Startup PROVE FALSE
        OBVIOUS
      <3>1. master.pass_type = "main" /\ ~optimize_coding
        BY <1>3, <2>1, Zenon DEF Course, CallInv
      <3>2. PassOK(master) /\ master.scan = master.scan_number
        BY <1>3, <2>2, Zenon DEF Course, PassInv
      <3>3. file.scan = master.scan - 1
        BY <1>3, <2>2, Zenon DEF Course, PassInv
      <3>4. file.scan = 0
        BY <3>1, <3>2, <3>3 DEF PassOK
      <3>5. next_scanline = 0
        BY <1>3, <1>10, <3>1, <3>4 DEF IInv, Beginning
      <3>6. QED
        BY <2>1, <3>5, HeightPositive DEF IInv
    <2>4. PassInv'
      BY <1>1, <2>2, PassFrame, Zenon DEF Course, IInv
    <2>5. coef.iMCU_row_num \in Nat /\ coef.iMCU_row_num <= total_iMCU_rows
      BY <1>3, <2>2 DEF Course, CountInv, CoefTyped
    <2>6. coef.iMCU_row_num = total_iMCU_rows
      <3>1. CASE global_state = "SCANNING"
        BY <1>1, <1>3, <2>1, <3>1, Zenon DEF Course, RowsInv
      <3>2. CASE global_state = "RAW_OK"
        <4>1. next_scanline = coef.iMCU_row_num * (MaxV * DCTSIZE)
          BY <1>3, <2>1, <3>2, Zenon DEF Course, RowsInv
        <4>2. J.height \in Nat /\ next_scanline \in Nat
          BY <1>3, HeightPositive DEF IInv, Course, RowsInv
        <4>3. ~(next_scanline < J.height)
          BY <2>1, <4>2
        <4>4. ~(coef.iMCU_row_num < total_iMCU_rows)
          BY <2>5, <4>1, <4>3, RowsRight, Zenon DEF IInv
        <4>5. total_iMCU_rows \in Nat
          BY RowsIs DEF IInv
        <4>6. QED
          BY <2>5, <4>4, <4>5
      <3>3. QED
        BY <1>1, <1>10, <3>1, <3>2
    <2>7. CountInv'
      <3>1. call.at # "mcu" /\ call'.at # "mcu" /\ call'.at # "compress"
        BY <1>4, <1>5, <1>10
      <3>2. QED
        BY <1>1, <1>3, <2>2, <2>6, <3>1, CountFrame, Zenon DEF Course
    <2>8. CallInv'
      <3>1. call'.op # "lines" /\ call'.op # "raw" /\ (call = NoCall <=> call.at = "none")'
        BY <1>4, <1>10
      <3>2. ~Startup'
        BY <1>1, <2>3, Zenon DEF Startup
      <3>3. QED
        BY <1>4, <1>6, <3>1, <3>2, Zenon DEF CallInv
    <2>9. QED
      BY <1>7, <1>8, <2>4, <2>7, <2>8, Zenon DEF Course
  <1>11. QED
    BY <1>9, <1>10

(* The preprocessing controller: what its turns do to its counters.         *)
PrepFields == {"buf", "rows_to_go", "next_buf_row", "this_row_group", "next_buf_stop"}

LEMMA ConvertIs ==
  ASSUME NEW p, DOMAIN p = PrepFields, NEW row, NEW n
  PROVE  /\ DOMAIN Convert(p, row, n) = PrepFields
         /\ Convert(p, row, n).rows_to_go = p.rows_to_go - n
         /\ Convert(p, row, n).next_buf_row = p.next_buf_row + n
         /\ Convert(p, row, n).next_buf_stop = p.next_buf_stop
  <1>1. PICK b : Convert(p, row, n) = [p EXCEPT !.buf = b, !.next_buf_row = @ + n, !.rows_to_go = @ - n]
    <2> DEFINE c == [i \in DOMAIN p.buf |-> IF i \in p.next_buf_row .. p.next_buf_row + n - 1
                                            THEN row + i - p.next_buf_row ELSE p.buf[i]]
    <2>1. Convert(p, row, n) = [p EXCEPT !.buf = c, !.next_buf_row = @ + n, !.rows_to_go = @ - n]
      BY Zenon DEF Convert
    <2> HIDE DEF c
    <2>2. QED
      BY <2>1, Zenon
  <1>2. QED
    BY <1>1 DEF PrepFields

LEMMA ExpandIs ==
  ASSUME NEW p, DOMAIN p = PrepFields, NEW last, NEW stop
  PROVE  /\ DOMAIN Expand(p, last, stop) = PrepFields
         /\ Expand(p, last, stop).rows_to_go = p.rows_to_go
         /\ Expand(p, last, stop).next_buf_row = stop
         /\ Expand(p, last, stop).next_buf_stop = p.next_buf_stop
  <1>1. PICK b : Expand(p, last, stop) = [p EXCEPT !.buf = b, !.next_buf_row = stop]
    <2> DEFINE c == [i \in DOMAIN p.buf |-> IF i \notin last .. stop - 1 THEN p.buf[i]
                                            ELSE p.buf[RowPointer(last - 1)]]
    <2>1. Expand(p, last, stop) = [p EXCEPT !.buf = c, !.next_buf_row = stop]
      BY Zenon DEF Expand
    <2> HIDE DEF c
    <2>2. QED
      BY <2>1, Zenon
  <1>2. QED
    BY <1>1 DEF PrepFields

LEMMA SimpleTurnIs ==
  ASSUME NEW q, DOMAIN q.prep = PrepFields, NEW n,
         n = Least(MaxV - q.prep.next_buf_row, call.lines - q.row_ctr),
         NEW r, r = SimpleTurn(q)
  PROVE  /\ DOMAIN r.prep = PrepFields /\ r.prep.rows_to_go = q.prep.rows_to_go - n
         /\ r.prep.next_buf_stop = q.prep.next_buf_stop /\ r.row_ctr = q.row_ctr + n
         /\ q.prep.rows_to_go - n = 0 => r.group = DCTSIZE /\ r.prep.next_buf_row = 0
         /\ q.prep.rows_to_go - n # 0 =>
              IF q.prep.next_buf_row + n = MaxV
              THEN r.prep.next_buf_row = 0 /\ r.group = q.group + 1
              ELSE r.prep.next_buf_row = q.prep.next_buf_row + n /\ r.group = q.group + 0
  <1> DEFINE got == Convert(q.prep, next_scanline + q.row_ctr, n)
             p == IF got.rows_to_go = 0 THEN Expand(got, got.next_buf_row, MaxV) ELSE got
             full == p.next_buf_row = MaxV
             group == q.group + (IF full THEN 1 ELSE 0)
             out == IF full THEN Downsample(q.out, p.buf, 0, q.group) ELSE q.out
             pad == p.rows_to_go = 0
             lines == IF ~pad THEN out
                      ELSE [c \in Comps |-> [i \in DOMAIN out[c] |->
                               out[c][Least(i, group * v(c) - 1)]]]
             new == IF full THEN [p EXCEPT !.next_buf_row = 0] ELSE p
             after == IF pad THEN DCTSIZE ELSE group
  <1>1. r = [prep |-> new, row_ctr |-> q.row_ctr + n, group |-> after, out |-> lines]
    BY Zenon DEF SimpleTurn
  <1> HIDE DEF lines
  <1>2. r.prep = new /\ r.row_ctr = q.row_ctr + n /\ r.group = after
    <2> HIDE DEF new, after
    <2>1. QED
      BY <1>1
  <1>3. /\ DOMAIN got = PrepFields /\ got.rows_to_go = q.prep.rows_to_go - n
        /\ got.next_buf_row = q.prep.next_buf_row + n /\ got.next_buf_stop = q.prep.next_buf_stop
    BY ConvertIs
  <1> HIDE DEF got
  <1>4. /\ DOMAIN p = PrepFields /\ p.rows_to_go = q.prep.rows_to_go - n
        /\ p.next_buf_stop = q.prep.next_buf_stop
        /\ p.next_buf_row = IF q.prep.rows_to_go - n = 0 THEN MaxV ELSE q.prep.next_buf_row + n
    BY <1>3, ExpandIs
  <1> HIDE DEF p
  <1>5. /\ DOMAIN new = PrepFields /\ new.rows_to_go = p.rows_to_go
        /\ new.next_buf_stop = p.next_buf_stop
        /\ new.next_buf_row = IF full THEN 0 ELSE p.next_buf_row
    BY <1>4 DEF PrepFields
  <1> HIDE DEF new
  <1>6. QED
    BY <1>2, <1>4, <1>5

LEMMA ContextInputIs ==
  ASSUME NEW q, DOMAIN q.prep = PrepFields, NEW n,
         n = Least(q.prep.next_buf_stop - q.prep.next_buf_row, call.lines - q.row_ctr),
         NEW p, p = ContextInput(q)
  PROVE  /\ DOMAIN p = PrepFields /\ p.rows_to_go = q.prep.rows_to_go - n
         /\ p.next_buf_row = q.prep.next_buf_row + n /\ p.next_buf_stop = q.prep.next_buf_stop
  <1> DEFINE got == Convert(q.prep, next_scanline + q.row_ctr, n)
             top == {RowPointer(-r) : r \in 1 .. MaxV}
             buf == [i \in DOMAIN got.buf |-> IF i \in top THEN got.buf[0] ELSE got.buf[i]]
  <1>1. p = IF q.prep.rows_to_go # J.height THEN got ELSE [got EXCEPT !.buf = buf]
    BY Zenon DEF ContextInput
  <1>2. /\ DOMAIN got = PrepFields /\ got.rows_to_go = q.prep.rows_to_go - n
        /\ got.next_buf_row = q.prep.next_buf_row + n /\ got.next_buf_stop = q.prep.next_buf_stop
    BY ConvertIs
  <1> HIDE DEF buf, got
  <1>3. QED
    BY <1>1, <1>2 DEF PrepFields

LEMMA ContextTurnIs ==
  ASSUME NEW q, DOMAIN q = {"prep", "out", "group", "row_ctr"}, DOMAIN q.prep = PrepFields, NEW p,
         p = IF q.row_ctr < call.lines THEN ContextInput(q)
             ELSE Expand(q.prep, q.prep.next_buf_row, q.prep.next_buf_stop),
         DOMAIN p = PrepFields, NEW r, r = ContextTurn(q)
  PROVE  /\ r.row_ctr = (IF q.row_ctr < call.lines
                         THEN q.row_ctr + q.prep.rows_to_go - p.rows_to_go ELSE q.row_ctr)
         /\ DOMAIN r.prep = PrepFields /\ r.prep.rows_to_go = p.rows_to_go
         /\ IF p.next_buf_row < p.next_buf_stop
            THEN r.prep = p /\ r.group = q.group
            ELSE /\ r.group = q.group + 1
                 /\ r.prep.next_buf_row = IF p.next_buf_row >= 3 * MaxV THEN 0 ELSE p.next_buf_row
                 /\ r.prep.next_buf_stop = r.prep.next_buf_row + MaxV
  <1> DEFINE rows == IF q.row_ctr < call.lines
                     THEN q.row_ctr + q.prep.rows_to_go - p.rows_to_go ELSE q.row_ctr
             next == IF p.next_buf_row >= 3 * MaxV THEN 0 ELSE p.next_buf_row
             out == Downsample(q.out, p.buf, p.this_row_group, q.group)
             g == (p.this_row_group + MaxV) % (3 * MaxV)
             new == [p EXCEPT !.this_row_group = g, !.next_buf_row = next, !.next_buf_stop = next + MaxV]
  <1>1. r = IF p.next_buf_row < p.next_buf_stop THEN [q EXCEPT !.prep = p, !.row_ctr = rows]
            ELSE [prep |-> new, row_ctr |-> rows, group |-> q.group + 1, out |-> out]
    BY Zenon DEF ContextTurn
  <1> HIDE DEF out, g, next, rows
  <1>2. /\ DOMAIN new = PrepFields /\ new.rows_to_go = p.rows_to_go /\ new.next_buf_row = next
        /\ new.next_buf_stop = next + MaxV
    BY DEF PrepFields
  <1> HIDE DEF new
  <1>3. CASE p.next_buf_row < p.next_buf_stop
    <2>1. r.prep = p /\ r.row_ctr = rows /\ r.group = q.group
      BY <1>1, <1>3
    <2>2. QED
      BY <1>3, <2>1 DEF rows
  <1>4. CASE ~(p.next_buf_row < p.next_buf_stop)
    <2>1. r.prep = new /\ r.row_ctr = rows /\ r.group = q.group + 1
      BY <1>1, <1>4
    <2>2. QED
      BY <1>2, <1>4, <2>1 DEF rows, next
  <1>5. QED
    BY <1>3, <1>4

(* The last rows of the image end its last iMCU row.                        *)
LEMMA LastRows ==
  ASSUME Shape, NEW cur \in Nat, NEW g \in Nat, g < DCTSIZE, cur < total_iMCU_rows,
         J.height <= (cur * DCTSIZE + g) * MaxV + MaxV
  PROVE  cur + 1 = total_iMCU_rows
  <1>1. MaxV \in Nat /\ DCTSIZE \in Nat /\ total_iMCU_rows \in Nat /\ J.height \in Nat
    <2>1. MaxV \in Nat
      BY ImageIs
    <2>2. total_iMCU_rows \in Nat
      BY RowsIs
    <2>3. QED
      BY <2>1, <2>2, HeightPositive, SizeAssumption
  <1> DEFINE cd == cur * DCTSIZE
  <1>2. cd \in Nat
    BY <1>1
  <1> HIDE DEF cd
  <1>3. (cd + g) * MaxV + MaxV = (cd + g + 1) * MaxV
    BY <1>1, <1>2
  <1>4. (cd + g + 1) * MaxV <= (cd + DCTSIZE) * MaxV /\ (cd + DCTSIZE) * MaxV \in Int
    BY <1>1, <1>2, FactorKeeps
  <1>5. (cd + DCTSIZE) * MaxV = (cur + 1) * (MaxV * DCTSIZE)
    BY <1>1, Regroup DEF cd
  <1> DEFINE a == (cd + g) * MaxV + MaxV
             b == (cd + DCTSIZE) * MaxV
  <1>6. J.height <= a /\ a <= b /\ a \in Int /\ b \in Int
    BY <1>1, <1>2, <1>3, <1>4 DEF cd
  <1> HIDE DEF a, b
  <1>7. ~(b < J.height)
    BY <1>1, <1>6
  <1>8. ~(cur + 1 < total_iMCU_rows)
    <2> SUFFICES ASSUME cur + 1 < total_iMCU_rows PROVE FALSE
      OBVIOUS
    <2>1. (cur + 1) * (MaxV * DCTSIZE) < J.height
      BY RowsRight
    <2>2. QED
      BY <1>5, <1>7, <2>1, Zenon DEF b
  <1>9. QED
    BY <1>1, <1>8

LEMMA PreprocessCourse == ASSUME IInv, Course, Marker, Preprocess PROVE Course' /\ Marker'
  <1> DEFINE q == [prep |-> prep, out |-> main.buffer, group |-> main.rowgroup_ctr,
                   row_ctr |-> call.row_ctr]
             r == IF context_rows THEN ContextTurn(q) ELSE SimpleTurn(q)
  <1>1. /\ prep' = r.prep
        /\ main' = [main EXCEPT !.buffer = r.out, !.rowgroup_ctr = r.group]
        /\ call' = [call EXCEPT !.row_ctr = r.row_ctr]
    BY Zenon DEF Preprocess
  <1>2. /\ jobs' = jobs /\ job' = job /\ global_state' = global_state
        /\ next_scanline' = next_scanline /\ master' = master /\ coef' = coef
        /\ entropy' = entropy /\ file' = file
        /\ call.at = "prep" /\ main.cur_iMCU_row < total_iMCU_rows /\ MoreRows
    BY Zenon DEF Preprocess, others, written
  <1>3. Writing /\ ~Between /\ ~Startup /\ call # NoCall
    BY <1>2, Running DEF Course
  <1>4. call.op = "lines" /\ CallTyped(call)
    BY <1>2 DEF Course, CallInv, CallTyped
  <1>5. global_state = "SCANNING" /\ MainPass
    BY <1>3, <1>4 DEF Course, CallInv, MainPass
  <1>6. /\ next_scanline \in Nat /\ MainTyped(main) /\ PrepTyped(prep)
        /\ prep.next_buf_row <= 3 * MaxV
        /\ next_scanline + call.row_ctr + (IF main.suspended THEN 1 ELSE 0) = Taken
        /\ coef.iMCU_row_num = main.cur_iMCU_row
        /\ call.lines > 0 /\ call.row_ctr <= call.lines
        /\ next_scanline + call.lines <= J.height
        /\ main.suspended => main.rowgroup_ctr = DCTSIZE /\ call.row_ctr = 0
    BY <1>3, <1>4, <1>5, Zenon DEF Course, RowsInv
  <1>7. /\ context_rows =>
             /\ prep.next_buf_stop \in {MaxV, 2 * MaxV, 3 * MaxV}
             /\ prep.next_buf_row < prep.next_buf_stop
             /\ prep.next_buf_row + 2 * MaxV >= prep.next_buf_stop
             /\ prep.rows_to_go > 0 =>
                  Taken = (Groups + 2) * MaxV + prep.next_buf_row - prep.next_buf_stop
        /\ ~context_rows =>
             /\ prep.next_buf_row < MaxV
             /\ prep.rows_to_go > 0 => Taken = Groups * MaxV + prep.next_buf_row
    BY <1>3, <1>5, Zenon DEF Course, RowsInv
  <1>8. MaxV \in 1 .. 4 /\ DCTSIZE \in Nat \ {0} /\ J.height \in Nat
    BY ImageIs, HeightPositive, SizeAssumption DEF IInv
  <1>9. main.rowgroup_ctr < DCTSIZE /\ main.rowgroup_ctr \in Nat /\ main.cur_iMCU_row \in Nat
        /\ (call.row_ctr < call.lines \/ (context_rows /\ prep.rows_to_go = 0))
    BY <1>2, <1>6, <1>8 DEF MoreRows, MainTyped
  <1>10. ~main.suspended
    BY <1>6, <1>8, <1>9
  <1> DEFINE rtg == prep.rows_to_go
             nbr == prep.next_buf_row
             stop == prep.next_buf_stop
             row == call.row_ctr
             grp == main.rowgroup_ctr
             gm == Groups * MaxV
  <1>11. /\ rtg \in Nat /\ rtg <= J.height /\ nbr \in Nat /\ stop \in Nat /\ row \in Nat
         /\ call.lines \in Nat
         /\ next_scanline + row = J.height - rtg /\ Taken = J.height - rtg
    BY <1>4, <1>6, <1>8, <1>10 DEF PrepTyped, CallTyped, Taken
  <1>12. Groups \in Nat /\ gm \in Nat /\ (Groups + 1) * MaxV = gm + MaxV
         /\ (Groups + 2) * MaxV = gm + 2 * MaxV /\ (Groups + 3) * MaxV = gm + 3 * MaxV
    <2>1. Groups \in Nat
      BY <1>8, <1>9 DEF Groups
    <2>2. QED
      BY <1>8, <2>1
  <1>13. context_rows => r = ContextTurn(q)
    OBVIOUS
  <1>14. ~context_rows => r = SimpleTurn(q)
    OBVIOUS
  <1> HIDE DEF r
  <1>15. DOMAIN q = {"prep", "out", "group", "row_ctr"} /\ q.prep = prep /\ q.group = grp
         /\ q.row_ctr = row /\ DOMAIN q.prep = PrepFields
    BY <1>6 DEF PrepTyped, PrepFields
  <1> HIDE DEF q
  <1> DEFINE rtg2 == r.prep.rows_to_go
             nbr2 == r.prep.next_buf_row
             stop2 == r.prep.next_buf_stop
             row2 == r.row_ctr
             grp2 == r.group
  <1>16. /\ DOMAIN r.prep = PrepFields
         /\ rtg2 \in 0 .. J.height /\ nbr2 \in Nat /\ stop2 \in Nat /\ row2 \in Nat \ {0}
         /\ row2 <= call.lines /\ next_scanline + row2 = J.height - rtg2
         /\ nbr2 <= 3 * MaxV /\ grp2 \in 0 .. DCTSIZE
         /\ context_rows =>
              /\ stop2 \in {MaxV, 2 * MaxV, 3 * MaxV} /\ nbr2 < stop2 /\ nbr2 + 2 * MaxV >= stop2
              /\ rtg2 > 0 =>
                   \/ grp2 = grp + 0 /\ J.height - rtg2 = gm + 2 * MaxV + nbr2 - stop2
                   \/ grp2 = grp + 1 /\ J.height - rtg2 = gm + 3 * MaxV + nbr2 - stop2
         /\ ~context_rows =>
              /\ nbr2 < MaxV
              /\ rtg2 > 0 => \/ grp2 = grp + 0 /\ J.height - rtg2 = gm + nbr2
                             \/ grp2 = grp + 1 /\ J.height - rtg2 = gm + MaxV + nbr2
              /\ rtg2 = 0 => main.cur_iMCU_row + 1 = total_iMCU_rows /\ grp2 = DCTSIZE
    <2>1. CASE ~context_rows
      <3>1. r = SimpleTurn(q)
        BY <1>14, <2>1
      <3>2. row < call.lines
        BY <1>9, <2>1
      <3> DEFINE n == Least(MaxV - nbr, call.lines - row)
      <3>3. n \in Nat \ {0} /\ nbr + n <= MaxV /\ row + n <= call.lines /\ n <= rtg
        BY <1>6, <1>7, <1>8, <1>11, <2>1, <3>2 DEF Least
      <3>4. n = Least(MaxV - q.prep.next_buf_row, call.lines - q.row_ctr)
        BY <1>15
      <3> HIDE DEF n
      <3>5. /\ DOMAIN r.prep = PrepFields /\ rtg2 = rtg - n
            /\ stop2 = stop /\ row2 = row + n
            /\ rtg - n = 0 => grp2 = DCTSIZE /\ nbr2 = 0
            /\ rtg - n # 0 => IF nbr + n = MaxV THEN nbr2 = 0 /\ grp2 = grp + 1
                              ELSE nbr2 = nbr + n /\ grp2 = grp + 0
        BY <1>15, <3>1, <3>4, SimpleTurnIs
      <3>6. Taken = gm + nbr
        BY <1>7, <1>11, <2>1, <3>3
      <3>7. rtg - n = 0 => main.cur_iMCU_row + 1 = total_iMCU_rows
        <4> SUFFICES ASSUME rtg - n = 0 PROVE main.cur_iMCU_row + 1 = total_iMCU_rows
          OBVIOUS
        <4>1. J.height <= gm + MaxV
          <5> HIDE DEF gm
          <5>1. QED
            BY <1>8, <1>11, <1>12, <3>3, <3>6
        <4>2. J.height <= (main.cur_iMCU_row * DCTSIZE + grp) * MaxV + MaxV
          BY <4>1 DEF Groups
        <4>3. QED
          BY <1>2, <1>9, <4>2, LastRows DEF IInv
      <3> HIDE DEF gm, rtg, nbr, stop, row, rtg2, nbr2, stop2, row2, grp2
      <3>8. grp \in Nat /\ grp < DCTSIZE
        BY <1>9
      <3> HIDE DEF grp
      <3>9. /\ rtg2 \in 0 .. J.height /\ stop2 \in Nat /\ row2 \in Nat \ {0}
            /\ row2 <= call.lines /\ next_scanline + row2 = J.height - rtg2
        BY <1>6, <1>8, <1>11, <3>3, <3>5
      <3>10. CASE rtg - n = 0
        <4>1. rtg2 = 0 /\ grp2 = DCTSIZE /\ nbr2 = 0
          BY <3>5, <3>10
        <4>2. nbr2 \in Nat /\ nbr2 <= 3 * MaxV /\ grp2 \in 0 .. DCTSIZE /\ nbr2 < MaxV
              /\ ~(rtg2 > 0)
          BY <1>8, <4>1
        <4>3. QED
          BY <2>1, <3>5, <3>7, <3>9, <3>10, <4>1, <4>2
      <3>11. CASE rtg - n # 0 /\ nbr + n = MaxV
        <4>1. rtg2 # 0 /\ grp2 = grp + 1 /\ nbr2 = 0
          BY <1>11, <3>3, <3>5, <3>11
        <4>2. nbr2 \in Nat /\ nbr2 <= 3 * MaxV /\ grp2 \in 0 .. DCTSIZE /\ nbr2 < MaxV
          BY <1>8, <3>8, <4>1
        <4>3. J.height - rtg2 = gm + MaxV + nbr2
          BY <1>8, <1>11, <1>12, <3>3, <3>5, <3>6, <3>11, <4>1
        <4>4. QED
          BY <2>1, <3>5, <3>9, <4>1, <4>2, <4>3
      <3>12. CASE rtg - n # 0 /\ nbr + n # MaxV
        <4>1. rtg2 # 0 /\ grp2 = grp + 0 /\ nbr2 = nbr + n
          BY <1>11, <3>3, <3>5, <3>12
        <4>2. nbr2 \in Nat /\ nbr2 <= 3 * MaxV /\ grp2 \in 0 .. DCTSIZE /\ nbr2 < MaxV
          BY <1>8, <1>11, <3>3, <3>8, <3>12, <4>1
        <4>3. J.height - rtg2 = gm + nbr2
          BY <1>8, <1>11, <1>12, <3>3, <3>5, <3>6, <4>1
        <4>4. QED
          BY <2>1, <3>5, <3>9, <4>1, <4>2, <4>3
      <3>13. QED
        BY <3>10, <3>11, <3>12
    <2>2. CASE context_rows
      <3>1. r = ContextTurn(q)
        BY <1>13, <2>2
      <3> DEFINE n == Least(stop - nbr, call.lines - row)
                 p == IF q.row_ctr < call.lines THEN ContextInput(q)
                      ELSE Expand(q.prep, q.prep.next_buf_row, q.prep.next_buf_stop)
      <3>2. row < call.lines => n \in Nat \ {0} /\ nbr + n <= stop /\ row + n <= call.lines /\ n <= rtg
        BY <1>6, <1>7, <1>8, <1>11, <2>2 DEF Least
      <3>3. n = Least(q.prep.next_buf_stop - q.prep.next_buf_row, call.lines - q.row_ctr)
        BY <1>15
      <3> HIDE DEF n
      <3>4. /\ DOMAIN p = PrepFields /\ p.next_buf_stop = stop
            /\ row < call.lines => p.rows_to_go = rtg - n /\ p.next_buf_row = nbr + n
            /\ ~(row < call.lines) => p.rows_to_go = rtg /\ p.next_buf_row = stop
        <4>1. CASE row < call.lines
          <5>1. p = ContextInput(q)
            BY <1>15, <4>1
          <5> HIDE DEF p
          <5>2. QED
            BY <1>15, <3>3, <4>1, <5>1, ContextInputIs
        <4>2. CASE ~(row < call.lines)
          <5>1. p = Expand(q.prep, q.prep.next_buf_row, q.prep.next_buf_stop)
            BY <1>15, <4>2
          <5> HIDE DEF p
          <5>2. QED
            BY <1>15, <4>2, <5>1, ExpandIs
        <4>3. QED
          BY <4>1, <4>2
      <3>5. p = IF q.row_ctr < call.lines THEN ContextInput(q)
                ELSE Expand(q.prep, q.prep.next_buf_row, q.prep.next_buf_stop)
        OBVIOUS
      <3> HIDE DEF p
      <3>6. /\ row2 = (IF row < call.lines THEN row + rtg - p.rows_to_go ELSE row)
            /\ DOMAIN r.prep = PrepFields /\ rtg2 = p.rows_to_go
            /\ IF p.next_buf_row < p.next_buf_stop THEN r.prep = p /\ grp2 = grp
               ELSE /\ grp2 = grp + 1
                    /\ nbr2 = IF p.next_buf_row >= 3 * MaxV THEN 0 ELSE p.next_buf_row
                    /\ stop2 = nbr2 + MaxV
        BY <1>15, <3>1, <3>4, <3>5, ContextTurnIs
      <3>7. r.prep = p => nbr2 = p.next_buf_row /\ stop2 = p.next_buf_stop
        OBVIOUS
      <3>8. rtg > 0 => Taken = gm + 2 * MaxV + nbr - stop
        BY <1>7, <1>12, <2>2
      <3>9. grp \in Nat /\ grp < DCTSIZE /\ (~(row < call.lines) => rtg = 0)
        BY <1>9
      <3>10. stop \in {MaxV, 2 * MaxV, 3 * MaxV} /\ nbr < stop /\ nbr + 2 * MaxV >= stop
        BY <1>7, <2>2
      <3> HIDE DEF gm, rtg, nbr, stop, row, rtg2, nbr2, stop2, row2, grp2, grp
      <3>11. /\ rtg2 \in 0 .. J.height /\ row2 \in Nat \ {0}
             /\ row2 <= call.lines /\ next_scanline + row2 = J.height - rtg2
        <4>1. CASE row < call.lines
          <5>1. rtg2 = rtg - n /\ row2 = row + n /\ n \in Nat \ {0} /\ row + n <= call.lines /\ n <= rtg
            BY <1>11, <3>2, <3>4, <3>6, <4>1
          <5>2. QED
            BY <1>6, <1>8, <1>11, <5>1
        <4>2. CASE ~(row < call.lines)
          <5>1. rtg2 = rtg /\ row2 = row
            BY <3>4, <3>6, <4>2
          <5>2. row > 0 /\ row <= call.lines
            BY <1>6, <1>11, <4>2 DEF row
          <5>3. QED
            BY <1>6, <1>8, <1>11, <5>1, <5>2
        <4>3. QED
          BY <4>1, <4>2
      <3>12. rtg2 > 0 => row < call.lines /\ rtg2 = rtg - n /\ p.next_buf_row = nbr + n /\ rtg > 0
                         /\ n \in Nat
        BY <1>11, <3>2, <3>4, <3>6, <3>9
      <3>13. p.next_buf_row \in Nat /\ nbr <= p.next_buf_row /\ p.next_buf_row <= stop
        BY <1>11, <3>2, <3>4, <3>10
      <3>14. CASE p.next_buf_row < stop
        <4>1. nbr2 = p.next_buf_row /\ stop2 = stop /\ grp2 = grp
          BY <3>4, <3>6, <3>7, <3>14
        <4>2. /\ nbr2 \in Nat /\ stop2 \in Nat /\ nbr2 <= 3 * MaxV /\ grp2 \in 0 .. DCTSIZE
              /\ stop2 \in {MaxV, 2 * MaxV, 3 * MaxV} /\ nbr2 < stop2 /\ nbr2 + 2 * MaxV >= stop2
              /\ grp2 = grp + 0
          BY <1>8, <1>11, <3>9, <3>10, <3>13, <3>14, <4>1
        <4>3. rtg2 > 0 => J.height - rtg2 = gm + 2 * MaxV + nbr2 - stop2
          <5> SUFFICES ASSUME rtg2 > 0 PROVE J.height - rtg2 = gm + 2 * MaxV + nbr2 - stop2
            OBVIOUS
          <5>1. /\ rtg2 = rtg - n /\ nbr2 = nbr + n /\ n \in Nat /\ stop2 = stop
                /\ J.height - rtg = gm + 2 * MaxV + nbr - stop
            BY <1>11, <3>8, <3>12, <4>1
          <5> DEFINE mm == 2 * MaxV
          <5>2. mm \in Nat
            BY <1>8
          <5>3. J.height - rtg = gm + mm + nbr - stop
            BY <5>1
          <5> HIDE DEF mm
          <5>4. J.height - rtg2 = gm + mm + nbr2 - stop2
            BY <1>8, <1>11, <1>12, <5>1, <5>2, <5>3
          <5>5. QED
            BY <5>4 DEF mm
        <4>4. QED
          BY <2>2, <3>6, <3>11, <4>2, <4>3
      <3>15. CASE ~(p.next_buf_row < stop)
        <4>1. p.next_buf_row = stop
          BY <1>11, <3>13, <3>15
        <4>2. grp2 = grp + 1 /\ stop2 = nbr2 + MaxV /\ nbr2 = IF stop >= 3 * MaxV THEN 0 ELSE stop
          BY <3>4, <3>6, <3>15, <4>1
        <4>3. /\ nbr2 \in {0, MaxV, 2 * MaxV} /\ stop2 \in {MaxV, 2 * MaxV, 3 * MaxV}
          BY <1>8, <3>10, <4>2
        <4>4. /\ nbr2 \in Nat /\ stop2 \in Nat /\ nbr2 <= 3 * MaxV /\ grp2 \in 0 .. DCTSIZE
              /\ nbr2 < stop2 /\ nbr2 + 2 * MaxV >= stop2
          <5>1. nbr2 \in Nat /\ nbr2 <= 3 * MaxV
            BY <1>8, <4>3
          <5>2. grp2 \in 0 .. DCTSIZE
            BY <1>8, <3>9, <4>2
          <5>3. stop2 \in Nat /\ nbr2 < stop2 /\ nbr2 + 2 * MaxV >= stop2
            BY <1>8, <4>2, <5>1
          <5>4. QED
            BY <5>1, <5>2, <5>3
        <4>5. rtg2 > 0 => J.height - rtg2 = gm + 3 * MaxV + nbr2 - stop2
          BY <1>8, <1>11, <1>12, <3>8, <3>12, <4>1, <4>2, <4>4
        <4>6. QED
          BY <2>2, <3>6, <3>11, <4>2, <4>3, <4>4, <4>5
      <3>16. QED
        BY <3>14, <3>15
    <2>3. QED
      BY <2>1, <2>2
  <1> HIDE DEF r, q
  <1>17. /\ call'.at = "prep" /\ call'.op = "lines" /\ call'.lines = call.lines
         /\ call'.row_ctr = row2 /\ CallTyped(call') /\ (call # NoCall)'
    <2>1. call' = [call EXCEPT !.row_ctr = row2] /\ row2 \in Nat
      BY <1>1, <1>16
    <2> HIDE DEF row2
    <2>2. QED
      BY <1>2, <1>4, <2>1 DEF CallTyped, NoCall
  <1>18. /\ MainTyped(main') /\ main'.cur_iMCU_row = main.cur_iMCU_row
         /\ main'.rowgroup_ctr = grp2 /\ ~main'.suspended
    <2> DEFINE out == r.out
    <2>1. main' = [main EXCEPT !.buffer = out, !.rowgroup_ctr = grp2] /\ grp2 \in 0 .. DCTSIZE
      BY <1>1, <1>16
    <2> HIDE DEF grp2, out
    <2>2. QED
      BY <1>6, <1>10, <2>1 DEF MainTyped
  <1>19. PrepTyped(prep') /\ prep'.rows_to_go = rtg2 /\ prep'.next_buf_row = nbr2
         /\ prep'.next_buf_stop = stop2
    BY <1>1, <1>16 DEF PrepTyped, PrepFields
  <1> HIDE DEF rtg, nbr, stop, row, rtg2, nbr2, stop2, row2, grp2
  <1>20. /\ J' = J /\ MaxV' = MaxV /\ context_rows' = context_rows
         /\ total_iMCU_rows' = total_iMCU_rows
    BY <1>2, ImageKept, Zenon
  <1>21. Taken' = J.height - rtg2
    BY <1>19, <1>20 DEF Taken
  <1>22. MainTyped(main)' = MainTyped(main') /\ PrepTyped(prep)' = PrepTyped(prep')
    BY <1>20, Zenon DEF MainTyped, PrepTyped
  <1>23. /\ grp2 = grp + 0 => Groups' * MaxV = gm /\ (Groups' + 2) * MaxV = gm + 2 * MaxV
         /\ grp2 = grp + 1 => Groups' * MaxV = gm + MaxV /\ (Groups' + 2) * MaxV = gm + 3 * MaxV
    <2>1. Groups' = main.cur_iMCU_row * DCTSIZE + grp2
      BY <1>18 DEF Groups
    <2> DEFINE cd == main.cur_iMCU_row * DCTSIZE
    <2>2. cd \in Nat /\ grp \in Nat /\ Groups = cd + grp /\ Groups' = cd + grp2
      BY <1>8, <1>9, <2>1 DEF Groups
    <2> HIDE DEF cd, grp
    <2>3. ASSUME grp2 = grp + 0
          PROVE  Groups' * MaxV = gm /\ (Groups' + 2) * MaxV = gm + 2 * MaxV
      <3>1. Groups' = Groups
        BY <2>2, <2>3
      <3>2. QED
        BY <1>12, <3>1
    <2>4. ASSUME grp2 = grp + 1
          PROVE  Groups' * MaxV = gm + MaxV /\ (Groups' + 2) * MaxV = gm + 3 * MaxV
      <3>1. Groups' = Groups + 1 /\ Groups' + 2 = Groups + 3
        BY <2>2, <2>4
      <3>2. QED
        BY <1>12, <3>1
    <2>5. QED
      BY <2>3, <2>4
  <1> HIDE DEF gm, grp
  <1>24. Between' = Between /\ Startup' = Startup
    BY <1>2, <1>17 DEF Between, Startup
  <1>25. PassInv'
    BY <1>2, <1>24, PassFrame, Zenon DEF Course, IInv
  <1>26. CountInv'
    <2>1. call.at # "mcu" /\ call'.at # "mcu" /\ call'.at # "compress" /\ call'.at # "finish_pass"
      BY <1>2, <1>17
    <2>2. Writing' = Writing
      BY <1>2, Zenon DEF Writing
    <2>3. QED
      BY <1>2, <1>24, <2>1, <2>2, CountFrame, Zenon DEF Course
  <1>27. MarksInv' /\ Marker'
    <2>1. Writing' = Writing
      BY <1>2, Zenon DEF Writing
    <2>2. QED
      BY <1>2, <2>1, MarksFrame, Zenon DEF Course, Marker
  <1>28. MainPass'
    BY <1>2, <1>5, <1>17 DEF MainPass
  <1>29. CallInv'
    <2>1. call'.op # "raw" /\ (call = NoCall <=> call.at = "none")' /\ global_state' = "SCANNING"
      BY <1>2, <1>5, <1>17
    <2>2. master'.pass_type = "main" /\ ~Startup'
      BY <1>2, <1>3, <1>5, <1>24, Zenon DEF Course, CallInv
    <2>3. QED
      BY <1>17, <2>1, <2>2, Zenon DEF CallInv
  <1>30. RowsInv'
    <2>1. /\ next_scanline' \in Nat /\ main'.cur_iMCU_row <= total_iMCU_rows'
          /\ prep'.next_buf_row <= 3 * MaxV' /\ main'.cur_iMCU_row < total_iMCU_rows'
          /\ next_scanline' + call'.row_ctr + (IF main'.suspended THEN 1 ELSE 0) = Taken'
          /\ call'.lines > 0 /\ call'.row_ctr <= call'.lines
          /\ next_scanline' + call'.lines <= J'.height
          /\ call'.row_ctr > 0 /\ coef'.iMCU_row_num = main'.cur_iMCU_row
      <3>1. main.cur_iMCU_row <= total_iMCU_rows
        BY <1>2, <1>9, RowsIs DEF IInv
      <3>2. next_scanline + row2 + 0 = Taken'
        BY <1>6, <1>16, <1>21
      <3>3. row2 > 0
        BY <1>16
      <3>4. next_scanline' + call'.row_ctr + (IF main'.suspended THEN 1 ELSE 0) = Taken'
        BY <1>2, <1>17, <1>18, <3>2, Zenon
      <3>5. QED
        BY <1>2, <1>6, <1>16, <1>17, <1>18, <1>19, <1>20, <3>1, <3>3, <3>4, Zenon
    <2>2. context_rows' =>
             /\ prep'.next_buf_stop \in {MaxV, 2 * MaxV, 3 * MaxV}
             /\ prep'.next_buf_row < prep'.next_buf_stop
             /\ prep'.next_buf_row + 2 * MaxV >= prep'.next_buf_stop
             /\ prep'.rows_to_go > 0 =>
                  Taken' = (Groups' + 2) * MaxV + prep'.next_buf_row - prep'.next_buf_stop
      BY <1>16, <1>19, <1>20, <1>21, <1>23, Zenon
    <2>3. ~context_rows' =>
             /\ prep'.next_buf_row < MaxV
             /\ prep'.rows_to_go > 0 => Taken' = Groups' * MaxV + prep'.next_buf_row
             /\ prep'.rows_to_go = 0 =>
                  main'.cur_iMCU_row + 1 = total_iMCU_rows' /\ main'.rowgroup_ctr = DCTSIZE
      BY <1>16, <1>18, <1>19, <1>20, <1>21, <1>23, Zenon
    <2>4. global_state' = "SCANNING" /\ call'.at # "mcu" /\ global_state' # "RAW_OK"
      BY <1>2, <1>5, <1>17
    <2>5. QED
      BY <1>17, <1>18, <1>19, <1>20, <1>22, <2>1, <2>2, <2>3, <2>4, Zenon DEF RowsInv
  <1>31. QED
    BY <1>25, <1>26, <1>27, <1>29, <1>30, Zenon DEF Course
-----------------------------------------------------------------------------
(* An image begins.                                                         *)
LEMMA StartRows ==
  ASSUME Shape, jobs' = jobs, job' = job, NEW state, Start(state), call' = NoCall,
         coef'.iMCU_row_num = 0
  PROVE  RowsInv'
  <1>1. /\ J' = J /\ MaxV' = MaxV /\ context_rows' = context_rows
        /\ total_iMCU_rows' = total_iMCU_rows
    BY ImageKept, Zenon
  <1>2. next_scanline' = 0 /\ prep' = NewPrep /\ main' = NewMain /\ global_state' = state
    BY Zenon DEF Start
  <1>3. /\ MaxV \in 1 .. 4 /\ DCTSIZE \in Nat \ {0} /\ J.height \in Nat \ {0}
        /\ total_iMCU_rows \in Nat \ {0} /\ MaxV * DCTSIZE \in Nat \ {0}
    BY ImageIs, RowsIs, SizeAssumption DEF IsImage
  <1>4. /\ PrepTyped(prep') /\ prep'.rows_to_go = J.height /\ prep'.next_buf_row = 0
        /\ prep'.next_buf_stop = 2 * MaxV
    BY <1>2, <1>3 DEF NewPrep, PrepTyped
  <1>5. /\ MainTyped(main') /\ main'.cur_iMCU_row = 0 /\ main'.rowgroup_ctr = 0
        /\ ~main'.suspended
    BY <1>2, <1>3 DEF NewMain, MainTyped
  <1>6. PrepTyped(prep)' = PrepTyped(prep') /\ MainTyped(main)' = MainTyped(main')
    BY <1>1, Zenon DEF PrepTyped, MainTyped
  <1>7. Taken' = 0 /\ Groups' = 0
    BY <1>1, <1>3, <1>4, <1>5 DEF Taken, Groups
  <1>8. call'.row_ctr = 0 /\ call'.at # "mcu" /\ call'.op # "lines"
    BY NoCallIs
  <1>9. /\ 0 <= total_iMCU_rows' /\ 0 < total_iMCU_rows' /\ 0 <= 3 * MaxV' /\ 0 \in Nat
        /\ 0 <= J'.height + MaxV' * DCTSIZE - 1 /\ 0 = 0 * (MaxV' * DCTSIZE)
        /\ 0 + 0 + 0 = Taken' /\ 0 # DCTSIZE /\ ~(0 >= J'.height)
        /\ 2 * MaxV' \in {MaxV', 2 * MaxV', 3 * MaxV'} /\ 0 < 2 * MaxV' /\ 0 < MaxV'
        /\ 0 + 2 * MaxV' >= 2 * MaxV' /\ 0 = Groups' * MaxV' + 0
        /\ 0 = (Groups' + 2) * MaxV' + 0 - 2 * MaxV' /\ J'.height # 0
    <2> DEFINE m == MaxV * DCTSIZE
    <2>1. m \in Nat \ {0} /\ m = MaxV' * DCTSIZE
      BY <1>1, <1>3
    <2> HIDE DEF m
    <2>2. 0 <= J'.height + m - 1 /\ 0 = 0 * m
      BY <1>1, <1>3, <2>1
    <2>3. QED
      BY <1>1, <1>3, <1>7, <2>1, <2>2
  <1>10. next_scanline' + call'.row_ctr + (IF main'.suspended THEN 1 ELSE 0) = Taken'
    BY <1>2, <1>5, <1>8, <1>9
  <1>11. /\ next_scanline' \in Nat /\ MainTyped(main)' /\ PrepTyped(prep)'
         /\ main'.cur_iMCU_row <= total_iMCU_rows' /\ prep'.next_buf_row <= 3 * MaxV'
         /\ next_scanline' <= J'.height + MaxV' * DCTSIZE - 1
         /\ next_scanline' = coef'.iMCU_row_num * (MaxV' * DCTSIZE)
         /\ main'.cur_iMCU_row < total_iMCU_rows' /\ coef'.iMCU_row_num = main'.cur_iMCU_row
         /\ ~main'.suspended /\ main'.rowgroup_ctr # DCTSIZE
         /\ ~(next_scanline' >= J'.height) /\ ~(prep'.rows_to_go = 0)
    BY <1>1, <1>2, <1>4, <1>5, <1>6, <1>9, Zenon
  <1>12. /\ prep'.next_buf_stop \in {MaxV', 2 * MaxV', 3 * MaxV'}
         /\ prep'.next_buf_row < prep'.next_buf_stop
         /\ prep'.next_buf_row + 2 * MaxV' >= prep'.next_buf_stop
         /\ Taken' = (Groups' + 2) * MaxV' + prep'.next_buf_row - prep'.next_buf_stop
         /\ prep'.next_buf_row < MaxV' /\ Taken' = Groups' * MaxV' + prep'.next_buf_row
    BY <1>1, <1>4, <1>7, <1>9, Zenon
  <1>13. QED
    BY <1>8, <1>10, <1>11, <1>12, Zenon DEF RowsInv

LEMMA StartMarks ==
  ASSUME NEW state, Start(state)
  PROVE  MarksInv' /\ file'.scan = 0 /\ file'.mcus = <<>>
  <1>1. file' = [NewFile EXCEPT !.marks = <<"SOI">>]
    BY DEF Start
  <1>2. file'.marks = <<"SOI">> /\ file'.scan = 0 /\ file'.mcus = <<>>
    BY <1>1 DEF NewFile
  <1>3. QED
    BY <1>2, Zenon DEF MarksInv

LEMMA NewCoefIs ==
  ASSUME NEW m, NEW w, coef' = NewCoef(m, w)
  PROVE  /\ CoefTyped(coef') /\ coef'.iMCU_row_num = 0 /\ coef'.MCU_vert_offset = 0
         /\ coef'.mcu_ctr = 0
  BY DEF NewCoef, CoefTyped

LEMMA StartCompressCourse ==
  ASSUME IInv, IInv', Course, Marker, StartCompress PROVE Course' /\ Marker'
  <1>1. /\ jobs' = jobs /\ job' = job /\ call' = call /\ call = NoCall
        /\ J.input # "coefs" /\ global_state = "START"
    BY DEF StartCompress, Idle
  <1>2. call' = NoCall
    BY <1>1
  <1>3. CASE ~validate_script(script, Len(J.comps))
    <2>1. global_state' = "ERROR" /\ entropy' = entropy
      BY <1>3, Zenon DEF StartCompress, engine
    <2>2. ~Writing'
      BY <2>1 DEF Writing
    <2>3. QED
      BY <1>2, <2>1, <2>2, NotWritingCourse, Zenon
  <1>4. CASE validate_script(script, Len(J.comps))
    <2> DEFINE state == IF J.input = "raw" THEN "RAW_OK" ELSE "SCANNING"
               mode == IF total_passes > 1 THEN "SAVE_AND_PASS" ELSE "PASS_THRU"
    <2>1. /\ Start(state) /\ master' = Prepared(NewMaster) /\ coef' = NewCoef(mode, NewWhole)
          /\ entropy' = NewEntropy(optimize_coding, restart_interval')
      BY <1>4, Zenon DEF StartCompress
    <2>2. global_state' = state /\ state \in {"RAW_OK", "SCANNING"}
      BY <2>1 DEF Start
    <2> HIDE DEF state, mode
    <2>3. Writing' /\ global_state' # "WRCOEFS"
      BY <2>2 DEF Writing
    <2>4. RowsInv' /\ MarksInv' /\ file'.scan = 0 /\ file'.mcus = <<>>
      <3>1. coef'.iMCU_row_num = 0
        BY <2>1, NewCoefIs
      <3>2. RowsInv'
        BY <1>1, <1>2, <2>1, <3>1, StartRows, Zenon DEF IInv
      <3>3. QED
        BY <2>1, <3>2, StartMarks
    <2>5. /\ (entropy'.gather <=> optimize_coding) /\ entropy'.counted = 0
          /\ entropy'.next_restart_num = 0
      BY <2>1 DEF NewEntropy
    <2>6. PassInv'
      BY <1>1, <1>2, <1>4, <2>1, <2>3, <2>4, <2>5, FirstPassInv, Zenon
    <2>7. /\ master'.scan_number = 1 /\ master'.pass_type = "main" /\ master'.scan = 1
          /\ master'.call_pass_startup = ~optimize_coding
      <3>1. /\ MasterOK(NewMaster) /\ NewMaster.scan_number = 1 /\ NewMaster.pass_type = "main"
            /\ NewMaster.scan = 0
        BY <1>1 DEF NewMaster, MasterOK
      <3>2. ~SkipsOptimization(NewMaster)
        BY <3>1 DEF SkipsOptimization
      <3>3. QED
        BY <2>1, <3>1, <3>2, PreparedIs, PreparedNumber
    <2>8. ~Between'
      BY <1>2, <2>7, NoCallIs DEF Between
    <2>9. MainPass' /\ (Startup' => ~optimize_coding')
      <3>1. optimize_coding' = optimize_coding
        BY <1>1, ImageKept, Zenon
      <3>2. call'.op # "finish"
        BY <1>2, NoCallIs
      <3>3. Startup' = master'.call_pass_startup
        BY DEF Startup
      <3>4. MainPass'
        BY <2>2, <3>2 DEF MainPass
      <3>5. QED
        BY <2>7, <3>1, <3>3, <3>4
    <2>10. CallInv'
      <3>1. /\ (call = NoCall)' /\ CallTyped(call') /\ call'.at = "none" /\ call'.op # "lines"
            /\ call'.op # "raw"
        BY <1>2, NoCallIs
      <3>2. QED
        BY <2>3, <2>5, <2>7, <2>9, <3>1, Zenon DEF CallInv
    <2>11. CountInv'
      <3>1. total_iMCU_rows' \in Nat \ {0}
        BY <1>1, ImageKept, RowsIs DEF IInv
      <3>2. call'.at # "mcu" /\ call'.at # "finish_pass"
        BY <1>2, NoCallIs
      <3>3. /\ CoefTyped(coef') /\ coef'.iMCU_row_num = 0 /\ coef'.MCU_vert_offset = 0
            /\ coef'.mcu_ctr = 0
        BY <2>1, NewCoefIs
      <3>4. QED
        BY <2>3, <2>4, <2>5, <2>6, <2>8, <3>1, <3>2, <3>3, NewScanCount, Zenon
    <2>12. Marker'
      BY <2>5 DEF Marker
    <2>13. QED
      BY <2>4, <2>6, <2>10, <2>11, <2>12, Zenon DEF Course
  <1>5. QED
    BY <1>3, <1>4

LEMMA WriteCoefficientsCourse ==
  ASSUME IInv, IInv', Course, Marker, WriteCoefficients PROVE Course' /\ Marker'
  <1>1. /\ jobs' = jobs /\ job' = job /\ call' = NoCall /\ J.input = "coefs"
        /\ entropy' = entropy
    <2>1. source.state = "COPIED" /\ call = NoCall
      BY Zenon DEF WriteCoefficients, Idle
    <2>2. source.state # "READY"
      BY <2>1
    <2>3. J.input = "coefs"
      BY <2>2, Zenon DEF IInv, PassTypes
    <2>4. QED
      BY <2>1, <2>3, Zenon DEF WriteCoefficients, engine
  <1>2. CASE ~validate_script(script, Len(J.comps))
    <2>1. global_state' = "ERROR"
      BY <1>2, Zenon DEF WriteCoefficients
    <2>2. ~Writing'
      BY <2>1 DEF Writing
    <2>3. QED
      BY <1>1, <2>2, NotWritingCourse, Zenon
  <1>3. CASE validate_script(script, Len(J.comps))
    <2>1. /\ Start("WRCOEFS") /\ master' = NewMaster
          /\ coef' = NewCoef("TRANSCODE", [c \in Comps |-> <<>>])
      BY <1>3, Zenon DEF WriteCoefficients
    <2>2. global_state' = "WRCOEFS" /\ Writing'
      BY <2>1 DEF Start, Writing
    <2>3. RowsInv' /\ MarksInv' /\ file'.scan = 0
      <3>1. coef'.iMCU_row_num = 0
        BY <2>1, NewCoefIs
      <3>2. RowsInv'
        BY <1>1, <2>1, <3>1, StartRows, Zenon DEF IInv
      <3>3. QED
        BY <2>1, <3>2, StartMarks
    <2>4. PassInv'
      BY <1>1, <1>3, <2>1, <2>2, <2>3, FirstPassInv, Zenon
    <2>5. master'.scan = 0 /\ ~master'.call_pass_startup
      BY <2>1 DEF NewMaster
    <2>6. Between' /\ ~MainPass' /\ ~Startup'
      BY <2>2, <2>5 DEF Between, MainPass, Startup
    <2>7. CallInv'
      <3>1. /\ (call = NoCall)' /\ CallTyped(call') /\ call'.at = "none" /\ call'.op # "lines"
            /\ call'.op # "raw"
        BY <1>1, NoCallIs
      <3>2. QED
        BY <2>5, <2>6, <3>1, Zenon DEF CallInv
    <2>8. CountInv' /\ Marker'
      BY <1>1, <2>6, Zenon DEF CountInv, Marker
    <2>9. QED
      BY <2>3, <2>4, <2>7, <2>8, Zenon DEF Course
  <1>4. QED
    BY <1>2, <1>3

(* The steps after which no image is being written.                         *)
LEMMA IdleCourse ==
  ASSUME IInv, Course, Marker,
         \/ NextJob \/ WriteTables \/ ReadCoefficients \/ CopyCriticalParameters \/ Trailer
  PROVE  Course' /\ Marker'
  <1>1. call' = NoCall /\ entropy' = entropy
    BY Zenon DEF NextJob, WriteTables, ReadCoefficients, CopyCriticalParameters, Trailer, Idle, engine
  <1>2. ~Writing'
    BY DEF NextJob, WriteTables, ReadCoefficients, CopyCriticalParameters, Trailer, Idle, Writing
  <1>3. QED
    BY <1>1, <1>2, NotWritingCourse, Zenon
-----------------------------------------------------------------------------
(* A step inside a call leaves the master where it is: before it and after  *)
(* it a pass is under way.                                                  *)
LEMMA StaysInPass ==
  ASSUME IInv, Course,
         Preprocess \/ LinesDone \/ CompressData \/ EncodeMCU \/ SuspendMCU \/ RowCompressed
  PROVE  master' = master /\ ~Between /\ ~Between'
  <1>1. call.at \in {"prep", "compress", "mcu"} /\ master' = master
    BY DEF Preprocess, LinesDone, CompressData, EncodeMCU, SuspendMCU, RowCompressed, MCUStep,
                engine
  <1>2. ~Between /\ call.op \in {"lines", "raw", "finish"} /\ CallTyped(call)
    BY <1>1, Running DEF Course, CallInv
  <1>3. call'.at # "passes"
    <2>1. CASE Preprocess \/ CompressData
      BY <1>1, <1>2, <2>1 DEF Preprocess, CompressData, CallTyped
    <2>2. CASE EncodeMCU
      BY <1>1, <1>2, <2>2 DEF EncodeMCU, MCUStep, CallTyped
    <2>3. CASE LinesDone \/ SuspendMCU
      BY <2>3 DEF LinesDone, SuspendMCU, NoCall
    <2>4. CASE RowCompressed
      <3>1. \E e : call' = [call EXCEPT !.at = "prep", !.row_ctr = e] \/ call' = NoCall
                   \/ call' = [call EXCEPT !.at = "compress"]
                   \/ call' = [call EXCEPT !.at = "finish_pass"]
        <4>1. CASE call.op = "lines"
          BY <2>4, <4>1 DEF RowCompressed
        <4>2. CASE call.op = "raw"
          BY <2>4, <4>2 DEF RowCompressed
        <4>3. CASE call.op = "finish"
          BY <2>4, <4>3 DEF RowCompressed
        <4>4. QED
          BY <1>2, <4>1, <4>2, <4>3
      <3>2. PICK e : call' = [call EXCEPT !.at = "prep", !.row_ctr = e] \/ call' = NoCall
                   \/ call' = [call EXCEPT !.at = "compress"]
                   \/ call' = [call EXCEPT !.at = "finish_pass"]
        BY <3>1
      <3>3. CASE call' = NoCall
        BY <3>3 DEF NoCall
      <3>4. CASE call' # NoCall
        <4>1. \/ call' = [call EXCEPT !.at = "prep", !.row_ctr = e]
              \/ call' = [call EXCEPT !.at = "compress"]
              \/ call' = [call EXCEPT !.at = "finish_pass"]
          BY <3>2, <3>4
        <4>2. DOMAIN call = {"op", "lines", "row_ctr", "at", "y", "x", "room"}
          BY <1>2 DEF CallTyped
        <4>3. QED
          BY <4>1, <4>2
      <3>5. QED
        BY <3>3, <3>4
    <2>5. QED
      BY <2>1, <2>2, <2>3, <2>4
  <1>4. QED
    BY <1>1, <1>2, <1>3, Zenon DEF Between
-----------------------------------------------------------------------------
(* Between two passes the coefficient controller is where the last one left *)
(* it, at the end of the image or, in a transcoder, before its beginning.   *)
LEMMA BetweenCoef ==
  ASSUME IInv, CourseInv, Course', Next
  PROVE  (Writing /\ Between => coef.iMCU_row_num \in 0 .. total_iMCU_rows)'
  <1> SUFFICES ASSUME Writing', Between'
               PROVE  coef'.iMCU_row_num \in 0 .. total_iMCU_rows'
    OBVIOUS
  <1>1. Shape /\ Course /\ Small
    BY Zenon DEF IInv, CourseInv
  <1>2. CASE jobs' = jobs /\ job' = job /\ coef' = coef /\ Writing /\ Between
    <2>1. coef.iMCU_row_num \in 0 .. total_iMCU_rows
      BY <1>1, <1>2, Zenon DEF Small
    <2>2. QED
      BY <1>2, <2>1, ImageKept, Zenon
  <1>3. CASE coef'.iMCU_row_num = 0 /\ jobs' = jobs /\ job' = job
    <2>1. total_iMCU_rows' = total_iMCU_rows
      BY <1>3, ImageKept, Zenon
    <2>2. QED
      BY <1>1, <1>3, <2>1, RowsIs
  <1>4. CASE Preprocess \/ LinesDone \/ CompressData \/ EncodeMCU \/ SuspendMCU \/ RowCompressed
    BY <1>1, <1>4, StaysInPass, Zenon DEF Between, Course
  <1>5. CASE FinishPass
    <2>1. jobs' = jobs /\ job' = job /\ coef' = coef /\ call.at = "finish_pass"
      BY <1>5, Zenon DEF FinishPass, others
    <2>2. Writing /\ ~Between
      BY <1>1, <1>5, FinishPassPass, Zenon DEF Course
    <2>3. coef.iMCU_row_num = total_iMCU_rows
      BY <1>1, <2>1, <2>2, Zenon DEF Course, CountInv
    <2>4. coef'.iMCU_row_num = total_iMCU_rows' /\ total_iMCU_rows' = total_iMCU_rows
      BY <2>1, <2>3, ImageKept, Zenon
    <2>5. QED
      BY <1>1, <2>4, RowsIs
  <1>6. CASE NextPass
    BY <1>1, <1>6, NextPassPass, Zenon DEF Course
  <1>7. CASE StartCompress
    <2>1. jobs' = jobs /\ job' = job
      BY <1>7, Zenon DEF StartCompress
    <2>2. validate_script(script, Len(J.comps))
      BY <1>7 DEF StartCompress, Writing
    <2>3. \E m : coef' = NewCoef(m, NewWhole)
      BY <1>7, <2>2, Zenon DEF StartCompress
    <2>4. QED
      BY <1>3, <2>1, <2>3, NewCoefIs
  <1>8. CASE WriteCoefficients
    <2>1. jobs' = jobs /\ job' = job
      BY <1>8, Zenon DEF WriteCoefficients
    <2>2. validate_script(script, Len(J.comps))
      BY <1>8 DEF WriteCoefficients, Writing
    <2>3. \E w : coef' = NewCoef("TRANSCODE", w)
      BY <1>8, <2>2, Zenon DEF WriteCoefficients
    <2>4. QED
      BY <1>3, <2>1, <2>3, NewCoefIs
  <1>9. CASE WriteMarker
    <2>1. /\ jobs' = jobs /\ job' = job /\ coef' = coef /\ call' = call /\ master' = master
          /\ global_state' = global_state
      BY <1>9, Zenon DEF WriteMarker, engine
    <2>2. Writing /\ Between
      BY <2>1, Zenon DEF Writing, Between
    <2>3. QED
      BY <1>2, <2>1, <2>2
  <1>10. CASE WriteScanlines \/ WriteRawData
    <2>1. /\ PassStartup /\ global_state \in {"SCANNING", "RAW_OK"} /\ call = NoCall
          /\ call'.at \in {"prep", "compress"}
      BY <1>10 DEF WriteScanlines, WriteRawData, Idle, NoCall
    <2>2. master.scan > 0
      BY <2>1 DEF IInv, ScanSelected, Writing
    <2>3. master'.scan = master.scan
      BY <1>1, <2>1 DEF PassStartup, Shape, MasterOK
    <2>4. QED
      BY <1>1, <2>1, <2>2, <2>3 DEF Between, Shape, MasterOK
  <1>11. CASE FinishCompress
    <2>1. /\ jobs' = jobs /\ job' = job /\ coef' = coef /\ master' = master /\ call = NoCall
          /\ global_state \in {"SCANNING", "RAW_OK", "WRCOEFS"}
      BY <1>11 DEF FinishCompress, Idle, engine
    <2>2. call'.at = (IF global_state = "WRCOEFS" THEN "passes" ELSE "finish_pass")
      BY <1>11 DEF FinishCompress, NoCall
    <2>3. Writing
      BY <2>1 DEF Writing
    <2>4. CASE global_state = "WRCOEFS"
      <3>1. call.op # "finish"
        BY <2>1 DEF NoCall
      <3>2. Between
        BY <1>1, <2>3, <2>4, <3>1, Zenon DEF Course, CallInv, Between
      <3>3. QED
        BY <1>2, <2>1, <2>3, <3>2
    <2>5. CASE global_state # "WRCOEFS"
      <3>1. Between
        BY <2>1, <2>2, <2>5 DEF Between
      <3>2. QED
        BY <1>2, <2>1, <2>3, <3>1
    <2>6. QED
      BY <2>4, <2>5
  <1>12. CASE \/ NextJob \/ WriteTables \/ ReadCoefficients \/ CopyCriticalParameters \/ Trailer
    <2>1. ~Writing'
      BY <1>12 DEF NextJob, WriteTables, ReadCoefficients, CopyCriticalParameters, Trailer, Idle, Writing
    <2>2. QED
      BY <2>1
  <1>13. QED
    BY <1>4, <1>5, <1>6, <1>7, <1>8, <1>9, <1>10, <1>11, <1>12, Zenon
    DEF Next, Library, Application

LEMMA NextCourse == ASSUME IInv, IInv', CourseInv, [Next]_vars PROVE CourseInv'
  <1>1. Course /\ Small /\ Marker
    BY Zenon DEF CourseInv, Small, Marker
  <1>2. CASE Next
    <2>1. Course' /\ Marker'
      <3>1. CASE Library
        BY <1>1, <3>1, PreprocessCourse, LinesDoneCourse, CompressDataCourse, EncodeMCUCourse,
           SuspendMCUCourse, RowCompressedCourse, FinishPassCourse, NextPassCourse, IdleCourse, Zenon
        DEF Library
      <3>2. CASE Application
        BY <1>1, <3>2, StartCompressCourse, WriteCoefficientsCourse, WriteMarkerCourse,
           WriteScanlinesCourse, WriteRawDataCourse, FinishCompressCourse, IdleCourse, Zenon
        DEF Application
      <3>3. QED
        BY <1>2, <3>1, <3>2, Zenon DEF Next
    <2>2. (Writing /\ Between => coef.iMCU_row_num \in 0 .. total_iMCU_rows)'
      BY <1>2, <2>1, BetweenCoef, Zenon
    <2>3. entropy'.next_restart_num \in 0 .. 7
      BY <2>1, Zenon DEF Marker
    <2>4. Small'
      BY <1>1, <2>2, <2>3, SmallFrame, Zenon
    <2>5. QED
      BY <2>1, <2>4, Zenon DEF CourseInv
  <1>3. CASE UNCHANGED vars
    <2>1. /\ jobs' = jobs /\ job' = job /\ global_state' = global_state
          /\ next_scanline' = next_scanline /\ call' = call /\ master' = master /\ prep' = prep
          /\ main' = main /\ coef' = coef /\ entropy' = entropy /\ tables' = tables /\ file' = file
      BY <1>3 DEF vars
    <2>2. /\ J' = J /\ script' = script /\ optimize_coding' = optimize_coding
          /\ total_passes' = total_passes /\ MaxV' = MaxV /\ context_rows' = context_rows
          /\ total_iMCU_rows' = total_iMCU_rows
          /\ validate_script(script, Len(J.comps))' = validate_script(script, Len(J.comps))
      BY <2>1, ImageKept, Zenon
    <2>3. /\ Writing' = Writing /\ Between' = Between /\ MainPass' = MainPass /\ Startup' = Startup
          /\ Taken' = Taken /\ Groups' = Groups
      BY <2>1, <2>2, Zenon DEF Writing, Between, MainPass, Startup, Taken, Groups
    <2>4. PassInv'
      BY <1>1, <2>1, <2>3, PassFrame, Zenon DEF Course, IInv
    <2>5. CallInv'
      <3>1. (call = NoCall)' = (call = NoCall)
        BY <2>1, Zenon DEF NoCall
      <3>2. QED
        BY <1>1, <2>1, <2>2, <2>3, <3>1, Zenon DEF Course, CallInv
    <2>6. CountInv'
      BY <1>1, <2>1, <2>3, CountFrame, Zenon DEF Course
    <2>7. RowsInv'
      <3>1. MainTyped(main)' = MainTyped(main) /\ PrepTyped(prep)' = PrepTyped(prep)
        BY <2>1, <2>2, Zenon DEF MainTyped, PrepTyped
      <3>2. (call = NoCall)' = (call = NoCall)
        BY <2>1, Zenon DEF NoCall
      <3>3. RowsInv' = RowsInv
        BY <2>1, <2>2, <2>3, <3>1, <3>2, Zenon DEF RowsInv
      <3>4. QED
        BY <1>1, <3>3, Zenon DEF Course
    <2>8. MarksInv'
      BY <1>1, <2>1, <2>3, MarksFrame, Zenon DEF Course
    <2>9. Small'
      BY <1>1, <2>1, <2>2, <2>3, Zenon DEF Small
    <2>10. QED
      BY <2>4, <2>5, <2>6, <2>7, <2>8, <2>9, Zenon DEF CourseInv, Course
  <1>4. QED
    BY <1>2, <1>3

LEMMA InitCourse == ASSUME Init PROVE CourseInv
  <1>1. ~Writing /\ global_state = "START"
    BY DEF Init, Writing
  <1>2. call = NoCall /\ entropy = NewEntropy(FALSE, 0)
        /\ tables = [s \in Slots |-> [version |-> <<job, 0, 0>>, sent |-> FALSE]]
    BY Zenon DEF Init, Defaults
  <1>3. CallTyped(call) /\ (call = NoCall <=> call.at = "none")
    BY <1>2 DEF CallTyped, NoCall
  <1>4. CallInv
    BY <1>1, <1>3, Zenon DEF CallInv
  <1>5. entropy.next_restart_num \in 0 .. 7
    BY <1>2 DEF NewEntropy
  <1>6. \A s \in Slots : tables[s].sent \in BOOLEAN
    BY <1>2
  <1>7. Small
    BY <1>1, <1>5, <1>6 DEF Small
  <1>8. QED
    BY <1>1, <1>4, <1>7, Zenon DEF CourseInv, Course, PassInv, CountInv, RowsInv, MarksInv
-----------------------------------------------------------------------------
LEMMA CourseHolds == Spec => [](IInv /\ CourseInv)
  <1>1. Init => CourseInv
    BY InitCourse
  <1>2. IInv /\ IInv' /\ CourseInv /\ [Next]_vars => CourseInv'
    BY NextCourse
  <1>3. Spec => []IInv
    BY Invariance
  <1>4. QED
    BY <1>1, <1>2, <1>3, PTL DEF Spec

(* The counters of the compressor stay within the image and its script.     *)
LEMMA CourseTypes == ASSUME IInv, CourseInv PROVE TypeOK
  <1>1. Shape /\ Small /\ PassInv /\ CallInv /\ CountInv /\ RowsInv
    BY Zenon DEF IInv, CourseInv, Course
  <1>2. ASSUME Writing
        PROVE  /\ next_scanline \in 0 .. J.height + MaxV * DCTSIZE
               /\ call.lines \in 0 .. J.height /\ call.row_ctr \in 0 .. call.lines
               /\ master.pass_number \in 0 .. total_passes
               /\ master.scan_number \in 1 .. Len(script) + 1
               /\ prep.rows_to_go \in 0 .. J.height /\ prep.next_buf_row \in 0 .. 3 * MaxV
               /\ main.rowgroup_ctr \in 0 .. DCTSIZE /\ main.cur_iMCU_row \in 0 .. total_iMCU_rows
               /\ coef.iMCU_row_num \in 0 .. total_iMCU_rows
               /\ entropy.next_restart_num \in 0 .. 7
    <2>1. /\ MaxV \in 1 .. 4 /\ MaxV * DCTSIZE \in Nat \ {0} /\ J.height \in Nat \ {0}
          /\ total_iMCU_rows \in Nat \ {0}
      BY <1>1, ImageIs, RowsIs DEF IsImage
    <2>2. /\ next_scanline \in Nat /\ MainTyped(main) /\ PrepTyped(prep)
          /\ main.cur_iMCU_row <= total_iMCU_rows /\ prep.next_buf_row <= 3 * MaxV
          /\ global_state # "SCANNING" => next_scanline <= J.height + MaxV * DCTSIZE - 1
          /\ global_state = "SCANNING" =>
               next_scanline + call.row_ctr + (IF main.suspended THEN 1 ELSE 0) = Taken
      BY <1>1, <1>2, Zenon DEF RowsInv
    <2>3. Taken <= J.height
      BY <2>1, <2>2 DEF Taken, PrepTyped
    <2>4. CallTyped(call)
      BY <1>1 DEF CallInv
    <2>5. next_scanline \in 0 .. J.height + MaxV * DCTSIZE
      <3> DEFINE m == MaxV * DCTSIZE
      <3>1. m \in Nat /\ (global_state # "SCANNING" => next_scanline <= J.height + m - 1)
        BY <2>1, <2>2
      <3> HIDE DEF m
      <3>2. next_scanline \in 0 .. J.height + m
        <4>1. CASE global_state # "SCANNING"
          BY <2>1, <2>2, <3>1, <4>1
        <4>2. CASE global_state = "SCANNING"
          <5>1. call.row_ctr \in Nat
            BY <2>4 DEF CallTyped
          <5>2. Taken \in Int
            BY <2>1, <2>2 DEF Taken, PrepTyped
          <5>3. next_scanline <= Taken
            BY <2>2, <4>2, <5>1, <5>2
          <5>4. QED
            BY <2>1, <2>2, <2>3, <3>1, <5>2, <5>3
        <4>3. QED
          BY <4>1, <4>2
      <3>3. QED
        BY <3>2 DEF m
    <2>6. call.lines \in 0 .. J.height /\ call.row_ctr \in 0 .. call.lines
      <3>1. CASE call.op = "lines"
        <4>1. global_state = "SCANNING" /\ MainPass
          BY <1>1, <1>2, <3>1 DEF CallInv, MainPass
        <4>2. call.row_ctr <= call.lines /\ next_scanline + call.lines <= J.height
          BY <1>1, <1>2, <3>1, <4>1, Zenon DEF RowsInv
        <4>3. QED
          BY <2>1, <2>2, <2>4, <4>2 DEF CallTyped
      <3>2. CASE call.op # "lines"
        BY <2>1, <2>4, <3>2 DEF CallTyped
      <3>3. QED
        BY <3>1, <3>2
    <2>7. master.pass_number \in 0 .. total_passes /\ master.scan_number \in 1 .. Len(script) + 1
      <3>1. validate_script(script, Len(J.comps)) /\ PassOK(master)
        BY <1>1, <1>2, Zenon DEF PassInv
      <3>2. /\ Len(script) \in Nat \ {0}
            /\ total_passes = (IF optimize_coding THEN 2 * Len(script) ELSE Len(script))
        BY <1>1, <3>1, ScriptIs
      <3>3. master.scan_number \in Nat \ {0}
        BY <1>1 DEF Shape, MasterOK
      <3>4. QED
        BY <3>1, <3>2, <3>3 DEF PassOK
    <2>8. prep.rows_to_go \in 0 .. J.height /\ prep.next_buf_row \in 0 .. 3 * MaxV
      BY <2>1, <2>2 DEF PrepTyped
    <2>9. main.rowgroup_ctr \in 0 .. DCTSIZE /\ main.cur_iMCU_row \in 0 .. total_iMCU_rows
      BY <2>1, <2>2 DEF MainTyped
    <2>10. coef.iMCU_row_num \in 0 .. total_iMCU_rows
      <3>1. CASE Between
        BY <1>1, <1>2, <3>1, Zenon DEF Small
      <3>2. CASE ~Between
        <4>1. CoefTyped(coef) /\ coef.iMCU_row_num <= total_iMCU_rows
          BY <1>1, <1>2, <3>2, Zenon DEF CountInv
        <4>2. QED
          BY <2>1, <4>1 DEF CoefTyped
      <3>3. QED
        BY <3>1, <3>2
    <2>11. QED
      BY <1>1, <2>5, <2>6, <2>7, <2>8, <2>9, <2>10, Zenon DEF Small
  <1>3. QED
    BY <1>1, <1>2, Zenon DEF TypeOK, Small

(* Whatever the image, its script and the way it is given, suspended or     *)
(* not, no counter of the compressor leaves its range: the rows taken and   *)
(* reported written, the row groups, the iMCU rows and the passes.          *)
THEOREM CountersInRange == Spec => []TypeOK
  <1>1. IInv /\ CourseInv => TypeOK
    BY CourseTypes
  <1>2. QED
    BY <1>1, CourseHolds, PTL
-----------------------------------------------------------------------------
(* A step of ScansComplete.                                                 *)
ScanStep ==
  /\ file'.scan > file.scan => /\ file'.scan = file.scan + 1
                               /\ file.scan > 0 => Complete
  /\ Writing =>
       (global_state' = "DONE" =>
          /\ file.scan = Len(script) /\ Complete
          /\ file.marks = (IF "COM" = file.marks[2] THEN <<"SOI", "COM", "SOF">>
                           ELSE <<"SOI", "SOF">>) \o [n \in DOMAIN script |-> "SOS"])

(* The markers tell whether the application wrote one.                      *)
LEMMA MarksTell ==
  ASSUME NEW n \in Nat, NEW marks, NEW first \in Firsts, marks = first \o Repeated(n)
  PROVE  first = IF "COM" = marks[2] THEN <<"SOI", "COM", "SOF">> ELSE <<"SOI", "SOF">>
  <1> DEFINE s == Repeated(n)
  <1>1. first \in Seq(Kinds) /\ Len(first) \in {2, 3} /\ s \in Seq(Kinds)
    BY FirstsAre DEF Repeated, Kinds
  <1> HIDE DEF s
  <1>2. marks[2] = first[2]
    <2>1. marks = first \o s
      BY DEF s
    <2>2. Len(s) \in Nat /\ 2 \in 1 .. Len(first) + Len(s) /\ 2 <= Len(first)
      <3>1. Len(s) \in Nat
        BY <1>1, LenProperties
      <3>2. \A k \in Nat, l \in {2, 3} : 2 \in 1 .. l + k /\ 2 <= l
        OBVIOUS
      <3>3. QED
        BY <1>1, <3>1, <3>2, Zenon
    <2>3. (first \o s)[2] = first[2]
      BY <1>1, <2>2, ConcatProperties
    <2>4. QED
      BY <2>1, <2>3
  <1>3. first = <<"SOI", "SOF">> \/ first = <<"SOI", "COM", "SOF">>
    BY DEF Firsts
  <1>4. <<"SOI", "SOF">>[2] = "SOF" /\ <<"SOI", "COM", "SOF">>[2] = "COM"
    OBVIOUS
  <1>5. CASE first = <<"SOI", "SOF">>
    <2>1. marks[2] = "SOF"
      BY <1>2, <1>4, <1>5, Zenon
    <2>2. QED
      BY <1>5, <2>1
  <1>6. CASE first = <<"SOI", "COM", "SOF">>
    <2>1. marks[2] = "COM"
      BY <1>2, <1>4, <1>6, Zenon
    <2>2. QED
      BY <1>6, <2>1
  <1>7. QED
    BY <1>3, <1>5, <1>6

(* A scan begins where the one before it is complete.                       *)
LEMMA NextScanStep ==
  ASSUME IInv, CourseInv, [Next]_vars, file'.scan > file.scan
  PROVE  file'.scan = file.scan + 1 /\ (file.scan > 0 => Complete)
  <1>1. Course /\ FileOK(file) /\ file.scan \in Nat
    BY Zenon DEF CourseInv, IInv, Shape, FileOK
  <1>2. file'.scan # 0 /\ file'.scan # file.scan
    BY <1>1
  <1>3. CASE NextPass
    BY <1>1, <1>2, <1>3, NextPassPass, Zenon DEF Course
  <1>4. CASE WriteScanlines \/ WriteRawData
    <2>1. /\ PassStartup /\ global_state \in {"SCANNING", "RAW_OK"} /\ call = NoCall
      BY <1>4 DEF WriteScanlines, WriteRawData, Idle
    <2>2. Startup /\ Headers(master) /\ Writing
      BY <1>2, <2>1 DEF PassStartup, Startup, Writing
    <2>3. file'.scan = master.scan
      BY <2>2, HeadersAre
    <2>4. ~Between
      BY <2>1, <2>2 DEF IInv, Shape, MasterOK, ScanSelected, Between, NoCall
    <2>5. file.scan = master.scan - 1
      BY <1>1, <2>2, <2>4 DEF Course, PassInv
    <2>6. file.scan < master.scan /\ master.scan = file.scan + 1
      BY <1>1, <2>5 DEF IInv, Shape, MasterOK
    <2>7. file.scan > 0 => Complete
      BY <1>1, <2>2, <2>6, Zenon DEF Course, PassInv
    <2>8. QED
      BY <2>3, <2>6, <2>7
  <1>5. CASE EncodeMCU
    BY <1>1, <1>2, <1>5 DEF EncodeMCU, FileOK
  <1>6. CASE WriteMarker \/ Trailer
    BY <1>1, <1>2, <1>6 DEF WriteMarker, Trailer, FileOK
  <1>7. CASE StartCompress \/ WriteCoefficients
    <2>1. file' = file \/ \E state : Start(state)
      BY <1>7, Zenon DEF StartCompress, WriteCoefficients
    <2>2. QED
      BY <1>2, <2>1, StartMarks
  <1>8. CASE WriteTables
    BY <1>2, <1>8 DEF WriteTables, NewFile
  <1>9. CASE \/ Preprocess \/ LinesDone \/ CompressData \/ SuspendMCU \/ RowCompressed
             \/ FinishPass \/ NextJob \/ ReadCoefficients \/ CopyCriticalParameters \/ FinishCompress
             \/ UNCHANGED vars
    <2>1. file' = file
      BY <1>9 DEF Preprocess, LinesDone, CompressData, SuspendMCU, RowCompressed, FinishPass,
         NextJob, ReadCoefficients, CopyCriticalParameters, FinishCompress, vars, written
    <2>2. QED
      BY <1>2, <2>1
  <1>10. QED
    BY <1>3, <1>4, <1>5, <1>6, <1>7, <1>8, <1>9, Zenon DEF Next, Library, Application

(* The trailer comes after the last scan.                                   *)
LEMMA TrailerStep ==
  ASSUME IInv, CourseInv, [Next]_vars, Writing, global_state' = "DONE"
  PROVE  /\ file.scan = Len(script) /\ Complete
         /\ file.marks = (IF "COM" = file.marks[2] THEN <<"SOI", "COM", "SOF">>
                          ELSE <<"SOI", "SOF">>) \o [n \in DOMAIN script |-> "SOS"]
  <1>1. Trailer
    <2>1. global_state \notin {"START", "DONE"}
      BY DEF Writing
    <2>2. ASSUME Application PROVE FALSE
      BY <2>1, <2>2 DEF Application, NextJob, WriteTables, StartCompress, ReadCoefficients, Start,
         CopyCriticalParameters, WriteCoefficients, WriteMarker, WriteScanlines, WriteRawData,
         FinishCompress, Idle
    <2>3. ASSUME Library, ~Trailer PROVE FALSE
      BY <2>1, <2>3 DEF Library, Preprocess, LinesDone, CompressData, EncodeMCU, SuspendMCU,
         RowCompressed, FinishPass, NextPass
    <2>4. ~UNCHANGED vars
      BY <2>1 DEF vars
    <2>5. QED
      BY <2>2, <2>3, <2>4, Zenon DEF Next
  <1>2. call.at = "passes" /\ master.is_last_pass
    BY <1>1 DEF Trailer
  <1>3. Between /\ Shape /\ PassInv /\ MarksInv
    BY <1>2, Zenon DEF Between, IInv, CourseInv, Course
  <1>4. /\ validate_script(script, Len(J.comps)) /\ PassOK(master)
        /\ master.pass_number = total_passes /\ file.scan = master.scan_number - 1
        /\ file.scan > 0 => Complete
    BY <1>2, <1>3, Zenon DEF PassInv
  <1>5. /\ script \in Seq(Scans) /\ Len(script) \in Nat \ {0}
        /\ total_passes = (IF optimize_coding THEN 2 * Len(script) ELSE Len(script))
    BY <1>3, <1>4, ScriptIs
  <1>6. master.scan_number \in Nat \ {0}
    BY <1>3 DEF Shape, MasterOK
  <1>7. file.scan = Len(script)
    BY <1>4, <1>5, <1>6 DEF PassOK
  <1>8. file.scan > 0 /\ file.scan # 0 /\ file.scan \in Nat
    BY <1>5, <1>7
  <1>9. PICK first \in Firsts : file.marks = first \o Repeated(file.scan)
    BY <1>3, <1>8, Zenon DEF MarksInv, Firsts, Repeated
  <1>10. first = IF "COM" = file.marks[2] THEN <<"SOI", "COM", "SOF">> ELSE <<"SOI", "SOF">>
    BY <1>8, <1>9, MarksTell
  <1>11. Repeated(file.scan) = [n \in DOMAIN script |-> "SOS"]
    <2>1. DOMAIN script = 1 .. file.scan
      BY <1>5, <1>7
    <2>2. QED
      BY <2>1, Zenon DEF Repeated
  <1>12. QED
    BY <1>4, <1>7, <1>8, <1>9, <1>10, <1>11, Zenon

(* Whatever the image, its script and the way it is given, suspended or     *)
(* not: a scan begins when all MCUs of the one before it are written, and   *)
(* the trailer comes after the last scan of the script.                     *)
THEOREM ScansFollow == Spec => ScansComplete
  <1>1. IInv /\ CourseInv /\ [Next]_vars => ScanStep
    BY NextScanStep, TrailerStep, Zenon DEF ScanStep
  <1>2. IInv /\ CourseInv /\ [Next]_vars => [ScanStep]_vars
    BY <1>1
  <1>3. QED
    BY <1>2, CourseHolds, PTL DEF Spec, ScansComplete, ScanStep
-----------------------------------------------------------------------------
(* What the entropy coder keeps of the restart intervals, and what it has   *)
(* written of them.                                                         *)
RestartInv ==
  Writing /\ ~Between /\ ~entropy.gather /\ restart_interval > 0 =>
    IF entropy.counted = 0
    THEN entropy.restarts_to_go = restart_interval /\ entropy.next_restart_num = 0
    ELSE /\ entropy.restarts_to_go =
              restart_interval - 1 - ((entropy.counted - 1) % restart_interval)
         /\ entropy.next_restart_num = ((entropy.counted - 1) \div restart_interval) % 8

(* From the statistics of a scan to the next one the tables are those of it.*)
Gathered ==
  optimize_coding /\ master.scan > 0 /\ (master.pass_type = "output" \/ call.at = "passes")

OptimalInv ==
  Writing /\ Gathered =>
    \A s \in Slots : s \in Uses(Scan) =>
      tables[s].version = <<job, master.scan, Count(Scan)>>

CodingInv == RestartInv /\ RestartsInOrder /\ OptimalInv

(* Division, one step further.                                              *)
LEMMA DivisionUnique ==
  ASSUME NEW m \in Nat, NEW R \in Nat \ {0}, NEW q \in Nat, NEW r \in 0 .. R - 1, m = q * R + r
  PROVE  m \div R = q /\ m % R = r
  <1> DEFINE d == m \div R
             e == m % R
  <1>1. d \in Nat /\ e \in 0 .. R - 1 /\ m = d * R + e
    OBVIOUS
  <1> HIDE DEF d, e
  <1>2. (d + 1) * R = d * R + R /\ (q + 1) * R = q * R + R /\ d * R \in Nat /\ q * R \in Nat
    BY <1>1
  <1>3. d * R < (q + 1) * R /\ q * R < (d + 1) * R
    BY <1>1, <1>2
  <1>4. d < q + 1 /\ q < d + 1
    BY <1>1, <1>3, LessFactor
  <1>5. d = q
    BY <1>1, <1>4
  <1>6. e = r
    BY <1>1, <1>2, <1>5
  <1>7. QED
    BY <1>5, <1>6 DEF d, e

LEMMA DivisionStep ==
  ASSUME NEW m \in Nat, NEW R \in Nat \ {0}
  PROVE  /\ m % R \in 0 .. R - 1 /\ m \div R \in Nat
         /\ m % R # R - 1 => (m + 1) % R = (m % R) + 1 /\ (m + 1) \div R = m \div R
         /\ m % R = R - 1 => (m + 1) % R = 0 /\ (m + 1) \div R = m \div R + 1
  <1> DEFINE q == m \div R
             r == m % R
  <1>1. q \in Nat /\ r \in 0 .. R - 1 /\ m = q * R + r
    OBVIOUS
  <1> HIDE DEF q, r
  <1>2. ASSUME r # R - 1 PROVE (m + 1) % R = r + 1 /\ (m + 1) \div R = q
    <2>1. r + 1 \in 0 .. R - 1 /\ m + 1 = q * R + (r + 1) /\ m + 1 \in Nat
      <3>1. q * R \in Nat
        BY <1>1
      <3>2. QED
        BY <1>1, <1>2, <3>1
    <2>2. QED
      BY <1>1, <2>1, DivisionUnique
  <1>3. ASSUME r = R - 1 PROVE (m + 1) % R = 0 /\ (m + 1) \div R = q + 1
    <2>1. q + 1 \in Nat /\ 0 \in 0 .. R - 1 /\ m + 1 = (q + 1) * R + 0 /\ m + 1 \in Nat
      <3>1. q * R \in Nat /\ (q + 1) * R = q * R + R
        BY <1>1
      <3>2. QED
        BY <1>1, <1>3, <3>1
    <2>2. QED
      BY <2>1, DivisionUnique
  <1>4. QED
    BY <1>1, <1>2, <1>3 DEF q, r

(* The restart interval, in MCUs, of the scan that is selected.             *)
LEMMA IntervalIs ==
  ASSUME Shape, validate_script(script, Len(J.comps)), master.scan \in 1 .. Len(script)
  PROVE  /\ restart_interval \in Nat
         /\ restart_interval = Least(J.restart_in_rows * Across(Scan), 65535)
  <1> DEFINE c == Scan.comps[1]
  <1>1. c \in Comps
    BY ScriptIs DEF Scan
  <1>2. /\ width_in_blocks(c) \in Nat \ {0}
        /\ Ceil(width_in_blocks(c), h(c)) = Ceil(J.width, MaxH * DCTSIZE)
    BY <1>1, BlocksIs
  <1>3. MCUs_per_row = Across(Scan)
    <2>1. CASE Interleaved
      BY <1>2, <2>1, Zenon DEF Across, Wide, MCUs_per_row, Interleaved
    <2>2. CASE ~Interleaved
      <3>1. Across(Scan) = Ceil(width_in_blocks(c), 1)
        BY <2>2, Zenon DEF Across, Wide, Interleaved
      <3>2. Ceil(width_in_blocks(c), 1) = width_in_blocks(c)
        BY <1>2, CeilOne
      <3>3. QED
        BY <2>2, <3>1, <3>2, Zenon DEF MCUs_per_row
    <2>3. QED
      BY <2>1, <2>2
  <1>4. MCUs_per_row \in Nat \ {0} /\ J.restart_in_rows \in Nat
    BY ScanIs, ImageIs DEF IsImage
  <1> DEFINE mcus == MCUs_per_row
             rows == J.restart_in_rows
             both == rows * mcus
  <1>5. restart_interval = IF rows > 0 THEN Least(both, 65535) ELSE 0
    BY DEF restart_interval
  <1>6. mcus \in Nat /\ rows \in Nat /\ both \in Nat /\ (rows = 0 => both = 0)
    BY <1>4
  <1> HIDE DEF mcus, rows, both
  <1>7. restart_interval = Least(both, 65535) /\ restart_interval \in Nat
    BY <1>5, <1>6 DEF Least
  <1>8. QED
    BY <1>3, <1>7 DEF mcus, rows, both

LEMMA IntervalNext ==
  Shape' /\ PassInv' /\ Writing' /\ ~Between' =>
    (/\ restart_interval \in Nat
     /\ restart_interval = Least(J.restart_in_rows * Across(Scan), 65535))'
  <1>1. Shape /\ PassInv /\ Writing /\ ~Between =>
          /\ restart_interval \in Nat
          /\ restart_interval = Least(J.restart_in_rows * Across(Scan), 65535)
    BY InPass, IntervalIs
  <1>2. QED
    BY <1>1, PTL

LEMMA IntervalKept ==
  ASSUME jobs' = jobs, job' = job, master'.scan = master.scan
  PROVE  restart_interval' = restart_interval
  <1>1. MCUs_per_row' = MCUs_per_row /\ J' = J
    BY ScanKept, ImageKept, Zenon
  <1>2. QED
    BY <1>1 DEF restart_interval

(* encode_mcu: what becomes of the restart intervals.                       *)
LEMMA RestartedIs ==
  ASSUME EntropyOK(entropy), entropy' = [Restarted(entropy) EXCEPT !.counted = @ + 1]
  PROVE  /\ entropy'.counted = entropy.counted + 1 /\ entropy'.gather = entropy.gather
         /\ restart_interval # 0 /\ entropy.restarts_to_go # 0 =>
              /\ entropy'.restarts_to_go = entropy.restarts_to_go - 1
              /\ entropy'.next_restart_num = entropy.next_restart_num
         /\ restart_interval # 0 /\ entropy.restarts_to_go = 0 /\ ~entropy.gather =>
              /\ entropy'.restarts_to_go = restart_interval - 1
              /\ entropy'.next_restart_num = (entropy.next_restart_num + 1) % 8
  <1>1. DOMAIN entropy = {"gather", "restarts_to_go", "next_restart_num", "counted"}
    BY DEF EntropyOK
  <1> DEFINE e == Restarted(entropy)
  <1>2. entropy' = [e EXCEPT !.counted = e.counted + 1]
    OBVIOUS
  <1>3. CASE restart_interval = 0
    <2>1. e = entropy
      BY <1>3, Zenon DEF Restarted
    <2> HIDE DEF e
    <2>2. QED
      BY <1>1, <1>2, <1>3, <2>1
  <1>4. CASE restart_interval # 0 /\ entropy.restarts_to_go # 0
    <2>1. e = [entropy EXCEPT !.restarts_to_go = @ - 1]
      BY <1>4, Zenon DEF Restarted
    <2> HIDE DEF e
    <2>2. QED
      BY <1>1, <1>2, <1>4, <2>1
  <1>5. CASE restart_interval # 0 /\ entropy.restarts_to_go = 0
    <2> DEFINE n == IF entropy.gather THEN entropy.next_restart_num
                    ELSE (entropy.next_restart_num + 1) % 8
    <2>1. e = [entropy EXCEPT !.restarts_to_go = restart_interval - 1, !.next_restart_num = n]
      BY <1>5, Zenon DEF Restarted
    <2>2. ~entropy.gather => n = (entropy.next_restart_num + 1) % 8
      OBVIOUS
    <2> HIDE DEF e, n
    <2>3. /\ entropy'.counted = entropy.counted + 1 /\ entropy'.gather = entropy.gather
          /\ entropy'.restarts_to_go = restart_interval - 1 /\ entropy'.next_restart_num = n
      BY <1>1, <1>2, <2>1
    <2>4. QED
      BY <1>5, <2>2, <2>3, Zenon
  <1>6. QED
    BY <1>3, <1>4, <1>5

(* After n MCUs, and the one after them.                                    *)
LEMMA IntervalStep ==
  ASSUME NEW R \in Nat \ {0}, NEW n \in Nat, NEW go, NEW next, NEW go2, NEW next2,
         IF n = 0 THEN go = R /\ next = 0
         ELSE go = R - 1 - ((n - 1) % R) /\ next = ((n - 1) \div R) % 8,
         go # 0 => go2 = go - 1 /\ next2 = next,
         go = 0 => go2 = R - 1 /\ next2 = (next + 1) % 8
  PROVE  /\ go2 = R - 1 - (n % R) /\ next2 = (n \div R) % 8
         /\ (IF go = 0 THEN next ELSE -1) =
              (IF n > 0 /\ n % R = 0 THEN ((n \div R) - 1) % 8 ELSE -1)
  <1>1. CASE n = 0
    <2>1. 0 % R = 0 /\ 0 \div R = 0
      <3>1. 0 = 0 * R + 0 /\ 0 \in 0 .. R - 1
        OBVIOUS
      <3>2. QED
        BY <3>1, DivisionUnique
    <2>2. n % R = 0 /\ n \div R = 0
      BY <1>1, <2>1
    <2> DEFINE a == n % R
               b == n \div R
    <2>3. a = 0 /\ b = 0
      BY <2>2
    <2> HIDE DEF a, b
    <2>4. go2 = R - 1 - a /\ next2 = b % 8
      BY <1>1, <2>3
    <2>5. (IF go = 0 THEN next ELSE -1) = (IF n > 0 /\ a = 0 THEN (b - 1) % 8 ELSE -1)
      BY <1>1
    <2>6. QED
      BY <2>4, <2>5 DEF a, b
  <1>2. CASE n # 0
    <2> DEFINE m == n - 1
               q == m \div R
               r == m % R
               a == n % R
               b == n \div R
    <2>1. m \in Nat /\ m + 1 = n
      BY <1>2
    <2>2. /\ r \in 0 .. R - 1 /\ q \in Nat
          /\ r # R - 1 => (m + 1) % R = r + 1 /\ (m + 1) \div R = q
          /\ r = R - 1 => (m + 1) % R = 0 /\ (m + 1) \div R = q + 1
      BY <2>1, DivisionStep
    <2>3. /\ r # R - 1 => a = r + 1 /\ b = q
          /\ r = R - 1 => a = 0 /\ b = q + 1
      BY <2>1, <2>2
    <2>4. go = R - 1 - r /\ next = q % 8
      BY <1>2
    <2> HIDE DEF m, q, r, a, b
    <2>5. CASE r # R - 1
      <3>1. go # 0 /\ a # 0
        BY <2>2, <2>3, <2>4, <2>5
      <3>2. go2 = R - 1 - a /\ next2 = b % 8
        BY <2>2, <2>3, <2>4, <2>5, <3>1
      <3>3. (IF go = 0 THEN next ELSE -1) = (IF n > 0 /\ a = 0 THEN (b - 1) % 8 ELSE -1)
        BY <3>1
      <3>4. QED
        BY <3>2, <3>3 DEF a, b
    <2>6. CASE r = R - 1
      <3>1. go = 0 /\ a = 0 /\ b = q + 1
        BY <2>2, <2>3, <2>4, <2>6
      <3>2. \A k \in Nat : ((k % 8) + 1) % 8 = (k + 1) % 8 /\ ((k + 1) - 1) % 8 = k % 8
        OBVIOUS
      <3>3. next2 = (q + 1) % 8
        BY <2>2, <2>4, <3>1, <3>2
      <3>4. next = (b - 1) % 8
        BY <2>2, <2>4, <3>1, <3>2
      <3>5. go2 = R - 1 - a /\ next2 = b % 8
        BY <3>1, <3>3
      <3>6. (IF go = 0 THEN next ELSE -1) = (IF n > 0 /\ a = 0 THEN (b - 1) % 8 ELSE -1)
        BY <1>2, <3>1, <3>4
      <3>7. QED
        BY <3>5, <3>6 DEF a, b
    <2>7. QED
      BY <2>5, <2>6
  <1>3. QED
    BY <1>1, <1>2
-----------------------------------------------------------------------------
LEMMA RestartFrame ==
  ASSUME RestartInv, jobs' = jobs, job' = job, master'.scan = master.scan, entropy' = entropy,
         Writing' => Writing, call.at # "passes" \/ call'.at = "passes"
  PROVE  RestartInv'
  <1>1. restart_interval' = restart_interval
    BY IntervalKept, Zenon
  <1>2. ~Between' => ~Between
    BY DEF Between
  <1>3. QED
    BY <1>1, <1>2, Zenon DEF RestartInv

LEMMA NewRestarts ==
  ASSUME NEW gather, entropy' = NewEntropy(gather, restart_interval')
  PROVE  RestartInv'
  <1> DEFINE R == restart_interval'
  <1>1. entropy' = NewEntropy(gather, R)
    OBVIOUS
  <1> HIDE DEF R
  <1>2. entropy'.counted = 0 /\ entropy'.restarts_to_go = R /\ entropy'.next_restart_num = 0
    BY <1>1 DEF NewEntropy
  <1>3. QED
    BY <1>2, Zenon DEF RestartInv, R

LEMMA WrittenFrame ==
  ASSUME RestartsInOrder, jobs' = jobs, job' = job, Writing' => Writing, file'.scan = file.scan,
         file'.mcus = file.mcus, file'.dri = file.dri
  PROVE  RestartsInOrder'
  <1>1. J' = J /\ script' = script /\ MaxV' = MaxV /\ MaxH' = MaxH
    BY ImageKept, Zenon
  <1>2. Across(script[file.scan])' = Across(script[file.scan])
    BY <1>1, Zenon DEF Across, Wide, width_in_blocks, h
  <1>3. \A n : RestartBefore(n)' = RestartBefore(n)
    BY Zenon DEF RestartBefore
  <1> DEFINE due == J.restart_in_rows * Across(script[file.scan])
  <1>4. due' = due
    BY <1>1, <1>2, Zenon
  <1>5. /\ RestartsAreRight(script[file.scan]) <=>
             /\ file.dri = Least(due, 65535)
             /\ \A n \in DOMAIN file.mcus : file.mcus[n].rst = RestartBefore(n - 1)
        /\ RestartsAreRight(script[file.scan])' <=>
             /\ file'.dri = Least(due', 65535)
             /\ \A n \in DOMAIN file'.mcus : file'.mcus[n].rst = RestartBefore(n - 1)'
    BY DEF RestartsAreRight
  <1> HIDE DEF due
  <1>6. RestartsAreRight(script[file.scan]) => RestartsAreRight(script[file.scan])'
    BY <1>3, <1>4, <1>5
  <1>7. QED
    BY <1>6, Zenon DEF RestartsInOrder

(* DRI is written before the scan that needs it.                            *)
LEMMA HeadersRestarts ==
  ASSUME NEW m, Headers(m), IInv', PassInv', Writing', ~Between', master'.scan = m.scan
  PROVE  RestartsInOrder'
  <1>1. /\ file'.scan = master'.scan /\ file'.mcus = <<>>
    BY HeadersAre
  <1>2. file'.dri = restart_interval'
    <2> DEFINE marks == file.marks \o (IF m.scan_number = 1 THEN <<"SOF">> ELSE <<>>) \o <<"SOS">>
               R == restart_interval'
    <2>1. file' = [marks |-> marks, dri |-> R, scan |-> m.scan, mcus |-> <<>>]
      BY Zenon DEF Headers
    <2> HIDE DEF marks, R
    <2>2. file'.dri = R
      BY <2>1
    <2>3. QED
      BY <2>2 DEF R
  <1>3. (restart_interval = Least(J.restart_in_rows * Across(Scan), 65535))'
    <2>1. Shape'
      BY Zenon DEF IInv
    <2>2. QED
      BY <2>1, IntervalNext
  <1>4. Scan' = script'[file'.scan]
    BY <1>1 DEF Scan
  <1>5. \A n : n \notin DOMAIN file'.mcus
    BY <1>1
  <1> DEFINE due == J.restart_in_rows * Across(script[file.scan])
  <1>6. (RestartsAreRight(script[file.scan]) <=>
             /\ file.dri = Least(due, 65535)
             /\ \A n \in DOMAIN file.mcus : file.mcus[n].rst = RestartBefore(n - 1))'
    BY DEF RestartsAreRight
  <1>7. file'.dri = Least(due', 65535)
    BY <1>2, <1>3, <1>4
  <1> HIDE DEF due
  <1>8. RestartsAreRight(script[file.scan])'
    BY <1>5, <1>6, <1>7
  <1>9. QED
    BY <1>8, Zenon DEF RestartsInOrder

LEMMA AppendItems ==
  ASSUME NEW s, IsSequence(s), NEW e
  PROVE  /\ DOMAIN s = 1 .. Len(s) /\ Len(s) \in Nat
         /\ DOMAIN Append(s, e) = 1 .. Len(s) + 1
         /\ \A n \in 1 .. Len(s) : Append(s, e)[n] = s[n]
         /\ Append(s, e)[Len(s) + 1] = e
  <1> DEFINE R == {s[n] : n \in DOMAIN s}
             U == R \cup {e}
  <1>1. s \in Seq(R)
    BY DEF IsSequence
  <1> HIDE DEF R
  <1>2. s \in Seq(U) /\ e \in U
    BY <1>1
  <1> HIDE DEF U
  <1>3. QED
    BY <1>2

(* The restart marker before an MCU is the one that is due.                 *)
LEMMA EncodeRestarts ==
  ASSUME IInv, CourseInv, RestartInv, RestartsInOrder, EncodeMCU
  PROVE  RestartInv' /\ RestartsInOrder'
  <1> DEFINE R == restart_interval
             n == entropy.counted
             go == entropy.restarts_to_go
             next == entropy.next_restart_num
             rst == IF R > 0 /\ go = 0 THEN next ELSE -1
  <1>1. /\ jobs' = jobs /\ job' = job /\ global_state' = global_state /\ master' = master
        /\ call.at = "mcu" /\ entropy' = [Restarted(entropy) EXCEPT !.counted = @ + 1]
    BY Zenon DEF EncodeMCU, MCUStep, others
  <1>2. Shape /\ PassInv /\ CountInv /\ CallInv /\ EntropyOK(entropy) /\ FileOK(file)
    BY Zenon DEF IInv, CourseInv, Course, Shape
  <1>3. Writing /\ ~Between /\ ~Startup /\ Writing'
    <2>1. Writing /\ ~Between /\ ~Startup
      BY <1>1, <1>2, Running
    <2>2. QED
      BY <1>1, <2>1, Zenon DEF Writing
  <1>4. entropy'.counted = n + 1 /\ entropy'.gather = entropy.gather /\ n \in Nat
    BY <1>1, <1>2, <1>3, RestartedIs, Zenon DEF CountInv
  <1>5. R' = R
    BY <1>1, IntervalKept, Zenon
  <1>6. CASE entropy.gather
    <2>1. file' = file
      BY <1>6, Zenon DEF EncodeMCU
    <2>2. RestartsInOrder'
      BY <1>1, <1>3, <2>1, WrittenFrame, Zenon
    <2>3. QED
      BY <1>4, <1>6, <2>2, Zenon DEF RestartInv
  <1>7. CASE ~entropy.gather
    <2>1. \E blocks : file' = [file EXCEPT !.mcus = Append(@, [rst |-> rst, blocks |-> blocks])]
      BY <1>7, Zenon DEF EncodeMCU
    <2>2. PICK blocks : file' = [file EXCEPT !.mcus = Append(@, [rst |-> rst, blocks |-> blocks])]
      BY <2>1
    <2> DEFINE mcu == [rst |-> rst, blocks |-> blocks]
               mcus == Append(file.mcus, mcu)
    <2>3. mcu.rst = rst
      OBVIOUS
    <2>4. file' = [file EXCEPT !.mcus = mcus]
      BY <2>2
    <2> HIDE DEF mcu, mcus
    <2>5. file'.mcus = mcus /\ file'.scan = file.scan /\ file'.dri = file.dri
      BY <1>2, <2>4 DEF FileOK
    <2>6. file.scan = master.scan /\ IsSequence(file.mcus) /\ Len(file.mcus) = n
      BY <1>2, <1>3, <1>7, Zenon DEF PassInv, CountInv
    <2>7. master.scan \in 1 .. Len(script) /\ validate_script(script, Len(J.comps))
      BY <1>2, <1>3, InPass
    <2>8. R \in Nat /\ R = Least(J.restart_in_rows * Across(Scan), 65535)
      BY <1>2, <2>7, IntervalIs
    <2>9. file.scan > 0
      BY <2>6, <2>7
    <2>10. /\ file.dri = Least(J.restart_in_rows * Across(Scan), 65535)
           /\ \A i \in DOMAIN file.mcus : file.mcus[i].rst = RestartBefore(i - 1)
      BY <1>3, <2>6, <2>9 DEF RestartsInOrder, RestartsAreRight, Scan
    <2>11. file.dri = R
      BY <2>8, <2>10
    <2> HIDE DEF R, n, go, next, rst
    <2>12. R > 0 =>
             /\ entropy'.restarts_to_go = R - 1 - (n % R)
             /\ entropy'.next_restart_num = (n \div R) % 8
             /\ (IF go = 0 THEN next ELSE -1) =
                  (IF n > 0 /\ n % R = 0 THEN ((n \div R) - 1) % 8 ELSE -1)
      <3> DEFINE go2 == entropy'.restarts_to_go
                 next2 == entropy'.next_restart_num
      <3> SUFFICES ASSUME R > 0
                   PROVE  /\ go2 = R - 1 - (n % R) /\ next2 = (n \div R) % 8
                          /\ (IF go = 0 THEN next ELSE -1) =
                               (IF n > 0 /\ n % R = 0 THEN ((n \div R) - 1) % 8 ELSE -1)
        OBVIOUS
      <3>1. IF n = 0 THEN go = R /\ next = 0
            ELSE go = R - 1 - ((n - 1) % R) /\ next = ((n - 1) \div R) % 8
        BY <1>3, <1>7 DEF RestartInv, R, n, go, next
      <3>2. R # 0 /\ go # 0 => go2 = go - 1 /\ next2 = next
        BY <1>1, <1>2, RestartedIs DEF R, go, next
      <3>3. R # 0 /\ go = 0 => go2 = R - 1 /\ next2 = (next + 1) % 8
        BY <1>1, <1>2, <1>7, RestartedIs DEF R, go, next
      <3>4. R \in Nat \ {0} /\ n \in Nat
        BY <1>4, <2>8
      <3> HIDE DEF go2, next2
      <3>5. /\ go # 0 => go2 = go - 1 /\ next2 = next
            /\ go = 0 => go2 = R - 1 /\ next2 = (next + 1) % 8
        BY <3>2, <3>3, <3>4
      <3>6. QED
        BY <3>1, <3>4, <3>5, IntervalStep
    <2>13. rst = RestartBefore(n)
      <3>1. RestartBefore(n) = IF R > 0 /\ n > 0 /\ n % R = 0 THEN ((n \div R) - 1) % 8 ELSE -1
        BY <2>11 DEF RestartBefore
      <3>2. CASE R > 0
        <4>1. rst = IF go = 0 THEN next ELSE -1
          BY <3>2, Zenon DEF rst
        <4>2. RestartBefore(n) = IF n > 0 /\ n % R = 0 THEN ((n \div R) - 1) % 8 ELSE -1
          BY <3>1, <3>2, Zenon
        <4>3. QED
          BY <2>12, <3>2, <4>1, <4>2, Zenon
      <3>3. CASE ~(R > 0)
        BY <3>1, <3>3, Zenon DEF rst
      <3>4. QED
        BY <3>2, <3>3
    <2>14. RestartInv'
      <3> DEFINE m == entropy'.counted
      <3>1. m # 0 /\ m - 1 = n
        BY <1>4
      <3> HIDE DEF m
      <3>2. ASSUME R > 0
            PROVE  /\ entropy'.restarts_to_go = R - 1 - ((m - 1) % R)
                   /\ entropy'.next_restart_num = ((m - 1) \div R) % 8
        BY <2>12, <3>1, <3>2, Zenon
      <3>3. restart_interval' = R
        BY <1>5 DEF R
      <3>4. QED
        BY <3>1, <3>2, <3>3, Zenon DEF RestartInv, m
    <2>15. RestartsInOrder'
      <3>1. /\ DOMAIN file.mcus = 1 .. n /\ DOMAIN mcus = 1 .. n + 1
            /\ \A i \in 1 .. n : mcus[i] = file.mcus[i]
            /\ mcus[n + 1] = mcu
        BY <2>6, AppendItems DEF mcus
      <3>2. \A i \in 1 .. n + 1 : mcus[i].rst = RestartBefore(i - 1)
        <4> SUFFICES ASSUME NEW i \in 1 .. n + 1 PROVE mcus[i].rst = RestartBefore(i - 1)
          OBVIOUS
        <4>1. CASE i = n + 1
          <5>1. i - 1 = n
            BY <1>4, <4>1
          <5>2. QED
            BY <2>3, <2>13, <3>1, <4>1, <5>1, Zenon
        <4>2. CASE i # n + 1
          <5>1. i \in 1 .. n
            BY <1>4, <4>2
          <5>2. i \in DOMAIN file.mcus /\ mcus[i] = file.mcus[i]
            BY <3>1, <5>1
          <5>3. file.mcus[i].rst = RestartBefore(i - 1)
            BY <2>10, <5>2
          <5>4. QED
            BY <5>2, <5>3
        <4>3. QED
          BY <4>1, <4>2
      <3>3. \A i : RestartBefore(i)' = RestartBefore(i)
        BY <2>5, Zenon DEF RestartBefore
      <3>4. J' = J /\ script' = script /\ MaxH' = MaxH
        BY <1>1, ImageKept, Zenon
      <3> DEFINE due == J.restart_in_rows * Across(script[file.scan])
      <3>5. due' = due
        BY <2>5, <3>4, Zenon DEF Across, Wide, width_in_blocks, h
      <3>6. file.dri = Least(due, 65535)
        BY <1>3, <2>9 DEF RestartsInOrder, RestartsAreRight
      <3>7. /\ \A i \in DOMAIN file'.mcus : file'.mcus[i].rst = RestartBefore(i - 1)'
        BY <2>5, <3>1, <3>2, <3>3, Zenon
      <3>8. RestartsAreRight(script[file.scan])' <=>
              /\ file'.dri = Least(due', 65535)
              /\ \A i \in DOMAIN file'.mcus : file'.mcus[i].rst = RestartBefore(i - 1)'
        BY DEF RestartsAreRight
      <3> HIDE DEF due
      <3>9. RestartsAreRight(script[file.scan])'
        BY <2>5, <3>5, <3>6, <3>7, <3>8
      <3>10. QED
        BY <3>9, Zenon DEF RestartsInOrder
    <2>16. QED
      BY <2>14, <2>15
  <1>8. QED
    BY <1>6, <1>7

LEMMA NextRestarts ==
  ASSUME IInv, IInv', CourseInv, CourseInv', RestartInv, RestartsInOrder, [Next]_vars
  PROVE  RestartInv' /\ RestartsInOrder'
  <1>1. /\ MasterOK(master) /\ FileOK(file) /\ CallInv /\ PassInv' /\ Course /\ Shape /\ CallOK(call)
    BY Zenon DEF IInv, Shape, CourseInv, Course
  <1>2. CASE EncodeMCU
    BY <1>2, EncodeRestarts
  <1>3. CASE \/ Preprocess \/ LinesDone \/ CompressData \/ SuspendMCU \/ RowCompressed
             \/ FinishPass \/ FinishCompress \/ WriteMarker \/ UNCHANGED vars
    <2>1. jobs' = jobs /\ job' = job /\ entropy' = entropy
      BY <1>3 DEF Preprocess, LinesDone, CompressData, SuspendMCU, RowCompressed, FinishPass,
                  FinishCompress, WriteMarker, vars, others, engine
    <2>2. global_state' = global_state \/ global_state' = "ERROR"
      BY <1>3 DEF Preprocess, LinesDone, CompressData, SuspendMCU, RowCompressed, FinishPass,
                  FinishCompress, WriteMarker, vars
    <2>3. Writing' => Writing
      BY <2>2 DEF Writing
    <2>4. master'.scan = master.scan
      <3>1. CASE FinishPass
        BY <1>1, <3>1, AfterPassNumber DEF FinishPass
      <3>2. CASE ~FinishPass
        BY <1>3, <3>2 DEF Preprocess, LinesDone, CompressData, SuspendMCU, RowCompressed,
                          FinishCompress, WriteMarker, vars, engine
      <3>3. QED
        BY <3>1, <3>2
    <2>5. file'.scan = file.scan /\ file'.mcus = file.mcus /\ file'.dri = file.dri
      <3>1. CASE WriteMarker
        BY <1>1, <3>1 DEF WriteMarker, FileOK
      <3>2. CASE ~WriteMarker
        <4>1. file' = file
          BY <1>3, <3>2 DEF Preprocess, LinesDone, CompressData, SuspendMCU, RowCompressed,
                            FinishCompress, FinishPass, vars, written
        <4>2. QED
          BY <4>1
      <3>3. QED
        BY <3>1, <3>2
    <2>6. call.at # "passes" \/ call'.at = "passes"
      <3>1. CASE WriteMarker \/ UNCHANGED vars
        BY <3>1 DEF WriteMarker, vars
      <3>2. CASE FinishCompress
        BY <3>2 DEF FinishCompress, Idle, NoCall
      <3>3. QED
        BY <1>3, <3>1, <3>2 DEF Preprocess, LinesDone, CompressData, SuspendMCU, RowCompressed,
           FinishPass, MCUStep
    <2>7. QED
      BY <2>1, <2>3, <2>4, <2>5, <2>6, RestartFrame, WrittenFrame, Zenon
  <1>4. CASE NextPass
    <2>1. /\ jobs' = jobs /\ job' = job /\ master' = Prepared(master)
          /\ entropy' = NewEntropy(master'.pass_type = "huff_opt", restart_interval')
          /\ IF master'.pass_type = "output" THEN Headers(master') ELSE file' = file
      BY <1>4, Zenon DEF NextPass, others
    <2>2. PassInv' /\ Writing /\ Writing' /\ ~Between'
      BY <1>1, <1>4, NextPassPass, Zenon DEF Course
    <2>3. RestartInv'
      BY <2>1, NewRestarts, Zenon
    <2>4. CASE master'.pass_type = "output"
      <3>1. Headers(master')
        BY <2>1, <2>4, Zenon
      <3>2. RestartsInOrder'
        BY <2>2, <3>1, HeadersRestarts
      <3>3. QED
        BY <2>3, <3>2
    <2>5. CASE master'.pass_type # "output"
      <3>1. file' = file
        BY <2>1, <2>5, Zenon
      <3>2. RestartsInOrder'
        BY <2>1, <2>2, <3>1, WrittenFrame, Zenon
      <3>3. QED
        BY <2>3, <3>2
    <2>6. QED
      BY <2>4, <2>5
  <1>5. CASE StartCompress \/ WriteCoefficients
    <2>1. CASE ~Writing'
      BY <2>1, Zenon DEF RestartInv, RestartsInOrder
    <2>2. CASE Writing'
      <3>1. validate_script(script, Len(J.comps))
        BY <1>5, <2>2 DEF StartCompress, WriteCoefficients, Writing
      <3>2. \E state : Start(state)
        BY <1>5, <3>1, Zenon DEF StartCompress, WriteCoefficients
      <3>3. file'.scan = 0
        BY <3>2, StartMarks
      <3>4. ~(file'.scan > 0)
        BY <3>3
      <3>5. RestartInv'
        <4>1. CASE StartCompress
          <5>1. entropy' = NewEntropy(optimize_coding, restart_interval')
            BY <3>1, <4>1, Zenon DEF StartCompress
          <5>2. QED
            BY <5>1, NewRestarts, Zenon
        <4>2. CASE WriteCoefficients
          <5>1. master' = NewMaster
            BY <3>1, <4>2, Zenon DEF WriteCoefficients
          <5>2. Between'
            BY <5>1 DEF NewMaster, Between
          <5>3. QED
            BY <5>2, Zenon DEF RestartInv
        <4>3. QED
          BY <1>5, <4>1, <4>2
      <3>6. QED
        BY <3>4, <3>5, Zenon DEF RestartsInOrder
    <2>3. QED
      BY <2>1, <2>2
  <1>6. CASE WriteScanlines \/ WriteRawData
    <2>1. /\ jobs' = jobs /\ job' = job /\ entropy' = entropy /\ global_state' = global_state
          /\ PassStartup /\ global_state \in {"SCANNING", "RAW_OK"} /\ call = NoCall
          /\ call'.at \in {"prep", "compress"}
      BY <1>6 DEF WriteScanlines, WriteRawData, Idle, NoCall
    <2>2. Writing /\ Writing' /\ call.at = "none"
      BY <2>1 DEF Writing, NoCall
    <2>3. master'.scan = master.scan
      BY <1>1, <2>1 DEF PassStartup, MasterOK
    <2>4. master.scan > 0
      BY <2>1, <2>2 DEF IInv, ScanSelected
    <2>5. ~Between'
      BY <1>1, <2>1, <2>3, <2>4 DEF Between, MasterOK
    <2>6. RestartInv'
      <3>1. call.at # "passes"
        BY <2>2
      <3>2. QED
        BY <2>1, <2>2, <2>3, <3>1, RestartFrame, Zenon
    <2>7. RestartsInOrder'
      <3>1. CASE master.call_pass_startup
        <4>1. Headers(master)
          BY <2>1, <3>1, Zenon DEF PassStartup
        <4>2. QED
          BY <1>1, <2>2, <2>3, <2>5, <4>1, HeadersRestarts
      <3>2. CASE ~master.call_pass_startup
        <4>1. file' = file
          BY <2>1, <3>2, Zenon DEF PassStartup
        <4>2. QED
          BY <2>1, <2>2, <4>1, WrittenFrame, Zenon
      <3>3. QED
        BY <3>1, <3>2
    <2>8. QED
      BY <2>6, <2>7
  <1>7. CASE \/ NextJob \/ WriteTables \/ ReadCoefficients \/ CopyCriticalParameters \/ Trailer
    <2>1. ~Writing'
      BY <1>7 DEF NextJob, WriteTables, ReadCoefficients, CopyCriticalParameters, Trailer, Idle, Writing
    <2>2. QED
      BY <2>1, Zenon DEF RestartInv, RestartsInOrder
  <1>8. QED
    BY <1>2, <1>3, <1>4, <1>5, <1>6, <1>7, Zenon DEF Next, Library, Application
-----------------------------------------------------------------------------
(* From the statistics of a scan to the next scan its tables stay.          *)
LEMMA ScanUsesKept ==
  ASSUME jobs' = jobs, job' = job, master'.scan = master.scan
  PROVE  Uses(Scan)' = Uses(Scan)
  <1>1. Scan' = Scan /\ J' = J /\ progressive' = progressive
    BY ParametersKept, Zenon DEF Scan
  <1>2. QED
    BY <1>1 DEF Uses

LEMMA OptimalFrame ==
  ASSUME OptimalInv, jobs' = jobs, job' = job, master'.scan = master.scan,
         Writing' /\ Gathered' => Writing /\ Gathered,
         \A s \in Slots : tables'[s].version = tables[s].version
  PROVE  OptimalInv'
  <1>1. Uses(Scan)' = Uses(Scan) /\ Count(Scan)' = Count(Scan)
    BY ScanUsesKept, ScanKept, Zenon
  <1>2. QED
    BY <1>1, Zenon DEF OptimalInv

(* Sending a table does not change it.                                      *)
LEMMA EmitVersions ==
  ASSUME TablesOK(tables), NEW S, Emit(S)
  PROVE  \A s \in Slots : tables'[s].version = tables[s].version
  <1> TAKE s \in Slots
  <1>1. tables'[s] = IF s \in S THEN [tables[s] EXCEPT !.sent = TRUE] ELSE tables[s]
    BY Zenon DEF Emit
  <1>2. DOMAIN tables[s] = {"version", "sent"}
    BY DEF TablesOK
  <1>3. QED
    BY <1>1, <1>2

(* A scan whose statistics pass is skipped is coded without tables.         *)
LEMMA SkipsUses ==
  ASSUME Shape, validate_script(script, Len(J.comps)), NEW n \in 1 .. Len(script),
         script[n].Ss = 0, script[n].Ah # 0
  PROVE  Uses(script[n]) = {}
  <1>1. n \in DOMAIN script
    BY ScriptIs
  <1>2. GoodScan(script, n, Len(J.comps))
    BY <1>1, Zenon DEF validate_script
  <1>3. progressive
    BY <1>2, Zenon DEF GoodScan, Sequential, progressive
  <1>4. QED
    BY <1>3 DEF Uses

LEMMA SelectedNext ==
  Shape' /\ PassInv' /\ Writing' /\ ~Between' =>
    (master.scan \in 1 .. Len(script) /\ validate_script(script, Len(J.comps)))'
  <1>1. Shape /\ PassInv /\ Writing /\ ~Between =>
          master.scan \in 1 .. Len(script) /\ validate_script(script, Len(J.comps))
    BY InPass, Zenon
  <1>2. QED
    BY <1>1, PTL

LEMMA FinishPassOptimal == ASSUME IInv, CourseInv, OptimalInv, FinishPass PROVE OptimalInv'
  <1>1. /\ jobs' = jobs /\ job' = job /\ call.at = "finish_pass" /\ master' = AfterPass(master)
        /\ tables' = (IF entropy.gather THEN Optimal ELSE tables) /\ global_state' = global_state
    BY Zenon DEF FinishPass, others
  <1>2. Writing /\ ~Between
    BY <1>1, FinishPassPass, Zenon DEF CourseInv, Course
  <1>3. master'.scan = master.scan
    BY <1>1, AfterPassNumber DEF IInv, Shape
  <1>4. optimize_coding' = optimize_coding /\ job' = job
    BY <1>1, ImageKept, Zenon
  <1>5. CASE entropy.gather
    <2>1. entropy.counted = Count(Scan)
      BY <1>1, <1>2, Zenon DEF CourseInv, Course, CountInv
    <2>2. Uses(Scan)' = Uses(Scan) /\ Count(Scan)' = Count(Scan)
      BY <1>1, <1>3, ScanUsesKept, ScanKept, Zenon
    <2>3. ASSUME NEW s \in Slots, s \in Uses(Scan)
          PROVE  tables'[s].version = <<job, master.scan, Count(Scan)>>
      <3>1. tables'[s] = [version |-> <<job, master.scan, entropy.counted>>, sent |-> FALSE]
        BY <1>1, <1>5, <2>3, Zenon DEF Optimal
      <3>2. QED
        BY <2>1, <3>1
    <2>4. QED
      BY <1>1, <1>3, <2>2, <2>3, Zenon DEF OptimalInv
  <1>6. CASE ~entropy.gather
    <2>1. Writing' /\ Gathered' => Writing /\ Gathered
      <3>1. SUFFICES ASSUME optimize_coding', master'.scan > 0 PROVE Gathered
        BY <1>2, Zenon DEF Gathered
      <3>2. ~(master.pass_type = "huff_opt" \/ (master.pass_type = "main" /\ optimize_coding))
        BY <1>2, <1>6, Zenon DEF CourseInv, Course, PassInv
      <3>3. master.pass_type = "output"
        BY <1>4, <3>1, <3>2 DEF IInv, Shape, MasterOK
      <3>4. QED
        BY <1>3, <1>4, <3>1, <3>3, Zenon DEF Gathered
    <2>2. tables' = tables
      BY <1>1, <1>6, Zenon
    <2>3. QED
      BY <1>1, <1>3, <2>1, <2>2, OptimalFrame, Zenon
  <1>7. QED
    BY <1>5, <1>6

LEMMA NextPassOptimal == ASSUME IInv, IInv', CourseInv, CourseInv', OptimalInv, NextPass PROVE OptimalInv'
  <1>1. /\ jobs' = jobs /\ job' = job /\ call.at = "passes" /\ master' = Prepared(master)
        /\ call' = [call EXCEPT !.at = "compress"]
        /\ IF master'.pass_type = "output" THEN Headers(master') ELSE tables' = tables
    BY Zenon DEF NextPass, others
  <1>2. Writing /\ Writing' /\ ~Between'
    BY <1>1, NextPassPass, Zenon DEF CourseInv, Course
  <1>3. SUFFICES ASSUME Gathered' PROVE OptimalInv'
    BY Zenon DEF OptimalInv
  <1>4. master'.scan \in 1 .. Len(script') /\ validate_script(script', Len(J'.comps))
    BY <1>2, SelectedNext, Zenon DEF IInv, CourseInv, Course
  <1>5. /\ script' = script /\ J' = J /\ optimize_coding' = optimize_coding
    BY <1>1, ImageKept, Zenon
  <1>6. call'.at = "compress"
    BY <1>1 DEF IInv, Shape, CallOK
  <1>7. master'.pass_type = "output" /\ optimize_coding /\ master'.scan > 0
    BY <1>3, <1>5, <1>6 DEF Gathered
  <1>8. /\ master'.pass_type = (IF SkipsOptimization(master) THEN "output" ELSE master.pass_type)
        /\ master'.scan = (IF master.pass_type # "output" \/ ~optimize_coding
                           THEN master.scan_number ELSE master.scan)
    BY <1>1, PreparedIs DEF IInv, Shape
  <1>9. CASE SkipsOptimization(master)
    <2>1. master'.scan = master.scan_number
      BY <1>8, <1>9 DEF SkipsOptimization
    <2>2. script[master'.scan].Ss = 0 /\ script[master'.scan].Ah # 0
      BY <1>9, <2>1, Zenon DEF SkipsOptimization
    <2>3. Uses(script[master'.scan]) = {}
      <3>1. master'.scan \in 1 .. Len(script) /\ validate_script(script, Len(J.comps))
        BY <1>4, <1>5, Zenon
      <3>2. Shape
        BY Zenon DEF IInv
      <3>3. QED
        BY <2>2, <3>1, <3>2, SkipsUses
    <2>4. Uses(Scan)' = {}
      <3>1. Scan' = script[master'.scan] /\ J' = J /\ progressive' = progressive
        BY <1>1, ParametersKept, Zenon DEF Scan
      <3>2. Uses(Scan)' = Uses(script[master'.scan])
        BY <3>1 DEF Uses
      <3>3. QED
        BY <2>3, <3>2
    <2>5. QED
      BY <2>4 DEF OptimalInv
  <1>10. CASE ~SkipsOptimization(master)
    <2>1. master.pass_type = "output" /\ master'.scan = master.scan
      BY <1>7, <1>8, <1>10
    <2>2. Gathered
      BY <1>1, <1>7, <2>1, Zenon DEF Gathered
    <2>3. Headers(master')
      BY <1>1, <1>7, Zenon
    <2>4. \A s \in Slots : tables'[s].version = tables[s].version
      <3>1. \E S : Emit(S)
        BY <2>3, Zenon DEF Headers
      <3>2. TablesOK(tables)
        BY Zenon DEF IInv, Shape
      <3>3. QED
        BY <3>1, <3>2, EmitVersions
    <2>5. QED
      BY <1>1, <1>2, <2>1, <2>2, <2>4, OptimalFrame, Zenon
  <1>11. QED
    BY <1>9, <1>10

LEMMA NextOptimal ==
  ASSUME IInv, IInv', CourseInv, CourseInv', OptimalInv, [Next]_vars
  PROVE  OptimalInv'
  <1>1. /\ MasterOK(master) /\ Shape /\ TablesOK(tables) /\ CallInv /\ Course
    BY Zenon DEF IInv, Shape, CourseInv, Course
  <1>2. CASE FinishPass
    BY <1>2, FinishPassOptimal
  <1>3. CASE NextPass
    BY <1>3, NextPassOptimal
  <1>4. CASE Preprocess \/ LinesDone \/ CompressData \/ EncodeMCU \/ SuspendMCU \/ RowCompressed
    <2>1. master' = master /\ ~Between /\ ~Between'
      BY <1>1, <1>4, StaysInPass
    <2>2. jobs' = jobs /\ job' = job /\ tables' = tables
      BY <1>4 DEF Preprocess, LinesDone, CompressData, EncodeMCU, SuspendMCU, RowCompressed,
                  others, written
    <2>3. global_state' = global_state \/ global_state' = "ERROR"
      BY <1>4 DEF Preprocess, LinesDone, CompressData, EncodeMCU, SuspendMCU, RowCompressed
    <2>4. Writing' => Writing
      BY <2>3 DEF Writing
    <2>5. Gathered' => Gathered
      <3>1. optimize_coding' = optimize_coding
        BY <2>2, ImageKept, Zenon
      <3>2. QED
        BY <2>1, <3>1, Zenon DEF Gathered, Between
    <2>6. QED
      BY <2>1, <2>2, <2>4, <2>5, OptimalFrame, Zenon
  <1>5. CASE WriteMarker \/ UNCHANGED vars
    <2>1. /\ jobs' = jobs /\ job' = job /\ tables' = tables /\ master' = master /\ call' = call
          /\ global_state' = global_state
      BY <1>5 DEF WriteMarker, vars, engine
    <2>2. optimize_coding' = optimize_coding
      BY <2>1, ImageKept, Zenon
    <2>3. Writing' = Writing /\ Gathered' = Gathered
      BY <2>1, <2>2, Zenon DEF Writing, Gathered
    <2>4. QED
      BY <2>1, <2>3, OptimalFrame, Zenon
  <1>6. CASE StartCompress
    <2>1. CASE ~Writing'
      BY <2>1, Zenon DEF OptimalInv
    <2>2. CASE Writing'
      <3>1. validate_script(script, Len(J.comps))
        BY <1>6, <2>2 DEF StartCompress, Writing
      <3>2. master' = Prepared(NewMaster) /\ call' = call /\ call = NoCall /\ J.input # "coefs"
        BY <1>6, <3>1 DEF StartCompress, Idle
      <3>3. NewMaster.pass_type = "main" /\ MasterOK(NewMaster)
        BY <3>2 DEF NewMaster, MasterOK
      <3>4. master'.pass_type = "main"
        BY <3>2, <3>3, PreparedIs DEF SkipsOptimization
      <3>5. ~Gathered'
        BY <3>2, <3>4 DEF Gathered, NoCall
      <3>6. QED
        BY <3>5, Zenon DEF OptimalInv
    <2>3. QED
      BY <2>1, <2>2
  <1>7. CASE WriteCoefficients
    <2>1. CASE ~Writing'
      BY <2>1, Zenon DEF OptimalInv
    <2>2. CASE Writing'
      <3>1. validate_script(script, Len(J.comps))
        BY <1>7, <2>2 DEF WriteCoefficients, Writing
      <3>2. master' = NewMaster
        BY <1>7, <3>1, Zenon DEF WriteCoefficients
      <3>3. ~(master'.scan > 0)
        BY <3>2 DEF NewMaster
      <3>4. QED
        BY <3>3, Zenon DEF OptimalInv, Gathered
    <2>3. QED
      BY <2>1, <2>2
  <1>8. CASE WriteScanlines \/ WriteRawData
    <2>1. /\ jobs' = jobs /\ job' = job /\ global_state' = global_state /\ PassStartup
          /\ call'.at \in {"prep", "compress"}
      BY <1>8 DEF WriteScanlines, WriteRawData, Idle, NoCall
    <2>2. master'.scan = master.scan /\ master'.pass_type = master.pass_type
      BY <1>1, <2>1 DEF PassStartup, MasterOK
    <2>3. \A s \in Slots : tables'[s].version = tables[s].version
      <3>1. CASE master.call_pass_startup
        <4>1. \E S : Emit(S)
          BY <2>1, <3>1, Zenon DEF PassStartup, Headers
        <4>2. QED
          BY <1>1, <4>1, EmitVersions
      <3>2. CASE ~master.call_pass_startup
        <4>1. tables' = tables
          BY <2>1, <3>2, Zenon DEF PassStartup
        <4>2. QED
          BY <4>1
      <3>3. QED
        BY <3>1, <3>2
    <2>4. optimize_coding' = optimize_coding
      BY <2>1, ImageKept, Zenon
    <2>5. call'.at # "passes"
      BY <2>1
    <2>6. Writing' = Writing /\ (Gathered' => Gathered)
      BY <2>1, <2>2, <2>4, <2>5, Zenon DEF Writing, Gathered
    <2>7. QED
      BY <2>1, <2>2, <2>3, <2>6, OptimalFrame, Zenon
  <1>9. CASE FinishCompress
    <2>1. /\ jobs' = jobs /\ job' = job /\ master' = master /\ call = NoCall /\ tables' = tables
          /\ global_state \in {"SCANNING", "RAW_OK", "WRCOEFS"} /\ global_state' = global_state
      BY <1>9 DEF FinishCompress, Idle, engine
    <2>2. call'.at = (IF global_state = "WRCOEFS" THEN "passes" ELSE "finish_pass")
      BY <1>9 DEF FinishCompress, NoCall
    <2>3. Writing /\ Writing'
      BY <2>1 DEF Writing
    <2>4. optimize_coding' = optimize_coding
      BY <2>1, ImageKept, Zenon
    <2>5. Gathered' => Gathered
      <3>1. CASE global_state = "WRCOEFS"
        <4>1. call.op # "finish"
          BY <2>1 DEF NoCall
        <4>2. master.scan = 0
          BY <1>1, <2>3, <3>1, <4>1, Zenon DEF CallInv
        <4>3. ~(master'.scan > 0)
          BY <2>1, <4>2
        <4>4. QED
          BY <4>3, Zenon DEF Gathered
      <3>2. CASE global_state # "WRCOEFS"
        <4>1. call'.at # "passes"
          BY <2>2, <3>2
        <4>2. QED
          BY <2>1, <2>4, <4>1, Zenon DEF Gathered
      <3>3. QED
        BY <3>1, <3>2
    <2>6. QED
      BY <2>1, <2>3, <2>5, OptimalFrame, Zenon
  <1>10. CASE \/ NextJob \/ WriteTables \/ ReadCoefficients \/ CopyCriticalParameters \/ Trailer
    <2>1. ~Writing'
      BY <1>10 DEF NextJob, WriteTables, ReadCoefficients, CopyCriticalParameters, Trailer, Idle, Writing
    <2>2. QED
      BY <2>1, Zenon DEF OptimalInv
  <1>11. QED
    BY <1>2, <1>3, <1>4, <1>5, <1>6, <1>7, <1>8, <1>9, <1>10, Zenon DEF Next, Library, Application
-----------------------------------------------------------------------------
LEMMA CodingHolds == Spec => [](IInv /\ CourseInv /\ CodingInv)
  <1>1. Init => CodingInv
    <2>1. SUFFICES ASSUME Init PROVE CodingInv
      OBVIOUS
    <2>2. ~Writing
      BY <2>1 DEF Init, Writing
    <2>3. QED
      BY <2>2, Zenon DEF CodingInv, RestartInv, RestartsInOrder, OptimalInv
  <1>2. IInv /\ IInv' /\ CourseInv /\ CourseInv' /\ CodingInv /\ [Next]_vars => CodingInv'
    BY NextRestarts, NextOptimal DEF CodingInv
  <1>3. Spec => [](IInv /\ CourseInv)
    BY CourseHolds
  <1>4. QED
    BY <1>1, <1>2, <1>3, PTL DEF Spec

(* The lines that were reported written are through the entropy coder.      *)
LEMMA LinesAreCoded == ASSUME IInv, CourseInv PROVE LinesCoded
  <1> SUFFICES ASSUME global_state \in {"SCANNING", "RAW_OK"}, call = NoCall,
                      next_scanline >= J.height
               PROVE  entropy.counted = Count(script[1])
    BY DEF LinesCoded
  <1>1. Shape /\ PassInv /\ CallInv /\ CountInv /\ RowsInv
    BY Zenon DEF IInv, CourseInv, Course
  <1>2. Writing /\ MainPass /\ global_state # "WRCOEFS" /\ call.at = "none"
    BY DEF Writing, MainPass, NoCall
  <1>3. ~Between
    <2>1. master.scan > 0
      BY <1>2 DEF IInv, ScanSelected
    <2>2. QED
      BY <1>1, <1>2, <2>1 DEF Between, Shape, MasterOK
  <1>4. master.scan = 1
    <2>1. master.pass_type = "main"
      BY <1>1, <1>2, Zenon DEF CallInv
    <2>2. PassOK(master) /\ master.scan = master.scan_number
      BY <1>1, <1>2, <1>3, Zenon DEF PassInv
    <2>3. QED
      BY <2>1, <2>2, Zenon DEF PassOK
  <1>5. /\ CoefTyped(coef) /\ coef.iMCU_row_num <= total_iMCU_rows
        /\ coef.iMCU_row_num = total_iMCU_rows => entropy.counted = Count(Scan)
    BY <1>1, <1>2, <1>3, Zenon DEF CountInv
  <1>6. coef.iMCU_row_num = total_iMCU_rows
    <2>1. CASE global_state = "SCANNING"
      BY <1>1, <1>2, <2>1, Zenon DEF RowsInv
    <2>2. CASE global_state = "RAW_OK"
      <3>1. next_scanline = coef.iMCU_row_num * (MaxV * DCTSIZE)
        BY <1>1, <1>2, <2>2, Zenon DEF RowsInv
      <3>2. coef.iMCU_row_num \in Nat /\ total_iMCU_rows \in Nat /\ J.height \in Nat
        BY <1>1, <1>5, RowsIs, HeightPositive DEF CoefTyped
      <3>3. next_scanline \in Nat
        BY <1>1, <1>2, Zenon DEF RowsInv
      <3>4. ~(next_scanline < J.height)
        BY <3>2, <3>3
      <3>5. ~(coef.iMCU_row_num < total_iMCU_rows)
        BY <1>1, <3>1, <3>2, <3>4, RowsRight
      <3>6. QED
        BY <1>5, <3>2, <3>5
    <2>3. QED
      BY <2>1, <2>2
  <1>7. QED
    BY <1>4, <1>5, <1>6, Zenon DEF Scan

(* The scan that is written is coded with the tables of its statistics.     *)
LEMMA TablesAreOptimal == ASSUME IInv, CourseInv, OptimalInv PROVE TablesOptimal
  <1> SUFFICES ASSUME OutputPass, optimize_coding, NEW s \in Uses(script[file.scan])
               PROVE  decoder[s] = <<job, file.scan, Count(script[file.scan])>>
    BY DEF TablesOptimal
  <1>1. Shape /\ PassInv /\ Writing /\ file.scan > 0 /\ file.scan = master.scan /\ ~entropy.gather
    BY Zenon DEF IInv, CourseInv, Course, OutputPass
  <1>2. /\ validate_script(script, Len(J.comps)) /\ PassOK(master)
        /\ Between => file.scan = master.scan_number - 1
        /\ ~Between => /\ entropy.gather <=>
                            master.pass_type = "huff_opt" \/ (master.pass_type = "main" /\ optimize_coding)
    BY <1>1, Zenon DEF PassInv
  <1>3. MasterOK(master)
    BY <1>1 DEF Shape
  <1>4. Gathered
    <2>1. CASE Between
      <3>1. call.at = "passes"
        BY <1>1, <1>3, <2>1 DEF Between, MasterOK
      <3>2. QED
        BY <1>1, <3>1 DEF Gathered
    <2>2. CASE ~Between
      <3>1. master.pass_type = "output"
        BY <1>1, <1>2, <1>3, <2>2 DEF MasterOK
      <3>2. QED
        BY <1>1, <3>1 DEF Gathered
    <2>3. QED
      BY <2>1, <2>2
  <1>5. /\ Len(script) \in Nat \ {0} /\ script \in Seq(Scans)
        /\ total_passes = (IF optimize_coding THEN 2 * Len(script) ELSE Len(script))
    BY <1>1, <1>2, ScriptIs
  <1>6. file.scan \in 1 .. Len(script)
    <2>1. CASE Between
      BY <1>1, <1>2, <1>3, <1>5, <2>1 DEF PassOK, MasterOK
    <2>2. CASE ~Between
      BY <1>1, <2>2, InPass
    <2>3. QED
      BY <2>1, <2>2
  <1>7. s \in Slots
    <2>1. GoodComponents(script[file.scan], Len(J.comps))
      BY <1>2, <1>5, <1>6 DEF validate_script, GoodScan
    <2>2. \A k \in DOMAIN script[file.scan].comps : script[file.scan].comps[k] \in Comps
      BY <1>1, <2>1, ImageIs DEF GoodComponents
    <2>3. \A c \in Comps : J.comps[c].t \in {0, 1}
      <3>1. J.comps \in Seq(Samplings)
        BY <1>1, ImageIs DEF IsImage
      <3>2. \A c \in Comps : J.comps[c] \in Samplings
        BY <3>1 DEF Comps
      <3>3. QED
        BY <3>2 DEF Samplings
    <2>4. PICK k \in DOMAIN script[file.scan].comps :
            \/ s = <<"dc", J.comps[script[file.scan].comps[k]].t>>
            \/ s = <<"ac", J.comps[script[file.scan].comps[k]].t>>
      BY DEF Uses
    <2>5. QED
      BY <2>2, <2>3, <2>4 DEF Slots
  <1>8. tables[s].version = <<job, master.scan, Count(Scan)>>
    <2>1. s \in Uses(Scan)
      BY <1>1, Zenon DEF Scan
    <2>2. QED
      BY <1>1, <1>4, <1>7, <2>1, Zenon DEF OptimalInv
  <1>9. tables[s].sent
    BY <1>7, Zenon DEF IInv, ScanSent
  <1>10. QED
    BY <1>1, <1>7, <1>8, <1>9, Zenon DEF IInv, SentKnown, Scan
=============================================================================
