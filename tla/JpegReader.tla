----------------------------- MODULE JpegReader -----------------------------
(* The input side of the libjpeg decompressor: a data source, stdio         *)
(* (jdatasrc.c) or one of the application that suspends; the marker reader  *)
(* (jdmarker.c), the input controller (jdinput.c), the calls that drive them*)
(* (jdapimin.c), and how the Huffman decoder takes bytes and restart markers*)
(* (jdhuff.c; a code is a byte, as in JpegStream; no progressive file is    *)
(* among the sources). A routine that runs out of input returns to the      *)
(* application and is called again at its restart point. ERREXIT leads to   *)
(* "ERROR".                                                                 *)
EXTENDS JpegStream

CONSTANTS Sources,         \* a set of [kind, bytes, images, lost]: "stdio" or "suspending",
                           \* the file, what was written in it, what was lost since
          BufSize,         \* INPUT_BUF_SIZE
          Arrivals,        \* bound: how many bytes the application gets at a time
          DCTSIZE, NumTables,
          MaxBlocksInMCU, MaxCompsInScan, MaxSampFactor,
          Prefetch,        \* bytes the bit buffer holds
          App0DataLen, App14DataLen, AppnDataLen,
          SaveLimits,      \* bound: what the application asks to save of COM
          Undefined        \* a table not defined, a quantizer not latched

VARIABLES file,            \* the one of Sources that is read
          pos,             \* bytes taken by the decompressor
          limit,           \* bytes the source has put in its buffer
          start_of_file,
          global_state,    \* "START", "INHEADER", "READY", "SCANNING", "ERROR"
          call,            \* what the application waits for: "none" when it runs
          inputctl,        \* [data, has_multiple_scans, eoi_reached, inheaders]
          unread_marker,
          reader,          \* [saw_SOI, saw_SOF, next_restart_num, cur]
          save_COM,        \* length_limit_COM, 0 when COM is skipped
          cinfo,           \* what the markers said of the image
          tables,          \* [quant, dc, ac], by slot; kept from image to image
          marker_list,
          entropy,         \* [restarts_to_go, insufficient_data, bits, last_dc, mcus]
          finished         \* what was read of the images that are finished

src == <<file, pos, limit, start_of_file>>
ctl == <<global_state, call>>
hdr == <<save_COM, cinfo, tables, marker_list>>
vars == <<src, ctl, inputctl, unread_marker, reader, hdr, entropy, finished>>

Ceil(x, y) == (x + y - 1) \div y

bytes == file.bytes
Suspending == file.kind = "suspending"
NewTables == [slot \in 0 .. NumTables - 1 |-> Undefined]

NewInputctl == [data |-> FALSE, has_multiple_scans |-> FALSE, eoi_reached |-> FALSE,
                inheaders |-> TRUE]
NoMarker == [data |-> <<>>, wanted |-> -1, original |-> -1]
NewReader == [saw_SOI |-> FALSE, saw_SOF |-> FALSE, next_restart_num |-> 0,
              cur |-> NoMarker]
NewCinfo == [process |-> 0, comps |-> <<>>, precision |-> 0, height |-> 0, width |-> 0,
             scan |-> <<>>, scans |-> <<>>, input_scan_number |-> 0,
             restart_interval |-> 0, saw_JFIF |-> FALSE, density |-> 1,
             saw_Adobe |-> FALSE, transform |-> 0]
NoWork == [out |-> <<>>]
NewEntropy == [restarts_to_go |-> 0, insufficient_data |-> FALSE, bits |-> <<>>,
               last_dc |-> <<>>, mcus |-> <<>>, work |-> NoWork]

Init ==
  /\ file \in Sources
  /\ pos = 0 /\ limit = 0 /\ start_of_file = TRUE
  /\ global_state = "START" /\ call = "none"
  /\ inputctl = NewInputctl
  /\ unread_marker = 0 /\ reader = NewReader
  /\ save_COM \in SaveLimits
  /\ cinfo = NewCinfo
  /\ tables = [quant |-> NewTables, dc |-> NewTables, ac |-> NewTables]
  /\ marker_list = <<>>
  /\ entropy = NewEntropy
  /\ finished = <<>>
-----------------------------------------------------------------------------
(* The data source. Beyond the end of the file stdio reads a fake EOI.      *)
FakeEOI(i) == IF (i - Len(bytes)) % 2 = 1 THEN 255 ELSE M_EOI

Byte(i) == IF i <= Len(bytes) THEN bytes[i] ELSE FakeEOI(i)

Has(i) == ~Suspending \/ i <= limit

(* fill_input_buffer until byte n is there: BufSize bytes of the file at a  *)
(* time, what is left of it, then two fake bytes at a time.                 *)
Refilled(n) ==
  IF n <= limit THEN limit
  ELSE IF n > Len(bytes) THEN Len(bytes) + 2 * Ceil(n - Len(bytes), 2)
  ELSE IF BufSize * Ceil(n, BufSize) > Len(bytes) THEN Len(bytes)
  ELSE BufSize * Ceil(n, BufSize)

(* The routine took, or skipped, all up to byte n.                          *)
Take(n) ==
  /\ pos' = n
  /\ limit' = IF Suspending THEN limit ELSE Refilled(n)
  /\ start_of_file' = (start_of_file /\ limit' = limit)
  /\ UNCHANGED file

InputEmpty == ~Suspending /\ start_of_file /\ limit = pos /\ limit >= Len(bytes)

(* The application of a suspending source loads its buffer between calls.   *)
Arrive(n) ==
  /\ Suspending /\ call = "none"
  /\ limit < Len(bytes)
  /\ limit' = IF limit + n > Len(bytes) THEN Len(bytes) ELSE limit + n
  /\ UNCHANGED <<file, pos, start_of_file, ctl, inputctl, unread_marker, reader, hdr,
                 entropy, finished>>

Error == /\ global_state' = "ERROR" /\ call' = "none"
         /\ UNCHANGED <<inputctl, unread_marker, reader, hdr, entropy, finished>>

Suspend == /\ call' = "none"
           /\ UNCHANGED <<src, global_state, inputctl, unread_marker, reader, hdr,
                          entropy, finished>>

Word(i) == 256 * Byte(i) + Byte(i + 1)

(* The first byte from i on that is not an FF, or the first not there yet.  *)
AfterFFs(i) ==
  LET next[j \in Nat] == IF ~Has(j) \/ Byte(j) # 255 THEN j ELSE next[j + 1]
  IN next[i]
-----------------------------------------------------------------------------
(* jpeg_read_header, jpeg_consume_input: headers.                           *)
ReadHeader ==
  /\ call = "none" /\ global_state \in {"START", "INHEADER"}
  /\ Len(finished) < Len(file.images)
  /\ global_state' = "INHEADER" /\ call' = "read"
  /\ IF global_state = "START"
     THEN /\ inputctl' = NewInputctl /\ reader' = NewReader
          /\ unread_marker' = 0 /\ cinfo' = NewCinfo
          /\ start_of_file' = TRUE
     ELSE UNCHANGED <<inputctl, reader, unread_marker, cinfo, start_of_file>>
  /\ UNCHANGED <<file, pos, limit, save_COM, tables, marker_list, entropy, finished>>

ReadingMarkers == call # "none" /\ ~inputctl.data /\ ~inputctl.eoi_reached

(* first_marker: the datastream starts with SOI.                            *)
FirstMarker ==
  /\ ReadingMarkers /\ unread_marker = 0 /\ ~reader.saw_SOI
  /\ CASE InputEmpty -> Error /\ UNCHANGED src
       [] ~InputEmpty /\ ~Has(pos + 2) -> Suspend
       [] ~InputEmpty /\ Has(pos + 2) ->
            IF Byte(pos + 1) = 255 /\ Byte(pos + 2) = M_SOI
            THEN /\ unread_marker' = M_SOI /\ Take(pos + 2)
                 /\ UNCHANGED <<ctl, inputctl, reader, hdr, entropy, finished>>
            ELSE Error /\ Take(pos + 2)

(* jpeg_resync_to_restart, for a marker and the restart number expected.    *)
(* Mutant of Recovery: only the very next restart marker is recognised.     *)
RecoveryOne(marker, desired) ==
  LET number == marker - M_RST0
  IN IF marker < M_SOF0 THEN 2
     ELSE IF marker < M_RST0 \/ marker > M_RST7 THEN 3
     ELSE IF number = (desired + 1) % 8 THEN 3
     ELSE IF number \in {(desired + 7) % 8, (desired + 6) % 8} THEN 2
     ELSE 1

(* 1 discards the marker, 2 scans to the next one, 3 leaves it unread.      *)
Recovery(marker, desired) ==
  LET number == marker - M_RST0
  IN IF marker < M_SOF0 THEN 2
     ELSE IF marker < M_RST0 \/ marker > M_RST7 THEN 3
     ELSE IF number \in {(desired + 1) % 8, (desired + 2) % 8} THEN 3
     ELSE IF number \in {(desired + 7) % 8, (desired + 6) % 8} THEN 2
     ELSE 1

ReadingData == call # "none" /\ inputctl.data

RestartDue == /\ ReadingData
              /\ cinfo.restart_interval > 0 /\ entropy.restarts_to_go = 0

(* next_marker is called: between segments, for a restart marker, and to    *)
(* resynchronize.                                                           *)
Seeking ==
  \/ ReadingMarkers /\ unread_marker = 0 /\ reader.saw_SOI
  \/ RestartDue /\ \/ unread_marker = 0
                   \/ Recovery(unread_marker, reader.next_restart_num) = 2

(* Bytes that are not a marker are discarded one at a time: the restart     *)
(* point moves with them. A stuffed zero goes with its FFs.                 *)
DiscardByte ==
  /\ Seeking /\ Has(pos + 1) /\ Byte(pos + 1) # 255
  /\ Take(pos + 1)
  /\ UNCHANGED <<ctl, inputctl, unread_marker, reader, hdr, entropy, finished>>

DiscardStuffed ==
  /\ Seeking /\ Has(pos + 1) /\ Byte(pos + 1) = 255
  /\ LET i == AfterFFs(pos + 1)
     IN Has(i) /\ Byte(i) = 0 /\ Take(i)
  /\ UNCHANGED <<ctl, inputctl, unread_marker, reader, hdr, entropy, finished>>

NextMarker ==
  /\ Seeking /\ Has(pos + 1) /\ Byte(pos + 1) = 255
  /\ LET i == AfterFFs(pos + 1)
     IN Has(i) /\ Byte(i) # 0 /\ unread_marker' = Byte(i) /\ Take(i)
  /\ UNCHANGED <<ctl, inputctl, reader, hdr, entropy, finished>>

NoMarkerYet ==
  /\ Seeking /\ ~Has(AfterFFs(pos + 1))
  /\ Suspend
-----------------------------------------------------------------------------
(* The segments. Each routine starts after the marker, at byte pos + 1, and *)
(* starts again from there after a suspension.                              *)
At(S) == ReadingMarkers /\ unread_marker \in S

Done(n) == Take(n) /\ unread_marker' = 0 /\ UNCHANGED <<ctl, entropy, finished>>

get_soi ==
  /\ At({M_SOI})
  /\ IF reader.saw_SOI THEN Error /\ UNCHANGED src
     ELSE /\ Done(pos)
          /\ reader' = [reader EXCEPT !.saw_SOI = TRUE]
          /\ cinfo' = [cinfo EXCEPT !.restart_interval = 0, !.saw_JFIF = FALSE,
                                    !.density = 1, !.saw_Adobe = FALSE, !.transform = 0]
          /\ UNCHANGED <<inputctl, save_COM, tables, marker_list>>

SupportedSOF == {M_SOF0, M_SOF1, M_SOF2, M_SOF9, M_SOF10}

get_sof ==
  LET n    == Byte(pos + 8)
      bad  == \/ reader.saw_SOF
              \/ Word(pos + 4) = 0 \/ Word(pos + 6) = 0 \/ n = 0
              \/ Word(pos + 1) # 8 + 3 * n
      comp(c) == LET i == pos + 9 + 3 * (c - 1)
                 IN [id |-> Byte(i), h |-> Byte(i + 1) \div 16, v |-> Byte(i + 1) % 16,
                     q |-> Byte(i + 2), dc |-> 0, ac |-> 0, quant_table |-> Undefined]
  IN /\ At(SupportedSOF)
     /\ CASE ~Has(pos + 8) -> Suspend
          [] Has(pos + 8) /\ bad -> Error /\ Take(pos + 8)
          [] Has(pos + 8) /\ ~bad /\ ~Has(pos + 8 + 3 * n) -> Suspend
          [] Has(pos + 8) /\ ~bad /\ Has(pos + 8 + 3 * n) ->
               /\ Done(pos + 8 + 3 * n)
               /\ reader' = [reader EXCEPT !.saw_SOF = TRUE]
               /\ cinfo' = [cinfo EXCEPT !.process = unread_marker,
                                         !.precision = Byte(pos + 3),
                                         !.height = Word(pos + 4), !.width = Word(pos + 6),
                                         !.comps = [c \in 1 .. n |-> comp(c)]]
               /\ UNCHANGED <<inputctl, save_COM, tables, marker_list>>

-----------------------------------------------------------------------------
(* Geometry: initial_setup and per_scan_setup.                              *)
Largest(S) == CHOOSE x \in S : \A y \in S : y <= x

MaxH(c) == Largest({c.comps[i].h : i \in DOMAIN c.comps})
MaxV(c) == Largest({c.comps[i].v : i \in DOMAIN c.comps})

SetupFails(c) ==
  \/ c.precision # 8
  \/ \E i \in DOMAIN c.comps : \/ c.comps[i].h \notin 1 .. MaxSampFactor
                               \/ c.comps[i].v \notin 1 .. MaxSampFactor

initial_setup(c) ==
  [inputctl EXCEPT !.inheaders = FALSE,
                   !.has_multiple_scans = Len(c.scan) < Len(c.comps)]

MCUsInScan(c) ==
  LET i == c.scan[1]
  IN IF Len(c.scan) = 1
     THEN Ceil(c.width * c.comps[i].h, MaxH(c) * DCTSIZE) *
          Ceil(c.height * c.comps[i].v, MaxV(c) * DCTSIZE)
     ELSE Ceil(c.width, MaxH(c) * DCTSIZE) * Ceil(c.height, MaxV(c) * DCTSIZE)

(* MCU_membership: for each block of an MCU, its component in the scan.     *)
Membership(c) ==
  IF Len(c.scan) = 1 THEN <<1>>
  ELSE Concat([k \in DOMAIN c.scan |->
         LET comp == c.comps[c.scan[k]] IN [b \in 1 .. comp.h * comp.v |-> k]])

latch_quant_tables(c) ==
  [c EXCEPT !.comps = [i \in DOMAIN c.comps |->
     IF i \in ToSet(c.scan) /\ c.comps[i].quant_table = Undefined
     THEN [c.comps[i] EXCEPT !.quant_table = tables.quant[c.comps[i].q]] ELSE c.comps[i]]]

(* Arithmetic coding is not compiled in (master_selection); per_scan_setup, *)
(* latch_quant_tables, start_pass_huff_decoder may fail.                    *)
PassFails(c) ==
  \/ c.process \in {M_SOF9, M_SOF10}
  \/ Len(Membership(c)) > MaxBlocksInMCU
  \/ \E k \in DOMAIN c.scan :
       LET comp == c.comps[c.scan[k]]
       IN \/ comp.quant_table = Undefined
            /\ (comp.q \notin DOMAIN tables.quant \/ tables.quant[comp.q] = Undefined)
          \/ comp.dc \notin DOMAIN tables.dc \/ tables.dc[comp.dc] = Undefined
          \/ comp.ac \notin DOMAIN tables.ac \/ tables.ac[comp.ac] = Undefined

StartedEntropy(c) ==
  [restarts_to_go |-> c.restart_interval, insufficient_data |-> FALSE, bits |-> <<>>,
   last_dc |-> [k \in DOMAIN c.scan |-> 0], mcus |-> <<>>, work |-> NoWork]

(* start_input_pass: from jpeg_start_decompress, then from later SOS.       *)
StartInputPass(c, ic) ==
  /\ cinfo' = latch_quant_tables(c)
  /\ entropy' = StartedEntropy(c)
  /\ inputctl' = [ic EXCEPT !.data = TRUE]
  /\ UNCHANGED <<finished, save_COM, tables, marker_list>>

StartDecompress ==
  /\ call = "none" /\ global_state = "READY"
  /\ IF PassFails(cinfo) THEN Error
     ELSE /\ StartInputPass(cinfo, inputctl)
          /\ global_state' = "SCANNING" /\ UNCHANGED <<call, unread_marker, reader>>
  /\ UNCHANGED src

(* get_sos, and what consume_markers does when it is reached.               *)
SosReached(c) ==
  IF inputctl.inheaders
  THEN IF SetupFails(c) THEN Error
       ELSE /\ inputctl' = initial_setup(c) /\ cinfo' = c
            /\ global_state' = "READY" /\ call' = "none" /\ unread_marker' = 0
            /\ reader' = [reader EXCEPT !.next_restart_num = 0]
            /\ UNCHANGED <<save_COM, tables, marker_list, entropy, finished>>
  ELSE IF ~inputctl.has_multiple_scans \/ PassFails(c) THEN Error
       ELSE /\ StartInputPass(c, inputctl)
            /\ unread_marker' = 0
            /\ reader' = [reader EXCEPT !.next_restart_num = 0]
            /\ UNCHANGED <<global_state, call>>

get_sos ==
  LET n       == Byte(pos + 3)
      id(i)   == Byte(pos + 2 + 2 * i)
      sel(i)  == Byte(pos + 3 + 2 * i)
      with(i) == {c \in DOMAIN cinfo.comps : cinfo.comps[c].id = id(i)}
      comp(i) == CHOOSE c \in with(i) : \A d \in with(i) : c <= d
      end     == pos + 3 + 2 * n + 3
      bad     == Word(pos + 1) # 2 * n + 6 \/ n \notin 1 .. MaxCompsInScan
      unknown == \E i \in 1 .. n : Has(pos + 3 + 2 * i) /\ with(i) = {}
      scan    == [i \in 1 .. n |-> comp(i)]
      tbl(c, old) == LET uses == {i \in 1 .. n : scan[i] = c}
                     IN IF uses = {} THEN old
                        ELSE [old EXCEPT !.dc = sel(Largest(uses)) \div 16,
                                         !.ac = sel(Largest(uses)) % 16]
      read    == [cinfo EXCEPT !.scan = scan, !.input_scan_number = @ + 1,
                    !.comps = [c \in DOMAIN cinfo.comps |-> tbl(c, cinfo.comps[c])]]
  IN /\ At({M_SOS})
     /\ CASE ~reader.saw_SOF -> Error /\ UNCHANGED src
          [] reader.saw_SOF /\ ~Has(pos + 3) -> Suspend
          [] reader.saw_SOF /\ Has(pos + 3) /\ (bad \/ unknown) -> Error /\ Take(pos + 3)
          [] reader.saw_SOF /\ Has(pos + 3) /\ ~bad /\ ~unknown /\ ~Has(end) -> Suspend
          [] reader.saw_SOF /\ Has(pos + 3) /\ ~bad /\ ~unknown /\ Has(end) ->
               (\E c \in {read} : SosReached(c)) /\ Take(end)

(* default_decompress_parms: the colour space is guessed.                   *)
ColorSpace(c) ==
  CASE Len(c.comps) = 1 -> "GRAYSCALE"
    [] Len(c.comps) = 3 ->
         IF c.saw_JFIF THEN "YCbCr"
         ELSE IF c.saw_Adobe THEN (IF c.transform = 0 THEN "RGB" ELSE "YCbCr")
         ELSE IF <<c.comps[1].id, c.comps[2].id, c.comps[3].id>> = <<82, 71, 66>> THEN "RGB"
         ELSE "YCbCr"
    [] Len(c.comps) = 4 ->
         IF c.saw_Adobe /\ c.transform # 0 THEN "YCCK" ELSE "CMYK"
    [] OTHER -> "UNKNOWN"

Result ==      \* of a datastream that was read to its end
  [space |-> ColorSpace(cinfo), density |-> cinfo.density, scans |-> cinfo.scans,
   comments |-> marker_list, end |-> pos,
   quantizers |-> [c \in DOMAIN cinfo.comps |-> cinfo.comps[c].quant_table]]

(* EOI: the datastream, or a tables-only one, is over.                      *)
EoiReached ==
  /\ At({M_EOI})
  /\ IF inputctl.inheaders
     THEN IF reader.saw_SOF THEN Error
          ELSE /\ inputctl' = [inputctl EXCEPT !.eoi_reached = TRUE]
               /\ unread_marker' = 0 /\ global_state' = "START" /\ call' = "none"
               /\ finished' = Append(finished, Result) /\ marker_list' = <<>>
               /\ UNCHANGED <<reader, save_COM, cinfo, tables, entropy>>
     ELSE /\ inputctl' = [inputctl EXCEPT !.eoi_reached = TRUE]
          /\ unread_marker' = 0
          /\ UNCHANGED <<ctl, reader, hdr, entropy, finished>>
  /\ UNCHANGED src

(* The tables of a DHT or DQT segment that ends at byte `end` start after   *)
(* these bytes, as far as the input goes and up to the first bad one: each  *)
(* takes Size, while more than `rest` is left.                              *)
TableStarts(end, rest, Size(_), Bad(_)) ==
  LET starts[i \in Nat] ==
        IF end - i > rest
        THEN {i} \cup (IF ~Has(i + 1) \/ Bad(i) THEN {} ELSE starts[i + Size(i)]) ELSE {}
  IN starts[pos + 2]

HuffCount(i) == FoldLeft(LAMBDA n, k : n + Byte(i + 1 + k), 0,
                         [k \in 1 .. CodeLengths |-> k])

HuffTable(i) == [bits |-> [k \in 1 .. CodeLengths |-> Byte(i + 1 + k)],
                 huffval |-> [k \in 1 .. HuffCount(i) |-> Byte(i + 1 + CodeLengths + k)]]

(* get_dht: each table is copied when all of it was read.                   *)
get_dht ==
  LET end      == pos + Word(pos + 1)
      size(i)  == 1 + CodeLengths + HuffCount(i)
      all(i)   == Has(i + 1 + CodeLengths) /\ Has(i + size(i))
      index(i) == Byte(i + 1)
      bad(i)   == \/ Has(i + 1 + CodeLengths) /\ (HuffCount(i) > 256 \/ i + size(i) > end)
                  \/ all(i) /\ index(i) \notin 0 .. NumTables - 1
                            /\ index(i) - 16 \notin 0 .. NumTables - 1
      starts   == TableStarts(end, CodeLengths, size, bad)
      whole    == {i \in starts : all(i)}
      stop     == IF starts = {} THEN pos + 2
                  ELSE Largest(starts) + size(Largest(starts))
      Put(old, base) == [slot \in DOMAIN old |->
        LET defs == {i \in whole : index(i) = base + slot}
        IN IF defs = {} THEN old[slot] ELSE HuffTable(Largest(defs))]
  IN /\ At({M_DHT})
     /\ IF ~Has(pos + 2) THEN Suspend
        ELSE IF \E i \in starts : bad(i) THEN Error /\ Take(pos + 2)
        ELSE IF Has(stop) /\ stop # end THEN Error /\ Take(stop)
        ELSE /\ tables' = [tables EXCEPT !.dc = Put(@, 0), !.ac = Put(@, 16)]
             /\ IF Has(stop) THEN Done(stop)
                ELSE call' = "none" /\ UNCHANGED <<src, global_state, unread_marker,
                                                    entropy, finished>>
             /\ UNCHANGED <<inputctl, reader, save_COM, cinfo, marker_list>>

(* get_dqt: the entries go to the table as they are read, also when the     *)
(* routine has to suspend before the end of the table.                      *)
get_dqt ==
  LET end      == pos + Word(pos + 1)
      wide(i)  == Byte(i + 1) > 15
      size(i)  == IF wide(i) THEN 1 + 2 * DCTSIZE2 ELSE 1 + DCTSIZE2
      bad(i)   == Has(i + 1) /\ Byte(i + 1) % 16 >= NumTables
      starts   == TableStarts(end, 0, size, bad)
      into(slot) == {i \in starts : Has(i + 1) /\ Byte(i + 1) % 16 = slot}
      stop     == IF starts = {} THEN pos + 2
                  ELSE Largest(starts) + size(Largest(starts))
      last(i, k)  == IF wide(i) THEN i + 1 + 2 * k ELSE i + 1 + k
      value(i, k) == IF wide(i) THEN Word(last(i, k) - 1) ELSE Byte(last(i, k))
      Entry(slot, k, old) ==
        LET defs == {i \in into(slot) : Has(last(i, k))}
        IN IF defs = {} THEN old ELSE value(Largest(defs), k)
      Put(slot, old) ==
        IF into(slot) = {} THEN old
        ELSE [n \in 1 .. DCTSIZE2 |->
               LET k == CHOOSE k \in 1 .. DCTSIZE2 : NaturalOrder[k] = n
               IN Entry(slot, k, IF old = Undefined THEN 0 ELSE old[n])]
  IN /\ At({M_DQT})
     /\ IF ~Has(pos + 2) THEN Suspend
        ELSE IF \E i \in starts : bad(i) THEN Error /\ Take(pos + 2)
        ELSE IF Has(stop) /\ stop # end THEN Error /\ Take(stop)
        ELSE /\ tables' = [tables EXCEPT !.quant =
                             [slot \in DOMAIN @ |-> Put(slot, @[slot])]]
             /\ IF Has(stop) THEN Done(stop)
                ELSE call' = "none" /\ UNCHANGED <<src, global_state, unread_marker,
                                                    entropy, finished>>
             /\ UNCHANGED <<inputctl, reader, save_COM, cinfo, marker_list>>

get_dri ==
  /\ At({M_DRI})
  /\ CASE ~Has(pos + 2) -> Suspend
       [] Has(pos + 2) /\ Word(pos + 1) # 4 -> Error /\ Take(pos + 2)
       [] Has(pos + 2) /\ Word(pos + 1) = 4 /\ ~Has(pos + 4) -> Suspend
       [] Has(pos + 2) /\ Word(pos + 1) = 4 /\ Has(pos + 4) ->
            /\ Done(pos + 4)
            /\ cinfo' = [cinfo EXCEPT !.restart_interval = Word(pos + 3)]
            /\ UNCHANGED <<inputctl, reader, save_COM, tables, marker_list>>

-----------------------------------------------------------------------------
(* Markers of variable length that are not tables.                          *)
AppMarkers == M_APP0 .. M_APP15
Clamp(n, most) == IF n < 0 THEN 0 ELSE IF n > most THEN most ELSE n
SegmentEnd == pos + 2 + Clamp(Word(pos + 1) - 2, 65535)

(* examine_app0, examine_app14: the first n bytes of the data are there.    *)
Examined(n) ==
  CASE unread_marker = M_APP0 /\ n >= App0DataLen /\ Byte(pos + 3) = JfifId ->
         [cinfo EXCEPT !.saw_JFIF = TRUE, !.density = Byte(pos + 5)]
    [] unread_marker = M_APP14 /\ n >= App14DataLen /\ Byte(pos + 3) = AdobeId ->
         [cinfo EXCEPT !.saw_Adobe = TRUE, !.transform = Byte(pos + 4)]
    [] OTHER -> cinfo

get_interesting_appn ==
  LET n == Clamp(Word(pos + 1) - 2, AppnDataLen)
  IN /\ At({M_APP0, M_APP14})
     /\ IF ~Has(pos + 2) \/ ~Has(pos + 2 + n) THEN Suspend
        ELSE /\ cinfo' = Examined(n)
             /\ Done(SegmentEnd)
             /\ UNCHANGED <<inputctl, reader, save_COM, tables, marker_list>>

(* skip_variable, also for DAC and DNL. The source may have to skip more    *)
(* than it has.                                                             *)
skip_variable ==
  /\ At((AppMarkers \ {M_APP0, M_APP14}) \cup {M_DAC, M_DNL} \cup
        (IF save_COM = 0 THEN {M_COM} ELSE {}))
  /\ IF ~Has(pos + 2) THEN Suspend
     ELSE Done(SegmentEnd) /\ UNCHANGED <<inputctl, reader, hdr>>

(* save_marker keeps, over suspensions, how much of the data it has.        *)

SaveMarkerResumed(cur, n) == [cur EXCEPT !.data = @ \o [k \in 1 .. n |-> Byte(pos + k)]]

save_marker_begin ==
  /\ At({M_COM}) /\ save_COM > 0 /\ reader.cur = NoMarker
  /\ IF ~Has(pos + 2) THEN Suspend
     ELSE LET length == Word(pos + 1) - 2
          IN IF length < 0 THEN Done(pos + 2) /\ UNCHANGED <<inputctl, reader, hdr>>
             ELSE /\ reader' = [reader EXCEPT !.cur =
                       [data |-> <<>>, original |-> length,
                        wanted |-> IF length < save_COM THEN length ELSE save_COM]]
                  /\ Take(pos + 2)
                  /\ UNCHANGED <<ctl, inputctl, unread_marker, hdr, entropy, finished>>

save_marker_data ==
  LET cur  == reader.cur
      left == cur.wanted - Len(cur.data)
      n    == IF Suspending /\ limit - pos < left THEN Clamp(limit - pos, left) ELSE left
  IN /\ At({M_COM}) /\ cur # NoMarker /\ left > 0
     /\ IF n = 0 THEN Suspend
        ELSE /\ reader' = [reader EXCEPT !.cur = SaveMarkerResumed(cur, n)]
             /\ Take(pos + n)
             /\ UNCHANGED <<ctl, inputctl, unread_marker, hdr, entropy, finished>>

save_marker_end ==
  LET cur == reader.cur
  IN /\ At({M_COM}) /\ cur # NoMarker /\ Len(cur.data) = cur.wanted
     /\ marker_list' = Append(marker_list, cur.data)
     /\ reader' = [reader EXCEPT !.cur = NoMarker]
     /\ Done(pos + cur.original - cur.wanted)
     /\ UNCHANGED <<inputctl, save_COM, cinfo, tables>>

(* RSTn and TEM between segments have no data; other codes are an error.    *)
Parameterless ==
  /\ At((M_RST0 .. M_RST7) \cup {M_TEM})
  /\ Done(pos) /\ UNCHANGED <<inputctl, reader, hdr>>

KnownMarkers == SupportedSOF \cup {M_DHT, M_DAC, M_SOI, M_EOI, M_SOS, M_DQT, M_DNL,
                 M_DRI, M_COM, M_TEM} \cup (M_RST0 .. M_RST7) \cup AppMarkers

UnknownMarker ==
  /\ ReadingMarkers /\ unread_marker # 0 /\ unread_marker \notin KnownMarkers
  /\ Error /\ UNCHANGED src
-----------------------------------------------------------------------------
(* read_restart_marker, jpeg_resync_to_restart, process_restart.            *)
(* Mutant of NextRestart: the number is not taken modulo 8.                 *)
NextRestartWide(n) == n + 1

NextRestart(n) == (n + 1) % 8

process_restart ==
  LET action == Recovery(unread_marker, reader.next_restart_num)
  IN /\ RestartDue /\ unread_marker # 0 /\ action # 2
     /\ unread_marker' = IF action = 1 THEN 0 ELSE unread_marker
     /\ reader' = [reader EXCEPT !.next_restart_num = NextRestart(@)]
     /\ entropy' = [entropy EXCEPT !.restarts_to_go = cinfo.restart_interval,
                       !.bits = <<>>,
                       !.last_dc = [k \in DOMAIN @ |-> 0],
                       !.insufficient_data = @ /\ unread_marker' # 0]
     /\ UNCHANGED <<src, ctl, inputctl, hdr, finished>>

(* jpeg_fill_bit_buffer: up to Prefetch bytes, not past a marker. ok is     *)
(* FALSE when the source has no more for now.                               *)
Fetch(r) ==
  IF r.marker # 0 \/ ~r.ok THEN r
  ELSE IF ~Has(r.p + 1) THEN [r EXCEPT !.ok = FALSE]
  ELSE IF Byte(r.p + 1) # 255 THEN [r EXCEPT !.p = @ + 1, !.bits = Append(@, Byte(r.p + 1))]
  ELSE LET i == AfterFFs(r.p + 1)
       IN IF ~Has(i) THEN [r EXCEPT !.ok = FALSE]
          ELSE IF Byte(i) = 0 THEN [r EXCEPT !.p = i, !.bits = Append(@, 255)]
          ELSE [r EXCEPT !.p = i, !.marker = Byte(i)]

jpeg_fill_bit_buffer(r) ==
  LET load[k \in 0 .. Prefetch] == IF k = 0 THEN r ELSE Fetch(load[k - 1])
      f == load[Prefetch]
  IN IF f.ok /\ f.bits = <<>>
     THEN [f EXCEPT !.insufficient = TRUE, !.bits = [k \in 1 .. Prefetch |-> 0]]
     ELSE f

Difference(code) == IF code < 128 THEN code ELSE code - 256

Decoding == ReadingData /\ ~RestartDue

(* decode_mcu works on copies of the state of the bit reader and of the DC  *)
(* predictions, which are stored when the MCU is whole.                     *)
Working == IF entropy.work # NoWork THEN entropy.work
           ELSE [p |-> pos, marker |-> unread_marker, bits |-> entropy.bits, ok |-> TRUE,
                 insufficient |-> FALSE, last_dc |-> entropy.last_dc, out |-> <<>>]

(* Mutant of Abandoned: the predictions of the blocks that were decoded stay.*)
AbandonedLate(w) == [entropy EXCEPT !.work = NoWork, !.last_dc = w.last_dc]

(* Mutant of Abandoned: the copy is kept with its end-of-input flag.        *)
AbandonedStuck(w) == [entropy EXCEPT !.work = w]

(* An MCU that has to suspend is decoded again from its first block.        *)
Abandoned(w) == [entropy EXCEPT !.work = NoWork]

(* One block: a DC difference from the bit buffer.                          *)
DecodeBlock ==
  LET k == Membership(cinfo)[Len(Working.out) + 1]
  IN /\ Decoding /\ ~entropy.insufficient_data
     /\ Len(Working.out) < Len(Membership(cinfo))
     /\ \E w \in {IF Working.bits = <<>> THEN jpeg_fill_bit_buffer(Working) ELSE Working} :
          IF ~w.ok THEN entropy' = Abandoned(w) /\ call' = "none"
          ELSE LET value == w.last_dc[k] + Difference(Head(w.bits))
               IN /\ entropy' = [entropy EXCEPT !.work =
                       [w EXCEPT !.bits = Tail(@), !.last_dc[k] = value,
                                 !.out = Append(@, value)]]
                  /\ UNCHANGED call
     /\ UNCHANGED <<src, global_state, inputctl, unread_marker, reader, hdr, finished>>

(* The end of decode_mcu: a MCU of the data, or a grey one after the data   *)
(* ended. The last one of a scan calls finish_input_pass.                   *)
decode_mcu ==
  LET of   == Membership(cinfo)
      grey == entropy.insufficient_data
      mcu  == IF grey THEN [b \in DOMAIN of |-> 0] ELSE Working.out
      mcus == Append(entropy.mcus, mcu)
      last == Len(mcus) = MCUsInScan(cinfo)
      next == [entropy EXCEPT !.mcus = mcus, !.work = NoWork,
                 !.restarts_to_go = IF cinfo.restart_interval > 0 THEN @ - 1 ELSE 0]
  IN /\ Decoding
     /\ IF grey THEN entropy' = next /\ UNCHANGED <<src, unread_marker>>
        ELSE /\ Len(Working.out) = Len(of)
             /\ Take(Working.p) /\ unread_marker' = Working.marker
             /\ entropy' = [next EXCEPT !.bits = Working.bits, !.last_dc = Working.last_dc,
                                        !.insufficient_data = Working.insufficient]
     /\ inputctl' = [inputctl EXCEPT !.data = ~last]
     /\ cinfo' = [cinfo EXCEPT !.scans = IF last THEN Append(@, mcus) ELSE @]
     /\ UNCHANGED <<ctl, reader, save_COM, tables, marker_list, finished>>

(* jpeg_finish_decompress reads until EOI; jpeg_abort then frees the image. *)
FinishDecompress ==
  /\ call = "none" /\ global_state = "SCANNING"
  /\ call' = "finish"
  /\ UNCHANGED <<src, global_state, inputctl, unread_marker, reader, hdr, entropy, finished>>

Finished ==
  /\ call = "finish" /\ inputctl.eoi_reached
  /\ finished' = Append(finished, Result)
  /\ marker_list' = <<>> /\ global_state' = "START" /\ call' = "none"
  /\ cinfo' = NewCinfo /\ entropy' = NewEntropy
  /\ UNCHANGED <<src, inputctl, unread_marker, reader, save_COM, tables>>

ReadMarkers ==
  \/ FirstMarker \/ DiscardByte \/ DiscardStuffed \/ NextMarker \/ NoMarkerYet
  \/ get_soi \/ get_sof \/ get_sos \/ EoiReached \/ get_dht \/ get_dqt \/ get_dri
  \/ get_interesting_appn \/ skip_variable
  \/ save_marker_begin \/ save_marker_data \/ save_marker_end
  \/ Parameterless \/ UnknownMarker

Library == ReadMarkers \/ process_restart \/ DecodeBlock \/ decode_mcu \/ Finished

Application == ReadHeader \/ StartDecompress \/ FinishDecompress

Next == Library \/ Application \/ \E n \in Arrivals : Arrive(n)

(* The library is never interrupted for good; the application calls again,  *)
(* and however often it does, its source gets more bytes in between.        *)
Spec == /\ Init /\ [][Next]_vars
        /\ WF_vars(Library) /\ WF_vars(Application)
        /\ SF_vars(\E n \in Arrivals : Arrive(n))
-----------------------------------------------------------------------------
IsTable(t) == t = Undefined \/ Len(t) = DCTSIZE2

TypeOK ==
  /\ pos \in Nat /\ limit \in Nat /\ start_of_file \in BOOLEAN
  /\ global_state \in {"START", "INHEADER", "READY", "SCANNING", "ERROR"}
  /\ call \in {"none", "read", "finish"}
  /\ unread_marker \in 0 .. 254
  /\ reader.next_restart_num \in 0 .. 7
  /\ Len(reader.cur.data) <= Largest({0, reader.cur.wanted})
  /\ \A slot \in 0 .. NumTables - 1 : IsTable(tables.quant[slot])
  /\ ~Suspending => pos <= limit
  /\ entropy.restarts_to_go \in 0 .. cinfo.restart_interval
  /\ Len(entropy.bits) <= Prefetch

Undamaged == file.lost.markers < 0

(* A component is dequantized with the table its slot held when its first   *)
(* scan started, whatever the slot held later and in whatever pieces the    *)
(* table came.                                                              *)
QuantizersLatched(k) == finished[k].quantizers = file.images[k].quantizers

(* The comments the application asked for are kept, cut at its limit.       *)
CommentsSaved(k) ==
  finished[k].comments =
    IF save_COM = 0 THEN <<>>
    ELSE [i \in DOMAIN file.images[k].comments |->
            LET data == file.images[k].comments[i]
            IN SubSeq(data, 1, IF Len(data) < save_COM THEN Len(data) ELSE save_COM)]

(* What was written is what is read, however the bytes come in: scan after  *)
(* scan, MCU after MCU, the colour space guessed from the markers, and the  *)
(* next image of the file starts where this one ended; the quantization     *)
(* tables and the comments are those of the file.                           *)
ImagesRecovered ==
  Undamaged =>
    /\ global_state # "ERROR"
    /\ \A k \in DOMAIN finished :
         /\ finished[k].scans = file.images[k].scans
         /\ finished[k].space = file.images[k].space
         /\ finished[k].density = file.images[k].density
         /\ finished[k].end = file.images[k].end
         /\ QuantizersLatched(k) /\ CommentsSaved(k)
    /\ inputctl.data =>
         IsPrefix(entropy.mcus,
                  file.images[Len(finished) + 1].scans[cinfo.input_scan_number])

(* After bytes were lost, with no more than two restart markers hurt, the   *)
(* intervals that follow are decoded in their own place again.              *)
Resynchronized ==
  (file.lost.markers \in 0 .. 2 /\ inputctl.data) =>
    \A m \in file.lost.from + 1 .. Len(entropy.mcus) :
      entropy.mcus[m] = file.images[1].scans[1][m]

(* The end of the images or an error is reached, with stdio also when the   *)
(* file was cut short: the fake EOI stops every loop.                       *)
Ended == global_state = "ERROR" \/ Len(finished) = Len(file.images)
ReadingEnds == (~Suspending \/ Undamaged) => <>Ended

=============================================================================
