----------------------------- MODULE JpegStream -----------------------------
(* The bytes libjpeg writes for an image: the marker writer (jcmarker.c),   *)
(* the choices of jpeg_set_colorspace (jcparam.c) and, for the entropy-coded*)
(* data, the frame jchuff.c puts around the codes: stuffed zeroes, restart  *)
(* markers, DC differences. A code is a byte here, the difference itself;   *)
(* the identifiers "JFIF" and "Adobe" and the rest of their segments are cut*)
(* down to the bytes a reader looks at. An image is a record:               *)
(*   space, comps   jpeg_color_space; [id, h, v, q, dc, ac] by component    *)
(*   height, width  in samples                                              *)
(*   quant, dc, ac  the tables, by slot                                     *)
(*   scans          [comps, interval, mcus]: component numbers, restart     *)
(*                  interval, DC values of the blocks of each MCU           *)
(* A writer w is what the marker writer and the entropy encoder keep:       *)
(*   bytes, quant_sent, dc_sent, ac_sent (sent_table), last_restart_interval*)
EXTENDS Integers, Sequences, SequencesExt

CONSTANTS DCTSIZE2,       \* entries of a quantization table
          NaturalOrder,   \* jpeg_natural_order, a permutation of 1..DCTSIZE2
          CodeLengths     \* lengths of Huffman codes that are counted (16)

ASSUME StreamAssumption ==
  /\ DCTSIZE2 \in Nat \ {0} /\ CodeLengths \in Nat \ {0}
  /\ NaturalOrder \in [1 .. DCTSIZE2 -> 1 .. DCTSIZE2]
  /\ \A i, j \in 1 .. DCTSIZE2 : NaturalOrder[i] = NaturalOrder[j] => i = j

M_TEM == 1
M_SOF0 == 192
M_SOF1 == 193
M_SOF2 == 194
M_DHT == 196
M_SOF9 == 201
M_SOF10 == 202
M_DAC == 204
M_RST0 == 208
M_RST7 == 215
M_SOI == 216
M_EOI == 217
M_SOS == 218
M_DQT == 219
M_DNL == 220
M_DRI == 221
M_APP0 == 224
M_APP14 == 238
M_APP15 == 239
M_COM == 254
UnsupportedSOF == {195, 197, 198, 199, 200, 203, 205, 206, 207}

JfifId == 74              \* "JFIF" and "Adobe"
AdobeId == 65

Marker(m) == <<255, m>>
TwoBytes(n) == <<(n \div 256) % 256, n % 256>>
Concat(f) == FoldLeft(LAMBDA all, s : all \o s, <<>>, f)

Emit(w, bytes) == [w EXCEPT !.bytes = @ \o bytes]
EmitSegment(w, m, data) == Emit(w, Marker(m) \o TwoBytes(Len(data) + 2) \o data)

NewWriter == [bytes |-> <<>>, quant_sent |-> {}, dc_sent |-> {}, ac_sent |-> {},
              last_restart_interval |-> 0]

(* jpeg_set_colorspace: the components and the markers of a colour space.   *)
Comp(id, hv, table) == [id |-> id, h |-> hv, v |-> hv, q |-> table,
                        dc |-> table, ac |-> table]
SpaceComps(space) ==
  CASE space = "GRAYSCALE" -> <<Comp(1, 1, 0)>>
    [] space = "RGB"   -> <<Comp(82, 1, 0), Comp(71, 1, 0), Comp(66, 1, 0)>>
    [] space = "YCbCr" -> <<Comp(1, 2, 0), Comp(2, 1, 1), Comp(3, 1, 1)>>
    [] space = "CMYK"  -> <<Comp(67, 1, 0), Comp(77, 1, 0), Comp(89, 1, 0),
                            Comp(75, 1, 0)>>
    [] space = "YCCK"  -> <<Comp(1, 2, 0), Comp(2, 1, 1), Comp(3, 1, 1), Comp(4, 2, 0)>>

WriteJfif(space) == space \in {"GRAYSCALE", "YCbCr"}
WriteAdobe(space) == space \in {"RGB", "CMYK", "YCCK"}

emit_jfif_app0(w, density) == EmitSegment(w, M_APP0, <<JfifId, 1, density>>)

emit_adobe_app14(w, space) ==
  EmitSegment(w, M_APP14, <<AdobeId, CASE space = "YCbCr" -> 1 [] space = "YCCK" -> 2
                                       [] OTHER -> 0>>)

(* 16-bit entries if one of them needs it; in zigzag order.                 *)
Precision(table) == IF \E i \in DOMAIN table : table[i] > 255 THEN 1 ELSE 0

DqtData(index, table) ==
  LET prec == Precision(table)
      entry(v) == IF prec = 1 THEN TwoBytes(v) ELSE <<v>>
  IN <<index + 16 * prec>> \o
     Concat([i \in 1 .. DCTSIZE2 |-> entry(table[NaturalOrder[i]])])

emit_dqt(w, index, table) ==
  IF index \in w.quant_sent THEN w
  ELSE [EmitSegment(w, M_DQT, DqtData(index, table)) EXCEPT !.quant_sent = @ \cup {index}]

(* How many codes of each length, then their symbols.                       *)
DhtData(index, table) == <<index>> \o table.bits \o table.huffval

emit_dht(w, index, is_ac, table) ==
  IF is_ac
  THEN IF index \in w.ac_sent THEN w
       ELSE [EmitSegment(w, M_DHT, DhtData(index + 16, table))
               EXCEPT !.ac_sent = @ \cup {index}]
  ELSE IF index \in w.dc_sent THEN w
       ELSE [EmitSegment(w, M_DHT, DhtData(index, table))
               EXCEPT !.dc_sent = @ \cup {index}]

emit_dri(w, interval) == [EmitSegment(w, M_DRI, TwoBytes(interval))
                            EXCEPT !.last_restart_interval = interval]

emit_sof(w, image, code) ==
  EmitSegment(w, code, <<8>> \o TwoBytes(image.height) \o TwoBytes(image.width)
                \o <<Len(image.comps)>> \o
                Concat([c \in DOMAIN image.comps |->
                  LET comp == image.comps[c]
                  IN <<comp.id, 16 * comp.h + comp.v, comp.q>>]))

emit_sos(w, image, scan) ==
  EmitSegment(w, M_SOS, <<Len(scan.comps)>> \o
                 Concat([i \in DOMAIN scan.comps |->
                   LET comp == image.comps[scan.comps[i]]
                   IN <<comp.id, 16 * comp.dc + comp.ac>>]) \o <<0, DCTSIZE2 - 1, 0>>)

write_file_header(w, image) ==
  LET soi  == [Emit(w, Marker(M_SOI)) EXCEPT !.last_restart_interval = 0]
      jfif == IF WriteJfif(image.space) THEN emit_jfif_app0(soi, image.density) ELSE soi
  IN IF WriteAdobe(image.space) THEN emit_adobe_app14(jfif, image.space) ELSE jfif

write_frame_header(w, image) ==
  LET quant(c) == image.quant[image.comps[c].q]
      tables == FoldLeft(LAMBDA v, comp : emit_dqt(v, comp.q, image.quant[comp.q]),
                         w, image.comps)
      baseline == \A c \in DOMAIN image.comps :
                    /\ Precision(quant(c)) = 0
                    /\ image.comps[c].dc <= 1 /\ image.comps[c].ac <= 1
  IN emit_sof(tables, image, IF baseline THEN M_SOF0 ELSE M_SOF1)

(* The tables of the scan, DRI if the interval is not the last one written. *)
write_scan_header(w, image, scan) ==
  LET dht(v, c) == LET comp == image.comps[c]
                   IN emit_dht(emit_dht(v, comp.dc, FALSE, image.dc[comp.dc]),
                               comp.ac, TRUE, image.ac[comp.ac])
      tables == FoldLeft(dht, w, scan.comps)
  IN emit_sos(IF scan.interval # tables.last_restart_interval
              THEN emit_dri(tables, scan.interval) ELSE tables, image, scan)

write_file_trailer(w) == Emit(w, Marker(M_EOI))

(* Every table that is defined and was not sent.                            *)
write_tables_only(w, image) ==
  LET each(v, index) ==
        LET q == IF index \in DOMAIN image.quant
                 THEN emit_dqt(v, index, image.quant[index]) ELSE v
            d == IF index \in DOMAIN image.dc
                 THEN emit_dht(q, index, FALSE, image.dc[index]) ELSE q
        IN IF index \in DOMAIN image.ac
           THEN emit_dht(d, index, TRUE, image.ac[index]) ELSE d
  IN write_file_trailer(FoldLeft(each, Emit(w, Marker(M_SOI)), <<0, 1, 2, 3>>))

(* write_marker_header, write_marker_byte: a COM or APPn of the application.*)
jpeg_write_marker(w, m, data) == EmitSegment(w, m, data)

(* encode_mcu_huff: a restart marker if the interval is over, then the      *)
(* blocks as differences from the component's last DC value; an FF in the   *)
(* data is followed by a zero. last is by position in the scan.             *)
BlocksOf(image, scan) ==    \* MCU_membership: the position in the scan of each block
  IF Len(scan.comps) = 1 THEN <<1>>
  ELSE Concat([i \in DOMAIN scan.comps |->
         LET comp == image.comps[scan.comps[i]] IN [k \in 1 .. comp.h * comp.v |-> i]])

Stuffed(code) == IF code = 255 THEN <<255, 0>> ELSE <<code>>

encode_mcu(image, scan, mcus, m) ==
  LET of      == BlocksOf(image, scan)
      restart == scan.interval > 0 /\ m > 1 /\ (m - 1) % scan.interval = 0
      begins  == m = 1 \/ restart
      previous(b) ==         \* last_dc_val
        LET earlier == {k \in 1 .. b - 1 : of[k] = of[b]}
            before  == {k \in DOMAIN of : of[k] = of[b]}
            last(S) == CHOOSE k \in S : \A j \in S : j <= k
        IN IF earlier # {} THEN mcus[m][last(earlier)]
           ELSE IF begins THEN 0 ELSE mcus[m - 1][last(before)]
  IN (IF restart THEN Marker(M_RST0 + ((((m - 1) \div scan.interval) - 1) % 8)) ELSE <<>>)
     \o Concat([b \in DOMAIN of |-> Stuffed((mcus[m][b] - previous(b)) % 256)])

WriteScan(w, image, scan) ==
  Emit(write_scan_header(w, image, scan),
       Concat([m \in DOMAIN scan.mcus |-> encode_mcu(image, scan, scan.mcus, m)]))

(* jpeg_start_compress to jpeg_finish_compress; comments are the application's *)
WriteImage(w, image) ==
  LET header   == write_file_header(w, image)
      comments == FoldLeft(LAMBDA v, data : jpeg_write_marker(v, M_COM, data),
                           header, image.comments)
      frame    == write_frame_header(comments, image)
  IN write_file_trailer(FoldLeft(LAMBDA v, scan : WriteScan(v, image, scan),
                                 frame, image.scans))
=============================================================================
