---------------------------- MODULE MCJpegReader ----------------------------
(* Four whole files; one of them cut short anywhere; and a scan of ten      *)
(* restart intervals with every run of up to MaxLost bytes taken out of it. *)
EXTENDS JpegReader, FiniteSets

CONSTANTS MaxLost

MCNaturalOrder == <<2, 3, 1>>
MCUndefined == <<>>

Bits(n) == <<0, n>>
Huff(n) == [bits |-> Bits(n), huffval |-> [k \in 1 .. n |-> k]]
Slots(a, b) == [slot \in {0, 1} |-> IF slot = 0 THEN a ELSE b]

Image(space, w, h, scans, comments) ==
  [space |-> space, comps |-> SpaceComps(space), width |-> w, height |-> h,
   density |-> IF WriteJfif(space) THEN 2 ELSE 1,
   quant |-> Slots(<<3, 4, 300>>, <<7, 8, 9>>), dc |-> Slots(Huff(1), Huff(2)),
   ac |-> Slots(Huff(0), Huff(1)), scans |-> scans, comments |-> comments]

Scan(comps, interval, mcus) == [comps |-> comps, interval |-> interval, mcus |-> mcus]

Expected(image, end) ==
  [space |-> image.space, density |-> image.density, comments |-> image.comments,
   scans |-> [k \in DOMAIN image.scans |-> image.scans[k].mcus], end |-> end,
   quantizers |-> [c \in DOMAIN image.comps |-> image.quant[image.comps[c].q]]]

Whole == [markers |-> -1, from |-> 0]
File(images, b) == [images |-> images, bytes |-> b, lost |-> Whole]

(* Interleaved, two MCUs of six blocks with a restart between them.         *)
Colour == Image("YCbCr", 3, 2,
  <<Scan(<<1, 2, 3>>, 1, <<<<1, 0, 2, 3, 5, -1>>, <<9, 8, 9, 9, 6, 4>>>>)>>, <<<<5, 6, 7>>>>)
ColourFile == LET b == WriteImage(NewWriter, Colour).bytes
              IN File(<<Expected(Colour, Len(b))>>, b)

(* A file of tables, then an abbreviated image that uses them.              *)
Grey == Image("GRAYSCALE", 3, 1, <<Scan(<<1>>, 2, <<<<1>>, <<0>>, <<4>>>>)>>, <<>>)
NoScan(end) == [space |-> "UNKNOWN", density |-> 1, comments |-> <<>>, scans |-> <<>>,
                end |-> end, quantizers |-> <<>>]
GreyFile ==
  LET t == write_tables_only(NewWriter, Grey)
      all == WriteImage(t, Grey).bytes
  IN File(<<NoScan(Len(t.bytes)), Expected(Grey, Len(all))>>, all)

(* Three scans, with the quantization table redefined after the first, and  *)
(* stray bytes before it: data, a stuffed zero, a restart marker, a fill FF.*)
Planes == Image("RGB", 2, 1, <<Scan(<<1>>, 0, <<<<1>>, <<2>>>>),
                               Scan(<<2>>, 1, <<<<3>>, <<2>>>>),
                               Scan(<<3>>, 0, <<<<6>>, <<6>>>>)>>, <<>>)
NewTable == <<50, 60, 70>>
PlanesFile ==
  LET one  == WriteScan(write_frame_header(write_file_header(NewWriter, Planes), Planes),
                        Planes, Planes.scans[1])
      stray == Emit(one, <<8, 255, 0>> \o Marker(M_RST0))
      redo == Emit(EmitSegment(stray, M_DQT, DqtData(0, NewTable)), <<255>>)
      rest == write_file_trailer(WriteScan(WriteScan(redo, Planes, Planes.scans[2]),
                                           Planes, Planes.scans[3]))
  IN File(<<[Expected(Planes, Len(rest.bytes)) EXCEPT
               !.quantizers = <<@[1], NewTable, NewTable>>]>>, rest.bytes)

Inks == Image("CMYK", 1, 1, <<Scan(<<1, 2, 3, 4>>, 0, <<<<1, 2, 3, 4>>>>)>>, <<<<7>>, <<>>>>)
InksFile == LET b == WriteImage(NewWriter, Inks).bytes
            IN File(<<Expected(Inks, Len(b))>>, b)

(* A frame libjpeg has no decoder for.                                      *)
Coded(f, code) == [images |-> f.images, lost |-> [markers |-> 9, from |-> 0],
                   bytes |-> [i \in DOMAIN f.bytes |->
                                IF f.bytes[i] = M_SOF1 THEN code ELSE f.bytes[i]]]

Long == Image("GRAYSCALE", 10, 1, <<Scan(<<1>>, 1, [m \in 1 .. 10 |-> <<m>>])>>, <<>>)
LongBytes == WriteImage(NewWriter, Long).bytes
LongData == Len(LongBytes) - 2 - (10 + 9 * 2)      \* the scan follows this byte

(* Bytes i..j are lost: interval k is bytes 3k+1..3k+3, data then marker.   *)
Damaged(i, j) ==
  LET hurt == {k \in 0 .. 8 : \E n \in i .. j : n \in 3 * k + 2 .. 3 * k + 3}
      last == j \div 3
  IN [images |-> <<Expected(Long, 0)>>,
      bytes |-> SubSeq(LongBytes, 1, LongData + i - 1) \o
                SubSeq(LongBytes, LongData + j + 1, Len(LongBytes)),
      lost |-> [markers |-> Cardinality(hurt), from |-> last + 2]]

(* The file ends after byte n.                                              *)
Cut(f, n) == [images |-> f.images, bytes |-> SubSeq(f.bytes, 1, n),
                 lost |-> [markers |-> 9, from |-> 0]]

With(kind, files) ==
  {[kind |-> kind, images |-> f.images, bytes |-> f.bytes, lost |-> f.lost] : f \in files}

WholeFiles == {ColourFile, GreyFile, PlanesFile, InksFile}
CutFiles == {Cut(ColourFile, n) : n \in 0 .. Len(ColourFile.bytes) - 1}
DamagedFiles ==
  {Damaged(i, j) : <<i, j>> \in {p \in (1 .. 28) \X (1 .. 28) : p[2] - p[1] \in 0 .. MaxLost - 1}}

MCSources == With("suspending", WholeFiles)
             \cup With("stdio", WholeFiles \cup CutFiles \cup DamagedFiles \cup
                                {Coded(ColourFile, 195), Coded(ColourFile, M_SOF9)})
=============================================================================
