---------------------------- MODULE MCJpegDecode ----------------------------
(* Small images of every shape the modules tell apart.                      *)
EXTENDS JpegDecode

Comp(hs, vs) == [h |-> hs, v |-> vs, needed |-> TRUE]
All(n) == [k \in 1 .. n |-> k]
ScanOf(comps, ss, al) == [comps |-> comps, Ss |-> ss, Al |-> al]
Whole(n) == <<ScanOf(All(n), 0, 0)>>

Base == [comps |-> <<Comp(1, 1)>>, width |-> 3, height |-> 5, scaled |-> 2,
         scans |-> Whole(1), progressive |-> FALSE, buffered |-> FALSE, raw |-> FALSE,
         fancy |-> TRUE, ycc |-> FALSE, smoothing |-> TRUE, quantize |-> FALSE,
         two_pass |-> FALSE, enable1 |-> FALSE, enable2 |-> FALSE, enable_ext |-> FALSE,
         colormap |-> "none"]

Grey == [Base EXCEPT !.comps = <<Comp(1, 2)>>]
H2V2 == <<Comp(2, 2), Comp(1, 1)>>
YCC(vs) == <<Comp(2, vs), Comp(1, 1), Comp(1, 1)>>
Context(height, scaled) ==
  [Base EXCEPT !.comps = H2V2, !.width = 5, !.height = height, !.scans = Whole(2),
               !.scaled = scaled]
GreyOfYCC == [Context(5, 2) EXCEPT !.comps[2].needed = FALSE]
Plain == [Base EXCEPT !.comps = <<Comp(1, 2), Comp(1, 1)>>, !.scans = Whole(2)]
Merged(vs, height) ==
  [Base EXCEPT !.comps = YCC(vs), !.height = height, !.scans = Whole(3), !.fancy = FALSE,
               !.ycc = TRUE]
Quantized(two) == [Merged(2, 5) EXCEPT !.quantize = TRUE, !.two_pass = two]
QuantizedContext == [Context(6, 2) EXCEPT !.comps = YCC(2), !.scans = Whole(3),
                       !.quantize = TRUE, !.two_pass = TRUE]
Planes == [Base EXCEPT !.comps = H2V2, !.width = 5, !.height = 9,
             !.scans = <<ScanOf(<<1>>, 0, 0), ScanOf(<<2>>, 0, 0)>>]
Progressive ==
  [Base EXCEPT !.comps = <<Comp(1, 1), Comp(1, 1)>>, !.height = 5, !.progressive = TRUE,
     !.buffered = TRUE,
     !.scans = <<ScanOf(All(2), 0, 1), ScanOf(<<1>>, 1, 0), ScanOf(All(2), 0, 0)>>]
ProgressiveContext ==
  [Progressive EXCEPT !.comps = H2V2, !.width = 5, !.height = 5,
     !.scans = <<ScanOf(All(2), 0, 1), ScanOf(All(2), 0, 0)>>]
Palettes ==
  [Merged(1, 3) EXCEPT !.width = 2, !.buffered = TRUE, !.quantize = TRUE, !.enable1 = TRUE,
     !.enable2 = TRUE, !.enable_ext = TRUE]

(* A strip of three lines, the last strip with two.                         *)
ThreeLines ==
  {[Base EXCEPT !.comps = <<Comp(1, 3), Comp(1, 1), Comp(1, 1)>>, !.height = 5,
      !.scans = Whole(3), !.quantize = TRUE, !.two_pass = TRUE]}

(* Three rows to two: the upsampler refuses it.                             *)
Fraction == [Plain EXCEPT !.comps = <<Comp(1, 3), Comp(1, 2)>>]

MCConfigs ==
  {Fraction, Grey, GreyOfYCC, Plain, Quantized(TRUE), Quantized(FALSE), QuantizedContext, Planes,
   [Planes EXCEPT !.height = 5, !.raw = TRUE], [Context(5, 2) EXCEPT !.raw = TRUE],
   [Grey EXCEPT !.quantize = TRUE, !.two_pass = TRUE, !.colormap = "external"],
   Progressive, ProgressiveContext, Palettes,
   [Palettes EXCEPT !.enable1 = FALSE, !.two_pass = TRUE]}
  \cup {Context(n, 2) : n \in {3, 4, 5, 6, 9, 10}} \cup {Context(n, 1) : n \in {5, 7}}
  \cup {Merged(vs, n) : vs \in {1, 2}, n \in {4, 5}}
=============================================================================
