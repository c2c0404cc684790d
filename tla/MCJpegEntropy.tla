--------------------------- MODULE MCJpegEntropy ----------------------------
(* Instance of JpegEntropy: blocks of 7 coefficients of two bits, symbols   *)
(* with runs up to 2 (so an EOB run has up to 3 bands), bytes of 3 bits.    *)
EXTENDS JpegEntropy

Order == [k \in 0 .. 6 |-> <<0, 2, 1, 3, 6, 4, 5>>[k + 1]]

(* A block from its coefficients in zigzag order.                           *)
B(zz) == [i \in 0 .. 6 |-> zz[CHOOSE k \in 1 .. 7 : Order[k - 1] = i]]

Zero == B(<<0, 0, 0, 0, 0, 0, 0>>)
Flat == B(<<-3, 0, 0, 0, 0, 0, 0>>)
Ones == B(<<3, 1, -1, 1, 0, -1, 1>>)
Large == B(<<1, 2, -3, 3, -2, 2, 3>>)
Far == B(<<2, 0, 0, 0, 0, 0, -1>>)
Mixed == B(<<-2, 3, 0, 0, -2, 0, 1>>)
Late == B(<<0, -2, 2, 0, 0, 0, 0>>)

Scan(comps, ss, se, ah, al) == [comps |-> comps, Ss |-> ss, Se |-> se, Ah |-> ah, Al |-> al]
Job(image, h, script) ==
  [image |-> image, h |-> h, script |-> script, tbl |-> [c \in DOMAIN image |-> IF c = 1 THEN 1 ELSE 2],
   optimize |-> TRUE, interval |-> 0, suspends |-> FALSE, need |-> "full", simple |-> FALSE]

ByBits == <<Scan(<<1>>, 0, 0, 0, 1), Scan(<<1>>, 1, 6, 0, 1),
            Scan(<<1>>, 1, 6, 1, 0), Scan(<<1>>, 0, 0, 1, 0)>>
ByBands == <<Scan(<<1>>, 0, 0, 0, 0), Scan(<<1>>, 1, 2, 0, 0), Scan(<<1>>, 3, 6, 0, 0)>>
AtOnce(comps) == Scan(comps, 0, 6, 0, 0)

(* Progressive images of one component, with and without restarts.          *)
Progressive ==
  {Job(<<image>>, <<1>>, ByBits) : image \in [1 .. 3 -> {Zero, Large, Far, Mixed}]}
  \union {[Job(<<image>>, <<1>>, script) EXCEPT !.interval = n] :
            script \in {ByBits, ByBands}, n \in {0, 1, 2},
            image \in {<<Mixed, Zero, Zero, Zero, Zero>>, <<Late, Large, Large, Zero, Far>>,
                       <<Ones, Flat, Ones, Ones, Mixed>>}}

(* Sequential images of two components, two blocks of the first in a MCU.   *)
TwoComps == <<<<Mixed, Far, Ones, Zero>>, <<Flat, Large>>>>
Sequential2 ==
  {[Job(TwoComps, <<2, 1>>, script) EXCEPT !.interval = n, !.optimize = o, !.suspends = s, !.need = need] :
     script \in {<<AtOnce(<<1, 2>>)>>, <<AtOnce(<<2>>), AtOnce(<<1>>)>>},
     n \in {0, 1}, o \in BOOLEAN, s \in BOOLEAN, need \in {"full", "dc", "none"}}

(* Three components, jpeg_simple_progression.                               *)
Simple ==
  {[Job(<<<<Mixed, Ones>>, <<Late, Zero>>, <<Far, Far>>>>, <<1, 1, 1>>,
        jpeg_simple_progression(3, YCbCr)) EXCEPT !.simple = TRUE, !.interval = n] :
     YCbCr \in BOOLEAN, n \in {0, 2}}

(* Scripts as an application may set them.                                  *)
SomeScans == {Scan(<<1>>, b[1], b[2], a[1], a[2]) :
                b \in {<<0, 0>>, <<0, 6>>, <<1, 6>>, <<1, 2>>, <<2, 6>>}, a \in {<<0, 0>>, <<0, 1>>, <<1, 0>>}}
Scripts ==
  {Job(<<<<Late>>>>, <<1>>, s) : s \in UNION {[1 .. n -> SomeScans] : n \in 0 .. 3}}
  \union {Job(<<<<Late>>, <<Far>>>>, <<1, 1>>, s) :
            s \in UNION {[1 .. n -> {AtOnce(c) : c \in {<<1>>, <<2>>, <<1, 2>>}}] : n \in 0 .. 3}}

Refused ==
  {Job(<<<<B(<<5, 0, 0, 0, 0, 0, 0>>), B(<<-4, 4, 0, 0, 0, 0, 0>>)>>>>, <<1>>, <<AtOnce(<<1>>)>>),
   [Job(<<<<B(<<0, 4, 0, 0, 0, 0, 0>>)>>>>, <<1>>, <<AtOnce(<<1>>)>>) EXCEPT !.optimize = FALSE],
   [Job(<<<<Mixed, Large, Ones>>>>, <<1>>, ByBits) EXCEPT !.suspends = TRUE]}

JobList == Progressive \union Sequential2 \union Simple \union Scripts \union Refused

Std == [t \in {"dc", "ac"} \X {1, 2} |->
          IF t[1] = "dc" THEN [bits |-> <<1, 1, 1, 1>>, huffval |-> <<0, 1, 2, 3>>]
          ELSE [bits |-> <<0, 1, 3, 4>>, huffval |-> <<0, 1, 2, 17, 18, 32, 33, 34>>]]
=============================================================================
