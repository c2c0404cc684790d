---------------------------- MODULE MCJpegEncode ----------------------------
(* Images for the compressor. Blocks are 2 by 2.                            *)
EXTENDS JpegEncode

Comp(hh, vv, t) == [h |-> hh, v |-> vv, q |-> t, t |-> t]
Gray == <<Comp(1, 1, 0)>>
H2V2 == <<Comp(2, 2, 0), Comp(1, 1, 1), Comp(1, 1, 1)>>
TallGray == <<Comp(1, 2, 0)>>
H2V1 == <<Comp(2, 1, 0), Comp(1, 1, 1)>>
H1V2 == <<Comp(1, 2, 0), Comp(1, 1, 0)>>

Image(comps, width, height) ==
  [input |-> "lines", comps |-> comps, width |-> width, height |-> height, script |-> <<>>,
   optimize |-> FALSE, smooth |-> FALSE, restart_in_rows |-> 0, all |-> TRUE,
   defaults |-> TRUE, suspends |-> FALSE, comment |-> FALSE, units |-> 2, slot_reused |-> FALSE]

Suspending(j) == [j EXCEPT !.suspends = TRUE]
Smooth(j) == [j EXCEPT !.smooth = TRUE]
Optimized(j) == [j EXCEPT !.optimize = TRUE]
Script(j, s) == [j EXCEPT !.script = s]
Progressive(j) == Script(j, jpeg_simple_progression(Len(j.comps), TRUE))
Transcoded(j) == [j EXCEPT !.input = "coefs", !.comment = TRUE]
Raw(j) == [j EXCEPT !.input = "raw"]
Tables(j) == [j EXCEPT !.input = "tables"]
Abbreviated(j) == [j EXCEPT !.all = FALSE, !.defaults = FALSE]
Restarts(j, n) == [j EXCEPT !.restart_in_rows = n]

Whole(comps) == [comps |-> comps, Ss |-> 0, Se |-> DCTSIZE2 - 1, Ah |-> 0, Al |-> 0]
TwoScans == <<Whole(<<1>>), Whole(<<2, 3>>)>>
Twice == <<Whole(<<1>>), Whole(<<1, 2>>)>>

(* Every height up to three iMCU rows, with each kind of sampling.          *)
Plain == {Image(Gray, 3, n) : n \in 1 .. 6} \cup {Image(comps, 3, n) : comps \in {H2V1}, n \in 1 .. 5}
           \cup {Image(comps, 6, n) : comps \in {H2V2, H1V2, TallGray}, n \in 1 .. 10}
OnePass == {Suspending(j) : j \in Plain} \cup {Smooth(Suspending(j)) : j \in Plain}

JobLists == {<<j>> : j \in OnePass} \cup {
  <<Suspending(Restarts(Image(H2V2, 6, 5), 1))>>,
  <<Restarts(Image(Gray, 1, 19), 1)>>,
  <<Suspending(Raw(Image(H2V2, 6, 6)))>>,
  <<Optimized(Raw(Restarts(Image(H2V2, 5, 5), 1)))>>,
  <<Script(Image(H2V2, 5, 5), TwoScans)>>,
  <<Suspending(Script(Image(H2V2, 5, 7), TwoScans))>>,
  <<Script(Image(H1V2, 5, 5), Twice)>>,
  <<[Progressive(Image(H2V2, 6, 5)) EXCEPT !.comment = TRUE]>>,
  <<Transcoded(Image(H2V2, 6, 5))>>,
  <<Transcoded(Progressive(Image(H1V2, 3, 5)))>>,
  <<Transcoded(Optimized(Script(Restarts(Image(H2V2, 6, 9), 1), TwoScans)))>>,
  <<[Transcoded(Image(Gray, 2, 2)) EXCEPT !.slot_reused = TRUE]>>,
  <<Tables(Image(H2V1, 2, 2)), Abbreviated(Image(H2V1, 2, 2)), Abbreviated(Optimized(Image(H2V1, 2, 2))),
    Abbreviated(Image(H2V1, 2, 2))>>,
  <<Optimized(Image(H2V1, 2, 2)), Abbreviated(Image(H2V1, 3, 2)),
    [Abbreviated(Image(H2V1, 2, 2)) EXCEPT !.defaults = TRUE],
    [Abbreviated(Image(H2V1, 2, 2)) EXCEPT !.all = TRUE]>>}
=============================================================================
