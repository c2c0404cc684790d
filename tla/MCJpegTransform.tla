-------------------------- MODULE MCJpegTransform ---------------------------
(* Instance of JpegTransform: blocks of 2 x 2 coefficients.                 *)
EXTENDS JpegTransform

TwoPoint == [u \in 0 .. 1 |-> [x \in 0 .. 1 |-> IF u = 1 /\ x = 1 THEN -1 ELSE 1]]

(* All coefficients and all steps of quantization differ.                   *)
Coefs(c, y, x) == [p \in Places |-> 64 * c + 16 * y + 4 * x + 2 * p[1] + p[2] + 1]
Steps2(n) == [p \in Places |-> 1 + 4 * n + p[1] + 2 * p[2]]

Comp(h, v, tbl) == [h |-> h, v |-> v, tbl |-> tbl]
File(f) ==
  LET g == [f EXCEPT !.quant = [n \in 1 .. 2 |-> Steps2(n)]]
  IN [g EXCEPT !.arrays =
        [c \in DOMAIN f.comps |->
           Padded(g, c, [y \in 0 .. PaddedRows(g, c) - 1 |->
                           [x \in 0 .. PaddedCols(g, c) - 1 |-> Coefs(c, y, x)]])]]
Header(space, comps, w, h, ms) ==
  [width |-> w, height |-> h, space |-> space, comps |-> comps,
   quant |-> <<>>, markers |-> ms, arrays |-> <<>>]

Samplings == {<<"GRAYSCALE", <<Comp(1, 1, 1)>>>>, <<"GRAYSCALE", <<Comp(2, 2, 1)>>>>,
              <<"YCbCr", <<Comp(2, 1, 1), Comp(1, 1, 2), Comp(1, 1, 2)>>>>,
              <<"YCbCr", <<Comp(1, 2, 1), Comp(1, 1, 2), Comp(1, 1, 2)>>>>}
Spaces == {<<"RGB", <<Comp(1, 1, 1), Comp(2, 1, 1), Comp(1, 2, 2)>>>>,
           <<"YCbCr", <<Comp(2, 2, 1), Comp(1, 1, 2), Comp(1, 1, 2)>>>>}

Codes == {"NONE", "FLIP_H", "FLIP_V", "TRANSPOSE", "TRANSVERSE", "ROT_90", "ROT_180", "ROT_270"}
Option(code, trim, gray, copy) ==
  [transform |-> code, trim |-> trim, force_grayscale |-> gray, copy |-> copy]
Plain(code) == Option(code, FALSE, FALSE, "COMMENTS")

Mixed == <<"JFIF", "APP0", "COM", "Adobe", "APP14", "APP", "COM">>
OneRun ==
  {[source |-> Header(s[1], s[2], w, h, <<"JFIF", "COM">>), options |-> <<Option(code, trim, gray, "COMMENTS")>>] :
     s \in Samplings, w \in 1 .. 5, h \in 1 .. 5, code \in Codes, trim \in BOOLEAN, gray \in BOOLEAN}
Colors ==
  {[source |-> Header(s[1], s[2], w, h, <<>>), options |-> <<Option(code, trim, gray, "NONE")>>] :
     s \in Spaces, w \in {3, 5, 9}, h \in {4, 6}, code \in Codes, trim \in BOOLEAN, gray \in BOOLEAN}
TwoRuns ==
  {[source |-> Header(s[1], s[2], size[1], size[2], <<"COM">>), options |-> <<Plain(a), Plain(b)>>] :
     s \in Samplings, size \in {<<3, 4>>, <<5, 5>>, <<5, 2>>}, a \in Codes, b \in Codes}
Copies ==
  {[source |-> Header(space, <<Comp(1, 1, 1)>>, 1, 1, ms), options |-> <<Option("NONE", FALSE, FALSE, a), Option("NONE", FALSE, FALSE, b)>>] :
     space \in {"GRAYSCALE", "RGB", "UNKNOWN"}, ms \in {Mixed, Mixed \o Mixed, <<>>},
     a \in {"NONE", "COMMENTS", "ALL"}, b \in {"NONE", "COMMENTS", "ALL"}}

(* A first component with fewer samples than another.                       *)
SmallFirst == {<<Comp(1, 1, 1), Comp(2, 2, 2), Comp(2, 2, 2)>>, <<Comp(2, 1, 1), Comp(1, 2, 2), Comp(1, 1, 2)>>}
SmallFirstJobs(gray) ==
  {[source |-> Header("YCbCr", comps, w, h, <<>>), options |-> <<Option(code, trim, gray, "NONE")>>] :
     comps \in SmallFirst, w \in {2, 3, 6}, h \in {2, 3, 6}, code \in Codes, trim \in BOOLEAN}
GrayJobs == SmallFirstJobs(TRUE)

JobSet == GrayJobs \union SmallFirstJobs(FALSE) \union OneRun \union Colors \union TwoRuns \union Copies
=============================================================================
