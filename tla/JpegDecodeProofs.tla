--------------------------- MODULE JpegDecodeProofs ---------------------------
(* For any images, requests of the application and orders of its calls:     *)
(* the color map in use is one the active quantizer was made for, the       *)
(* counters of the input, the buffers and the output agree, and the lines   *)
(* the application gets are the ones of the image, with all their data.     *)
EXTENDS JpegDecode, FiniteSetTheorems, TLAPS

Fits == quant.colormap \in (IF quant.active = "2pass" THEN {"chosen", "external"}
                            ELSE {"uniform"})
QuantType == quant \in [colormap : {"none", "uniform", "chosen", "external"},
                        two_pass : {cfg.two_pass} \cup BOOLEAN, dummy : BOOLEAN,
                        active : {"none", "1pass", "2pass"}, changed : BOOLEAN]

(* Before jpeg_start_decompress there is at most the map of the application.*)
Before == global_state = "READY" => quant.colormap = cfg.colormap /\ ~quant.dummy

(* Histograms are gathered by the second quantizer, before a pass shows.    *)
Gathering == quant.dummy => global_state = "PRESCAN" /\ quant.active = "2pass"

(* A map that is kept over passes fits, and a pass that shows has one.      *)
Kept == cfg.quantize /\ global_state \notin {"READY", "ERROR"} /\ quant.colormap # "none" => Fits
Mapped == cfg.quantize /\ global_state \in {"PRESCAN", "SCANNING"} /\ ~quant.dummy => Fits

(* A call that goes on was made in the state that is its own.               *)
CallType == call \in [op : Ops, max : {0} \cup LinesAsked]
Called == /\ call.op = "preload" => global_state = "PRELOAD"
          /\ call.op = "finish_output" => global_state = "BUFPOST"
          /\ call.op = "finish" => global_state = "STOPPING"

MapInv == /\ cfg \in Configs /\ QuantType /\ CallType /\ Called
          /\ Before /\ Gathering /\ Kept /\ Mapped

(* The first state has the settings of the application.                     *)
LEMMA InitMap == Init => MapInv
<1> SUFFICES ASSUME Init PROVE MapInv
  OBVIOUS
<1>1. cfg.colormap \in {"none", "external"}
  BY ConfigsAssumption, Zenon DEF Init, IsImage
<1>2. /\ quant = [colormap |-> cfg.colormap, two_pass |-> cfg.two_pass, dummy |-> FALSE,
                  active |-> "none", changed |-> FALSE]
      /\ global_state = "READY" /\ cfg \in Configs
      /\ call = [op |-> "none", max |-> 0]
  BY DEF Init
<1> QED
  BY <1>1, <1>2 DEF MapInv, QuantType, CallType, Called, Ops, Before, Gathering, Kept, Mapped

(* The quantizer part of the invariant.                                     *)
QuantInv == QuantType /\ Before /\ Gathering /\ Kept /\ Mapped

(* A step to another state that leaves the quantizer alone.                 *)
LEMMA QuantKept ==
  ASSUME MapInv, UNCHANGED <<cfg, quant>>, ~quant.dummy, global_state \notin {"READY", "ERROR"},
         global_state' # "READY",
         global_state' \in {"PRESCAN", "SCANNING"} => global_state = "PRESCAN"
  PROVE  QuantInv'
BY DEF MapInv, QuantInv, QuantType, Before, Gathering, Kept, Mapped, Fits

LEMMA QuantIdle ==
  ASSUME MapInv, UNCHANGED <<cfg, global_state, quant>>
  PROVE  QuantInv'
BY DEF MapInv, QuantInv, QuantType, Before, Gathering, Kept, Mapped, Fits

(* The call is over, or goes on in the same state, or another begins.       *)
LEMMA Calling ==
  ASSUME MapInv, QuantInv', cfg' = cfg,
         \/ call' = call /\ global_state' = global_state
         \/ \E op \in {"none", "setup", "consume"} : call' = Return(op)
  PROVE  MapInv'
<1>1. CASE call' = call /\ global_state' = global_state
  BY <1>1 DEF MapInv, QuantInv, CallType, Called
<1>2. CASE \E op \in {"none", "setup", "consume"} : call' = Return(op)
  BY <1>2 DEF MapInv, QuantInv, CallType, Called, Return, Ops
<1> QED
  BY <1>1, <1>2

(* prepare_for_output_pass: a map is chosen or uniform, or the old one kept.*)
LEMMA PreparedMap ==
  ASSUME MapInv, NEW scan, PreparePass(scan), UNCHANGED cfg,
         global_state \notin {"READY", "ERROR"}, ~quant.dummy
  PROVE  QuantInv'
<1>1. CASE Chooses /\ Active = "1pass" /\ ~enable_1pass
  BY <1>1 DEF PreparePass, MapInv, QuantInv, QuantType, Before, Gathering, Kept, Mapped, Fits
<1>2. CASE ~(Chooses /\ Active = "1pass" /\ ~enable_1pass)
  <2> DEFINE dummy == Chooses /\ Active = "2pass"
  <2>1. /\ quant' = [quant EXCEPT !.dummy = dummy, !.active = NewActive,
                       !.changed = FALSE,
                       !.colormap = IF Chooses /\ ~dummy THEN "uniform" ELSE @]
        /\ global_state' = "PRESCAN"
    BY <1>2, Zenon DEF PreparePass
  <2>2. Active \in {"1pass", "2pass"}
    BY DEF Active
  <2>3. CASE Chooses
    BY <2>1, <2>2, <2>3
    DEF MapInv, QuantInv, QuantType, Before, Gathering, Kept, Mapped, Fits, NewActive, Chooses
  <2>4. CASE ~Chooses
    <3>1. quant' = [quant EXCEPT !.dummy = FALSE, !.active = quant.active,
                                 !.changed = FALSE, !.colormap = quant.colormap]
      BY <2>1, <2>4 DEF NewActive
    <3> QED
      BY <2>1, <2>4, <3>1
      DEF MapInv, QuantInv, QuantType, Before, Gathering, Kept, Mapped, Fits, Chooses
  <2> QED
    BY <2>3, <2>4
<1> QED
  BY <1>1, <1>2

(* jpeg_start_decompress: a map that is there takes the second quantizer.   *)
LEMMA StartedMap == MapInv /\ StartDecompress => MapInv'
<1> SUFFICES ASSUME MapInv, StartDecompress PROVE MapInv'
  OBVIOUS
<1>1. global_state = "READY" /\ cfg' = cfg
  BY DEF StartDecompress
<1>2. CASE ~Supported
  <2>1. global_state' = "ERROR" /\ UNCHANGED <<call, quant>>
    BY <1>2, Zenon DEF StartDecompress
  <2> QED
    BY <1>1, <2>1
    DEF MapInv, QuantType, CallType, Called, Before, Gathering, Kept, Mapped, Fits
<1>3. CASE Supported
  <2>1. /\ global_state' = IF cfg.buffered THEN "BUFIMAGE" ELSE "PRELOAD"
        /\ call' = Return(IF cfg.buffered THEN "none" ELSE "preload")
        /\ quant' = [quant EXCEPT !.active = IF ~cfg.quantize THEN "none"
                                             ELSE IF enable_2pass \/ enable_external
                                             THEN "2pass" ELSE "1pass",
                                  !.colormap = IF ThreeComps THEN @ ELSE "none"]
    BY <1>3, Zenon DEF StartDecompress
  <2>2. cfg.colormap # "none" /\ cfg.quantize /\ ThreeComps => enable_external
    BY DEF enable_external
  <2>3. quant.colormap = cfg.colormap
    BY <1>1 DEF MapInv, Before
  <2>4. cfg.colormap \in {"none", "external"}
    BY ConfigsAssumption, Zenon DEF MapInv, IsImage
  <2>5. QuantInv'
    BY <1>1, <2>1, <2>2, <2>3, <2>4
    DEF MapInv, QuantInv, QuantType, Before, Gathering, Kept, Mapped, Fits
  <2>6. CASE cfg.buffered
    BY <1>1, <2>1, <2>5, <2>6, Calling
  <2>7. CASE ~cfg.buffered
    <3>1. global_state' = "PRELOAD" /\ call' = Return("preload")
      BY <2>1, <2>7
    <3>2. call' \in [op : Ops, max : {0} \cup LinesAsked] /\ call'.op = "preload"
      BY <3>1 DEF MapInv, CallType, Return, Ops
    <3> QED
      BY <1>1, <2>5, <3>1, <3>2 DEF MapInv, QuantInv, CallType, Called
  <2> QED
    BY <2>6, <2>7
<1> QED
  BY <1>2, <1>3

(* A step that gives lines.                                                 *)
LEMMA PostedMap == ASSUME MapInv, NEW q, NEW returns, Posted(q, returns) PROVE MapInv'
<1>1. UNCHANGED <<cfg, global_state, quant>> /\ (call' = call \/ call' = Return("none"))
  BY DEF Posted
<1> QED
  BY <1>1, QuantIdle, Calling

(* The library: only a new pass and the end of the dummy pass touch the map.*)
LEMMA LibraryMap == MapInv /\ Library => MapInv'
<1> SUFFICES ASSUME MapInv, Library PROVE MapInv'
  OBVIOUS
<1>1. CASE FillBuffer
  BY <1>1, QuantIdle, Calling DEF FillBuffer
<1>2. CASE Preloaded
  <2>1. global_state = "PRELOAD" /\ ~quant.dummy
    BY <1>2 DEF Preloaded, MapInv, Called, Gathering
  <2>2. QuantInv'
    BY <1>2, <2>1, PreparedMap DEF Preloaded
  <2> QED
    BY <1>2, <2>2, Calling DEF Preloaded
<1>3. CASE EndDummyPass
  <2>1. QuantInv'
    BY <1>3 DEF EndDummyPass, MapInv, QuantInv, QuantType, Before, Gathering, Kept, Mapped,
                Fits
  <2> QED
    BY <1>3, <2>1, Calling DEF EndDummyPass
<1>4. CASE SetupDone
  BY <1>4, QuantKept, Calling DEF SetupDone
<1>5. CASE SimpleMain
  BY <1>5, PostedMap DEF SimpleMain
<1>6. CASE PostponedRow
  BY <1>6, PostedMap DEF PostponedRow
<1>7. CASE ProcessRows
  BY <1>7, PostedMap DEF ProcessRows
<1>8. CASE CrankPost
  BY <1>8, PostedMap DEF CrankPost
<1>9. CASE RawData
  BY <1>9, QuantIdle, Calling DEF RawData
<1>10. CASE OutputFinished
  <2>1. global_state = "BUFPOST" /\ ~quant.dummy
    BY <1>10 DEF OutputFinished, MapInv, Called, Gathering
  <2> QED
    BY <1>10, <2>1, QuantKept, Calling DEF OutputFinished
<1>11. CASE Finished
  <2>1. global_state = "STOPPING" /\ ~quant.dummy
    BY <1>11 DEF Finished, MapInv, Called, Gathering
  <2> QED
    BY <1>11, <2>1, QuantKept, Calling DEF Finished
<1> QED
  BY <1>1, <1>2, <1>3, <1>4, <1>5, <1>6, <1>7, <1>8, <1>9, <1>10, <1>11 DEF Library

(* The application: a pass, or another way to choose colours.               *)
LEMMA ApplicationMap == MapInv /\ Application => MapInv'
<1> SUFFICES ASSUME MapInv, Application PROVE MapInv'
  OBVIOUS
<1> USE DEF MapInv
<1>1. CASE StartDecompress
  BY <1>1, StartedMap
<1>2. CASE CallAgain
  BY <1>2, QuantIdle DEF CallAgain, QuantInv, CallType, Called, Return, Ops
<1>3. CASE \E n \in LinesAsked : ReadScanlines(n)
  BY <1>3, QuantIdle DEF ReadScanlines, QuantInv, CallType, Called, Ops
<1>4. ASSUME NEW n \in 0 .. Len(cfg.scans) + 1, StartOutput(n) PROVE MapInv'
  <2>1. global_state = "BUFIMAGE" /\ ~quant.dummy /\ cfg' = cfg
    BY <1>4 DEF StartOutput, Gathering
  <2>2. QuantInv'
    BY <1>4, <2>1, PreparedMap DEF StartOutput
  <2> QED
    BY <1>4, <2>1, <2>2, Calling DEF StartOutput
<1>5. ASSUME NEW two \in BOOLEAN, Requantize(two) PROVE MapInv'
  <2>1. QuantInv'
    BY <1>5 DEF Requantize, QuantInv, QuantType, Before, Gathering, Kept, Mapped, Fits
  <2> QED
    BY <1>5, <2>1, Calling DEF Requantize
<1>6. CASE jpeg_new_colormap
  <2>1. QuantInv'
    BY <1>6 DEF jpeg_new_colormap, QuantInv, QuantType, Before, Gathering, Kept, Mapped, Fits
  <2> QED
    BY <1>6, <2>1, Calling DEF jpeg_new_colormap
<1>7. CASE FinishOutput
  <2>1. ~quant.dummy
    BY <1>7 DEF FinishOutput, Gathering
  <2> QED
    BY <1>7, <2>1, QuantKept DEF FinishOutput, QuantInv, CallType, Called, Return, Ops
<1>8. CASE FinishDecompress
  <2>1. ~quant.dummy
    BY <1>8 DEF FinishDecompress, Gathering
  <2> QED
    BY <1>8, <2>1, QuantKept DEF FinishDecompress, QuantInv, CallType, Called, Return, Ops
<1> QED
  BY <1>1, <1>2, <1>3, <1>4, <1>5, <1>6, <1>7, <1>8 DEF Application

(* Input does not know of colours.                                          *)
LEMMA SourceMap == MapInv /\ (Source \/ Suspend \/ ConsumeInput) => MapInv'
<1> SUFFICES ASSUME MapInv, Source \/ Suspend \/ ConsumeInput PROVE MapInv'
  OBVIOUS
<1>1. CASE DecodeMCU
  BY <1>1, QuantIdle, Calling DEF DecodeMCU
<1>2. CASE ConsumeMarkers
  BY <1>2, QuantIdle, Calling DEF ConsumeMarkers
<1>3. CASE Suspend
  BY <1>3, QuantIdle, Calling DEF Suspend
<1>4. CASE ConsumeInput
  BY <1>4, QuantIdle, Calling DEF ConsumeInput
<1> QED
  BY <1>1, <1>2, <1>3, <1>4 DEF Source

(* Whatever the application changes between passes, in any order, pixels    *)
(* are mapped by the quantizer their map was made for (jdmaster.c:453,      *)
(* jdmaster.c:515, jdapistd.c output_pass_setup).                           *)
THEOREM ColorMapFits == Spec => []MapMatches
<1>1. Init => MapInv
  BY InitMap
<1>2. MapInv /\ [Next]_vars => MapInv'
  <2> SUFFICES ASSUME MapInv, [Next]_vars PROVE MapInv'
    OBVIOUS
  <2>1. CASE Next
    BY <2>1, LibraryMap, ApplicationMap, SourceMap DEF Next
  <2>2. CASE UNCHANGED vars
    BY <2>2, QuantIdle, Calling DEF vars
  <2> QED
    BY <2>1, <2>2
<1>3. MapInv => MapMatches
  BY DEF MapInv, Gathering, Mapped, Fits, MapMatches
<1> QED
  BY <1>1, <1>2, <1>3, PTL DEF Spec
-----------------------------------------------------------------------------
(* Rounding up and division.                                                *)
LEMMA CeilIs ==
  ASSUME NEW x \in Nat \ {0}, NEW y \in Nat \ {0}
  PROVE  Ceil(x, y) \in Nat \ {0} /\ (Ceil(x, y) - 1) * y < x /\ x <= Ceil(x, y) * y
<1> DEFINE q == (x + y - 1) \div y
           r == (x + y - 1) % y
<1>1. q \in Nat /\ r \in 0 .. y - 1 /\ x + y - 1 = q * y + r
  OBVIOUS
<1> HIDE DEF q, r
<1>2. q # 0
  BY <1>1
<1>3. (q - 1) * y = q * y - y
  BY <1>1
<1>4. (q - 1) * y < x /\ x <= q * y
  <2> DEFINE p == q * y
  <2>1. p \in Nat
    BY <1>1
  <2> HIDE DEF p
  <2>2. x + y - 1 = p + r /\ (q - 1) * y = p - y
    BY <1>1, <1>3 DEF p
  <2>3. (q - 1) * y < x /\ x <= p
    BY <1>1, <2>1, <2>2
  <2> QED
    BY <2>3 DEF p
<1> QED
  BY <1>1, <1>2, <1>4 DEF Ceil, q

LEMMA LessFactor ==
  ASSUME NEW a \in Int, NEW b \in Int, NEW y \in Nat \ {0}, a * y < b * y
  PROVE  a < b
<1> SUFFICES ASSUME b <= a PROVE FALSE
  OBVIOUS
<1>1. PICK d \in Nat : a = b + d
  <2>1. a - b \in Nat /\ a = b + (a - b)
    OBVIOUS
  <2> QED
    BY <2>1
<1>2. a * y = b * y + d * y /\ d * y \in Nat /\ b * y \in Int
  BY <1>1
<1> QED
  BY <1>2

LEMMA FactorKeeps ==
  ASSUME NEW a \in Int, NEW b \in Int, NEW y \in Nat, a <= b
  PROVE  a * y <= b * y /\ a * y \in Int /\ b * y \in Int
<1>1. PICK d \in Nat : b = a + d
  <2>1. b - a \in Nat /\ b = a + (b - a)
    OBVIOUS
  <2> QED
    BY <2>1
<1>2. b * y = a * y + d * y /\ d * y \in Nat /\ a * y \in Int
  BY <1>1
<1> QED
  BY <1>2

LEMMA CeilUnique ==
  ASSUME NEW x \in Nat \ {0}, NEW y \in Nat \ {0}, NEW n \in Int,
         (n - 1) * y < x, x <= n * y
  PROVE  n = Ceil(x, y)
<1> DEFINE c == Ceil(x, y)
<1>1. c \in Nat \ {0} /\ (c - 1) * y < x /\ x <= c * y
  BY CeilIs
<1> HIDE DEF c
<1>2. n - 1 < c
  BY <1>1, LessFactor
<1>3. c - 1 < n
  BY <1>1, LessFactor
<1> QED
  BY <1>1, <1>2, <1>3 DEF c

(* Two roundings are one.                                                   *)
LEMMA CeilTwice ==
  ASSUME NEW x \in Nat \ {0}, NEW m \in Nat \ {0}, NEW k \in Nat \ {0}
  PROVE  Ceil(Ceil(x, m), k) = Ceil(x, m * k)
<1> DEFINE a == Ceil(x, m)
           b == Ceil(a, k)
           mk == m * k
<1>1. a \in Nat \ {0} /\ (a - 1) * m < x /\ x <= a * m
  BY CeilIs
<1> HIDE DEF a
<1>2. b \in Nat \ {0} /\ (b - 1) * k < a /\ a <= b * k
  BY <1>1, CeilIs
<1> HIDE DEF b
<1>3. mk \in Nat \ {0}
  OBVIOUS
<1>4. (b - 1) * mk < x
  <2>1. (b - 1) * k <= a - 1 /\ (b - 1) * k \in Int
    BY <1>1, <1>2
  <2>2. ((b - 1) * k) * m <= (a - 1) * m /\ (a - 1) * m \in Int /\ ((b - 1) * k) * m \in Int
    BY <1>1, <2>1, FactorKeeps
  <2>3. ((b - 1) * k) * m = (b - 1) * mk
    BY <1>2
  <2> QED
    BY <1>1, <2>2, <2>3
<1>5. x <= b * mk
  <2>1. a * m <= (b * k) * m /\ (b * k) * m \in Int /\ a * m \in Int
    BY <1>1, <1>2, FactorKeeps
  <2>2. (b * k) * m = b * mk
    BY <1>2
  <2> QED
    BY <1>1, <2>1, <2>2
<1>6. b = Ceil(x, mk)
  <2> HIDE DEF mk
  <2> QED
    BY <1>2, <1>3, <1>4, <1>5, CeilUnique
<1> QED
  BY <1>6 DEF a, b

(* A common factor does not matter.                                         *)
LEMMA CeilFactor ==
  ASSUME NEW x \in Nat \ {0}, NEW y \in Nat \ {0}, NEW k \in Nat \ {0}
  PROVE  Ceil(x * k, y * k) = Ceil(x, y)
<1> DEFINE c == Ceil(x, y)
           xk == x * k
           yk == y * k
<1>1. c \in Nat \ {0} /\ (c - 1) * y < x /\ x <= c * y
  BY CeilIs
<1> HIDE DEF c
<1>2. xk \in Nat \ {0} /\ yk \in Nat \ {0}
  OBVIOUS
<1>3. x <= c * y /\ c * y \in Int
  BY <1>1
<1>4. x * k <= (c * y) * k
  BY <1>3, FactorKeeps
<1>5. (c * y) * k = c * yk
  BY <1>1
<1>6. (c - 1) * y + 1 <= x /\ (c - 1) * y + 1 \in Int
  BY <1>1
<1>7. ((c - 1) * y + 1) * k <= x * k
  BY <1>6, FactorKeeps
<1>8. ((c - 1) * y + 1) * k = (c - 1) * yk + k /\ (c - 1) * yk \in Int
  BY <1>1
<1>9. (c - 1) * yk < xk /\ xk <= c * yk
  BY <1>2, <1>4, <1>5, <1>7, <1>8
<1> HIDE DEF xk, yk
<1>10. c = Ceil(xk, yk)
  BY <1>1, <1>2, <1>9, CeilUnique
<1> QED
  BY <1>10 DEF c, xk, yk

LEMMA DivisionUnique ==
  ASSUME NEW m \in Nat, NEW R \in Nat \ {0}, NEW q \in Nat, NEW r \in 0 .. R - 1, m = q * R + r
  PROVE  m \div R = q /\ m % R = r
<1> DEFINE d == m \div R
           e == m % R
<1>1. d \in Nat /\ e \in 0 .. R - 1 /\ m = d * R + e
  OBVIOUS
<1> HIDE DEF d, e
<1>2. (d + 1) * R = d * R + R /\ (q + 1) * R = q * R + R /\ d * R \in Nat /\ q * R \in Nat
  BY <1>1
<1>3. d * R < (q + 1) * R /\ q * R < (d + 1) * R
  BY <1>1, <1>2
<1>4. d < q + 1 /\ q < d + 1
  BY <1>1, <1>3, LessFactor
<1>5. d = q
  BY <1>1, <1>4
<1>6. e = r
  BY <1>1, <1>2, <1>5
<1> QED
  BY <1>5, <1>6 DEF d, e

LEMMA Division ==
  ASSUME NEW m \in Nat, NEW R \in Nat \ {0}
  PROVE  /\ m \div R \in Nat /\ m % R \in 0 .. R - 1 /\ m = (m \div R) * R + (m % R)
         /\ (m \div R) * R \in Nat /\ (m \div R) * R <= m
<1> DEFINE d == m \div R
           e == m % R
<1>1. d \in Nat /\ e \in 0 .. R - 1 /\ m = d * R + e
  OBVIOUS
<1> HIDE DEF d, e
<1>2. d * R \in Nat
  BY <1>1
<1> QED
  BY <1>1, <1>2 DEF d, e

(* What is left of n in its last m, and the number of m before.             *)
LEMMA LastPart ==
  ASSUME NEW n \in Nat \ {0}, NEW m \in Nat \ {0}, NEW l,
         n % m = 0 => l = m, n % m # 0 => l = n % m
  PROVE  l \in 1 .. m /\ n = (Ceil(n, m) - 1) * m + l
<1> DEFINE q == n \div m
           r == n % m
           c == IF r = 0 THEN q ELSE q + 1
<1>1. q \in Nat /\ r \in 0 .. m - 1 /\ n = q * m + r
  OBVIOUS
<1>2. l = IF r = 0 THEN m ELSE r
  OBVIOUS
<1> HIDE DEF q, r
<1>3. c \in Int /\ l \in 1 .. m
  BY <1>1, <1>2
<1>4. n = (c - 1) * m + l
  <2>1. CASE r = 0
    <3>1. c = q /\ (q - 1) * m = q * m - m /\ q * m \in Int
      BY <1>1, <2>1
    <3> QED
      BY <1>1, <1>2, <2>1, <3>1
  <2>2. CASE r # 0
    <3>1. c = q + 1 /\ c - 1 = q
      BY <1>1, <2>2
    <3> QED
      BY <1>1, <1>2, <2>2, <3>1
  <2> QED
    BY <2>1, <2>2
<1> HIDE DEF c
<1>5. (c - 1) * m < n /\ n <= c * m
  <2>1. c * m = (c - 1) * m + m /\ (c - 1) * m \in Int
    BY <1>3
  <2> QED
    BY <1>3, <1>4, <2>1
<1>6. c = Ceil(n, m)
  BY <1>3, <1>5, CeilUnique
<1> QED
  BY <1>3, <1>4, <1>6

(* The largest of some sampling factors, or of some scale factors.          *)
LEMMA LargestIn ==
  ASSUME NEW S, S \subseteq {1, 2, 3, 4, 8}, S # {}
  PROVE  Max(S) \in S /\ \A x \in S : x <= Max(S)
<1>1. \E x \in S : \A y \in S : x >= y
  <2>0. \A x \in S : x = 1 \/ x = 2 \/ x = 3 \/ x = 4 \/ x = 8
    OBVIOUS
  <2>1. CASE 8 \in S
    BY <2>0, <2>1
  <2>2. CASE 8 \notin S /\ 4 \in S
    BY <2>0, <2>2
  <2>3. CASE 8 \notin S /\ 4 \notin S /\ 3 \in S
    BY <2>0, <2>3
  <2>4. CASE 8 \notin S /\ 4 \notin S /\ 3 \notin S /\ 2 \in S
    BY <2>0, <2>4
  <2>5. CASE 8 \notin S /\ 4 \notin S /\ 3 \notin S /\ 2 \notin S
    <3>1. \A x \in S : x = 1
      BY <2>0, <2>5
    <3>2. PICK x : x \in S
      OBVIOUS
    <3> QED
      BY <3>1, <3>2
  <2> QED
    BY <2>1, <2>2, <2>3, <2>4, <2>5
<1>2. Max(S) = CHOOSE x \in S : \A y \in S : x >= y
  BY Zenon DEF Max
<1>3. Max(S) \in S /\ \A y \in S : Max(S) >= y
  BY <1>1, <1>2, Zenon
<1>4. \A y \in S : y \in Nat
  OBVIOUS
<1> QED
  BY <1>3, <1>4
-----------------------------------------------------------------------------
(* The geometry of an image.                                                *)
LEMMA Scaled ==
  ASSUME NEW x \in Nat \ {0}, NEW y \in Nat \ {0}, NEW a \in Nat \ {0}
  PROVE  /\ (Ceil(x, y) - 1) * a < Ceil(x * a, y) /\ Ceil(x * a, y) <= Ceil(x, y) * a
         /\ Ceil(x * a, y) \in Nat \ {0}
<1> DEFINE xa == x * a
           c == Ceil(x, y)
           d == Ceil(xa, y)
<1>1. xa \in Nat \ {0}
  OBVIOUS
<1>2. c \in Nat \ {0} /\ (c - 1) * y < x /\ x <= c * y
  BY CeilIs
<1> HIDE DEF xa
<1>3. d \in Nat \ {0} /\ (d - 1) * y < xa /\ xa <= d * y
  BY <1>1, CeilIs
<1> HIDE DEF c, d
<1>4. (c - 1) * a < d
  <2>1. (c - 1) * y + 1 <= x /\ (c - 1) * y + 1 \in Int
    BY <1>2
  <2>2. ((c - 1) * y + 1) * a <= x * a
    BY <2>1, FactorKeeps
  <2>3. ((c - 1) * y + 1) * a = ((c - 1) * a) * y + a /\ ((c - 1) * a) * y \in Int
    BY <1>2
  <2>4. d * y \in Int
    BY <1>3
  <2>5. ((c - 1) * a) * y < d * y
    BY <1>1, <1>3, <2>2, <2>3, <2>4 DEF xa
  <2>6. (c - 1) * a \in Int
    BY <1>2
  <2> QED
    BY <1>3, <2>5, <2>6, LessFactor
<1>5. d <= c * a
  <2>1. x * a <= (c * y) * a
    <3>1. c * y \in Int
      BY <1>2
    <3> QED
      BY <1>2, <3>1, FactorKeeps
  <2>2. (c * y) * a = (c * a) * y /\ (c * a) * y \in Int /\ c * a \in Int
    BY <1>2
  <2>3. (d - 1) * y \in Int
    BY <1>3
  <2>4. (d - 1) * y < (c * a) * y
    BY <1>1, <1>3, <2>1, <2>2, <2>3 DEF xa
  <2>5. d - 1 < c * a
    BY <1>3, <2>2, <2>4, LessFactor
  <2> QED
    BY <1>3, <2>2, <2>5
<1> QED
  BY <1>3, <1>4, <1>5 DEF c, d, xa

LEMMA ImageIs ==
  ASSUME cfg \in Configs
  PROVE  /\ IsImage(cfg) /\ Comps = 1 .. Len(cfg.comps) /\ Len(cfg.comps) \in Nat \ {0}
         /\ 1 \in Comps /\ Needed \subseteq Comps
         /\ DCTSIZE \in Nat \ {0} /\ M \in 1 .. DCTSIZE
         /\ cfg.width \in Nat \ {0} /\ cfg.height \in Nat \ {0}
         /\ MaxH \in 1 .. 4 /\ MaxV \in 1 .. 4
         /\ \A c \in Comps : h(c) \in 1 .. 4 /\ v(c) \in 1 .. 4 /\ v(c) <= MaxV /\ h(c) <= MaxH
<1>1. IsImage(cfg)
  BY ConfigsAssumption, Zenon
<1>2. cfg.comps \in Seq([h : 1 .. 4, v : 1 .. 4, needed : BOOLEAN]) /\ cfg.comps # <<>>
  BY <1>1, Zenon DEF IsImage
<1>3. Comps = 1 .. Len(cfg.comps) /\ Len(cfg.comps) \in Nat \ {0}
  BY <1>2 DEF Comps
<1>4. \A c \in Comps : cfg.comps[c] \in [h : 1 .. 4, v : 1 .. 4, needed : BOOLEAN]
  <2> DEFINE S == [h : 1 .. 4, v : 1 .. 4, needed : BOOLEAN]
  <2> HIDE DEF S
  <2>1. cfg.comps \in Seq(S)
    BY <1>2 DEF S
  <2>2. \A c \in Comps : cfg.comps[c] \in S
    BY <2>1 DEF Comps
  <2> QED
    BY <2>2 DEF S
<1>5. \A c \in Comps : h(c) \in 1 .. 4 /\ v(c) \in 1 .. 4
  BY <1>4 DEF h, v
<1> DEFINE HS == {h(c) : c \in Comps}
           VS == {v(c) : c \in Comps}
<1>6. 1 \in Comps
  BY <1>3
<1>7. HS \subseteq 1 .. 4 /\ HS # {} /\ VS \subseteq 1 .. 4 /\ VS # {}
  BY <1>5, <1>6
<1>8. (\A c \in Comps : h(c) \in HS /\ v(c) \in VS) /\ MaxH = Max(HS) /\ MaxV = Max(VS)
  BY Zenon DEF MaxH, MaxV
<1> HIDE DEF HS, VS
<1>9. /\ Max(HS) \in HS /\ \A x \in HS : x <= Max(HS)
      /\ Max(VS) \in VS /\ \A x \in VS : x <= Max(VS)
  <2>1. HS \subseteq {1, 2, 3, 4, 8} /\ VS \subseteq {1, 2, 3, 4, 8}
    BY <1>7
  <2> QED
    BY <1>7, <2>1, LargestIn
<1>10. \A c \in Comps : v(c) <= MaxV /\ h(c) <= MaxH
  BY <1>8, <1>9, Zenon
<1>11. MaxH \in 1 .. 4 /\ MaxV \in 1 .. 4
  BY <1>7, <1>8, <1>9
<1>12. Needed \subseteq Comps
  BY DEF Needed
<1>13. DCTSIZE \in Nat \ {0} /\ M \in 1 .. DCTSIZE /\ cfg.width \in Nat \ {0} /\ cfg.height \in Nat \ {0}
  BY <1>1, SizesAssumption DEF IsImage, M
<1> QED
  BY <1>1, <1>3, <1>5, <1>6, <1>10, <1>11, <1>12, <1>13

LEMMA SizeIs ==
  ASSUME cfg \in Configs, NEW c \in Comps
  PROVE  \E n \in {1, 2, 4, 8} :
           /\ DCT_scaled_size(c) = M * n /\ rgroup(c) = v(c) * n /\ hgroup(c) = h(c) * n
           /\ rgroup(c) \in 1 .. MaxV
           /\ iMCUheight(c) = v(c) * DCT_scaled_size(c) /\ iMCUheight(c) = rgroup(c) * M
           /\ M * n \in Nat \ {0} /\ iMCUheight(c) \in Nat \ {0}
<1>1. /\ DCTSIZE \in Nat \ {0} /\ M \in 1 .. DCTSIZE /\ MaxV \in 1 .. 4 /\ MaxH \in 1 .. 4
      /\ h(c) \in 1 .. 4 /\ v(c) \in 1 .. 4 /\ v(c) <= MaxV /\ h(c) <= MaxH
  BY ImageIs
<1> DEFINE fits(n) == /\ M * n <= DCTSIZE /\ h(c) * (M * n) <= MaxH * M
                      /\ v(c) * (M * n) <= MaxV * M
           S == {n \in {1, 2, 4, 8} : fits(n)}
<1>2. h(c) * M <= MaxH * M /\ v(c) * M <= MaxV * M
  BY <1>1, FactorKeeps
<1>3. 1 \in S
  BY <1>1, <1>2
<1>4. S \subseteq {1, 2, 3, 4, 8} /\ S # {}
  BY <1>3
<1>5. Max(S) \in S
  <2> HIDE DEF S
  <2> QED
    BY <1>4, LargestIn
<1>6. DCT_scaled_size(c) = M * Max(S)
  BY Zenon DEF DCT_scaled_size
<1>7. PICK n \in {1, 2, 4, 8} : fits(n) /\ DCT_scaled_size(c) = M * n
  BY <1>5, <1>6
<1>8. M * n \in Nat \ {0} /\ n \in Nat \ {0}
  BY <1>1, <1>7
<1>9. iMCUheight(c) = v(c) * (M * n) /\ v(c) * (M * n) = (v(c) * n) * M /\ v(c) * n \in Nat \ {0}
  BY <1>1, <1>7, <1>8 DEF iMCUheight
<1>10. rgroup(c) = v(c) * n
  <2> DEFINE a == v(c) * n
  <2>1. a \in Nat /\ M \in Nat \ {0} /\ 0 \in 0 .. M - 1 /\ a * M \in Nat /\ a * M = a * M + 0
    BY <1>1, <1>9
  <2> HIDE DEF a
  <2>2. (a * M) \div M = a
    BY <2>1, DivisionUnique
  <2> QED
    BY <1>9, <2>2 DEF rgroup, a
<1>11. hgroup(c) = h(c) * n
  <2> DEFINE a == h(c) * n
  <2>1. a \in Nat /\ M \in Nat \ {0} /\ 0 \in 0 .. M - 1 /\ a * M \in Nat /\ a * M = a * M + 0
    BY <1>1, <1>8
  <2>2. h(c) * (M * n) = a * M
    BY <1>1, <1>8
  <2> HIDE DEF a
  <2>3. (a * M) \div M = a
    BY <2>1, DivisionUnique
  <2> QED
    BY <1>7, <2>2, <2>3 DEF hgroup, a
<1>12. v(c) * n <= MaxV
  <2> SUFFICES ASSUME MaxV < v(c) * n PROVE FALSE
    BY <1>1, <1>9
  <2>1. MaxV + 1 <= v(c) * n
    BY <1>1, <1>9
  <2>2. (MaxV + 1) * M <= (v(c) * n) * M
    BY <1>1, <1>9, <2>1, FactorKeeps
  <2>3. (MaxV + 1) * M = MaxV * M + M /\ MaxV * M \in Int
    BY <1>1
  <2> QED
    BY <1>1, <1>7, <1>9, <2>2, <2>3
<1>13. iMCUheight(c) \in Nat \ {0}
  BY <1>1, <1>8, <1>9
<1> QED
  BY <1>1, <1>7, <1>8, <1>9, <1>10, <1>11, <1>12, <1>13

(* iMCU rows: all full but the last, whatever is counted.                   *)
LEMMA RowsIs ==
  ASSUME cfg \in Configs
  PROVE  /\ total_iMCU_rows \in Nat \ {0} /\ OutputHeight \in Nat \ {0}
         /\ (total_iMCU_rows - 1) * (M * MaxV) < OutputHeight
         /\ OutputHeight <= total_iMCU_rows * (M * MaxV)
         /\ OutputHeight = Ceil(cfg.height * M, DCTSIZE)
         /\ total_iMCU_rows = Ceil(cfg.height, MaxV * DCTSIZE)
<1>1. /\ DCTSIZE \in Nat \ {0} /\ M \in 1 .. DCTSIZE /\ MaxV \in 1 .. 4
      /\ cfg.height \in Nat \ {0}
  BY ImageIs
<1> DEFINE y == MaxV * DCTSIZE
           a == M * MaxV
           x == cfg.height
<1>2. y \in Nat \ {0} /\ a \in Nat \ {0} /\ x \in Nat \ {0} /\ x * M \in Nat \ {0}
  BY <1>1
<1>3. Ceil(x, y) \in Nat \ {0}
  BY <1>2, CeilIs
<1>4. /\ (Ceil(x, y) - 1) * a < Ceil(x * a, y) /\ Ceil(x * a, y) <= Ceil(x, y) * a
      /\ Ceil(x * a, y) \in Nat \ {0}
  <2> HIDE DEF x, y, a
  <2> QED
    BY <1>2, Scaled
<1>5. Ceil(x * a, y) = Ceil(x * M, DCTSIZE)
  <2>1. x * a = (x * M) * MaxV /\ y = DCTSIZE * MaxV
    BY <1>1
  <2>2. Ceil((x * M) * MaxV, DCTSIZE * MaxV) = Ceil(x * M, DCTSIZE)
    <3> DEFINE z == x * M
    <3> HIDE DEF z
    <3>1. z \in Nat \ {0} /\ MaxV \in Nat \ {0}
      BY <1>1, <1>2 DEF z
    <3>2. Ceil(z * MaxV, DCTSIZE * MaxV) = Ceil(z, DCTSIZE)
      BY <1>1, <3>1, CeilFactor
    <3> QED
      BY <3>2 DEF z
  <2> QED
    BY <2>1, <2>2
<1>6. OutputHeight = Ceil(x * M, DCTSIZE) /\ total_iMCU_rows = Ceil(x, y)
  BY DEF OutputHeight, total_iMCU_rows
<1> QED
  BY <1>3, <1>4, <1>5, <1>6

LEMMA ComponentIs ==
  ASSUME cfg \in Configs, NEW c \in Comps
  PROVE  /\ downsampled_height(c) \in Nat \ {0} /\ height_in_blocks(c) \in Nat \ {0}
         /\ width_in_blocks(c) \in Nat \ {0}
         /\ (total_iMCU_rows - 1) * iMCUheight(c) < downsampled_height(c)
         /\ downsampled_height(c) <= total_iMCU_rows * iMCUheight(c)
         /\ (total_iMCU_rows - 1) * v(c) < height_in_blocks(c)
         /\ height_in_blocks(c) <= total_iMCU_rows * v(c)
         /\ downsampled_height(c) <= height_in_blocks(c) * DCT_scaled_size(c)
         /\ width_in_blocks(c) <= Ceil(cfg.width, MaxH * DCTSIZE) * h(c)
         /\ Ceil(cfg.width, MaxH * DCTSIZE) \in Nat \ {0}
<1>1. /\ DCTSIZE \in Nat \ {0} /\ M \in 1 .. DCTSIZE /\ MaxV \in 1 .. 4 /\ MaxH \in 1 .. 4
      /\ h(c) \in 1 .. 4 /\ v(c) \in 1 .. 4
      /\ cfg.height \in Nat \ {0} /\ cfg.width \in Nat \ {0}
  BY ImageIs
<1>2. /\ iMCUheight(c) = v(c) * DCT_scaled_size(c) /\ iMCUheight(c) \in Nat \ {0}
      /\ DCT_scaled_size(c) \in Nat \ {0}
  BY SizeIs
<1> DEFINE y == MaxV * DCTSIZE
           z == MaxH * DCTSIZE
           a == iMCUheight(c)
           s == DCT_scaled_size(c)
           x == cfg.height
           w == cfg.width
           xv == x * v(c)
           wh == w * h(c)
<1>3. /\ y \in Nat \ {0} /\ z \in Nat \ {0} /\ x \in Nat \ {0} /\ w \in Nat \ {0}
      /\ xv \in Nat \ {0} /\ wh \in Nat \ {0}
  BY <1>1
<1>4. /\ downsampled_height(c) = Ceil(xv * s, y) /\ height_in_blocks(c) = Ceil(xv, y)
      /\ width_in_blocks(c) = Ceil(wh, z) /\ total_iMCU_rows = Ceil(x, y)
  BY DEF downsampled_height, height_in_blocks, width_in_blocks, total_iMCU_rows
<1>5. xv * s = x * a
  BY <1>1, <1>2
<1> HIDE DEF y, z, a, s, x, w
<1>6. (Ceil(x, y) - 1) * a < Ceil(x * a, y) /\ Ceil(x * a, y) <= Ceil(x, y) * a
      /\ Ceil(x * a, y) \in Nat \ {0}
  BY <1>2, <1>3, Scaled DEF a
<1>7. /\ (Ceil(x, y) - 1) * v(c) < Ceil(xv, y) /\ Ceil(xv, y) <= Ceil(x, y) * v(c)
      /\ Ceil(xv, y) \in Nat \ {0}
  <2>1. v(c) \in Nat \ {0}
    BY <1>1
  <2> QED
    BY <1>3, <2>1, Scaled
<1>8. Ceil(wh, z) <= Ceil(w, z) * h(c) /\ Ceil(wh, z) \in Nat \ {0} /\ Ceil(w, z) \in Nat \ {0}
  <2>1. h(c) \in Nat \ {0}
    BY <1>1
  <2>2. Ceil(w, z) \in Nat \ {0}
    BY <1>3, CeilIs
  <2> QED
    BY <1>3, <2>1, <2>2, Scaled
<1> HIDE DEF xv, wh
<1>9. Ceil(xv * s, y) <= Ceil(xv, y) * s
  BY <1>2, <1>3, Scaled DEF s
<1> QED
  BY <1>4, <1>5, <1>6, <1>7, <1>8, <1>9 DEF a, s, w, z

LEMMA LastRowsIs ==
  ASSUME cfg \in Configs, NEW c \in Comps
  PROVE  /\ RowsLeft(c) \in 1 .. iMCUheight(c)
         /\ downsampled_height(c) = (total_iMCU_rows - 1) * iMCUheight(c) + RowsLeft(c)
         /\ last_block_rows(c) \in 1 .. v(c)
         /\ height_in_blocks(c) = (total_iMCU_rows - 1) * v(c) + last_block_rows(c)
<1> DEFINE T == total_iMCU_rows
           a == iMCUheight(c)
           d == downsampled_height(c)
           b == height_in_blocks(c)
           k == v(c)
<1>1. /\ T \in Nat \ {0} /\ a \in Nat \ {0} /\ d \in Nat \ {0} /\ b \in Nat \ {0} /\ k \in Nat \ {0}
      /\ (T - 1) * a < d /\ d <= T * a /\ (T - 1) * k < b /\ b <= T * k
  <2>1. k \in Nat \ {0}
    BY ImageIs
  <2>2. a \in Nat \ {0}
    BY SizeIs
  <2>3. T \in Nat \ {0}
    BY RowsIs
  <2> QED
    BY <2>1, <2>2, <2>3, ComponentIs
<1> HIDE DEF T, a, d, b, k
<1>2. T = Ceil(d, a) /\ T = Ceil(b, k)
  BY <1>1, CeilUnique
<1>3. RowsLeft(c) = IF d % a = 0 THEN a ELSE d % a
  BY DEF RowsLeft, d, a
<1>4. last_block_rows(c) = IF b % k = 0 THEN k ELSE b % k
  BY DEF last_block_rows, b, k
<1>5. RowsLeft(c) \in 1 .. a /\ d = (T - 1) * a + RowsLeft(c)
  <2> DEFINE l == RowsLeft(c)
  <2>1. (d % a = 0 => l = a) /\ (d % a # 0 => l = d % a)
    BY <1>3
  <2> HIDE DEF l
  <2>2. l \in 1 .. a /\ d = (Ceil(d, a) - 1) * a + l
    <3>1. d \in Nat \ {0} /\ a \in Nat \ {0}
      BY <1>1
    <3> QED
      BY ONLY <2>1, <3>1, LastPart
  <2>3. l \in 1 .. a /\ d = (T - 1) * a + l
    BY <1>2, <2>2
  <2> QED
    BY <2>3 DEF l
<1>6. last_block_rows(c) \in 1 .. k /\ b = (T - 1) * k + last_block_rows(c)
  BY <1>1, <1>2, <1>4, LastPart
<1> QED
  BY <1>5, <1>6 DEF T, a, b, d, k

(* The last iMCU row has the row groups that the output needs.              *)
LEMMA BottomIs ==
  ASSUME cfg \in Configs
  PROVE  /\ BottomGroups \in 1 .. M
         /\ OutputHeight <= ((total_iMCU_rows - 1) * M + BottomGroups) * MaxV
         /\ ((total_iMCU_rows - 1) * M + BottomGroups - 1) * MaxV < OutputHeight
<1>1. /\ DCTSIZE \in Nat \ {0} /\ M \in 1 .. DCTSIZE /\ MaxV \in 1 .. 4
      /\ cfg.height \in Nat \ {0} /\ 1 \in Comps
  BY ImageIs
<1> DEFINE T == total_iMCU_rows
           r == rgroup(1)
           d == downsampled_height(1)
           l == RowsLeft(1)
           q == (l - 1) \div r
           a == iMCUheight(1)
           g == (T - 1) * M + (q + 1)
<1>2. T \in Nat \ {0} /\ r \in Nat \ {0} /\ d \in Nat \ {0} /\ l \in 1 .. r * M /\ a = r * M
      /\ d = (T - 1) * a + l /\ M \in Nat \ {0} /\ r * M \in Nat
  BY <1>1, RowsIs, SizeIs, ComponentIs, LastRowsIs
<1>3. BottomGroups = q + 1
  BY DEF BottomGroups
<1>4. d = Ceil((cfg.height * M) * r, MaxV * DCTSIZE)
  <2>1. a = v(1) * DCT_scaled_size(1) /\ v(1) \in Nat /\ DCT_scaled_size(1) \in Nat
    BY <1>1, SizeIs, ImageIs
  <2>2. cfg.height * v(1) * DCT_scaled_size(1) = (cfg.height * M) * r
    <3>1. cfg.height * v(1) * DCT_scaled_size(1) = cfg.height * (v(1) * DCT_scaled_size(1))
      BY <1>1, <2>1
    <3>2. cfg.height * (r * M) = (cfg.height * M) * r
      BY <1>1, <1>2
    <3> QED
      BY <1>2, <2>1, <3>1, <3>2
  <2> QED
    BY <2>2 DEF downsampled_height
<1> HIDE DEF T, r, d, l, a
<1>5. q \in Nat /\ l - 1 = q * r + ((l - 1) % r) /\ (l - 1) % r \in 0 .. r - 1
  <2>1. l - 1 \in Nat
    BY <1>2
  <2> QED
    BY <1>2, <2>1, Division
<1> DEFINE e == (l - 1) % r
<1> HIDE DEF q, e
<1>6. q * r + e + 1 = l /\ e \in 0 .. r - 1 /\ q * r \in Int
  BY <1>2, <1>5 DEF e
<1>7. g \in Int /\ (g - 1) * r < d /\ d <= g * r
  <2>1. g * r = ((T - 1) * (r * M)) + q * r + r /\ (T - 1) * (r * M) \in Int
    BY <1>2, <1>5
  <2>2. (g - 1) * r = g * r - r /\ g \in Int
    BY <1>2, <1>5
  <2> DEFINE u == (T - 1) * (r * M)
             p == q * r
             gr == g * r
  <2>3. u \in Int /\ p \in Int /\ gr = u + p + r /\ d = u + l /\ p + e + 1 = l /\ (g - 1) * r = gr - r
    BY <1>2, <1>6, <2>1, <2>2
  <2> HIDE DEF u, p, gr
  <2>4. gr - r < d /\ d <= gr
    BY <1>2, <1>6, <2>3
  <2> QED
    BY <2>2, <2>3, <2>4 DEF gr
<1>8. g = Ceil(d, r)
  <2> HIDE DEF g
  <2> QED
    BY <1>2, <1>7, CeilUnique
<1>9. g = Ceil(OutputHeight, MaxV)
  <2> DEFINE x == cfg.height * M
             y == MaxV * DCTSIZE
  <2>1. x \in Nat \ {0} /\ y \in Nat \ {0} /\ MaxV \in Nat \ {0}
    BY <1>1
  <2>2. OutputHeight = Ceil(x, DCTSIZE)
    BY RowsIs
  <2>3. Ceil(Ceil(x, DCTSIZE), MaxV) = Ceil(x, DCTSIZE * MaxV)
    <3> HIDE DEF x, y
    <3> QED
      BY <1>1, <2>1, CeilTwice
  <2>4. DCTSIZE * MaxV = y
    BY <1>1
  <2>5. d = Ceil(x * r, y)
    BY <1>4
  <2> HIDE DEF x, y
  <2>6. x * r \in Nat \ {0} /\ y * r \in Nat \ {0}
    BY <1>2, <2>1
  <2>7. Ceil(Ceil(x * r, y), r) = Ceil(x * r, y * r)
    BY <1>2, <2>1, <2>6, CeilTwice
  <2>8. Ceil(x * r, y * r) = Ceil(x, y)
    BY <1>2, <2>1, CeilFactor
  <2> QED
    BY <1>8, <2>2, <2>3, <2>4, <2>5, <2>7, <2>8
<1>10. (g - 1) * MaxV < OutputHeight /\ OutputHeight <= g * MaxV
  <2>1. OutputHeight \in Nat \ {0} /\ MaxV \in Nat \ {0}
    BY <1>1, RowsIs
  <2> QED
    BY <1>9, <2>1, CeilIs
<1>11. q + 1 <= M
  <2>1. q * r < M * r
    <3>1. q * r < r * M /\ r * M = M * r
      BY <1>2, <1>6
    <3> QED
      BY <3>1
  <2>2. q < M
    BY <1>2, <1>5, <2>1, LessFactor
  <2> QED
    BY <1>2, <1>5, <2>2
<1> QED
  BY <1>2, <1>3, <1>5, <1>10, <1>11 DEF T

(* What supported sampling factors are.                                     *)
LEMMA MergedIs ==
  ASSUME cfg \in Configs, use_merged_upsample
  PROVE  MaxV \in {1, 2} /\ \A c \in Comps : rgroup(c) = v(c) /\ v(c) \in {1, MaxV}
<1>1. Len(cfg.comps) = 3 /\ v(1) <= 2 /\ v(2) = 1 /\ v(3) = 1 /\ \A c \in Comps : DCT_scaled_size(c) = M
  BY DEF use_merged_upsample
<1>2. Comps = 1 .. 3 /\ \A c \in Comps : v(c) \in 1 .. 4 /\ v(c) <= MaxV
  BY <1>1, ImageIs
<1>3. MaxV = Max({v(c) : c \in Comps}) /\ {v(c) : c \in Comps} = {v(1), 1}
  <2>1. {v(c) : c \in Comps} = {v(1), v(2), v(3)}
    <3>1. Comps = {1, 2, 3}
      BY <1>2
    <3> QED
      BY <3>1
  <2> QED
    BY <1>1, <2>1 DEF MaxV
<1>4. v(1) \in {1, 2}
  BY <1>1, <1>2
<1>5. Max({v(1), 1}) \in {v(1), 1} /\ \A x \in {v(1), 1} : x <= Max({v(1), 1})
  <2> DEFINE S == {v(1), 1}
  <2>1. S \subseteq {1, 2, 3, 4, 8} /\ S # {}
    BY <1>4
  <2> HIDE DEF S
  <2>2. Max(S) \in S /\ \A x \in S : x <= Max(S)
    BY <2>1, LargestIn
  <2> QED
    BY <2>2 DEF S
<1>6. MaxV = v(1)
  <2> DEFINE m == Max({v(1), 1})
  <2>1. m \in {v(1), 1} /\ v(1) <= m /\ MaxV = m
    BY <1>3, <1>5
  <2> HIDE DEF m
  <2> QED
    BY <1>4, <2>1
<1>7. \A c \in Comps : rgroup(c) = v(c)
  <2> TAKE c \in Comps
  <2>1. PICK n \in {1, 2, 4, 8} : DCT_scaled_size(c) = M * n /\ rgroup(c) = v(c) * n
    BY SizeIs
  <2>2. M * n = M /\ M \in Nat \ {0}
    BY <1>1, <2>1, ImageIs
  <2>3. n = 1
    BY <2>1, <2>2
  <2> QED
    BY <1>2, <2>1, <2>3
<1>8. \A c \in Comps : v(c) \in {1, MaxV}
  <2> TAKE c \in Comps
  <2>1. c = 1 \/ c = 2 \/ c = 3
    BY <1>2
  <2> QED
    BY <1>1, <1>6, <2>1
<1> QED
  BY <1>4, <1>6, <1>7, <1>8

LEMMA UpsampledIs ==
  ASSUME cfg \in Configs, Supported, ~cfg.raw, NEW c \in Needed
  PROVE  /\ VRatio(c) \in Nat \ {0} /\ VRatio(c) * rgroup(c) = MaxV
         /\ downsampled_height(c) = Ceil(OutputHeight, VRatio(c))
<1>1. /\ DCTSIZE \in Nat \ {0} /\ M \in 1 .. DCTSIZE /\ MaxV \in 1 .. 4
      /\ cfg.height \in Nat \ {0} /\ c \in Comps /\ v(c) \in 1 .. 4
  BY ImageIs
<1>2. rgroup(c) \in Nat \ {0} /\ MaxV \in Nat \ {0}
  BY <1>1, SizeIs
<1>3. MaxV % rgroup(c) = 0
  <2>1. CASE use_merged_upsample
    <3>1. rgroup(c) \in {1, MaxV}
      BY <1>1, <2>1, MergedIs
    <3>2. MaxV = MaxV * 1 + 0 /\ MaxV = 1 * MaxV + 0 /\ 0 \in 0 .. 1 - 1 /\ 0 \in 0 .. MaxV - 1 /\ 1 \in Nat \ {0}
      BY <1>2
    <3>3. MaxV % 1 = 0 /\ MaxV % MaxV = 0
      BY <1>2, <3>2, DivisionUnique
    <3> QED
      BY <3>1, <3>3
  <2>2. CASE ~use_merged_upsample
    BY <2>2 DEF Supported
  <2> QED
    BY <2>1, <2>2
<1> DEFINE r == rgroup(c)
           u == VRatio(c)
<1>4. u \in Nat /\ MaxV = u * r + 0
  <2>1. u = MaxV \div r
    BY DEF VRatio
  <2> QED
    BY <1>2, <1>3, <2>1, Division
<1>5. u # 0
  <2>1. 0 * r = 0
    BY <1>2
  <2> QED
    BY <1>2, <1>4, <2>1
<1>6. u * r = MaxV
  <2>1. u * r \in Nat
    BY <1>2, <1>4
  <2> QED
    BY <1>4, <2>1
<1>7. downsampled_height(c) = Ceil((cfg.height * M) * r, (DCTSIZE * u) * r)
  <2>1. PICK n \in {1, 2, 4, 8} : /\ DCT_scaled_size(c) = M * n /\ r = v(c) * n
                                  /\ M * n \in Nat \ {0}
    BY <1>1, SizeIs
  <2>2. cfg.height * v(c) * (M * n) = (cfg.height * M) * (v(c) * n)
    BY <1>1, <2>1
  <2>3. MaxV * DCTSIZE = (DCTSIZE * u) * r
    <3>1. (u * r) * DCTSIZE = (DCTSIZE * u) * r
      BY <1>1, <1>2, <1>4
    <3> QED
      BY <1>6, <3>1
  <2> QED
    BY <2>1, <2>2, <2>3 DEF downsampled_height
<1> HIDE DEF r, u
<1>8. cfg.height * M \in Nat \ {0} /\ DCTSIZE * u \in Nat \ {0} /\ r \in Nat \ {0}
  BY <1>1, <1>2, <1>4, <1>5 DEF r
<1>9. Ceil((cfg.height * M) * r, (DCTSIZE * u) * r) = Ceil(cfg.height * M, DCTSIZE * u)
  <2> DEFINE x == cfg.height * M
             y == DCTSIZE * u
  <2> HIDE DEF x, y
  <2>1. Ceil(x * r, y * r) = Ceil(x, y)
    BY <1>8, CeilFactor DEF x, y
  <2> QED
    BY <2>1 DEF x, y
<1>10. Ceil(Ceil(cfg.height * M, DCTSIZE), u) = Ceil(cfg.height * M, DCTSIZE * u)
  <2> DEFINE x == cfg.height * M
  <2>1. x \in Nat \ {0} /\ u \in Nat \ {0}
    BY <1>4, <1>5, <1>8
  <2> HIDE DEF x
  <2>2. Ceil(Ceil(x, DCTSIZE), u) = Ceil(x, DCTSIZE * u)
    BY <1>1, <2>1, CeilTwice
  <2> QED
    BY <2>2 DEF x
<1>11. OutputHeight = Ceil(cfg.height * M, DCTSIZE)
  BY RowsIs
<1> QED
  BY <1>4, <1>5, <1>6, <1>7, <1>9, <1>10, <1>11 DEF r, u
-----------------------------------------------------------------------------
(* A row of component c with all that is to be shown of it, and the rows    *)
(* output line k is made of.                                                *)
WholeRow(c, r) == [r |-> r, cols |-> Columns(c)]
OutputRow(k) ==
  [c \in Needed |-> <<WholeRow(c, k \div VRatio(c)), WholeRow(c, Other(c, k \div VRatio(c), k))>>]

(* The image does not change.                                               *)
LEMMA ImageKept ==
  ASSUME cfg' = cfg
  PROVE  /\ Comps' = Comps /\ Needed' = Needed /\ MaxH' = MaxH /\ MaxV' = MaxV /\ M' = M
         /\ \A c : h(c)' = h(c) /\ v(c)' = v(c)
<1>1. \A c : h(c)' = h(c) /\ v(c)' = v(c)
  BY DEF h, v
<1>2. Comps' = Comps /\ Needed' = Needed /\ M' = M
  BY DEF Comps, Needed, M
<1>3. MaxH' = MaxH /\ MaxV' = MaxV
  BY <1>1, <1>2 DEF MaxH, MaxV
<1> QED
  BY <1>1, <1>2, <1>3

LEMMA SizesKept ==
  ASSUME cfg' = cfg
  PROVE  /\ OutputHeight' = OutputHeight /\ total_iMCU_rows' = total_iMCU_rows
         /\ \A c : /\ DCT_scaled_size(c)' = DCT_scaled_size(c)
                   /\ downsampled_height(c)' = downsampled_height(c)
                   /\ downsampled_width(c)' = downsampled_width(c)
                   /\ width_in_blocks(c)' = width_in_blocks(c)
                   /\ height_in_blocks(c)' = height_in_blocks(c)
                   /\ iMCUheight(c)' = iMCUheight(c) /\ rgroup(c)' = rgroup(c)
                   /\ hgroup(c)' = hgroup(c) /\ last_block_rows(c)' = last_block_rows(c)
                   /\ VRatio(c)' = VRatio(c) /\ HRatio(c)' = HRatio(c)
                   /\ RowsLeft(c)' = RowsLeft(c) /\ Columns(c)' = Columns(c)
<1>0. /\ MaxH' = MaxH /\ MaxV' = MaxV /\ M' = M
      /\ \A c : h(c)' = h(c) /\ v(c)' = v(c)
  BY ImageKept
<1>1. OutputHeight' = OutputHeight /\ total_iMCU_rows' = total_iMCU_rows
  BY <1>0 DEF OutputHeight, total_iMCU_rows
<1>2. \A c : DCT_scaled_size(c)' = DCT_scaled_size(c)
  BY <1>0 DEF DCT_scaled_size
<1>3. \A c : /\ downsampled_height(c)' = downsampled_height(c)
             /\ downsampled_width(c)' = downsampled_width(c)
  BY <1>0, <1>2 DEF downsampled_height, downsampled_width
<1>4. \A c : width_in_blocks(c)' = width_in_blocks(c) /\ height_in_blocks(c)' = height_in_blocks(c)
  BY <1>0 DEF width_in_blocks, height_in_blocks
<1>5. \A c : iMCUheight(c)' = iMCUheight(c)
  BY <1>0, <1>2 DEF iMCUheight
<1>6. \A c : rgroup(c)' = rgroup(c)
  BY <1>0, <1>5 DEF rgroup
<1>7. \A c : hgroup(c)' = hgroup(c)
  BY <1>0, <1>2 DEF hgroup
<1>8. \A c : last_block_rows(c)' = last_block_rows(c)
  BY <1>0, <1>4 DEF last_block_rows
<1>9. \A c : VRatio(c)' = VRatio(c)
  BY <1>0, <1>6 DEF VRatio
<1>10. \A c : HRatio(c)' = HRatio(c)
  BY <1>0, <1>2 DEF HRatio
<1>11. \A c : RowsLeft(c)' = RowsLeft(c)
  BY <1>3, <1>5 DEF RowsLeft
<1>12. \A c : Columns(c)' = Columns(c)
  BY <1>4 DEF Columns
<1> QED
  BY <1>1, <1>2, <1>3, <1>4, <1>5, <1>6, <1>7, <1>8, <1>9, <1>10, <1>11, <1>12

LEMMA ModulesKept ==
  ASSUME cfg' = cfg
  PROVE  /\ use_merged_upsample' = use_merged_upsample
         /\ need_context_rows' = need_context_rows /\ use_c_buffer' = use_c_buffer
         /\ has_multiple_scans' = has_multiple_scans
         /\ Supported' = Supported /\ enable_2pass' = enable_2pass /\ Groups' = Groups
         /\ BottomGroups' = BottomGroups /\ strip_height' = strip_height
         /\ \A c : h2v2_fancy(c)' = h2v2_fancy(c) /\ FunnyPointers(c)' = FunnyPointers(c)
         /\ \A k : OutputRow(k)' = OutputRow(k)
         /\ \A c, r : WholeRow(c, r)' = WholeRow(c, r)
         /\ \A l, g : Wraparound(l, g)' = Wraparound(l, g)
         /\ \A l, c : Bottom(l, c)' = Bottom(l, c)
<1>0. /\ Comps' = Comps /\ Needed' = Needed /\ MaxH' = MaxH /\ MaxV' = MaxV /\ M' = M
      /\ \A c : h(c)' = h(c) /\ v(c)' = v(c)
  BY ImageKept
<1>1. /\ OutputHeight' = OutputHeight
      /\ \A c : /\ DCT_scaled_size(c)' = DCT_scaled_size(c)
                /\ downsampled_height(c)' = downsampled_height(c)
                /\ downsampled_width(c)' = downsampled_width(c)
                /\ rgroup(c)' = rgroup(c) /\ hgroup(c)' = hgroup(c)
                /\ VRatio(c)' = VRatio(c) /\ HRatio(c)' = HRatio(c)
                /\ RowsLeft(c)' = RowsLeft(c) /\ Columns(c)' = Columns(c)
  BY SizesKept
<1>2. use_merged_upsample' = use_merged_upsample
  BY <1>0, <1>1 DEF use_merged_upsample
<1>3. \A c : h2v2_fancy(c)' = h2v2_fancy(c)
  BY <1>0, <1>1 DEF h2v2_fancy
<1>4. need_context_rows' = need_context_rows
  BY <1>0, <1>2, <1>3 DEF need_context_rows
<1>5. use_c_buffer' = use_c_buffer /\ has_multiple_scans' = has_multiple_scans
  BY DEF use_c_buffer, has_multiple_scans
<1>6. Supported' = Supported
  BY <1>0, <1>1, <1>2 DEF Supported
<1>7. enable_2pass' = enable_2pass
  BY DEF enable_2pass, ThreeComps
<1>8. Groups' = Groups
  BY <1>0, <1>4 DEF Groups
<1>9. BottomGroups' = BottomGroups /\ strip_height' = strip_height
  BY <1>0, <1>1 DEF BottomGroups, strip_height
<1>10. \A c : FunnyPointers(c)' = FunnyPointers(c)
  <2> TAKE c
  <2>1. rgroup(c)' = rgroup(c) /\ M' = M
    BY <1>0, <1>1
  <2> QED
    BY <2>1, SMT DEF FunnyPointers
<1>11. \A c, r : WholeRow(c, r)' = WholeRow(c, r)
  BY <1>1 DEF WholeRow
<1>12. \A c, n, k : Other(c, n, k)' = Other(c, n, k)
  BY <1>1, <1>3 DEF Other
<1>13. \A k : OutputRow(k)' = OutputRow(k)
  BY <1>0, <1>1, <1>11, <1>12 DEF OutputRow
<1>14. \A l, g : Wraparound(l, g)' = Wraparound(l, g)
  BY <1>0 DEF Wraparound
<1>15. \A l, c : Bottom(l, c)' = Bottom(l, c)
  BY <1>1 DEF Bottom
<1> QED
  BY <1>2, <1>3, <1>4, <1>5, <1>6, <1>7, <1>8, <1>9, <1>10, <1>11, <1>13, <1>14, <1>15
-----------------------------------------------------------------------------
(* The counters: where the input, the output and the buffers between them   *)
(* are. A sequence of whatever it holds.                                    *)
IsSeq(s) == s \in Seq({s[i] : i \in DOMAIN s})

(* The input: which scan, iMCU row and MCU is next.                         *)
InputInv ==
  /\ input \in [scan : 1 .. Len(cfg.scans), row : 0 .. total_iMCU_rows, vert : Nat,
                mcu : Nat, data : BOOLEAN, eoi : BOOLEAN]
  /\ input.vert < MCU_rows_per_iMCU_row /\ input.mcu < MCUs_per_row
  /\ input.data = (input.row < total_iMCU_rows)
  /\ ~input.data => input.vert = 0 /\ input.mcu = 0
  /\ input.eoi => ~input.data /\ input.scan = Len(cfg.scans)

CoefType == /\ DOMAIN coefs = Comps
            /\ \A c \in Comps : \A b \in DOMAIN coefs[c] : coefs[c][b] \in 0 .. input.scan

(* In which states what can be.                                             *)
StateInv ==
  /\ global_state \in States /\ passes \in 0 .. MaxPasses
  /\ global_state \notin {"READY", "ERROR"} => Supported
  /\ passes > 0 => Supported
  /\ global_state \in {"READY", "PRELOAD"} => passes = 0
  /\ global_state \in {"PRESCAN", "SCANNING", "BUFPOST"} => passes > 0
  /\ global_state \in {"BUFIMAGE", "BUFPOST"} => cfg.buffered
  /\ global_state = "PRELOAD" => ~cfg.buffered
  /\ global_state = "STOPPING" /\ ~cfg.buffered /\ passes > 0 /\ ~main.crank =>
       output.scanline >= OutputHeight
  /\ global_state \in {"PRESCAN", "SCANNING"} => quant.dummy = (post.mode = "SAVE_AND_PASS")

(* A call that reads or sets up goes on until it has its lines.             *)
CallInv ==
  /\ call.op = "read" =>
       /\ global_state = "SCANNING" /\ output.scanline < OutputHeight
       /\ call.max \in LinesAsked /\ Len(shown.rows) < call.max
       /\ shown.from + Len(shown.rows) = output.scanline
  /\ call.op = "setup" => global_state \in {"PRESCAN", "ERROR"}
  /\ call.op = "consume" => cfg.buffered
ShownType == shown.from \in Nat /\ IsSeq(shown.rows) /\ DOMAIN shown = {"from", "rows"}

(* One pass over one scan: the output takes what the input has.             *)
OnePassInv ==
  ~use_c_buffer =>
    /\ global_state \in {"READY", "PRELOAD"} =>
         input = [scan |-> 1, row |-> 0, vert |-> 0, mcu |-> 0, data |-> TRUE, eoi |-> FALSE]
    /\ passes > 0 /\ ~main.crank /\ output.scanline < OutputHeight =>
         /\ input.scan = 1 /\ input.row = output.row
         /\ main.buffer_full => input.vert = 0 /\ input.mcu = 0

(* The types of the rest.                                                   *)
OutputType ==
  /\ DOMAIN output = {"scan", "row", "scanline", "smooth"}
  /\ output.scan \in 0 .. Len(cfg.scans) + 1 /\ output.smooth \in BOOLEAN
  /\ output.row \in 0 .. total_iMCU_rows
  /\ output.scanline \in 0 .. total_iMCU_rows * (M * MaxV)
  /\ output.smooth => use_c_buffer

MainType(m) ==
  /\ DOMAIN m = {"buf", "xbuffer", "whichptr", "buffer_full", "context_state", "rowgroup_ctr",
                 "rowgroups_avail", "iMCU_row_ctr", "crank"}
  /\ m.buffer_full \in BOOLEAN /\ m.crank \in BOOLEAN
  /\ m.whichptr \in 1 .. 2 /\ m.context_state \in {"PREPARE", "PROCESS", "POSTPONED"}
  /\ m.rowgroup_ctr \in 0 .. M + 2

UpType(u) ==
  /\ DOMAIN u = {"next_row_out", "rows_to_go", "color", "spare"}
  /\ u.next_row_out \in 0 .. MaxV /\ u.rows_to_go \in 0 .. OutputHeight

PostType(p) ==
  /\ DOMAIN p = {"mode", "starting_row", "next_row", "whole"}
  /\ p.mode \in {"PASS_THRU", "SAVE_AND_PASS", "CRANK_DEST"}
  /\ p.starting_row \in 0 .. OutputHeight + strip_height
  /\ IsSeq(p.whole)
  /\ enable_2pass => Len(p.whole) = strip_height * Ceil(OutputHeight, strip_height)

(* The row groups of a pass that the upsampler is done with.                *)
Consumed(m, row) ==
  IF ~need_context_rows
  THEN IF m.buffer_full THEN (row - 1) * M + m.rowgroup_ctr ELSE row * M
  ELSE IF m.context_state = "POSTPONED"
       THEN (IF m.buffer_full THEN row - 1 ELSE row) * M - 1
  ELSE IF m.context_state = "PROCESS" THEN (row - 1) * M + m.rowgroup_ctr
  ELSE IF m.buffer_full THEN (row - 1) * M ELSE 0

(* Which list of pointers is for iMCU row number n.                         *)
Turn(n) == IF n % 2 = 0 THEN 1 ELSE 2

(* Where the main buffer is when the coefficient controller gave it the iMCU*)
(* rows before number row.                                                  *)
MainAt(m, row) ==
  /\ row >= (IF m.buffer_full THEN 1 ELSE 0)
  /\ ~m.buffer_full => row < total_iMCU_rows
  /\ ~need_context_rows => /\ m.rowgroup_ctr < M
                           /\ ~m.buffer_full \/ cfg.raw => m.rowgroup_ctr = 0
  /\ need_context_rows =>
       /\ m.iMCU_row_ctr = row
       /\ m.whichptr = Turn(IF m.buffer_full THEN row - 1 ELSE row)
       /\ m.context_state = "POSTPONED" =>
            /\ m.rowgroup_ctr = M + 1 /\ m.rowgroups_avail = M + 2
            /\ row >= (IF m.buffer_full THEN 2 ELSE 1)
       /\ m.context_state = "PROCESS" =>
            /\ m.buffer_full /\ m.rowgroup_ctr < m.rowgroups_avail
            /\ m.rowgroups_avail = IF row = total_iMCU_rows THEN BottomGroups ELSE M - 1
       /\ m.context_state = "PREPARE" /\ ~m.buffer_full => row = 0

(* The lines of a row group that were made already.                         *)
Made(u) ==
  IF cfg.raw THEN 0
  ELSE IF use_merged_upsample THEN IF MaxV = 2 /\ u.spare # <<>> THEN 1 ELSE 0
  ELSE IF u.next_row_out = MaxV THEN 0 ELSE u.next_row_out

(* The upsampler after line lines, done with that many row groups.          *)
UpAt(u, lines, groups) ==
  /\ lines = groups * MaxV + Made(u)
  /\ ~cfg.raw /\ (use_merged_upsample => MaxV = 2) => u.rows_to_go = OutputHeight - lines
  /\ ~cfg.raw /\ use_merged_upsample /\ MaxV = 2 /\ u.spare # <<>> =>
       IsSeq(u.spare) /\ Len(u.spare) = 1
  /\ ~cfg.raw /\ ~use_merged_upsample /\ u.next_row_out < MaxV =>
       IsSeq(u.color) /\ Len(u.color) = MaxV

(* The postprocessor when it passes an image in strips.                     *)
StripAt(p, lines) ==
  p.mode # "PASS_THRU" =>
    /\ enable_2pass /\ ~cfg.raw
    /\ p.next_row \in 0 .. strip_height - 1 /\ p.starting_row + p.next_row = lines
    /\ \E k \in 0 .. OutputHeight : p.starting_row = k * strip_height

PassInv ==
  passes > 0 =>
    /\ StripAt(post, output.scanline) /\ main.crank = (post.mode = "CRANK_DEST")
    /\ ~cfg.raw /\ ~main.crank => output.scanline <= OutputHeight
    /\ ~main.crank /\ output.scanline < OutputHeight =>
         /\ MainAt(main, output.row)
         /\ UpAt(up, output.scanline, Consumed(main, output.row))

CountInv == /\ MapInv /\ InputInv /\ CoefType /\ StateInv /\ CallInv /\ ShownType
            /\ OnePassInv /\ OutputType /\ MainType(main) /\ UpType(up) /\ PostType(post)
            /\ PassInv
-----------------------------------------------------------------------------
(* Sequences.                                                               *)
LEMMA InSeq == ASSUME NEW S, NEW s \in Seq(S) PROVE IsSeq(s)
<1>1. Len(s) \in Nat /\ DOMAIN s = 1 .. Len(s) /\ s \in [1 .. Len(s) -> S]
  OBVIOUS
<1>2. s \in [1 .. Len(s) -> {s[i] : i \in DOMAIN s}]
  BY <1>1
<1> QED
  BY <1>1, <1>2 DEF IsSeq

LEMMA SeqIs ==
  ASSUME NEW s, IsSeq(s)
  PROVE  Len(s) \in Nat /\ DOMAIN s = 1 .. Len(s)
<1> DEFINE S == {s[i] : i \in DOMAIN s}
<1>1. s \in Seq(S)
  BY DEF IsSeq
<1> HIDE DEF S
<1> QED
  BY <1>1

LEMMA ListIs ==
  ASSUME NEW n \in Nat, NEW s, DOMAIN s = 1 .. n, s = [i \in DOMAIN s |-> s[i]]
  PROVE  IsSeq(s) /\ Len(s) = n
<1> DEFINE S == {s[i] : i \in DOMAIN s}
<1>1. \A i \in 1 .. n : s[i] \in S
  OBVIOUS
<1> HIDE DEF S
<1>2. s \in [1 .. n -> S]
  BY <1>1
<1>3. s \in Seq(S) /\ Len(s) = n
  BY <1>2
<1> QED
  BY <1>3, InSeq

LEMMA ConcatIs ==
  ASSUME NEW s, NEW t, IsSeq(s), IsSeq(t)
  PROVE  /\ IsSeq(s \o t) /\ Len(s \o t) = Len(s) + Len(t)
         /\ \A i \in 1 .. Len(s) : (s \o t)[i] = s[i]
         /\ \A i \in Len(s) + 1 .. Len(s) + Len(t) : (s \o t)[i] = t[i - Len(s)]
<1> DEFINE S == {s[i] : i \in DOMAIN s}
           R == {t[i] : i \in DOMAIN t}
           B == S \cup R
<1>1. s \in Seq(S) /\ t \in Seq(R)
  BY DEF IsSeq
<1> HIDE DEF S, R
<1>2. s \in Seq(B) /\ t \in Seq(B)
  BY <1>1
<1> HIDE DEF B
<1>3. s \o t \in Seq(B)
  BY <1>2
<1>4. /\ Len(s \o t) = Len(s) + Len(t)
      /\ \A i \in 1 .. Len(s) : (s \o t)[i] = s[i]
      /\ \A i \in Len(s) + 1 .. Len(s) + Len(t) : (s \o t)[i] = t[i - Len(s)]
  BY <1>2
<1> QED
  BY <1>3, <1>4, InSeq

LEMMA SubIs ==
  ASSUME NEW s, IsSeq(s), NEW m \in Nat, NEW n \in Nat, m + n <= Len(s)
  PROVE  /\ IsSeq(SubSeq(s, m + 1, m + n)) /\ Len(SubSeq(s, m + 1, m + n)) = n
         /\ \A i \in 1 .. n : SubSeq(s, m + 1, m + n)[i] = s[m + i]
<1> DEFINE S == {s[i] : i \in DOMAIN s}
           t == SubSeq(s, m + 1, m + n)
<1>1. s \in Seq(S)
  BY DEF IsSeq
<1> HIDE DEF S
<1>2. Len(s) \in Nat
  BY <1>1
<1>3. t = [i \in 1 .. n |-> s[m + i]]
  <2>1. t = [i \in 1 .. ((m + n) - (m + 1) + 1) |-> s[i + (m + 1) - 1]]
    BY <1>1, <1>2
  <2>2. (m + n) - (m + 1) + 1 = n /\ \A i \in 1 .. n : i + (m + 1) - 1 = m + i
    OBVIOUS
  <2> QED
    BY <2>1, <2>2
<1> HIDE DEF t
<1>4. IsSeq(t) /\ Len(t) = n
  BY <1>3, ListIs
<1>5. \A i \in 1 .. n : t[i] = s[m + i]
  BY <1>3
<1> QED
  BY <1>4, <1>5 DEF t

LEMMA EmptyIs == IsSeq(<<>>) /\ Len(<<>>) = 0
BY DEF IsSeq

LEMMA OneIs == ASSUME NEW x PROVE IsSeq(<<x>>) /\ Len(<<x>>) = 1 /\ <<x>>[1] = x
<1>1. <<x>> \in Seq({x}) /\ Len(<<x>>) = 1 /\ <<x>>[1] = x
  OBVIOUS
<1> QED
  BY <1>1, InSeq
-----------------------------------------------------------------------------
(* The lines of row groups.                                                 *)
LEMMA GroupsIs ==
  ASSUME cfg \in Configs, NEW g \in Int
  PROVE  /\ g * MaxV \in Int /\ (g + 1) * MaxV = g * MaxV + MaxV
         /\ (total_iMCU_rows - 1) * M + BottomGroups \in Int
         /\ g * MaxV < OutputHeight <=> g < (total_iMCU_rows - 1) * M + BottomGroups
<1> DEFINE b == (total_iMCU_rows - 1) * M + BottomGroups
<1>1. MaxV \in Nat \ {0} /\ b \in Int /\ OutputHeight \in Nat
  <2>1. M \in Nat /\ DCTSIZE \in Nat /\ MaxV \in 1 .. 4
    BY ImageIs
  <2>2. total_iMCU_rows \in Nat \ {0} /\ OutputHeight \in Nat /\ BottomGroups \in Nat
    BY <2>1, RowsIs, BottomIs
  <2> QED
    BY <2>1, <2>2
<1>2. OutputHeight <= b * MaxV /\ (b - 1) * MaxV < OutputHeight
  <2>1. /\ OutputHeight <= ((total_iMCU_rows - 1) * M + BottomGroups) * MaxV
        /\ ((total_iMCU_rows - 1) * M + BottomGroups - 1) * MaxV < OutputHeight
    BY BottomIs, Zenon
  <2>2. (total_iMCU_rows - 1) * M + BottomGroups - 1 = b - 1
    BY <1>1, ImageIs, RowsIs, BottomIs
  <2> HIDE DEF b
  <2> QED
    BY <2>1, <2>2, Zenon DEF b
<1> HIDE DEF b
<1>3. g * MaxV \in Int /\ b * MaxV \in Int /\ (b - 1) * MaxV \in Int /\ (g + 1) * MaxV = g * MaxV + MaxV
  BY <1>1
<1>4. g < b => g * MaxV < OutputHeight
  <2>1. g <= b - 1 => g * MaxV <= (b - 1) * MaxV
    BY <1>1, FactorKeeps
  <2> QED
    BY <1>1, <1>2, <1>3, <2>1
<1>5. b <= g => OutputHeight <= g * MaxV
  <2>1. b <= g => b * MaxV <= g * MaxV
    BY <1>1, FactorKeeps
  <2> QED
    BY <1>1, <1>2, <1>3, <2>1
<1> QED
  BY <1>1, <1>3, <1>4, <1>5 DEF b

(* A step of an upsampler, from line lines of row group base + q.group: it  *)
(* makes lines, for the room there is, and is done with the group or not.   *)
State(q) == DOMAIN q = {"up", "post", "group", "rows", "count"} /\ q.group \in Nat
Steps(q, r, lines, base, room) ==
  /\ State(r) /\ r.group \in {q.group, q.group + 1} /\ r.post = q.post
  /\ IsSeq(r.rows) /\ Len(r.rows) \in 1 .. room /\ lines + Len(r.rows) <= OutputHeight
  /\ UpType(r.up) /\ UpAt(r.up, lines + Len(r.rows), base + r.group)
  /\ r.group # q.group => Made(r.up) = 0

LEMMA RowGroupIs ==
  ASSUME cfg \in Configs, NEW rows, NEW group
  PROVE  IsSeq(RowGroup(rows, group)) /\ Len(RowGroup(rows, group)) = MaxV
<1>1. MaxV \in Nat
  BY ImageIs
<1>2. DOMAIN RowGroup(rows, group) = 1 .. MaxV
  BY DEF RowGroup
<1>3. RowGroup(rows, group) = [i \in DOMAIN RowGroup(rows, group) |-> RowGroup(rows, group)[i]]
  BY Zenon DEF RowGroup
<1> QED
  BY <1>1, <1>2, <1>3, ListIs

LEMMA SeparateSteps ==
  ASSUME cfg \in Configs, ~cfg.raw, ~use_merged_upsample, NEW q, State(q), NEW rows,
         NEW base \in Int, NEW lines \in Nat, lines < OutputHeight, NEW room \in Nat \ {0},
         UpType(q.up), UpAt(q.up, lines, base + q.group)
  PROVE  Steps(q, SepUpsample(q, rows, room), lines, base, room)
<1> DEFINE empty == q.up.next_row_out >= MaxV
           color == IF empty THEN RowGroup(rows, q.group) ELSE q.up.color
           next == IF empty THEN 0 ELSE q.up.next_row_out
           n == Least(Least(MaxV - next, q.up.rows_to_go), room)
           r == SepUpsample(q, rows, room)
<1>1. MaxV \in 1 .. 4 /\ OutputHeight \in Nat
  BY ImageIs, RowsIs
<1>2. /\ DOMAIN q.up = {"next_row_out", "rows_to_go", "color", "spare"}
      /\ q.up.next_row_out \in 0 .. MaxV /\ q.up.rows_to_go = OutputHeight - lines
      /\ ~empty => IsSeq(q.up.color) /\ Len(q.up.color) = MaxV
  BY <1>1 DEF UpType, UpAt
<1>0. lines = (base + q.group) * MaxV + next
  BY <1>1, <1>2 DEF UpAt, Made
<1>3. IsSeq(color) /\ Len(color) = MaxV
  BY <1>2, RowGroupIs
<1>4. next \in 0 .. MaxV - 1 /\ n \in 1 .. room /\ n <= MaxV - next /\ lines + n <= OutputHeight
  <2>1. next \in 0 .. MaxV - 1
    BY <1>1, <1>2
  <2> DEFINE left == q.up.rows_to_go
  <2>2. left = OutputHeight - lines /\ left \in Nat \ {0} /\ n = Least(Least(MaxV - next, left), room)
    BY <1>1, <1>2
  <2> HIDE DEF left, next, n
  <2> QED
    BY <1>1, <2>1, <2>2 DEF Least
<1>5. r = [q EXCEPT !.up.color = color, !.up.next_row_out = next + n, !.up.rows_to_go = @ - n,
                    !.rows = SubSeq(color, next + 1, next + n),
                    !.group = IF next + n >= MaxV THEN @ + 1 ELSE @]
  BY Zenon DEF SepUpsample
<1> HIDE DEF empty, color, n, r
<1>6. /\ DOMAIN r = {"up", "post", "group", "rows", "count"} /\ r.post = q.post
      /\ r.rows = SubSeq(color, next + 1, next + n)
      /\ r.group = IF next + n >= MaxV THEN q.group + 1 ELSE q.group
      /\ DOMAIN r.up = {"next_row_out", "rows_to_go", "color", "spare"}
      /\ r.up.color = color /\ r.up.next_row_out = next + n
      /\ r.up.rows_to_go = q.up.rows_to_go - n /\ r.up.spare = q.up.spare
  BY <1>2, <1>5 DEF State
<1> HIDE DEF next
<1>7. IsSeq(r.rows) /\ Len(r.rows) = n
  <2>1. next \in Nat /\ n \in Nat /\ next + n <= Len(color)
    BY <1>1, <1>3, <1>4
  <2> QED
    <3>1. IsSeq(SubSeq(color, next + 1, next + n)) /\ Len(SubSeq(color, next + 1, next + n)) = n
      BY ONLY <1>3, <2>1, SubIs
    <3> QED
      BY ONLY <1>6, <3>1
<1>8. State(r) /\ r.group \in {q.group, q.group + 1}
  BY <1>6 DEF State
<1>9. UpType(r.up)
  <2>1. next + n \in 0 .. MaxV /\ (OutputHeight - lines) - n \in 0 .. OutputHeight
    BY <1>1, <1>4
  <2> QED
    BY <1>2, <1>6, <2>1 DEF UpType
<1>10. UpAt(r.up, lines + n, base + r.group)
  <2>1. q.group \in Nat /\ base + q.group \in Int
    BY DEF State
  <2>2. CASE next + n >= MaxV
    <3>1. r.group = q.group + 1 /\ next + n = MaxV /\ Made(r.up) = 0
      BY <1>1, <1>4, <1>6, <2>2 DEF Made
    <3>2. (base + q.group + 1) * MaxV = (base + q.group) * MaxV + MaxV /\ base + (q.group + 1) = base + q.group + 1
      BY <2>1, GroupsIs
    <3>3. (base + q.group) * MaxV \in Int
      BY <2>1, GroupsIs
    <3> DEFINE x == (base + q.group) * MaxV
               y == (base + q.group + 1) * MaxV
    <3>5. x \in Int /\ y = x + MaxV /\ lines = x + next /\ (base + r.group) * MaxV = y
      BY <1>0, <3>1, <3>2, <3>3
    <3> HIDE DEF x, y
    <3>4. lines + n = (base + r.group) * MaxV + Made(r.up)
      BY <1>1, <1>4, <3>1, <3>5
    <3> QED
      BY <1>1, <1>2, <1>4, <1>6, <3>1, <3>4 DEF UpAt
  <2>3. CASE next + n < MaxV
    <3>1. r.group = q.group /\ Made(r.up) = next + n
      BY <1>1, <1>4, <1>6, <2>3 DEF Made
    <3>2. (base + q.group) * MaxV \in Int
      BY <2>1, GroupsIs
    <3>3. lines + n = (base + r.group) * MaxV + Made(r.up)
      BY <1>0, <1>1, <1>4, <3>1, <3>2
    <3> QED
      BY <1>1, <1>2, <1>3, <1>4, <1>6, <3>1, <3>3 DEF UpAt
  <2> QED
    BY <1>1, <1>4, <2>2, <2>3
<1>11. r.group # q.group => Made(r.up) = 0
  BY <1>1, <1>4, <1>6 DEF Made
<1> QED
  BY <1>4, <1>6, <1>7, <1>8, <1>9, <1>10, <1>11 DEF Steps, r

LEMMA PairSteps ==
  ASSUME cfg \in Configs, ~cfg.raw, use_merged_upsample, MaxV = 2, NEW q, State(q), NEW rows,
         NEW base \in Int, NEW lines \in Nat, lines < OutputHeight, NEW room \in Nat \ {0},
         UpType(q.up), UpAt(q.up, lines, base + q.group)
  PROVE  Steps(q, Merged2v(q, rows, room), lines, base, room)
<1> DEFINE pair == RowGroup(rows, q.group)
           n == IF q.up.spare # <<>> THEN 1 ELSE Least(Least(2, q.up.rows_to_go), room)
           spare == IF q.up.spare = <<>> /\ n <= 1 THEN <<pair[2]>> ELSE <<>>
           r == Merged2v(q, rows, room)
<1>1. OutputHeight \in Nat
  BY RowsIs
<1>2. /\ DOMAIN q.up = {"next_row_out", "rows_to_go", "color", "spare"}
      /\ q.up.next_row_out \in 0 .. MaxV /\ q.up.rows_to_go = OutputHeight - lines
      /\ lines = (base + q.group) * MaxV + Made(q.up)
      /\ q.up.spare # <<>> => IsSeq(q.up.spare) /\ Len(q.up.spare) = 1
  BY DEF UpType, UpAt
<1>3. IsSeq(pair) /\ Len(pair) = 2
  BY RowGroupIs
<1>4. n \in 1 .. room /\ n <= 2 /\ lines + n <= OutputHeight
  BY <1>1, <1>2 DEF Least
<1>5. r = [q EXCEPT !.up.spare = spare, !.up.rows_to_go = @ - n,
                    !.rows = IF q.up.spare # <<>> THEN q.up.spare ELSE SubSeq(pair, 1, n),
                    !.group = IF spare = <<>> THEN @ + 1 ELSE @]
  BY Zenon DEF Merged2v
<1>6. spare # <<>> => IsSeq(spare) /\ Len(spare) = 1
  BY OneIs
<1>7. (spare = <<>>) = (q.up.spare # <<>> \/ n = 2)
  <2>1. <<pair[2]>> # <<>>
    OBVIOUS
  <2> HIDE DEF pair
  <2> QED
    BY <1>4, <2>1
<1>8. q.up.spare # <<>> => n = 1
  OBVIOUS
<1> HIDE DEF pair, n, spare, r
<1>9. /\ DOMAIN r = {"up", "post", "group", "rows", "count"} /\ r.post = q.post
      /\ r.rows = IF q.up.spare # <<>> THEN q.up.spare ELSE SubSeq(pair, 1, n)
      /\ r.group = IF spare = <<>> THEN q.group + 1 ELSE q.group
      /\ DOMAIN r.up = {"next_row_out", "rows_to_go", "color", "spare"}
      /\ r.up.spare = spare /\ r.up.next_row_out = q.up.next_row_out
      /\ r.up.rows_to_go = q.up.rows_to_go - n
  BY <1>2, <1>5 DEF State
<1>10. IsSeq(r.rows) /\ Len(r.rows) = n
  <2>1. IsSeq(SubSeq(pair, 0 + 1, 0 + n)) /\ Len(SubSeq(pair, 0 + 1, 0 + n)) = n
    <3>1. 0 \in Nat /\ n \in Nat /\ 0 + n <= Len(pair)
      BY <1>3, <1>4
    <3> QED
      BY ONLY <1>3, <3>1, SubIs
  <2>2. 0 + 1 = 1 /\ 0 + n = n
    BY <1>4
  <2>3. IsSeq(SubSeq(pair, 1, n)) /\ Len(SubSeq(pair, 1, n)) = n
    BY <2>1, <2>2
  <2> QED
    BY <1>2, <1>8, <1>9, <2>3
<1>11. State(r) /\ r.group \in {q.group, q.group + 1}
  BY <1>9 DEF State
<1>12. UpType(r.up)
  BY <1>1, <1>2, <1>4, <1>9 DEF UpType
<1>13. UpAt(r.up, lines + n, base + r.group)
  <2>1. q.group \in Nat /\ base + q.group \in Int
    BY DEF State
  <2>2. (base + q.group + 1) * MaxV = (base + q.group) * MaxV + MaxV /\ base + (q.group + 1) = base + q.group + 1
        /\ (base + q.group) * MaxV \in Int
    BY <2>1, GroupsIs
  <2>3. Made(q.up) = (IF q.up.spare # <<>> THEN 1 ELSE 0) /\ Made(r.up) = (IF spare # <<>> THEN 1 ELSE 0)
    BY <1>9 DEF Made
  <2> DEFINE x == (base + q.group) * MaxV
             y == (base + q.group + 1) * MaxV
  <2>5. /\ x \in Int /\ y = x + 2 /\ lines = x + Made(q.up)
        /\ (base + r.group) * MaxV = IF spare = <<>> THEN y ELSE x
    BY <1>2, <1>9, <2>2
  <2> HIDE DEF x, y
  <2>4. lines + n = (base + r.group) * MaxV + Made(r.up)
    BY <1>4, <1>7, <1>8, <2>3, <2>5
  <2> QED
    BY <1>1, <1>2, <1>4, <1>6, <1>9, <2>4 DEF UpAt
<1>14. r.group # q.group => Made(r.up) = 0
  BY <1>9 DEF Made
<1> QED
  BY <1>4, <1>9, <1>10, <1>11, <1>12, <1>13, <1>14 DEF Steps, r

LEMMA SingleSteps ==
  ASSUME cfg \in Configs, ~cfg.raw, use_merged_upsample, MaxV # 2, NEW q, State(q), NEW rows,
         NEW base \in Int, NEW lines \in Nat, lines < OutputHeight, NEW room \in Nat \ {0},
         UpType(q.up), UpAt(q.up, lines, base + q.group)
  PROVE  Steps(q, Merged1v(q, rows), lines, base, room)
<1> DEFINE r == Merged1v(q, rows)
<1>1. MaxV = 1 /\ OutputHeight \in Nat
  BY MergedIs, RowsIs
<1>2. r = [q EXCEPT !.rows = RowGroup(rows, q.group), !.group = @ + 1]
  BY Zenon DEF Merged1v
<1> HIDE DEF r
<1>3. /\ DOMAIN r = {"up", "post", "group", "rows", "count"} /\ r.post = q.post
      /\ r.up = q.up /\ r.rows = RowGroup(rows, q.group) /\ r.group = q.group + 1
  BY <1>2 DEF State
<1>4. IsSeq(r.rows) /\ Len(r.rows) = 1
  BY <1>1, <1>3, RowGroupIs
<1>5. State(r) /\ r.group \in {q.group, q.group + 1}
  BY <1>3 DEF State
<1>6. UpAt(r.up, lines + 1, base + r.group)
  <2>1. q.group \in Nat /\ base + q.group \in Int /\ base + (q.group + 1) = base + q.group + 1
    BY DEF State
  <2>2. (base + q.group + 1) * MaxV = (base + q.group) * MaxV + MaxV /\ (base + q.group) * MaxV \in Int
    BY <2>1, GroupsIs
  <2>3. Made(q.up) = 0 /\ Made(r.up) = 0 /\ lines = (base + q.group) * MaxV + Made(q.up)
    BY <1>1 DEF Made, UpAt
  <2> QED
    BY <1>1, <1>3, <2>1, <2>2, <2>3 DEF UpAt
<1>7. Made(r.up) = 0
  BY <1>1 DEF Made
<1> QED
  BY <1>1, <1>3, <1>4, <1>5, <1>6, <1>7 DEF Steps, r

LEMMA UpsampleSteps ==
  ASSUME cfg \in Configs, ~cfg.raw, NEW q, State(q), NEW rows,
         NEW base \in Int, NEW lines \in Nat, lines < OutputHeight, NEW room \in Nat \ {0},
         UpType(q.up), UpAt(q.up, lines, base + q.group)
  PROVE  Steps(q, upsample(q, rows, room), lines, base, room)
<1>1. CASE ~use_merged_upsample
  BY <1>1, SeparateSteps DEF upsample
<1>2. CASE use_merged_upsample /\ MaxV = 2
  BY <1>2, PairSteps DEF upsample
<1>3. CASE use_merged_upsample /\ MaxV # 2
  BY <1>3, SingleSteps DEF upsample
<1> QED
  BY <1>1, <1>2, <1>3
-----------------------------------------------------------------------------
(* The strips of the postprocessor: one that starts inside the image is in  *)
(* the image that is kept, and not far below the bottom.                    *)
LEMMA StripIs ==
  ASSUME cfg \in Configs, NEW k \in Nat, k * strip_height < OutputHeight
  PROVE  /\ strip_height \in 1 .. 4 /\ k * strip_height \in Nat /\ k + 1 <= OutputHeight
         /\ (k + 1) * strip_height = k * strip_height + strip_height
         /\ strip_height * Ceil(OutputHeight, strip_height) \in Nat
         /\ total_iMCU_rows * (M * MaxV) \in Nat
         /\ k * strip_height + strip_height <= strip_height * Ceil(OutputHeight, strip_height)
         /\ k * strip_height + strip_height <= total_iMCU_rows * (M * MaxV)
<1>1. strip_height = MaxV /\ MaxV \in 1 .. 4 /\ M \in Nat \ {0} /\ OutputHeight \in Nat \ {0}
      /\ total_iMCU_rows \in Nat \ {0} /\ BottomGroups \in 1 .. M
  <2>1. M \in Nat \ {0} /\ MaxV \in 1 .. 4
    BY ImageIs
  <2> QED
    BY <2>1, RowsIs, BottomIs DEF strip_height
<1> DEFINE s == strip_height
           u == Ceil(OutputHeight, s)
           b == (total_iMCU_rows - 1) * M + BottomGroups
           a == total_iMCU_rows * M
<1>2. u \in Nat \ {0} /\ OutputHeight <= u * s
  BY <1>1, CeilIs
<1>3. k < b /\ b \in Int
  <2>0. k \in Int
    OBVIOUS
  <2>1. k * MaxV < OutputHeight <=> k < b
    BY <2>0, GroupsIs, Zenon
  <2>2. k * MaxV < OutputHeight
    BY <1>1
  <2> QED
    BY <1>1, <2>1, <2>2
<1>4. b <= a /\ a \in Nat
  <2>1. (total_iMCU_rows - 1) * M = a - M /\ a \in Nat
    BY <1>1
  <2> QED
    BY <1>1, <2>1
<1>5. a * MaxV = total_iMCU_rows * (M * MaxV) /\ a * MaxV \in Nat
  BY <1>1
<1> HIDE DEF b, a, u
<1>6. (k + 1) * s = k * s + s /\ k * s \in Nat
  BY <1>1
<1>7. k + 1 <= OutputHeight
  <2>1. k * 1 <= k * s
    <3>1. s = 1 \/ s = 2 \/ s = 3 \/ s = 4
      BY <1>1
    <3> QED
      BY <3>1
  <2> QED
    BY <1>1, <2>1
<1>8. (k + 1) * s <= u * s
  <2>1. k * s < u * s /\ u * s \in Int
    BY <1>1, <1>2
  <2>2. k < u
    <3>1. s \in Nat \ {0}
      BY <1>1
    <3> HIDE DEF s
    <3> QED
      BY <1>2, <2>1, <3>1, LessFactor
  <2> QED
    BY <1>1, <1>2, <2>2, FactorKeeps
<1>9. (k + 1) * s <= a * s
  BY <1>1, <1>3, <1>4, FactorKeeps
<1>10. u * s = s * u /\ u * s \in Nat
  BY <1>1, <1>2
<1> QED
  BY <1>1, <1>5, <1>6, <1>7, <1>8, <1>9, <1>10 DEF u

(* The strip after n more rows.                                             *)
LEMMA NextStripIs ==
  ASSUME cfg \in Configs, NEW p, PostType(p), NEW lines \in Nat, lines < OutputHeight,
         StripAt(p, lines), p.mode # "PASS_THRU", NEW n \in Nat, n <= strip_height - p.next_row,
         NEW p2, DOMAIN p2 = DOMAIN p, p2.next_row = p.next_row + n, p2.mode = p.mode,
         p2.starting_row = p.starting_row, IsSeq(p2.whole), Len(p2.whole) = Len(p.whole)
  PROVE  LET r == NextStrip(p2)
         IN /\ PostType(r) /\ StripAt(r, lines + n) /\ r.mode = p.mode /\ r.whole = p2.whole
            /\ lines + n <= strip_height * Ceil(OutputHeight, strip_height)
            /\ lines + n <= total_iMCU_rows * (M * MaxV)
            /\ p.starting_row + p.next_row = lines /\ lines + n \in Nat
<1> DEFINE r == NextStrip(p2)
<1>1. PICK k \in 0 .. OutputHeight : p.starting_row = k * strip_height
  BY DEF StripAt
<1>2. /\ p.next_row \in 0 .. strip_height - 1 /\ p.starting_row + p.next_row = lines
      /\ p.starting_row \in Nat /\ OutputHeight \in Nat
      /\ strip_height \in 1 .. 4
  <2>1. OutputHeight \in Nat /\ strip_height \in 1 .. 4
    BY RowsIs, ImageIs DEF strip_height
  <2> QED
    BY <2>1 DEF StripAt, PostType
<1>3. k * strip_height < OutputHeight /\ k \in Nat
  <2>1. p.starting_row < OutputHeight
    BY <1>2
  <2> QED
    BY <1>1, <1>2, <2>1
<1> DEFINE a == p.starting_row
           x == p.next_row
           y == (k + 1) * strip_height
           u == strip_height * Ceil(OutputHeight, strip_height)
           t == total_iMCU_rows * (M * MaxV)
<1>4. /\ k + 1 <= OutputHeight /\ y = a + strip_height
      /\ u \in Nat /\ t \in Nat /\ a + strip_height <= u /\ a + strip_height <= t
  BY <1>1, <1>3, StripIs
<1> HIDE DEF u, t, y
<1>5. /\ a \in Nat /\ x \in 0 .. strip_height - 1 /\ lines = a + x /\ x + n <= strip_height
      /\ a < OutputHeight /\ strip_height \in 1 .. 4 /\ OutputHeight \in Nat
  BY <1>2
<1> HIDE DEF a, x
<1>6. lines + n <= u /\ lines + n <= t /\ lines + n \in Nat
  BY <1>4, <1>5
<1>7. enable_2pass /\ ~cfg.raw
  BY DEF StripAt
<1>8. p.starting_row + p.next_row = lines
  BY <1>2
<1>9. PostType(r) /\ StripAt(r, lines + n) /\ r.mode = p.mode /\ r.whole = p2.whole
  <2>1. CASE p2.next_row >= strip_height
    <3>1. r = [p2 EXCEPT !.starting_row = @ + strip_height, !.next_row = 0]
      BY <2>1 DEF NextStrip
    <3>2. /\ DOMAIN r = DOMAIN p /\ r.next_row = 0 /\ r.starting_row = a + strip_height
          /\ r.mode = p.mode /\ r.whole = p2.whole
      BY <3>1 DEF PostType, a
    <3>3. lines + n = a + strip_height
      <4>1. x + n >= strip_height
        BY <2>1 DEF x
      <4> QED
        BY ONLY <1>5, <4>1, n \in Nat
    <3> HIDE DEF r
    <3>4. k + 1 \in 0 .. OutputHeight /\ r.starting_row = (k + 1) * strip_height
      BY <1>3, <1>4, <1>5, <3>2 DEF y
    <3>5. \E i \in 0 .. OutputHeight : r.starting_row = i * strip_height
      BY ONLY <3>4
    <3>6. r.next_row \in 0 .. strip_height - 1 /\ r.starting_row + r.next_row = lines + n
      BY <1>5, <3>2, <3>3
    <3>7. StripAt(r, lines + n)
      BY <1>7, <3>5, <3>6, Zenon DEF StripAt
    <3>8. r.starting_row \in 0 .. OutputHeight + strip_height
      BY <1>5, <3>2
    <3>9. PostType(r)
      BY <3>2, <3>8 DEF PostType
    <3> QED
      BY <3>2, <3>7, <3>9
  <2>2. CASE ~(p2.next_row >= strip_height)
    <3>1. r = p2
      BY <2>2 DEF NextStrip
    <3> HIDE DEF r
    <3>2. /\ DOMAIN r = DOMAIN p /\ r.next_row = x + n /\ r.starting_row = a
          /\ r.mode = p.mode /\ r.whole = p2.whole
      BY <3>1 DEF a, x
    <3>3. x + n \in 0 .. strip_height - 1
      <4>1. ~(x + n >= strip_height)
        BY <2>2 DEF x
      <4> QED
        BY ONLY <1>5, <4>1, n \in Nat
    <3>4. r.next_row \in 0 .. strip_height - 1 /\ r.starting_row + r.next_row = lines + n
      BY <1>5, <3>2, <3>3
    <3>5. \E i \in 0 .. OutputHeight : r.starting_row = i * strip_height
      BY <1>1, <3>2 DEF a
    <3>6. StripAt(r, lines + n)
      BY <1>7, <3>4, <3>5, Zenon DEF StripAt
    <3>7. PostType(r)
      BY <3>2 DEF PostType, a
    <3> QED
      BY <3>2, <3>6, <3>7
  <2> QED
    BY <2>1, <2>2
<1> QED
  BY <1>6, <1>8, <1>9 DEF r, u, t
(* The lines of all iMCU rows.                                              *)
LEMMA TotalIs ==
  ASSUME cfg \in Configs
  PROVE  /\ total_iMCU_rows * (M * MaxV) \in Nat
         /\ OutputHeight <= total_iMCU_rows * (M * MaxV) /\ OutputHeight \in Nat
<1>1. M \in Nat /\ MaxV \in Nat /\ total_iMCU_rows \in Nat
  BY ImageIs, RowsIs
<1>2. M * MaxV \in Nat
  BY <1>1
<1>3. total_iMCU_rows * (M * MaxV) \in Nat
  <2> DEFINE w == M * MaxV
  <2> HIDE DEF w
  <2>1. total_iMCU_rows * w \in Nat
    BY <1>1, <1>2 DEF w
  <2> QED
    BY <2>1 DEF w
<1>4. OutputHeight <= total_iMCU_rows * (M * MaxV) /\ OutputHeight \in Nat \ {0}
  BY RowsIs, Zenon
<1> QED
  BY <1>3, <1>4

(* What one call of the postprocessor does, from line lines of row group    *)
(* base + group.                                                            *)
Posts(q, lines, room, base, group) ==
  /\ State(q) /\ q.count \in Nat \ {0} /\ IsSeq(q.rows)
  /\ Len(q.rows) = IF post.mode = "SAVE_AND_PASS" THEN 0 ELSE q.count
  /\ post.mode # "SAVE_AND_PASS" => q.count <= room
  /\ PostType(q.post) /\ q.post.mode = post.mode /\ StripAt(q.post, lines + q.count)
  /\ UpType(q.up) /\ lines + q.count \in 0 .. total_iMCU_rows * (M * MaxV)
  /\ post.mode # "CRANK_DEST" => /\ q.group \in {group, group + 1}
                                 /\ lines + q.count <= OutputHeight
                                 /\ UpAt(q.up, lines + q.count, base + q.group)
                                 /\ q.group # group => Made(q.up) = 0

Started(group) == [up |-> up, post |-> post, group |-> group, rows |-> <<>>, count |-> 0]

LEMMA OnePassSteps ==
  ASSUME cfg \in Configs, ~cfg.raw, PostType(post), UpType(up), NEW lines \in Nat,
         lines < OutputHeight, NEW rows, NEW group \in Nat, NEW base \in Int,
         NEW room \in Nat \ {0}, post.mode = "PASS_THRU", UpAt(up, lines, base + group)
  PROVE  Posts(OnePass(Started(group), rows, room), lines, room, base, group)
<1> DEFINE q == Started(group)
           space == IF cfg.quantize THEN Least(room, strip_height) ELSE room
           got == upsample(q, rows, space)
           r == OnePass(q, rows, room)
<1>1. State(q) /\ q.up = up /\ q.group = group /\ q.post = post
  BY DEF State, Started
<1>2. strip_height \in 1 .. 4 /\ OutputHeight \in Nat
  BY RowsIs, ImageIs DEF strip_height
<1>3. space \in Nat \ {0} /\ space <= room
  BY <1>2 DEF Least
<1>4. r = [got EXCEPT !.count = Len(got.rows)]
  BY Zenon DEF OnePass
<1> HIDE DEF q, space, r
<1>5. Steps(q, got, lines, base, space)
  BY <1>1, <1>3, UpsampleSteps
<1> HIDE DEF got
<1>6. /\ DOMAIN got = {"up", "post", "group", "rows", "count"} /\ got.group \in Nat
      /\ got.group \in {group, group + 1} /\ got.post = post
      /\ IsSeq(got.rows) /\ Len(got.rows) \in 1 .. space /\ lines + Len(got.rows) <= OutputHeight
      /\ UpType(got.up) /\ UpAt(got.up, lines + Len(got.rows), base + got.group)
      /\ got.group # group => Made(got.up) = 0
  BY <1>1, <1>5 DEF Steps, State
<1>7. /\ DOMAIN r = DOMAIN got /\ r.up = got.up /\ r.post = post /\ r.group = got.group
      /\ r.rows = got.rows /\ r.count = Len(got.rows)
  BY <1>4, <1>6
<1> DEFINE t == total_iMCU_rows * (M * MaxV)
<1>8. OutputHeight <= t /\ t \in Nat
  BY TotalIs
<1> HIDE DEF t
<1>9. r.count \in Nat \ {0} /\ r.count <= room /\ lines + r.count \in 0 .. t
  BY <1>2, <1>3, <1>6, <1>7, <1>8
<1>10. StripAt(r.post, lines + r.count)
  BY <1>7 DEF StripAt
<1>11. State(r)
  BY <1>6, <1>7 DEF State
<1> QED
  BY <1>6, <1>7, <1>9, <1>10, <1>11 DEF Posts, q, r, t

LEMMA PrepassSteps ==
  ASSUME cfg \in Configs, ~cfg.raw, PostType(post), UpType(up), NEW lines \in Nat,
         lines < OutputHeight, StripAt(post, lines), NEW rows, NEW group \in Nat,
         NEW base \in Int, NEW room, post.mode = "SAVE_AND_PASS",
         UpAt(up, lines, base + group)
  PROVE  Posts(Prepass(Started(group), rows), lines, room, base, group)
<1> DEFINE q == Started(group)
           space == strip_height - q.post.next_row
           got == upsample(q, rows, space)
           n == Len(got.rows)
           at == q.post.starting_row + q.post.next_row
           w == SubSeq(q.post.whole, 1, at) \o got.rows \o
                  SubSeq(q.post.whole, at + n + 1, Len(q.post.whole))
           p == [q.post EXCEPT !.next_row = @ + n,
                          !.whole = SubSeq(@, 1, at) \o got.rows \o
                                    SubSeq(@, at + n + 1, Len(@))]
           r == Prepass(q, rows)
<1>1. State(q) /\ q.up = up /\ q.group = group /\ q.post = post
  BY DEF State, Started
<1>2. strip_height \in 1 .. 4 /\ OutputHeight \in Nat
  BY RowsIs, ImageIs DEF strip_height
<1>3. /\ post.next_row \in 0 .. strip_height - 1 /\ post.starting_row + post.next_row = lines
      /\ enable_2pass
  BY DEF StripAt
<1>4. space \in Nat \ {0}
  BY <1>1, <1>2, <1>3
<1>5. r = [got EXCEPT !.post = NextStrip(p), !.rows = <<>>, !.count = n]
  BY Zenon DEF Prepass
<1>6. p = [q.post EXCEPT !.next_row = @ + n, !.whole = w]
  BY <1>1, Zenon
<1> HIDE DEF q, r, p, w
<1>7. Steps(q, got, lines, base, space)
  BY <1>1, <1>4, UpsampleSteps
<1> HIDE DEF got
<1>8. /\ DOMAIN got = {"up", "post", "group", "rows", "count"} /\ got.group \in Nat
      /\ got.group \in {group, group + 1} /\ got.post = post
      /\ IsSeq(got.rows) /\ n \in 1 .. space /\ lines + n <= OutputHeight
      /\ UpType(got.up) /\ UpAt(got.up, lines + n, base + got.group)
      /\ got.group # group => Made(got.up) = 0
  BY <1>1, <1>7 DEF Steps, State
<1> HIDE DEF n
<1>9. at = lines /\ lines + n <= Len(post.whole) /\ Len(post.whole) \in Nat /\ IsSeq(post.whole)
  <2>1. Len(post.whole) = strip_height * Ceil(OutputHeight, strip_height) /\ IsSeq(post.whole)
    BY <1>3 DEF PostType
  <2> DEFINE p2 == [post EXCEPT !.next_row = @ + n]
  <2>2. /\ DOMAIN p2 = DOMAIN post /\ p2.next_row = post.next_row + n /\ p2.mode = post.mode
        /\ p2.starting_row = post.starting_row /\ p2.whole = post.whole
    BY DEF PostType
  <2> HIDE DEF p2
  <2>3. n \in Nat /\ n <= strip_height - post.next_row /\ post.mode # "PASS_THRU"
    BY <1>1, <1>2, <1>3, <1>8
  <2>4. lines + n <= strip_height * Ceil(OutputHeight, strip_height)
    <3>1. IsSeq(p2.whole) /\ Len(p2.whole) = Len(post.whole)
      BY <2>1, <2>2
    <3>2. lines + n <= strip_height * Ceil(OutputHeight, strip_height)
      BY <2>2, <2>3, <3>1, NextStripIs
    <3> QED
      BY <3>2
  <2>5. Len(post.whole) \in Nat
    BY <2>1, SeqIs
  <2> QED
    BY <1>1, <1>3, <2>1, <2>4, <2>5
<1>10. IsSeq(w) /\ Len(w) = Len(post.whole)
  <2> DEFINE len == Len(post.whole)
             s1 == SubSeq(post.whole, 1, lines)
             s2 == SubSeq(post.whole, lines + n + 1, len)
  <2>0. n \in Nat
    BY <1>1, <1>2, <1>3, <1>8
  <2>1. w = s1 \o got.rows \o s2
    BY <1>1, <1>9 DEF w
  <2>2. IsSeq(s1) /\ Len(s1) = lines
    <3>1. SubSeq(post.whole, 1, lines) = SubSeq(post.whole, 0 + 1, 0 + lines)
      OBVIOUS
    <3>2. 0 \in Nat /\ 0 + lines <= len
      BY <1>8, <1>9
    <3>3. /\ IsSeq(SubSeq(post.whole, 0 + 1, 0 + lines))
          /\ Len(SubSeq(post.whole, 0 + 1, 0 + lines)) = lines
      BY ONLY <1>9, <3>2, SubIs, lines \in Nat
    <3> QED
      BY <3>1, <3>3
  <2>3. IsSeq(s2) /\ Len(s2) = len - (lines + n)
    <3> DEFINE k == len - (lines + n)
    <3>1. k \in Nat /\ (lines + n) + k = len /\ lines + n \in Nat
      <4>1. len \in Nat /\ lines + n <= len /\ n \in Nat
        BY ONLY <1>9, <2>0 DEF len
      <4> HIDE DEF len
      <4> QED
        BY ONLY <4>1, lines \in Nat DEF k
    <3>2. s2 = SubSeq(post.whole, (lines + n) + 1, (lines + n) + k)
      BY <3>1
    <3> HIDE DEF k
    <3>3. /\ IsSeq(SubSeq(post.whole, (lines + n) + 1, (lines + n) + k))
          /\ Len(SubSeq(post.whole, (lines + n) + 1, (lines + n) + k)) = k
      <4>1. (lines + n) + k <= Len(post.whole) /\ IsSeq(post.whole)
        BY <1>9, <3>1
      <4> DEFINE m == lines + n
      <4>2. m \in Nat
        BY <3>1
      <4> HIDE DEF m
      <4>3. IsSeq(SubSeq(post.whole, m + 1, m + k)) /\ Len(SubSeq(post.whole, m + 1, m + k)) = k
        BY <3>1, <4>1, <4>2, SubIs DEF m
      <4> QED
        BY <4>3 DEF m
    <3> QED
      BY <3>2, <3>3 DEF k
  <2> HIDE DEF s1, s2
  <2>4. IsSeq(s1 \o got.rows) /\ Len(s1 \o got.rows) = lines + n
    BY <1>8, <2>2, ConcatIs DEF n
  <2>5. IsSeq(s1 \o got.rows \o s2) /\ Len(s1 \o got.rows \o s2) = (lines + n) + (len - (lines + n))
    <3> DEFINE x == s1 \o got.rows
    <3> HIDE DEF x
    <3>1. IsSeq(x \o s2) /\ Len(x \o s2) = Len(x) + Len(s2)
      BY <2>3, <2>4, ConcatIs DEF x
    <3> QED
      BY <2>3, <2>4, <3>1 DEF x
  <2>6. (lines + n) + (len - (lines + n)) = len
    <3>1. len \in Nat
      BY ONLY <1>9 DEF len
    <3> HIDE DEF len
    <3> QED
      BY ONLY <2>0, <3>1, lines \in Nat
  <2> QED
    BY <2>1, <2>5, <2>6 DEF len
<1>11. /\ DOMAIN p = DOMAIN post /\ p.next_row = post.next_row + n /\ p.mode = post.mode
       /\ p.starting_row = post.starting_row /\ p.whole = w
  BY <1>1, <1>6 DEF PostType
<1>12. /\ PostType(NextStrip(p)) /\ StripAt(NextStrip(p), lines + n)
       /\ NextStrip(p).mode = post.mode
       /\ lines + n <= total_iMCU_rows * (M * MaxV) /\ lines + n \in Nat
  <2>1. n \in Nat /\ n <= strip_height - post.next_row /\ post.mode # "PASS_THRU"
    BY <1>1, <1>2, <1>3, <1>8
  <2> QED
    BY <1>10, <1>11, <2>1, NextStripIs
<1>13. /\ DOMAIN r = DOMAIN got /\ r.up = got.up /\ r.post = NextStrip(p) /\ r.group = got.group
       /\ r.rows = <<>> /\ r.count = n
  BY <1>5, <1>8
<1>14. State(r)
  BY <1>8, <1>13 DEF State
<1>15. r.count \in Nat \ {0} /\ lines + r.count \in 0 .. total_iMCU_rows * (M * MaxV)
  <2>1. total_iMCU_rows * (M * MaxV) \in Nat
    BY TotalIs
  <2> QED
    BY <1>8, <1>12, <1>13, <2>1
<1> QED
  BY <1>8, <1>12, <1>13, <1>14, <1>15, EmptyIs DEF Posts, q, r

LEMMA SecondSteps ==
  ASSUME cfg \in Configs, PostType(post), UpType(up), NEW lines \in Nat,
         lines < OutputHeight, StripAt(post, lines), NEW group \in Nat,
         NEW base \in Int, NEW room \in Nat \ {0}, post.mode = "CRANK_DEST"
  PROVE  Posts(SecondPass(Started(group), room), lines, room, base, group)
<1> DEFINE q == Started(group)
           n == Least(Least(strip_height - q.post.next_row, room),
                      OutputHeight - q.post.starting_row)
           at == q.post.starting_row + q.post.next_row
           p == [q.post EXCEPT !.next_row = @ + n]
           r == SecondPass(q, room)
<1>1. State(q) /\ q.up = up /\ q.group = group /\ q.post = post
  BY DEF State, Started
<1>2. strip_height \in 1 .. 4 /\ OutputHeight \in Nat
  BY RowsIs, ImageIs DEF strip_height
<1>3. /\ post.next_row \in 0 .. strip_height - 1 /\ post.starting_row + post.next_row = lines
      /\ enable_2pass /\ post.starting_row \in Nat
  BY DEF StripAt, PostType
<1>4. at = lines /\ n \in Nat \ {0} /\ n <= strip_height - post.next_row /\ n <= room
  BY <1>1, <1>2, <1>3 DEF Least
<1>5. r = [q EXCEPT !.rows = SubSeq(q.post.whole, at + 1, at + n), !.count = n,
                    !.post = NextStrip(p)]
  BY Zenon DEF SecondPass
<1>6. /\ DOMAIN r = DOMAIN q /\ r.up = up /\ r.post = NextStrip(p) /\ r.group = group
      /\ r.rows = SubSeq(post.whole, lines + 1, lines + n) /\ r.count = n
  <2>1. SubSeq(post.whole, lines + 1, lines + n) = SubSeq(q.post.whole, at + 1, at + n)
    <3> HIDE DEF n, q, at
    <3> QED
      BY <1>1, <1>4, Zenon
  <2> HIDE DEF n, q, p, r, at
  <2> QED
    BY <1>1, <1>5, <2>1 DEF State
<1> HIDE DEF n, r
<1>7. /\ DOMAIN p = DOMAIN post /\ p.next_row = post.next_row + n /\ p.mode = post.mode
      /\ p.starting_row = post.starting_row /\ p.whole = post.whole
  BY <1>1 DEF PostType
<1> HIDE DEF p, q
<1>8. /\ PostType(NextStrip(p)) /\ StripAt(NextStrip(p), lines + n)
      /\ NextStrip(p).mode = post.mode
      /\ lines + n <= strip_height * Ceil(OutputHeight, strip_height)
      /\ lines + n <= total_iMCU_rows * (M * MaxV) /\ lines + n \in Nat
  <2>1. n \in Nat /\ post.mode # "PASS_THRU" /\ IsSeq(p.whole) /\ Len(p.whole) = Len(post.whole)
    BY <1>4, <1>7 DEF PostType
  <2> QED
    BY <1>4, <1>7, <2>1, NextStripIs
<1>9. IsSeq(r.rows) /\ Len(r.rows) = n
  <2>1. IsSeq(post.whole) /\ lines + n <= Len(post.whole) /\ n \in Nat
    BY <1>3, <1>4, <1>8 DEF PostType
  <2>2. /\ IsSeq(SubSeq(post.whole, lines + 1, lines + n))
        /\ Len(SubSeq(post.whole, lines + 1, lines + n)) = n
    BY ONLY <2>1, SubIs, lines \in Nat
  <2> QED
    BY <1>6, <2>2
<1>10. State(r)
  BY <1>1, <1>6 DEF State
<1>11. r.count \in Nat \ {0} /\ lines + r.count \in 0 .. total_iMCU_rows * (M * MaxV)
  <2>1. total_iMCU_rows * (M * MaxV) \in Nat
    BY TotalIs
  <2> QED
    BY <1>4, <1>6, <1>8, <2>1
<1> QED
  BY <1>4, <1>6, <1>8, <1>9, <1>10, <1>11 DEF Posts, q, r

LEMMA PostSteps ==
  ASSUME cfg \in Configs, ~cfg.raw, PostType(post), UpType(up), NEW lines \in Nat,
         lines < OutputHeight, StripAt(post, lines), NEW rows, NEW group \in Nat,
         NEW base \in Int, NEW room, post.mode # "SAVE_AND_PASS" => room \in Nat \ {0},
         post.mode # "CRANK_DEST" => UpAt(up, lines, base + group)
  PROVE  Posts(post_process_data(rows, group, room), lines, room, base, group)
<1>1. post.mode \in {"PASS_THRU", "SAVE_AND_PASS", "CRANK_DEST"}
  BY DEF PostType
<1>2. CASE post.mode = "PASS_THRU"
  <2>1. post_process_data(rows, group, room) = OnePass(Started(group), rows, room)
    BY <1>2 DEF post_process_data, Started
  <2> QED
    BY <1>2, <2>1, OnePassSteps
<1>3. CASE post.mode = "SAVE_AND_PASS"
  <2>1. post_process_data(rows, group, room) = Prepass(Started(group), rows)
    BY <1>3 DEF post_process_data, Started
  <2> QED
    BY <1>3, <2>1, PrepassSteps
<1>4. CASE post.mode = "CRANK_DEST"
  <2>1. post_process_data(rows, group, room) = SecondPass(Started(group), room)
    BY <1>4 DEF post_process_data, Started
  <2> QED
    BY <1>4, <2>1, SecondSteps
<1> QED
  BY <1>1, <1>2, <1>3, <1>4
-----------------------------------------------------------------------------
(* The counters depend on the image, which does not change.                 *)
LEMMA CountersKept ==
  ASSUME cfg' = cfg
  PROVE  /\ \A m : MainType(m)' <=> MainType(m)
         /\ \A m, row : Consumed(m, row)' = Consumed(m, row)
         /\ \A m, row : MainAt(m, row)' <=> MainAt(m, row)
         /\ \A u : UpType(u)' <=> UpType(u)
         /\ \A u, lines, groups : UpAt(u, lines, groups)' <=> UpAt(u, lines, groups)
         /\ \A p : PostType(p)' <=> PostType(p)
         /\ \A p, lines : StripAt(p, lines)' <=> StripAt(p, lines)
<1>1. /\ MaxV' = MaxV /\ M' = M /\ OutputHeight' = OutputHeight
      /\ total_iMCU_rows' = total_iMCU_rows
  BY ImageKept, SizesKept
<1>2. /\ need_context_rows' = need_context_rows /\ use_merged_upsample' = use_merged_upsample
      /\ enable_2pass' = enable_2pass /\ BottomGroups' = BottomGroups
      /\ strip_height' = strip_height
  BY ModulesKept
<1>3. \A m : MainType(m)' <=> MainType(m)
  BY <1>1 DEF MainType
<1>4. \A m, row : Consumed(m, row)' = Consumed(m, row)
  BY <1>1, <1>2 DEF Consumed
<1>5. \A m, row : MainAt(m, row)' <=> MainAt(m, row)
  BY <1>1, <1>2 DEF MainAt
<1>6. \A u : UpType(u)' <=> UpType(u)
  BY <1>1 DEF UpType
<1>7. \A u : Made(u)' = Made(u)
  BY <1>1, <1>2 DEF Made
<1>8. \A u, lines, groups : UpAt(u, lines, groups)' <=> UpAt(u, lines, groups)
  BY <1>1, <1>2, <1>7 DEF UpAt
<1>9. \A p : PostType(p)' <=> PostType(p)
  BY <1>1, <1>2 DEF PostType
<1>10. \A p, lines : StripAt(p, lines)' <=> StripAt(p, lines)
  BY <1>1, <1>2 DEF StripAt
<1> QED
  BY <1>3, <1>4, <1>5, <1>6, <1>8, <1>9, <1>10

LEMMA InputKept == ASSUME InputInv, cfg' = cfg, input' = input PROVE InputInv'
<1>1. total_iMCU_rows' = total_iMCU_rows /\ MaxH' = MaxH /\ \A c : v(c)' = v(c)
  BY ImageKept, SizesKept
<1>2. \A c : width_in_blocks(c)' = width_in_blocks(c) /\ last_block_rows(c)' = last_block_rows(c)
  BY SizesKept
<1>3. Scan' = Scan /\ Interleaved' = Interleaved
  BY DEF Scan, Interleaved
<1>4. MCU_rows_per_iMCU_row' = MCU_rows_per_iMCU_row /\ MCUs_per_row' = MCUs_per_row
  BY <1>1, <1>2, <1>3 DEF MCU_rows_per_iMCU_row, MCUs_per_row
<1> QED
  BY <1>1, <1>4 DEF InputInv

LEMMA CoefKept ==
  ASSUME CoefType, cfg' = cfg, input' = input, coefs' = coefs PROVE CoefType'
BY ImageKept DEF CoefType

LEMMA ShownKept == ASSUME ShownType, shown' = shown PROVE ShownType'
BY DEF ShownType

LEMMA OutputKept ==
  ASSUME OutputType, cfg' = cfg, output' = output PROVE OutputType'
<1>1. total_iMCU_rows' = total_iMCU_rows /\ M' = M /\ MaxV' = MaxV /\ use_c_buffer' = use_c_buffer
  BY ImageKept, SizesKept, ModulesKept
<1> QED
  BY <1>1 DEF OutputType

LEMMA OnePassKept ==
  ASSUME OnePassInv, cfg' = cfg, input' = input, output' = output, main' = main, passes' = passes,
         global_state' \in {"READY", "PRELOAD"} => global_state \in {"READY", "PRELOAD"}
  PROVE  OnePassInv'
<1>1. use_c_buffer' = use_c_buffer /\ OutputHeight' = OutputHeight
  BY SizesKept, ModulesKept
<1> QED
  BY <1>1 DEF OnePassInv

LEMMA PassKept ==
  ASSUME PassInv, cfg' = cfg, output' = output, main' = main, up' = up, post' = post,
         passes' = passes
  PROVE  PassInv'
<1>1. OutputHeight' = OutputHeight
  BY SizesKept
<1> QED
  BY <1>1, CountersKept DEF PassInv

(* The pass goes on: only the state of the library, the call or the map     *)
(* changed.                                                                 *)
LEMMA PipeKept ==
  ASSUME CountInv, cfg' = cfg, input' = input, coefs' = coefs, output' = output, main' = main,
         up' = up, post' = post, passes' = passes,
         global_state' \in {"READY", "PRELOAD"} => global_state \in {"READY", "PRELOAD"}
  PROVE  /\ InputInv' /\ CoefType' /\ OnePassInv' /\ OutputType' /\ MainType(main)'
         /\ UpType(up)' /\ PostType(post)' /\ PassInv'
<1>1. InputInv' /\ CoefType' /\ OutputType' /\ PassInv' /\ OnePassInv'
  BY InputKept, CoefKept, OutputKept, PassKept, OnePassKept DEF CountInv
<1> QED
  BY <1>1, CountersKept DEF CountInv

(* Lines were made: what the step does to the counters.                     *)
LEMMA PostedCount ==
  ASSUME CountInv, MapInv', NEW q, NEW returns \in BOOLEAN, Posted(q, returns), Processing,
         NEW base, NEW group,
         Posts(q, output.scanline, Room, base, group),
         MainType(main'), main'.crank = main.crank, main'.buffer_full => main.buffer_full,
         ~main.crank /\ output.scanline + q.count < OutputHeight =>
           /\ MainAt(main', output.row) /\ base + q.group = Consumed(main', output.row),
         call.op = "read" /\ ~returns =>
           q.count < Room /\ output.scanline + q.count < OutputHeight
  PROVE  CountInv'
<1> DEFINE L == output.scanline
           K == output.scanline + q.count
<1>1. /\ up' = q.up /\ post' = q.post /\ output' = [output EXCEPT !.scanline = @ + q.count]
      /\ shown' = [shown EXCEPT !.rows = @ \o q.rows]
      /\ call' = IF (call.op = "read" /\ returns) \/ q.count = 0 THEN Return("none") ELSE call
      /\ UNCHANGED <<cfg, global_state, input, coefs, coef_bits, quant, passes>>
  BY DEF Posted
<1>2. /\ MapInv /\ InputInv /\ CoefType /\ StateInv /\ CallInv /\ ShownType
      /\ OnePassInv /\ OutputType /\ MainType(main) /\ PassInv
  BY DEF CountInv
<1>3. global_state \in {"PRESCAN", "SCANNING"} /\ passes > 0 /\ L < OutputHeight /\ ~cfg.raw
  <2>1. call.op = "setup" /\ quant.dummy => global_state = "PRESCAN"
    BY <1>2 DEF MapInv, Gathering
  <2> QED
    BY <1>2, <2>1 DEF Processing, CallInv, StateInv
<1>4. /\ q.count \in Nat \ {0} /\ IsSeq(q.rows) /\ PostType(q.post) /\ q.post.mode = post.mode
      /\ Len(q.rows) = IF post.mode = "SAVE_AND_PASS" THEN 0 ELSE q.count
      /\ StripAt(q.post, K) /\ UpType(q.up) /\ K \in 0 .. total_iMCU_rows * (M * MaxV)
      /\ post.mode # "CRANK_DEST" => K <= OutputHeight /\ UpAt(q.up, K, base + q.group)
  BY DEF Posts
<1>5. L \in Nat /\ OutputHeight \in Nat
  BY <1>2, RowsIs DEF OutputType, MapInv
<1>6. /\ DOMAIN output' = DOMAIN output /\ output'.scanline = K /\ output'.scan = output.scan
      /\ output'.row = output.row /\ output'.smooth = output.smooth
  BY <1>1, <1>2 DEF OutputType
<1>7. OutputHeight' = OutputHeight /\ total_iMCU_rows' = total_iMCU_rows /\ M' = M /\ MaxV' = MaxV
      /\ use_c_buffer' = use_c_buffer /\ Supported' = Supported
  BY <1>1, ImageKept, SizesKept, ModulesKept
<1>8. InputInv' /\ CoefType'
  BY <1>1, <1>2, InputKept, CoefKept
<1>9. OutputType'
  BY <1>1, <1>2, <1>4, <1>6, <1>7 DEF OutputType
<1>10. ShownType' /\ shown'.from = shown.from /\ shown'.rows = shown.rows \o q.rows
       /\ Len(shown'.rows) = Len(shown.rows) + Len(q.rows) /\ Len(shown.rows) \in Nat
  <2>1. IsSeq(shown.rows) /\ DOMAIN shown = {"from", "rows"} /\ shown.from \in Nat
    BY <1>2 DEF ShownType
  <2>2. shown'.from = shown.from /\ shown'.rows = shown.rows \o q.rows /\ DOMAIN shown' = DOMAIN shown
    BY <1>1, <2>1
  <2>3. IsSeq(shown.rows \o q.rows) /\ Len(shown.rows \o q.rows) = Len(shown.rows) + Len(q.rows)
    BY <1>4, <2>1, ConcatIs
  <2>4. Len(shown.rows) \in Nat
    BY <2>1, SeqIs
  <2> QED
    BY <2>1, <2>2, <2>3, <2>4 DEF ShownType
<1>11. StateInv'
  <2>1. main'.crank = main.crank /\ K >= L
    BY <1>4, <1>5
  <2> QED
    BY <1>1, <1>2, <1>3, <1>4, <1>6, <1>7, <2>1 DEF StateInv
<1>12. CallInv'
  <2>1. CASE call' = Return("none")
    <3>1. call'.op = "none"
      BY <1>2, <2>1 DEF Return, MapInv, CallType
    <3> QED
      BY <3>1 DEF CallInv
  <2>2. CASE call' = call /\ ~(call.op = "read" /\ returns)
    <3>1. CASE call.op = "read"
      <4>1. q.count < Room /\ K < OutputHeight
        BY <2>2, <3>1
      <4>2. /\ global_state = "SCANNING" /\ call.max \in LinesAsked
            /\ shown.from + Len(shown.rows) = L
        BY <1>2, <3>1 DEF CallInv
      <4>3. post.mode # "SAVE_AND_PASS"
        BY <1>2, <4>2 DEF StateInv, MapInv, Gathering
      <4>4. Len(shown'.rows) < call.max
        <5>1. call.max \in Nat
          BY <4>2, SizesAssumption
        <5> QED
          BY <1>4, <1>10, <4>1, <4>3, <5>1 DEF Room
      <4>5. shown'.from + Len(shown'.rows) = K
        <5>1. shown.from \in Nat
          BY <1>2 DEF ShownType
        <5> QED
          BY <1>4, <1>5, <1>10, <4>2, <4>3, <5>1
      <4> QED
        BY <1>1, <1>6, <1>7, <2>2, <3>1, <4>1, <4>2, <4>4, <4>5 DEF CallInv
    <3>2. CASE call.op # "read"
      BY <1>1, <1>2, <2>2, <3>2 DEF CallInv
    <3> QED
      BY <3>1, <3>2
  <2> QED
    BY <1>1, <1>4, <2>1, <2>2
<1>13. OnePassInv'
  <2>1. ~use_c_buffer /\ ~main.crank =>
          /\ input.scan = 1 /\ input.row = output.row
          /\ main.buffer_full => input.vert = 0 /\ input.mcu = 0
    BY <1>2, <1>3 DEF OnePassInv
  <2> QED
    BY <1>1, <1>3, <1>6, <1>7, <2>1 DEF OnePassInv
<1>14. MainType(main)' /\ UpType(up)' /\ PostType(post)'
  BY <1>1, <1>4, CountersKept
<1>15. PassInv'
  <2>1. main.crank = (post.mode = "CRANK_DEST")
    BY <1>2, <1>3 DEF PassInv
  <2>2. StripAt(post, output.scanline)' /\ main'.crank = (post'.mode = "CRANK_DEST")
    BY <1>1, <1>4, <1>6, <2>1, CountersKept
  <2>3. ~main'.crank => K <= OutputHeight
    BY <1>4, <2>1
  <2>4. ~main'.crank /\ K < OutputHeight =>
          MainAt(main, output.row)' /\ UpAt(up, output.scanline, Consumed(main, output.row))'
    <3>1. ~main'.crank /\ K < OutputHeight =>
            MainAt(main', output.row) /\ UpAt(q.up, K, Consumed(main', output.row))
      BY <1>4, <2>1, Zenon
    <3> QED
      BY <1>1, <1>6, <3>1, CountersKept
  <2> QED
    BY <1>6, <1>7, <2>2, <2>3, <2>4 DEF PassInv
<1> QED
  BY <1>8, <1>9, <1>10, <1>11, <1>12, <1>13, <1>14, <1>15 DEF CountInv
-----------------------------------------------------------------------------
(* The steps of the main buffer controller.                                 *)
LEMMA ProcessingIs ==
  ASSUME CountInv, Processing
  PROVE  /\ cfg \in Configs /\ ~cfg.raw /\ passes > 0 /\ Supported
         /\ output.scanline \in Nat /\ output.scanline < OutputHeight
         /\ main.crank = (post.mode = "CRANK_DEST")
         /\ ~main.crank => /\ MainAt(main, output.row)
                           /\ UpAt(up, output.scanline, Consumed(main, output.row))
         /\ output.row \in 0 .. total_iMCU_rows /\ MainType(main)
         /\ call.op = "read" => Room \in Nat
         /\ \A rows, group, base :
              group \in Nat /\ base \in Int
              /\ (~main.crank => base + group = Consumed(main, output.row)) =>
                Posts(post_process_data(rows, group, Room), output.scanline, Room, base, group)
<1>1. /\ MapInv /\ StateInv /\ CallInv /\ ShownType /\ OutputType /\ MainType(main)
      /\ UpType(up) /\ PostType(post) /\ PassInv
  BY DEF CountInv
<1>2. /\ global_state \in {"PRESCAN", "SCANNING"} /\ output.scanline < OutputHeight /\ ~cfg.raw
      /\ call.op # "read" => quant.dummy
  <2>1. call.op = "setup" /\ quant.dummy => global_state = "PRESCAN"
    BY <1>1 DEF MapInv, Gathering
  <2> QED
    BY <1>1, <2>1 DEF Processing, CallInv
<1>3. passes > 0 /\ Supported /\ quant.dummy = (post.mode = "SAVE_AND_PASS") /\ cfg \in Configs
  BY <1>1, <1>2 DEF StateInv, MapInv
<1>4. output.scanline \in Nat /\ output.row \in 0 .. total_iMCU_rows
  <2>1. total_iMCU_rows * (M * MaxV) \in Nat
    BY <1>3, TotalIs
  <2> QED
    BY <1>1, <2>1 DEF OutputType
<1>5. /\ main.crank = (post.mode = "CRANK_DEST") /\ StripAt(post, output.scanline)
      /\ ~main.crank => /\ MainAt(main, output.row)
                        /\ UpAt(up, output.scanline, Consumed(main, output.row))
  BY <1>1, <1>2, <1>3 DEF PassInv
<1>6. post.mode # "SAVE_AND_PASS" => Room \in Nat \ {0}
  <2> SUFFICES ASSUME post.mode # "SAVE_AND_PASS" PROVE Room \in Nat \ {0}
    OBVIOUS
  <2>1. call.op = "read"
    BY <1>2, <1>3
  <2>2. call.max \in Nat /\ Len(shown.rows) < call.max
    BY <1>1, <2>1, SizesAssumption DEF CallInv
  <2>3. Len(shown.rows) \in Nat
    BY <1>1, SeqIs DEF ShownType
  <2> QED
    BY <2>2, <2>3 DEF Room
<1>8. call.op = "read" => Room \in Nat
  <2>1. call.op = "read" => global_state = "SCANNING" /\ ~quant.dummy
    BY <1>1 DEF CallInv, MapInv, Gathering
  <2> QED
    BY <1>3, <1>6, <2>1
<1>7. ASSUME NEW rows, NEW group \in Nat, NEW base \in Int,
             ~main.crank => base + group = Consumed(main, output.row)
      PROVE  Posts(post_process_data(rows, group, Room), output.scanline, Room, base, group)
  <2>1. post.mode # "CRANK_DEST" => UpAt(up, output.scanline, base + group)
    BY <1>5, <1>7
  <2> QED
    BY <1>1, <1>2, <1>3, <1>4, <1>5, <1>6, <2>1, PostSteps
<1> QED
  BY <1>1, <1>2, <1>3, <1>4, <1>5, <1>7, <1>8

(* While lines are to come, no more row groups are done than the image has. *)
LEMMA GroupsLeft ==
  ASSUME cfg \in Configs, NEW u, UpType(u), NEW lines \in Nat, lines < OutputHeight,
         NEW groups \in Int, UpAt(u, lines, groups)
  PROVE  groups < (total_iMCU_rows - 1) * M + BottomGroups /\ groups < total_iMCU_rows * M
<1> DEFINE b == (total_iMCU_rows - 1) * M + BottomGroups
           x == groups * MaxV
<1>1. lines = x + Made(u) /\ Made(u) \in Nat
  BY ImageIs DEF UpAt, UpType, Made
<1>2. x \in Int /\ b \in Int /\ (x < OutputHeight <=> groups < b)
  BY GroupsIs, Zenon
<1>3. OutputHeight \in Nat
  BY RowsIs
<1> HIDE DEF x
<1>4. groups < b
  BY <1>1, <1>2, <1>3
<1>5. b <= total_iMCU_rows * M
  <2>1. M \in Nat /\ total_iMCU_rows \in Nat /\ BottomGroups \in 1 .. M
    BY ImageIs, RowsIs, BottomIs
  <2>2. (total_iMCU_rows - 1) * M = total_iMCU_rows * M - M /\ total_iMCU_rows * M \in Nat
    BY <2>1
  <2> QED
    BY <2>1, <2>2
<1>6. total_iMCU_rows * M \in Int
  BY ImageIs, RowsIs
<1> QED
  BY <1>2, <1>4, <1>5, <1>6

LEMMA SimpleCount == ASSUME CountInv, MapInv', SimpleMain PROVE CountInv'
<1> DEFINE row == output.row
           L == output.scanline
           base == (row - 1) * M
           group == main.rowgroup_ctr
<1>1. Processing /\ ~main.crank /\ ~need_context_rows /\ main.buffer_full
  BY DEF SimpleMain
<1>2. PICK q : /\ q = post_process_data(InputRows(main), main.rowgroup_ctr, Room)
               /\ main' = AfterSimple(main, q.group) /\ Posted(q, TRUE)
  BY DEF SimpleMain
<1>3. /\ cfg \in Configs /\ ~cfg.raw /\ L \in Nat /\ L < OutputHeight
      /\ MainAt(main, row) /\ row \in 0 .. total_iMCU_rows /\ MainType(main)
  BY <1>1, ProcessingIs
<1>4. M \in Nat \ {0} /\ total_iMCU_rows \in Nat
  BY <1>3, ImageIs, RowsIs
<1>5. row >= 1 /\ group \in 0 .. M - 1 /\ Consumed(main, row) = base + group
  BY <1>1, <1>3, <1>4 DEF MainAt, MainType, Consumed
<1>6. base \in Int /\ row * M = base + M /\ row * M \in Nat
  BY <1>3, <1>4
<1>7. Posts(q, L, Room, base, group)
  <2>1. group \in Nat
    BY <1>4, <1>5
  <2> QED
    BY <1>1, <1>2, <1>5, <1>6, <2>1, ProcessingIs
<1>8. q.group \in {group, group + 1} /\ q.count \in Nat \ {0}
  BY <1>1, <1>3, <1>7, ProcessingIs DEF Posts
<1> DEFINE all == q.group >= M
<1>9. /\ DOMAIN main' = DOMAIN main /\ main'.buffer_full = ~all
      /\ main'.rowgroup_ctr = (IF all THEN 0 ELSE q.group) /\ main'.crank = main.crank
      /\ main'.whichptr = main.whichptr /\ main'.context_state = main.context_state
  BY <1>2, <1>3 DEF AfterSimple, MainType
<1>10. MainType(main')
  BY <1>3, <1>4, <1>5, <1>8, <1>9 DEF MainType
<1>11. Consumed(main', row) = base + q.group
  <2>1. CASE all
    <3>1. q.group = M
      BY <1>4, <1>5, <1>8, <2>1
    <3> HIDE DEF base
    <3> QED
      BY <1>1, <1>6, <1>9, <2>1, <3>1 DEF Consumed
  <2>2. CASE ~all
    BY <1>1, <1>9, <2>2 DEF Consumed
  <2> QED
    BY <2>1, <2>2
<1>12. ASSUME L + q.count < OutputHeight PROVE MainAt(main', row)
  <2>1. ~main'.buffer_full => row < total_iMCU_rows
    <3>1. SUFFICES ASSUME all PROVE row < total_iMCU_rows
      BY <1>9
    <3>2. base + q.group = row * M
      BY <1>4, <1>5, <1>6, <1>8, <3>1
    <3>3. UpType(q.up) /\ UpAt(q.up, L + q.count, base + q.group)
      BY <1>1, <1>3, <1>7, ProcessingIs DEF Posts
    <3>4. row * M < total_iMCU_rows * M
      <4>1. L + q.count \in Nat /\ base + q.group \in Int
        BY <1>3, <1>4, <1>5, <1>6, <1>8
      <4>2. base + q.group < total_iMCU_rows * M
        BY <1>3, <1>12, <3>3, <4>1, GroupsLeft
      <4> QED
        BY <3>2, <4>2
    <3> QED
      BY <1>3, <1>4, <3>4, LessFactor
  <2> QED
    <3>1. row >= 1 /\ row \in Nat /\ main'.rowgroup_ctr < M
      BY <1>3, <1>4, <1>5, <1>8, <1>9
    <3>2. ~main'.buffer_full => main'.rowgroup_ctr = 0
      BY <1>9
    <3> QED
      BY <1>1, <1>3, <2>1, <3>1, <3>2 DEF MainAt
<1>13. main'.buffer_full => main.buffer_full
  BY <1>1
<1> HIDE DEF base, group
<1> QED
  BY <1>1, <1>2, <1>7, <1>9, <1>10, <1>11, <1>12, <1>13, PostedCount

LEMMA ContextIs ==
  ASSUME cfg \in Configs, need_context_rows
  PROVE  M >= 2 /\ ~cfg.raw /\ ~use_merged_upsample
<1>1. M \in Nat
  BY ImageIs
<1>2. ~cfg.raw /\ ~use_merged_upsample /\ \E c \in Comps : h2v2_fancy(c)
  BY Zenon DEF need_context_rows
<1>3. \A c \in Comps : h2v2_fancy(c) => M > 1
  BY Zenon DEF h2v2_fancy
<1>4. M > 1
  BY <1>2, <1>3, Zenon
<1> QED
  BY <1>1, <1>2, <1>4

LEMMA PostponedCount == ASSUME CountInv, MapInv', PostponedRow PROVE CountInv'
<1> DEFINE row == output.row
           L == output.scanline
           a == (row - 1) * M
           base == a - M - 2
           group == main.rowgroup_ctr
<1>1. /\ Processing /\ ~main.crank /\ need_context_rows /\ main.buffer_full
      /\ main.context_state = "POSTPONED"
  BY DEF PostponedRow
<1>2. PICK q : /\ q = post_process_data(InputRows(main), main.rowgroup_ctr, Room)
               /\ main' = AfterPostponed(main, q.group)
               /\ Posted(q, q.group < main.rowgroups_avail \/ q.count >= Room)
  BY DEF PostponedRow
<1>3. /\ cfg \in Configs /\ ~cfg.raw /\ L \in Nat /\ L < OutputHeight
      /\ MainAt(main, row) /\ row \in 0 .. total_iMCU_rows /\ MainType(main)
      /\ post.mode # "CRANK_DEST"
      /\ call.op = "read" => Room \in Nat
  BY <1>1, ProcessingIs
<1>4. M \in Nat \ {0} /\ total_iMCU_rows \in Nat
  BY <1>3, ImageIs, RowsIs
<1>5. /\ row >= 2 /\ group = M + 1 /\ main.rowgroups_avail = M + 2
      /\ main.iMCU_row_ctr = row /\ main.whichptr = Turn(row - 1) /\ Consumed(main, row) = a - 1
  BY <1>1, <1>3, <1>4 DEF MainAt, MainType, Consumed
<1>6. a \in Int
  BY <1>3, <1>4
<1> HIDE DEF a
<1>7. base \in Int /\ base + group = a - 1
  BY <1>4, <1>5, <1>6
<1>8. Posts(q, L, Room, base, group)
  <2>1. group \in Nat
    BY <1>4, <1>5
  <2> QED
    BY <1>1, <1>2, <1>5, <1>7, <2>1, ProcessingIs
<1>9. /\ q.group \in {group, group + 1} /\ q.count \in Nat \ {0}
      /\ UpAt(q.up, L + q.count, base + q.group) /\ UpType(q.up)
      /\ q.group # group => Made(q.up) = 0
  BY <1>3, <1>8 DEF Posts
<1>10. /\ DOMAIN main' = DOMAIN main /\ main'.buffer_full = main.buffer_full
       /\ main'.rowgroup_ctr = q.group /\ main'.crank = main.crank
       /\ main'.whichptr = main.whichptr /\ main'.iMCU_row_ctr = main.iMCU_row_ctr
       /\ main'.rowgroups_avail = main.rowgroups_avail
       /\ main'.context_state = IF q.group < main.rowgroups_avail THEN "POSTPONED" ELSE "PREPARE"
  BY <1>1, <1>2, <1>3 DEF AfterPostponed, MainType
<1>11. MainType(main')
  BY <1>3, <1>4, <1>5, <1>9, <1>10 DEF MainType
<1>12. Consumed(main', row) = base + q.group
  <2>1. CASE q.group = M + 1
    BY <1>1, <1>4, <1>5, <1>7, <1>10, <2>1 DEF Consumed, a
  <2>2. CASE q.group = M + 2
    <3>1. base + q.group = a
      BY <1>4, <1>6, <2>2
    <3>2. main'.context_state = "PREPARE" /\ main'.buffer_full
      BY <1>1, <1>4, <1>5, <1>10, <2>2
    <3> QED
      BY <1>1, <3>1, <3>2 DEF Consumed, a
  <2> QED
    BY <1>4, <1>5, <1>9, <2>1, <2>2
<1>13. MainAt(main', row)
  <2>1. CASE q.group = M + 1
    BY <1>1, <1>3, <1>4, <1>5, <1>10, <2>1 DEF MainAt
  <2>2. CASE q.group = M + 2
    <3>1. main'.context_state = "PREPARE" /\ main'.buffer_full
      BY <1>1, <1>4, <1>5, <1>10, <2>2
    <3> QED
      BY <1>1, <1>3, <1>4, <1>5, <1>10, <3>1 DEF MainAt
  <2> QED
    BY <1>4, <1>5, <1>9, <2>1, <2>2
<1>14. ASSUME call.op = "read", ~(q.group < main.rowgroups_avail \/ q.count >= Room)
       PROVE  q.count < Room /\ L + q.count < OutputHeight
  <2>1. q.group = M + 2
    BY <1>4, <1>5, <1>9, <1>14
  <2>2. base + q.group = a /\ Made(q.up) = 0
    BY <1>4, <1>5, <1>6, <1>9, <2>1
  <2>3. L + q.count = a * MaxV
    <3>1. L + q.count = a * MaxV + 0
      BY <1>9, <2>2 DEF UpAt
    <3>2. a * MaxV \in Int
      BY <1>3, <1>6, ImageIs
    <3> QED
      BY <3>1, <3>2
  <2>4. a < (total_iMCU_rows - 1) * M + BottomGroups
    <3>1. row - 1 \in Int /\ total_iMCU_rows - 1 \in Int /\ row - 1 <= total_iMCU_rows - 1
      BY <1>3, <1>4
    <3>2. a <= (total_iMCU_rows - 1) * M /\ (total_iMCU_rows - 1) * M \in Int
      BY <1>4, <3>1, FactorKeeps DEF a
    <3>3. BottomGroups \in 1 .. M
      BY <1>3, BottomIs
    <3> QED
      BY <1>4, <1>6, <3>2, <3>3
  <2>5. a * MaxV < OutputHeight
    BY <1>3, <1>6, <2>4, GroupsIs
  <2> QED
    BY <1>3, <1>9, <1>14, <2>3, <2>5
<1> HIDE DEF base, group
<1> DEFINE returns == q.group < main.rowgroups_avail \/ q.count >= Room
<1>15. returns \in BOOLEAN /\ Posted(q, returns)
  BY <1>2
<1>16. call.op = "read" /\ ~returns => q.count < Room /\ L + q.count < OutputHeight
  BY <1>14
<1> HIDE DEF returns
<1> QED
  BY <1>1, <1>8, <1>10, <1>11, <1>12, <1>13, <1>15, <1>16, PostedCount

(* The iMCU row is prepared if it is new.                                   *)
Prepared == IF main.context_state = "PREPARE" THEN Prepare(main) ELSE main

LEMMA PreparedIs ==
  ASSUME cfg \in Configs, need_context_rows, main.buffer_full, main.context_state # "POSTPONED",
         output.row \in 0 .. total_iMCU_rows, MainType(main), MainAt(main, output.row)
  PROVE  /\ MainType(Prepared) /\ MainAt(Prepared, output.row)
         /\ Consumed(Prepared, output.row) = Consumed(main, output.row)
         /\ Prepared.context_state = "PROCESS" /\ Prepared.buffer_full
         /\ Prepared.crank = main.crank
<1>1. M \in Nat /\ M >= 2 /\ BottomGroups \in 1 .. M /\ total_iMCU_rows \in Nat
  BY ImageIs, RowsIs, BottomIs, ContextIs
<1>2. CASE main.context_state # "PREPARE"
  <2>1. Prepared = main /\ main.context_state = "PROCESS"
    BY <1>2 DEF Prepared, MainType
  <2> QED
    BY <2>1
<1>3. CASE main.context_state = "PREPARE"
  <2>1. Prepared = Prepare(main)
    BY <1>3 DEF Prepared
  <2>2. main.iMCU_row_ctr = output.row
    BY DEF MainAt
  <2>3. /\ DOMAIN Prepared = DOMAIN main /\ Prepared.buffer_full = main.buffer_full
        /\ Prepared.rowgroup_ctr = 0 /\ Prepared.crank = main.crank
        /\ Prepared.whichptr = main.whichptr /\ Prepared.iMCU_row_ctr = main.iMCU_row_ctr
        /\ Prepared.rowgroups_avail = (IF output.row = total_iMCU_rows THEN BottomGroups ELSE M - 1)
        /\ Prepared.context_state = "PROCESS"
    BY <2>1, <2>2 DEF Prepare, AtBottom, MainType
  <2> HIDE DEF Prepared
  <2>4. MainType(Prepared)
    BY <1>1, <2>3 DEF MainType
  <2>5. MainAt(Prepared, output.row)
    BY <1>1, <1>3, <2>3 DEF MainAt
  <2>6. Consumed(Prepared, output.row) = Consumed(main, output.row)
    <3>1. Consumed(main, output.row) = (output.row - 1) * M
      BY <1>3 DEF Consumed
    <3>2. Consumed(Prepared, output.row) = (output.row - 1) * M + 0
      BY <2>3 DEF Consumed
    <3>3. (output.row - 1) * M \in Int
      BY <1>1
    <3> QED
      BY <3>1, <3>2, <3>3
  <2> QED
    BY <2>3, <2>4, <2>5, <2>6
<1> QED
  BY <1>2, <1>3

LEMMA ProcessCount == ASSUME CountInv, MapInv', ProcessRows PROVE CountInv'
<1> DEFINE row == output.row
           L == output.scanline
           m == Prepared
           base == (row - 1) * M
           group == m.rowgroup_ctr
<1>1. /\ Processing /\ ~main.crank /\ need_context_rows /\ main.buffer_full
      /\ main.context_state # "POSTPONED"
  BY DEF ProcessRows
<1>2. PICK q : /\ q = post_process_data(InputRows(m), m.rowgroup_ctr, Room)
               /\ main' = AfterProcess(m, q.group) /\ Posted(q, TRUE)
  BY DEF ProcessRows, Prepared
<1>3. /\ cfg \in Configs /\ ~cfg.raw /\ L \in Nat /\ L < OutputHeight
      /\ MainAt(main, row) /\ row \in 0 .. total_iMCU_rows /\ MainType(main)
      /\ post.mode # "CRANK_DEST"
  BY <1>1, ProcessingIs
<1>4. M \in Nat /\ M >= 2 /\ BottomGroups \in 1 .. M /\ total_iMCU_rows \in Nat \ {0}
  BY <1>1, <1>3, ImageIs, RowsIs, BottomIs, ContextIs
<1>5. /\ MainType(m) /\ MainAt(m, row) /\ Consumed(m, row) = Consumed(main, row)
      /\ m.context_state = "PROCESS" /\ m.buffer_full /\ m.crank = main.crank
  BY <1>1, <1>3, PreparedIs
<1> HIDE DEF m
<1>6. /\ row >= 1 /\ group \in Nat /\ group < m.rowgroups_avail
      /\ m.rowgroups_avail = IF row = total_iMCU_rows THEN BottomGroups ELSE M - 1
      /\ m.iMCU_row_ctr = row /\ m.whichptr = Turn(row - 1) /\ Consumed(m, row) = base + group
  BY <1>1, <1>3, <1>4, <1>5 DEF MainAt, MainType, Consumed
<1>7. base \in Int /\ row * M = base + M
  BY <1>3, <1>4
<1> HIDE DEF base
<1>8. Posts(q, L, Room, base, group)
  BY <1>1, <1>2, <1>5, <1>6, <1>7, ProcessingIs
<1>9. /\ q.group \in {group, group + 1} /\ q.count \in Nat \ {0}
      /\ UpAt(q.up, L + q.count, base + q.group) /\ UpType(q.up)
  BY <1>3, <1>8 DEF Posts
<1>10. m.rowgroups_avail \in 1 .. M
  BY <1>4, <1>6
<1>11. CASE q.group < m.rowgroups_avail
  <2>1. main' = [m EXCEPT !.rowgroup_ctr = q.group]
    BY <1>2, <1>11 DEF AfterProcess
  <2>2. /\ DOMAIN main' = DOMAIN m /\ main'.buffer_full = m.buffer_full
        /\ main'.rowgroup_ctr = q.group /\ main'.crank = m.crank
        /\ main'.whichptr = m.whichptr /\ main'.iMCU_row_ctr = m.iMCU_row_ctr
        /\ main'.rowgroups_avail = m.rowgroups_avail /\ main'.context_state = m.context_state
    BY <1>5, <2>1 DEF MainType
  <2>3. MainType(main')
    BY <1>4, <1>5, <1>6, <1>9, <1>10, <1>11, <2>2 DEF MainType
  <2>4. MainAt(main', row)
    BY <1>1, <1>3, <1>5, <1>6, <1>11, <2>2 DEF MainAt
  <2>5. Consumed(main', row) = base + q.group
    BY <1>1, <1>5, <2>2 DEF Consumed, base
  <2> HIDE DEF group
  <2> QED
    BY <1>1, <1>2, <1>5, <1>8, <2>2, <2>3, <2>4, <2>5, PostedCount
<1>12. CASE ~(q.group < m.rowgroups_avail)
  <2>1. main' = NextBuffer(m)
    BY <1>2, <1>12 DEF AfterProcess
  <2>2. /\ DOMAIN main' = DOMAIN m /\ main'.buffer_full = FALSE
        /\ main'.rowgroup_ctr = M + 1 /\ main'.crank = m.crank
        /\ main'.whichptr = 3 - m.whichptr /\ main'.iMCU_row_ctr = m.iMCU_row_ctr
        /\ main'.rowgroups_avail = M + 2 /\ main'.context_state = "POSTPONED"
    BY <1>5, <2>1 DEF NextBuffer, MainType
  <2>3. MainType(main')
    <3>1. m.whichptr \in 1 .. 2 /\ m.crank \in BOOLEAN /\ DOMAIN m = DOMAIN main'
      BY <1>5, <2>2 DEF MainType
    <3>2. 3 - m.whichptr \in 1 .. 2 /\ M + 1 \in 0 .. M + 2
      BY <1>4, <3>1
    <3> QED
      BY <1>5, <2>2, <3>1, <3>2, Zenon DEF MainType
  <2>4. q.group = m.rowgroups_avail
    BY <1>6, <1>9, <1>10, <1>12
  <2>5. ASSUME L + q.count < OutputHeight
        PROVE  MainAt(main', row) /\ base + q.group = Consumed(main', row)
    <3>1. row # total_iMCU_rows
      <4> SUFFICES ASSUME row = total_iMCU_rows PROVE FALSE
        OBVIOUS
      <4>1. base + q.group = (total_iMCU_rows - 1) * M + BottomGroups
        BY <1>6, <2>4 DEF base
      <4>2. L + q.count \in Nat /\ base + q.group \in Int
        BY <1>3, <1>7, <1>9, <1>10, <2>4
      <4>3. base + q.group < (total_iMCU_rows - 1) * M + BottomGroups
        BY <1>3, <1>9, <2>5, <4>2, GroupsLeft
      <4> QED
        BY <4>1, <4>2, <4>3
    <3>2. row < total_iMCU_rows /\ q.group = M - 1
      <4>1. row <= total_iMCU_rows /\ row \in Nat
        BY <1>3, <1>4
      <4>2. m.rowgroups_avail = M - 1
        BY <1>6, <3>1
      <4> QED
        BY <1>4, <2>4, <3>1, <4>1, <4>2
    <3>3. Consumed(main', row) = row * M - 1
      BY <1>1, <2>2 DEF Consumed
    <3>4. base + q.group = row * M - 1
      BY <1>4, <1>7, <3>2
    <3>5. 3 - Turn(row - 1) = Turn(row)
      BY <1>3, <1>6 DEF Turn
    <3>6. MainAt(main', row)
      BY <1>1, <1>3, <1>4, <1>6, <2>2, <3>2, <3>5 DEF MainAt
    <3> QED
      BY <3>3, <3>4, <3>6
  <2> HIDE DEF group
  <2> QED
    BY <1>1, <1>2, <1>5, <1>8, <2>2, <2>3, <2>5, PostedCount
<1> QED
  BY <1>11, <1>12

LEMMA CrankCount == ASSUME CountInv, MapInv', CrankPost PROVE CountInv'
<1>1. Processing /\ main.crank /\ main' = main
  BY DEF CrankPost
<1>2. PICK q : q = post_process_data(<<>>, 0, Room) /\ Posted(q, TRUE)
  BY DEF CrankPost
<1>3. Posts(q, output.scanline, Room, 0, 0)
  <2>1. 0 \in Nat /\ 0 \in Int
    OBVIOUS
  <2> QED
    BY <1>1, <1>2, <2>1, ProcessingIs
<1>4. MainType(main)
  BY DEF CountInv
<1> QED
  BY <1>1, <1>2, <1>3, <1>4, PostedCount
-----------------------------------------------------------------------------
LEMMA RawCount == ASSUME CountInv, MapInv', RawData PROVE CountInv'
<1> DEFINE row == output.row
           L == output.scanline
           K == L + MaxV * M
           base == (row - 1) * M
<1>1. /\ call.op = "read" /\ cfg.raw /\ main.buffer_full
      /\ main' = [main EXCEPT !.buffer_full = FALSE]
      /\ output' = [output EXCEPT !.scanline = @ + MaxV * M]
      /\ shown' = [shown EXCEPT !.rows = <<main.buf>>]
      /\ call' = Return("none")
      /\ UNCHANGED <<cfg, global_state, input, coefs, coef_bits, up, post, quant, passes>>
  BY DEF RawData
<1>2. /\ MapInv /\ InputInv /\ CoefType /\ StateInv /\ CallInv /\ ShownType
      /\ OnePassInv /\ OutputType /\ MainType(main) /\ PassInv /\ UpType(up) /\ PostType(post)
  BY DEF CountInv
<1>3. cfg \in Configs /\ global_state = "SCANNING" /\ passes > 0 /\ L < OutputHeight
  BY <1>1, <1>2 DEF MapInv, CallInv, StateInv
<1>4. /\ M \in Nat \ {0} /\ MaxV \in Nat \ {0} /\ total_iMCU_rows \in Nat \ {0}
      /\ OutputHeight \in Nat /\ L \in Nat /\ row \in 0 .. total_iMCU_rows
  <2>1. M \in Nat \ {0} /\ MaxV \in 1 .. 4 /\ total_iMCU_rows \in Nat \ {0} /\ OutputHeight \in Nat
    BY <1>3, ImageIs, RowsIs
  <2>2. L \in Nat /\ row \in 0 .. total_iMCU_rows
    BY <1>2, <1>3, TotalIs DEF OutputType
  <2> QED
    BY <2>1, <2>2
<1>5. ~need_context_rows
  BY <1>1 DEF need_context_rows
<1>6. post.mode = "PASS_THRU" /\ ~main.crank
  BY <1>1, <1>2, <1>3 DEF PassInv, StripAt
<1>7. MainAt(main, row) /\ UpAt(up, L, Consumed(main, row))
  BY <1>2, <1>3, <1>6 DEF PassInv
<1>8. row >= 1 /\ main.rowgroup_ctr = 0
  BY <1>1, <1>5, <1>7 DEF MainAt
<1>9. base \in Int /\ row * M = base + M /\ row * M \in Nat
  BY <1>4
<1>10. Consumed(main, row) = base
  <2>1. Consumed(main, row) = base + 0
    BY <1>1, <1>5, <1>8 DEF Consumed
  <2> HIDE DEF base
  <2> QED
    BY <1>9, <2>1
<1>11. L = base * MaxV + 0
  BY <1>1, <1>7, <1>10 DEF UpAt, Made
<1>12. K = (row * M) * MaxV + 0 /\ K \in Nat /\ K >= L
  <2>1. (base + M) * MaxV = base * MaxV + M * MaxV /\ base * MaxV \in Int /\ M * MaxV \in Nat
        /\ MaxV * M = M * MaxV
    <3> HIDE DEF base
    <3> QED
      BY <1>4, <1>9
  <2> QED
    BY ONLY <1>4, <1>9, <1>11, <2>1 DEF K
<1>13. K <= total_iMCU_rows * (M * MaxV)
  <2>1. M * MaxV \in Nat /\ row * (M * MaxV) = (row * M) * MaxV
    BY <1>4
  <2>2. row * (M * MaxV) <= total_iMCU_rows * (M * MaxV)
    <3>1. row \in Int /\ total_iMCU_rows \in Int /\ row <= total_iMCU_rows
      BY <1>4
    <3> QED
      BY <2>1, <3>1, FactorKeeps
  <2>3. (row * M) * MaxV \in Int /\ total_iMCU_rows * (M * MaxV) \in Nat
    BY <1>3, <1>4, <1>9, TotalIs
  <2> QED
    BY ONLY <1>12, <2>1, <2>2, <2>3
<1> HIDE DEF K
<1>14. UpAt(up, K, row * M)
  BY <1>1, <1>12 DEF UpAt, Made
<1>15. /\ DOMAIN main' = DOMAIN main /\ main'.buffer_full = FALSE
       /\ main'.rowgroup_ctr = main.rowgroup_ctr /\ main'.crank = main.crank
       /\ main'.whichptr = main.whichptr /\ main'.context_state = main.context_state
  BY <1>1, <1>2 DEF MainType
<1>16. MainType(main')
  BY <1>2, <1>15 DEF MainType
<1>17. Consumed(main', row) = row * M
  BY <1>5, <1>15 DEF Consumed
<1>18. K < OutputHeight => MainAt(main', row)
  <2> SUFFICES ASSUME K < OutputHeight PROVE MainAt(main', row)
    OBVIOUS
  <2>1. row * M < total_iMCU_rows * M
    <3>1. row * M \in Int
      BY <1>9
    <3> QED
      BY <1>2, <1>3, <1>12, <1>14, <3>1, GroupsLeft
  <2>2. row < total_iMCU_rows
    <3>1. row \in Int /\ total_iMCU_rows \in Int
      BY <1>4
    <3> QED
      BY <1>4, <2>1, <3>1, LessFactor
  <2> QED
    BY <1>4, <1>5, <1>8, <1>15, <2>2 DEF MainAt
<1>19. /\ DOMAIN output' = DOMAIN output /\ output'.scanline = K /\ output'.scan = output.scan
       /\ output'.row = output.row /\ output'.smooth = output.smooth
  BY <1>1, <1>2 DEF OutputType, K
<1>20. OutputHeight' = OutputHeight /\ total_iMCU_rows' = total_iMCU_rows /\ M' = M /\ MaxV' = MaxV
       /\ use_c_buffer' = use_c_buffer /\ Supported' = Supported
  BY <1>1, ImageKept, SizesKept, ModulesKept
<1>21. InputInv' /\ CoefType'
  BY <1>1, <1>2, InputKept, CoefKept
<1>22. OutputType'
  <2>1. K \in 0 .. total_iMCU_rows * (M * MaxV)
    BY <1>3, <1>12, <1>13, TotalIs
  <2>2. output'.scanline \in 0 .. total_iMCU_rows' * (M' * MaxV')
    BY <1>19, <1>20, <2>1, Zenon
  <2>3. /\ DOMAIN output' = {"scan", "row", "scanline", "smooth"} /\ cfg' = cfg
        /\ output'.scan \in 0 .. Len(cfg'.scans) + 1 /\ output'.smooth \in BOOLEAN
        /\ output'.row \in 0 .. total_iMCU_rows' /\ (output'.smooth => use_c_buffer')
    BY <1>1, <1>2, <1>19, <1>20, Zenon DEF OutputType
  <2> QED
    BY <2>2, <2>3, Zenon DEF OutputType
<1>23. ShownType'
  <2>1. DOMAIN shown' = DOMAIN shown /\ shown'.from = shown.from /\ shown'.rows = <<main.buf>>
    BY <1>1, <1>2 DEF ShownType
  <2> QED
    BY <1>2, <2>1, OneIs DEF ShownType
<1>24. StateInv'
  BY <1>1, <1>2, <1>3, <1>4, <1>12, <1>15, <1>19, <1>20 DEF StateInv
<1>25. CallInv'
  <2>1. call'.op = "none"
    BY <1>1, <1>2 DEF Return, MapInv, CallType
  <2> QED
    BY <2>1 DEF CallInv
<1>26. OnePassInv'
  <2>1. ~use_c_buffer => input.scan = 1 /\ input.row = output.row
    BY <1>2, <1>3, <1>6 DEF OnePassInv
  <2> QED
    BY <1>1, <1>3, <1>15, <1>19, <1>20, <2>1 DEF OnePassInv
<1>27. MainType(main)' /\ UpType(up)' /\ PostType(post)'
  BY <1>1, <1>2, <1>16, CountersKept
<1>28. PassInv'
  <2>1. StripAt(post, output.scanline)' /\ main'.crank = (post'.mode = "CRANK_DEST")
    <3>1. post'.mode = "PASS_THRU" /\ ~main'.crank
      BY <1>1, <1>6, <1>15
    <3>2. main'.crank = (post'.mode = "CRANK_DEST")
      <4>1. main'.crank \in BOOLEAN
        BY <1>16 DEF MainType
      <4> QED
        BY <3>1, <4>1
    <3> QED
      BY <3>1, <3>2 DEF StripAt
  <2>2. K < OutputHeight =>
          MainAt(main, output.row)' /\ UpAt(up, output.scanline, Consumed(main, output.row))'
    <3>1. K < OutputHeight =>
            MainAt(main', output.row) /\ UpAt(up, K, Consumed(main', output.row))
      BY <1>14, <1>17, <1>18, Zenon
    <3> QED
      BY <1>1, <1>19, <3>1, CountersKept
  <2> QED
    BY <1>1, <1>19, <1>20, <2>1, <2>2 DEF PassInv
<1> QED
  BY <1>21, <1>22, <1>23, <1>24, <1>25, <1>26, <1>27, <1>28 DEF CountInv
-----------------------------------------------------------------------------
(* Every scan has MCUs in every iMCU row.                                   *)
LEMMA ScanIs ==
  ASSUME cfg \in Configs, NEW k \in 1 .. Len(cfg.scans)
  PROVE  /\ cfg.scans[k].comps # <<>> /\ cfg.scans[k].comps \in Seq(Comps)
         /\ \A i, j \in DOMAIN cfg.scans[k].comps :
              cfg.scans[k].comps[i] = cfg.scans[k].comps[j] => i = j
         /\ cfg.scans[k].comps[1] \in Comps /\ 1 \in DOMAIN cfg.scans[k].comps
         /\ v(cfg.scans[k].comps[1]) \in Nat \ {0}
         /\ last_block_rows(cfg.scans[k].comps[1]) \in Nat \ {0}
         /\ width_in_blocks(cfg.scans[k].comps[1]) \in Nat \ {0}
<1> DEFINE s == cfg.scans[k]
           c == s.comps[1]
<1>1. IsImage(cfg) /\ Comps = 1 .. Len(cfg.comps) /\ \A d \in Comps : v(d) \in 1 .. 4
  BY ImageIs
<1>2. IsScan(s, Len(cfg.comps))
  BY <1>1, Zenon DEF IsImage
<1>3. /\ s.comps # <<>> /\ s.comps \in Seq(Comps)
      /\ \A i, j \in DOMAIN s.comps : s.comps[i] = s.comps[j] => i = j
  BY <1>1, <1>2, Zenon DEF IsScan
<1>4. c \in Comps /\ 1 \in DOMAIN s.comps
  <2> HIDE DEF s
  <2> QED
    BY <1>3
<1> HIDE DEF c
<1>5. last_block_rows(c) \in 1 .. v(c) /\ width_in_blocks(c) \in Nat \ {0} /\ v(c) \in 1 .. 4
  BY <1>1, <1>4, LastRowsIs, ComponentIs
<1>6. v(c) \in Nat \ {0} /\ last_block_rows(c) \in Nat \ {0}
  BY <1>5
<1> QED
  BY <1>3, <1>4, <1>5, <1>6 DEF c

LEMMA RowsPerIs ==
  ASSUME cfg \in Configs, cfg' = cfg, input'.scan \in 1 .. Len(cfg.scans)
  PROVE  MCU_rows_per_iMCU_row' \in Nat \ {0} /\ MCUs_per_row' \in Nat \ {0}
<1>1. PICK k \in 1 .. Len(cfg.scans) : k = input'.scan
  OBVIOUS
<1>2. PICK c : /\ c = cfg.scans[k].comps[1] /\ v(c) \in Nat \ {0}
               /\ last_block_rows(c) \in Nat \ {0} /\ width_in_blocks(c) \in Nat \ {0}
  BY ScanIs
<1>3. Ceil(cfg.width, MaxH * DCTSIZE) \in Nat \ {0}
  BY ImageIs, ComponentIs
<1>4. Scan'.comps[1] = c
  BY <1>1, <1>2 DEF Scan
<1>5. /\ v(c)' = v(c) /\ last_block_rows(c)' = last_block_rows(c)
      /\ width_in_blocks(c)' = width_in_blocks(c) /\ MaxH' = MaxH
      /\ total_iMCU_rows' = total_iMCU_rows
  BY ImageKept, SizesKept
<1>6. MCU_rows_per_iMCU_row' \in {1, v(c), last_block_rows(c)}
  BY <1>4, <1>5 DEF MCU_rows_per_iMCU_row
<1>7. MCUs_per_row' \in {Ceil(cfg.width, MaxH * DCTSIZE), width_in_blocks(c)}
  BY <1>4, <1>5 DEF MCUs_per_row
<1> QED
  BY <1>2, <1>3, <1>6, <1>7

LEMMA AfterIs ==
  ASSUME CountInv, input.data, cfg' = cfg, input' = AfterMCU
  PROVE  /\ InputInv' /\ input'.scan = input.scan /\ input'.eoi = input.eoi
         /\ RowEnds => input'.row = input.row + 1 /\ input'.vert = 0 /\ input'.mcu = 0
         /\ ~RowEnds => input'.row = input.row
<1>1. cfg \in Configs /\ InputInv
  BY DEF CountInv, MapInv
<1>2. total_iMCU_rows \in Nat /\ total_iMCU_rows' = total_iMCU_rows
  BY <1>1, RowsIs, SizesKept
<1>3. /\ input \in [scan : 1 .. Len(cfg.scans), row : 0 .. total_iMCU_rows, vert : Nat,
                    mcu : Nat, data : BOOLEAN, eoi : BOOLEAN]
      /\ input.row < total_iMCU_rows /\ ~input.eoi
      /\ input.vert < MCU_rows_per_iMCU_row /\ input.mcu < MCUs_per_row
  BY <1>1 DEF InputInv
<1>4. input'.scan = input.scan /\ input'.eoi = input.eoi
  BY <1>3 DEF AfterMCU
<1>5. MCU_rows_per_iMCU_row' \in Nat \ {0} /\ MCUs_per_row' \in Nat \ {0}
  BY <1>1, <1>3, <1>4, RowsPerIs
<1>6. CASE RowEnds
  <2>1. input' = [input EXCEPT !.mcu = 0, !.vert = 0, !.row = @ + 1,
                               !.data = input.row + 1 < total_iMCU_rows]
    BY <1>6 DEF AfterMCU
  <2>2. /\ input' \in [scan : 1 .. Len(cfg.scans), row : 0 .. total_iMCU_rows, vert : Nat,
                       mcu : Nat, data : BOOLEAN, eoi : BOOLEAN]
        /\ input'.row = input.row + 1 /\ input'.vert = 0 /\ input'.mcu = 0
        /\ input'.data = (input.row + 1 < total_iMCU_rows)
    <3>1. input.row + 1 \in 0 .. total_iMCU_rows /\ (input.row + 1 < total_iMCU_rows) \in BOOLEAN
      BY <1>2, <1>3
    <3> DEFINE d == input.row + 1 < total_iMCU_rows
    <3> HIDE DEF d
    <3>2. input' = [input EXCEPT !.mcu = 0, !.vert = 0, !.row = @ + 1, !.data = d]
      BY <2>1 DEF d
    <3>3. d \in BOOLEAN
      BY <3>1 DEF d
    <3>4. /\ input' \in [scan : 1 .. Len(cfg.scans), row : 0 .. total_iMCU_rows, vert : Nat,
                         mcu : Nat, data : BOOLEAN, eoi : BOOLEAN]
          /\ input'.row = input.row + 1 /\ input'.vert = 0 /\ input'.mcu = 0
          /\ input'.data = d
      <4>1. input' = [scan |-> input.scan, row |-> input.row + 1, vert |-> 0, mcu |-> 0,
                      data |-> d, eoi |-> input.eoi]
        BY <1>3, <3>2
      <4>2. 0 \in Nat /\ input.scan \in 1 .. Len(cfg.scans) /\ input.eoi \in BOOLEAN
        BY <1>3
      <4> QED
        BY <3>1, <3>3, <4>1, <4>2
    <3> QED
      BY <3>4 DEF d
  <2>3. InputInv'
    BY <1>2, <1>3, <1>4, <1>5, <2>2 DEF InputInv
  <2> QED
    BY <1>4, <1>6, <2>2, <2>3
<1>7. CASE ~RowEnds
  <2>1. input'.row = input.row /\ input'.data = input.data
    BY <1>3, <1>7 DEF AfterMCU
  <2>2. Scan' = Scan /\ Interleaved' = Interleaved
    BY <1>4 DEF Scan, Interleaved
  <2>3. MCU_rows_per_iMCU_row' = MCU_rows_per_iMCU_row /\ MCUs_per_row' = MCUs_per_row
    BY <2>1, <2>2, ImageKept, SizesKept DEF MCU_rows_per_iMCU_row, MCUs_per_row
  <2>4. MCU_rows_per_iMCU_row \in Nat /\ MCUs_per_row \in Nat
    BY <1>5, <2>3
  <2>5. CASE input.mcu + 1 = MCUs_per_row
    <3>1. input' = [input EXCEPT !.mcu = 0, !.vert = @ + 1] /\ input.vert + 1 # MCU_rows_per_iMCU_row
      BY <1>7, <2>5 DEF AfterMCU, RowEnds
    <3>2. /\ input' \in [scan : 1 .. Len(cfg.scans), row : 0 .. total_iMCU_rows, vert : Nat,
                         mcu : Nat, data : BOOLEAN, eoi : BOOLEAN]
          /\ input'.vert = input.vert + 1 /\ input'.mcu = 0
      <4>1. input.vert + 1 \in Nat
        BY <1>3
      <4> QED
        <5>1. input' = [scan |-> input.scan, row |-> input.row, vert |-> input.vert + 1,
                        mcu |-> 0, data |-> input.data, eoi |-> input.eoi]
          BY <1>3, <3>1
        <5>2. 0 \in Nat
          OBVIOUS
        <5> QED
          BY <1>3, <4>1, <5>1, <5>2
    <3>3. input'.vert < MCU_rows_per_iMCU_row
      BY <1>3, <2>4, <3>1, <3>2
    <3>4. InputInv'
      BY <1>1, <1>2, <1>3, <1>4, <1>5, <2>1, <2>3, <3>2, <3>3 DEF InputInv
    <3> QED
      BY <1>4, <1>7, <2>1, <3>4
  <2>6. CASE input.mcu + 1 # MCUs_per_row
    <3>1. input' = [input EXCEPT !.mcu = @ + 1]
      BY <1>7, <2>6 DEF AfterMCU
    <3>2. /\ input' \in [scan : 1 .. Len(cfg.scans), row : 0 .. total_iMCU_rows, vert : Nat,
                         mcu : Nat, data : BOOLEAN, eoi : BOOLEAN]
          /\ input'.vert = input.vert /\ input'.mcu = input.mcu + 1
      BY <1>3, <3>1
    <3>3. input'.mcu < MCUs_per_row
      BY <1>3, <2>4, <2>6, <3>2
    <3>4. InputInv'
      BY <1>1, <1>2, <1>3, <1>4, <1>5, <2>1, <2>3, <3>2, <3>3 DEF InputInv
    <3> QED
      BY <1>4, <1>7, <2>1, <3>4
  <2> QED
    BY <2>5, <2>6
<1> QED
  BY <1>6, <1>7

(* The buffer gets data: all of an iMCU row, or some.                       *)
LEMMA FilledAt ==
  ASSUME cfg \in Configs, NEW m, MainType(m), NEW row \in Nat, MainAt(m, row), ~m.buffer_full,
         NEW b
  PROVE  LET some == [m EXCEPT !.buf = b]
             all == Filled(some)
         IN /\ MainType(some) /\ MainAt(some, row) /\ Consumed(some, row) = Consumed(m, row)
            /\ some.crank = m.crank /\ ~some.buffer_full
            /\ MainType(all) /\ MainAt(all, row + 1) /\ Consumed(all, row + 1) = Consumed(m, row)
            /\ all.crank = m.crank /\ all.buffer_full /\ row < total_iMCU_rows
<1> DEFINE some == [m EXCEPT !.buf = b]
           all == Filled(some)
<1>1. M \in Nat \ {0} /\ total_iMCU_rows \in Nat
  BY ImageIs, RowsIs
<1>2. /\ DOMAIN some = DOMAIN m /\ some.buffer_full = m.buffer_full /\ some.crank = m.crank
      /\ some.whichptr = m.whichptr /\ some.context_state = m.context_state
      /\ some.rowgroup_ctr = m.rowgroup_ctr /\ some.rowgroups_avail = m.rowgroups_avail
      /\ some.iMCU_row_ctr = m.iMCU_row_ctr
  BY DEF MainType
<1>3. /\ DOMAIN all = DOMAIN some /\ all.buffer_full = TRUE /\ all.crank = some.crank
      /\ all.whichptr = some.whichptr /\ all.context_state = some.context_state
      /\ all.rowgroup_ctr = some.rowgroup_ctr /\ all.rowgroups_avail = some.rowgroups_avail
      /\ all.iMCU_row_ctr = IF need_context_rows THEN some.iMCU_row_ctr + 1
                            ELSE some.iMCU_row_ctr
  <2>1. DOMAIN some = DOMAIN m
    BY <1>2
  <2> HIDE DEF some
  <2> QED
    BY <2>1 DEF MainType, Filled
<1> HIDE DEF some, all
<1>4. MainType(some) /\ MainType(all)
  BY <1>2, <1>3 DEF MainType
<1>5. MainAt(some, row) /\ Consumed(some, row) = Consumed(m, row)
  BY <1>2 DEF MainAt, Consumed
<1>6. row < total_iMCU_rows
  BY DEF MainAt
<1>7. MainAt(all, row + 1)
  <2>1. row + 1 >= 1 /\ row + 1 - 1 = row
    OBVIOUS
  <2>2. ~need_context_rows => all.rowgroup_ctr < M /\ all.rowgroup_ctr = 0
    BY <1>2, <1>3 DEF MainAt
  <2>3. need_context_rows =>
          /\ all.iMCU_row_ctr = row + 1 /\ all.whichptr = Turn(row)
          /\ all.context_state = "POSTPONED" =>
               /\ all.rowgroup_ctr = M + 1 /\ all.rowgroups_avail = M + 2 /\ row + 1 >= 2
          /\ all.context_state # "PROCESS"
    BY <1>2, <1>3 DEF MainAt
  <2> QED
    BY <1>3, <2>1, <2>2, <2>3 DEF MainAt
<1>8. Consumed(all, row + 1) = Consumed(m, row)
  <2>1. row + 1 - 1 = row /\ row * M \in Nat
    BY <1>1
  <2>2. CASE ~need_context_rows
    <3>1. Consumed(all, row + 1) = (row + 1 - 1) * M + 0
      BY <1>2, <1>3, <2>2 DEF Consumed, MainAt
    <3>2. Consumed(m, row) = row * M
      BY <2>2 DEF Consumed
    <3> QED
      BY ONLY <2>1, <3>1, <3>2
  <2>3. CASE need_context_rows /\ m.context_state = "POSTPONED"
    <3>1. Consumed(all, row + 1) = (row + 1 - 1) * M - 1
      BY <1>2, <1>3, <2>3 DEF Consumed
    <3>2. Consumed(m, row) = row * M - 1
      BY <2>3 DEF Consumed
    <3> QED
      BY ONLY <2>1, <3>1, <3>2
  <2>4. CASE need_context_rows /\ m.context_state = "PREPARE"
    <3>1. row = 0
      BY <2>4 DEF MainAt
    <3>2. Consumed(all, row + 1) = (row + 1 - 1) * M
      BY <1>2, <1>3, <2>4 DEF Consumed
    <3>3. Consumed(m, row) = 0 /\ 0 * M = 0
      BY <1>1, <2>4 DEF Consumed
    <3> QED
      BY ONLY <2>1, <3>1, <3>2, <3>3
  <2>5. m.context_state \in {"PREPARE", "POSTPONED"} \/ ~need_context_rows
    BY DEF MainAt, MainType
  <2> QED
    BY <2>2, <2>3, <2>4, <2>5
<1> QED
  BY <1>2, <1>3, <1>4, <1>5, <1>6, <1>7, <1>8 DEF some, all
-----------------------------------------------------------------------------
(* The input or the buffer went on, and a call with them, but no line was   *)
(* made.                                                                    *)
LEMMA MovedCount ==
  ASSUME CountInv, MapInv', UNCHANGED <<cfg, global_state, up, post, quant, shown, passes>>,
         InputInv', CoefType', OutputType', OnePassInv', MainType(main'),
         main'.crank = main.crank, output'.scanline = output.scanline,
         passes > 0 /\ ~main.crank /\ output.scanline < OutputHeight =>
           /\ MainAt(main', output'.row)
           /\ Consumed(main', output'.row) = Consumed(main, output.row),
         call' = call \/ call' = Return("none")
  PROVE  CountInv'
<1>1. /\ MapInv /\ StateInv /\ CallInv /\ ShownType /\ PassInv /\ UpType(up) /\ PostType(post)
  BY DEF CountInv
<1>2. OutputHeight' = OutputHeight /\ Supported' = Supported
  BY SizesKept, ModulesKept
<1>3. StateInv'
  BY <1>1, <1>2 DEF StateInv
<1>4. CallInv'
  <2>1. CASE call' = Return("none")
    <3>1. call'.op = "none"
      BY <1>1, <2>1 DEF Return, MapInv, CallType
    <3> QED
      BY <3>1 DEF CallInv
  <2>2. CASE call' = call
    BY <1>1, <1>2, <2>2 DEF CallInv
  <2> QED
    BY <2>1, <2>2
<1>5. ShownType'
  BY <1>1, ShownKept
<1>6. MainType(main)' /\ UpType(up)' /\ PostType(post)'
  BY <1>1, CountersKept
<1>7. PassInv'
  <2>1. passes' > 0 => /\ StripAt(post, output.scanline)' /\ main'.crank = (post'.mode = "CRANK_DEST")
                       /\ ~cfg'.raw /\ ~main'.crank => output'.scanline <= OutputHeight'
    BY <1>1, <1>2, CountersKept DEF PassInv
  <2>2. passes' > 0 /\ ~main'.crank /\ output'.scanline < OutputHeight' =>
          MainAt(main, output.row)' /\ UpAt(up, output.scanline, Consumed(main, output.row))'
    <3>1. passes > 0 /\ ~main.crank /\ output.scanline < OutputHeight =>
            UpAt(up, output.scanline, Consumed(main, output.row))
      BY <1>1 DEF PassInv
    <3>2. passes > 0 /\ ~main.crank /\ output.scanline < OutputHeight =>
            MainAt(main', output'.row) /\ UpAt(up, output.scanline, Consumed(main', output'.row))
      BY <3>1, Zenon
    <3> QED
      BY <1>2, <3>2, CountersKept
  <2> QED
    BY <2>1, <2>2 DEF PassInv
<1> QED
  BY <1>3, <1>4, <1>5, <1>6, <1>7 DEF CountInv

(* Lines are wanted: the pass is where its counters say.                    *)
LEMMA FillingIs ==
  ASSUME CountInv, Filling
  PROVE  /\ passes > 0 /\ global_state \in {"PRESCAN", "SCANNING"} /\ ~main.crank
         /\ output.scanline < OutputHeight /\ output.scanline \in Nat /\ ~main.buffer_full
         /\ MainAt(main, output.row) /\ UpAt(up, output.scanline, Consumed(main, output.row))
         /\ output.row \in Nat /\ output.row < total_iMCU_rows
         /\ post.mode # "CRANK_DEST"
<1>1. MapInv /\ StateInv /\ CallInv /\ PassInv /\ OutputType /\ cfg \in Configs
  BY DEF CountInv, MapInv
<1>2. call.op \in {"setup", "read"} /\ ~main.buffer_full /\ ~main.crank
  BY DEF Filling
<1>3. output.scanline < OutputHeight /\ global_state \in {"PRESCAN", "SCANNING"}
  <2>1. CASE call.op = "read"
    BY <1>1, <2>1 DEF CallInv
  <2>2. CASE call.op = "setup"
    BY <1>1, <2>2 DEF Filling, MapInv, Gathering
  <2> QED
    BY <1>2, <2>1, <2>2
<1>4. passes > 0
  BY <1>1, <1>3 DEF StateInv
<1>5. /\ MainAt(main, output.row) /\ UpAt(up, output.scanline, Consumed(main, output.row))
      /\ post.mode # "CRANK_DEST"
  BY <1>1, <1>2, <1>3, <1>4 DEF PassInv
<1>6. output.scanline \in Nat /\ output.row \in Nat
  BY <1>1, TotalIs DEF OutputType
<1>7. output.row < total_iMCU_rows
  BY <1>2, <1>5 DEF MainAt
<1> QED
  BY <1>2, <1>3, <1>4, <1>5, <1>6, <1>7

LEMMA FillCount == ASSUME CountInv, MapInv', FillBuffer PROVE CountInv'
<1>1. /\ Filling /\ ~CoefWaits /\ main' = Filled([main EXCEPT !.buf = Decompressed])
      /\ output' = [output EXCEPT !.row = @ + 1]
      /\ UNCHANGED <<cfg, global_state, call, input, coefs, coef_bits, up, post, quant, shown,
                     passes>>
  BY DEF FillBuffer
<1>2. /\ MapInv /\ cfg \in Configs /\ InputInv /\ CoefType /\ OutputType /\ MainType(main)
      /\ use_c_buffer
  BY <1>1 DEF CountInv, MapInv, CoefWaits
<1>3. /\ MainAt(main, output.row) /\ output.row \in Nat /\ output.row < total_iMCU_rows
      /\ ~main.buffer_full
  BY <1>1, FillingIs
<1>4. /\ MainType(main') /\ MainAt(main', output.row + 1) /\ main'.crank = main.crank
      /\ Consumed(main', output.row + 1) = Consumed(main, output.row)
  BY <1>1, <1>2, <1>3, FilledAt
<1>5. /\ DOMAIN output' = DOMAIN output /\ output'.row = output.row + 1
      /\ output'.scan = output.scan /\ output'.scanline = output.scanline
      /\ output'.smooth = output.smooth
  BY <1>1, <1>2 DEF OutputType
<1>6. use_c_buffer' = use_c_buffer /\ total_iMCU_rows' = total_iMCU_rows /\ M' = M /\ MaxV' = MaxV
  BY <1>1, ImageKept, SizesKept, ModulesKept
<1>7. total_iMCU_rows \in Nat
  BY <1>2, RowsIs
<1>8. OutputType'
  <2>1. output.row + 1 \in 0 .. total_iMCU_rows
    BY <1>3, <1>7
  <2> QED
    BY <1>1, <1>2, <1>5, <1>6, <2>1 DEF OutputType
<1>9. InputInv' /\ CoefType'
  BY <1>1, <1>2, InputKept, CoefKept
<1>10. OnePassInv'
  BY <1>2, <1>6 DEF OnePassInv
<1> QED
  BY <1>1, <1>4, <1>5, <1>8, <1>9, <1>10, MovedCount

LEMMA DecodeCount == ASSUME CountInv, MapInv', DecodeMCU PROVE CountInv'
<1>1. /\ Waiting /\ input.data /\ input' = AfterMCU
      /\ call' = IF call.op = "consume" /\ RowEnds THEN Return("none") ELSE call
      /\ UNCHANGED <<cfg, global_state, coef_bits, up, post, quant, shown, passes>>
  BY DEF DecodeMCU
<1>2. /\ MapInv /\ cfg \in Configs /\ InputInv /\ CoefType /\ OutputType /\ MainType(main)
      /\ OnePassInv
  BY DEF CountInv, MapInv
<1>3. /\ InputInv' /\ input'.scan = input.scan
      /\ RowEnds => input'.row = input.row + 1 /\ input'.vert = 0 /\ input'.mcu = 0
      /\ ~RowEnds => input'.row = input.row
  BY <1>1, AfterIs
<1>4. use_c_buffer' = use_c_buffer /\ total_iMCU_rows' = total_iMCU_rows /\ M' = M /\ MaxV' = MaxV
      /\ OutputHeight' = OutputHeight
  BY <1>1, ImageKept, SizesKept, ModulesKept
<1>5. call' = call \/ call' = Return("none")
  BY <1>1
<1>6. input.scan \in Nat /\ input.scan \in 0 .. input.scan
  BY <1>2 DEF InputInv
<1>7. CASE use_c_buffer
  <2>1. /\ coefs' = [c \in Comps |-> [b \in DOMAIN coefs[c] |->
                       IF b \in BlocksOf(c) THEN input.scan ELSE coefs[c][b]]]
        /\ main' = main /\ output' = output
    BY <1>7 DEF DecodeMCU
  <2>2. CoefType'
    <3>1. Comps' = Comps
      BY <1>1, ImageKept
    <3>2. DOMAIN coefs' = Comps
      BY <2>1
    <3>3. \A c \in Comps : \A b \in DOMAIN coefs'[c] : coefs'[c][b] \in 0 .. input.scan
      BY <1>2, <1>6, <2>1 DEF CoefType
    <3> QED
      BY <1>3, <3>1, <3>2, <3>3 DEF CoefType
  <2>3. OutputType' /\ OnePassInv'
    BY <1>1, <1>2, <1>4, <1>7, <2>1, OutputKept DEF OnePassInv
  <2>4. passes > 0 /\ ~main.crank /\ output.scanline < OutputHeight =>
          /\ MainAt(main', output'.row)
          /\ Consumed(main', output'.row) = Consumed(main, output.row)
    BY <2>1 DEF CountInv, PassInv
  <2> QED
    BY <1>1, <1>2, <1>3, <1>5, <2>1, <2>2, <2>3, <2>4, MovedCount
<1>8. CASE ~use_c_buffer
  <2>1. /\ Filling
        /\ main' = LET m == [main EXCEPT !.buf = OnePassMCU] IN IF RowEnds THEN Filled(m) ELSE m
        /\ output' = [output EXCEPT !.row = IF RowEnds THEN @ + 1 ELSE @]
        /\ coefs' = coefs
    BY <1>8 DEF DecodeMCU
  <2>2. /\ passes > 0 /\ global_state \in {"PRESCAN", "SCANNING"} /\ ~main.crank
        /\ output.scanline < OutputHeight /\ ~main.buffer_full
        /\ MainAt(main, output.row) /\ output.row \in Nat /\ output.row < total_iMCU_rows
    BY <2>1, FillingIs
  <2> DEFINE row2 == IF RowEnds THEN output.row + 1 ELSE output.row
  <2>3. /\ MainType(main') /\ MainAt(main', row2) /\ main'.crank = main.crank
        /\ Consumed(main', row2) = Consumed(main, output.row) /\ main'.buffer_full = RowEnds
    <3> DEFINE m == [main EXCEPT !.buf = OnePassMCU]
    <3>1. /\ MainType(m) /\ MainAt(m, output.row)
          /\ Consumed(m, output.row) = Consumed(main, output.row)
          /\ m.crank = main.crank /\ ~m.buffer_full
          /\ MainType(Filled(m)) /\ MainAt(Filled(m), output.row + 1)
          /\ Consumed(Filled(m), output.row + 1) = Consumed(main, output.row)
          /\ Filled(m).crank = main.crank /\ Filled(m).buffer_full
      BY <1>2, <2>2, FilledAt
    <3>2. main' = IF RowEnds THEN Filled(m) ELSE m
      BY <2>1
    <3> HIDE DEF m
    <3>3. RowEnds \in BOOLEAN
      BY DEF RowEnds
    <3>4. main'.buffer_full \in BOOLEAN
      BY <3>1, <3>2 DEF MainType
    <3>5. CASE RowEnds
      BY <3>1, <3>2, <3>4, <3>5
    <3>6. CASE ~RowEnds
      <4>1. main' = m /\ row2 = output.row
        BY <3>2, <3>6
      <4>2. main'.buffer_full = FALSE /\ RowEnds = FALSE
        BY <3>1, <3>3, <3>4, <3>6, <4>1
      <4> HIDE DEF row2
      <4> QED
        BY <3>1, <4>1, <4>2, Zenon
    <3> QED
      BY <3>5, <3>6
  <2>4. /\ DOMAIN output' = DOMAIN output /\ output'.row = row2
        /\ output'.scan = output.scan /\ output'.scanline = output.scanline
        /\ output'.smooth = output.smooth
    BY <1>2, <2>1 DEF OutputType
  <2>5. total_iMCU_rows \in Nat
    BY <1>2, RowsIs
  <2>6. OutputType'
    <3>1. row2 \in 0 .. total_iMCU_rows
      BY <2>2, <2>5
    <3> HIDE DEF row2
    <3> QED
      BY <1>1, <1>2, <1>4, <2>4, <3>1 DEF OutputType
  <2>7. CoefType'
    BY <1>1, <1>2, <1>3, <2>1, ImageKept DEF CoefType
  <2>8. input.scan = 1 /\ input.row = output.row
    BY <1>2, <1>8, <2>2 DEF OnePassInv
  <2>9. OnePassInv'
    <3>1. input'.scan = 1 /\ input'.row = row2
      BY <1>3, <2>8
    <3> QED
      BY <1>1, <1>3, <1>4, <2>2, <2>3, <2>4, <3>1 DEF OnePassInv
  <2> HIDE DEF row2
  <2> QED
    BY <1>1, <1>3, <1>5, <2>3, <2>4, <2>6, <2>7, <2>9, MovedCount
<1> QED
  BY <1>7, <1>8

(* In one pass the library waits for a marker only at the end.              *)
LEMMA OneScanIs ==
  ASSUME CountInv, ~use_c_buffer, Waiting, ~input.data
  PROVE  call.op = "finish" /\ global_state = "STOPPING" /\ ~cfg.buffered /\ ~Filling
<1>1. /\ MapInv /\ cfg \in Configs /\ InputInv /\ OnePassInv /\ StateInv /\ CallInv
  BY DEF CountInv, MapInv
<1>2. ~has_multiple_scans /\ ~cfg.buffered
  BY DEF use_c_buffer
<1>3. ~Filling
  <2> SUFFICES ASSUME Filling PROVE FALSE
    OBVIOUS
  <2>1. passes > 0 /\ ~main.crank /\ output.scanline < OutputHeight /\ output.row < total_iMCU_rows
    BY FillingIs
  <2>2. input.row = output.row
    BY <1>1, <2>1 DEF OnePassInv
  <2> QED
    BY <1>1, <2>1, <2>2 DEF InputInv
<1>4. call.op # "consume" /\ call.op # "finish_output"
  BY <1>1, <1>2 DEF CallInv, MapInv, Called, StateInv
<1>5. call.op = "finish"
  BY <1>2, <1>3, <1>4 DEF Waiting
<1> QED
  BY <1>1, <1>2, <1>3, <1>5 DEF MapInv, Called

LEMMA MarkersCount == ASSUME CountInv, MapInv', ConsumeMarkers PROVE CountInv'
<1>1. /\ Waiting /\ ~input.data
      /\ call' = IF call.op = "consume" THEN Return("none") ELSE call
      /\ UNCHANGED <<cfg, global_state, coefs, main, up, post, quant, shown, passes>>
  BY DEF ConsumeMarkers, pipe
<1>2. /\ MapInv /\ cfg \in Configs /\ InputInv /\ CoefType /\ OutputType /\ MainType(main)
      /\ OnePassInv /\ StateInv /\ PassInv
  BY DEF CountInv, MapInv
<1>3. use_c_buffer' = use_c_buffer /\ total_iMCU_rows' = total_iMCU_rows /\ M' = M /\ MaxV' = MaxV
      /\ OutputHeight' = OutputHeight /\ Comps' = Comps
  BY <1>1, ImageKept, SizesKept, ModulesKept
<1>4. call' = call \/ call' = Return("none")
  BY <1>1
<1>5. ~use_c_buffer => global_state = "STOPPING" /\ ~cfg.buffered
  BY <1>1, OneScanIs
<1>6. /\ input \in [scan : 1 .. Len(cfg.scans), row : 0 .. total_iMCU_rows, vert : Nat,
                    mcu : Nat, data : BOOLEAN, eoi : BOOLEAN]
      /\ input.row = total_iMCU_rows /\ input.vert = 0 /\ input.mcu = 0
      /\ total_iMCU_rows \in Nat \ {0} /\ Len(cfg.scans) \in Nat
  <2>1. total_iMCU_rows \in Nat \ {0} /\ Len(cfg.scans) \in Nat
    BY <1>2, RowsIs, ImageIs DEF IsImage
  <2> QED
    BY <1>1, <1>2, <2>1 DEF InputInv
<1>7. /\ output'.row = output.row /\ output'.scanline = output.scanline
      /\ DOMAIN output' = DOMAIN output /\ output'.smooth = output.smooth
      /\ output'.scan \in 0 .. Len(cfg.scans) + 1
  <2>1. output' = output \/ output' = [output EXCEPT !.scan = ClampedScan(@)]
    BY DEF ConsumeMarkers
  <2>2. DOMAIN output = {"scan", "row", "scanline", "smooth"} /\ output.scan \in 0 .. Len(cfg.scans) + 1
    BY <1>2 DEF OutputType
  <2>3. ClampedScan(output.scan) \in 0 .. Len(cfg.scans) + 1
    BY <1>6, <2>2 DEF ClampedScan, Least
  <2> QED
    BY <2>1, <2>2, <2>3
<1>8. OutputType'
  BY <1>1, <1>2, <1>3, <1>7 DEF OutputType
<1>9. InputInv' /\ input'.scan >= input.scan
  <2>1. CASE input.eoi
    <3>1. input' = input
      BY <2>1 DEF ConsumeMarkers
    <3> QED
      BY <1>1, <1>2, <1>6, <3>1, InputKept
  <2>2. CASE ~input.eoi /\ input.scan < Len(cfg.scans)
    <3>1. input' = [input EXCEPT !.scan = @ + 1, !.row = 0, !.vert = 0, !.mcu = 0, !.data = TRUE]
      BY <2>2 DEF ConsumeMarkers
    <3>2. input' = [scan |-> input.scan + 1, row |-> 0, vert |-> 0, mcu |-> 0,
                    data |-> TRUE, eoi |-> input.eoi]
      BY <1>6, <3>1
    <3>3. input.scan + 1 \in 1 .. Len(cfg.scans) /\ 0 \in 0 .. total_iMCU_rows /\ 0 \in Nat
          /\ input.eoi \in BOOLEAN
      BY <1>6, <2>2
    <3>4. input' \in [scan : 1 .. Len(cfg.scans), row : 0 .. total_iMCU_rows, vert : Nat,
                      mcu : Nat, data : BOOLEAN, eoi : BOOLEAN]
      BY <3>2, <3>3
    <3>5. MCU_rows_per_iMCU_row' \in Nat \ {0} /\ MCUs_per_row' \in Nat \ {0}
      BY <1>1, <1>2, <3>4, RowsPerIs
    <3>6. input'.vert = 0 /\ input'.mcu = 0 /\ input'.data = TRUE /\ input'.row = 0
          /\ ~input'.eoi /\ input'.scan = input.scan + 1
      BY <2>2, <3>2
    <3>7. 0 < total_iMCU_rows /\ 0 < MCU_rows_per_iMCU_row' /\ 0 < MCUs_per_row'
      BY <1>6, <3>5
    <3>8. InputInv'
      BY <1>1, <1>3, <3>4, <3>6, <3>7 DEF InputInv
    <3> QED
      BY <1>6, <3>6, <3>8
  <2>3. CASE ~input.eoi /\ ~(input.scan < Len(cfg.scans))
    <3>1. input' = [input EXCEPT !.eoi = TRUE]
      BY <2>3 DEF ConsumeMarkers
    <3>2. input' = [scan |-> input.scan, row |-> input.row, vert |-> input.vert,
                    mcu |-> input.mcu, data |-> input.data, eoi |-> TRUE]
      BY <1>6, <3>1
    <3>3. input' \in [scan : 1 .. Len(cfg.scans), row : 0 .. total_iMCU_rows, vert : Nat,
                      mcu : Nat, data : BOOLEAN, eoi : BOOLEAN]
      BY <1>6, <3>2
    <3>4. MCU_rows_per_iMCU_row' \in Nat \ {0} /\ MCUs_per_row' \in Nat \ {0}
      BY <1>1, <1>2, <3>3, RowsPerIs
    <3>5. input'.vert = 0 /\ input'.mcu = 0 /\ input'.data = FALSE /\ input'.row = total_iMCU_rows
          /\ input'.scan = input.scan
      BY <1>1, <1>6, <3>2
    <3>6. 0 < MCU_rows_per_iMCU_row' /\ 0 < MCUs_per_row' /\ input.scan = Len(cfg.scans)
          /\ ~(total_iMCU_rows < total_iMCU_rows)
      BY <1>6, <2>3, <3>4
    <3>7. InputInv'
      BY <1>1, <1>3, <3>3, <3>5, <3>6 DEF InputInv
    <3> QED
      BY <1>6, <3>5, <3>7
  <2> QED
    BY <2>1, <2>2, <2>3
<1>10. CoefType'
  <2>1. \A x \in 0 .. input.scan : x \in 0 .. input'.scan
    BY <1>1, <1>6, <1>9 DEF InputInv
  <2> QED
    BY <1>1, <1>2, <1>3, <2>1 DEF CoefType
<1>11. OnePassInv'
  <2>1. ~use_c_buffer => ~(passes > 0 /\ ~main.crank /\ output.scanline < OutputHeight)
    <3>1. output.scanline \in Nat /\ OutputHeight \in Nat
      BY <1>2, TotalIs DEF OutputType
    <3> QED
      BY <1>2, <1>5, <3>1 DEF StateInv
  <2> QED
    BY <1>1, <1>3, <1>5, <1>7, <2>1 DEF OnePassInv
<1>12. passes > 0 /\ ~main.crank /\ output.scanline < OutputHeight =>
         /\ MainAt(main', output'.row)
         /\ Consumed(main', output'.row) = Consumed(main, output.row)
  BY <1>1, <1>2, <1>7 DEF PassInv
<1> QED
  BY <1>1, <1>2, <1>4, <1>7, <1>8, <1>9, <1>10, <1>11, <1>12, MovedCount
-----------------------------------------------------------------------------
(* The image is no further than it was: what the pass and the call are      *)
(* changed at most.                                                         *)
LEMMA IdleCount ==
  ASSUME CountInv, MapInv', cfg' = cfg,
         UNCHANGED <<input, coefs, output, main, up, post, passes, shown>>,
         global_state' \in {"READY", "PRELOAD"} => global_state \in {"READY", "PRELOAD"},
         StateInv', CallInv'
  PROVE  CountInv'
BY PipeKept, ShownKept DEF CountInv

LEMMA QuietCall ==
  ASSUME CountInv, call' = Return("none") \/ call' = Return("preload")
                   \/ call' = Return("finish_output") \/ call' = Return("finish")
  PROVE  CallInv'
<1>1. call'.op \in {"none", "preload", "finish_output", "finish"}
  BY DEF CountInv, MapInv, CallType, Return
<1> QED
  BY <1>1 DEF CallInv

LEMMA SetupCall ==
  ASSUME CountInv, call' = Return("setup"), global_state' \in {"PRESCAN", "ERROR"}
  PROVE  CallInv'
<1>1. call'.op = "setup"
  BY DEF CountInv, MapInv, CallType, Return
<1> QED
  BY <1>1 DEF CallInv

LEMMA SourceIdleCount ==
  ASSUME CountInv, MapInv', Suspend \/ ConsumeInput \/ CallAgain PROVE CountInv'
<1>1. /\ UNCHANGED <<cfg, global_state, input, coefs, output, main, up, post, quant, shown,
                     passes>>
      /\ call.op = "none" \/ Waiting
  BY DEF Suspend, ConsumeInput, CallAgain, pipe
<1>2. StateInv'
  <2>1. OutputHeight' = OutputHeight /\ Supported' = Supported
    BY <1>1, SizesKept, ModulesKept
  <2> QED
    BY <1>1, <2>1 DEF CountInv, StateInv
<1>3. CallInv'
  <2>1. CASE Suspend
    BY <2>1, QuietCall DEF Suspend
  <2>2. CASE ConsumeInput
    <3>1. call'.op = "consume" /\ cfg'.buffered
      BY <1>1, <2>2 DEF ConsumeInput, CountInv, MapInv, CallType, Return
    <3> QED
      BY <3>1 DEF CallInv
  <2>3. CASE CallAgain
    <3>1. CASE call' = Return("setup") /\ global_state = "PRESCAN"
      BY <1>1, <3>1, SetupCall
    <3>2. CASE call' = Return("preload") \/ call' = Return("finish_output")
               \/ call' = Return("finish")
      BY <3>2, QuietCall
    <3> QED
      BY <2>3, <3>1, <3>2 DEF CallAgain
  <2> QED
    BY <2>1, <2>2, <2>3
<1> QED
  BY <1>1, <1>2, <1>3, IdleCount

(* The calls that end a pass, or the decompression.                         *)
LEMMA EndingCount ==
  ASSUME CountInv, MapInv',
         FinishOutput \/ OutputFinished \/ FinishDecompress \/ Finished \/ SetupDone
  PROVE  CountInv'
<1>1. /\ UNCHANGED <<cfg, input, coefs, output, main, up, post, quant, shown, passes>>
      /\ global_state' \notin {"READY", "PRELOAD"}
  BY DEF FinishOutput, OutputFinished, FinishDecompress, Finished, SetupDone, pipe
<1>2. /\ StateInv /\ MapInv /\ OutputType /\ cfg \in Configs
  BY DEF CountInv, MapInv
<1>3. OutputHeight' = OutputHeight /\ Supported' = Supported
  BY <1>1, SizesKept, ModulesKept
<1>4. call.op = "finish_output" => global_state = "BUFPOST"
  BY <1>2 DEF MapInv, Called
<1>5. call.op = "finish" => global_state = "STOPPING"
  BY <1>2 DEF MapInv, Called
<1>6. StateInv'
  <2>1. CASE FinishOutput
    BY <1>1, <1>2, <1>3, <2>1 DEF FinishOutput, StateInv, States
  <2>2. CASE OutputFinished
    BY <1>1, <1>2, <1>3, <1>4, <2>2 DEF OutputFinished, StateInv, States
  <2>3. CASE FinishDecompress
    BY <1>1, <1>2, <1>3, <2>3 DEF FinishDecompress, StateInv, States
  <2>4. CASE Finished
    BY <1>1, <1>2, <1>3, <1>5, <2>4 DEF Finished, StateInv, States
  <2>5. CASE SetupDone
    BY <1>1, <1>2, <1>3, <2>5 DEF SetupDone, StateInv, States
  <2> QED
    BY <2>1, <2>2, <2>3, <2>4, <2>5
<1>7. CallInv'
  <2>1. call' = Return("none") \/ call' = Return("finish_output") \/ call' = Return("finish")
    BY DEF FinishOutput, OutputFinished, FinishDecompress, Finished, SetupDone
  <2> QED
    BY <2>1, QuietCall
<1> QED
  BY <1>1, <1>6, <1>7, IdleCount

(* A color map is changed, or the decompression starts.                     *)
LEMMA MapCount ==
  ASSUME CountInv, MapInv', (\E two \in BOOLEAN : Requantize(two)) \/ jpeg_new_colormap
  PROVE  CountInv'
<1>1. /\ UNCHANGED <<cfg, global_state, call, input, coefs, output, main, up, post, shown, passes>>
      /\ global_state = "BUFIMAGE"
  BY DEF Requantize, jpeg_new_colormap, pipe
<1>2. OutputHeight' = OutputHeight /\ Supported' = Supported
  BY <1>1, SizesKept, ModulesKept
<1>3. StateInv' /\ CallInv'
  BY <1>1, <1>2 DEF CountInv, StateInv, CallInv
<1> QED
  BY <1>1, <1>3, IdleCount

LEMMA StartCount == ASSUME CountInv, MapInv', StartDecompress PROVE CountInv'
<1>1. /\ UNCHANGED <<cfg, input, coefs, output, main, up, post, shown, passes>>
      /\ call.op = "none" /\ global_state = "READY"
  BY DEF StartDecompress, pipe
<1>2. StateInv /\ MapInv
  BY DEF CountInv
<1>3. OutputHeight' = OutputHeight /\ Supported' = Supported
  BY <1>1, SizesKept, ModulesKept
<1>4. CASE ~Supported
  <2>1. global_state' = "ERROR" /\ call' = call
    BY <1>4 DEF StartDecompress
  <2>2. StateInv' /\ CallInv'
    BY <1>1, <1>2, <1>3, <2>1 DEF StateInv, States, CallInv
  <2> QED
    BY <1>1, <2>1, <2>2, IdleCount
<1>5. CASE Supported
  <2>1. /\ global_state' = (IF cfg.buffered THEN "BUFIMAGE" ELSE "PRELOAD")
        /\ call' = Return(IF cfg.buffered THEN "none" ELSE "preload")
    BY <1>5 DEF StartDecompress
  <2>2. StateInv'
    BY <1>1, <1>2, <1>3, <1>5, <2>1 DEF StateInv, States
  <2>3. CallInv'
    BY <2>1, QuietCall
  <2> QED
    BY <1>1, <2>1, <2>2, <2>3, IdleCount
<1> QED
  BY <1>4, <1>5

LEMMA ReadCount ==
  ASSUME CountInv, MapInv', NEW n \in LinesAsked, ReadScanlines(n) PROVE CountInv'
<1>1. /\ call.op = "none" /\ global_state = "SCANNING" /\ output.scanline < OutputHeight
      /\ call' = [op |-> "read", max |-> n]
      /\ shown' = [from |-> output.scanline, rows |-> <<>>]
      /\ UNCHANGED <<cfg, global_state, input, coefs, output, main, up, post, quant, passes>>
  BY DEF ReadScanlines, pipe
<1>2. StateInv /\ MapInv /\ OutputType /\ cfg \in Configs
  BY DEF CountInv, MapInv
<1>3. OutputHeight' = OutputHeight /\ Supported' = Supported
  BY <1>1, SizesKept, ModulesKept
<1>4. output.scanline \in Nat /\ n \in Nat \ {0} /\ n \in LinesAsked
  BY <1>2, TotalIs, SizesAssumption DEF OutputType
<1>5. ShownType'
  BY <1>1, <1>4, EmptyIs DEF ShownType
<1>6. StateInv'
  BY <1>1, <1>2, <1>3 DEF StateInv
<1>7. CallInv'
  <2>1. Len(shown'.rows) = 0 /\ shown'.from = output.scanline
    BY <1>1, EmptyIs
  <2> QED
    BY <1>1, <1>3, <1>4, <2>1 DEF CallInv
<1> QED
  BY <1>1, <1>5, <1>6, <1>7, PipeKept DEF CountInv
-----------------------------------------------------------------------------
(* A pass starts.                                                           *)
LEMMA NewPassCount ==
  ASSUME CountInv, MapInv', NEW scan \in 0 .. Len(cfg.scans) + 1, PreparePass(scan),
         UNCHANGED <<cfg, input, coefs, shown>>, passes < MaxPasses,
         global_state \in {"PRELOAD", "BUFIMAGE"},
         call' = Return("setup") \/ (global_state' = "ERROR" /\ call' = Return("none"))
  PROVE  CountInv'
<1>1. /\ MapInv /\ InputInv /\ CoefType /\ StateInv /\ ShownType /\ OutputType /\ MainType(main)
      /\ UpType(up) /\ PostType(post) /\ PassInv /\ OnePassInv /\ cfg \in Configs /\ Supported
  BY DEF CountInv, MapInv, StateInv
<1>2. OutputHeight' = OutputHeight /\ total_iMCU_rows' = total_iMCU_rows /\ M' = M /\ MaxV' = MaxV
      /\ use_c_buffer' = use_c_buffer /\ Supported' = Supported /\ strip_height' = strip_height
  BY ImageKept, SizesKept, ModulesKept
<1>3. /\ M \in Nat \ {0} /\ MaxV \in Nat \ {0} /\ total_iMCU_rows \in Nat \ {0}
      /\ OutputHeight \in Nat \ {0} /\ total_iMCU_rows * (M * MaxV) \in Nat
  <2>1. /\ M \in Nat \ {0} /\ MaxV \in 1 .. 4 /\ total_iMCU_rows \in Nat \ {0}
        /\ OutputHeight \in Nat \ {0} /\ total_iMCU_rows * (M * MaxV) \in Nat
    BY <1>1, ImageIs, RowsIs, TotalIs
  <2> QED
    BY <2>1
<1> DEFINE dummy == Chooses /\ Active = "2pass"
<1>4. CASE Chooses /\ Active = "1pass" /\ ~enable_1pass
  <2>1. global_state' = "ERROR" /\ UNCHANGED <<quant, post, main, output, up, passes>>
    BY <1>4 DEF PreparePass
  <2>2. StateInv'
    BY <1>1, <1>2, <2>1 DEF StateInv, States
  <2>3. CallInv'
    BY <2>1, SetupCall, QuietCall
  <2> QED
    BY <2>1, <2>2, <2>3, IdleCount
<1>5. CASE ~(Chooses /\ Active = "1pass" /\ ~enable_1pass)
  <2>1. /\ quant' = [quant EXCEPT !.dummy = dummy, !.active = NewActive, !.changed = FALSE,
                                  !.colormap = IF Chooses /\ ~dummy THEN "uniform" ELSE @]
        /\ post' = [post EXCEPT !.mode = IF dummy THEN "SAVE_AND_PASS" ELSE "PASS_THRU",
                                !.starting_row = 0, !.next_row = 0]
        /\ main' = StartMain(main) /\ up' = NewUp
        /\ output' = [scan |-> scan, row |-> 0, scanline |-> 0,
                      smooth |-> use_c_buffer /\ cfg.smoothing /\ smoothing_ok]
        /\ global_state' = "PRESCAN" /\ passes' = passes + 1
    BY <1>5 DEF PreparePass
  <2>2. quant'.dummy = dummy
    BY <1>1, <2>1 DEF MapInv, QuantType
  <2>3. /\ DOMAIN post' = DOMAIN post /\ post'.starting_row = 0 /\ post'.next_row = 0
        /\ post'.whole = post.whole
        /\ post'.mode = IF dummy THEN "SAVE_AND_PASS" ELSE "PASS_THRU"
    BY <1>1, <2>1 DEF PostType
  <2>4. /\ DOMAIN main' = DOMAIN main /\ main'.whichptr = 1 /\ main'.buffer_full = FALSE
        /\ main'.context_state = "PREPARE" /\ main'.rowgroup_ctr = 0 /\ main'.iMCU_row_ctr = 0
        /\ main'.crank = FALSE
    BY <1>1, <2>1 DEF StartMain, MainType
  <2>5. /\ DOMAIN up' = {"next_row_out", "rows_to_go", "color", "spare"}
        /\ up'.next_row_out = MaxV /\ up'.rows_to_go = OutputHeight /\ up'.spare = <<>>
    BY <2>1 DEF NewUp
  <2>6. dummy => enable_2pass /\ ~cfg.raw
    BY <1>1 DEF Active, Chooses, Supported
  <2> HIDE DEF dummy
  <2>7. InputInv' /\ CoefType' /\ ShownType'
    BY <1>1, InputKept, CoefKept, ShownKept
  <2>8. StateInv'
    <3>1. passes + 1 \in 0 .. MaxPasses /\ passes + 1 > 0
      BY <1>1, SizesAssumption DEF StateInv
    <3>2. quant'.dummy = (post'.mode = "SAVE_AND_PASS")
      <4>1. dummy \in BOOLEAN
        BY DEF dummy
      <4> QED
        BY <2>2, <2>3, <4>1
    <3> QED
      BY <1>1, <1>2, <2>1, <3>1, <3>2 DEF StateInv, States
  <2>9. CallInv'
    BY <2>1, SetupCall
  <2>10. OnePassInv'
    <3>1. ~use_c_buffer => ~cfg.buffered
      BY DEF use_c_buffer
    <3>2. ~use_c_buffer => global_state = "PRELOAD"
      BY <1>1, <3>1 DEF StateInv
    <3>3. ~use_c_buffer => input.scan = 1 /\ input.row = 0
      BY <1>1, <3>2 DEF OnePassInv
    <3> QED
      BY <1>2, <2>1, <2>4, <3>3 DEF OnePassInv
  <2>11. OutputType'
    <3>1. output'.smooth \in BOOLEAN
      <4>1. cfg.smoothing \in BOOLEAN
        BY <1>1, ImageIs DEF IsImage
      <4>2. output'.smooth = (use_c_buffer /\ cfg.smoothing /\ smoothing_ok)
        BY <2>1
      <4> QED
        BY <4>2
    <3>2. output'.smooth => use_c_buffer
      BY <2>1
    <3>3. /\ DOMAIN output' = {"scan", "row", "scanline", "smooth"} /\ output'.scan = scan
          /\ output'.row = 0 /\ output'.scanline = 0
      BY <2>1
    <3>4. 0 \in 0 .. total_iMCU_rows /\ 0 \in 0 .. total_iMCU_rows * (M * MaxV)
      BY <1>3
    <3>5. 0 \in 0 .. total_iMCU_rows' /\ 0 \in 0 .. total_iMCU_rows' * (M' * MaxV')
      BY <1>2, <3>4, Zenon
    <3> QED
      BY <1>2, <3>1, <3>2, <3>3, <3>5, Zenon DEF OutputType
  <2>12. MainType(main')
    <3>1. 0 \in 0 .. M + 2 /\ 1 \in 1 .. 2
      BY <1>3
    <3>2. DOMAIN main = {"buf", "xbuffer", "whichptr", "buffer_full", "context_state",
                         "rowgroup_ctr", "rowgroups_avail", "iMCU_row_ctr", "crank"}
      BY <1>1 DEF MainType
    <3>3. main'.buffer_full \in BOOLEAN /\ main'.crank \in BOOLEAN
      BY <2>4
    <3> QED
      BY <2>4, <3>1, <3>2, <3>3, Zenon DEF MainType
  <2>13. UpType(up')
    BY <1>3, <2>5 DEF UpType
  <2>14. PostType(post')
    <3>1. 0 \in 0 .. OutputHeight + strip_height
      BY <1>3 DEF strip_height
    <3> QED
      BY <1>1, <2>3, <3>1 DEF PostType
  <2>15. MainAt(main', 0)
    BY <1>3, <2>4 DEF MainAt, Turn
  <2>16. Consumed(main', 0) = 0
    <3>1. 0 * M = 0
      BY <1>3
    <3> QED
      BY <2>4, <3>1 DEF Consumed
  <2>17. UpAt(up', 0, 0)
    <3>1. 0 = 0 * MaxV + Made(up')
      BY <1>3, <2>5 DEF Made
    <3> QED
      BY <1>3, <2>5, <3>1 DEF UpAt
  <2>18. StripAt(post', 0)
    <3>1. strip_height \in Nat \ {0} /\ 0 * strip_height = 0
      BY <1>3 DEF strip_height
    <3>2. 0 \in 0 .. OutputHeight
      BY <1>3
    <3>3. post'.mode # "PASS_THRU" => enable_2pass /\ ~cfg.raw
      BY <2>3, <2>6
    <3>4. \E k \in 0 .. OutputHeight : post'.starting_row = k * strip_height
      BY <2>3, <3>1, <3>2
    <3> QED
      BY <2>3, <3>1, <3>3, <3>4 DEF StripAt
  <2>19. MainType(main)' /\ UpType(up)' /\ PostType(post)'
    BY <2>12, <2>13, <2>14, CountersKept
  <2>20. PassInv'
    <3>1. output'.scanline = 0 /\ output'.row = 0
      BY <2>1
    <3>2. StripAt(post, output.scanline)'
      BY <2>18, <3>1, CountersKept
    <3>3. main'.crank = (post'.mode = "CRANK_DEST")
      BY <2>3, <2>4
    <3>4. MainAt(main, output.row)' /\ UpAt(up, output.scanline, Consumed(main, output.row))'
      BY <2>15, <2>16, <2>17, <3>1, CountersKept
    <3> QED
      BY <1>2, <1>3, <3>1, <3>2, <3>3, <3>4 DEF PassInv
  <2> QED
    BY <2>7, <2>8, <2>9, <2>10, <2>11, <2>19, <2>20 DEF CountInv
<1> QED
  BY <1>4, <1>5

LEMMA PreloadedCount == ASSUME CountInv, MapInv', Preloaded PROVE CountInv'
<1>1. /\ call.op = "preload" /\ PreparePass(input.scan) /\ call' = Return("setup")
      /\ UNCHANGED <<cfg, input, coefs, shown>>
  BY DEF Preloaded
<1>2. global_state = "PRELOAD" /\ passes = 0
  BY <1>1 DEF CountInv, MapInv, Called, StateInv
<1>3. input.scan \in 0 .. Len(cfg.scans) + 1
  <2>1. cfg \in Configs /\ input.scan \in 1 .. Len(cfg.scans)
    BY DEF CountInv, MapInv, InputInv
  <2>2. Len(cfg.scans) \in Nat
    BY <2>1, ImageIs DEF IsImage
  <2> QED
    BY <2>1, <2>2
<1>4. passes < MaxPasses
  BY <1>2, SizesAssumption
<1> QED
  BY <1>1, <1>2, <1>3, <1>4, NewPassCount

LEMMA StartOutputCount ==
  ASSUME CountInv, MapInv', NEW n \in 0 .. Len(cfg.scans) + 1, StartOutput(n) PROVE CountInv'
<1> DEFINE scan == IF input.eoi THEN ClampedScan(Max({1, n})) ELSE Max({1, n})
<1>1. /\ global_state = "BUFIMAGE" /\ passes < MaxPasses /\ PreparePass(scan)
      /\ call' = Return(IF global_state' = "ERROR" THEN "none" ELSE "setup")
      /\ UNCHANGED <<cfg, input, coefs, shown>>
  BY DEF StartOutput
<1>2. scan \in 0 .. Len(cfg.scans) + 1
  <2>1. cfg \in Configs /\ input.scan \in 1 .. Len(cfg.scans)
    BY DEF CountInv, MapInv, InputInv
  <2>2. Len(cfg.scans) \in Nat \ {0}
    BY <2>1, ImageIs DEF IsImage
  <2>3. Max({1, n}) = IF n > 1 THEN n ELSE 1
    <3>1. n \in Nat
      BY <2>2
    <3> QED
      BY <3>1 DEF Max
  <2> QED
    BY <2>1, <2>2, <2>3 DEF ClampedScan, Least
<1> HIDE DEF scan
<1> QED
  BY <1>1, <1>2, NewPassCount

LEMMA DummyCount == ASSUME CountInv, MapInv', EndDummyPass PROVE CountInv'
<1>1. /\ call.op = "setup" /\ global_state = "PRESCAN"
      /\ quant.dummy /\ output.scanline >= OutputHeight
      /\ quant' = [quant EXCEPT !.dummy = FALSE, !.colormap = "chosen"]
      /\ post' = [post EXCEPT !.mode = "CRANK_DEST", !.starting_row = 0, !.next_row = 0]
      /\ main' = [main EXCEPT !.crank = TRUE]
      /\ output' = [output EXCEPT !.scanline = 0]
      /\ UNCHANGED <<cfg, global_state, call, input, coefs, coef_bits, up, shown, passes>>
  BY DEF EndDummyPass
<1>2. /\ MapInv /\ InputInv /\ CoefType /\ StateInv /\ CallInv /\ ShownType /\ OnePassInv
      /\ OutputType /\ MainType(main) /\ UpType(up) /\ PostType(post) /\ PassInv
      /\ cfg \in Configs
  BY DEF CountInv, MapInv
<1>3. OutputHeight' = OutputHeight /\ total_iMCU_rows' = total_iMCU_rows /\ M' = M /\ MaxV' = MaxV
      /\ use_c_buffer' = use_c_buffer /\ Supported' = Supported
  BY <1>1, ImageKept, SizesKept, ModulesKept
<1>4. /\ OutputHeight \in Nat \ {0} /\ total_iMCU_rows * (M * MaxV) \in Nat
      /\ strip_height \in Nat \ {0}
  <2>1. strip_height \in 1 .. 4
    BY <1>2, ImageIs DEF strip_height
  <2> QED
    BY <1>2, <2>1, RowsIs, TotalIs
<1>5. passes > 0 /\ post.mode = "SAVE_AND_PASS" /\ enable_2pass /\ ~cfg.raw
  BY <1>1, <1>2 DEF StateInv, PassInv, StripAt
<1>6. /\ DOMAIN post' = DOMAIN post /\ post'.starting_row = 0 /\ post'.next_row = 0
      /\ post'.whole = post.whole /\ post'.mode = "CRANK_DEST"
  BY <1>1, <1>2 DEF PostType
<1>7. /\ DOMAIN main' = DOMAIN main /\ main'.whichptr = main.whichptr
      /\ main'.buffer_full = main.buffer_full /\ main'.context_state = main.context_state
      /\ main'.rowgroup_ctr = main.rowgroup_ctr /\ main'.crank = TRUE
  BY <1>1, <1>2 DEF MainType
<1>8. /\ DOMAIN output' = DOMAIN output /\ output'.scanline = 0 /\ output'.scan = output.scan
      /\ output'.row = output.row /\ output'.smooth = output.smooth
  BY <1>1, <1>2 DEF OutputType
<1>9. quant'.dummy = FALSE
  BY <1>1, <1>2 DEF MapInv, QuantType
<1>10. InputInv' /\ CoefType' /\ ShownType'
  BY <1>1, <1>2, InputKept, CoefKept, ShownKept
<1>11. StateInv'
  BY <1>1, <1>2, <1>3, <1>6, <1>7, <1>9 DEF StateInv
<1>12. CallInv'
  BY <1>1, <1>2 DEF CallInv
<1>13. OutputType'
  <2>1. 0 \in 0 .. total_iMCU_rows * (M * MaxV)
    BY <1>4
  <2>2. output'.scanline \in 0 .. total_iMCU_rows' * (M' * MaxV')
    BY <1>3, <1>8, <2>1, Zenon
  <2>3. /\ DOMAIN output' = {"scan", "row", "scanline", "smooth"} /\ cfg' = cfg
        /\ output'.scan \in 0 .. Len(cfg'.scans) + 1 /\ output'.smooth \in BOOLEAN
        /\ output'.row \in 0 .. total_iMCU_rows' /\ (output'.smooth => use_c_buffer')
    BY <1>1, <1>2, <1>3, <1>8, Zenon DEF OutputType
  <2> QED
    BY <2>2, <2>3, Zenon DEF OutputType
<1>14. OnePassInv'
  BY <1>1, <1>3, <1>7 DEF OnePassInv
<1>15. MainType(main') /\ PostType(post')
  <2>1. MainType(main')
    BY <1>2, <1>7 DEF MainType
  <2>2. 0 \in 0 .. OutputHeight + strip_height
    BY <1>4
  <2> QED
    BY <1>2, <1>6, <2>1, <2>2 DEF PostType
<1>16. StripAt(post', 0)
  <2>1. 0 * strip_height = 0 /\ 0 \in 0 .. OutputHeight /\ 0 \in 0 .. strip_height - 1
    BY <1>4
  <2>2. \E k \in 0 .. OutputHeight : post'.starting_row = k * strip_height
    BY <1>6, <2>1
  <2> QED
    BY <1>5, <1>6, <2>1, <2>2 DEF StripAt
<1>17. MainType(main)' /\ UpType(up)' /\ PostType(post)'
  BY <1>1, <1>2, <1>15, CountersKept
<1>18. PassInv'
  <2>1. StripAt(post, output.scanline)'
    BY <1>1, <1>8, <1>16, CountersKept
  <2> QED
    BY <1>6, <1>7, <2>1 DEF PassInv
<1> QED
  BY <1>10, <1>11, <1>12, <1>13, <1>14, <1>17, <1>18 DEF CountInv
-----------------------------------------------------------------------------
LEMMA InitCount == Init => CountInv
<1> SUFFICES ASSUME Init PROVE CountInv
  OBVIOUS
<1>1. MapInv /\ cfg \in Configs
  BY InitMap DEF MapInv
<1>2. /\ global_state = "READY" /\ call = [op |-> "none", max |-> 0]
      /\ input = [scan |-> 1, row |-> 0, vert |-> 0, mcu |-> 0, data |-> TRUE, eoi |-> FALSE]
      /\ coefs = [c \in Comps |-> [b \in (0 .. total_iMCU_rows * v(c) - 1) \X
                                     (0 .. Ceil(width_in_blocks(c), h(c)) * h(c) - 1) |-> 0]]
      /\ output = [scan |-> 0, row |-> 0, scanline |-> 0, smooth |-> FALSE]
      /\ main = NewMain /\ up = NewUp
      /\ post = [mode |-> "PASS_THRU", starting_row |-> 0, next_row |-> 0, whole |-> NewWhole]
      /\ shown = [from |-> 0, rows |-> <<>>]
      /\ passes = 0
  BY DEF Init
<1>3. /\ M \in Nat \ {0} /\ MaxV \in Nat \ {0} /\ total_iMCU_rows \in Nat \ {0}
      /\ OutputHeight \in Nat \ {0} /\ total_iMCU_rows * (M * MaxV) \in Nat
      /\ Len(cfg.scans) \in Nat \ {0}
  <2>1. /\ M \in Nat \ {0} /\ MaxV \in 1 .. 4 /\ total_iMCU_rows \in Nat \ {0}
        /\ OutputHeight \in Nat \ {0} /\ total_iMCU_rows * (M * MaxV) \in Nat
    BY <1>1, ImageIs, RowsIs, TotalIs
  <2> QED
    BY <1>1, <2>1, ImageIs DEF IsImage
<1>4. InputInv
  <2>1. 1 \in 1 .. Len(cfg.scans) /\ 0 \in 0 .. total_iMCU_rows /\ 0 \in Nat /\ 0 < total_iMCU_rows
    BY <1>3
  <2>2. input \in [scan : 1 .. Len(cfg.scans), row : 0 .. total_iMCU_rows, vert : Nat,
                   mcu : Nat, data : BOOLEAN, eoi : BOOLEAN]
    BY <1>2, <2>1
  <2>3. /\ v(cfg.scans[1].comps[1]) \in Nat \ {0}
        /\ last_block_rows(cfg.scans[1].comps[1]) \in Nat \ {0}
        /\ width_in_blocks(cfg.scans[1].comps[1]) \in Nat \ {0}
        /\ Ceil(cfg.width, MaxH * DCTSIZE) \in Nat \ {0}
    BY <1>1, <2>1, ScanIs, ImageIs, ComponentIs
  <2>4. Scan = cfg.scans[1]
    BY <1>2 DEF Scan
  <2>5. MCU_rows_per_iMCU_row > 0 /\ MCUs_per_row > 0
    BY <2>3, <2>4 DEF MCU_rows_per_iMCU_row, MCUs_per_row
  <2>6. input.vert = 0 /\ input.mcu = 0 /\ input.row = 0 /\ input.data = TRUE /\ ~input.eoi
    BY <1>2
  <2>7. 0 < MCU_rows_per_iMCU_row /\ 0 < MCUs_per_row
    <3>1. MCU_rows_per_iMCU_row \in Nat \ {0} /\ MCUs_per_row \in Nat \ {0}
      BY <2>3, <2>4 DEF MCU_rows_per_iMCU_row, MCUs_per_row
    <3> QED
      BY <3>1
  <2> QED
    BY <2>1, <2>2, <2>6, <2>7 DEF InputInv
<1>5. CoefType
  <2>1. DOMAIN coefs = Comps
    BY <1>2
  <2>2. \A c \in Comps : \A b \in DOMAIN coefs[c] : coefs[c][b] = 0
    BY <1>2, Zenon
  <2>3. 0 \in 0 .. input.scan
    BY <1>2
  <2> QED
    BY <2>1, <2>2, <2>3 DEF CoefType
<1>6. StateInv
  BY <1>2, SizesAssumption DEF StateInv, States
<1>7. CallInv
  BY <1>2 DEF CallInv
<1>8. ShownType
  BY <1>2, EmptyIs DEF ShownType
<1>9. OnePassInv
  BY <1>2 DEF OnePassInv
<1>10. OutputType
  <2>1. 0 \in 0 .. total_iMCU_rows * (M * MaxV) /\ 0 \in 0 .. total_iMCU_rows
        /\ 0 \in 0 .. Len(cfg.scans) + 1
    BY <1>3
  <2>2. /\ DOMAIN output = {"scan", "row", "scanline", "smooth"} /\ output.scan = 0
        /\ output.row = 0 /\ output.scanline = 0 /\ output.smooth = FALSE
    BY <1>2
  <2> QED
    BY <2>1, <2>2 DEF OutputType
<1>11. MainType(main)
  BY <1>2, <1>3 DEF MainType, NewMain
<1>12. UpType(up)
  BY <1>2, <1>3 DEF UpType, NewUp
<1>13. PostType(post)
  <2>1. strip_height \in Nat \ {0}
    BY <1>3 DEF strip_height
  <2>2. 0 \in 0 .. OutputHeight + strip_height
    BY <1>3, <2>1
  <2> DEFINE n == IF enable_2pass THEN strip_height * Ceil(OutputHeight, strip_height) ELSE 0
  <2>3. n \in Nat
    <3>1. Ceil(OutputHeight, strip_height) \in Nat
      BY <1>3, <2>1, CeilIs
    <3> QED
      BY <2>1, <3>1
  <2>4. NewWhole = [k \in 1 .. n |-> [c \in Needed |-> <<NoRow, NoRow>>]]
    BY DEF NewWhole
  <2> HIDE DEF n
  <2>5. IsSeq(NewWhole) /\ Len(NewWhole) = n
    <3>1. DOMAIN NewWhole = 1 .. n
      BY <2>4
    <3>2. NewWhole = [k \in DOMAIN NewWhole |-> NewWhole[k]]
      BY <2>4
    <3> QED
      BY <2>3, <3>1, <3>2, ListIs
  <2>6. /\ DOMAIN post = {"mode", "starting_row", "next_row", "whole"} /\ post.mode = "PASS_THRU"
        /\ post.starting_row = 0 /\ post.whole = NewWhole
    BY <1>2
  <2> QED
    BY <2>2, <2>5, <2>6 DEF PostType, n
<1>14. PassInv
  BY <1>2 DEF PassInv
<1> QED
  BY <1>1, <1>4, <1>5, <1>6, <1>7, <1>8, <1>9, <1>10, <1>11, <1>12, <1>13, <1>14 DEF CountInv

LEMMA NextCount == CountInv /\ [Next]_vars => CountInv'
<1> SUFFICES ASSUME CountInv, [Next]_vars PROVE CountInv'
  OBVIOUS
<1>1. MapInv
  BY DEF CountInv
<1>2. CASE Library
  <2>1. MapInv'
    BY <1>1, <1>2, LibraryMap
  <2> QED
    BY <1>2, <2>1, FillCount, PreloadedCount, DummyCount, EndingCount, SimpleCount,
       PostponedCount, ProcessCount, CrankCount, RawCount DEF Library
<1>3. CASE Application
  <2>1. MapInv'
    BY <1>1, <1>3, ApplicationMap
  <2> QED
    BY <1>3, <2>1, StartCount, SourceIdleCount, ReadCount, StartOutputCount, MapCount,
       EndingCount DEF Application
<1>4. CASE Source \/ Suspend \/ ConsumeInput
  <2>1. MapInv'
    BY <1>1, <1>4, SourceMap
  <2> QED
    BY <1>4, <2>1, DecodeCount, MarkersCount, SourceIdleCount DEF Source
<1>5. CASE UNCHANGED vars
  <2>1. /\ UNCHANGED <<cfg, global_state, call, input, coefs, output, main, up, post, quant,
                       shown, passes>>
    BY <1>5 DEF vars
  <2>2. MapInv'
    BY <1>1, <2>1 DEF MapInv, QuantType, CallType, Called, Before, Gathering, Kept, Mapped, Fits
  <2>3. StateInv' /\ CallInv'
    <3>1. OutputHeight' = OutputHeight /\ Supported' = Supported
      BY <2>1, SizesKept, ModulesKept
    <3> QED
      BY <2>1, <3>1 DEF CountInv, StateInv, CallInv
  <2> QED
    BY <2>1, <2>2, <2>3, IdleCount
<1> QED
  BY <1>2, <1>3, <1>4, <1>5 DEF Next

(* Whatever the image, wherever the source suspends and whatever the        *)
(* application calls: the counters of the input, of the coefficient         *)
(* controller, of the main buffer, of the upsampler and of the              *)
(* postprocessor all stand for the same line of the image.                  *)
THEOREM CountersCorrect == Spec => []CountInv
<1> QED
  BY InitCount, NextCount, PTL DEF Spec

(* The ranges of the counters are part of that.                             *)
LEMMA CountType == CountInv => TypeOK
<1> SUFFICES ASSUME CountInv PROVE TypeOK
  OBVIOUS
<1>1. /\ MapInv /\ InputInv /\ CoefType /\ StateInv /\ OutputType /\ MainType(main) /\ UpType(up)
      /\ PostType(post) /\ cfg \in Configs
  BY DEF CountInv, MapInv
<1>2. MapMatches
  BY <1>1 DEF MapInv, MapMatches, Mapped, Gathering, Fits
<1>3. /\ global_state \in States /\ call.op \in Ops /\ passes \in 0 .. MaxPasses
      /\ quant.colormap \in {"none", "uniform", "chosen", "external"}
  BY <1>1 DEF MapInv, CallType, QuantType, StateInv
<1>4. /\ input.scan \in 1 .. Len(cfg.scans) /\ input.row \in 0 .. total_iMCU_rows
      /\ input.data \in BOOLEAN /\ input.eoi \in BOOLEAN
      /\ input.vert \in Nat /\ input.mcu \in Nat
      /\ input.vert < MCU_rows_per_iMCU_row /\ input.mcu < MCUs_per_row
  BY <1>1 DEF InputInv
<1>5. input.vert \in 0 .. MCU_rows_per_iMCU_row - 1 /\ input.mcu \in 0 .. MCUs_per_row - 1
  <2> DEFINE c == cfg.scans[input.scan].comps[1]
  <2>1. /\ v(c) \in Nat \ {0} /\ last_block_rows(c) \in Nat \ {0}
        /\ width_in_blocks(c) \in Nat \ {0} /\ Ceil(cfg.width, MaxH * DCTSIZE) \in Nat \ {0}
    BY <1>1, <1>4, ScanIs, ImageIs, ComponentIs
  <2>2. MCU_rows_per_iMCU_row \in {1, v(c), last_block_rows(c)}
        /\ MCUs_per_row \in {Ceil(cfg.width, MaxH * DCTSIZE), width_in_blocks(c)}
    BY DEF MCU_rows_per_iMCU_row, MCUs_per_row, Scan
  <2> HIDE DEF c
  <2>3. MCU_rows_per_iMCU_row \in Nat /\ MCUs_per_row \in Nat
    BY <2>1, <2>2
  <2> QED
    BY <1>4, <2>3
<1>6. \A c \in Comps : \A b \in DOMAIN coefs[c] : coefs[c][b] \in 0 .. input.scan
  BY <1>1 DEF CoefType
<1>7. /\ output.scan \in 0 .. Len(cfg.scans) + 1 /\ output.row \in 0 .. total_iMCU_rows
      /\ output.smooth \in BOOLEAN
  BY <1>1 DEF OutputType
<1>8. output.scanline \in 0 .. total_iMCU_rows * MaxV * M
  <2>1. M \in Nat /\ MaxV \in 1 .. 4 /\ total_iMCU_rows \in Nat
    BY <1>1, ImageIs, RowsIs
  <2>2. total_iMCU_rows * MaxV * M = total_iMCU_rows * (M * MaxV)
    BY <2>1
  <2>3. output.scanline \in 0 .. total_iMCU_rows * (M * MaxV)
    BY <1>1 DEF OutputType
  <2> QED
    BY <2>2, <2>3, Zenon
<1>9. /\ main.whichptr \in 1 .. 2 /\ main.context_state \in {"PREPARE", "PROCESS", "POSTPONED"}
      /\ main.rowgroup_ctr \in 0 .. M + 2
  BY <1>1 DEF MainType
<1>10. /\ up.next_row_out \in 0 .. MaxV /\ up.rows_to_go \in 0 .. OutputHeight
       /\ post.starting_row \in 0 .. OutputHeight + strip_height
  BY <1>1 DEF UpType, PostType
<1> QED
  BY <1>2, <1>3, <1>4, <1>5, <1>6, <1>7, <1>8, <1>9, <1>10, Zenon DEF TypeOK

(* TypeOK: no counter of the decompressor leaves its range: the scan, iMCU  *)
(* row and MCU of the input, the lines given, the row groups of the main    *)
(* buffer, the strips of the postprocessor; and pixels are mapped by the    *)
(* quantizer the color map was made for.                                    *)
THEOREM CountersFit == Spec => []TypeOK
<1> QED
  BY CountersCorrect, CountType, PTL
-----------------------------------------------------------------------------
(* A set of numbers that are bounded has a largest one.                     *)
LEMMA LargestOf ==
  ASSUME NEW n \in Nat, NEW S, S \subseteq 0 .. n, S # {}
  PROVE  Max(S) \in S /\ \A x \in S : x <= Max(S)
<1> DEFINE above(x) == x + 1 .. n
           T == {above(x) : x \in S}
<1>1. \A x \in S : above(x) \in FiniteSubsetsOf(Nat)
  <2> SUFFICES ASSUME NEW x \in S PROVE above(x) \in FiniteSubsetsOf(Nat)
    OBVIOUS
  <2>1. x + 1 \in Int /\ n \in Int /\ above(x) \subseteq Nat
    OBVIOUS
  <2>2. IsFiniteSet(above(x))
    BY <2>1, FS_Interval
  <2> QED
    BY <2>1, <2>2 DEF FiniteSubsetsOf
<1>2. T \subseteq FiniteSubsetsOf(Nat) /\ T # {}
  BY <1>1, Zenon
<1>3. PICK t \in T : \A y \in T : ~(<<y, t>> \in StrictSubsetOrdering(Nat))
  <2>1. IsWellFoundedOn(StrictSubsetOrdering(Nat), FiniteSubsetsOf(Nat))
    BY FS_StrictSubsetOrderingWellFounded
  <2> HIDE DEF T
  <2> QED
    BY ONLY <1>2, <2>1, WFMin, Zenon
<1>4. PICK m \in S : t = above(m)
  BY <1>3
<1>5. \A x \in S : x <= m
  <2> SUFFICES ASSUME NEW x \in S, x > m PROVE FALSE
    OBVIOUS
  <2>1. above(x) \subseteq above(m) /\ x \in above(m) /\ x \notin above(x)
        /\ above(m) \subseteq Nat /\ above(x) \subseteq Nat
    OBVIOUS
  <2>2. <<above(x), above(m)>> \in StrictSubsetOrdering(Nat)
    <3> DEFINE p == <<above(x), above(m)>>
    <3>1. p[1] = above(x) /\ p[2] = above(m)
      OBVIOUS
    <3>2. above(x) # above(m)
      BY <2>1
    <3> HIDE DEF above
    <3>3. p \in (SUBSET Nat) \X (SUBSET Nat)
      BY <2>1
    <3> HIDE DEF p
    <3> QED
      BY <2>1, <3>1, <3>2, <3>3 DEF StrictSubsetOrdering, p
  <2> QED
    BY <1>3, <1>4, <2>2
<1> QED
  BY <1>5 DEF Max

(* The scans up to a number, and the last one that is wanted of a component.*)
LEMMA WantedIs ==
  ASSUME cfg \in Configs, NEW c, NEW n \in Nat
  PROVE  /\ Wanted(c, n) \in {0} \cup InScans(c, n) /\ Wanted(c, n) \in 0 .. n
         /\ WantedDC(c, n) \in 0 .. n
         /\ \A k \in InScans(c, n) : k <= Wanted(c, n) /\ k \in Nat
         /\ WantedDC(c, n) <= Wanted(c, n)
         /\ WantedDC(c, n) \in {0} \cup {k \in InScans(c, n) : cfg.scans[k].Ss = 0}
         /\ \A k \in InScans(c, n) : cfg.scans[k].Ss = 0 => k <= WantedDC(c, n)
<1>1. Len(cfg.scans) \in Nat
  BY ImageIs DEF IsImage
<1>2. InScans(c, n) \subseteq 1 .. n
  BY <1>1 DEF InScans, Least
<1> DEFINE S == {0} \cup InScans(c, n)
           D == {0} \cup {k \in InScans(c, n) : cfg.scans[k].Ss = 0}
<1>3. S \subseteq 0 .. n /\ D \subseteq 0 .. n /\ S # {} /\ D # {} /\ D \subseteq S
  BY <1>2
<1>4. Wanted(c, n) = Max(S) /\ WantedDC(c, n) = Max(D)
  BY DEF Wanted, WantedDC
<1> HIDE DEF S, D
<1>5. /\ Wanted(c, n) \in S /\ \A x \in S : x <= Wanted(c, n)
      /\ WantedDC(c, n) \in D /\ \A x \in D : x <= WantedDC(c, n)
  BY <1>3, <1>4, LargestOf
<1> QED
  BY <1>2, <1>3, <1>5 DEF S, D

LEMMA WantedGrows ==
  ASSUME cfg \in Configs, NEW c, NEW m \in Nat, NEW n \in Nat,
         m <= n \/ n = Len(cfg.scans)
  PROVE  Wanted(c, m) <= Wanted(c, n) /\ WantedDC(c, m) <= Wanted(c, n)
<1>1. Len(cfg.scans) \in Nat
  BY ImageIs DEF IsImage
<1>2. InScans(c, m) \subseteq InScans(c, n)
  BY <1>1 DEF InScans, Least
<1> QED
  BY <1>2, WantedIs

(* A scan that component c is not in, or has no DC values.                  *)
LEMMA WantedStays ==
  ASSUME cfg \in Configs, NEW c, NEW n \in 1 .. Len(cfg.scans)
  PROVE  /\ (\A i \in DOMAIN cfg.scans[n].comps : cfg.scans[n].comps[i] # c) =>
              Wanted(c, n) <= Wanted(c, n - 1)
         /\ cfg.scans[n].Ss # 0 => WantedDC(c, n) <= Wanted(c, n - 1)
<1>1. Len(cfg.scans) \in Nat /\ n \in Nat /\ n - 1 \in Nat
  BY ImageIs DEF IsImage
<1>2. InScans(c, n) \subseteq InScans(c, n - 1) \cup {n}
  BY <1>1 DEF InScans, Least
<1>3. ASSUME \A i \in DOMAIN cfg.scans[n].comps : cfg.scans[n].comps[i] # c
      PROVE  Wanted(c, n) <= Wanted(c, n - 1)
  <2>1. n \notin InScans(c, n)
    BY <1>3 DEF InScans
  <2>2. Wanted(c, n) \in {0} \cup InScans(c, n - 1)
    BY <1>1, <1>2, <2>1, WantedIs
  <2> QED
    BY <1>1, <2>2, WantedIs
<1>4. ASSUME cfg.scans[n].Ss # 0 PROVE WantedDC(c, n) <= Wanted(c, n - 1)
  <2>1. WantedDC(c, n) \in {0} \cup InScans(c, n - 1)
    BY <1>1, <1>2, <1>4, WantedIs
  <2> QED
    BY <1>1, <2>1, WantedIs
<1> QED
  BY <1>3, <1>4
-----------------------------------------------------------------------------
(* The data. Block b of component c, and whether the scan is past it.       *)
Blocks(c) == (0 .. height_in_blocks(c) - 1) \X Columns(c)
Past(c, b) ==
  /\ c \in InScan
  /\ Interleaved =>
       \/ b[1] < input.row * v(c)
       \/ b[1] < input.row * v(c) + v(c) /\ b[2] < input.mcu * h(c)
  /\ ~Interleaved =>
       \/ b[1] < input.row * v(c) + input.vert
       \/ b[1] = input.row * v(c) + input.vert /\ b[2] < input.mcu

(* What was read of the scans so far is in the arrays.                      *)
CoefInv ==
  \A c \in Comps :
    /\ Blocks(c) \subseteq DOMAIN coefs[c]
    /\ use_c_buffer =>
         \A b \in Blocks(c) : /\ coefs[c][b] >= Wanted(c, input.scan - 1)
                              /\ Past(c, b) => coefs[c][b] = input.scan

(* The buffer holds rows.                                                   *)
BufType ==
  /\ DOMAIN main.buf = Comps
  /\ \A c \in Comps : main.buf[c] \in [0 .. rgroup(c) * Groups - 1 ->
                                         [r : {-1} \cup Nat, cols : SUBSET Columns(c)]]

(* The pointer lists: as made, or with the wraparound pointers, and the     *)
(* bottom pointers in the last iMCU row.                                    *)
Wrapped(m, row) == row > 1 \/ (row = 1 /\ ~m.buffer_full)
Bottomed(m, row) == row = total_iMCU_rows /\ m.buffer_full /\ m.context_state = "PROCESS"
List(c, w, wrapped) == IF wrapped THEN Wraparound(FunnyPointers(c)[w], rgroup(c))
                       ELSE FunnyPointers(c)[w]
Pointers(m, row) ==
  need_context_rows =>
    \A c \in Comps :
      /\ DOMAIN m.xbuffer[c] = 1 .. 2
      /\ \A w \in 1 .. 2 :
           m.xbuffer[c][w] = IF Bottomed(m, row) /\ w = m.whichptr
                             THEN Bottom(List(c, w, Wrapped(m, row)), c)
                             ELSE List(c, w, Wrapped(m, row))

(* Where row i of an iMCU row is in the buffer.                             *)
Place(c, i, w) == IF need_context_rows THEN FunnyPointers(c)[w][i] ELSE i
Real(c, r) == r < height_in_blocks(c) * DCT_scaled_size(c)

(* Row i of iMCU row n is in its place; so are the last two row groups of   *)
(* the iMCU row before, above or below it.                                  *)
InPlace(m, c, n, i) ==
  Real(c, n * iMCUheight(c) + i) =>
    m.buf[c][Place(c, i, m.whichptr)] = WholeRow(c, n * iMCUheight(c) + i)
Kept2(m, c, n) ==
  need_context_rows /\ n > 0 =>
    \A i \in rgroup(c) * M .. rgroup(c) * (M + 2) - 1 :
      m.buf[c][Place(c, i, m.whichptr)] =
        WholeRow(c, (n - 1) * iMCUheight(c) + i - 2 * rgroup(c))

(* In one pass, what the MCUs read so far have of a row.                    *)
HasColumns(m, c, r, i, n) ==
  /\ m.buf[c][Place(c, i, m.whichptr)].r = r
  /\ {x \in Columns(c) : x < n} \subseteq m.buf[c][Place(c, i, m.whichptr)].cols
ColumnsRead(c, i) ==
  IF Interleaved THEN input.mcu * h(c)
  ELSE IF i \div DCT_scaled_size(c) < input.vert THEN width_in_blocks(c)
  ELSE IF i \div DCT_scaled_size(c) = input.vert THEN input.mcu ELSE 0
Partial(m, c, i, row) ==
  LET r == row * iMCUheight(c) + i
      n == ColumnsRead(c, i)
  IN Real(c, r) /\ n > 0 => HasColumns(m, c, r, i, n)

BufferAt(m, row) ==
  \A c \in Needed :
    IF m.buffer_full
    THEN /\ \A i \in 0 .. iMCUheight(c) - 1 : InPlace(m, c, row - 1, i)
         /\ Kept2(m, c, row - 1)
    ELSE /\ ~use_c_buffer => \A i \in 0 .. iMCUheight(c) - 1 : Partial(m, c, i, row)
         /\ Kept2(m, c, row)

(* What the upsampler holds when lines were made.                           *)
UpHolds(u, lines) ==
  ~cfg.raw =>
    /\ use_merged_upsample /\ MaxV = 2 /\ u.spare # <<>> =>
         u.spare[1] = OutputRow(lines)
    /\ ~use_merged_upsample /\ u.next_row_out < MaxV =>
         \A j \in 1 .. MaxV :
           lines - u.next_row_out + (j - 1) < OutputHeight =>
             u.color[j] = OutputRow(lines - u.next_row_out + (j - 1))

(* The image that the postprocessor keeps for the second quantizer.         *)
WholeHolds(p, lines) ==
  p.mode # "PASS_THRU" =>
    \A k \in 0 .. OutputHeight - 1 :
      p.mode = "CRANK_DEST" \/ k < lines => p.whole[k + 1] = OutputRow(k)

PassData ==
  passes > 0 =>
    /\ WholeHolds(post, output.scanline)
    /\ ~main.crank /\ output.scanline < OutputHeight =>
         /\ Pointers(main, output.row) /\ BufferAt(main, output.row)
         /\ UpHolds(up, output.scanline)

(* Strips that end at the bottom of the image: the last one has one line at *)
(* most, or all its lines.                                                  *)
StripsEnd == enable_2pass => OutputHeight % strip_height < 2

ShownData ==
  /\ ~cfg.raw =>
       \A i \in DOMAIN shown.rows :
         /\ Line(i) < OutputHeight => shown.rows[i] = OutputRow(Line(i))
         /\ StripsEnd => Line(i) < OutputHeight
  /\ cfg.raw =>
       /\ call.op = "read" => shown.rows = <<>>
       /\ \A i \in DOMAIN shown.rows : \A c \in Needed : \A k \in DOMAIN shown.rows[i][c] :
            RawRow(c, k) < downsampled_height(c) =>
              shown.rows[i][c][k] = WholeRow(c, RawRow(c, k))

DataInv == CoefInv /\ BufType /\ PassData /\ ShownData
-----------------------------------------------------------------------------
(* The lists of make_funny_pointers: each points to every row of the buffer *)
(* once, and the last two row groups of the one are in the place that the   *)
(* other has for the rows above.                                            *)
LEMMA ReachIs ==
  ASSUME cfg \in Configs, need_context_rows, NEW c \in Comps
  PROVE  /\ rgroup(c) \in Nat \ {0} /\ iMCUheight(c) = rgroup(c) * M
         /\ iMCUheight(c) \in Nat /\ iMCUheight(c) >= 2 * rgroup(c)
         /\ rgroup(c) * (M + 2) = iMCUheight(c) + 2 * rgroup(c)
         /\ rgroup(c) * (M - 2) = iMCUheight(c) - 2 * rgroup(c)
         /\ rgroup(c) * (M + 3) = iMCUheight(c) + 3 * rgroup(c)
         /\ rgroup(c) * Groups = iMCUheight(c) + 2 * rgroup(c)
<1> DEFINE g == rgroup(c)
           p == iMCUheight(c)
<1>1. M \in Nat /\ M >= 2
  BY ImageIs, ContextIs
<1>2. g \in 1 .. MaxV /\ p = g * M /\ p \in Nat \ {0} /\ MaxV \in 1 .. 4
  BY SizeIs, ImageIs
<1> HIDE DEF g, p
<1>3. g \in Nat \ {0}
  BY <1>2
<1>4. g * (M + 2) = g * M + 2 * g /\ g * (M - 2) = g * M - 2 * g /\ g * (M + 3) = g * M + 3 * g
  BY <1>1, <1>3
<1>5. p >= 2 * g
  <2>1. 2 * g <= M * g /\ M * g = g * M
    BY <1>1, <1>3, FactorKeeps
  <2> QED
    BY <1>2, <1>3, <2>1
<1>6. Groups = M + 2
  BY DEF Groups
<1> QED
  BY <1>2, <1>3, <1>4, <1>5, <1>6 DEF g, p

FunnyLists(g, range, rows, kept, below) ==
  LET first == [i \in range |-> IF i \in rows THEN i ELSE 0]
  IN <<first, [i \in range |-> IF i \in kept THEN first[i + 2 * g]
                               ELSE IF i \in below THEN first[i - 2 * g]
                               ELSE first[i]]>>

LEMMA FunnyIs ==
  ASSUME cfg \in Configs, need_context_rows, NEW c \in Comps, NEW w \in 1 .. 2
  PROVE  LET g == rgroup(c)
             p == iMCUheight(c)
             list == FunnyPointers(c)[w]
         IN /\ DOMAIN FunnyPointers(c) = 1 .. 2
            /\ DOMAIN list = -g .. p + 3 * g - 1
            /\ \A i \in 0 .. p + 2 * g - 1 : list[i] \in 0 .. p + 2 * g - 1
            /\ \A i, j \in 0 .. p + 2 * g - 1 : list[i] = list[j] => i = j
            /\ \A i \in p .. p + 2 * g - 1 : list[i] = FunnyPointers(c)[3 - w][i - 2 * g]
            /\ w = 1 => list[-1] = 0 /\ list[0] = 0
<1> DEFINE g == rgroup(c)
           p == iMCUheight(c)
<1>1. /\ g \in Nat \ {0} /\ p \in Nat /\ p >= 2 * g
      /\ g * (M + 2) = p + 2 * g /\ g * (M - 2) = p - 2 * g /\ g * (M + 3) = p + 3 * g
      /\ g * M = p
  BY ReachIs
<1> DEFINE range == -g .. p + 3 * g - 1
           first == [i \in range |-> IF i \in 0 .. p + 2 * g - 1 THEN i ELSE 0]
           second == [i \in range |-> IF i \in p - 2 * g .. p - 1 THEN first[i + 2 * g]
                                      ELSE IF i \in p .. p + 2 * g - 1 THEN first[i - 2 * g]
                                      ELSE first[i]]
<1>2. FunnyPointers(c) = <<first, second>>
  <2>1. FunnyPointers(c) =
          FunnyLists(g, -g .. g * (M + 3) - 1, 0 .. g * (M + 2) - 1,
                     g * (M - 2) .. g * M - 1, g * M .. g * (M + 2) - 1)
    BY DEF FunnyPointers, FunnyLists
  <2> HIDE DEF g, p
  <2>8. (p + 3 * g) - 1 = p + 3 * g - 1 /\ (p + 2 * g) - 1 = p + 2 * g - 1
    BY <1>1
  <2>2. -g .. g * (M + 3) - 1 = range
    BY ONLY <1>1, <2>8, Zenon
  <2>4. 0 .. g * (M + 2) - 1 = 0 .. p + 2 * g - 1
    BY ONLY <1>1, <2>8, Zenon
  <2>5. g * (M - 2) .. g * M - 1 = p - 2 * g .. p - 1
    BY ONLY <1>1, Zenon
  <2>6. g * M .. g * (M + 2) - 1 = p .. p + 2 * g - 1
    BY ONLY <1>1, <2>8, Zenon
  <2>3. FunnyPointers(c) =
          FunnyLists(g, range, 0 .. p + 2 * g - 1, p - 2 * g .. p - 1, p .. p + 2 * g - 1)
    BY ONLY <2>1, <2>2, <2>4, <2>5, <2>6, Zenon
  <2> QED
    BY <2>3 DEF FunnyLists
<1> HIDE DEF g, p
<1>3. FunnyPointers(c)[1] = first /\ FunnyPointers(c)[2] = second
      /\ DOMAIN FunnyPointers(c) = 1 .. 2
  <2> HIDE DEF first, second
  <2> QED
    BY <1>2
<1>4. \A i \in 0 .. p + 2 * g - 1 :
        /\ first[i] = i
        /\ second[i] = IF p - 2 * g <= i /\ i < p THEN i + 2 * g
                       ELSE IF p <= i THEN i - 2 * g ELSE i
  <2> SUFFICES ASSUME NEW i \in 0 .. p + 2 * g - 1
               PROVE  /\ first[i] = i
                      /\ second[i] = IF p - 2 * g <= i /\ i < p THEN i + 2 * g
                                     ELSE IF p <= i THEN i - 2 * g ELSE i
    OBVIOUS
  <2>1. \A j \in 0 .. p + 2 * g - 1 : first[j] = j
    BY <1>1
  <2>2. i \in range
    BY <1>1
  <2>3. second[i] = IF i \in p - 2 * g .. p - 1 THEN first[i + 2 * g]
                    ELSE IF i \in p .. p + 2 * g - 1 THEN first[i - 2 * g] ELSE first[i]
    BY <2>2
  <2> HIDE DEF first, second
  <2> QED
    BY <1>1, <2>1, <2>3
<1>5. first[-1] = 0 /\ first[0] = 0
  BY <1>1
<1>6. DOMAIN first = range /\ DOMAIN second = range
  OBVIOUS
<1> HIDE DEF first, second
<1> DEFINE list == FunnyPointers(c)[w]
           other == FunnyPointers(c)[3 - w]
<1>7. (list = first /\ other = second) \/ (list = second /\ other = first)
  <2>1. CASE w = 1
    <3>1. 3 - w = 2
      BY <2>1
    <3> QED
      BY <1>3, <2>1, <3>1
  <2>2. CASE w = 2
    <3>1. 3 - w = 1
      BY <2>2
    <3> QED
      BY <1>3, <2>2, <3>1
  <2> QED
    BY <2>1, <2>2
<1>8. w = 1 => list = first
  BY <1>3
<1> HIDE DEF list, other
<1>9. DOMAIN list = range
  BY <1>6, <1>7
<1>10. \A i \in 0 .. p + 2 * g - 1 : list[i] \in 0 .. p + 2 * g - 1
  BY <1>1, <1>4, <1>7
<1>11. \A i, j \in 0 .. p + 2 * g - 1 : list[i] = list[j] => i = j
  <2> SUFFICES ASSUME NEW i \in 0 .. p + 2 * g - 1, NEW j \in 0 .. p + 2 * g - 1,
                      list[i] = list[j]
               PROVE  i = j
    OBVIOUS
  <2> QED
    BY <1>1, <1>4, <1>7
<1>12. \A i \in p .. p + 2 * g - 1 : list[i] = other[i - 2 * g]
  <2> SUFFICES ASSUME NEW i \in p .. p + 2 * g - 1 PROVE list[i] = other[i - 2 * g]
    OBVIOUS
  <2>1. i \in 0 .. p + 2 * g - 1 /\ i - 2 * g \in 0 .. p + 2 * g - 1
        /\ p - 2 * g <= i - 2 * g /\ i - 2 * g < p /\ ~(i < p)
    BY <1>1
  <2> QED
    BY <1>1, <1>4, <1>7, <2>1
<1> QED
  BY <1>3, <1>5, <1>8, <1>9, <1>10, <1>11, <1>12 DEF list, other, g, p

LEMMA WrappedListIs ==
  ASSUME cfg \in Configs, need_context_rows, NEW c \in Comps, NEW w \in 1 .. 2,
         NEW wrapped \in BOOLEAN
  PROVE  LET g == rgroup(c)
             p == iMCUheight(c)
             list == List(c, w, wrapped)
         IN /\ DOMAIN list = -g .. p + 3 * g - 1
            /\ \A i \in 0 .. p + 2 * g - 1 : list[i] = FunnyPointers(c)[w][i]
            /\ wrapped => /\ list[-1] = FunnyPointers(c)[w][p + 2 * g - 1]
                          /\ list[p + 2 * g] = FunnyPointers(c)[w][0]
            /\ ~wrapped /\ w = 1 => list[-1] = FunnyPointers(c)[w][0]
<1> DEFINE g == rgroup(c)
           p == iMCUheight(c)
           f == FunnyPointers(c)[w]
           list == List(c, w, wrapped)
<1>1. g \in Nat \ {0} /\ p \in Nat /\ p >= 2 * g /\ g * (M + 2) = p + 2 * g
  BY ReachIs
<1>2. DOMAIN f = -g .. p + 3 * g - 1 /\ (w = 1 => f[-1] = 0 /\ f[0] = 0)
  BY FunnyIs
<1>3. CASE ~wrapped
  <2>1. list = f
    BY <1>3 DEF List
  <2> HIDE DEF list, f
  <2> QED
    BY <1>2, <1>3, <2>1 DEF list, f
<1>4. CASE wrapped
  <2>1. list = [i \in DOMAIN f |-> IF i < 0 THEN f[i + g * (M + 2)]
                                   ELSE IF i >= g * (M + 2) THEN f[i - g * (M + 2)] ELSE f[i]]
    BY <1>4 DEF List, Wraparound
  <2> HIDE DEF list, f, g, p
  <2>2. list = [i \in DOMAIN f |-> IF i < 0 THEN f[i + (p + 2 * g)]
                                   ELSE IF i >= (p + 2 * g) THEN f[i - (p + 2 * g)] ELSE f[i]]
    BY ONLY <1>1, <2>1, Zenon
  <2>3. \A i \in 0 .. p + 2 * g - 1 : list[i] = f[i]
    BY <1>1, <1>2, <2>2
  <2>4. list[-1] = f[p + 2 * g - 1]
    <3>1. -1 \in DOMAIN f /\ -1 + (p + 2 * g) = p + 2 * g - 1
      BY <1>1, <1>2
    <3> QED
      BY <2>2, <3>1
  <2>5. list[p + 2 * g] = f[0]
    <3>1. p + 2 * g \in DOMAIN f /\ ~(p + 2 * g < 0) /\ (p + 2 * g) - (p + 2 * g) = 0
      BY <1>1, <1>2
    <3>2. p + 2 * g >= p + 2 * g
      BY <1>1
    <3> QED
      BY <2>2, <3>1, <3>2
  <2>6. DOMAIN list = -g .. p + 3 * g - 1
    BY <1>2, <2>2
  <2> QED
    BY <1>4, <2>3, <2>4, <2>5, <2>6 DEF list, f, g, p
<1> QED
  BY <1>3, <1>4

(* The bottom pointers: the last row stands for the row below it.           *)
LEMMA BottomListIs ==
  ASSUME cfg \in Configs, need_context_rows, NEW c \in Comps, NEW list
  PROVE  /\ DOMAIN Bottom(list, c) = DOMAIN list
         /\ \A i \in DOMAIN list : i \in Int /\ i < RowsLeft(c) => Bottom(list, c)[i] = list[i]
         /\ RowsLeft(c) \in DOMAIN list => Bottom(list, c)[RowsLeft(c)] = list[RowsLeft(c) - 1]
<1> DEFINE left == RowsLeft(c)
<1>1. left \in Nat \ {0} /\ rgroup(c) \in Nat \ {0}
  <2>1. left \in 1 .. iMCUheight(c) /\ iMCUheight(c) \in Nat
    BY LastRowsIs, ReachIs
  <2> QED
    BY <2>1, ReachIs
<1>2. Bottom(list, c) =
        [i \in DOMAIN list |->
          IF i \in left .. left + 2 * rgroup(c) - 1 THEN list[left - 1] ELSE list[i]]
  BY DEF Bottom
<1> HIDE DEF left
<1>3. left \in left .. left + 2 * rgroup(c) - 1
  BY <1>1
<1>4. \A i \in Int : i < left => i \notin left .. left + 2 * rgroup(c) - 1
  BY <1>1
<1> QED
  BY <1>2, <1>3, <1>4 DEF left
-----------------------------------------------------------------------------
(* Line j of row group number G is made of row j \div R of the row group.   *)
FromRow(R, g, V, G, j) ==
  /\ j \div R \in 0 .. g - 1
  /\ (G * V + j) \div R = G * g + (j \div R) /\ (G * V + j) % R = j % R
  /\ G * V + j \in Nat /\ (G * g + (j \div R)) * R <= G * V + j

LEMMA LineRow ==
  ASSUME NEW R \in Nat \ {0}, NEW g \in Nat \ {0}, NEW V \in Nat \ {0}, R * g = V,
         NEW G \in Nat, NEW j \in 0 .. V - 1
  PROVE  FromRow(R, g, V, G, j)
<1> DEFINE d == j \div R
           e == j % R
<1>0. j \in Nat
  OBVIOUS
<1>1. d \in Nat /\ e \in 0 .. R - 1 /\ j = d * R + e /\ d * R <= j /\ d * R \in Nat
  BY <1>0, Division, Zenon
<1>2. g * R = V /\ G * V \in Nat /\ G * g \in Nat /\ (G * g) * R = G * V
  <2>1. g * R = R * g /\ (G * g) * R = G * (g * R)
    OBVIOUS
  <2> QED
    BY <2>1
<1> HIDE DEF d, e
<1>3. d < g
  <2>1. d * R < g * R
    BY <1>1, <1>2
  <2> QED
    BY <1>1, <2>1, LessFactor
<1>4. (G * g + d) * R = G * V + d * R
  <2>1. (G * g + d) * R = (G * g) * R + d * R
    BY <1>1, <1>2
  <2> QED
    BY <1>2, <2>1
<1>5. G * V + j \in Nat /\ G * g + d \in Nat /\ G * V + j = (G * g + d) * R + e
  BY <1>1, <1>2, <1>4
<1>6. (G * V + j) \div R = G * g + d /\ (G * V + j) % R = e
  BY <1>1, <1>5, DivisionUnique
<1>7. d \in 0 .. g - 1 /\ (G * g + d) * R <= G * V + j
  BY <1>1, <1>2, <1>3, <1>4
<1> QED
  BY <1>5, <1>6, <1>7 DEF d, e, FromRow

(* The rows of a row group are there for the upsampler, and for the         *)
(* triangle filter the ones next to them in the image.                      *)
RowsSeen(rows, base, group) ==
  \A c \in Needed : \A i \in 0 .. rgroup(c) - 1 :
    LET near == rgroup(c) * group + i
        r == (base + group) * rgroup(c) + i
    IN r < downsampled_height(c) =>
         /\ rows[c][near] = WholeRow(c, r)
         /\ h2v2_fancy(c) =>
              /\ rows[c][near - 1] = WholeRow(c, Max({r - 1, 0}))
              /\ rows[c][near + 1] = WholeRow(c, Least(r + 1, downsampled_height(c) - 1))

(* Then its lines are the ones of the image.                                *)
LEMMA RowGroupHolds ==
  ASSUME cfg \in Configs, Supported, ~cfg.raw, NEW rows, NEW base \in Int, NEW group \in Nat,
         base + group \in Nat, RowsSeen(rows, base, group)
  PROVE  \A j \in 1 .. MaxV :
           (base + group) * MaxV + (j - 1) < OutputHeight =>
             RowGroup(rows, group)[j] = OutputRow((base + group) * MaxV + (j - 1))
<1> DEFINE G == base + group
<1> SUFFICES ASSUME NEW j \in 1 .. MaxV, G * MaxV + (j - 1) < OutputHeight
             PROVE  RowGroup(rows, group)[j] = OutputRow(G * MaxV + (j - 1))
  OBVIOUS
<1> DEFINE k == G * MaxV + (j - 1)
<1>1. /\ MaxV \in Nat \ {0} /\ OutputHeight \in Nat \ {0} /\ G \in Nat /\ j - 1 \in 0 .. MaxV - 1
      /\ Needed \subseteq Comps
  <2>1. MaxV \in 1 .. 4
    BY ImageIs
  <2> QED
    BY <2>1, ImageIs, RowsIs
<1> HIDE DEF G
<1>2. ASSUME NEW c \in Needed
      PROVE  Sources(rows, c, group, j - 1) =
               <<WholeRow(c, k \div VRatio(c)), WholeRow(c, Other(c, k \div VRatio(c), k))>>
  <2> DEFINE g == rgroup(c)
             R == VRatio(c)
             i == (j - 1) \div R
             r == G * g + i
  <2>1. R \in Nat \ {0} /\ R * g = MaxV /\ downsampled_height(c) = Ceil(OutputHeight, R)
    BY UpsampledIs
  <2>2. g \in Nat \ {0}
    BY <1>1, SizeIs
  <2>3. i \in 0 .. g - 1 /\ k \div R = r /\ k % R = (j - 1) % R /\ k \in Nat /\ r * R <= k
    <3> HIDE DEF g, R
    <3>1. FromRow(R, g, MaxV, G, j - 1)
      BY <1>1, <2>1, <2>2, LineRow, Zenon
    <3> QED
      BY <3>1, Zenon DEF FromRow
  <2>4. r < downsampled_height(c)
    <3> DEFINE dh == downsampled_height(c)
    <3>1. dh \in Nat \ {0} /\ OutputHeight <= dh * R
      BY <1>1, <2>1, CeilIs
    <3>2. r \in Nat
      <4> HIDE DEF g, R, i
      <4>1. G * g \in Nat
        BY <1>1, <2>2
      <4> QED
        BY <2>3, <4>1
    <3>3. dh * R \in Int /\ r * R \in Int
      <4> HIDE DEF dh, r, R
      <4> QED
        BY <2>1, <3>1, <3>2
    <3> HIDE DEF dh, R, r, k
    <3>4. r * R < dh * R
      BY <1>1, <2>3, <3>1, <3>3 DEF k
    <3> QED
      BY <2>1, <3>1, <3>2, <3>4, LessFactor DEF dh
  <2>5. /\ rows[c][g * group + i] = WholeRow(c, r)
        /\ h2v2_fancy(c) =>
             /\ rows[c][(g * group + i) - 1] = WholeRow(c, Max({r - 1, 0}))
             /\ rows[c][(g * group + i) + 1] = WholeRow(c, Least(r + 1, downsampled_height(c) - 1))
    <3> HIDE DEF i
    <3> QED
      BY <2>3, <2>4, Zenon DEF RowsSeen, G
  <2>6. h2v2_fancy(c) => R = 2
    BY DEF h2v2_fancy
  <2> HIDE DEF g, R, r, k
  <2>7. Sources(rows, c, group, j - 1) =
          <<rows[c][g * group + i],
            rows[c][IF ~h2v2_fancy(c) THEN g * group + i
                    ELSE IF (j - 1) % 2 = 0 THEN (g * group + i) - 1 ELSE (g * group + i) + 1]>>
    BY DEF Sources, g, R
  <2>8. Other(c, r, k) = IF ~h2v2_fancy(c) THEN r
                         ELSE IF k % 2 = 0 THEN Max({r - 1, 0})
                         ELSE Least(r + 1, downsampled_height(c) - 1)
    BY DEF Other
  <2>9. WholeRow(c, k \div R) = WholeRow(c, r)
    BY <2>3
  <2>10. rows[c][IF ~h2v2_fancy(c) THEN g * group + i
                 ELSE IF (j - 1) % 2 = 0 THEN (g * group + i) - 1 ELSE (g * group + i) + 1]
         = WholeRow(c, Other(c, r, k))
    <3>1. CASE ~h2v2_fancy(c)
      BY <2>5, <2>8, <3>1, Zenon
    <3>2. CASE h2v2_fancy(c) /\ (j - 1) % 2 = 0
      <4>1. k % 2 = 0
        BY <2>3, <2>6, <3>2
      <4> QED
        BY <2>5, <2>8, <3>2, <4>1, Zenon
    <3>3. CASE h2v2_fancy(c) /\ (j - 1) % 2 # 0
      <4>1. k % 2 # 0
        BY <2>3, <2>6, <3>3
      <4> QED
        BY <2>5, <2>8, <3>3, <4>1, Zenon
    <3> QED
      BY <3>1, <3>2, <3>3
  <2> QED
    BY <2>3, <2>5, <2>7, <2>10, Zenon DEF R
<1>3. RowGroup(rows, group)[j] = [c \in Needed |-> Sources(rows, c, group, j - 1)]
  BY DEF RowGroup
<1>4. OutputRow(k) = [c \in Needed |-> <<WholeRow(c, k \div VRatio(c)),
                                         WholeRow(c, Other(c, k \div VRatio(c), k))>>]
  BY DEF OutputRow
<1> HIDE DEF k
<1>5. RowGroup(rows, group)[j] = OutputRow(k)
  BY <1>2, <1>3, <1>4, Zenon
<1> QED
  BY <1>5 DEF k
-----------------------------------------------------------------------------
(* Row i of row group number group of iMCU row number n, in an iMCU row of  *)
(* p rows.                                                                  *)
InGroup(n, g, group, i, p) ==
  /\ (n * M + group) * g + i = n * p + (g * group + i)
  /\ g * group + i \in Nat /\ n * p \in Int /\ n * M + group \in Int
  /\ group < M => g * group + i < p
  /\ group < M - 1 => (g * group + i) + 1 < p

LEMMA GroupRow ==
  ASSUME cfg \in Configs, NEW n \in Int, NEW g \in Nat \ {0}, NEW group \in Nat,
         NEW i \in 0 .. g - 1, NEW p, p = g * M
  PROVE  InGroup(n, g, group, i, p)
<1>1. M \in Nat \ {0}
  BY ImageIs
<1>2. n * M \in Int /\ g * group \in Nat /\ n * p \in Int /\ p \in Nat
  BY <1>1
<1>3. (n * M + group) * g = n * p + g * group
  <2>1. (n * M + group) * g = (n * M) * g + group * g
    BY <1>1, <1>2
  <2>2. (n * M) * g = n * (M * g) /\ M * g = g * M /\ group * g = g * group
    BY <1>1
  <2> QED
    BY <2>1, <2>2
<1>4. ASSUME NEW k \in Nat, group < M - k PROVE g * group + g * (k + 1) <= p
  <2>1. (group + k + 1) * g <= M * g
    BY <1>1, <1>4, FactorKeeps
  <2>2. (group + k + 1) * g = g * group + g * (k + 1) /\ M * g = g * M
    BY <1>1
  <2> QED
    BY <2>1, <2>2
<1>5. group < M => g * group + g <= p
  <2>1. g * (0 + 1) = g
    OBVIOUS
  <2>2. group < M => group < M - 0
    BY <1>1
  <2> QED
    BY <1>4, <2>1, <2>2
<1>6. group < M - 1 => g * group + g + g <= p
  <2>1. g * (1 + 1) = g + g
    OBVIOUS
  <2> QED
    BY <1>2, <1>4, <2>1
<1>7. g * group + i \in Nat /\ n * M + group \in Int
  BY <1>1, <1>2
<1>8. (n * M + group) * g + i = n * p + (g * group + i)
  BY <1>2, <1>3
<1>9. group < M => g * group + i < p
  BY <1>2, <1>5
<1>10. group < M - 1 => (g * group + i) + 1 < p
  BY <1>2, <1>6
<1> QED
  BY <1>2, <1>7, <1>8, <1>9, <1>10 DEF InGroup

(* A row of the image is one of its blocks.                                 *)
LEMMA RealIs ==
  ASSUME cfg \in Configs, NEW c \in Comps, NEW r \in Int, r < downsampled_height(c)
  PROVE  Real(c, r)
<1>1. /\ downsampled_height(c) \in Nat
      /\ downsampled_height(c) <= height_in_blocks(c) * DCT_scaled_size(c)
      /\ height_in_blocks(c) \in Nat
  BY ComponentIs
<1>2. DCT_scaled_size(c) \in Nat
  BY SizeIs
<1>3. height_in_blocks(c) * DCT_scaled_size(c) \in Nat
  BY <1>1, <1>2
<1> QED
  BY <1>1, <1>3 DEF Real

(* Without context rows the buffer is one iMCU row.                         *)
LEMMA SimpleSees ==
  ASSUME cfg \in Configs, ~need_context_rows, ~cfg.raw, NEW m, NEW row \in Nat, m.buffer_full,
         BufferAt(m, row), NEW group \in Nat, group < M
  PROVE  RowsSeen(InputRows(m), (row - 1) * M, group)
<1> SUFFICES ASSUME NEW c \in Needed, NEW i \in 0 .. rgroup(c) - 1,
                    ((row - 1) * M + group) * rgroup(c) + i < downsampled_height(c)
             PROVE  /\ ~h2v2_fancy(c)
                    /\ InputRows(m)[c][rgroup(c) * group + i]
                         = WholeRow(c, ((row - 1) * M + group) * rgroup(c) + i)
  BY DEF RowsSeen
<1> DEFINE near == rgroup(c) * group + i
           p == iMCUheight(c)
           n == row - 1
           r == (n * M + group) * rgroup(c) + i
<1>1. c \in Comps /\ n \in Int
  BY ImageIs
<1>2. ~h2v2_fancy(c)
  BY <1>1 DEF need_context_rows, use_merged_upsample, h2v2_fancy
<1>3. rgroup(c) \in Nat \ {0} /\ p = rgroup(c) * M
  BY <1>1, SizeIs
<1>4. InGroup(n, rgroup(c), group, i, p)
  <2> HIDE DEF n, p
  <2> QED
    BY <1>1, <1>3, GroupRow, Zenon
<1>5. r = n * p + near /\ near \in Nat /\ near < p /\ r \in Int
  <2> HIDE DEF n, p
  <2>1. r = n * p + near /\ near \in Nat /\ near < p /\ n * p \in Int
    BY <1>4 DEF InGroup
  <2> QED
    BY <2>1
<1>6. Real(c, r)
  <2> HIDE DEF r
  <2>1. r < downsampled_height(c)
    BY DEF r, n
  <2> QED
    BY <1>1, <1>5, <2>1, RealIs
<1>7. near \in 0 .. iMCUheight(c) - 1
  <2> HIDE DEF near
  <2> QED
    BY <1>1, <1>3, <1>5, SizeIs
<1>8. InPlace(m, c, row - 1, near)
  <2> HIDE DEF near
  <2> QED
    BY <1>7, Zenon DEF BufferAt
<1>9. m.buf[c][near] = WholeRow(c, r)
  <2>1. Real(c, n * p + near) => m.buf[c][Place(c, near, m.whichptr)] = WholeRow(c, n * p + near)
    BY <1>8 DEF InPlace
  <2>2. Place(c, near, m.whichptr) = near
    BY DEF Place
  <2> HIDE DEF n, p, near, r
  <2> QED
    BY <1>5, <1>6, <2>1, <2>2, Zenon
<1>10. InputRows(m) = m.buf
  BY DEF InputRows
<1> QED
  BY <1>2, <1>9, <1>10, Zenon
-----------------------------------------------------------------------------
(* The row above, at the top the row itself.                                *)
LEMMA AboveIs ==
  ASSUME NEW r \in Nat
  PROVE  (r = 0 => Max({r - 1, 0}) = 0) /\ (r > 0 => Max({r - 1, 0}) = r - 1)
<1> DEFINE S == {r - 1, 0}
<1>1. \E x \in S : \A y \in S : x >= y
  <2>1. CASE r = 0
    BY <2>1
  <2>2. CASE r > 0
    BY <2>2
  <2> QED
    BY <2>1, <2>2
<1>2. Max(S) \in S /\ \A y \in S : Max(S) >= y
  <2> HIDE DEF S
  <2> QED
    BY <1>1, Zenon DEF Max
<1> QED
  BY <1>2

(* What is read through the pointer list in use.                            *)
InUse(m, c, row) ==
  IF Bottomed(m, row) THEN Bottom(List(c, m.whichptr, Wrapped(m, row)), c)
  ELSE List(c, m.whichptr, Wrapped(m, row))

LEMMA PointedRows ==
  ASSUME cfg \in Configs, need_context_rows, NEW m, MainType(m), NEW row \in Nat,
         Pointers(m, row), NEW c \in Comps
  PROVE  /\ \A i \in -rgroup(c) .. iMCUheight(c) + 3 * rgroup(c) - 1 :
              InputRows(m)[c][i] = m.buf[c][InUse(m, c, row)[i]]
         /\ \A i \in 0 .. iMCUheight(c) + 2 * rgroup(c) - 1 :
              ~Bottomed(m, row) \/ i < RowsLeft(c) =>
                InUse(m, c, row)[i] = Place(c, i, m.whichptr)
         /\ Bottomed(m, row) => InUse(m, c, row)[RowsLeft(c)] = Place(c, RowsLeft(c) - 1, m.whichptr)
         /\ Wrapped(m, row) =>
              /\ InUse(m, c, row)[-1] =
                   Place(c, iMCUheight(c) + 2 * rgroup(c) - 1, m.whichptr)
              /\ ~Bottomed(m, row) =>
                   InUse(m, c, row)[iMCUheight(c) + 2 * rgroup(c)] = Place(c, 0, m.whichptr)
         /\ ~Wrapped(m, row) /\ m.whichptr = 1 => InUse(m, c, row)[-1] = Place(c, 0, m.whichptr)
<1> DEFINE g == rgroup(c)
           p == iMCUheight(c)
           w == m.whichptr
           wrapped == Wrapped(m, row)
           list == List(c, w, wrapped)
           u == InUse(m, c, row)
           left == RowsLeft(c)
<1>1. w \in 1 .. 2 /\ wrapped \in BOOLEAN
  BY DEF MainType, Wrapped
<1>2. g \in Nat \ {0} /\ p \in Nat /\ p >= 2 * g
  BY ReachIs
<1>3. left \in 1 .. p
  BY LastRowsIs
<1>4. /\ DOMAIN list = -g .. p + 3 * g - 1
      /\ \A i \in 0 .. p + 2 * g - 1 : list[i] = FunnyPointers(c)[w][i]
      /\ wrapped => /\ list[-1] = FunnyPointers(c)[w][p + 2 * g - 1]
                    /\ list[p + 2 * g] = FunnyPointers(c)[w][0]
      /\ ~wrapped /\ w = 1 => list[-1] = FunnyPointers(c)[w][0]
  <2> HIDE DEF wrapped, w
  <2> QED
    BY <1>1, WrappedListIs
<1>5. \A i : Place(c, i, w) = FunnyPointers(c)[w][i]
  BY DEF Place
<1>6. Bottomed(m, row) => u = Bottom(list, c)
  BY DEF InUse
<1>7. ~Bottomed(m, row) => u = list
  BY DEF InUse
<1>8. m.xbuffer[c][w] = u
  <2>1. m.xbuffer[c][w] = IF Bottomed(m, row) /\ w = m.whichptr THEN Bottom(list, c) ELSE list
    <3> HIDE DEF w
    <3> QED
      BY <1>1, Zenon DEF Pointers
  <2> QED
    BY <1>6, <1>7, <2>1
<1>9. /\ DOMAIN Bottom(list, c) = DOMAIN list
      /\ \A i \in DOMAIN list : i \in Int /\ i < left => Bottom(list, c)[i] = list[i]
      /\ left \in DOMAIN list => Bottom(list, c)[left] = list[left - 1]
  <2> HIDE DEF list
  <2> QED
    BY BottomListIs
<1> HIDE DEF g, p, list, u, wrapped, left
<1>10. DOMAIN u = -g .. p + 3 * g - 1
  BY <1>4, <1>6, <1>7, <1>9
<1>11. \A i \in -g .. p + 3 * g - 1 : InputRows(m)[c][i] = m.buf[c][u[i]]
  <2>1. InputRows(m)[c] = [i \in DOMAIN m.xbuffer[c][m.whichptr] |->
                             m.buf[c][m.xbuffer[c][m.whichptr][i]]]
    BY DEF InputRows
  <2> QED
    BY <1>8, <1>10, <2>1
<1>12. \A i \in Int : i < left /\ i \in DOMAIN list => u[i] = list[i]
  BY <1>6, <1>7, <1>9
<1>13. \A i \in 0 .. p + 2 * g - 1 :
         ~Bottomed(m, row) \/ i < left => u[i] = Place(c, i, w)
  <2> SUFFICES ASSUME NEW i \in 0 .. p + 2 * g - 1, ~Bottomed(m, row) \/ i < left
               PROVE  u[i] = Place(c, i, w)
    OBVIOUS
  <2>1. i \in DOMAIN list /\ i \in Int
    BY <1>2, <1>4
  <2>2. u[i] = list[i]
    BY <1>7, <1>12, <2>1
  <2> QED
    BY <1>4, <1>5, <2>2
<1>14. Bottomed(m, row) => u[left] = Place(c, left - 1, w)
  <2>1. left \in DOMAIN list /\ left - 1 \in 0 .. p + 2 * g - 1
    BY <1>2, <1>3, <1>4
  <2> QED
    BY <1>4, <1>5, <1>6, <1>9, <2>1
<1>15. u[-1] = list[-1]
  <2>1. -1 \in DOMAIN list /\ -1 < left /\ -1 \in Int
    BY <1>2, <1>3, <1>4
  <2> QED
    BY <1>12, <2>1
<1>16. ~Bottomed(m, row) => u[p + 2 * g] = list[p + 2 * g]
  BY <1>7
<1> QED
  BY <1>4, <1>5, <1>11, <1>13, <1>14, <1>15, <1>16 DEF g, p, u, wrapped, left, w
-----------------------------------------------------------------------------
(* The row groups of the iMCU row that was read, with the context of the    *)
(* one before.                                                              *)
LEMMA ProcessSees ==
  ASSUME cfg \in Configs, need_context_rows, NEW m, MainType(m), NEW row \in Nat,
         row <= total_iMCU_rows, m.buffer_full, m.context_state = "PROCESS", MainAt(m, row),
         Pointers(m, row), BufferAt(m, row), NEW group \in Nat, group < m.rowgroups_avail
  PROVE  RowsSeen(InputRows(m), (row - 1) * M, group)
<1> SUFFICES ASSUME NEW c \in Needed, NEW i \in 0 .. rgroup(c) - 1,
                    ((row - 1) * M + group) * rgroup(c) + i < downsampled_height(c)
             PROVE  LET near == rgroup(c) * group + i
                        r == ((row - 1) * M + group) * rgroup(c) + i
                    IN /\ InputRows(m)[c][near] = WholeRow(c, r)
                       /\ InputRows(m)[c][near - 1] = WholeRow(c, Max({r - 1, 0}))
                       /\ InputRows(m)[c][near + 1] =
                            WholeRow(c, Least(r + 1, downsampled_height(c) - 1))
  BY DEF RowsSeen
<1> DEFINE g == rgroup(c)
           p == iMCUheight(c)
           n == row - 1
           near == g * group + i
           r == (n * M + group) * g + i
           dh == downsampled_height(c)
           w == m.whichptr
           left == RowsLeft(c)
           u == InUse(m, c, row)
           last == Bottomed(m, row)
           rows == InputRows(m)[c]
<1>1. /\ c \in Comps /\ row >= 1 /\ n \in Nat /\ total_iMCU_rows \in Nat
      /\ w = Turn(row - 1) /\ w \in 1 .. 2
      /\ (last <=> row = total_iMCU_rows)
      /\ m.rowgroups_avail = IF row = total_iMCU_rows THEN BottomGroups ELSE M - 1
  <2>1. row >= 1 /\ w = Turn(row - 1) /\ w \in 1 .. 2
        /\ m.rowgroups_avail = IF row = total_iMCU_rows THEN BottomGroups ELSE M - 1
    BY DEF MainAt, MainType
  <2>2. last <=> row = total_iMCU_rows
    BY DEF Bottomed
  <2> QED
    BY <2>1, <2>2, ImageIs, RowsIs
<1>2. g \in Nat \ {0} /\ p \in Nat /\ p >= 2 * g /\ p = g * M
  BY <1>1, ReachIs
<1>3. /\ dh \in Nat \ {0} /\ left \in 1 .. p /\ dh = (total_iMCU_rows - 1) * p + left
  BY <1>1, LastRowsIs, ComponentIs
<1>4. (last => n * p + left = dh) /\ (~last => n * p + p < dh) /\ n * p \in Nat
  <2> HIDE DEF p, dh, left, n, last
  <2>1. n * p \in Nat /\ (total_iMCU_rows - 1) * p \in Int
    BY <1>1, <1>2
  <2>2. CASE last
    <3>1. n = total_iMCU_rows - 1
      BY <1>1, <2>2 DEF n
    <3> QED
      BY <1>3, <2>1, <2>2, <3>1
  <2>3. CASE ~last
    <3>1. n + 1 <= total_iMCU_rows - 1 /\ (n + 1) * p = n * p + p
      <4>1. row # total_iMCU_rows
        BY <1>1, <2>3
      <4> QED
        BY <1>1, <1>2, <4>1 DEF n
    <3>2. (n + 1) * p <= (total_iMCU_rows - 1) * p
      BY <1>1, <1>2, <3>1, FactorKeeps
    <3> QED
      BY <1>2, <1>3, <2>1, <2>3, <3>1, <3>2
  <2> QED
    BY <2>1, <2>2, <2>3
<1>5. group < M /\ (~last => group < M - 1)
  BY <1>1, ImageIs, BottomIs
<1>6. InGroup(n, g, group, i, p)
  <2>1. i \in 0 .. g - 1 /\ n \in Int
    BY <1>1
  <2> HIDE DEF n, p, g
  <2> QED
    BY <1>1, <1>2, <2>1, GroupRow, Zenon
<1>7. r = n * p + near /\ near \in Nat /\ near < p /\ (~last => near + 1 < p) /\ r < dh /\ r \in Nat
  <2> HIDE DEF n, p, g, dh, last
  <2>1. r = n * p + near /\ near \in Nat /\ near < p /\ (~last => near + 1 < p)
    BY <1>5, <1>6 DEF InGroup
  <2>2. r < dh
    BY DEF r, n, g, dh
  <2> HIDE DEF near, r
  <2> QED
    BY <1>4, <2>1, <2>2
<1>8. /\ \A x \in -g .. p + 3 * g - 1 : rows[x] = m.buf[c][u[x]]
      /\ \A x \in 0 .. p + 2 * g - 1 : ~last \/ x < left => u[x] = Place(c, x, w)
      /\ last => u[left] = Place(c, left - 1, w)
      /\ Wrapped(m, row) => u[-1] = Place(c, p + 2 * g - 1, w)
      /\ ~Wrapped(m, row) /\ w = 1 => u[-1] = Place(c, 0, w)
  BY <1>1, PointedRows, Zenon
<1>9. ASSUME NEW x \in 0 .. p - 1, n * p + x < dh
      PROVE  m.buf[c][Place(c, x, w)] = WholeRow(c, n * p + x)
  <2>1. InPlace(m, c, row - 1, x)
    BY DEF BufferAt
  <2>2. Real(c, n * p + x)
    <3> HIDE DEF n, p, dh
    <3>1. n * p + x \in Int
      BY <1>2, <1>4
    <3> QED
      BY <1>1, <1>9, <3>1, RealIs DEF dh
  <2> QED
    BY <2>1, <2>2 DEF InPlace
<1> HIDE DEF g, p, n, near, r, dh, left, u, last, rows, w
<1>10. ASSUME NEW x \in 0 .. p - 1, n * p + x < dh
       PROVE  rows[x] = WholeRow(c, n * p + x)
  <2>1. x \in -g .. p + 3 * g - 1 /\ x \in 0 .. p + 2 * g - 1
    BY <1>2
  <2>2. ~last \/ x < left
    BY <1>2, <1>3, <1>4, <1>10
  <2> QED
    BY <1>8, <1>9, <1>10, <2>1, <2>2
<1>11. rows[near] = WholeRow(c, r)
  <2>1. near \in 0 .. p - 1 /\ n * p + near < dh
    BY <1>2, <1>7
  <2> QED
    BY <1>7, <1>10, <2>1
<1>12. rows[near - 1] = WholeRow(c, Max({r - 1, 0}))
  <2>1. CASE near > 0
    <3>1. near - 1 \in 0 .. p - 1 /\ n * p + (near - 1) < dh /\ n * p + (near - 1) = r - 1 /\ r > 0
      <4> DEFINE k == n * p
      <4>1. k \in Nat /\ r = k + near /\ near \in Nat /\ near < p /\ r < dh /\ dh \in Nat /\ p \in Nat
        BY <1>2, <1>3, <1>4, <1>7
      <4> HIDE DEF k
      <4>2. near - 1 \in 0 .. p - 1 /\ k + (near - 1) < dh /\ k + (near - 1) = r - 1 /\ r > 0
        BY ONLY <2>1, <4>1
      <4> QED
        BY <4>2 DEF k
    <3>2. Max({r - 1, 0}) = r - 1
      BY <1>7, <3>1, AboveIs
    <3> QED
      BY <1>10, <3>1, <3>2
  <2>2. CASE near = 0 /\ row > 1
    <3>1. Wrapped(m, row)
      BY <2>2 DEF Wrapped
    <3>2. rows[-1] = m.buf[c][Place(c, p + 2 * g - 1, w)]
      <4>1. -1 \in -g .. p + 3 * g - 1
        BY <1>2
      <4> QED
        BY <1>8, <3>1, <4>1
    <3>3. m.buf[c][Place(c, p + 2 * g - 1, w)] = WholeRow(c, (n - 1) * p + (p + 2 * g - 1) - 2 * g)
      <4> DEFINE x == p + 2 * g - 1
      <4>1. Kept2(m, c, row - 1)
        BY DEF BufferAt
      <4>2. \A y \in g * M .. g * (M + 2) - 1 :
              m.buf[c][Place(c, y, w)] = WholeRow(c, (n - 1) * p + y - 2 * g)
        <5>1. row - 1 > 0
          BY <2>2
        <5> QED
          BY <4>1, <5>1 DEF Kept2, n, p, g, w
      <4>3. x \in g * M .. g * (M + 2) - 1
        <5>1. g * (M + 2) = p + 2 * g
          BY <1>1, ReachIs DEF g, p
        <5> QED
          BY <1>2, <5>1
      <4> HIDE DEF x
      <4>4. m.buf[c][Place(c, x, w)] = WholeRow(c, (n - 1) * p + x - 2 * g)
        BY <4>2, <4>3
      <4> QED
        BY <4>4 DEF x
    <3>4. (n - 1) * p + (p + 2 * g - 1) - 2 * g = r - 1 /\ r > 0
      <4>1. n \in Nat \ {0}
        BY <1>1, <2>2 DEF n
      <4>2. (n - 1) * p = n * p - p /\ (n - 1) * p \in Nat
        BY <1>2, <1>4, <4>1
      <4> QED
        BY <1>2, <1>4, <1>7, <2>2, <4>2
    <3>5. Max({r - 1, 0}) = r - 1 /\ near - 1 = -1
      BY <1>7, <2>2, <3>4, AboveIs
    <3> QED
      BY <3>2, <3>3, <3>4, <3>5
  <2>3. CASE near = 0 /\ row = 1
    <3>1. ~Wrapped(m, row) /\ w = 1
      BY <1>1, <2>3 DEF Wrapped, Turn
    <3>2. rows[-1] = m.buf[c][Place(c, 0, w)]
      <4>1. -1 \in -g .. p + 3 * g - 1
        BY <1>2
      <4> QED
        BY <1>8, <3>1, <4>1
    <3>3. n = 0 /\ n * p = 0 /\ r = 0 /\ 0 \in 0 .. p - 1 /\ n * p + 0 < dh /\ n * p + 0 = 0
      <4>1. n = 0
        BY <2>3 DEF n
      <4>2. n * p = 0
        BY <1>2, <4>1
      <4> QED
        BY <1>2, <1>7, <2>3, <4>1, <4>2
    <3>4. m.buf[c][Place(c, 0, w)] = WholeRow(c, 0)
      BY <1>9, <3>3
    <3>5. Max({r - 1, 0}) = 0 /\ near - 1 = -1
      BY <2>3, <3>3, AboveIs
    <3> QED
      BY <3>2, <3>4, <3>5
  <2> QED
    BY <1>1, <1>7, <2>1, <2>2, <2>3
<1>13. rows[near + 1] = WholeRow(c, Least(r + 1, dh - 1))
  <2>1. CASE r + 1 < dh
    <3>1. near + 1 \in 0 .. p - 1 /\ n * p + (near + 1) < dh /\ n * p + (near + 1) = r + 1
      BY <1>2, <1>3, <1>4, <1>7, <2>1
    <3>2. Least(r + 1, dh - 1) = r + 1
      BY <1>3, <1>7, <2>1 DEF Least
    <3> QED
      BY <1>10, <3>1, <3>2
  <2>2. CASE r + 1 = dh
    <3>1. last
      BY <1>2, <1>3, <1>4, <1>7, <2>2
    <3>2. near + 1 = left /\ left - 1 = near /\ near \in 0 .. p - 1 /\ n * p + near = r
      BY <1>2, <1>3, <1>4, <1>7, <2>2, <3>1
    <3>3. near + 1 \in -g .. p + 3 * g - 1
      BY <1>2, <3>2
    <3>4. rows[near + 1] = m.buf[c][Place(c, near, w)]
      BY <1>8, <3>1, <3>2, <3>3
    <3>5. Least(r + 1, dh - 1) = r
      BY <1>3, <1>7, <2>2 DEF Least
    <3> QED
      BY <1>7, <1>9, <3>2, <3>4, <3>5
  <2> QED
    BY <1>3, <1>7, <2>1, <2>2
<1> QED
  BY <1>11, <1>12, <1>13 DEF g, n, near, r, dh, rows
-----------------------------------------------------------------------------
(* The last row group of the iMCU row before, with the context of the one   *)
(* that was read.                                                           *)
LEMMA PostponedSees ==
  ASSUME cfg \in Configs, need_context_rows, NEW m, MainType(m), NEW row \in Nat,
         row <= total_iMCU_rows, m.buffer_full, m.context_state = "POSTPONED", MainAt(m, row),
         Pointers(m, row), BufferAt(m, row)
  PROVE  RowsSeen(InputRows(m), (row - 1) * M - M - 2, M + 1)
<1> DEFINE base == (row - 1) * M - M - 2
<1>0. row >= 2 /\ M \in Nat \ {0} /\ (row - 1) * M \in Nat /\ base \in Int
      /\ base + (M + 1) = (row - 1) * M - 1
  <2>1. row >= 2 /\ M \in Nat \ {0}
    BY ImageIs DEF MainAt
  <2>2. (row - 1) * M \in Nat
    BY <2>1
  <2> QED
    BY <2>1, <2>2
<1> HIDE DEF base
<1> SUFFICES ASSUME NEW c \in Needed, NEW i \in 0 .. rgroup(c) - 1,
                    ((row - 1) * M - 1) * rgroup(c) + i < downsampled_height(c)
             PROVE  LET near == rgroup(c) * (M + 1) + i
                        r == ((row - 1) * M - 1) * rgroup(c) + i
                    IN /\ InputRows(m)[c][near] = WholeRow(c, r)
                       /\ InputRows(m)[c][near - 1] = WholeRow(c, Max({r - 1, 0}))
                       /\ InputRows(m)[c][near + 1] =
                            WholeRow(c, Least(r + 1, downsampled_height(c) - 1))
  <2>1. \A c \in Needed : \A i \in 0 .. rgroup(c) - 1 :
          LET near == rgroup(c) * (M + 1) + i
              r == (base + (M + 1)) * rgroup(c) + i
          IN r < downsampled_height(c) =>
               /\ InputRows(m)[c][near] = WholeRow(c, r)
               /\ InputRows(m)[c][near - 1] = WholeRow(c, Max({r - 1, 0}))
               /\ InputRows(m)[c][near + 1] =
                    WholeRow(c, Least(r + 1, downsampled_height(c) - 1))
    BY <1>0, Zenon
  <2> QED
    BY <2>1 DEF RowsSeen, base
<1> DEFINE g == rgroup(c)
           p == iMCUheight(c)
           n == row - 1
           near == g * (M + 1) + i
           r == (n * M - 1) * g + i
           dh == downsampled_height(c)
           w == m.whichptr
           u == InUse(m, c, row)
           rows == InputRows(m)[c]
<1>1. /\ c \in Comps /\ n \in Nat \ {0} /\ total_iMCU_rows \in Nat /\ n <= total_iMCU_rows - 1
      /\ ~Bottomed(m, row) /\ Wrapped(m, row) /\ n + 1 = row
  BY <1>0, ImageIs, RowsIs DEF Bottomed, Wrapped
<1>2. /\ g \in Nat \ {0} /\ p \in Nat /\ p >= 2 * g /\ p = g * M
      /\ g * (M + 2) = p + 2 * g
  BY <1>1, ReachIs
<1>3. dh \in Nat \ {0} /\ (total_iMCU_rows - 1) * p < dh
  BY <1>1, ComponentIs
<1>4. n * p < dh /\ n * p \in Nat /\ (n - 1) * p = n * p - p
  <2> HIDE DEF p, dh, n
  <2>1. n * p <= (total_iMCU_rows - 1) * p /\ n * p \in Nat /\ (total_iMCU_rows - 1) * p \in Int
    BY <1>1, <1>2, FactorKeeps
  <2>2. (n - 1) * p = n * p - p
    BY <1>1, <1>2
  <2> QED
    BY <1>3, <2>1, <2>2
<1>5. near = p + g + i /\ r = n * p - g + i /\ r \in Nat /\ near \in Nat
  <2> HIDE DEF p, g, n
  <2>1. g * (M + 1) = g * M + g
    BY <1>0, <1>2
  <2>2. (n * M - 1) * g = n * p - g
    <3>1. (n * M - 1) * g = (n * M) * g - g
      BY <1>0, <1>1, <1>2
    <3>2. (n * M) * g = n * (M * g) /\ M * g = g * M
      BY <1>0, <1>1, <1>2
    <3> QED
      BY <1>2, <3>1, <3>2
  <2>3. near = p + g + i /\ r = n * p - g + i
    BY <1>2, <1>4, <2>1, <2>2 DEF g
  <2>4. n * p >= p
    <3>1. 1 * p <= n * p
      BY <1>1, <1>2, FactorKeeps
    <3> QED
      BY <1>2, <3>1
  <2> QED
    BY <1>2, <1>4, <2>3, <2>4 DEF g
<1>6. i \in 0 .. g - 1
  OBVIOUS
<1>7. /\ \A x \in -g .. p + 3 * g - 1 : rows[x] = m.buf[c][u[x]]
      /\ \A x \in 0 .. p + 2 * g - 1 : u[x] = Place(c, x, w)
      /\ u[p + 2 * g] = Place(c, 0, w)
  <2>1. /\ \A x \in -g .. p + 3 * g - 1 : rows[x] = m.buf[c][u[x]]
        /\ \A x \in 0 .. p + 2 * g - 1 :
             ~Bottomed(m, row) \/ x < RowsLeft(c) => u[x] = Place(c, x, w)
        /\ Wrapped(m, row) => (~Bottomed(m, row) => u[p + 2 * g] = Place(c, 0, w))
    <3>1. c \in Comps
      BY <1>1
    <3> QED
      BY <3>1, PointedRows, Zenon
  <2> HIDE DEF g, p, w, u, rows
  <2> QED
    BY <1>1, <2>1, Zenon
<1>8. \A x \in p .. p + 2 * g - 1 : rows[x] = WholeRow(c, n * p - p + x - 2 * g)
  <2>1. Kept2(m, c, row - 1)
    BY DEF BufferAt
  <2>2. \A x \in g * M .. g * (M + 2) - 1 :
          m.buf[c][Place(c, x, w)] = WholeRow(c, (n - 1) * p + x - 2 * g)
    BY <1>1, <2>1 DEF Kept2
  <2> HIDE DEF g, p, n, w, u, rows
  <2>3. \A x \in p .. p + 2 * g - 1 :
          m.buf[c][Place(c, x, w)] = WholeRow(c, (n * p - p) + x - 2 * g)
    BY <1>2, <1>4, <2>2
  <2>4. \A x \in p .. p + 2 * g - 1 :
          x \in -g .. p + 3 * g - 1 /\ x \in 0 .. p + 2 * g - 1
          /\ n * p - p + x - 2 * g = (n * p - p) + x - 2 * g
    BY <1>2, <1>4
  <2> QED
    BY <1>7, <2>3, <2>4
<1>9. rows[p + 2 * g] = WholeRow(c, n * p)
  <2>1. InPlace(m, c, row - 1, 0)
    <3>1. 0 \in 0 .. p - 1
      BY <1>2
    <3> QED
      BY <3>1 DEF BufferAt
  <2>2. n * p + 0 = n * p /\ Real(c, n * p)
    <3> HIDE DEF n, p, dh
    <3> QED
      BY <1>1, <1>4, RealIs DEF dh
  <2>3. m.buf[c][Place(c, 0, w)] = WholeRow(c, n * p)
    BY <2>1, <2>2 DEF InPlace
  <2> HIDE DEF g, p, n, w, u, rows
  <2>4. p + 2 * g \in -g .. p + 3 * g - 1
    BY <1>2
  <2> QED
    BY <1>7, <2>3, <2>4
<1> HIDE DEF g, p, n, near, r, dh, u, rows, w
<1> DEFINE k == n * p
<1>10. /\ k \in Nat /\ k < dh /\ dh \in Nat /\ g \in Nat \ {0} /\ p \in Nat /\ p >= 2 * g
       /\ i \in 0 .. g - 1 /\ near = p + g + i /\ r = k - g + i /\ r \in Nat /\ k >= p
       /\ \A x \in p .. p + 2 * g - 1 : rows[x] = WholeRow(c, k - p + x - 2 * g)
       /\ rows[p + 2 * g] = WholeRow(c, k)
  <2>1. 1 * p <= n * p
    BY <1>1, <1>2, FactorKeeps
  <2> QED
    BY <1>2, <1>3, <1>4, <1>5, <1>6, <1>8, <1>9, <2>1
<1> HIDE DEF k
<1>11. rows[near] = WholeRow(c, r)
  <2>1. near \in p .. p + 2 * g - 1 /\ k - p + near - 2 * g = r
    BY ONLY <1>10
  <2> QED
    BY <1>10, <2>1
<1>12. rows[near - 1] = WholeRow(c, Max({r - 1, 0}))
  <2>1. near - 1 \in p .. p + 2 * g - 1 /\ k - p + (near - 1) - 2 * g = r - 1 /\ r > 0
    BY ONLY <1>10
  <2>2. Max({r - 1, 0}) = r - 1
    BY <1>10, <2>1, AboveIs
  <2> QED
    BY <1>10, <2>1, <2>2
<1>13. rows[near + 1] = WholeRow(c, Least(r + 1, dh - 1))
  <2>1. Least(r + 1, dh - 1) = r + 1
    BY <1>10 DEF Least
  <2>2. CASE i < g - 1
    <3>1. near + 1 \in p .. p + 2 * g - 1 /\ k - p + (near + 1) - 2 * g = r + 1
      BY ONLY <1>10, <2>2
    <3> QED
      BY <1>10, <2>1, <3>1
  <2>3. CASE i = g - 1
    <3>1. near + 1 = p + 2 * g /\ r + 1 = k
      BY ONLY <1>10, <2>3
    <3> QED
      BY <1>10, <2>1, <3>1
  <2> QED
    BY <1>6, <1>10, <2>2, <2>3
<1> QED
  BY <1>11, <1>12, <1>13 DEF g, n, near, r, dh, rows
-----------------------------------------------------------------------------
(* The lines that were made are the next ones of the image, and so are the  *)
(* ones the upsampler holds.                                                *)
RowsAre(rows, lines) ==
  \A i \in 1 .. Len(rows) :
    lines + (i - 1) < OutputHeight => rows[i] = OutputRow(lines + (i - 1))
Holds(r, lines) ==
  /\ RowsAre(r.rows, lines)
  /\ lines + Len(r.rows) < OutputHeight => UpHolds(r.up, lines + Len(r.rows))

LEMMA SeparateHolds ==
  ASSUME cfg \in Configs, Supported, ~cfg.raw, ~use_merged_upsample, NEW q, State(q), NEW rows,
         NEW base \in Int, NEW lines \in Nat, lines < OutputHeight, NEW room \in Nat \ {0},
         UpType(q.up), UpAt(q.up, lines, base + q.group), base + q.group \in Nat,
         RowsSeen(rows, base, q.group), UpHolds(q.up, lines)
  PROVE  Holds(SepUpsample(q, rows, room), lines)
<1> DEFINE empty == q.up.next_row_out >= MaxV
           color == IF empty THEN RowGroup(rows, q.group) ELSE q.up.color
           next == IF empty THEN 0 ELSE q.up.next_row_out
           n == Least(Least(MaxV - next, q.up.rows_to_go), room)
           r == SepUpsample(q, rows, room)
<1>1. MaxV \in 1 .. 4 /\ OutputHeight \in Nat /\ q.group \in Nat
  BY ImageIs, RowsIs DEF State
<1>2. /\ DOMAIN q.up = {"next_row_out", "rows_to_go", "color", "spare"}
      /\ q.up.next_row_out \in 0 .. MaxV /\ q.up.rows_to_go = OutputHeight - lines
      /\ ~empty => IsSeq(q.up.color) /\ Len(q.up.color) = MaxV
  BY <1>1 DEF UpType, UpAt
<1>3. lines = (base + q.group) * MaxV + next /\ (base + q.group) * MaxV \in Int
  <2>1. lines = (base + q.group) * MaxV + Made(q.up)
    BY DEF UpAt
  <2>2. (base + q.group) * MaxV \in Int
    BY <1>1
  <2>3. Made(q.up) = next
    BY <1>1, <1>2 DEF Made
  <2> QED
    BY <2>1, <2>2, <2>3
<1>4. IsSeq(color) /\ Len(color) = MaxV
  BY <1>2, RowGroupIs
<1>5. next \in 0 .. MaxV - 1 /\ n \in 1 .. room /\ n <= MaxV - next /\ lines + n <= OutputHeight
  <2>1. next \in 0 .. MaxV - 1
    BY <1>1, <1>2
  <2> DEFINE left == q.up.rows_to_go
  <2>2. left = OutputHeight - lines /\ left \in Nat \ {0} /\ n = Least(Least(MaxV - next, left), room)
    BY <1>1, <1>2
  <2> HIDE DEF left, next, n
  <2> QED
    BY <1>1, <2>1, <2>2 DEF Least
<1>6. \A j \in 1 .. MaxV : lines - next + (j - 1) < OutputHeight =>
                             color[j] = OutputRow(lines - next + (j - 1))
  <2>1. CASE empty
    <3> DEFINE x == (base + q.group) * MaxV
    <3>1. \A j \in 1 .. MaxV : x + (j - 1) < OutputHeight =>
                                 RowGroup(rows, q.group)[j] = OutputRow(x + (j - 1))
      BY <1>1, RowGroupHolds, Zenon
    <3>2. lines - next = x
      BY <1>3, <2>1
    <3> HIDE DEF x
    <3> QED
      BY <2>1, <3>1, <3>2
  <2>2. CASE ~empty
    <3>1. q.up.next_row_out < MaxV
      BY <1>1, <1>2, <2>2
    <3> QED
      BY <2>2, <3>1 DEF UpHolds
  <2> QED
    BY <2>1, <2>2
<1>7. r = [q EXCEPT !.up.color = color, !.up.next_row_out = next + n, !.up.rows_to_go = @ - n,
                    !.rows = SubSeq(color, next + 1, next + n),
                    !.group = IF next + n >= MaxV THEN @ + 1 ELSE @]
  BY Zenon DEF SepUpsample
<1> HIDE DEF empty, color, n, r
<1>8. /\ r.rows = SubSeq(color, next + 1, next + n)
      /\ r.up.color = color /\ r.up.next_row_out = next + n
  BY <1>2, <1>7 DEF State
<1> HIDE DEF next
<1>9. Len(r.rows) = n /\ \A i \in 1 .. n : r.rows[i] = color[next + i]
  <2>1. next \in Nat /\ n \in Nat /\ next + n <= Len(color)
    BY <1>1, <1>4, <1>5
  <2>2. /\ Len(SubSeq(color, next + 1, next + n)) = n
        /\ \A i \in 1 .. n : SubSeq(color, next + 1, next + n)[i] = color[next + i]
    BY ONLY <1>4, <2>1, SubIs
  <2> QED
    BY ONLY <1>8, <2>2
<1>10. RowsAre(r.rows, lines)
  <2> SUFFICES ASSUME NEW i \in 1 .. n, lines + (i - 1) < OutputHeight
               PROVE  r.rows[i] = OutputRow(lines + (i - 1))
    BY <1>9 DEF RowsAre
  <2>1. next + i \in 1 .. MaxV /\ lines - next + ((next + i) - 1) = lines + (i - 1)
    BY <1>1, <1>5
  <2> QED
    BY <1>6, <1>9, <2>1
<1>11. UpHolds(r.up, lines + n)
  <2>1. (lines + n) - (next + n) = lines - next
    BY <1>1, <1>5
  <2> QED
    BY <1>6, <1>8, <2>1 DEF UpHolds
<1> QED
  BY <1>9, <1>10, <1>11 DEF Holds, r

LEMMA PairHolds ==
  ASSUME cfg \in Configs, Supported, ~cfg.raw, use_merged_upsample, MaxV = 2, NEW q, State(q),
         NEW rows, NEW base \in Int, NEW lines \in Nat, lines < OutputHeight,
         NEW room \in Nat \ {0}, UpType(q.up), UpAt(q.up, lines, base + q.group),
         base + q.group \in Nat, RowsSeen(rows, base, q.group), UpHolds(q.up, lines)
  PROVE  Holds(Merged2v(q, rows, room), lines)
<1> DEFINE pair == RowGroup(rows, q.group)
           n == IF q.up.spare # <<>> THEN 1 ELSE Least(Least(2, q.up.rows_to_go), room)
           spare == IF q.up.spare = <<>> /\ n <= 1 THEN <<pair[2]>> ELSE <<>>
           r == Merged2v(q, rows, room)
<1>1. OutputHeight \in Nat /\ q.group \in Nat
  BY RowsIs DEF State
<1>2. /\ DOMAIN q.up = {"next_row_out", "rows_to_go", "color", "spare"}
      /\ q.up.rows_to_go = OutputHeight - lines
      /\ lines = (base + q.group) * MaxV + Made(q.up) /\ (base + q.group) * MaxV \in Int
      /\ q.up.spare # <<>> => IsSeq(q.up.spare) /\ Len(q.up.spare) = 1
  BY <1>1, GroupsIs DEF UpType, UpAt
<1>3. IsSeq(pair) /\ Len(pair) = 2
  BY RowGroupIs
<1>4. n \in 1 .. room /\ n <= 2 /\ lines + n <= OutputHeight
  BY <1>1, <1>2 DEF Least
<1>5. q.up.spare = <<>> => \A j \in 1 .. 2 : lines + (j - 1) < OutputHeight =>
                                               pair[j] = OutputRow(lines + (j - 1))
  <2> DEFINE x == (base + q.group) * MaxV
  <2>1. \A j \in 1 .. MaxV : x + (j - 1) < OutputHeight =>
                               RowGroup(rows, q.group)[j] = OutputRow(x + (j - 1))
    BY ONLY cfg \in Configs, Supported, ~cfg.raw, base \in Int, base + q.group \in Nat,
            RowsSeen(rows, base, q.group), <1>1, RowGroupHolds, Zenon
  <2>2. q.up.spare = <<>> => lines = x
    BY <1>2 DEF Made
  <2> HIDE DEF x
  <2> QED
    BY <2>1, <2>2 DEF pair
<1>6. r = [q EXCEPT !.up.spare = spare, !.up.rows_to_go = @ - n,
                    !.rows = IF q.up.spare # <<>> THEN q.up.spare ELSE SubSeq(pair, 1, n),
                    !.group = IF spare = <<>> THEN @ + 1 ELSE @]
  BY Zenon DEF Merged2v
<1>7. spare # <<>> => q.up.spare = <<>> /\ n = 1 /\ spare[1] = pair[2]
  BY <1>4, OneIs
<1>8. q.up.spare # <<>> => n = 1 /\ spare = <<>>
  OBVIOUS
<1> HIDE DEF pair, n, spare, r
<1>9. /\ r.rows = IF q.up.spare # <<>> THEN q.up.spare ELSE SubSeq(pair, 1, n)
      /\ r.up.spare = spare
  BY <1>2, <1>6 DEF State
<1>10. CASE q.up.spare # <<>>
  <2>1. r.rows = q.up.spare /\ Len(r.rows) = 1 /\ r.up.spare = <<>>
    BY <1>2, <1>8, <1>9, <1>10
  <2>2. r.rows[1] = OutputRow(lines)
    BY <1>10, <2>1 DEF UpHolds
  <2>3. RowsAre(r.rows, lines)
    <3>1. lines + (1 - 1) = lines
      OBVIOUS
    <3> QED
      BY <2>1, <2>2, <3>1 DEF RowsAre
  <2> QED
    BY <2>1, <2>3 DEF Holds, UpHolds, r
<1>11. CASE q.up.spare = <<>>
  <2>1. Len(r.rows) = n /\ \A i \in 1 .. n : r.rows[i] = pair[i]
    <3>1. 0 \in Nat /\ n \in Nat /\ 0 + n <= Len(pair)
      BY <1>3, <1>4
    <3>2. /\ Len(SubSeq(pair, 0 + 1, 0 + n)) = n
          /\ \A i \in 1 .. n : SubSeq(pair, 0 + 1, 0 + n)[i] = pair[0 + i]
      BY ONLY <1>3, <3>1, SubIs
    <3>3. 0 + 1 = 1 /\ 0 + n = n /\ \A i \in 1 .. n : 0 + i = i
      BY <1>4
    <3>4. r.rows = SubSeq(pair, 1, n)
      BY <1>9, <1>11
    <3> QED
      BY <3>2, <3>3, <3>4
  <2>2. RowsAre(r.rows, lines)
    BY <1>4, <1>5, <1>11, <2>1 DEF RowsAre
  <2>3. lines + n < OutputHeight /\ spare # <<>> => spare[1] = OutputRow(lines + n)
    <3>1. lines + (2 - 1) = lines + 1 /\ 2 \in 1 .. 2
      OBVIOUS
    <3> QED
      BY <1>5, <1>7, <1>11, <3>1
  <2> QED
    BY <1>9, <2>1, <2>2, <2>3 DEF Holds, UpHolds, r
<1> QED
  BY <1>10, <1>11

LEMMA SingleHolds ==
  ASSUME cfg \in Configs, Supported, ~cfg.raw, use_merged_upsample, MaxV # 2, NEW q, State(q),
         NEW rows, NEW base \in Int, NEW lines \in Nat, lines < OutputHeight,
         UpType(q.up), UpAt(q.up, lines, base + q.group), base + q.group \in Nat,
         RowsSeen(rows, base, q.group)
  PROVE  Holds(Merged1v(q, rows), lines)
<1> DEFINE r == Merged1v(q, rows)
<1>1. MaxV = 1 /\ OutputHeight \in Nat /\ q.group \in Nat
  BY MergedIs, RowsIs DEF State
<1>2. r = [q EXCEPT !.rows = RowGroup(rows, q.group), !.group = @ + 1]
  BY Zenon DEF Merged1v
<1> HIDE DEF r
<1>3. r.up = q.up /\ r.rows = RowGroup(rows, q.group)
  BY <1>2 DEF State
<1>4. Len(r.rows) = 1
  BY <1>1, <1>3, RowGroupIs
<1>5. lines = (base + q.group) * MaxV
  <2>1. lines = (base + q.group) * MaxV + 0 /\ (base + q.group) * MaxV \in Int
    BY <1>1, GroupsIs DEF UpAt, Made
  <2> QED
    BY <2>1
<1>6. RowsAre(r.rows, lines)
  <2> DEFINE x == (base + q.group) * MaxV
  <2>0. q.group \in Nat
    BY <1>1
  <2>1. \A j \in 1 .. MaxV : x + (j - 1) < OutputHeight =>
                               RowGroup(rows, q.group)[j] = OutputRow(x + (j - 1))
    <3> DEFINE group == q.group
    <3>1. group \in Nat /\ base + group \in Nat /\ RowsSeen(rows, base, group)
      BY <2>0
    <3> HIDE DEF group
    <3>2. \A j \in 1 .. MaxV :
            (base + group) * MaxV + (j - 1) < OutputHeight =>
              RowGroup(rows, group)[j] = OutputRow((base + group) * MaxV + (j - 1))
      BY <3>1, RowGroupHolds, ZenonT(30)
    <3> QED
      BY <3>2 DEF group
  <2>2. lines = x
    BY <1>5
  <2> HIDE DEF x
  <2> QED
    BY <1>1, <1>3, <1>4, <2>1, <2>2 DEF RowsAre
<1> QED
  BY <1>1, <1>6 DEF Holds, UpHolds, r

LEMMA UpsampleHolds ==
  ASSUME cfg \in Configs, Supported, ~cfg.raw, NEW q, State(q), NEW rows,
         NEW base \in Int, NEW lines \in Nat, lines < OutputHeight, NEW room \in Nat \ {0},
         UpType(q.up), UpAt(q.up, lines, base + q.group), base + q.group \in Nat,
         RowsSeen(rows, base, q.group), UpHolds(q.up, lines)
  PROVE  Holds(upsample(q, rows, room), lines)
<1>1. CASE ~use_merged_upsample
  BY <1>1, SeparateHolds DEF upsample
<1>2. CASE use_merged_upsample /\ MaxV = 2
  BY <1>2, PairHolds DEF upsample
<1>3. CASE use_merged_upsample /\ MaxV # 2
  BY <1>3, SingleHolds DEF upsample
<1> QED
  BY <1>1, <1>2, <1>3
-----------------------------------------------------------------------------
(* What one call of the postprocessor gives and keeps.                      *)
PostHolds(q, lines) ==
  /\ post.mode # "SAVE_AND_PASS" =>
       RowsAre(q.rows, lines) /\ (StripsEnd => lines + Len(q.rows) <= OutputHeight)
  /\ WholeHolds(q.post, lines + q.count)
  /\ post.mode # "CRANK_DEST" /\ lines + q.count < OutputHeight =>
       UpHolds(q.up, lines + q.count)

LEMMA OnePassHolds ==
  ASSUME cfg \in Configs, Supported, ~cfg.raw, PostType(post), UpType(up), NEW lines \in Nat,
         lines < OutputHeight, NEW rows, NEW group \in Nat, NEW base \in Int,
         NEW room \in Nat \ {0}, post.mode = "PASS_THRU", UpAt(up, lines, base + group),
         base + group \in Nat, RowsSeen(rows, base, group), UpHolds(up, lines)
  PROVE  PostHolds(OnePass(Started(group), rows, room), lines)
<1> DEFINE q == Started(group)
           space == IF cfg.quantize THEN Least(room, strip_height) ELSE room
           got == upsample(q, rows, space)
           r == OnePass(q, rows, room)
<1>1. State(q) /\ q.up = up /\ q.group = group /\ q.post = post
  BY DEF State, Started
<1>2. strip_height \in 1 .. 4 /\ OutputHeight \in Nat
  BY RowsIs, ImageIs DEF strip_height
<1>3. space \in Nat \ {0}
  BY <1>2 DEF Least
<1>4. r = [got EXCEPT !.count = Len(got.rows)]
  BY Zenon DEF OnePass
<1> HIDE DEF q, space, r
<1>5. Steps(q, got, lines, base, space)
  BY <1>1, <1>3, UpsampleSteps
<1>6. Holds(got, lines)
  <2>1. /\ UpType(q.up) /\ UpAt(q.up, lines, base + q.group) /\ base + q.group \in Nat
        /\ RowsSeen(rows, base, q.group) /\ UpHolds(q.up, lines)
    BY <1>1
  <2> QED
    BY <1>1, <1>3, <2>1, UpsampleHolds
<1> HIDE DEF got
<1>7. /\ DOMAIN got = {"up", "post", "group", "rows", "count"} /\ got.post = post
      /\ lines + Len(got.rows) <= OutputHeight
  BY <1>1, <1>5 DEF Steps, State
<1>8. /\ r.up = got.up /\ r.post = post /\ r.rows = got.rows /\ r.count = Len(got.rows)
  BY <1>4, <1>7
<1>9. RowsAre(r.rows, lines) /\ lines + Len(r.rows) <= OutputHeight
  BY <1>6, <1>7, <1>8 DEF Holds
<1>10. lines + r.count < OutputHeight => UpHolds(r.up, lines + r.count)
  BY <1>6, <1>8 DEF Holds
<1>11. WholeHolds(r.post, lines + r.count)
  BY <1>8 DEF WholeHolds
<1> QED
  BY <1>9, <1>10, <1>11 DEF PostHolds, q, r

(* Rows that replace the ones from number at + 1.                           *)
LEMMA ReplacedIs ==
  ASSUME NEW s, IsSeq(s), NEW t, IsSeq(t), NEW at \in Nat, at + Len(t) <= Len(s),
         NEW w, w = SubSeq(s, 1, at) \o t \o SubSeq(s, at + Len(t) + 1, Len(s))
  PROVE  /\ \A i \in 1 .. at : w[i] = s[i]
         /\ \A i \in 1 .. Len(t) : w[at + i] = t[i]
<1> DEFINE n == Len(t)
           s1 == SubSeq(s, 1, at)
           s2 == SubSeq(s, at + n + 1, Len(s))
           x == s1 \o t
<1>1. n \in Nat /\ Len(s) \in Nat
  BY SeqIs
<1>2. IsSeq(s1) /\ Len(s1) = at /\ \A i \in 1 .. at : s1[i] = s[i]
  <2>1. 0 \in Nat /\ 0 + at <= Len(s)
    BY <1>1
  <2>2. /\ IsSeq(SubSeq(s, 0 + 1, 0 + at)) /\ Len(SubSeq(s, 0 + 1, 0 + at)) = at
        /\ \A i \in 1 .. at : SubSeq(s, 0 + 1, 0 + at)[i] = s[0 + i]
    BY ONLY <2>1, SubIs, IsSeq(s), at \in Nat
  <2>3. 0 + 1 = 1 /\ 0 + at = at /\ \A i \in 1 .. at : 0 + i = i
    OBVIOUS
  <2> QED
    BY <2>2, <2>3
<1>3. IsSeq(s2)
  <2> DEFINE k == Len(s) - (at + n)
             m == at + n
  <2>1. k \in Nat /\ m \in Nat /\ m + k <= Len(s) /\ m + k = Len(s)
    BY <1>1
  <2> HIDE DEF k, m
  <2>2. IsSeq(SubSeq(s, m + 1, m + k))
    BY <2>1, SubIs
  <2> QED
    BY <2>1, <2>2 DEF m
<1>4. w = x \o s2
  OBVIOUS
<1> HIDE DEF s1, s2, n
<1>5. /\ IsSeq(x) /\ Len(x) = at + n /\ \A i \in 1 .. at : x[i] = s1[i]
      /\ \A i \in at + 1 .. at + n : x[i] = t[i - at]
  BY <1>2, ConcatIs DEF n
<1> HIDE DEF x
<1>6. \A i \in 1 .. at + n : w[i] = x[i]
  <2>1. \A i \in 1 .. Len(x) : (x \o s2)[i] = x[i]
    BY ONLY <1>3, <1>5, ConcatIs
  <2> QED
    BY ONLY <1>4, <1>5, <2>1, Zenon
<1>7. \A i \in 1 .. at : w[i] = s[i]
  <2>1. \A i \in 1 .. at : i \in 1 .. at + n
    BY <1>1
  <2> QED
    BY ONLY <1>2, <1>5, <1>6, <2>1, Zenon
<1>8. \A i \in 1 .. n : w[at + i] = t[i]
  <2> SUFFICES ASSUME NEW i \in 1 .. n PROVE w[at + i] = t[i]
    OBVIOUS
  <2>1. at + i \in at + 1 .. at + n /\ at + i \in 1 .. at + n /\ (at + i) - at = i
    BY <1>1
  <2> QED
    BY <1>5, <1>6, <2>1
<1> QED
  BY <1>7, <1>8 DEF n

LEMMA PrepassHolds ==
  ASSUME cfg \in Configs, Supported, ~cfg.raw, PostType(post), UpType(up), NEW lines \in Nat,
         lines < OutputHeight, StripAt(post, lines), NEW rows, NEW group \in Nat,
         NEW base \in Int, NEW room, post.mode = "SAVE_AND_PASS", UpAt(up, lines, base + group),
         base + group \in Nat, RowsSeen(rows, base, group), UpHolds(up, lines),
         WholeHolds(post, lines)
  PROVE  PostHolds(Prepass(Started(group), rows), lines)
<1> DEFINE q == Started(group)
           space == strip_height - q.post.next_row
           got == upsample(q, rows, space)
           n == Len(got.rows)
           at == q.post.starting_row + q.post.next_row
           w == SubSeq(q.post.whole, 1, at) \o got.rows \o
                  SubSeq(q.post.whole, at + n + 1, Len(q.post.whole))
           p == [q.post EXCEPT !.next_row = @ + n,
                          !.whole = SubSeq(@, 1, at) \o got.rows \o
                                    SubSeq(@, at + n + 1, Len(@))]
           r == Prepass(q, rows)
<1>1. State(q) /\ q.up = up /\ q.group = group /\ q.post = post
  BY DEF State, Started
<1>2. strip_height \in 1 .. 4 /\ OutputHeight \in Nat
  BY RowsIs, ImageIs DEF strip_height
<1>3. /\ post.next_row \in 0 .. strip_height - 1 /\ post.starting_row + post.next_row = lines
      /\ enable_2pass
  BY DEF StripAt
<1>4. space \in Nat \ {0}
  BY <1>1, <1>2, <1>3
<1>5. r = [got EXCEPT !.post = NextStrip(p), !.rows = <<>>, !.count = n]
  BY Zenon DEF Prepass
<1>6. p = [q.post EXCEPT !.next_row = @ + n, !.whole = w]
  BY <1>1, Zenon
<1> HIDE DEF q, r, p, w
<1>7. Steps(q, got, lines, base, space)
  BY <1>1, <1>4, UpsampleSteps
<1>7a. Holds(got, lines)
  <2>1. /\ UpType(q.up) /\ UpAt(q.up, lines, base + q.group) /\ base + q.group \in Nat
        /\ RowsSeen(rows, base, q.group) /\ UpHolds(q.up, lines)
    BY <1>1
  <2> QED
    BY <1>1, <1>4, <2>1, UpsampleHolds
<1> HIDE DEF got
<1>8. /\ DOMAIN got = {"up", "post", "group", "rows", "count"}
      /\ IsSeq(got.rows) /\ n \in 1 .. space /\ lines + n <= OutputHeight
  BY <1>1, <1>7 DEF Steps, State
<1> HIDE DEF n
<1>9. n \in Nat /\ n <= strip_height - post.next_row
  BY <1>1, <1>2, <1>3, <1>8
<1>10. /\ IsSeq(post.whole) /\ Len(post.whole) \in Nat
       /\ Len(post.whole) = strip_height * Ceil(OutputHeight, strip_height)
  BY <1>3, SeqIs DEF PostType
<1>11. lines + n <= Len(post.whole)
  <2> DEFINE p2 == [post EXCEPT !.next_row = @ + n]
  <2>1. /\ DOMAIN p2 = DOMAIN post /\ p2.next_row = post.next_row + n /\ p2.mode = post.mode
        /\ p2.starting_row = post.starting_row /\ p2.whole = post.whole
    BY DEF PostType
  <2> HIDE DEF p2
  <2>2. IsSeq(p2.whole) /\ Len(p2.whole) = Len(post.whole) /\ post.mode # "PASS_THRU"
    BY <1>10, <2>1
  <2>3. lines + n <= strip_height * Ceil(OutputHeight, strip_height)
    BY <1>9, <2>1, <2>2, NextStripIs
  <2> QED
    BY <1>10, <2>3
<1>12. /\ \A i \in 1 .. lines : w[i] = post.whole[i]
       /\ \A i \in 1 .. n : w[lines + i] = got.rows[i]
  <2>1. w = SubSeq(post.whole, 1, lines) \o got.rows \o
              SubSeq(post.whole, lines + n + 1, Len(post.whole))
    BY <1>1, <1>3 DEF w
  <2> QED
    BY <1>8, <1>10, <1>11, <2>1, ReplacedIs DEF n
<1>13. p.mode = post.mode /\ p.whole = w /\ DOMAIN p = DOMAIN post
  BY <1>1, <1>6 DEF PostType
<1>14. NextStrip(p).mode = post.mode /\ NextStrip(p).whole = w
  BY <1>13 DEF NextStrip, PostType
<1>15. r.up = got.up /\ r.post = NextStrip(p) /\ r.count = n
  BY <1>5, <1>8
<1>16. WholeHolds(r.post, lines + n)
  <2> SUFFICES ASSUME NEW k \in 0 .. OutputHeight - 1, k < lines + n
               PROVE  w[k + 1] = OutputRow(k)
    BY <1>14, <1>15 DEF WholeHolds
  <2>1. CASE k < lines
    <3>1. k + 1 \in 1 .. lines /\ post.whole[k + 1] = OutputRow(k)
      BY <2>1 DEF WholeHolds
    <3> QED
      BY <1>12, <3>1
  <2>2. CASE k >= lines
    <3> DEFINE i == k + 1 - lines
    <3>1. i \in 1 .. n /\ lines + i = k + 1 /\ lines + (i - 1) = k
      BY <1>2, <1>9, <2>2
    <3> HIDE DEF i
    <3>2. got.rows[i] = OutputRow(k)
      <4>1. RowsAre(got.rows, lines)
        BY <1>7a DEF Holds
      <4>2. k < OutputHeight /\ i \in 1 .. Len(got.rows)
        BY <1>2, <3>1 DEF n
      <4>3. lines + (i - 1) < OutputHeight => got.rows[i] = OutputRow(lines + (i - 1))
        BY <4>1, <4>2 DEF RowsAre
      <4> QED
        BY <3>1, <4>2, <4>3
    <3> QED
      BY <1>12, <3>1, <3>2
  <2> QED
    BY <1>2, <2>1, <2>2
<1>17. lines + n < OutputHeight => UpHolds(r.up, lines + n)
  BY <1>7a, <1>15 DEF Holds, n
<1> QED
  BY <1>15, <1>16, <1>17 DEF PostHolds, q, r

LEMMA SecondHolds ==
  ASSUME cfg \in Configs, PostType(post), NEW lines \in Nat, lines < OutputHeight,
         StripAt(post, lines), NEW group \in Nat, NEW room \in Nat \ {0},
         post.mode = "CRANK_DEST", WholeHolds(post, lines)
  PROVE  PostHolds(SecondPass(Started(group), room), lines)
<1> DEFINE q == Started(group)
           n == Least(Least(strip_height - q.post.next_row, room),
                      OutputHeight - q.post.starting_row)
           at == q.post.starting_row + q.post.next_row
           p == [q.post EXCEPT !.next_row = @ + n]
           r == SecondPass(q, room)
<1>1. State(q) /\ q.up = up /\ q.group = group /\ q.post = post
  BY DEF State, Started
<1>2. strip_height \in 1 .. 4 /\ OutputHeight \in Nat /\ strip_height = MaxV
  BY RowsIs, ImageIs DEF strip_height
<1>3. /\ post.next_row \in 0 .. strip_height - 1 /\ post.starting_row + post.next_row = lines
      /\ enable_2pass /\ post.starting_row \in Nat
  BY DEF StripAt, PostType
<1>4. at = lines /\ n \in Nat \ {0} /\ n <= strip_height - post.next_row
      /\ n <= OutputHeight - post.starting_row
  BY <1>1, <1>2, <1>3 DEF Least
<1>5. r = [q EXCEPT !.rows = SubSeq(q.post.whole, at + 1, at + n), !.count = n,
                    !.post = NextStrip(p)]
  BY Zenon DEF SecondPass
<1>6. /\ r.up = up /\ r.post = NextStrip(p)
      /\ r.rows = SubSeq(post.whole, lines + 1, lines + n) /\ r.count = n
  <2>1. SubSeq(post.whole, lines + 1, lines + n) = SubSeq(q.post.whole, at + 1, at + n)
    <3> HIDE DEF n, q, at
    <3> QED
      BY <1>1, <1>4, Zenon
  <2> HIDE DEF n, q, p, r, at
  <2> QED
    BY <1>1, <1>5, <2>1 DEF State
<1> HIDE DEF n, r
<1>7. /\ DOMAIN p = DOMAIN post /\ p.next_row = post.next_row + n /\ p.mode = post.mode
      /\ p.starting_row = post.starting_row /\ p.whole = post.whole
  BY <1>1 DEF PostType
<1> HIDE DEF p, q
<1>8. /\ lines + n <= strip_height * Ceil(OutputHeight, strip_height)
      /\ NextStrip(p).mode = post.mode /\ NextStrip(p).whole = post.whole
  <2>1. n \in Nat /\ post.mode # "PASS_THRU" /\ IsSeq(p.whole) /\ Len(p.whole) = Len(post.whole)
    BY <1>4, <1>7 DEF PostType
  <2>2. /\ lines + n <= strip_height * Ceil(OutputHeight, strip_height)
        /\ NextStrip(p).mode = post.mode /\ NextStrip(p).whole = p.whole
    BY <1>4, <1>7, <2>1, NextStripIs
  <2> QED
    BY <1>7, <2>2
<1>9. Len(r.rows) = n /\ \A i \in 1 .. n : r.rows[i] = post.whole[lines + i]
  <2>1. IsSeq(post.whole) /\ lines + n <= Len(post.whole) /\ n \in Nat
    BY <1>3, <1>4, <1>8 DEF PostType
  <2>2. /\ Len(SubSeq(post.whole, lines + 1, lines + n)) = n
        /\ \A i \in 1 .. n : SubSeq(post.whole, lines + 1, lines + n)[i] = post.whole[lines + i]
    BY ONLY <2>1, SubIs, lines \in Nat
  <2> QED
    BY <1>6, <2>2
<1>10. RowsAre(r.rows, lines)
  <2> SUFFICES ASSUME NEW i \in 1 .. n, lines + (i - 1) < OutputHeight
               PROVE  r.rows[i] = OutputRow(lines + (i - 1))
    BY <1>9 DEF RowsAre
  <2> DEFINE k == lines + (i - 1)
  <2>1. k \in 0 .. OutputHeight - 1 /\ k + 1 = lines + i
    BY <1>2, <1>4
  <2> HIDE DEF k
  <2>2. post.whole[k + 1] = OutputRow(k)
    BY <2>1 DEF WholeHolds
  <2> QED
    BY <1>9, <2>1, <2>2 DEF k
<1>11. StripsEnd => lines + n <= OutputHeight
  <2> SUFFICES ASSUME OutputHeight % strip_height < 2 PROVE lines + n <= OutputHeight
    BY <1>3 DEF StripsEnd
  <2>1. PICK k \in 0 .. OutputHeight : post.starting_row = k * strip_height
    BY DEF StripAt
  <2>2. k * strip_height + post.next_row = lines /\ k * strip_height \in Nat
    BY <1>3, <2>1
  <2>3. \A s \in {1, 2, 3, 4} :
          s = strip_height => k * s + s <= OutputHeight \/ OutputHeight = k * s + 1
    <3> DEFINE H == OutputHeight
    <3>1. H \in Nat /\ k \in Nat /\ k * strip_height < H /\ H % strip_height < 2
      BY <1>2, <1>3, <2>2
    <3> HIDE DEF H
    <3>2. strip_height = 1 => k * 1 + 1 <= H
      BY <3>1
    <3>3. strip_height = 2 => k * 2 + 2 <= H \/ H = k * 2 + 1
      BY <3>1
    <3>4. strip_height = 3 => k * 3 + 3 <= H \/ H = k * 3 + 1
      BY <3>1
    <3>5. strip_height = 4 => k * 4 + 4 <= H \/ H = k * 4 + 1
      BY <3>1
    <3> QED
      BY <3>2, <3>3, <3>4, <3>5 DEF H
  <2>4. k * strip_height + strip_height <= OutputHeight \/ OutputHeight = k * strip_height + 1
    BY <1>2, <2>3
  <2> DEFINE a == k * strip_height
  <2>5. a \in Nat /\ a + post.next_row = lines /\ post.starting_row = a
        /\ (a + strip_height <= OutputHeight \/ OutputHeight = a + 1)
    BY <2>1, <2>2, <2>4
  <2> HIDE DEF a
  <2> QED
    BY <1>2, <1>3, <1>4, <2>5
<1>12. WholeHolds(r.post, lines + n)
  BY <1>6, <1>8 DEF WholeHolds
<1> QED
  BY <1>6, <1>9, <1>10, <1>11, <1>12 DEF PostHolds, q, r

LEMMA PostsHold ==
  ASSUME cfg \in Configs, Supported, ~cfg.raw, PostType(post), UpType(up), NEW lines \in Nat,
         lines < OutputHeight, StripAt(post, lines), NEW rows, NEW group \in Nat,
         NEW base \in Int, NEW room, post.mode # "SAVE_AND_PASS" => room \in Nat \ {0},
         WholeHolds(post, lines),
         post.mode # "CRANK_DEST" =>
           /\ UpAt(up, lines, base + group) /\ base + group \in Nat
           /\ RowsSeen(rows, base, group) /\ UpHolds(up, lines)
  PROVE  PostHolds(post_process_data(rows, group, room), lines)
<1>1. post.mode \in {"PASS_THRU", "SAVE_AND_PASS", "CRANK_DEST"}
  BY DEF PostType
<1>2. CASE post.mode = "PASS_THRU"
  <2>1. post_process_data(rows, group, room) = OnePass(Started(group), rows, room)
    BY <1>2 DEF post_process_data, Started
  <2> QED
    BY <1>2, <2>1, OnePassHolds
<1>3. CASE post.mode = "SAVE_AND_PASS"
  <2>1. post_process_data(rows, group, room) = Prepass(Started(group), rows)
    BY <1>3 DEF post_process_data, Started
  <2> QED
    BY <1>3, <2>1, PrepassHolds
<1>4. CASE post.mode = "CRANK_DEST"
  <2>1. post_process_data(rows, group, room) = SecondPass(Started(group), room)
    BY <1>4 DEF post_process_data, Started
  <2> QED
    BY <1>4, <2>1, SecondHolds
<1> QED
  BY <1>1, <1>2, <1>3, <1>4
-----------------------------------------------------------------------------
(* What the data are compared with depends on the image, which does not     *)
(* change.                                                                  *)
LEMMA DataKept ==
  ASSUME cfg' = cfg
  PROVE  /\ StripsEnd' <=> StripsEnd
         /\ \A c : Blocks(c)' = Blocks(c)
         /\ \A c, n : Wanted(c, n)' = Wanted(c, n)
         /\ \A m, row : Pointers(m, row)' <=> Pointers(m, row)
         /\ \A m, c, n, i : InPlace(m, c, n, i)' <=> InPlace(m, c, n, i)
         /\ \A m, c, n : Kept2(m, c, n)' <=> Kept2(m, c, n)
         /\ \A m, c, r, i, n : HasColumns(m, c, r, i, n)' <=> HasColumns(m, c, r, i, n)
         /\ \A c, r : Real(c, r)' <=> Real(c, r)
         /\ \A u, lines : UpHolds(u, lines)' <=> UpHolds(u, lines)
         /\ \A p, lines : WholeHolds(p, lines)' <=> WholeHolds(p, lines)
<1>1. /\ Comps' = Comps /\ Needed' = Needed /\ M' = M /\ MaxV' = MaxV
      /\ OutputHeight' = OutputHeight /\ total_iMCU_rows' = total_iMCU_rows
  BY ImageKept, SizesKept
<1>2. \A c : /\ DCT_scaled_size(c)' = DCT_scaled_size(c)
             /\ height_in_blocks(c)' = height_in_blocks(c)
             /\ iMCUheight(c)' = iMCUheight(c) /\ rgroup(c)' = rgroup(c)
             /\ Columns(c)' = Columns(c)
  BY SizesKept
<1>3. /\ need_context_rows' = need_context_rows /\ use_merged_upsample' = use_merged_upsample
      /\ enable_2pass' = enable_2pass /\ strip_height' = strip_height
      /\ \A c : FunnyPointers(c)' = FunnyPointers(c)
      /\ \A k : OutputRow(k)' = OutputRow(k)
      /\ \A c, r : WholeRow(c, r)' = WholeRow(c, r)
      /\ \A l, g : Wraparound(l, g)' = Wraparound(l, g)
      /\ \A l, c : Bottom(l, c)' = Bottom(l, c)
  BY ModulesKept
<1>4. StripsEnd' <=> StripsEnd
  BY <1>1, <1>3 DEF StripsEnd
<1>5. \A c : Blocks(c)' = Blocks(c)
  BY <1>2 DEF Blocks
<1>6. \A c, n : Wanted(c, n)' = Wanted(c, n)
  <2>1. \A c, n : InScans(c, n)' = InScans(c, n)
    BY DEF InScans
  <2> QED
    BY <2>1 DEF Wanted
<1>7. \A c, w, b : List(c, w, b)' = List(c, w, b)
  BY <1>2, <1>3 DEF List
<1>8. \A m, row : (Wrapped(m, row)' <=> Wrapped(m, row)) /\ (Bottomed(m, row)' <=> Bottomed(m, row))
  BY <1>1 DEF Wrapped, Bottomed
<1>9. \A m, row : Pointers(m, row)' <=> Pointers(m, row)
  <2> SUFFICES ASSUME NEW m, NEW row PROVE Pointers(m, row)' <=> Pointers(m, row)
    OBVIOUS
  <2>1. PICK x \in BOOLEAN : x = Wrapped(m, row)
    BY DEF Wrapped
  <2>2. Wrapped(m, row)' = x
    BY <1>8, <2>1 DEF Wrapped
  <2>3. \A c, w : List(c, w, Wrapped(m, row))' = List(c, w, Wrapped(m, row))
    BY <1>7, <2>1, <2>2
  <2>4. \A c, w : Bottom(List(c, w, Wrapped(m, row)), c)' = Bottom(List(c, w, Wrapped(m, row)), c)
    <3> SUFFICES ASSUME NEW c, NEW w
                 PROVE  Bottom(List(c, w, Wrapped(m, row)), c)' = Bottom(List(c, w, Wrapped(m, row)), c)
      OBVIOUS
    <3>1. PICK l : l = List(c, w, Wrapped(m, row))
      OBVIOUS
    <3>2. List(c, w, Wrapped(m, row))' = l
      BY <2>3, <3>1
    <3>3. Bottom(l, c)' = Bottom(l, c)
      BY <1>3
    <3> QED
      BY <3>1, <3>2, <3>3
  <2> QED
    BY <1>1, <1>3, <1>8, <2>3, <2>4 DEF Pointers
<1>10. \A c, i, w : Place(c, i, w)' = Place(c, i, w)
  BY <1>3 DEF Place
<1>11. \A c, r : Real(c, r)' <=> Real(c, r)
  BY <1>2 DEF Real
<1>12. \A m, c, n, i : InPlace(m, c, n, i)' <=> InPlace(m, c, n, i)
  BY <1>2, <1>3, <1>10, <1>11 DEF InPlace
<1>13. \A m, c, n : Kept2(m, c, n)' <=> Kept2(m, c, n)
  BY <1>1, <1>2, <1>3, <1>10 DEF Kept2
<1>14. \A m, c, r, i, n : HasColumns(m, c, r, i, n)' <=> HasColumns(m, c, r, i, n)
  BY <1>2, <1>10 DEF HasColumns
<1>15. \A u, lines : UpHolds(u, lines)' <=> UpHolds(u, lines)
  BY <1>1, <1>3 DEF UpHolds
<1>16. \A p, lines : WholeHolds(p, lines)' <=> WholeHolds(p, lines)
  BY <1>1, <1>3 DEF WholeHolds
<1> QED
  BY <1>4, <1>5, <1>6, <1>9, <1>11, <1>12, <1>13, <1>14, <1>15, <1>16
-----------------------------------------------------------------------------
(* Data that no step touched.                                               *)
LEMMA BufferKept ==
  ASSUME cfg' = cfg, input' = input \/ use_c_buffer
  PROVE  \A m, row : BufferAt(m, row)' <=> BufferAt(m, row)
<1>1. /\ Needed' = Needed /\ use_c_buffer' = use_c_buffer
      /\ \A c : iMCUheight(c)' = iMCUheight(c) /\ width_in_blocks(c)' = width_in_blocks(c)
                /\ DCT_scaled_size(c)' = DCT_scaled_size(c) /\ h(c)' = h(c)
  BY ImageKept, SizesKept, ModulesKept
<1>2. ASSUME input' = input
      PROVE  \A m, c, i, row : Partial(m, c, i, row)' <=> Partial(m, c, i, row)
  <2>1. Interleaved' = Interleaved
    BY <1>2 DEF Interleaved, Scan
  <2>2. \A c, i : ColumnsRead(c, i)' = ColumnsRead(c, i)
    BY <1>1, <1>2, <2>1 DEF ColumnsRead
  <2> QED
    BY <1>1, <2>2, DataKept DEF Partial
<1> QED
  BY <1>1, <1>2, DataKept DEF BufferAt

LEMMA CoefInvKept ==
  ASSUME CoefInv, cfg' = cfg, input' = input, coefs' = coefs PROVE CoefInv'
<1>1. /\ Comps' = Comps /\ use_c_buffer' = use_c_buffer
      /\ \A c : v(c)' = v(c) /\ h(c)' = h(c) /\ Blocks(c)' = Blocks(c)
      /\ \A c, n : Wanted(c, n)' = Wanted(c, n)
  BY ImageKept, ModulesKept, DataKept
<1>2. InScan' = InScan /\ Interleaved' = Interleaved
  BY DEF InScan, Interleaved, Scan
<1>3. \A c, b : Past(c, b)' <=> Past(c, b)
  BY <1>1, <1>2 DEF Past
<1> QED
  BY <1>1, <1>3 DEF CoefInv

LEMMA BufTypeKept ==
  ASSUME BufType, cfg' = cfg, main'.buf = main.buf PROVE BufType'
<1>1. Comps' = Comps /\ Groups' = Groups /\ \A c : rgroup(c)' = rgroup(c) /\ Columns(c)' = Columns(c)
  BY ImageKept, SizesKept, ModulesKept
<1> QED
  BY <1>1 DEF BufType

LEMMA PassDataKept ==
  ASSUME PassData, cfg' = cfg, main' = main, up' = up, post' = post, passes' = passes,
         output'.row = output.row, output'.scanline = output.scanline,
         \/ input' = input \/ use_c_buffer
         \/ ~(passes > 0 /\ ~main.crank /\ output.scanline < OutputHeight)
  PROVE  PassData'
<1>1. OutputHeight' = OutputHeight
  BY SizesKept
<1>2. passes' > 0 => WholeHolds(post, output.scanline)'
  BY DataKept DEF PassData
<1>3. passes' > 0 /\ ~main'.crank /\ output'.scanline < OutputHeight' =>
        /\ Pointers(main, output.row)' /\ BufferAt(main, output.row)'
        /\ UpHolds(up, output.scanline)'
  <2>1. passes > 0 /\ ~main.crank /\ output.scanline < OutputHeight =>
          /\ Pointers(main, output.row) /\ BufferAt(main, output.row)
          /\ UpHolds(up, output.scanline)
    BY DEF PassData
  <2> QED
    BY <1>1, <2>1, DataKept, BufferKept
<1> QED
  BY <1>2, <1>3 DEF PassData

LEMMA ShownDataKept ==
  ASSUME ShownData, cfg' = cfg, shown' = shown, call'.op = "read" => call.op = "read"
  PROVE  ShownData'
<1>1. /\ OutputHeight' = OutputHeight /\ Needed' = Needed /\ M' = M /\ MaxV' = MaxV
      /\ \A c : downsampled_height(c)' = downsampled_height(c) /\ iMCUheight(c)' = iMCUheight(c)
      /\ \A k : OutputRow(k)' = OutputRow(k)
      /\ \A c, r : WholeRow(c, r)' = WholeRow(c, r)
      /\ StripsEnd' <=> StripsEnd
  BY ImageKept, SizesKept, ModulesKept, DataKept
<1>2. (\A i : Line(i)' = Line(i)) /\ \A c, k : RawRow(c, k)' = RawRow(c, k)
  BY <1>1 DEF Line, RawRow
<1>3. ~cfg'.raw =>
        \A i \in DOMAIN shown'.rows :
          /\ Line(i)' < OutputHeight' => shown'.rows[i] = OutputRow(Line(i))'
          /\ StripsEnd' => Line(i)' < OutputHeight'
  <2> SUFFICES ASSUME ~cfg.raw, NEW i \in DOMAIN shown.rows
               PROVE  /\ Line(i)' < OutputHeight' => shown'.rows[i] = OutputRow(Line(i))'
                      /\ StripsEnd' => Line(i)' < OutputHeight'
    OBVIOUS
  <2>1. PICK k : k = Line(i)
    OBVIOUS
  <2>2. Line(i)' = k /\ OutputRow(k)' = OutputRow(k)
    BY <1>1, <1>2, <2>1
  <2>3. /\ k < OutputHeight => shown.rows[i] = OutputRow(k)
        /\ StripsEnd => k < OutputHeight
    BY <2>1 DEF ShownData
  <2> QED
    BY <1>1, <2>2, <2>3
<1>4. cfg'.raw =>
        /\ call'.op = "read" => shown'.rows = <<>>
        /\ \A i \in DOMAIN shown'.rows : \A c \in Needed' : \A k \in DOMAIN shown'.rows[i][c] :
             RawRow(c, k)' < downsampled_height(c)' =>
               shown'.rows[i][c][k] = WholeRow(c, RawRow(c, k))'
  <2> SUFFICES ASSUME cfg.raw
               PROVE  /\ call'.op = "read" => shown.rows = <<>>
                      /\ \A i \in DOMAIN shown.rows : \A c \in Needed :
                           \A k \in DOMAIN shown.rows[i][c] :
                             RawRow(c, k)' < downsampled_height(c)' =>
                               shown.rows[i][c][k] = WholeRow(c, RawRow(c, k))'
    BY <1>1
  <2>1. call'.op = "read" => shown.rows = <<>>
    BY DEF ShownData
  <2>2. ASSUME NEW i \in DOMAIN shown.rows, NEW c \in Needed, NEW k \in DOMAIN shown.rows[i][c],
               RawRow(c, k)' < downsampled_height(c)'
        PROVE  shown.rows[i][c][k] = WholeRow(c, RawRow(c, k))'
    <3>1. PICK r : r = RawRow(c, k)
      OBVIOUS
    <3>2. RawRow(c, k)' = r /\ WholeRow(c, r)' = WholeRow(c, r)
      BY <1>1, <1>2, <3>1
    <3>3. r < downsampled_height(c) => shown.rows[i][c][k] = WholeRow(c, r)
      BY <3>1 DEF ShownData
    <3> QED
      BY <1>1, <2>2, <3>2, <3>3
  <2> QED
    BY <2>1, <2>2
<1> QED
  BY <1>3, <1>4 DEF ShownData

(* Before the first MCU of an iMCU row nothing of it was read.              *)
LEMMA NothingRead ==
  ASSUME cfg \in Configs, input.vert = 0, input.mcu = 0, NEW m, NEW row
  PROVE  \A c \in Needed : \A i \in 0 .. iMCUheight(c) - 1 : Partial(m, c, i, row)
<1> SUFFICES ASSUME NEW c \in Needed, NEW i \in 0 .. iMCUheight(c) - 1
             PROVE  ColumnsRead(c, i) = 0
  BY DEF Partial
<1>1. c \in Comps /\ h(c) \in Nat /\ DCT_scaled_size(c) \in Nat \ {0}
  <2>1. c \in Comps /\ h(c) \in 1 .. 4
    BY ImageIs
  <2>2. DCT_scaled_size(c) \in Nat \ {0}
    BY <2>1, SizeIs
  <2> QED
    BY <2>1, <2>2
<1>2. i \div DCT_scaled_size(c) \in Nat
  <2> DEFINE s == DCT_scaled_size(c)
  <2>1. i \in Nat /\ s \in Nat \ {0}
    BY <1>1
  <2> HIDE DEF s
  <2>2. i \div s \in Nat
    BY <2>1
  <2> QED
    BY <2>2 DEF s
<1> QED
  BY <1>1, <1>2 DEF ColumnsRead
-----------------------------------------------------------------------------
(* Lines are made from data that are there.                                 *)
LEMMA ShowingIs ==
  ASSUME CountInv, DataInv, Processing
  PROVE  /\ ~main.crank => /\ Pointers(main, output.row) /\ BufferAt(main, output.row)
                           /\ UpHolds(up, output.scanline)
         /\ \A rows, group, base :
              group \in Nat /\ base \in Int
              /\ (~main.crank => /\ base + group = Consumed(main, output.row)
                                 /\ base + group \in Nat /\ RowsSeen(rows, base, group)) =>
                PostHolds(post_process_data(rows, group, Room), output.scanline)
<1>1. /\ cfg \in Configs /\ ~cfg.raw /\ passes > 0 /\ Supported
      /\ output.scanline \in Nat /\ output.scanline < OutputHeight
      /\ main.crank = (post.mode = "CRANK_DEST")
      /\ ~main.crank => UpAt(up, output.scanline, Consumed(main, output.row))
  BY ProcessingIs
<1>2. /\ MapInv /\ StateInv /\ CallInv /\ ShownType /\ UpType(up) /\ PostType(post) /\ PassInv
  BY DEF CountInv
<1>3. /\ WholeHolds(post, output.scanline)
      /\ ~main.crank => /\ Pointers(main, output.row) /\ BufferAt(main, output.row)
                        /\ UpHolds(up, output.scanline)
  BY <1>1 DEF DataInv, PassData
<1>4. StripAt(post, output.scanline)
  BY <1>1, <1>2 DEF PassInv
<1>5. post.mode # "SAVE_AND_PASS" => Room \in Nat \ {0}
  <2> SUFFICES ASSUME post.mode # "SAVE_AND_PASS" PROVE Room \in Nat \ {0}
    OBVIOUS
  <2>1. call.op = "read"
    <3>1. global_state \in {"PRESCAN", "SCANNING"}
      BY <1>2 DEF Processing, CallInv, MapInv, Gathering
    <3>2. quant.dummy = (post.mode = "SAVE_AND_PASS")
      BY <1>2, <3>1 DEF StateInv
    <3> QED
      BY <3>2 DEF Processing
  <2>2. call.max \in Nat /\ Len(shown.rows) < call.max
    BY <1>2, <2>1, SizesAssumption DEF CallInv
  <2>3. Len(shown.rows) \in Nat
    BY <1>2, SeqIs DEF ShownType
  <2> QED
    BY <2>2, <2>3 DEF Room
<1>6. ASSUME NEW rows, NEW group \in Nat, NEW base \in Int,
             ~main.crank => /\ base + group = Consumed(main, output.row)
                            /\ base + group \in Nat /\ RowsSeen(rows, base, group)
      PROVE  PostHolds(post_process_data(rows, group, Room), output.scanline)
  <2>1. post.mode # "CRANK_DEST" =>
          /\ UpAt(up, output.scanline, base + group) /\ base + group \in Nat
          /\ RowsSeen(rows, base, group) /\ UpHolds(up, output.scanline)
    BY <1>1, <1>3, <1>6
  <2> QED
    BY <1>1, <1>2, <1>3, <1>4, <1>5, <2>1, PostsHold
<1> QED
  BY <1>3, <1>6

LEMMA PostedData ==
  ASSUME CountInv, DataInv, Processing, NEW q, NEW returns \in BOOLEAN, Posted(q, returns),
         NEW base, NEW group, Posts(q, output.scanline, Room, base, group),
         PostHolds(q, output.scanline), main'.buf = main.buf, main'.crank = main.crank,
         ~main.crank /\ output.scanline + q.count < OutputHeight =>
           Pointers(main', output.row) /\ BufferAt(main', output.row)
  PROVE  DataInv'
<1> DEFINE L == output.scanline
           K == output.scanline + q.count
<1>1. /\ up' = q.up /\ post' = q.post /\ output' = [output EXCEPT !.scanline = @ + q.count]
      /\ shown' = [shown EXCEPT !.rows = @ \o q.rows]
      /\ call' = IF (call.op = "read" /\ returns) \/ q.count = 0 THEN Return("none") ELSE call
      /\ UNCHANGED <<cfg, global_state, input, coefs, coef_bits, quant, passes>>
  BY DEF Posted
<1>2. /\ MapInv /\ StateInv /\ CallInv /\ ShownType /\ OutputType
  BY DEF CountInv
<1>3. /\ cfg \in Configs /\ ~cfg.raw /\ L \in Nat /\ L < OutputHeight
      /\ main.crank = (post.mode = "CRANK_DEST")
  BY ProcessingIs
<1>4. /\ q.count \in Nat \ {0} /\ IsSeq(q.rows) /\ q.post.mode = post.mode
      /\ Len(q.rows) = IF post.mode = "SAVE_AND_PASS" THEN 0 ELSE q.count
  BY DEF Posts
<1>5. /\ post.mode # "SAVE_AND_PASS" =>
           RowsAre(q.rows, L) /\ (StripsEnd => L + Len(q.rows) <= OutputHeight)
      /\ WholeHolds(q.post, K)
      /\ post.mode # "CRANK_DEST" /\ K < OutputHeight => UpHolds(q.up, K)
  BY DEF PostHolds
<1>6. output'.scanline = K /\ output'.row = output.row
  BY <1>1, <1>2 DEF OutputType
<1>7. OutputHeight' = OutputHeight
  BY <1>1, SizesKept
<1>8. CoefInv' /\ BufType'
  BY <1>1, CoefInvKept, BufTypeKept DEF DataInv
<1>9. PassData'
  <2>1. WholeHolds(post, output.scanline)'
    BY <1>1, <1>5, <1>6, DataKept
  <2>2. ~main'.crank /\ K < OutputHeight =>
          /\ Pointers(main, output.row)' /\ BufferAt(main, output.row)'
          /\ UpHolds(up, output.scanline)'
    <3>1. ~main'.crank /\ K < OutputHeight =>
            Pointers(main', output.row) /\ BufferAt(main', output.row) /\ UpHolds(q.up, K)
      BY <1>3, <1>5
    <3> QED
      BY <1>1, <1>6, <3>1, DataKept, BufferKept
  <2> QED
    BY <1>6, <1>7, <2>1, <2>2 DEF PassData
<1>10. /\ shown'.from = shown.from /\ shown'.rows = shown.rows \o q.rows
       /\ IsSeq(shown.rows) /\ shown.from \in Nat /\ Len(shown.rows) \in Nat
       /\ Len(q.rows) \in Nat
  <2>1. IsSeq(shown.rows) /\ DOMAIN shown = {"from", "rows"} /\ shown.from \in Nat
    BY <1>2 DEF ShownType
  <2>2. Len(shown.rows) \in Nat /\ Len(q.rows) \in Nat
    BY <1>4, <2>1, SeqIs
  <2> QED
    BY <1>1, <2>1, <2>2
<1>11. \A i \in DOMAIN shown'.rows :
         /\ shown.from + i - 1 < OutputHeight => shown'.rows[i] = OutputRow(shown.from + i - 1)
         /\ StripsEnd => shown.from + i - 1 < OutputHeight
  <2>1. /\ IsSeq(shown.rows \o q.rows)
        /\ Len(shown.rows \o q.rows) = Len(shown.rows) + Len(q.rows)
        /\ \A i \in 1 .. Len(shown.rows) : (shown.rows \o q.rows)[i] = shown.rows[i]
        /\ \A i \in Len(shown.rows) + 1 .. Len(shown.rows) + Len(q.rows) :
             (shown.rows \o q.rows)[i] = q.rows[i - Len(shown.rows)]
    <3> DEFINE s == shown.rows
               t == q.rows
    <3>1. IsSeq(s) /\ IsSeq(t)
      BY <1>4, <1>10
    <3> HIDE DEF s, t
    <3>2. /\ IsSeq(s \o t) /\ Len(s \o t) = Len(s) + Len(t)
          /\ \A i \in 1 .. Len(s) : (s \o t)[i] = s[i]
          /\ \A i \in Len(s) + 1 .. Len(s) + Len(t) : (s \o t)[i] = t[i - Len(s)]
      BY ONLY <3>1, ConcatIs, Zenon
    <3> QED
      BY <3>2, Zenon DEF s, t
  <2>2. DOMAIN (shown.rows \o q.rows) = 1 .. Len(shown.rows) + Len(q.rows)
        /\ DOMAIN shown.rows = 1 .. Len(shown.rows)
    BY <1>10, <2>1, SeqIs
  <2> SUFFICES ASSUME NEW i \in 1 .. Len(shown.rows) + Len(q.rows)
               PROVE  /\ shown.from + i - 1 < OutputHeight =>
                           shown'.rows[i] = OutputRow(shown.from + i - 1)
                      /\ StripsEnd => shown.from + i - 1 < OutputHeight
    BY <1>10, <2>2
  <2>3. CASE i <= Len(shown.rows)
    <3>1. i \in 1 .. Len(shown.rows)
      BY <1>10, <2>3
    <3>2. /\ Line(i) < OutputHeight => shown.rows[i] = OutputRow(Line(i))
          /\ StripsEnd => Line(i) < OutputHeight
      BY <1>3, <2>2, <3>1 DEF DataInv, ShownData
    <3> QED
      BY <1>10, <2>1, <3>1, <3>2 DEF Line
  <2>4. CASE i > Len(shown.rows)
    <3> DEFINE j == i - Len(shown.rows)
    <3>1. /\ i \in Len(shown.rows) + 1 .. Len(shown.rows) + Len(q.rows)
          /\ j \in 1 .. Len(q.rows) /\ i = Len(shown.rows) + j
      <4> DEFINE a == Len(shown.rows)
                 b == Len(q.rows)
      <4>1. a \in Nat /\ b \in Nat /\ i \in 1 .. a + b /\ i > a
        BY <1>10, <2>4
      <4> HIDE DEF a, b
      <4>2. i \in a + 1 .. a + b /\ i - a \in 1 .. b /\ i = a + (i - a)
        BY ONLY <4>1
      <4> QED
        BY <4>2 DEF a, b
    <3>2. post.mode # "SAVE_AND_PASS"
      BY <1>4, <3>1
    <3>3. call.op = "read"
      <4>1. global_state \in {"PRESCAN", "SCANNING"}
        BY <1>2 DEF Processing, CallInv, MapInv, Gathering
      <4>2. quant.dummy = (post.mode = "SAVE_AND_PASS")
        BY <1>2, <4>1 DEF StateInv
      <4> QED
        BY <3>2, <4>2 DEF Processing
    <3>4. shown.from + Len(shown.rows) = L
      BY <1>2, <3>3 DEF CallInv
    <3>5. shown.from + i - 1 = L + (j - 1)
      BY <1>3, <1>10, <3>1, <3>4
    <3>6. shown'.rows[i] = q.rows[j]
      BY <1>10, <2>1, <3>1
    <3>7. L + (j - 1) < OutputHeight => q.rows[j] = OutputRow(L + (j - 1))
      BY <1>5, <3>1, <3>2 DEF RowsAre
    <3>8. StripsEnd => L + (j - 1) < OutputHeight
      <4>1. OutputHeight \in Nat
        BY <1>3, RowsIs
      <4>2. StripsEnd => L + Len(q.rows) <= OutputHeight
        BY <1>5, <3>2
      <4> QED
        BY <1>3, <1>10, <3>1, <4>1, <4>2
    <3> QED
      BY <3>5, <3>6, <3>7, <3>8, Zenon
  <2> QED
    BY <1>10, <2>3, <2>4
<1>12. ShownData'
  <2> SUFFICES ASSUME NEW i \in DOMAIN shown'.rows
               PROVE  /\ Line(i)' < OutputHeight' => shown'.rows[i] = OutputRow(Line(i))'
                      /\ StripsEnd' => Line(i)' < OutputHeight'
    BY <1>1, <1>3, Zenon DEF ShownData
  <2>1. PICK k : k = shown.from + i - 1
    OBVIOUS
  <2>2. Line(i)' = k
    BY <1>10, <2>1 DEF Line
  <2>3. OutputRow(k)' = OutputRow(k) /\ (StripsEnd' <=> StripsEnd)
    BY <1>1, ModulesKept, DataKept
  <2>4. (k < OutputHeight => shown'.rows[i] = OutputRow(k)) /\ (StripsEnd => k < OutputHeight)
    BY <1>11, <2>1
  <2> QED
    BY <1>7, <2>2, <2>3, <2>4
<1> QED
  BY <1>8, <1>9, <1>12 DEF DataInv
-----------------------------------------------------------------------------
(* Only what the buffer holds, and where, counts.                           *)
LEMMA SameBuffer ==
  ASSUME NEW m, NEW n, n.buf = m.buf, n.whichptr = m.whichptr, n.buffer_full = m.buffer_full
  PROVE  \A row : BufferAt(n, row) <=> BufferAt(m, row)
<1>1. \A c, k, i : InPlace(n, c, k, i) <=> InPlace(m, c, k, i)
  BY DEF InPlace
<1>2. \A c, k : Kept2(n, c, k) <=> Kept2(m, c, k)
  BY DEF Kept2
<1>3. \A c, i, row : Partial(n, c, i, row) <=> Partial(m, c, i, row)
  BY DEF Partial, HasColumns
<1> QED
  BY <1>1, <1>2, <1>3 DEF BufferAt

LEMMA SimpleData == ASSUME CountInv, DataInv, SimpleMain PROVE DataInv'
<1> DEFINE row == output.row
           L == output.scanline
           base == (row - 1) * M
           group == main.rowgroup_ctr
<1>1. Processing /\ ~main.crank /\ ~need_context_rows /\ main.buffer_full
  BY DEF SimpleMain
<1>2. PICK q : /\ q = post_process_data(InputRows(main), main.rowgroup_ctr, Room)
               /\ main' = AfterSimple(main, q.group) /\ Posted(q, TRUE)
  BY DEF SimpleMain
<1>3. /\ cfg \in Configs /\ ~cfg.raw /\ L \in Nat /\ L < OutputHeight /\ passes > 0
      /\ MainAt(main, row) /\ row \in 0 .. total_iMCU_rows /\ MainType(main)
  BY <1>1, ProcessingIs
<1>4. M \in Nat \ {0} /\ total_iMCU_rows \in Nat
  BY <1>3, ImageIs, RowsIs
<1>5. row >= 1 /\ group \in 0 .. M - 1 /\ Consumed(main, row) = base + group
  BY <1>1, <1>3, <1>4 DEF MainAt, MainType, Consumed
<1>6. base \in Nat /\ group \in Nat /\ base + group \in Nat
  <2>1. row - 1 \in Nat /\ row - 1 >= 0
    BY <1>3, <1>4, <1>5
  <2>2. base \in Nat
    BY <1>4, <2>1
  <2> QED
    BY <1>4, <1>5, <2>2
<1>7. Posts(q, L, Room, base, group)
  BY <1>1, <1>2, <1>5, <1>6, ProcessingIs
<1>8. BufferAt(main, row)
  BY <1>1, ShowingIs
<1>9. PostHolds(q, L)
  <2>1. RowsSeen(InputRows(main), base, group)
    BY <1>1, <1>3, <1>4, <1>5, <1>6, <1>8, SimpleSees
  <2> QED
    BY <1>1, <1>2, <1>5, <1>6, <2>1, ShowingIs
<1> DEFINE all == q.group >= M
<1>10. /\ main'.buffer_full = ~all /\ main'.crank = main.crank /\ main'.buf = main.buf
       /\ main'.whichptr = main.whichptr
  BY <1>2, <1>3 DEF AfterSimple, MainType
<1>11. Pointers(main', row)
  BY <1>1 DEF Pointers
<1>12. BufferAt(main', row)
  <2>1. CASE ~all
    BY <1>1, <1>8, <1>10, <2>1, SameBuffer
  <2>2. CASE all
    <3>1. ~use_c_buffer => input.vert = 0 /\ input.mcu = 0
      BY <1>1, <1>3 DEF CountInv, OnePassInv
    <3>2. ~use_c_buffer =>
            \A c \in Needed : \A i \in 0 .. iMCUheight(c) - 1 : Partial(main', c, i, row)
      BY <1>3, <3>1, NothingRead
    <3>3. \A c \in Needed : Kept2(main', c, row)
      BY <1>1 DEF Kept2
    <3> QED
      BY <1>10, <2>2, <3>2, <3>3 DEF BufferAt
  <2> QED
    BY <2>1, <2>2
<1> HIDE DEF base, group
<1> QED
  BY <1>1, <1>2, <1>7, <1>9, <1>10, <1>11, <1>12, PostedData

LEMMA PostponedData == ASSUME CountInv, DataInv, PostponedRow PROVE DataInv'
<1> DEFINE row == output.row
           L == output.scanline
           a == (row - 1) * M
           base == a - M - 2
           group == main.rowgroup_ctr
<1>1. /\ Processing /\ ~main.crank /\ need_context_rows /\ main.buffer_full
      /\ main.context_state = "POSTPONED"
  BY DEF PostponedRow
<1>2. PICK q : /\ q = post_process_data(InputRows(main), main.rowgroup_ctr, Room)
               /\ main' = AfterPostponed(main, q.group)
               /\ Posted(q, q.group < main.rowgroups_avail \/ q.count >= Room)
  BY DEF PostponedRow
<1>3. /\ cfg \in Configs /\ MainAt(main, row) /\ row \in 0 .. total_iMCU_rows /\ MainType(main)
      /\ Pointers(main, row) /\ BufferAt(main, row)
  BY <1>1, ProcessingIs, ShowingIs
<1>4. M \in Nat \ {0} /\ total_iMCU_rows \in Nat
  BY <1>3, ImageIs, RowsIs
<1>5. row >= 2 /\ group = M + 1 /\ group \in Nat /\ Consumed(main, row) = a - 1
  BY <1>1, <1>3, <1>4 DEF MainAt, MainType, Consumed
<1>6. a \in Nat \ {0}
  <2>1. row - 1 \in Nat \ {0}
    BY <1>3, <1>4, <1>5
  <2> DEFINE n == row - 1
  <2> HIDE DEF n
  <2>2. 1 \in Int /\ n \in Int /\ M \in Nat /\ 1 <= n
    <3>1. n \in Nat \ {0} /\ M \in Nat
      BY ONLY <1>4, <2>1, Zenon DEF n
    <3> QED
      BY ONLY <3>1
  <2>3. 1 * M <= n * M /\ n * M \in Int
    BY ONLY <2>2, FactorKeeps
  <2> QED
    BY <1>4, <2>3 DEF n
<1>7. RowsSeen(InputRows(main), base, group)
  <2>1. row \in Nat /\ row <= total_iMCU_rows
    BY <1>3, <1>4
  <2>2. RowsSeen(InputRows(main), (row - 1) * M - M - 2, M + 1)
    BY <1>1, <1>3, <2>1, PostponedSees
  <2> QED
    BY <1>5, <2>2
<1> HIDE DEF a
<1>8. base \in Int /\ base + group = a - 1 /\ base + group \in Nat
  BY <1>4, <1>5, <1>6
<1> HIDE DEF base, group
<1>9. Posts(q, L, Room, base, group) /\ PostHolds(q, L)
  BY <1>1, <1>2, <1>5, <1>7, <1>8, ProcessingIs, ShowingIs DEF group
<1>10. /\ main'.buffer_full = main.buffer_full /\ main'.buf = main.buf
       /\ main'.whichptr = main.whichptr /\ main'.crank = main.crank
       /\ main'.xbuffer = main.xbuffer /\ main'.context_state \in {"POSTPONED", "PREPARE"}
  BY <1>1, <1>2, <1>3 DEF AfterPostponed, MainType
<1>11. Pointers(main', row)
  <2>1. ~Bottomed(main, row) /\ ~Bottomed(main', row) /\ Wrapped(main, row) = Wrapped(main', row)
    BY <1>1, <1>10 DEF Bottomed, Wrapped
  <2> QED
    BY <1>3, <1>10, <2>1 DEF Pointers
<1>12. BufferAt(main', row)
  BY <1>3, <1>10, SameBuffer
<1> DEFINE returns == q.group < main.rowgroups_avail \/ q.count >= Room
<1>13. returns \in BOOLEAN /\ Posted(q, returns)
  BY <1>2
<1> HIDE DEF returns
<1> QED
  BY <1>1, <1>9, <1>10, <1>11, <1>12, <1>13, PostedData

LEMMA CrankData == ASSUME CountInv, DataInv, CrankPost PROVE DataInv'
<1>1. Processing /\ main.crank /\ main' = main
  BY DEF CrankPost
<1>2. PICK q : q = post_process_data(<<>>, 0, Room) /\ Posted(q, TRUE)
  BY DEF CrankPost
<1>3. Posts(q, output.scanline, Room, 0, 0) /\ PostHolds(q, output.scanline)
  <2>1. 0 \in Nat /\ 0 \in Int
    OBVIOUS
  <2> QED
    BY <1>1, <1>2, <2>1, ProcessingIs, ShowingIs
<1> QED
  BY <1>1, <1>2, <1>3, PostedData

(* Raw data: the whole iMCU row is given as it is in the buffer.            *)
LEMMA RawDataData == ASSUME CountInv, DataInv, RawData PROVE DataInv'
<1> DEFINE row == output.row
           L == output.scanline
           base == (row - 1) * M
<1>1. /\ call.op = "read" /\ cfg.raw /\ main.buffer_full
      /\ main' = [main EXCEPT !.buffer_full = FALSE]
      /\ output' = [output EXCEPT !.scanline = @ + MaxV * M]
      /\ shown' = [shown EXCEPT !.rows = <<main.buf>>]
      /\ call' = Return("none")
      /\ UNCHANGED <<cfg, global_state, input, coefs, coef_bits, up, post, quant, passes>>
  BY DEF RawData
<1>2. /\ MapInv /\ StateInv /\ CallInv /\ ShownType /\ OnePassInv /\ OutputType /\ MainType(main)
      /\ PassInv
  BY DEF CountInv
<1>3. cfg \in Configs /\ global_state = "SCANNING" /\ passes > 0 /\ L < OutputHeight
  BY <1>1, <1>2 DEF MapInv, CallInv, StateInv
<1>4. /\ M \in Nat \ {0} /\ MaxV \in Nat \ {0} /\ total_iMCU_rows \in Nat \ {0}
      /\ L \in Nat /\ row \in 0 .. total_iMCU_rows
  <2>1. M \in Nat \ {0} /\ MaxV \in 1 .. 4 /\ total_iMCU_rows \in Nat \ {0}
    BY <1>3, ImageIs, RowsIs
  <2>2. L \in Nat /\ row \in 0 .. total_iMCU_rows
    BY <1>2, <1>3, TotalIs DEF OutputType
  <2> QED
    BY <2>1, <2>2
<1>5. ~need_context_rows
  BY <1>1 DEF need_context_rows
<1>6. post.mode = "PASS_THRU" /\ ~main.crank
  BY <1>1, <1>2, <1>3 DEF PassInv, StripAt
<1>7. MainAt(main, row) /\ UpAt(up, L, Consumed(main, row)) /\ BufferAt(main, row)
      /\ WholeHolds(post, L)
  BY <1>2, <1>3, <1>6 DEF PassInv, DataInv, PassData
<1>8. row >= 1 /\ main.rowgroup_ctr = 0
  BY <1>1, <1>5, <1>7 DEF MainAt
<1>9. shown.from = L
  <2>1. shown.rows = <<>> /\ shown.from + Len(shown.rows) = L /\ shown.from \in Nat
    BY <1>1, <1>2 DEF DataInv, ShownData, CallInv, ShownType
  <2> QED
    BY <2>1
<1>10. L \div (MaxV * M) = row - 1
  <2>1. L = base * MaxV
    <3>1. base \in Int
      BY <1>4
    <3>2. Consumed(main, row) = base + 0
      BY <1>1, <1>5, <1>8 DEF Consumed
    <3> HIDE DEF base
    <3>3. L = (base + 0) * MaxV + 0
      BY <1>1, <1>7, <3>2 DEF UpAt, Made
    <3>4. base + 0 = base /\ base * MaxV \in Int
      BY <1>4, <3>1
    <3> QED
      BY <3>3, <3>4
  <2>2. L = (row - 1) * (MaxV * M) /\ MaxV * M \in Nat \ {0} /\ row - 1 \in Nat
    BY <1>4, <1>8, <2>1
  <2> DEFINE d == MaxV * M
             n == row - 1
  <2> HIDE DEF d, n
  <2>3. L = n * d + 0 /\ d \in Nat \ {0} /\ n \in Nat /\ 0 \in 0 .. d - 1
    BY <1>4, <2>2 DEF d, n
  <2>4. L \div d = n
    BY <1>4, <2>3, DivisionUnique
  <2> QED
    BY <2>4 DEF d, n
<1>11. /\ main'.buffer_full = FALSE /\ main'.buf = main.buf /\ main'.crank = main.crank
       /\ main'.whichptr = main.whichptr /\ output'.row = row
       /\ shown' = [from |-> L, rows |-> <<main.buf>>]
  BY <1>1, <1>2, <1>9 DEF MainType, OutputType, ShownType
<1>12. CoefInv' /\ BufType'
  BY <1>1, <1>11, CoefInvKept, BufTypeKept DEF DataInv
<1>13. PassData'
  <2>1. \A lines : WholeHolds(post, lines)'
    <3>1. \A lines : WholeHolds(post, lines)
      BY <1>6 DEF WholeHolds
    <3> QED
      BY <1>1, <3>1, DataKept
  <2>2. Pointers(main', row)
    BY <1>5 DEF Pointers
  <2>3. BufferAt(main', row)
    <3>1. ~use_c_buffer => input.vert = 0 /\ input.mcu = 0
      BY <1>1, <1>2, <1>3, <1>6 DEF OnePassInv
    <3>2. ~use_c_buffer =>
            \A c \in Needed : \A i \in 0 .. iMCUheight(c) - 1 : Partial(main', c, i, row)
      BY <1>3, <3>1, NothingRead
    <3>3. \A c \in Needed : Kept2(main', c, row)
      BY <1>5 DEF Kept2
    <3> QED
      BY <1>11, <3>2, <3>3 DEF BufferAt
  <2>4. \A lines : UpHolds(up, lines)'
    BY <1>1, DataKept DEF UpHolds
  <2>5. Pointers(main, row)' /\ BufferAt(main, row)'
    BY <1>1, <1>11, <2>2, <2>3, DataKept, BufferKept
  <2> QED
    BY <1>1, <1>11, <2>1, <2>4, <2>5 DEF PassData
<1>14. ShownData'
  <2>11. cfg'.raw /\ call'.op # "read" /\ Needed' = Needed
    BY <1>1, <1>2, ImageKept DEF Return, MapInv, CallType
  <2>12. DOMAIN shown'.rows = {1} /\ shown'.rows[1] = main.buf
    BY <1>11
  <2> SUFFICES ASSUME NEW i \in DOMAIN shown'.rows, NEW c \in Needed',
                      NEW k \in DOMAIN shown'.rows[i][c], RawRow(c, k)' < downsampled_height(c)'
               PROVE  shown'.rows[i][c][k] = WholeRow(c, RawRow(c, k))'
    BY <2>11, Zenon DEF ShownData
  <2>13. c \in Needed /\ i = 1 /\ k \in DOMAIN main.buf[c]
    BY <2>11, <2>12
  <2> DEFINE r == (row - 1) * iMCUheight(c) + k
  <2>1. MaxV' = MaxV /\ M' = M /\ iMCUheight(c)' = iMCUheight(c)
        /\ downsampled_height(c)' = downsampled_height(c)
    BY <1>1, ImageKept, SizesKept
  <2>2. RawRow(c, k)' = r
    BY <1>10, <1>11, <2>1 DEF RawRow
  <2>3. k \in 0 .. iMCUheight(c) - 1
    <3>1. c \in Comps /\ Groups = M
      BY <1>3, <1>5, <2>13, ImageIs DEF Groups
    <3>2. iMCUheight(c) = rgroup(c) * M
      BY <1>3, <3>1, SizeIs
    <3>3. DOMAIN main.buf[c] = 0 .. rgroup(c) * Groups - 1
      BY <3>1 DEF DataInv, BufType
    <3> QED
      BY <2>13, <3>1, <3>2, <3>3
  <2>4. r \in Int
    <3>1. iMCUheight(c) \in Nat
      <4>1. c \in Comps
        BY <1>3, <2>13, ImageIs
      <4> QED
        BY <1>3, <4>1, SizeIs
    <3> QED
      BY <1>4, <2>3, <3>1
  <2>5. Real(c, r)
    <3>1. c \in Comps /\ r < downsampled_height(c)
      BY <1>3, <2>13, <2>1, <2>2, ImageIs
    <3> HIDE DEF r
    <3> QED
      BY <1>3, <2>4, <3>1, RealIs
  <2>6. main.buf[c][k] = WholeRow(c, r)
    <3>1. InPlace(main, c, row - 1, k)
      BY <1>1, <1>7, <2>13, <2>3 DEF BufferAt
    <3>2. Place(c, k, main.whichptr) = k
      BY <1>5 DEF Place
    <3> QED
      BY <2>5, <3>1, <3>2 DEF InPlace
  <2>7. \A x : WholeRow(c, x)' = WholeRow(c, x)
    BY <1>1, ModulesKept
  <2>8. PICK x : x = r
    OBVIOUS
  <2>9. WholeRow(c, RawRow(c, k))' = WholeRow(c, x)
    BY <2>2, <2>7, <2>8
  <2> QED
    BY <2>12, <2>13, <2>6, <2>8, <2>9, Zenon
<1> QED
  BY <1>12, <1>13, <1>14 DEF DataInv
-----------------------------------------------------------------------------
(* The pointers of a prepared iMCU row.                                     *)
LEMMA PreparedHolds ==
  ASSUME cfg \in Configs, need_context_rows, main.buffer_full, main.context_state # "POSTPONED",
         MainType(main), MainAt(main, output.row),
         Pointers(main, output.row), BufferAt(main, output.row)
  PROVE  /\ Pointers(Prepared, output.row) /\ BufferAt(Prepared, output.row)
         /\ Prepared.buf = main.buf
<1>1. CASE main.context_state # "PREPARE"
  BY <1>1 DEF Prepared
<1>2. CASE main.context_state = "PREPARE"
  <2> DEFINE m == Prepared
             row == output.row
  <2>1. /\ m.buf = main.buf /\ m.whichptr = main.whichptr /\ m.buffer_full = main.buffer_full
        /\ m.context_state = "PROCESS" /\ main.whichptr \in 1 .. 2
        /\ m.xbuffer = IF ~AtBottom(main) THEN main.xbuffer
                       ELSE [c \in Comps |-> [main.xbuffer[c] EXCEPT
                                                ![main.whichptr] = Bottom(@, c)]]
    BY <1>2 DEF Prepared, Prepare, MainType
  <2>2. AtBottom(main) <=> row = total_iMCU_rows
    BY DEF AtBottom, MainAt
  <2>3. BufferAt(m, row)
    BY <2>1, SameBuffer
  <2>4. /\ ~Bottomed(main, row) /\ (Bottomed(m, row) <=> AtBottom(main))
        /\ Wrapped(m, row) = Wrapped(main, row)
    BY <1>2, <2>1, <2>2 DEF Bottomed, Wrapped
  <2> HIDE DEF m
  <2>5. \A c \in Comps : /\ DOMAIN main.xbuffer[c] = 1 .. 2
                         /\ \A w \in 1 .. 2 : main.xbuffer[c][w] = List(c, w, Wrapped(main, row))
    BY <2>4 DEF Pointers
  <2>6. ASSUME ~AtBottom(main) PROVE Pointers(m, row)
    BY <2>1, <2>4, <2>5, <2>6 DEF Pointers
  <2>7. ASSUME AtBottom(main) PROVE Pointers(m, row)
    <3> SUFFICES ASSUME NEW c \in Comps
                 PROVE  /\ DOMAIN m.xbuffer[c] = 1 .. 2
                        /\ \A w \in 1 .. 2 :
                             m.xbuffer[c][w] = IF Bottomed(m, row) /\ w = m.whichptr
                                               THEN Bottom(List(c, w, Wrapped(m, row)), c)
                                               ELSE List(c, w, Wrapped(m, row))
      BY DEF Pointers
    <3>1. m.xbuffer[c] = [main.xbuffer[c] EXCEPT ![main.whichptr] = Bottom(@, c)]
      BY <2>1, <2>7
    <3> QED
      BY <2>1, <2>4, <2>5, <2>7, <3>1
  <2> QED
    BY <2>1, <2>3, <2>6, <2>7 DEF m
<1> QED
  BY <1>1, <1>2

(* The buffer is swapped: the last two row groups of the iMCU row that was  *)
(* processed stay for the next one.                                         *)
LEMMA SwappedHolds ==
  ASSUME cfg \in Configs, need_context_rows, NEW m, MainType(m), m.buffer_full,
         NEW row \in Nat, row >= 1, row < total_iMCU_rows, BufferAt(m, row),
         NEW n, n.buf = m.buf, n.whichptr = 3 - m.whichptr
  PROVE  \A c \in Needed : Kept2(n, c, row)
<1> SUFFICES ASSUME NEW c \in Needed, NEW i \in rgroup(c) * M .. rgroup(c) * (M + 2) - 1
             PROVE  n.buf[c][Place(c, i, n.whichptr)] =
                      WholeRow(c, (row - 1) * iMCUheight(c) + i - 2 * rgroup(c))
  BY DEF Kept2
<1> DEFINE g == rgroup(c)
           p == iMCUheight(c)
           w == n.whichptr
           q == (row - 1) * p
<1>1. /\ c \in Comps /\ g \in Nat \ {0} /\ p = g * M /\ p \in Nat /\ p >= 2 * g
      /\ g * (M + 2) = p + 2 * g
  <2>1. c \in Comps
    BY ImageIs
  <2> QED
    BY <2>1, ReachIs
<1>2. i \in p .. p + 2 * g - 1
  BY <1>1
<1>3. w \in 1 .. 2 /\ 3 - w = m.whichptr /\ 3 - w \in 1 .. 2
  BY DEF MainType
<1>4. Place(c, i, w) = Place(c, i - 2 * g, m.whichptr)
  <2>1. FunnyPointers(c)[w][i] = FunnyPointers(c)[3 - w][i - 2 * g]
    <3>1. \A j \in p .. p + 2 * g - 1 : FunnyPointers(c)[w][j] = FunnyPointers(c)[3 - w][j - 2 * g]
      <4> HIDE DEF w
      <4>1. cfg \in Configs /\ need_context_rows /\ c \in Comps /\ w \in 1 .. 2
        BY <1>1, <1>3
      <4> QED
        BY ONLY <4>1, FunnyIs, Zenon
    <3> QED
      BY <1>2, <3>1, Zenon
  <2> QED
    BY <1>3, <2>1 DEF Place
<1> DEFINE k == i - 2 * g
<1>5. k \in 0 .. p - 1
  <2> HIDE DEF g, p
  <2> QED
    BY <1>1, <1>2
<1>6. q \in Int /\ q + p = row * p /\ row * p <= (total_iMCU_rows - 1) * p
      /\ (total_iMCU_rows - 1) * p \in Int
  <2>1. total_iMCU_rows \in Nat
    BY RowsIs
  <2>2. row \in Int /\ total_iMCU_rows - 1 \in Int /\ row <= total_iMCU_rows - 1 /\ p \in Nat
    BY <1>1, <2>1
  <2> HIDE DEF p
  <2>3. row * p <= (total_iMCU_rows - 1) * p /\ (total_iMCU_rows - 1) * p \in Int
    BY <2>2, FactorKeeps
  <2> QED
    BY <2>2, <2>3
<1> HIDE DEF q
<1>7. q + k < downsampled_height(c) /\ q + k \in Int
  <2>1. (total_iMCU_rows - 1) * p < downsampled_height(c) /\ downsampled_height(c) \in Nat
    BY <1>1, ComponentIs
  <2> HIDE DEF p, k
  <2>2. q + k < q + p /\ q + k \in Int
    BY <1>1, <1>5, <1>6
  <2> DEFINE a == row * p
             b == (total_iMCU_rows - 1) * p
  <2>3. a <= b /\ q + p = a /\ b < downsampled_height(c) /\ a \in Int /\ b \in Int
    BY <1>1, <1>6, <2>1
  <2> HIDE DEF a, b
  <2> QED
    BY <2>1, <2>2, <2>3
<1>8. m.buf[c][Place(c, k, m.whichptr)] = WholeRow(c, q + k)
  <2>1. Real(c, q + k)
    BY <1>1, <1>7, RealIs
  <2>2. InPlace(m, c, row - 1, k)
    BY <1>5 DEF BufferAt
  <2> QED
    BY <2>1, <2>2 DEF InPlace, q
<1>9. q + k = q + i - 2 * g
  <2> HIDE DEF g
  <2> QED
    BY <1>1, <1>2, <1>6
<1> QED
  BY <1>4, <1>8, <1>9 DEF q

(* The pointers after the swap, with the wraparound pointers from the first *)
(* one on.                                                                  *)
LEMMA NextPointers ==
  ASSUME cfg \in Configs, need_context_rows, NEW m, MainType(m), m.buffer_full,
         NEW row \in Nat, row >= 1, row < total_iMCU_rows, m.iMCU_row_ctr = row,
         Pointers(m, row)
  PROVE  Pointers(NextBuffer(m), row)
<1> DEFINE n == NextBuffer(m)
<1>1. /\ n.buffer_full = FALSE
      /\ n.xbuffer = IF row # 1 THEN m.xbuffer
                     ELSE [c \in Comps |-> [w \in 1 .. 2 |-> Wraparound(m.xbuffer[c][w], rgroup(c))]]
  BY DEF NextBuffer, MainType
<1> HIDE DEF n
<1>2. ~Bottomed(n, row) /\ ~Bottomed(m, row) /\ Wrapped(n, row) /\ (Wrapped(m, row) <=> row > 1)
  <2>1. total_iMCU_rows \in Nat
    BY RowsIs
  <2> QED
    BY <1>1, <2>1 DEF Bottomed, Wrapped
<1>3. \A c \in Comps : /\ DOMAIN m.xbuffer[c] = 1 .. 2
                       /\ \A w \in 1 .. 2 : m.xbuffer[c][w] = List(c, w, row > 1)
  <2>1. \A c \in Comps : /\ DOMAIN m.xbuffer[c] = 1 .. 2
                         /\ \A w \in 1 .. 2 : m.xbuffer[c][w] = List(c, w, Wrapped(m, row))
    BY <1>2, Zenon DEF Pointers
  <2> QED
    BY <1>2, <2>1 DEF List
<1>4. \A c \in Comps : /\ DOMAIN n.xbuffer[c] = 1 .. 2
                       /\ \A w \in 1 .. 2 : n.xbuffer[c][w] = List(c, w, TRUE)
  <2>1. CASE row = 1
    BY <1>1, <1>3, <2>1 DEF List
  <2>2. CASE row # 1
    BY <1>1, <1>3, <2>2 DEF List
  <2> QED
    BY <2>1, <2>2
<1>5. \A c, w : List(c, w, Wrapped(n, row)) = List(c, w, TRUE)
  BY <1>2 DEF List
<1>6. Pointers(n, row)
  BY <1>2, <1>4, <1>5, Zenon DEF Pointers
<1> QED
  BY <1>6 DEF n

LEMMA ProcessData == ASSUME CountInv, DataInv, ProcessRows PROVE DataInv'
<1> DEFINE row == output.row
           L == output.scanline
           m == Prepared
           base == (row - 1) * M
           group == m.rowgroup_ctr
<1>1. /\ Processing /\ ~main.crank /\ need_context_rows /\ main.buffer_full
      /\ main.context_state # "POSTPONED"
  BY DEF ProcessRows
<1>2. PICK q : /\ q = post_process_data(InputRows(m), m.rowgroup_ctr, Room)
               /\ main' = AfterProcess(m, q.group) /\ Posted(q, TRUE)
  BY DEF ProcessRows, Prepared
<1>3. /\ cfg \in Configs /\ L \in Nat /\ passes > 0 /\ L < OutputHeight
      /\ MainAt(main, row) /\ row \in 0 .. total_iMCU_rows /\ MainType(main)
      /\ post.mode # "CRANK_DEST" /\ Pointers(main, row) /\ BufferAt(main, row)
  BY <1>1, ProcessingIs, ShowingIs
<1>4. M \in Nat /\ M >= 2 /\ BottomGroups \in 1 .. M /\ total_iMCU_rows \in Nat \ {0}
  BY <1>1, <1>3, ImageIs, RowsIs, BottomIs, ContextIs
<1>5. /\ MainType(m) /\ MainAt(m, row) /\ Consumed(m, row) = Consumed(main, row)
      /\ m.context_state = "PROCESS" /\ m.buffer_full /\ m.crank = main.crank
      /\ Pointers(m, row) /\ BufferAt(m, row) /\ m.buf = main.buf
  BY <1>1, <1>3, PreparedIs, PreparedHolds
<1> HIDE DEF m
<1>6. /\ row >= 1 /\ row \in Nat /\ row <= total_iMCU_rows /\ group \in Nat
      /\ group < m.rowgroups_avail
      /\ m.rowgroups_avail = IF row = total_iMCU_rows THEN BottomGroups ELSE M - 1
      /\ m.iMCU_row_ctr = row /\ Consumed(m, row) = base + group
  BY <1>1, <1>3, <1>4, <1>5 DEF MainAt, MainType, Consumed
<1>7. base \in Nat /\ base + group \in Nat
  <2>1. row - 1 \in Nat
    BY <1>6
  <2>2. base \in Nat
    BY <1>4, <2>1
  <2> QED
    BY <1>6, <2>2
<1>8. RowsSeen(InputRows(m), base, group)
  BY <1>1, <1>3, <1>5, <1>6, ProcessSees
<1> HIDE DEF base
<1>9. base \in Int
  BY <1>7
<1>10. Posts(q, L, Room, base, group) /\ PostHolds(q, L)
  BY <1>1, <1>2, <1>5, <1>6, <1>7, <1>8, <1>9, ProcessingIs, ShowingIs
<1>11. CASE q.group < m.rowgroups_avail
  <2>1. main' = [m EXCEPT !.rowgroup_ctr = q.group]
    BY <1>2, <1>11 DEF AfterProcess
  <2>2. /\ main'.buffer_full = m.buffer_full /\ main'.crank = m.crank
        /\ main'.whichptr = m.whichptr /\ main'.context_state = m.context_state
        /\ main'.buf = m.buf /\ main'.xbuffer = m.xbuffer
    BY <1>5, <2>1 DEF MainType
  <2>3. Pointers(main', row)
    <3>1. Bottomed(main', row) = Bottomed(m, row) /\ Wrapped(main', row) = Wrapped(m, row)
      BY <2>2 DEF Bottomed, Wrapped
    <3> QED
      BY <1>5, <2>2, <3>1 DEF Pointers
  <2>4. BufferAt(main', row)
    BY <1>5, <2>2, SameBuffer
  <2> HIDE DEF group
  <2> QED
    BY <1>1, <1>2, <1>5, <1>10, <2>2, <2>3, <2>4, PostedData
<1>12. CASE ~(q.group < m.rowgroups_avail)
  <2>1. main' = NextBuffer(m)
    BY <1>2, <1>12 DEF AfterProcess
  <2>2. /\ main'.buffer_full = FALSE /\ main'.crank = m.crank /\ main'.buf = m.buf
        /\ main'.whichptr = 3 - m.whichptr
    BY <1>5, <2>1 DEF NextBuffer, MainType
  <2>3. ASSUME L + q.count < OutputHeight
        PROVE  Pointers(main', row) /\ BufferAt(main', row)
    <3>1. row < total_iMCU_rows
      <4> SUFFICES ASSUME row = total_iMCU_rows PROVE FALSE
        BY <1>4, <1>6
      <4>1. /\ q.group \in {group, group + 1} /\ q.count \in Nat
            /\ UpAt(q.up, L + q.count, base + q.group) /\ UpType(q.up)
        BY <1>3, <1>10 DEF Posts
      <4>2. q.group = BottomGroups
        BY <1>4, <1>6, <1>12, <4>1
      <4>3. base + q.group = (total_iMCU_rows - 1) * M + BottomGroups
        BY <4>2 DEF base
      <4>4. L + q.count \in Nat /\ base + q.group \in Int
        BY <1>3, <1>4, <1>7, <4>1, <4>2
      <4>5. base + q.group < (total_iMCU_rows - 1) * M + BottomGroups
        BY <1>3, <2>3, <4>1, <4>4, GroupsLeft
      <4> QED
        BY <4>3, <4>4, <4>5
    <3>2. Pointers(main', row)
      BY <1>1, <1>3, <1>5, <1>6, <2>1, <3>1, NextPointers
    <3>3. \A c \in Needed : Kept2(main', c, row)
      BY <1>1, <1>3, <1>5, <1>6, <2>2, <3>1, SwappedHolds
    <3>4. ~use_c_buffer => input.vert = 0 /\ input.mcu = 0
      BY <1>1, <1>3 DEF CountInv, OnePassInv
    <3>5. ~use_c_buffer =>
            \A c \in Needed : \A i \in 0 .. iMCUheight(c) - 1 : Partial(main', c, i, row)
      BY <1>3, <3>4, NothingRead
    <3>6. BufferAt(main', row)
      BY <2>2, <3>3, <3>5 DEF BufferAt
    <3> QED
      BY <3>2, <3>6
  <2> HIDE DEF group
  <2> QED
    BY <1>1, <1>2, <1>5, <1>10, <2>2, <2>3, PostedData
<1> QED
  BY <1>11, <1>12
-----------------------------------------------------------------------------
(* The calls that leave the data alone.                                     *)
LEMMA IdleData ==
  ASSUME DataInv, cfg' = cfg, UNCHANGED <<input, coefs, output, main, up, post, passes, shown>>,
         call'.op = "read" => call.op = "read"
  PROVE  DataInv'
<1>1. CoefInv' /\ BufType'
  BY CoefInvKept, BufTypeKept DEF DataInv
<1>2. PassData'
  BY PassDataKept DEF DataInv
<1>3. ShownData'
  BY ShownDataKept DEF DataInv
<1> QED
  BY <1>1, <1>2, <1>3 DEF DataInv

LEMMA QuietData ==
  ASSUME CountInv, DataInv,
         \/ Suspend \/ ConsumeInput \/ CallAgain \/ FinishOutput \/ OutputFinished
         \/ FinishDecompress \/ Finished \/ SetupDone \/ jpeg_new_colormap \/ StartDecompress
         \/ \E two \in BOOLEAN : Requantize(two)
  PROVE  DataInv'
<1>1. cfg' = cfg /\ UNCHANGED <<input, coefs, output, main, up, post, passes, shown>>
  BY DEF Suspend, ConsumeInput, CallAgain, FinishOutput, OutputFinished, FinishDecompress, Finished,
         SetupDone, jpeg_new_colormap, StartDecompress, Requantize, pipe
<1>2. call' = call \/ \E op \in Ops \ {"read"} : call' = Return(op)
  <2>1. Suspend => call' = Return("none")
    BY DEF Suspend
  <2>2. ConsumeInput => call' = Return("consume")
    BY DEF ConsumeInput
  <2>3. CallAgain => \/ call' = Return("preload") \/ call' = Return("setup")
                     \/ call' = Return("finish_output") \/ call' = Return("finish")
    BY DEF CallAgain
  <2>4. FinishOutput => call' = Return("finish_output")
    BY DEF FinishOutput
  <2>5. OutputFinished => call' = Return("none")
    BY DEF OutputFinished
  <2>6. FinishDecompress => call' = Return("finish")
    BY DEF FinishDecompress
  <2>7. Finished => call' = Return("none")
    BY DEF Finished
  <2>8. SetupDone => call' = Return("none")
    BY DEF SetupDone
  <2>9. jpeg_new_colormap \/ (\E two \in BOOLEAN : Requantize(two)) => call' = call
    BY DEF jpeg_new_colormap, Requantize
  <2>10. StartDecompress => call' = call \/ call' = Return("none") \/ call' = Return("preload")
    BY DEF StartDecompress
  <2>11. {"none", "consume", "preload", "setup", "finish_output", "finish"} \subseteq Ops \ {"read"}
    BY DEF Ops
  <2> QED
    BY <2>1, <2>2, <2>3, <2>4, <2>5, <2>6, <2>7, <2>8, <2>9, <2>10, <2>11
<1>3. call'.op = "read" => call.op = "read"
  BY <1>2 DEF CountInv, MapInv, CallType, Return
<1> QED
  BY <1>1, <1>3, IdleData

LEMMA ReadData ==
  ASSUME CountInv, DataInv, NEW n \in LinesAsked, ReadScanlines(n) PROVE DataInv'
<1>1. /\ shown' = [from |-> output.scanline, rows |-> <<>>]
      /\ UNCHANGED <<cfg, input, coefs, output, main, up, post, passes>>
  BY DEF ReadScanlines, pipe
<1>2. CoefInv' /\ BufType'
  BY <1>1, CoefInvKept, BufTypeKept DEF DataInv
<1>3. PassData'
  BY <1>1, PassDataKept DEF DataInv
<1>4. ShownData'
  <2>1. shown'.rows = <<>> /\ DOMAIN shown'.rows = {}
    BY <1>1
  <2> QED
    BY <2>1 DEF ShownData
<1> QED
  BY <1>2, <1>3, <1>4 DEF DataInv

(* The second pass of the quantizer starts when the whole image is kept.    *)
LEMMA DummyData == ASSUME CountInv, DataInv, EndDummyPass PROVE DataInv'
<1>1. /\ global_state = "PRESCAN" /\ quant.dummy /\ output.scanline >= OutputHeight
      /\ post' = [post EXCEPT !.mode = "CRANK_DEST", !.starting_row = 0, !.next_row = 0]
      /\ main' = [main EXCEPT !.crank = TRUE]
      /\ output' = [output EXCEPT !.scanline = 0]
      /\ UNCHANGED <<cfg, call, input, coefs, up, shown, passes>>
  BY DEF EndDummyPass
<1>2. /\ MapInv /\ StateInv /\ OutputType /\ MainType(main) /\ PostType(post) /\ cfg \in Configs
  BY DEF CountInv, MapInv
<1>3. passes > 0 /\ post.mode = "SAVE_AND_PASS"
  BY <1>1, <1>2 DEF StateInv
<1>4. OutputHeight \in Nat /\ output.scanline \in Nat
  BY <1>2, RowsIs, TotalIs DEF OutputType
<1>5. main'.crank = TRUE /\ main'.buf = main.buf /\ output'.scanline = 0
      /\ post'.whole = post.whole
  BY <1>1, <1>2 DEF MainType, OutputType, PostType
<1>6. CoefInv' /\ BufType'
  BY <1>1, <1>5, CoefInvKept, BufTypeKept DEF DataInv
<1>7. WholeHolds(post', 0)
  <2>1. WholeHolds(post, output.scanline)
    BY <1>3 DEF DataInv, PassData
  <2>2. \A k \in 0 .. OutputHeight - 1 : post.whole[k + 1] = OutputRow(k)
    BY <1>1, <1>3, <1>4, <2>1 DEF WholeHolds
  <2> QED
    BY <1>5, <2>2 DEF WholeHolds
<1>8. PassData'
  <2>1. WholeHolds(post, output.scanline)'
    BY <1>1, <1>5, <1>7, DataKept
  <2> QED
    BY <1>5, <2>1 DEF PassData
<1>9. ShownData'
  BY <1>1, ShownDataKept DEF DataInv
<1> QED
  BY <1>6, <1>8, <1>9 DEF DataInv

(* A pass starts with an empty upsampler and the pointers as made.          *)
LEMMA NewPassData ==
  ASSUME CountInv, DataInv, NEW scan, PreparePass(scan),
         UNCHANGED <<cfg, input, coefs, shown>>,
         use_c_buffer \/ (input.vert = 0 /\ input.mcu = 0),
         call' = Return("setup") \/ call' = Return("none")
  PROVE  DataInv'
<1>1. /\ MapInv /\ StateInv /\ MainType(main) /\ PostType(post) /\ cfg \in Configs
  BY DEF CountInv, MapInv
<1>2. call'.op # "read"
  BY <1>1 DEF MapInv, CallType, Return
<1>3. CASE Chooses /\ Active = "1pass" /\ ~enable_1pass
  BY <1>2, <1>3, IdleData DEF PreparePass
<1>4. CASE ~(Chooses /\ Active = "1pass" /\ ~enable_1pass)
  <2> DEFINE dummy == Chooses /\ Active = "2pass"
  <2>1. /\ post' = [post EXCEPT !.mode = IF dummy THEN "SAVE_AND_PASS" ELSE "PASS_THRU",
                                !.starting_row = 0, !.next_row = 0]
        /\ main' = StartMain(main) /\ up' = NewUp
        /\ output' = [scan |-> scan, row |-> 0, scanline |-> 0,
                      smooth |-> use_c_buffer /\ cfg.smoothing /\ smoothing_ok]
    BY <1>4 DEF PreparePass
  <2>2. post'.mode # "CRANK_DEST" /\ output'.row = 0 /\ output'.scanline = 0
    BY <1>1, <2>1 DEF PostType
  <2>3. /\ main'.whichptr = 1 /\ main'.buffer_full = FALSE /\ main'.buf = main.buf
        /\ main'.xbuffer = IF need_context_rows THEN [c \in Comps |-> FunnyPointers(c)] ELSE <<>>
    BY <1>1, <2>1 DEF StartMain, MainType
  <2>4. up'.next_row_out = MaxV /\ up'.spare = <<>>
    BY <2>1 DEF NewUp
  <2>5. CoefInv' /\ BufType'
    BY <2>3, CoefInvKept, BufTypeKept DEF DataInv
  <2>6. WholeHolds(post', 0) /\ UpHolds(up', 0)
    <3>1. MaxV \in 1 .. 4
      BY <1>1, ImageIs
    <3> QED
      BY <2>2, <2>4, <3>1 DEF WholeHolds, UpHolds
  <2>7. Pointers(main', 0)
    <3> SUFFICES ASSUME need_context_rows PROVE Pointers(main', 0)
      BY DEF Pointers
    <3>1. ~Bottomed(main', 0) /\ ~Wrapped(main', 0)
      BY <2>3 DEF Bottomed, Wrapped
    <3>2. \A c, w : List(c, w, Wrapped(main', 0)) = FunnyPointers(c)[w]
      BY <3>1 DEF List
    <3>3. \A c \in Comps : DOMAIN FunnyPointers(c) = 1 .. 2
      <4>1. 1 \in 1 .. 2
        OBVIOUS
      <4> QED
        BY ONLY <1>1, <4>1, need_context_rows, FunnyIs, Zenon
    <3> QED
      BY <2>3, <3>1, <3>2, <3>3 DEF Pointers
  <2>8. BufferAt(main', 0)
    <3>1. ~use_c_buffer =>
            \A c \in Needed : \A i \in 0 .. iMCUheight(c) - 1 : Partial(main', c, i, 0)
      BY <1>1, NothingRead
    <3>2. \A c \in Needed : Kept2(main', c, 0)
      BY DEF Kept2
    <3> QED
      BY <2>3, <3>1, <3>2 DEF BufferAt
  <2>9. PassData'
    <3>1. WholeHolds(post, output.scanline)' /\ UpHolds(up, output.scanline)'
          /\ Pointers(main, output.row)' /\ BufferAt(main, output.row)'
      BY <2>2, <2>6, <2>7, <2>8, DataKept, BufferKept
    <3> QED
      BY <3>1 DEF PassData
  <2>10. ShownData'
    BY <1>2, ShownDataKept DEF DataInv
  <2> QED
    BY <2>5, <2>9, <2>10 DEF DataInv
<1> QED
  BY <1>3, <1>4

LEMMA PreloadedData == ASSUME CountInv, DataInv, Preloaded PROVE DataInv'
<1>1. /\ call.op = "preload" /\ PreparePass(input.scan) /\ call' = Return("setup")
      /\ UNCHANGED <<cfg, input, coefs, shown>>
  BY DEF Preloaded
<1>2. global_state = "PRELOAD"
  BY <1>1 DEF CountInv, MapInv, Called
<1>3. use_c_buffer \/ (input.vert = 0 /\ input.mcu = 0)
  BY <1>2 DEF CountInv, OnePassInv
<1> QED
  BY <1>1, <1>3, NewPassData

LEMMA StartOutputData ==
  ASSUME CountInv, DataInv, NEW n \in 0 .. Len(cfg.scans) + 1, StartOutput(n) PROVE DataInv'
<1> DEFINE scan == IF input.eoi THEN ClampedScan(Max({1, n})) ELSE Max({1, n})
<1>1. /\ global_state = "BUFIMAGE" /\ PreparePass(scan)
      /\ call' = Return(IF global_state' = "ERROR" THEN "none" ELSE "setup")
      /\ UNCHANGED <<cfg, input, coefs, shown>>
  BY DEF StartOutput
<1>2. use_c_buffer
  BY <1>1 DEF CountInv, StateInv, use_c_buffer
<1> HIDE DEF scan
<1> QED
  BY <1>1, <1>2, NewPassData
-----------------------------------------------------------------------------
(* Before the first scan nothing is read, and nothing has to be.            *)
LEMMA InitData == Init => DataInv
<1> SUFFICES ASSUME Init PROVE DataInv
  OBVIOUS
<1>1. /\ cfg \in Configs /\ passes = 0 /\ shown = [from |-> 0, rows |-> <<>>]
      /\ call = [op |-> "none", max |-> 0] /\ main = NewMain
      /\ input = [scan |-> 1, row |-> 0, vert |-> 0, mcu |-> 0, data |-> TRUE, eoi |-> FALSE]
  BY DEF Init
<1>2. ASSUME NEW c \in Comps
      PROVE  /\ Blocks(c) \subseteq DOMAIN coefs[c]
             /\ \A b \in Blocks(c) : /\ coefs[c][b] >= Wanted(c, input.scan - 1)
                                     /\ ~Past(c, b)
  <2> DEFINE rows == 0 .. total_iMCU_rows * v(c) - 1
             cols == 0 .. Ceil(width_in_blocks(c), h(c)) * h(c) - 1
  <2>1. coefs[c] = [b \in rows \X cols |-> 0]
    BY DEF Init
  <2>2. /\ v(c) \in Nat \ {0} /\ h(c) \in Nat \ {0} /\ height_in_blocks(c) \in Nat
        /\ width_in_blocks(c) \in Nat \ {0} /\ total_iMCU_rows \in Nat
        /\ height_in_blocks(c) <= total_iMCU_rows * v(c)
    <3>1. v(c) \in 1 .. 4 /\ h(c) \in 1 .. 4
      BY <1>1, ImageIs
    <3>2. /\ height_in_blocks(c) \in Nat /\ width_in_blocks(c) \in Nat \ {0}
          /\ height_in_blocks(c) <= total_iMCU_rows * v(c)
      BY <1>1, ComponentIs
    <3>3. total_iMCU_rows \in Nat
      BY <1>1, RowsIs
    <3> QED
      BY <3>1, <3>2, <3>3
  <2>3. width_in_blocks(c) <= Ceil(width_in_blocks(c), h(c)) * h(c)
        /\ Ceil(width_in_blocks(c), h(c)) \in Nat
    BY <2>2, CeilIs
  <2>4. 0 .. height_in_blocks(c) - 1 \subseteq rows
    <3> DEFINE a == total_iMCU_rows * v(c)
    <3>1. a \in Int /\ height_in_blocks(c) <= a
      BY <2>2
    <3> HIDE DEF a
    <3> QED
      BY <2>2, <3>1 DEF a
  <2>5. Columns(c) \subseteq cols
    <3> DEFINE a == Ceil(width_in_blocks(c), h(c)) * h(c)
    <3>1. a \in Int /\ width_in_blocks(c) <= a
      BY <2>2, <2>3
    <3> HIDE DEF a
    <3> QED
      BY <2>2, <3>1 DEF a, Columns
  <2> HIDE DEF rows, cols
  <2>6. Blocks(c) \subseteq rows \X cols
    BY <2>4, <2>5 DEF Blocks
  <2>7. DOMAIN coefs[c] = rows \X cols /\ \A b \in rows \X cols : coefs[c][b] = 0
    BY <2>1
  <2>8. Wanted(c, input.scan - 1) = 0
    <3>1. input.scan - 1 = 0 /\ 0 \in Nat
      BY <1>1
    <3>2. Wanted(c, 0) \in 0 .. 0
      BY <1>1, <3>1, WantedIs
    <3> QED
      BY <3>1, <3>2
  <2>9. ASSUME NEW b \in Blocks(c) PROVE ~Past(c, b)
    <3>1. b[1] \in Nat /\ b[2] \in Nat
      BY <2>2 DEF Blocks, Columns
    <3>2. input.row * v(c) = 0 /\ input.mcu * h(c) = 0 /\ input.vert = 0 /\ input.mcu = 0
      BY <1>1, <2>2
    <3> QED
      BY <2>2, <3>1, <3>2 DEF Past
  <2> QED
    BY <2>6, <2>7, <2>8, <2>9
<1>3. CoefInv
  BY <1>2 DEF CoefInv
<1>4. BufType
  <2>1. main.buf = EmptyBuffer
    BY <1>1 DEF NewMain
  <2> QED
    BY <2>1 DEF BufType, EmptyBuffer, NoRow
<1>5. PassData
  BY <1>1 DEF PassData
<1>6. ShownData
  <2>1. shown.rows = <<>> /\ DOMAIN shown.rows = {}
    BY <1>1
  <2> QED
    BY <2>1 DEF ShownData
<1> QED
  BY <1>3, <1>4, <1>5, <1>6 DEF DataInv
-----------------------------------------------------------------------------
(* The arrays have what a scan wanted of a block that the input is past.    *)
LEMMA HaveIs ==
  ASSUME CountInv, CoefInv, use_c_buffer, NEW c \in Comps, NEW b \in Blocks(c), NEW n \in Nat,
         n < input.scan \/ (input.scan = n /\ b[1] < input.row * v(c)) \/ input.eoi
  PROVE  coefs[c][b] \in Nat /\ coefs[c][b] >= Wanted(c, n)
<1> DEFINE s == input.scan
<1>1. cfg \in Configs /\ InputInv /\ CoefType
  BY DEF CountInv, MapInv
<1>2. /\ s \in 1 .. Len(cfg.scans) /\ Len(cfg.scans) \in Nat /\ s \in Nat /\ s - 1 \in Nat
      /\ coefs[c][b] \in 0 .. s /\ coefs[c][b] >= Wanted(c, s - 1)
  <2>1. Len(cfg.scans) \in Nat /\ s \in 1 .. Len(cfg.scans)
    BY <1>1, ImageIs DEF IsImage, InputInv
  <2>2. coefs[c][b] \in 0 .. s
    BY <1>1 DEF CoefType, CoefInv
  <2> QED
    BY <2>1, <2>2 DEF CoefInv
<1>3. Wanted(c, s) \in 0 .. s /\ Wanted(c, s - 1) \in Nat /\ Wanted(c, n) \in Nat
  <2>1. Wanted(c, s) \in 0 .. s /\ Wanted(c, s - 1) \in 0 .. s - 1 /\ Wanted(c, n) \in 0 .. n
    BY <1>1, <1>2, WantedIs
  <2> QED
    BY <2>1
<1>4. ASSUME b[1] < input.row * v(c) PROVE coefs[c][b] >= Wanted(c, s)
  <2>1. CASE c \in InScan
    <3>1. Past(c, b)
      <4>1. b[1] \in Int /\ input.row * v(c) \in Int /\ input.vert \in Nat
        <5>1. v(c) \in 1 .. 4 /\ height_in_blocks(c) \in Nat /\ total_iMCU_rows \in Nat
          BY <1>1, ImageIs, ComponentIs, RowsIs
        <5> QED
          BY <1>1, <5>1 DEF InputInv, Blocks
      <4> QED
        BY <1>4, <2>1, <4>1 DEF Past
    <3>2. coefs[c][b] = s
      BY <3>1 DEF CoefInv
    <3> QED
      BY <1>2, <1>3, <3>2
  <2>2. CASE c \notin InScan
    <3>1. Wanted(c, s) <= Wanted(c, s - 1)
      BY <1>1, <1>2, <2>2, WantedStays DEF InScan, Scan
    <3> QED
      BY <1>2, <1>3, <3>1
  <2> QED
    BY <2>1, <2>2
<1>5. CASE n < s
  <2>1. Wanted(c, n) <= Wanted(c, s - 1)
    <3>1. n <= s - 1
      BY <1>2, <1>5
    <3> QED
      BY <1>1, <1>2, <3>1, WantedGrows
  <2> QED
    BY <1>2, <1>3, <2>1
<1>6. CASE s = n /\ b[1] < input.row * v(c)
  BY <1>2, <1>4, <1>6
<1>7. CASE input.eoi
  <2>1. s = Len(cfg.scans) /\ input.row = total_iMCU_rows
    BY <1>1, <1>7, RowsIs DEF InputInv
  <2>2. b[1] < input.row * v(c)
    <3>1. height_in_blocks(c) <= total_iMCU_rows * v(c) /\ height_in_blocks(c) \in Nat
          /\ v(c) \in 1 .. 4 /\ total_iMCU_rows \in Nat
      BY <1>1, ImageIs, ComponentIs, RowsIs
    <3> DEFINE a == total_iMCU_rows * v(c)
    <3>2. a \in Int /\ height_in_blocks(c) <= a
      BY <3>1
    <3> HIDE DEF a
    <3>3. b[1] < a
      BY <3>1, <3>2 DEF Blocks
    <3> QED
      BY <2>1, <3>3 DEF a
  <2>3. Wanted(c, n) <= Wanted(c, s)
    BY <1>1, <1>2, <2>1, WantedGrows
  <2>4. coefs[c][b] >= Wanted(c, s)
    BY <1>4, <2>2
  <2> QED
    BY <1>2, <1>3, <2>3, <2>4
<1> QED
  BY <1>5, <1>6, <1>7

(* When decompress_data or decompress_smooth_data goes on, all the columns  *)
(* of its block rows have what the pass is to show.                         *)
LEMMA GoodIs ==
  ASSUME CountInv, CoefInv, use_c_buffer, ~CoefWaits, NEW c \in Comps,
         NEW b \in 0 .. height_in_blocks(c) - 1, b < (output.row + 1) * v(c)
  PROVE  Good(c, b) = Columns(c)
<1> DEFINE n == output.scan
           s == input.scan
<1>1. cfg \in Configs /\ InputInv /\ OutputType
  BY DEF CountInv, MapInv
<1>2. /\ s \in 1 .. Len(cfg.scans) /\ Len(cfg.scans) \in Nat /\ s \in Nat /\ n \in Nat
      /\ input.row \in Nat /\ output.row \in Nat /\ v(c) \in Nat \ {0}
      /\ height_in_blocks(c) \in Nat
  <2>1. /\ Len(cfg.scans) \in Nat /\ total_iMCU_rows \in Nat /\ v(c) \in 1 .. 4
        /\ height_in_blocks(c) \in Nat
    BY <1>1, ImageIs, RowsIs, ComponentIs DEF IsImage
  <2>2. s \in 1 .. Len(cfg.scans) /\ input.row \in 0 .. total_iMCU_rows
    BY <1>1 DEF InputInv
  <2>3. n \in 0 .. Len(cfg.scans) + 1 /\ output.row \in 0 .. total_iMCU_rows
    BY <1>1 DEF OutputType
  <2> QED
    BY <2>1, <2>2, <2>3
<1>3. \/ n < s \/ input.eoi
      \/ s = n /\ input.row > output.row
         /\ (output.smooth /\ Scan.Ss = 0 => input.row > output.row + 1)
  <2>1. CASE output.smooth
    <3>1. ~SmoothWaits
      BY <2>1 DEF CoefWaits
    <3> QED
      BY <1>1, <1>2, <2>1, <3>1 DEF SmoothWaits, InputInv
  <2>2. CASE ~output.smooth
    <3>1. ~DataWaits
      BY <2>2 DEF CoefWaits
    <3> QED
      BY <1>2, <2>2, <3>1 DEF DataWaits
  <2> QED
    BY <2>1, <2>2
<1>4. \A d \in 0 .. height_in_blocks(c) - 1 : \A x \in Columns(c) :
        /\ <<d, x>> \in Blocks(c) /\ <<d, x>>[1] = d
  BY DEF Blocks
<1>5. \A k \in Nat : input.row > output.row + k =>
        (output.row + 1 + k) * v(c) <= input.row * v(c)
        /\ (output.row + 1 + k) * v(c) = (output.row + 1) * v(c) + k * v(c)
        /\ input.row * v(c) \in Int /\ (output.row + 1) * v(c) \in Int
  <2> SUFFICES ASSUME NEW k \in Nat, input.row > output.row + k
               PROVE  (output.row + 1 + k) * v(c) <= input.row * v(c)
                      /\ (output.row + 1 + k) * v(c) = (output.row + 1) * v(c) + k * v(c)
                      /\ input.row * v(c) \in Int /\ (output.row + 1) * v(c) \in Int
    OBVIOUS
  <2>1. output.row + 1 + k \in Int /\ input.row \in Int /\ output.row + 1 + k <= input.row
        /\ v(c) \in Nat
    BY <1>2
  <2>2. (output.row + 1 + k) * v(c) <= input.row * v(c)
    BY <2>1, FactorKeeps
  <2>3. (output.row + 1 + k) * v(c) = (output.row + 1) * v(c) + k * v(c)
    BY <1>2
  <2>4. output.row + 1 \in Int /\ output.row + 1 <= input.row
    BY <1>2
  <2>5. input.row * v(c) \in Int /\ (output.row + 1) * v(c) \in Int
    BY ONLY <2>1, <2>4, FactorKeeps
  <2> QED
    BY <2>2, <2>3, <2>5, Zenon
<1>6. ASSUME NEW x \in Columns(c) PROVE coefs[c][<<b, x>>] >= Wanted(c, n)
  <2>1. n < s \/ (s = n /\ b < input.row * v(c)) \/ input.eoi
    <3>1. ASSUME input.row > output.row PROVE b < input.row * v(c)
      <4> DEFINE a == (output.row + 1) * v(c)
                 d == input.row * v(c)
      <4>1. input.row > output.row + 0 /\ 0 \in Nat /\ output.row + 1 + 0 = output.row + 1
        BY <1>2, <3>1
      <4>2. a <= d /\ a \in Int /\ d \in Int /\ b < a
        BY <1>5, <4>1
      <4> HIDE DEF a, d
      <4>3. b < d
        BY <1>2, <4>2
      <4> QED
        BY <4>3 DEF d
    <3> QED
      BY <1>3, <3>1
  <2>2. <<b, x>> \in Blocks(c) /\ <<b, x>>[1] = b
    BY <1>4
  <2> QED
    BY <1>2, <2>1, <2>2, HaveIs
<1>7. ASSUME output.smooth, NEW x \in Columns(c), NEW d \in 0 .. height_in_blocks(c) - 1,
             d <= b + 1
      PROVE  coefs[c][<<d, x>>] >= WantedDC(c, n)
  <2>1. <<d, x>> \in Blocks(c) /\ <<d, x>>[1] = d
    BY <1>4
  <2>2. /\ WantedDC(c, n) \in 0 .. n /\ WantedDC(c, n) <= Wanted(c, n) /\ Wanted(c, n) \in 0 .. n
    BY <1>1, <1>2, WantedIs
  <2>3. ASSUME n < s \/ (s = n /\ d < input.row * v(c)) \/ input.eoi
        PROVE  coefs[c][<<d, x>>] >= WantedDC(c, n)
    <3>1. coefs[c][<<d, x>>] \in Nat /\ coefs[c][<<d, x>>] >= Wanted(c, n)
      BY <1>2, <2>1, <2>3, HaveIs
    <3> QED
      BY <1>2, <2>2, <3>1
  <2>4. CASE n < s \/ input.eoi
    BY <2>3, <2>4
  <2>5. CASE s = n /\ Scan.Ss = 0 /\ input.row > output.row + 1
    <3> DEFINE a == (output.row + 1) * v(c)
               e == input.row * v(c)
    <3>1. a + v(c) <= e /\ a \in Int /\ e \in Int /\ b < a
      <4>1. (output.row + 1 + 1) * v(c) <= e /\ (output.row + 1 + 1) * v(c) = a + 1 * v(c)
            /\ a \in Int /\ e \in Int
        BY <1>5, <2>5
      <4>2. 1 * v(c) = v(c)
        BY <1>2
      <4> QED
        BY <4>1, <4>2
    <3> HIDE DEF a, e
    <3>2. d < e
      BY <1>2, <1>7, <3>1
    <3> QED
      BY <2>3, <2>5, <3>2 DEF e
  <2>6. CASE s = n /\ Scan.Ss # 0
    <3>1. n \in 1 .. Len(cfg.scans) /\ n - 1 \in Nat /\ n - 1 < s
      BY <1>2, <2>6
    <3>2. WantedDC(c, n) <= Wanted(c, n - 1)
      BY <1>1, <2>6, <3>1, WantedStays DEF Scan
    <3>3. coefs[c][<<d, x>>] \in Nat /\ coefs[c][<<d, x>>] >= Wanted(c, n - 1)
      BY <2>1, <3>1, HaveIs
    <3>4. Wanted(c, n - 1) \in 0 .. n - 1
      BY <1>1, <3>1, WantedIs
    <3> DEFINE w == Wanted(c, n - 1)
               y == WantedDC(c, n)
               z == coefs[c][<<d, x>>]
    <3>5. w \in Int /\ y \in Int /\ z \in Int /\ y <= w /\ z >= w
      BY <1>2, <2>2, <3>1, <3>2, <3>3, <3>4
    <3> HIDE DEF w, y, z
    <3>6. z >= y
      BY <3>5
    <3> QED
      BY <3>6 DEF y, z
  <2> QED
    BY <1>3, <1>7, <2>4, <2>5, <2>6
<1> DEFINE up1 == IF b = 0 THEN b ELSE b - 1
           down1 == IF b = height_in_blocks(c) - 1 THEN b ELSE b + 1
<1>8. \A d \in {up1, down1} : d \in 0 .. height_in_blocks(c) - 1 /\ d <= b + 1
  BY <1>2
<1> HIDE DEF up1, down1
<1>9. \A x \in Columns(c) : /\ coefs[c][<<b, x>>] >= Wanted(c, n)
                            /\ output.smooth => \A d \in {up1, down1} :
                                                  coefs[c][<<d, x>>] >= WantedDC(c, n)
  BY <1>6, <1>7, <1>8
<1> QED
  BY <1>9 DEF Good, up1, down1
-----------------------------------------------------------------------------
(* The rows of the buffer that the coefficient controller fills.            *)
LEMMA PhysicalIs ==
  ASSUME cfg \in Configs, MainType(main), ~main.buffer_full, NEW row \in Nat,
         Pointers(main, row), NEW c \in Comps, NEW n, n = rgroup(c) * Groups
  PROVE  LET w == main.whichptr
         IN /\ n \in Nat /\ iMCUheight(c) <= n /\ iMCUheight(c) \in Nat
            /\ \A i \in 0 .. n - 1 : /\ Physical(c, i) = Place(c, i, w)
                                     /\ Place(c, i, w) \in 0 .. n - 1
            /\ \A i, j \in 0 .. n - 1 : Place(c, i, w) = Place(c, j, w) => i = j
            /\ need_context_rows =>
                 \A i \in rgroup(c) * M .. rgroup(c) * (M + 2) - 1 :
                   i \in iMCUheight(c) .. n - 1
<1> DEFINE w == main.whichptr
           g == rgroup(c)
           p == iMCUheight(c)
<1>1. g \in Nat \ {0} /\ p = g * M /\ p \in Nat /\ w \in 1 .. 2
  <2>1. g \in 1 .. MaxV /\ p = g * M /\ p \in Nat /\ MaxV \in 1 .. 4
    BY SizeIs, ImageIs
  <2> QED
    BY <2>1 DEF MainType
<1>2. CASE ~need_context_rows
  <2>1. n = p
    BY <1>1, <1>2 DEF Groups
  <2> QED
    BY <1>1, <1>2, <2>1 DEF Physical, Place
<1>3. CASE need_context_rows
  <2>1. /\ p >= 2 * g /\ n = p + 2 * g /\ g * (M + 2) = p + 2 * g
    BY <1>3, ReachIs
  <2>2. /\ \A i \in 0 .. p + 2 * g - 1 : FunnyPointers(c)[w][i] \in 0 .. p + 2 * g - 1
        /\ \A i, j \in 0 .. p + 2 * g - 1 :
             FunnyPointers(c)[w][i] = FunnyPointers(c)[w][j] => i = j
    <3>1. c \in Comps /\ w \in 1 .. 2
      BY <1>1
    <3> HIDE DEF w
    <3> QED
      BY <1>3, <3>1, FunnyIs
  <2>3. \A i \in 0 .. p + 2 * g - 1 : Physical(c, i) = FunnyPointers(c)[w][i]
    <3>1. PICK wrapped \in BOOLEAN : wrapped = Wrapped(main, row)
      BY DEF Wrapped
    <3>2. ~Bottomed(main, row)
      BY DEF Bottomed
    <3>3. main.xbuffer[c][w] = List(c, w, wrapped)
      <4>1. main.xbuffer[c][w] = List(c, w, Wrapped(main, row))
        BY <1>1, <1>3, <3>2 DEF Pointers
      <4> QED
        BY <3>1, <4>1
    <3>4. \A i \in 0 .. p + 2 * g - 1 : List(c, w, wrapped)[i] = FunnyPointers(c)[w][i]
      <4>1. c \in Comps /\ w \in 1 .. 2 /\ wrapped \in BOOLEAN
        BY <1>1
      <4> HIDE DEF w
      <4> QED
        BY <1>3, <4>1, WrappedListIs
    <3> QED
      BY <1>3, <3>3, <3>4 DEF Physical
  <2>4. \A i : Place(c, i, w) = FunnyPointers(c)[w][i]
    BY <1>3 DEF Place
  <2>5. n \in Nat /\ p <= n /\ \A i \in g * M .. g * (M + 2) - 1 : i \in p .. n - 1
    <3>1. g * M = p /\ g * (M + 2) = n
      BY <1>1, <2>1
    <3> HIDE DEF g, p
    <3>2. n \in Nat /\ p <= n
      BY <1>1, <2>1
    <3> QED
      BY <3>1, <3>2
  <2> QED
    BY <1>1, <1>3, <2>1, <2>2, <2>3, <2>4, <2>5
<1> QED
  BY <1>2, <1>3

(* Each is filled with its own row.                                         *)
LEMMA ChosenIs ==
  ASSUME cfg \in Configs, MainType(main), ~main.buffer_full, NEW row \in Nat,
         Pointers(main, row), NEW c \in Comps, NEW n, n = rgroup(c) * Groups,
         NEW at, at \subseteq 0 .. n - 1
  PROVE  LET w == main.whichptr
             where == {Physical(c, i) : i \in at}
         IN /\ \A i \in at : /\ Place(c, i, w) \in where
                             /\ (CHOOSE j \in at : Physical(c, j) = Place(c, i, w)) = i
            /\ \A i \in 0 .. n - 1 : i \notin at => Place(c, i, w) \notin where
            /\ \A x \in where : (CHOOSE j \in at : Physical(c, j) = x) \in at
<1> DEFINE w == main.whichptr
           where == {Physical(c, i) : i \in at}
<1>1. /\ \A i \in 0 .. n - 1 : /\ Physical(c, i) = Place(c, i, w)
                               /\ Place(c, i, w) \in 0 .. n - 1
      /\ \A i, j \in 0 .. n - 1 : Place(c, i, w) = Place(c, j, w) => i = j
  BY PhysicalIs
<1>2. ASSUME NEW i \in at
      PROVE  /\ Place(c, i, w) \in where
             /\ (CHOOSE j \in at : Physical(c, j) = Place(c, i, w)) = i
  <2> DEFINE k == CHOOSE j \in at : Physical(c, j) = Place(c, i, w)
  <2>1. Physical(c, i) = Place(c, i, w) /\ i \in at /\ i \in 0 .. n - 1
    BY <1>1
  <2>2. k \in at /\ Physical(c, k) = Place(c, i, w)
    BY <2>1, Zenon
  <2> HIDE DEF k
  <2>3. k = i
    BY <1>1, <2>1, <2>2
  <2>4. Place(c, i, w) \in where
    BY <2>1
  <2> QED
    BY <2>3, <2>4 DEF k
<1>3. ASSUME NEW i \in 0 .. n - 1, i \notin at PROVE Place(c, i, w) \notin where
  BY <1>1, <1>3
<1>4. ASSUME NEW x \in where PROVE (CHOOSE j \in at : Physical(c, j) = x) \in at
  <2>1. \E j \in at : Physical(c, j) = x
    BY <1>4
  <2> QED
    BY <2>1, Zenon
<1> QED
  BY <1>2, <1>3, <1>4, Zenon
-----------------------------------------------------------------------------
(* The blocks of the iMCU row that is next: the dummy ones below the image  *)
(* are not taken.                                                           *)
LEMMA BlockRowsIs ==
  ASSUME cfg \in Configs, NEW c \in Comps, output.row \in Nat, output.row < total_iMCU_rows
  PROVE  LET s == DCT_scaled_size(c)
             p == iMCUheight(c)
             B == BlockRows(c)
         IN /\ B * s <= p /\ B * s \in Nat /\ p \in Nat
            /\ \A i \in 0 .. B * s - 1 :
                 /\ output.row * p + i \in Nat
                 /\ (output.row * p + i) \div s \in 0 .. height_in_blocks(c) - 1
                 /\ (output.row * p + i) \div s < (output.row + 1) * v(c)
            /\ \A i \in 0 .. p - 1 : Real(c, output.row * p + i) => i \in 0 .. B * s - 1
<1> DEFINE s == DCT_scaled_size(c)
           p == iMCUheight(c)
           B == BlockRows(c)
           row == output.row
           T == total_iMCU_rows
           H == height_in_blocks(c)
           V == v(c)
<1>1. /\ s \in Nat \ {0} /\ p = V * s /\ V \in Nat \ {0} /\ T \in Nat \ {0} /\ row \in Nat
      /\ H \in Nat
  <2>1. V \in 1 .. 4 /\ T \in Nat \ {0} /\ H \in Nat
    BY ImageIs, RowsIs, ComponentIs
  <2>2. s \in Nat \ {0} /\ p = V * s
    BY SizeIs
  <2> QED
    BY <2>1, <2>2
<1>2. /\ B \in 1 .. V /\ row * V + B <= H
      /\ (row # T - 1 => B = V) /\ (row = T - 1 => row * V + B = H)
  <2>1. last_block_rows(c) \in 1 .. V /\ H = (T - 1) * V + last_block_rows(c)
    BY LastRowsIs
  <2>2. CASE row = T - 1
    <3>1. B = last_block_rows(c)
      BY <1>1, <2>2 DEF BlockRows
    <3>2. row * V = (T - 1) * V /\ row * V \in Int
      BY <1>1, <2>2
    <3> HIDE DEF B, row, T, H, V
    <3> QED
      BY <1>1, <2>1, <2>2, <3>1, <3>2
  <2>3. CASE row # T - 1
    <3>1. B = V /\ row + 1 <= T - 1
      BY <1>1, <2>3 DEF BlockRows
    <3>2. row + 1 \in Int /\ T - 1 \in Int /\ V \in Nat
      BY <1>1
    <3> HIDE DEF B, row, T, H, V
    <3>3. (row + 1) * V <= (T - 1) * V /\ (T - 1) * V \in Int
      BY <3>1, <3>2, FactorKeeps
    <3>4. (row + 1) * V = row * V + V /\ row * V \in Int
      BY <1>1
    <3>5. row * V + B <= H
      BY <1>1, <2>1, <3>1, <3>3, <3>4
    <3> QED
      BY <1>1, <2>3, <3>1, <3>5
  <2> QED
    BY <2>2, <2>3
<1> DEFINE x == row * V
<1>3. x \in Nat /\ row * p = x * s /\ (row + 1) * V = x + V
  <2> HIDE DEF s, p, row, V
  <2> QED
    BY <1>1
<1>4. B * s <= p /\ B * s \in Nat /\ p \in Nat
  <2>1. B \in Int /\ V \in Int /\ B <= V /\ s \in Nat /\ B \in Nat
    BY <1>1, <1>2
  <2> HIDE DEF B, s, p, V
  <2>2. B * s <= V * s
    BY <2>1, FactorKeeps
  <2> QED
    BY <1>1, <2>1, <2>2
<1> HIDE DEF s, p, B, row, T, H, V, x
<1>5. ASSUME NEW i \in 0 .. B * s - 1
      PROVE  /\ row * p + i \in Nat /\ (row * p + i) \div s \in 0 .. H - 1
             /\ (row * p + i) \div s < (row + 1) * V
  <2>1. i \in Nat /\ i < B * s
    BY <1>4
  <2> DEFINE q == i \div s
             t == i % s
  <2>2. q \in Nat /\ t \in 0 .. s - 1 /\ i = q * s + t /\ q * s \in Nat /\ q * s <= i
    BY <1>1, <2>1, Division
  <2> HIDE DEF q, t
  <2>3. q < B
    <3>1. q * s < B * s
      BY <1>4, <2>1, <2>2
    <3> QED
      BY <1>1, <1>2, <2>2, <3>1, LessFactor
  <2>4. row * p + i = (x + q) * s + t /\ row * p + i \in Nat
    <3>1. (x + q) * s = x * s + q * s /\ x * s \in Nat
      BY <1>1, <1>3, <2>2
    <3> QED
      BY <1>1, <1>3, <2>2, <3>1
  <2>5. (row * p + i) \div s = x + q
    <3>1. x + q \in Nat
      BY <1>3, <2>2
    <3> QED
      BY <1>1, <2>2, <2>4, <3>1, DivisionUnique
  <2>6. x + q \in 0 .. H - 1 /\ x + q < x + V
    <3>1. x + B <= H
      BY <1>2 DEF x
    <3> QED
      BY <1>1, <1>2, <1>3, <2>2, <2>3, <3>1
  <2> QED
    BY <1>3, <2>4, <2>5, <2>6
<1>6. ASSUME NEW i \in 0 .. p - 1, row * p + i < H * s PROVE i \in 0 .. B * s - 1
  <2>1. CASE row = T - 1
    <3>1. H * s = x * s + B * s /\ x * s \in Int /\ B * s \in Int
      <4>1. H = x + B
        BY <1>2, <2>1 DEF x
      <4>2. (x + B) * s = x * s + B * s /\ x * s \in Int
        BY <1>1, <1>2, <1>3
      <4> QED
        BY <1>4, <4>1, <4>2
    <3> QED
      BY <1>3, <1>4, <1>6, <3>1
  <2>2. CASE row # T - 1
    BY <1>1, <1>2, <2>2
  <2> QED
    BY <2>1, <2>2
<1>7. \A i : Real(c, row * p + i) <=> row * p + i < H * s
  BY DEF Real, H, s
<1> QED
  BY <1>4, <1>5, <1>6, <1>7 DEF s, p, B, row, H, V
-----------------------------------------------------------------------------
(* The buffer gets an iMCU row: its rows are in place, the two row groups   *)
(* above are not touched, the pointers stay.                                *)
LEMMA FilledHolds ==
  ASSUME cfg \in Configs, NEW m, MainType(m), ~m.buffer_full, NEW row \in Nat, MainAt(m, row),
         Pointers(m, row), NEW buf,
         \A c \in Needed :
           /\ \A i \in 0 .. iMCUheight(c) - 1 :
                Real(c, row * iMCUheight(c) + i) =>
                  buf[c][Place(c, i, m.whichptr)] = WholeRow(c, row * iMCUheight(c) + i)
           /\ Kept2(m, c, row)
           /\ need_context_rows =>
                \A i \in rgroup(c) * M .. rgroup(c) * (M + 2) - 1 :
                  buf[c][Place(c, i, m.whichptr)] = m.buf[c][Place(c, i, m.whichptr)]
  PROVE  LET all == Filled([m EXCEPT !.buf = buf])
         IN /\ Pointers(all, row + 1) /\ BufferAt(all, row + 1)
            /\ all.buf = buf /\ all.crank = m.crank
<1> DEFINE all == Filled([m EXCEPT !.buf = buf])
<1>1. /\ all.buf = buf /\ all.crank = m.crank /\ all.buffer_full = TRUE
      /\ all.whichptr = m.whichptr /\ all.xbuffer = m.xbuffer
      /\ all.context_state = m.context_state
  BY DEF Filled, MainType
<1> HIDE DEF all
<1>2. row + 1 - 1 = row
  OBVIOUS
<1>3. Pointers(all, row + 1)
  <2> SUFFICES ASSUME need_context_rows PROVE Pointers(all, row + 1)
    BY DEF Pointers
  <2>1. ~Bottomed(all, row + 1) /\ ~Bottomed(m, row)
    BY <1>1 DEF MainAt, Bottomed
  <2>2. Wrapped(all, row + 1) = Wrapped(m, row)
    <3>1. Wrapped(all, row + 1) <=> row >= 1
      BY <1>1 DEF Wrapped
    <3>2. Wrapped(m, row) <=> row >= 1
      BY DEF Wrapped
    <3>3. Wrapped(all, row + 1) \in BOOLEAN /\ Wrapped(m, row) \in BOOLEAN
      BY DEF Wrapped
    <3> QED
      BY <3>1, <3>2, <3>3
  <2> QED
    BY <1>1, <2>1, <2>2 DEF Pointers
<1>4. ASSUME NEW c \in Needed
      PROVE  /\ \A i \in 0 .. iMCUheight(c) - 1 : InPlace(all, c, row, i)
             /\ Kept2(all, c, row)
  <2>1. \A i \in 0 .. iMCUheight(c) - 1 : InPlace(all, c, row, i)
    BY <1>1 DEF InPlace
  <2>2. Kept2(all, c, row)
    BY <1>1, Zenon DEF Kept2
  <2> QED
    BY <2>1, <2>2
<1>5. BufferAt(all, row + 1)
  BY <1>1, <1>2, <1>4 DEF BufferAt
<1> QED
  BY <1>1, <1>3, <1>5 DEF all

(* What decompress_data and decompress_smooth_data write.                   *)
LEMMA DecompressedIs ==
  ASSUME CountInv, CoefInv, BufType, Filling, ~CoefWaits, Pointers(main, output.row),
         NEW c \in Comps, NEW n, n = rgroup(c) * Groups
  PROVE  LET w == main.whichptr
             p == iMCUheight(c)
             last == BlockRows(c) * DCT_scaled_size(c)
         IN /\ c \in Needed =>
                 \A i \in 0 .. last - 1 :
                   Decompressed[c][Place(c, i, w)] = WholeRow(c, output.row * p + i)
            /\ \A i \in 0 .. n - 1 :
                 c \notin Needed \/ i \notin 0 .. last - 1 =>
                   Decompressed[c][Place(c, i, w)] = main.buf[c][Place(c, i, w)]
            /\ Decompressed[c] \in [0 .. n - 1 -> [r : {-1} \cup Nat, cols : SUBSET Columns(c)]]
<1> DEFINE w == main.whichptr
           p == iMCUheight(c)
           s == DCT_scaled_size(c)
           last == BlockRows(c) * s
           at == {i \in 0 .. last - 1 : c \in Needed}
           where == {Physical(c, i) : i \in at}
           row(x) == CHOOSE i \in at : Physical(c, i) = x
           R(i) == [r |-> output.row * p + i, cols |-> Good(c, (output.row * p + i) \div s)]
<1>1. cfg \in Configs /\ MainType(main) /\ ~main.buffer_full /\ use_c_buffer
      /\ output.row \in Nat /\ output.row < total_iMCU_rows
  BY FillingIs DEF CountInv, MapInv, CoefWaits
<1>2. /\ last <= p /\ last \in Nat /\ p \in Nat
      /\ \A i \in 0 .. last - 1 :
           /\ output.row * p + i \in Nat
           /\ (output.row * p + i) \div s \in 0 .. height_in_blocks(c) - 1
           /\ (output.row * p + i) \div s < (output.row + 1) * v(c)
  BY <1>1, BlockRowsIs
<1>3. n \in Nat /\ p <= n /\ \A i \in 0 .. n - 1 : Place(c, i, w) \in 0 .. n - 1
  BY <1>1, PhysicalIs
<1>4. /\ DOMAIN main.buf[c] = 0 .. n - 1
      /\ main.buf[c] \in [0 .. n - 1 -> [r : {-1} \cup Nat, cols : SUBSET Columns(c)]]
  BY DEF BufType
<1>5. Decompressed[c] = [x \in 0 .. n - 1 |-> IF x \notin where THEN main.buf[c][x] ELSE R(row(x))]
  BY <1>4 DEF Decompressed
<1>6. at \subseteq 0 .. n - 1
  <2> HIDE DEF last, p
  <2> QED
    BY <1>2, <1>3
<1>7. /\ \A i \in at : Place(c, i, w) \in where /\ row(Place(c, i, w)) = i
      /\ \A i \in 0 .. n - 1 : i \notin at => Place(c, i, w) \notin where
      /\ \A x \in where : row(x) \in at
  <2> HIDE DEF at
  <2> QED
    BY ONLY <1>1, <1>6, n = rgroup(c) * Groups, Pointers(main, output.row), c \in Comps, ChosenIs, Zenon
<1>8. ASSUME NEW i \in 0 .. last - 1 PROVE R(i) = WholeRow(c, output.row * p + i)
  <2> DEFINE b == (output.row * p + i) \div s
  <2>1. b \in 0 .. height_in_blocks(c) - 1 /\ b < (output.row + 1) * v(c)
    BY <1>2
  <2> HIDE DEF b
  <2>2. Good(c, b) = Columns(c)
    BY <1>1, <2>1, GoodIs
  <2> QED
    BY <2>2 DEF WholeRow, b
<1> HIDE DEF where, row, R, last
<1>9. ASSUME c \in Needed, NEW i \in 0 .. last - 1
      PROVE  Decompressed[c][Place(c, i, w)] = WholeRow(c, output.row * p + i)
  <2>1. i \in at /\ i \in 0 .. n - 1
    BY <1>6, <1>9
  <2>2. Place(c, i, w) \in 0 .. n - 1 /\ Place(c, i, w) \in where /\ row(Place(c, i, w)) = i
    BY <1>3, <1>7, <2>1
  <2>3. Decompressed[c][Place(c, i, w)] = R(i)
    BY <1>5, <2>2
  <2> QED
    BY <1>8, <2>3
<1>10. ASSUME NEW i \in 0 .. n - 1, c \notin Needed \/ i \notin 0 .. last - 1
       PROVE  Decompressed[c][Place(c, i, w)] = main.buf[c][Place(c, i, w)]
  <2>1. i \notin at
    BY <1>10
  <2> QED
    BY <1>3, <1>5, <1>7, <2>1
<1>11. Decompressed[c] \in [0 .. n - 1 -> [r : {-1} \cup Nat, cols : SUBSET Columns(c)]]
  <2> SUFFICES ASSUME NEW x \in 0 .. n - 1
               PROVE  (IF x \notin where THEN main.buf[c][x] ELSE R(row(x)))
                        \in [r : {-1} \cup Nat, cols : SUBSET Columns(c)]
    BY <1>5
  <2>1. CASE x \notin where
    BY <1>4, <2>1
  <2>2. CASE x \in where
    <3>1. row(x) \in 0 .. last - 1
      BY <1>7, <2>2
    <3>2. output.row * p + row(x) \in Nat
      BY <1>2, <3>1 DEF last
    <3>3. \A b : Good(c, b) \subseteq Columns(c)
      BY DEF Good
    <3>4. R(row(x)) \in [r : {-1} \cup Nat, cols : SUBSET Columns(c)]
      BY <3>2, <3>3 DEF R
    <3> QED
      BY <2>2, <3>4
  <2> QED
    BY <2>1, <2>2
<1> QED
  BY <1>9, <1>10, <1>11 DEF last

LEMMA FillData == ASSUME CountInv, DataInv, FillBuffer PROVE DataInv'
<1> DEFINE row == output.row
<1>1. /\ Filling /\ ~CoefWaits /\ main' = Filled([main EXCEPT !.buf = Decompressed])
      /\ output' = [output EXCEPT !.row = @ + 1]
      /\ UNCHANGED <<cfg, global_state, call, input, coefs, coef_bits, up, post, quant, shown,
                     passes>>
  BY DEF FillBuffer
<1>2. /\ cfg \in Configs /\ OutputType /\ MainType(main) /\ use_c_buffer
  BY <1>1 DEF CountInv, MapInv, CoefWaits
<1>3. /\ passes > 0 /\ ~main.crank /\ output.scanline < OutputHeight
      /\ MainAt(main, row) /\ row \in Nat /\ row < total_iMCU_rows /\ ~main.buffer_full
  BY <1>1, FillingIs
<1>4. /\ Pointers(main, row) /\ BufferAt(main, row) /\ UpHolds(up, output.scanline)
      /\ WholeHolds(post, output.scanline) /\ CoefInv /\ BufType
  BY <1>3 DEF DataInv, PassData
<1>5. ASSUME NEW c \in Needed
      PROVE  /\ \A i \in 0 .. iMCUheight(c) - 1 :
                  Real(c, row * iMCUheight(c) + i) =>
                    Decompressed[c][Place(c, i, main.whichptr)] =
                      WholeRow(c, row * iMCUheight(c) + i)
             /\ Kept2(main, c, row)
             /\ need_context_rows =>
                  \A i \in rgroup(c) * M .. rgroup(c) * (M + 2) - 1 :
                    Decompressed[c][Place(c, i, main.whichptr)] =
                      main.buf[c][Place(c, i, main.whichptr)]
  <2> DEFINE p == iMCUheight(c)
             n == rgroup(c) * Groups
             last == BlockRows(c) * DCT_scaled_size(c)
             w == main.whichptr
  <2>1. c \in Comps
    BY <1>2, ImageIs
  <2>2. /\ \A i \in 0 .. last - 1 : Decompressed[c][Place(c, i, w)] = WholeRow(c, row * p + i)
        /\ \A i \in 0 .. n - 1 :
             i \notin 0 .. last - 1 =>
               Decompressed[c][Place(c, i, w)] = main.buf[c][Place(c, i, w)]
    BY <1>1, <1>4, <2>1, DecompressedIs
  <2>3. /\ last <= p /\ last \in Nat /\ p \in Nat
        /\ \A i \in 0 .. p - 1 : Real(c, row * p + i) => i \in 0 .. last - 1
    BY <1>2, <1>3, <2>1, BlockRowsIs
  <2>4. need_context_rows =>
          \A i \in rgroup(c) * M .. rgroup(c) * (M + 2) - 1 : i \in p .. n - 1
    BY <1>2, <1>3, <1>4, <2>1, PhysicalIs
  <2>5. Kept2(main, c, row)
    BY <1>3, <1>4 DEF BufferAt
  <2> HIDE DEF last, p, n
  <2>6. \A i \in p .. n - 1 : i \in 0 .. n - 1 /\ i \notin 0 .. last - 1
    BY <2>3
  <2>7. \A i \in 0 .. p - 1 : Real(c, row * p + i) =>
          Decompressed[c][Place(c, i, w)] = WholeRow(c, row * p + i)
    BY <2>2, <2>3
  <2>8. need_context_rows =>
          \A i \in rgroup(c) * M .. rgroup(c) * (M + 2) - 1 :
            Decompressed[c][Place(c, i, w)] = main.buf[c][Place(c, i, w)]
    BY <2>2, <2>4, <2>6
  <2> QED
    BY <2>5, <2>7, <2>8 DEF p
<1>6. /\ Pointers(main', row + 1) /\ BufferAt(main', row + 1)
      /\ main'.buf = Decompressed /\ main'.crank = main.crank
  <2> DEFINE buf == Decompressed
  <2>1. PICK d : d = Decompressed
    OBVIOUS
  <2> QED
    BY <1>1, <1>2, <1>3, <1>4, <1>5, <2>1, FilledHolds
<1>7. BufType'
  <2>1. \A c \in Comps : main'.buf[c] \in [0 .. rgroup(c) * Groups - 1 ->
                                            [r : {-1} \cup Nat, cols : SUBSET Columns(c)]]
    BY <1>1, <1>4, <1>6, DecompressedIs
  <2>2. DOMAIN main'.buf = Comps
    BY <1>6 DEF Decompressed
  <2>3. /\ Comps' = Comps /\ Groups' = Groups
        /\ \A c : rgroup(c)' = rgroup(c) /\ Columns(c)' = Columns(c)
    BY <1>1, ImageKept, SizesKept, ModulesKept
  <2> QED
    BY <2>1, <2>2, <2>3 DEF BufType
<1>8. CoefInv'
  BY <1>1, <1>4, CoefInvKept
<1>9. PassData'
  <2>1. output'.row = row + 1 /\ output'.scanline = output.scanline
    BY <1>1, <1>2 DEF OutputType
  <2>2. /\ WholeHolds(post, output.scanline)' /\ UpHolds(up, output.scanline)'
        /\ Pointers(main, output.row)' /\ BufferAt(main, output.row)'
    BY <1>1, <1>4, <1>6, <2>1, DataKept, BufferKept
  <2> QED
    BY <2>2 DEF PassData
<1>10. ShownData'
  BY <1>1, ShownDataKept DEF DataInv
<1> QED
  BY <1>7, <1>8, <1>9, <1>10 DEF DataInv
-----------------------------------------------------------------------------
(* The input is where it was in its scan.                                   *)
LEMMA SamePlace ==
  ASSUME CoefInv, cfg' = cfg, coefs' = coefs, input'.scan = input.scan,
         input'.row = input.row, input'.vert = input.vert, input'.mcu = input.mcu
  PROVE  CoefInv'
<1>1. /\ Comps' = Comps /\ use_c_buffer' = use_c_buffer
      /\ \A c : v(c)' = v(c) /\ h(c)' = h(c) /\ Blocks(c)' = Blocks(c)
      /\ \A c, n : Wanted(c, n)' = Wanted(c, n)
  BY ImageKept, ModulesKept, DataKept
<1>2. InScan' = InScan /\ Interleaved' = Interleaved
  BY DEF InScan, Interleaved, Scan
<1>3. \A c, b : Past(c, b)' <=> Past(c, b)
  BY <1>1, <1>2 DEF Past
<1> QED
  BY <1>1, <1>3 DEF CoefInv

(* A scan starts where all the scans before are in the arrays.              *)
LEMMA NextScanData ==
  ASSUME CountInv, CoefInv, ~input.data, cfg' = cfg, coefs' = coefs,
         input'.scan = input.scan + 1, input'.row = 0, input'.vert = 0, input'.mcu = 0
  PROVE  CoefInv'
<1>1. /\ Comps' = Comps /\ use_c_buffer' = use_c_buffer
      /\ \A c : v(c)' = v(c) /\ h(c)' = h(c) /\ Blocks(c)' = Blocks(c)
      /\ \A c, n : Wanted(c, n)' = Wanted(c, n)
  BY ImageKept, ModulesKept, DataKept
<1>2. /\ cfg \in Configs /\ InputInv /\ total_iMCU_rows \in Nat /\ input.scan \in Nat
      /\ input.row = total_iMCU_rows
  <2>1. cfg \in Configs /\ InputInv /\ Len(cfg.scans) \in Nat /\ total_iMCU_rows \in Nat
    BY ImageIs, RowsIs DEF CountInv, MapInv, IsImage
  <2> QED
    BY <2>1 DEF InputInv
<1>3. ASSUME NEW c \in Comps, NEW b \in Blocks(c), use_c_buffer
      PROVE  coefs[c][b] >= Wanted(c, input.scan) /\ ~Past(c, b)'
  <2>1. /\ height_in_blocks(c) <= total_iMCU_rows * v(c) /\ height_in_blocks(c) \in Nat
        /\ v(c) \in 1 .. 4 /\ h(c) \in 1 .. 4 /\ width_in_blocks(c) \in Nat
    BY <1>2, ImageIs, ComponentIs
  <2>2. b[1] \in 0 .. height_in_blocks(c) - 1 /\ b[2] \in 0 .. width_in_blocks(c) - 1
    BY DEF Blocks, Columns
  <2>3. b[1] < input.row * v(c)
    <3> DEFINE a == total_iMCU_rows * v(c)
    <3>1. a \in Int /\ height_in_blocks(c) <= a
      BY <1>2, <2>1
    <3> HIDE DEF a
    <3>2. b[1] < a
      BY <2>1, <2>2, <3>1
    <3> QED
      BY <1>2, <3>2 DEF a
  <2>4. coefs[c][b] >= Wanted(c, input.scan)
    BY <1>2, <1>3, <2>3, HaveIs
  <2>5. /\ ~(b[1] < 0) /\ ~(b[2] < 0) /\ 0 * v(c) = 0 /\ 0 * h(c) = 0 /\ 0 + 0 = 0
    BY <2>1, <2>2
  <2>6. ~Past(c, b)'
    BY <1>1, <2>5, Zenon DEF Past
  <2> QED
    BY <2>4, <2>6
<1>4. \A c \in Comps : Blocks(c) \subseteq DOMAIN coefs[c]
  BY DEF CoefInv
<1>5. \A c : Wanted(c, input.scan - 1)' = Wanted(c, input.scan)
  <2>1. PICK n : n = input.scan
    OBVIOUS
  <2>2. (input.scan - 1)' = n
    BY <1>2, <2>1
  <2>3. \A c : Wanted(c, input.scan - 1)' = Wanted(c, n)'
    BY <2>2
  <2> QED
    BY <1>1, <2>1, <2>3
<1>6. \A c \in Comps : \A b \in Blocks(c) : use_c_buffer =>
        coefs[c][b] >= Wanted(c, input.scan) /\ ~Past(c, b)'
  BY <1>3
<1> QED
  BY <1>1, <1>4, <1>5, <1>6 DEF CoefInv

LEMMA MarkersData == ASSUME CountInv, DataInv, ConsumeMarkers PROVE DataInv'
<1>1. /\ Waiting /\ ~input.data
      /\ call' = IF call.op = "consume" THEN Return("none") ELSE call
      /\ UNCHANGED <<cfg, global_state, coefs, main, up, post, quant, shown, passes>>
  BY DEF ConsumeMarkers, pipe
<1>2. /\ MapInv /\ cfg \in Configs /\ InputInv /\ OutputType /\ StateInv
  BY DEF CountInv, MapInv
<1>3. /\ input \in [scan : 1 .. Len(cfg.scans), row : 0 .. total_iMCU_rows, vert : Nat,
                    mcu : Nat, data : BOOLEAN, eoi : BOOLEAN]
      /\ Len(cfg.scans) \in Nat
  BY <1>2, ImageIs DEF InputInv, IsImage
<1>4. output'.row = output.row /\ output'.scanline = output.scanline
  <2>1. output' = output \/ output' = [output EXCEPT !.scan = ClampedScan(@)]
    BY DEF ConsumeMarkers
  <2> QED
    BY <1>2, <2>1 DEF OutputType
<1>5. CoefInv'
  <2>1. CASE input.eoi
    <3>1. input' = input
      BY <2>1 DEF ConsumeMarkers
    <3> QED
      BY <1>1, <3>1, CoefInvKept DEF DataInv
  <2>2. CASE ~input.eoi /\ input.scan < Len(cfg.scans)
    <3>1. input' = [input EXCEPT !.scan = @ + 1, !.row = 0, !.vert = 0, !.mcu = 0, !.data = TRUE]
      BY <2>2 DEF ConsumeMarkers
    <3>2. input'.scan = input.scan + 1 /\ input'.row = 0 /\ input'.vert = 0 /\ input'.mcu = 0
      BY <1>3, <3>1
    <3> QED
      BY <1>1, <3>2, NextScanData DEF DataInv
  <2>3. CASE ~input.eoi /\ ~(input.scan < Len(cfg.scans))
    <3>1. input' = [input EXCEPT !.eoi = TRUE]
      BY <2>3 DEF ConsumeMarkers
    <3>2. /\ input'.scan = input.scan /\ input'.row = input.row
          /\ input'.vert = input.vert /\ input'.mcu = input.mcu
      BY <1>3, <3>1
    <3> QED
      BY <1>1, <3>2, SamePlace DEF DataInv
  <2> QED
    BY <2>1, <2>2, <2>3
<1>6. BufType'
  BY <1>1, BufTypeKept DEF DataInv
<1>7. PassData'
  <2>1. ~use_c_buffer => ~(passes > 0 /\ ~main.crank /\ output.scanline < OutputHeight)
    <3> SUFFICES ASSUME ~use_c_buffer
                 PROVE  ~(passes > 0 /\ ~main.crank /\ output.scanline < OutputHeight)
      OBVIOUS
    <3>1. global_state = "STOPPING" /\ ~cfg.buffered
      BY <1>1, OneScanIs
    <3>2. output.scanline \in Nat /\ OutputHeight \in Nat
      BY <1>2, TotalIs DEF OutputType
    <3> QED
      BY <1>2, <3>1, <3>2 DEF StateInv
  <2> QED
    BY <1>1, <1>4, <2>1, PassDataKept DEF DataInv
<1>8. ShownData'
  <2>1. call'.op = "read" => call.op = "read"
    <3>1. DOMAIN call = {"op", "max"}
      BY <1>2 DEF MapInv, CallType
    <3> QED
      BY <1>1, <3>1 DEF Return
  <2> QED
    BY <1>1, <2>1, ShownDataKept DEF DataInv
<1> QED
  BY <1>5, <1>6, <1>7, <1>8 DEF DataInv
-----------------------------------------------------------------------------
(* The MCU that is next has what the scan is past of afterwards, and was    *)
(* not before.                                                              *)
LEMMA StepsPast ==
  ASSUME NEW a \in Int, NEW V \in Nat, NEW H \in Nat, NEW x \in Nat, NEW y \in Nat, NEW m \in Nat,
         x < a + V, x < a \/ y < m * H + H
  PROVE  \/ x < a \/ (x < a + V /\ y < m * H)
         \/ (x \in a .. a + V - 1 /\ y \in m * H .. m * H + H - 1)
<1> DEFINE k == m * H
<1>1. k \in Int
  OBVIOUS
<1> HIDE DEF k
<1>2. x < a + V /\ (x < a \/ y < k + H)
  BY DEF k
<1>3. \/ x < a \/ (x < a + V /\ y < k)
      \/ (x \in a .. a + V - 1 /\ y \in k .. k + H - 1)
  BY <1>1, <1>2
<1> QED
  BY <1>3 DEF k

LEMMA PastGrows ==
  ASSUME CountInv, input.data, cfg' = cfg, input' = AfterMCU, NEW c \in Comps,
         NEW b1 \in 0 .. height_in_blocks(c) - 1, NEW b2 \in Columns(c), Past(c, <<b1, b2>>)'
  PROVE  Past(c, <<b1, b2>>) \/ <<b1, b2>> \in BlocksOf(c)
<1> DEFINE a == input.row * v(c)
           V == v(c)
           H == h(c)
           w == width_in_blocks(c)
           last == (total_iMCU_rows - 1) * v(c)
<1>1. /\ cfg \in Configs /\ InputInv /\ total_iMCU_rows \in Nat \ {0}
      /\ V \in Nat \ {0} /\ H \in Nat \ {0} /\ w \in Nat \ {0} /\ last \in Int
      /\ height_in_blocks(c) \in Nat
  <2>1. cfg \in Configs /\ InputInv
    BY DEF CountInv, MapInv
  <2>2. /\ total_iMCU_rows \in Nat \ {0} /\ v(c) \in 1 .. 4 /\ h(c) \in 1 .. 4
        /\ width_in_blocks(c) \in Nat \ {0} /\ height_in_blocks(c) \in Nat
    BY <2>1, RowsIs, ImageIs, ComponentIs
  <2> QED
    BY <2>1, <2>2
<1>2. /\ input \in [scan : 1 .. Len(cfg.scans), row : 0 .. total_iMCU_rows, vert : Nat,
                    mcu : Nat, data : BOOLEAN, eoi : BOOLEAN]
      /\ input.row < total_iMCU_rows
      /\ input.vert < MCU_rows_per_iMCU_row /\ input.mcu < MCUs_per_row
  BY <1>1 DEF InputInv
<1>3. /\ input.row \in Nat /\ input.vert \in Nat /\ input.mcu \in Nat /\ a \in Int
      /\ (input.row + 1) * V = a + V /\ (input.mcu + 1) * H = input.mcu * H + H
      /\ input.row = total_iMCU_rows - 1 => a = last
  BY <1>1, <1>2
<1>4. /\ input'.scan = input.scan
      /\ RowEnds => input'.row = input.row + 1 /\ input'.vert = 0 /\ input'.mcu = 0
      /\ ~RowEnds => input'.row = input.row
      /\ ~RowEnds /\ input.mcu + 1 = MCUs_per_row =>
           input'.mcu = 0 /\ input'.vert = input.vert + 1
      /\ ~RowEnds /\ input.mcu + 1 # MCUs_per_row =>
           input'.mcu = input.mcu + 1 /\ input'.vert = input.vert
  BY <1>2, AfterIs DEF AfterMCU
<1>5. /\ InScan' = InScan /\ Interleaved' = Interleaved /\ v(c)' = V /\ h(c)' = H
  BY <1>4, ImageKept DEF InScan, Interleaved, Scan
<1>6. /\ c \in InScan
      /\ Interleaved => b1 < input'.row * V \/ (b1 < input'.row * V + V /\ b2 < input'.mcu * H)
      /\ ~Interleaved => \/ b1 < input'.row * V + input'.vert
                         \/ b1 = input'.row * V + input'.vert /\ b2 < input'.mcu
  BY <1>5 DEF Past
<1>7. b1 \in Nat /\ b2 \in Nat /\ b2 < w /\ b1 < height_in_blocks(c)
  BY <1>1 DEF Columns
<1>8. CASE Interleaved
  <2>1. MCU_rows_per_iMCU_row = 1 /\ MCUs_per_row = Ceil(cfg.width, MaxH * DCTSIZE)
    BY <1>8 DEF MCU_rows_per_iMCU_row, MCUs_per_row
  <2>2. input.vert + 1 = 1
    BY <1>2, <1>3, <2>1
  <2>3. b1 < a + V /\ (b1 < a \/ b2 < input.mcu * H + H)
    <3>1. CASE RowEnds
      <4>1. input'.row * V = a + V /\ input'.mcu * H = 0
        BY <1>1, <1>3, <1>4, <3>1
      <4>2. b1 < a + V
        BY <1>6, <1>7, <1>8, <4>1
      <4>3. w <= (input.mcu + 1) * H
        BY <1>1, <2>1, <3>1, ComponentIs DEF RowEnds
      <4> DEFINE k == input.mcu * H
      <4>4. w <= k + H /\ k \in Int
        BY <1>1, <1>3, <4>3
      <4> HIDE DEF k
      <4>5. b2 < k + H
        BY <1>1, <1>7, <4>4
      <4> QED
        BY <4>2, <4>5 DEF k
    <3>2. CASE ~RowEnds
      <4>1. input.mcu + 1 # MCUs_per_row
        BY <2>1, <2>2, <3>2 DEF RowEnds
      <4>2. input'.row * V = a /\ input'.mcu * H = input.mcu * H + H
        BY <1>3, <1>4, <3>2, <4>1
      <4>3. b1 < a \/ (b1 < a + V /\ b2 < input.mcu * H + H)
        BY <1>6, <1>8, <4>2
      <4> HIDE DEF a, V
      <4>4. b1 < a + V
        BY <1>1, <1>3, <1>7, <4>3
      <4> QED
        BY <4>3, <4>4
    <3> QED
      BY <3>1, <3>2
  <2>4. \/ b1 < a \/ (b1 < a + V /\ b2 < input.mcu * H)
        \/ (b1 \in a .. a + V - 1 /\ b2 \in input.mcu * H .. input.mcu * H + H - 1)
    <3>1. V \in Nat /\ H \in Nat
      BY <1>1
    <3> HIDE DEF a, V, H
    <3> QED
      BY <1>3, <1>7, <2>3, <3>1, StepsPast
  <2> QED
    BY <1>6, <1>8, <2>4 DEF Past, BlocksOf
<1>9. CASE ~Interleaved
  <2>1. c = Scan.comps[1]
    <3>1. Scan.comps # <<>> /\ Scan.comps \in Seq(Comps)
      BY <1>1, <1>2, ScanIs DEF Scan
    <3>2. ~(Len(Scan.comps) > 1)
      BY <1>9 DEF Interleaved
    <3> DEFINE s == Scan.comps
    <3>3. s # <<>> /\ s \in Seq(Comps) /\ ~(Len(s) > 1) /\ \E k \in DOMAIN s : c = s[k]
      BY <1>6, <3>1, <3>2 DEF InScan
    <3> HIDE DEF s
    <3>4. c = s[1]
      BY <3>3
    <3> QED
      BY <3>4 DEF s
  <2>2. /\ MCUs_per_row = w
        /\ MCU_rows_per_iMCU_row = IF input.row < total_iMCU_rows - 1 THEN V ELSE last_block_rows(c)
    BY <1>9, <2>1 DEF MCUs_per_row, MCU_rows_per_iMCU_row
  <2>3. \/ b1 < a + input.vert
        \/ b1 = a + input.vert /\ b2 < input.mcu + 1
    <3>1. CASE RowEnds
      <4>1. input.mcu + 1 = w /\ input.vert + 1 = MCU_rows_per_iMCU_row
        BY <2>2, <3>1 DEF RowEnds
      <4>2. input'.row * V = a + V /\ input'.vert = 0 /\ input'.mcu = 0
        BY <1>1, <1>3, <1>4, <3>1
      <4>3. b1 < a + V
        BY <1>1, <1>3, <1>6, <1>7, <1>9, <4>2
      <4>4. b1 < a + input.vert + 1
        <5>1. CASE input.row < total_iMCU_rows - 1
          <6>1. input.vert + 1 = V
            BY <2>2, <4>1, <5>1
          <6> HIDE DEF a, V
          <6> QED
            BY <1>1, <1>3, <1>7, <4>3, <6>1
        <5>2. CASE ~(input.row < total_iMCU_rows - 1)
          <6>1. input.row = total_iMCU_rows - 1 /\ input.vert + 1 = last_block_rows(c)
            <7>1. input.vert + 1 = last_block_rows(c)
              BY <2>2, <4>1, <5>2
            <7>2. input.row = total_iMCU_rows - 1
              <8>1. input.row \in Int /\ total_iMCU_rows \in Int /\ input.row < total_iMCU_rows
                BY <1>1, <1>2
              <8> QED
                BY ONLY <8>1, <5>2
            <7> QED
              BY <7>1, <7>2
          <6>2. height_in_blocks(c) = last + last_block_rows(c)
            BY <1>1, LastRowsIs
          <6>3. height_in_blocks(c) = a + (input.vert + 1)
            BY <1>3, <6>1, <6>2
          <6> HIDE DEF a
          <6> QED
            BY <1>1, <1>3, <1>7, <6>3
        <5> QED
          BY <5>1, <5>2
      <4>5. /\ a \in Int /\ input.vert \in Nat /\ input.mcu \in Nat /\ b1 \in Nat /\ b2 \in Nat
            /\ b2 < input.mcu + 1
        BY <1>3, <1>7, <4>1
      <4> HIDE DEF a
      <4>6. b1 < a + input.vert \/ b1 = a + input.vert
        BY <4>4, <4>5
      <4> QED
        BY <4>5, <4>6
    <3>2. CASE ~RowEnds /\ input.mcu + 1 = MCUs_per_row
      <4>1. input'.row * V = a /\ input'.vert = input.vert + 1 /\ input'.mcu = 0
        BY <1>4, <3>2
      <4>2. input.mcu + 1 = w
        BY <2>2, <3>2
      <4> HIDE DEF a, V, w
      <4>3. b1 < a + (input.vert + 1) \/ (b1 = a + (input.vert + 1) /\ b2 < 0)
        <5>1. \/ b1 < input'.row * V + input'.vert
              \/ b1 = input'.row * V + input'.vert /\ b2 < input'.mcu
          BY <1>6, <1>9
        <5> QED
          BY ONLY <4>1, <5>1
      <4>4. b1 < a + input.vert \/ b1 = a + input.vert
        BY <1>3, <1>7, <4>3
      <4> QED
        BY <1>3, <1>7, <4>2, <4>4
    <3>3. CASE ~RowEnds /\ input.mcu + 1 # MCUs_per_row
      <4>1. input'.row * V = a /\ input'.vert = input.vert /\ input'.mcu = input.mcu + 1
        BY <1>4, <3>3
      <4> QED
        BY <1>6, <1>9, <4>1
    <3> QED
      BY <3>1, <3>2, <3>3
  <2>4. \/ b1 < a + input.vert
        \/ b1 = a + input.vert /\ b2 < input.mcu
        \/ b1 = a + input.vert /\ b2 = input.mcu
    <3> HIDE DEF a
    <3> QED
      BY <1>3, <1>7, <2>3
  <2> QED
    BY <1>6, <1>9, <2>4 DEF Past, BlocksOf
<1> QED
  BY <1>8, <1>9

(* At the end of an iMCU row the scan is past all its blocks.               *)
LEMMA RowIsPast ==
  ASSUME CountInv, input.data, cfg' = cfg, input' = AfterMCU, RowEnds, NEW c \in Comps,
         c \in InScan, NEW b1 \in Nat, NEW b2, b1 < (input.row + 1) * v(c)
  PROVE  Past(c, <<b1, b2>>)'
<1>1. cfg \in Configs /\ v(c) \in 1 .. 4 /\ InputInv
  BY ImageIs DEF CountInv, MapInv
<1>2. input'.scan = input.scan /\ input'.row = input.row + 1 /\ input'.vert = 0 /\ input'.mcu = 0
  BY AfterIs
<1>3. /\ InScan' = InScan /\ Interleaved' = Interleaved /\ v(c)' = v(c) /\ h(c)' = h(c)
  BY <1>2, ImageKept DEF InScan, Interleaved, Scan
<1>4. b1 < input'.row * v(c)
  BY <1>2
<1>5. input'.row * v(c) + 0 = input'.row * v(c)
  <2>1. input.row \in Int /\ v(c) \in Int
    <3>1. total_iMCU_rows \in Nat
      BY <1>1, RowsIs
    <3> QED
      BY <1>1, <3>1 DEF InputInv
  <2> QED
    BY <1>2, <2>1
<1> QED
  BY <1>2, <1>3, <1>4, <1>5, Zenon DEF Past
-----------------------------------------------------------------------------
(* The arrays after one more MCU.                                           *)
LEMMA DecodeCoefs ==
  ASSUME CountInv, CoefInv, input.data, cfg' = cfg, input' = AfterMCU,
         coefs' = [c \in Comps |-> [b \in DOMAIN coefs[c] |->
                     IF b \in BlocksOf(c) THEN input.scan ELSE coefs[c][b]]]
  PROVE  CoefInv'
<1>1. /\ Comps' = Comps /\ use_c_buffer' = use_c_buffer
      /\ \A c : Blocks(c)' = Blocks(c)
      /\ \A c, n : Wanted(c, n)' = Wanted(c, n)
  BY ImageKept, ModulesKept, DataKept
<1>2. /\ cfg \in Configs /\ input.scan \in Nat /\ input.scan - 1 \in Nat
      /\ input'.scan = input.scan
  <2>1. cfg \in Configs /\ InputInv /\ Len(cfg.scans) \in Nat /\ input'.scan = input.scan
    BY ImageIs, AfterIs DEF CountInv, MapInv, IsImage
  <2>2. input.scan \in 1 .. Len(cfg.scans)
    BY <2>1 DEF InputInv
  <2> QED
    BY <2>1, <2>2
<1>3. \A c \in Comps : Blocks(c) \subseteq DOMAIN coefs'[c]
  BY DEF CoefInv
<1>4. ASSUME use_c_buffer, NEW c \in Comps, NEW b1 \in 0 .. height_in_blocks(c) - 1,
             NEW b2 \in Columns(c)
      PROVE  /\ coefs'[c][<<b1, b2>>] >= Wanted(c, input.scan - 1)
             /\ Past(c, <<b1, b2>>)' => coefs'[c][<<b1, b2>>] = input.scan
  <2>1. <<b1, b2>> \in Blocks(c)
    BY DEF Blocks
  <2>2. /\ coefs[c][<<b1, b2>>] >= Wanted(c, input.scan - 1)
        /\ Past(c, <<b1, b2>>) => coefs[c][<<b1, b2>>] = input.scan
        /\ <<b1, b2>> \in DOMAIN coefs[c]
    BY <1>4, <2>1 DEF CoefInv
  <2>3. coefs'[c][<<b1, b2>>] = IF <<b1, b2>> \in BlocksOf(c) THEN input.scan
                                ELSE coefs[c][<<b1, b2>>]
    BY <2>2
  <2>4. Past(c, <<b1, b2>>)' => Past(c, <<b1, b2>>) \/ <<b1, b2>> \in BlocksOf(c)
    BY PastGrows
  <2>5. Wanted(c, input.scan - 1) \in 0 .. input.scan - 1
    BY <1>2, WantedIs
  <2>6. input.scan >= Wanted(c, input.scan - 1)
    BY <1>2, <2>5
  <2> QED
    BY <2>2, <2>3, <2>4, <2>6
<1>5. \A c \in Comps : \A b \in Blocks(c) : use_c_buffer =>
        /\ coefs'[c][b] >= Wanted(c, input.scan - 1)
        /\ Past(c, b)' => coefs'[c][b] = input.scan
  <2> SUFFICES ASSUME use_c_buffer, NEW c \in Comps, NEW b \in Blocks(c)
               PROVE  /\ coefs'[c][b] >= Wanted(c, input.scan - 1)
                      /\ Past(c, b)' => coefs'[c][b] = input.scan
    BY Zenon
  <2>1. PICK b1 \in 0 .. height_in_blocks(c) - 1, b2 \in Columns(c) : b = <<b1, b2>>
    BY DEF Blocks
  <2>2. use_c_buffer
    OBVIOUS
  <2> QED
    BY <1>4, <2>1, <2>2
<1>6. \A c : Wanted(c, input.scan - 1)' = Wanted(c, input.scan - 1)
  <2>1. PICK n : n = input.scan - 1
    OBVIOUS
  <2>2. (input.scan - 1)' = n
    BY <1>2, <2>1
  <2>3. \A c : Wanted(c, input.scan - 1)' = Wanted(c, n)'
    BY <2>2
  <2> QED
    BY <1>1, <2>1, <2>3
<1> QED
  BY <1>1, <1>2, <1>3, <1>5, <1>6 DEF CoefInv

(* In one pass all components are in the one scan.                          *)
LEMMA AllInScan ==
  ASSUME CountInv, ~use_c_buffer, input.scan = 1 PROVE InScan = Comps
<1> DEFINE s == cfg.scans[1].comps
           n == Len(cfg.comps)
<1>1. cfg \in Configs /\ Comps = 1 .. n /\ n \in Nat \ {0} /\ 1 \in 1 .. Len(cfg.scans)
  <2>1. cfg \in Configs
    BY DEF CountInv, MapInv
  <2>2. Comps = 1 .. n /\ n \in Nat \ {0} /\ Len(cfg.scans) \in Nat \ {0}
    BY <2>1, ImageIs DEF IsImage
  <2> QED
    BY <2>1, <2>2
<1>2. s \in Seq(Comps) /\ \A i, j \in DOMAIN s : s[i] = s[j] => i = j
  BY <1>1, ScanIs
<1>3. Len(s) >= n
  <2>1. ~(Len(s) < n)
    BY DEF use_c_buffer, has_multiple_scans
  <2>2. Len(s) \in Nat
    BY <1>2
  <2> QED
    BY <1>1, <2>1, <2>2
<1>4. InScan = {s[k] : k \in DOMAIN s}
  BY DEF InScan, Scan
<1> HIDE DEF s, n
<1>5. DOMAIN s = 1 .. Len(s) /\ Len(s) \in Nat /\ \A k \in DOMAIN s : s[k] \in Comps
  BY <1>2
<1>6. ASSUME NEW c \in Comps, \A k \in DOMAIN s : s[k] # c PROVE FALSE
  <2> DEFINE S == 1 .. Len(s)
             T == (1 .. n) \ {c}
  <2>1. IsFiniteSet(S) /\ Cardinality(S) = Len(s)
    BY <1>1, <1>3, <1>5, FS_Interval
  <2>2. IsFiniteSet(1 .. n) /\ Cardinality(1 .. n) = n
    BY <1>1, FS_Interval
  <2>3. IsFiniteSet(T) /\ Cardinality(T) = n - 1
    <3>1. IsFiniteSet(T) /\ Cardinality(T) = IF c \in 1 .. n THEN Cardinality(1 .. n) - 1
                                            ELSE Cardinality(1 .. n)
      BY <2>2, FS_RemoveElement, Zenon
    <3> QED
      BY <1>1, <2>2, <3>1
  <2> DEFINE f == [k \in S |-> s[k]]
  <2>4. f \in [S -> T]
    BY <1>1, <1>5, <1>6
  <2>5. Cardinality(T) < Cardinality(S)
    BY <1>1, <1>3, <1>5, <2>1, <2>3
  <2>6. \E x, y \in S : x # y /\ f[x] = f[y]
    <3> HIDE DEF S, T, f
    <3>1. IsFiniteSet(S) /\ IsFiniteSet(T) /\ Cardinality(T) < Cardinality(S) /\ f \in [S -> T]
      BY <2>1, <2>3, <2>4, <2>5
    <3>2. PICK S2, T2, f2 : S2 = S /\ T2 = T /\ f2 = f
      OBVIOUS
    <3>3. \E x, y \in S2 : x # y /\ f2[x] = f2[y]
      BY ONLY <3>1, <3>2, FS_PigeonHole
    <3> QED
      BY <3>2, <3>3
  <2>7. PICK x \in S, y \in S : x # y /\ s[x] = s[y]
    BY <2>6
  <2> QED
    BY <1>2, <1>5, <2>7 DEF S
<1> QED
  BY <1>4, <1>5, <1>6

(* How much of a row was read says which of its blocks the scan is past.    *)
LEMMA ReadRow ==
  ASSUME NEW a \in Int, NEW V \in Nat, NEW q \in Nat, q < V, NEW k \in Int, NEW vert \in Nat,
         NEW mcu \in Nat, NEW w \in Nat, NEW x \in Nat, x < w, NEW inter \in BOOLEAN
  PROVE  x < (IF inter THEN k ELSE IF q < vert THEN w ELSE IF q = vert THEN mcu ELSE 0) <=>
           /\ inter => a + q < a \/ (a + q < a + V /\ x < k)
           /\ ~inter => a + q < a + vert \/ (a + q = a + vert /\ x < mcu)
<1>1. CASE inter = TRUE
  BY <1>1
<1>2. CASE inter = FALSE
  BY <1>2
<1> QED
  BY <1>1, <1>2

LEMMA BlockOfRow ==
  ASSUME cfg \in Configs, NEW c \in Comps, NEW i \in 0 .. iMCUheight(c) - 1
  PROVE  /\ i \div DCT_scaled_size(c) \in Nat /\ i \div DCT_scaled_size(c) < v(c)
         /\ v(c) \in Nat /\ h(c) \in Nat /\ DCT_scaled_size(c) \in Nat \ {0}
         /\ iMCUheight(c) = v(c) * DCT_scaled_size(c)
         /\ i = (i \div DCT_scaled_size(c)) * DCT_scaled_size(c) + (i % DCT_scaled_size(c))
         /\ i % DCT_scaled_size(c) \in 0 .. DCT_scaled_size(c) - 1
<1> DEFINE s == DCT_scaled_size(c)
           q == i \div s
<1>1. /\ v(c) \in Nat /\ h(c) \in Nat /\ s \in Nat \ {0} /\ iMCUheight(c) = v(c) * s
  <2>1. v(c) \in 1 .. 4 /\ h(c) \in 1 .. 4
    BY ImageIs
  <2>2. s \in Nat \ {0} /\ iMCUheight(c) = v(c) * s
    BY SizeIs
  <2> QED
    BY <2>1, <2>2
<1>2. i \in Nat /\ i < v(c) * s
  <2> HIDE DEF s
  <2>1. v(c) * s \in Nat
    BY <1>1
  <2> QED
    BY <1>1, <2>1
<1> HIDE DEF s
<1>3. q \in Nat /\ i % s \in 0 .. s - 1 /\ i = q * s + (i % s) /\ q * s \in Nat /\ q * s <= i
  BY <1>1, <1>2, Division
<1>4. q < v(c)
  <2>1. q * s < v(c) * s
    BY <1>1, <1>2, <1>3
  <2> QED
    BY <1>1, <1>3, <2>1, LessFactor
<1> QED
  BY <1>1, <1>3, <1>4 DEF s

LEMMA ReadIsPast ==
  ASSUME cfg \in Configs, InputInv, NEW c \in Comps, c \in InScan,
         NEW i \in 0 .. iMCUheight(c) - 1, NEW x \in Columns(c),
         NEW b1, b1 = input.row * v(c) + (i \div DCT_scaled_size(c))
  PROVE  x < ColumnsRead(c, i) <=> Past(c, <<b1, x>>)
<1> DEFINE a == input.row * v(c)
           q == i \div DCT_scaled_size(c)
           k == input.mcu * h(c)
           w == width_in_blocks(c)
<1>1. /\ q \in Nat /\ q < v(c) /\ v(c) \in Nat /\ h(c) \in Nat
  BY BlockOfRow
<1>2. /\ input.row \in Nat /\ input.vert \in Nat /\ input.mcu \in Nat /\ w \in Nat
      /\ x \in Nat /\ x < w /\ Interleaved \in BOOLEAN
  <2>1. w \in Nat /\ total_iMCU_rows \in Nat
    BY ComponentIs, RowsIs
  <2> QED
    BY <2>1 DEF InputInv, Columns, Interleaved
<1>3. a \in Int /\ k \in Int
  BY <1>1, <1>2
<1>4. ColumnsRead(c, i) = IF Interleaved THEN k ELSE IF q < input.vert THEN w
                          ELSE IF q = input.vert THEN input.mcu ELSE 0
  BY DEF ColumnsRead
<1>5. Past(c, <<b1, x>>) <=>
        /\ Interleaved => a + q < a \/ (a + q < a + v(c) /\ x < k)
        /\ ~Interleaved => a + q < a + input.vert \/ (a + q = a + input.vert /\ x < input.mcu)
  BY DEF Past
<1> HIDE DEF a, k, q, w
<1> QED
  BY ONLY <1>1, <1>2, <1>3, <1>4, <1>5, ReadRow

LEMMA NextReadIsPast ==
  ASSUME cfg \in Configs, cfg' = cfg, InputInv', NEW c \in Comps, c \in InScan',
         NEW i \in 0 .. iMCUheight(c) - 1, NEW x \in Columns(c),
         NEW b1, b1 = input'.row * v(c) + (i \div DCT_scaled_size(c))
  PROVE  x < ColumnsRead(c, i)' <=> Past(c, <<b1, x>>)'
<1> DEFINE a == input'.row * v(c)
           q == i \div DCT_scaled_size(c)
           k == input'.mcu * h(c)
           w == width_in_blocks(c)
           inter == Interleaved'
<1>1. /\ q \in Nat /\ q < v(c) /\ v(c) \in Nat /\ h(c) \in Nat
  BY BlockOfRow
<1>2. /\ v(c)' = v(c) /\ h(c)' = h(c) /\ width_in_blocks(c)' = w
      /\ DCT_scaled_size(c)' = DCT_scaled_size(c) /\ total_iMCU_rows' = total_iMCU_rows
  BY ImageKept, SizesKept
<1>3. /\ input'.row \in Nat /\ input'.vert \in Nat /\ input'.mcu \in Nat /\ w \in Nat
      /\ x \in Nat /\ x < w /\ inter \in BOOLEAN
  <2>1. w \in Nat /\ total_iMCU_rows \in Nat
    BY ComponentIs, RowsIs
  <2> QED
    BY <1>2, <2>1 DEF InputInv, Columns, Interleaved
<1>4. a \in Int /\ k \in Int
  BY <1>1, <1>3
<1>5. ColumnsRead(c, i)' = IF inter THEN k ELSE IF q < input'.vert THEN w
                           ELSE IF q = input'.vert THEN input'.mcu ELSE 0
  BY <1>2 DEF ColumnsRead
<1>6. Past(c, <<b1, x>>)' <=>
        /\ inter => a + q < a \/ (a + q < a + v(c) /\ x < k)
        /\ ~inter => a + q < a + input'.vert \/ (a + q = a + input'.vert /\ x < input'.mcu)
  BY <1>2 DEF Past
<1> HIDE DEF a, k, q, w, inter
<1> QED
  BY ONLY <1>1, <1>3, <1>4, <1>5, <1>6, ReadRow
-----------------------------------------------------------------------------
(* The columns of row i of the iMCU row that the MCU that is next has.      *)
NextColumns(c, i) ==
  {x \in Columns(c) : <<input.row * v(c) + (i \div DCT_scaled_size(c)), x>> \in BlocksOf(c)}

LEMMA BlocksAre ==
  ASSUME NEW c, NEW b \in BlocksOf(c)
  PROVE  b = <<b[1], b[2]>>
BY DEF BlocksOf

(* Row i of the iMCU row is in block row number i \div s of it.             *)
LEMMA BlockRowIs ==
  ASSUME cfg \in Configs, InputInv, NEW c \in Comps, NEW i \in 0 .. iMCUheight(c) - 1
  PROVE  LET s == DCT_scaled_size(c)
             b == input.row * v(c) + (i \div s)
             r == input.row * iMCUheight(c) + i
         IN /\ r \in Nat /\ r \div s = b /\ b \in Nat /\ input.row * v(c) \in Int
            /\ (input.row * v(c)) * s + i = r /\ i \div s \in Nat
            /\ b < (input.row + 1) * v(c)
            /\ Real(c, r) => b \in 0 .. height_in_blocks(c) - 1
<1> DEFINE s == DCT_scaled_size(c)
           q == i \div s
           first == input.row * v(c)
           b == first + q
           r == input.row * iMCUheight(c) + i
<1>1. /\ q \in Nat /\ q < v(c) /\ v(c) \in Nat /\ s \in Nat \ {0} /\ iMCUheight(c) = v(c) * s
      /\ i = q * s + (i % s) /\ i % s \in 0 .. s - 1
  BY BlockOfRow
<1>2. input.row \in Nat /\ height_in_blocks(c) \in Nat
  <2>1. total_iMCU_rows \in Nat /\ height_in_blocks(c) \in Nat
    BY RowsIs, ComponentIs
  <2> QED
    BY <2>1 DEF InputInv
<1>3. first \in Nat /\ (input.row + 1) * v(c) = first + v(c)
  <2>1. input.row \in Nat /\ v(c) \in Nat
    BY <1>1, <1>2
  <2> QED
    BY ONLY <2>1
<1>4. first * s \in Nat /\ input.row * iMCUheight(c) = first * s
  BY <1>1, <1>2
<1>5. b * s = first * s + q * s /\ q * s \in Nat /\ b \in Nat /\ b * s \in Nat
  <2> HIDE DEF first, q, s
  <2>1. first \in Nat /\ q \in Nat /\ s \in Nat
    BY <1>1, <1>3
  <2>2. (first + q) * s = first * s + q * s
    BY ONLY <2>1
  <2>3. q * s \in Nat /\ first * s \in Nat /\ first + q \in Nat
    BY ONLY <2>1
  <2> QED
    BY <2>2, <2>3
<1>6. i \in Nat
  <2> HIDE DEF s
  <2>1. v(c) * s \in Nat
    BY <1>1
  <2> QED
    BY <1>1, <2>1
<1>7. r \in Nat /\ r = b * s + (i % s) /\ first * s + i = r
  <2> DEFINE a == first * s
             d == q * s
             e == i % s
  <2>1. a \in Nat /\ d \in Nat /\ e \in Nat /\ i = d + e /\ r = a + i /\ b * s = a + d
    <3>1. a \in Nat /\ d \in Nat /\ e \in Nat
      BY <1>1, <1>4, <1>5
    <3>2. i = d + e
      BY <1>1
    <3>3. r = a + i
      BY <1>4
    <3>4. b * s = a + d
      BY <1>5
    <3> QED
      BY <3>1, <3>2, <3>3, <3>4, Zenon
  <2>2. first * s = a /\ i % s = e
    OBVIOUS
  <2> HIDE DEF a, d, e, b, r
  <2> QED
    BY <2>1, <2>2
<1>8. r \div s = b
  <2> HIDE DEF b, r, s
  <2> QED
    <3>1. PICK e : e = i % s
      OBVIOUS
    <3>2. r \in Nat /\ s \in Nat \ {0} /\ b \in Nat /\ e \in 0 .. s - 1 /\ r = b * s + e
      BY ONLY <1>1, <1>5, <1>7, <3>1
    <3> QED
      BY ONLY <3>2, DivisionUnique, Zenon
<1>9. b < (input.row + 1) * v(c)
  <2> HIDE DEF first, q
  <2> QED
    BY <1>1, <1>3
<1>10. ASSUME Real(c, r) PROVE b \in 0 .. height_in_blocks(c) - 1
  <2>1. r < height_in_blocks(c) * s /\ height_in_blocks(c) * s \in Nat
    BY <1>1, <1>2, <1>10 DEF Real
  <2>2. b * s \in Nat
    BY <1>5
  <2> DEFINE d == height_in_blocks(c) * s
             e == b * s
  <2>3. e < d
    <3>1. e \in Nat /\ d \in Nat /\ r < d /\ r = e + (i % s) /\ i % s \in Nat
      BY <1>1, <1>7, <2>1, <2>2
    <3> HIDE DEF d, e, r, s
    <3> QED
      BY <3>1
  <2>4. b < height_in_blocks(c)
    <3> HIDE DEF b, s
    <3> QED
      BY <1>1, <1>2, <1>5, <2>3, LessFactor
  <2> HIDE DEF b
  <2> QED
    BY <1>2, <1>5, <2>4
<1> HIDE DEF r, b
<1>11. i \div s \in Nat /\ first \in Int
  BY <1>1, <1>3
<1> QED
  BY <1>5, <1>7, <1>8, <1>9, <1>10, <1>11 DEF r, b

(* What decompress_onepass writes.                                          *)
LEMMA OnePassIs ==
  ASSUME CountInv, BufType, Filling, Pointers(main, output.row),
         NEW c \in Comps, NEW n, n = rgroup(c) * Groups
  PROVE  LET w == main.whichptr
             p == iMCUheight(c)
         IN /\ \A i \in 0 .. p - 1 :
                 Real(c, input.row * p + i) =>
                   LET old == main.buf[c][Place(c, i, w)]
                       r == input.row * p + i
                       new == NextColumns(c, i)
                   IN OnePassMCU[c][Place(c, i, w)] =
                        IF c \notin Needed \/ new = {} THEN old
                        ELSE [r |-> r, cols |-> IF old.r = r THEN old.cols \cup new ELSE new]
            /\ \A i \in p .. n - 1 : OnePassMCU[c][Place(c, i, w)] = main.buf[c][Place(c, i, w)]
            /\ OnePassMCU[c] \in [0 .. n - 1 -> [r : {-1} \cup Nat, cols : SUBSET Columns(c)]]
<1> DEFINE w == main.whichptr
           p == iMCUheight(c)
           s == DCT_scaled_size(c)
           real == {b \in BlocksOf(c) : b[1] < height_in_blocks(c) /\ b[2] \in Columns(c)}
           first == input.row * v(c)
           at == {i \in 0 .. p - 1 : c \in Needed /\ \E b \in real : i \div s = b[1] - first}
           where == {Physical(c, i) : i \in at}
           row(x) == CHOOSE i \in at : Physical(c, i) = x
           N(i) == {b[2] : b \in {d \in real : d[1] = (first * s + i) \div s}}
           R(x, i) == [r |-> first * s + i,
                       cols |-> IF main.buf[c][x].r = first * s + i
                                THEN main.buf[c][x].cols \cup N(i) ELSE N(i)]
<1>1. cfg \in Configs /\ MainType(main) /\ ~main.buffer_full /\ output.row \in Nat /\ InputInv
  BY FillingIs DEF CountInv, MapInv
<1>2. n \in Nat /\ p <= n /\ p \in Nat /\ \A i \in 0 .. n - 1 : Place(c, i, w) \in 0 .. n - 1
  BY <1>1, PhysicalIs
<1>3. /\ DOMAIN main.buf[c] = 0 .. n - 1
      /\ main.buf[c] \in [0 .. n - 1 -> [r : {-1} \cup Nat, cols : SUBSET Columns(c)]]
  BY DEF BufType
<1>4. OnePassMCU[c] = [x \in 0 .. n - 1 |->
                         IF x \notin where THEN main.buf[c][x] ELSE R(x, row(x))]
  BY <1>3 DEF OnePassMCU
<1>5. at \subseteq 0 .. n - 1 /\ at \subseteq 0 .. p - 1
  <2> HIDE DEF p
  <2> QED
    BY <1>2
<1>6. /\ \A i \in at : Place(c, i, w) \in where /\ row(Place(c, i, w)) = i
      /\ \A i \in 0 .. n - 1 : i \notin at => Place(c, i, w) \notin where
      /\ \A x \in where : row(x) \in at
  <2> HIDE DEF at
  <2> QED
    BY ONLY <1>1, <1>5, n = rgroup(c) * Groups, Pointers(main, output.row), c \in Comps, ChosenIs, Zenon
<1>7. ASSUME NEW i \in 0 .. p - 1
      PROVE  /\ first * s + i \in Nat /\ first * s + i = input.row * p + i
             /\ Real(c, input.row * p + i) =>
                  /\ i \in at <=> c \in Needed /\ NextColumns(c, i) # {}
                  /\ N(i) = NextColumns(c, i)
  <2> DEFINE q == i \div s
             r == input.row * p + i
             b1 == first + q
  <2>1. /\ r \in Nat /\ r \div s = b1 /\ b1 \in Nat /\ first * s + i = r /\ first \in Int /\ q \in Nat
        /\ Real(c, r) => b1 \in 0 .. height_in_blocks(c) - 1
    BY <1>1, BlockRowIs
  <2>2. NextColumns(c, i) = {x \in Columns(c) : <<b1, x>> \in BlocksOf(c)}
    BY DEF NextColumns
  <2>3. ASSUME Real(c, r)
        PROVE  (i \in at <=> c \in Needed /\ NextColumns(c, i) # {}) /\ N(i) = NextColumns(c, i)
    <3>1. b1 < height_in_blocks(c)
      <4>1. height_in_blocks(c) \in Nat
        BY <1>1, ComponentIs
      <4> HIDE DEF b1, r
      <4> QED
        BY <2>1, <2>3, <4>1
    <3>2. \A x \in NextColumns(c, i) : <<b1, x>> \in real
      BY <2>2, <3>1
    <3>3. \A b \in real : b[1] = b1 => b[2] \in NextColumns(c, i)
      <4> SUFFICES ASSUME NEW b \in real, b[1] = b1 PROVE b[2] \in NextColumns(c, i)
        OBVIOUS
      <4>1. b = <<b1, b[2]>> /\ b \in BlocksOf(c) /\ b[2] \in Columns(c)
        BY BlocksAre
      <4> HIDE DEF b1
      <4> QED
        BY <2>2, <4>1
    <3>4. \A b \in real : b[1] \in Int
      <4>1. input.vert \in Int /\ first \in Int /\ v(c) \in Int
        <5>1. v(c) \in 1 .. 4 /\ input.vert \in Nat
          BY <1>1, ImageIs DEF InputInv
        <5> QED
          BY <2>1, <5>1
      <4> QED
        BY <4>1 DEF BlocksOf
    <3> HIDE DEF real
    <3>5. N(i) = NextColumns(c, i)
      <4>1. N(i) = {b[2] : b \in {d \in real : d[1] = b1}}
        BY <2>1
      <4> HIDE DEF N, b1
      <4>2. \A x \in NextColumns(c, i) : <<b1, x>>[1] = b1 /\ <<b1, x>>[2] = x
        OBVIOUS
      <4> QED
        BY <3>2, <3>3, <4>1, <4>2
    <3>6. (\E b \in real : q = b[1] - first) <=> \E b \in real : b[1] = b1
      <4> HIDE DEF first, q
      <4> QED
        BY <2>1, <3>4
    <3>7. (\E b \in real : b[1] = b1) <=> NextColumns(c, i) # {}
      <4> HIDE DEF b1
      <4> QED
        BY <3>2, <3>3
    <3> QED
      BY <3>5, <3>6, <3>7
  <2> QED
    BY <2>1, <2>3
<1>8. \A i : N(i) \subseteq Columns(c)
  OBVIOUS
<1> HIDE DEF where, row, at, N
<1>9. ASSUME NEW i \in 0 .. p - 1, Real(c, input.row * p + i)
      PROVE  OnePassMCU[c][Place(c, i, w)] =
               IF c \notin Needed \/ NextColumns(c, i) = {} THEN main.buf[c][Place(c, i, w)]
               ELSE [r |-> input.row * p + i,
                     cols |-> IF main.buf[c][Place(c, i, w)].r = input.row * p + i
                              THEN main.buf[c][Place(c, i, w)].cols \cup NextColumns(c, i)
                              ELSE NextColumns(c, i)]
  <2> DEFINE x == Place(c, i, w)
  <2>1. /\ first * s + i = input.row * p + i /\ N(i) = NextColumns(c, i)
        /\ i \in at <=> c \in Needed /\ NextColumns(c, i) # {}
    BY <1>7, <1>9
  <2>2. i \in 0 .. n - 1 /\ x \in 0 .. n - 1
    <3>1. i \in 0 .. n - 1
      <4> HIDE DEF p
      <4> QED
        BY <1>2
    <3> QED
      BY <1>2, <3>1
  <2>3. ASSUME i \in at PROVE OnePassMCU[c][x] = R(x, i)
    <3>1. x \in where /\ row(x) = i
      BY <1>6, <2>3
    <3> HIDE DEF R, x
    <3> QED
      BY <1>4, <2>2, <3>1
  <2>4. ASSUME i \notin at PROVE OnePassMCU[c][x] = main.buf[c][x]
    <3>1. x \notin where
      BY <1>6, <2>2, <2>4
    <3> HIDE DEF R, x
    <3> QED
      BY <1>4, <2>2, <3>1
  <2>5. R(x, i) = [r |-> input.row * p + i,
                   cols |-> IF main.buf[c][x].r = input.row * p + i
                            THEN main.buf[c][x].cols \cup NextColumns(c, i)
                            ELSE NextColumns(c, i)]
    BY <2>1, Zenon
  <2> HIDE DEF R, x
  <2> QED
    BY <2>1, <2>3, <2>4, <2>5, Zenon DEF x
<1>10. ASSUME NEW i \in p .. n - 1
       PROVE  OnePassMCU[c][Place(c, i, w)] = main.buf[c][Place(c, i, w)]
  <2>1. i \notin at /\ i \in 0 .. n - 1
    <3> HIDE DEF p
    <3> QED
      BY <1>2, <1>5
  <2> HIDE DEF R
  <2> QED
    BY <1>2, <1>4, <1>6, <2>1
<1>11. OnePassMCU[c] \in [0 .. n - 1 -> [r : {-1} \cup Nat, cols : SUBSET Columns(c)]]
  <2> SUFFICES ASSUME NEW x \in 0 .. n - 1
               PROVE  (IF x \notin where THEN main.buf[c][x] ELSE R(x, row(x)))
                        \in [r : {-1} \cup Nat, cols : SUBSET Columns(c)]
    BY <1>4
  <2>1. main.buf[c][x] \in [r : {-1} \cup Nat, cols : SUBSET Columns(c)]
    BY <1>3
  <2>2. CASE x \notin where
    BY <2>1, <2>2
  <2>3. CASE x \in where
    <3>1. row(x) \in 0 .. p - 1
      BY <1>5, <1>6, <2>3
    <3>2. first * s + row(x) \in Nat
      BY <1>7, <3>1
    <3> DEFINE i == row(x)
               r == first * s + i
               cols == IF main.buf[c][x].r = r THEN main.buf[c][x].cols \cup N(i) ELSE N(i)
    <3>3. cols \subseteq Columns(c)
      <4>1. main.buf[c][x].cols \subseteq Columns(c) /\ N(i) \subseteq Columns(c)
        BY <1>8, <2>1 DEF N
      <4> QED
        BY <4>1
    <3>4. R(x, i) = [r |-> r, cols |-> cols]
      OBVIOUS
    <3>5. r \in Nat
      BY <3>2
    <3> HIDE DEF r, cols, R, i
    <3>6. R(x, i) \in [r : {-1} \cup Nat, cols : SUBSET Columns(c)]
      BY <3>3, <3>4, <3>5
    <3> QED
      BY <2>3, <3>6 DEF i
  <2> QED
    BY <2>2, <2>3
<1> QED
  BY <1>9, <1>10, <1>11
-----------------------------------------------------------------------------
(* The columns the scan is past of, or that the next MCU has, are in the    *)
(* buffer after it.                                                         *)
LEMMA DecodedColumns ==
  ASSUME CountInv, BufType, Filling, Pointers(main, output.row), NEW c \in Needed,
         c \in InScan, NEW i \in 0 .. iMCUheight(c) - 1,
         Real(c, input.row * iMCUheight(c) + i), Partial(main, c, i, input.row),
         NEW b1, b1 = input.row * v(c) + (i \div DCT_scaled_size(c)),
         NEW S, S \subseteq Columns(c), S # {},
         \A x \in S : Past(c, <<b1, x>>) \/ <<b1, x>> \in BlocksOf(c)
  PROVE  LET new == OnePassMCU[c][Place(c, i, main.whichptr)]
         IN new.r = input.row * iMCUheight(c) + i /\ S \subseteq new.cols
<1> DEFINE r == input.row * iMCUheight(c) + i
           x == Place(c, i, main.whichptr)
           old == main.buf[c][x]
           new == OnePassMCU[c][x]
           N == NextColumns(c, i)
           k == ColumnsRead(c, i)
<1>1. cfg \in Configs /\ InputInv /\ c \in Comps
  BY ImageIs DEF CountInv, MapInv
<1>2. new = IF N = {} THEN old
            ELSE [r |-> r, cols |-> IF old.r = r THEN old.cols \cup N ELSE N]
  BY <1>1, OnePassIs
<1>3. \A y \in Columns(c) : y < k <=> Past(c, <<b1, y>>)
  BY <1>1, ReadIsPast
<1>4. \A y \in S : y < k \/ y \in N
  BY <1>3 DEF NextColumns
<1>5. ASSUME NEW y \in Columns(c), y < k
      PROVE  old.r = r /\ \A z \in Columns(c) : z < k => z \in old.cols
  <2>1. k \in Int
    <3>1. /\ h(c) \in 1 .. 4 /\ width_in_blocks(c) \in Nat
      BY <1>1, ImageIs, ComponentIs
    <3> QED
      BY <1>1, <3>1 DEF ColumnsRead, InputInv
  <2>2. y \in Nat
    <3>1. width_in_blocks(c) \in Nat
      BY <1>1, ComponentIs
    <3> QED
      BY <3>1 DEF Columns
  <2>3. k > 0
    <3> HIDE DEF k
    <3> QED
      BY <1>5, <2>1, <2>2
  <2> QED
    BY <2>3 DEF Partial, HasColumns
<1> HIDE DEF r, x, N, k, old, new
<1>6. new.r = r /\ S \subseteq new.cols
  <2>1. CASE \E y \in S : y < k
    <3>1. old.r = r /\ \A z \in Columns(c) : z < k => z \in old.cols
      BY <1>5, <2>1
    <3> QED
      BY <1>2, <1>4, <3>1
  <2>2. CASE \A y \in S : y \in N
    <3>1. N # {}
      BY <2>2
    <3> QED
      BY <1>2, <2>2, <3>1
  <2>3. CASE ~\E y \in S : y < k
    BY <1>4, <2>2, <2>3
  <2> QED
    BY <2>1, <2>3
<1> QED
  BY <1>6 DEF r, x, new

(* Some of an iMCU row in one pass.                                         *)
LEMMA SomeDecoded ==
  ASSUME CountInv, DataInv, Filling, ~use_c_buffer, input.data, cfg' = cfg, input' = AfterMCU,
         ~RowEnds, main' = [main EXCEPT !.buf = OnePassMCU], output'.row = output.row
  PROVE  Pointers(main, output.row)' /\ BufferAt(main, output.row)'
<1> DEFINE row == output.row
           w == main.whichptr
<1>1. /\ cfg \in Configs /\ MainType(main) /\ ~main.buffer_full /\ input.scan = 1
      /\ input.row = row /\ row \in Nat /\ passes > 0 /\ ~main.crank
      /\ output.scanline < OutputHeight /\ InputInv
  BY FillingIs DEF CountInv, MapInv, OnePassInv
<1>2. Pointers(main, row) /\ BufferAt(main, row) /\ BufType
  BY <1>1 DEF DataInv, PassData
<1>3. /\ main'.buf = OnePassMCU /\ main'.whichptr = w /\ main'.xbuffer = main.xbuffer
      /\ main'.context_state = main.context_state /\ main'.buffer_full = main.buffer_full
  BY <1>1 DEF MainType
<1>4. PICK m : m = main'
  OBVIOUS
<1>5. Pointers(m, row)
  <2>1. Bottomed(m, row) = Bottomed(main, row) /\ Wrapped(m, row) = Wrapped(main, row)
    BY <1>3, <1>4, Zenon DEF Bottomed, Wrapped
  <2> QED
    BY <1>2, <1>3, <1>4, <2>1 DEF Pointers
<1>6. InScan = Comps
  BY <1>1, AllInScan
<1>7. input'.row = row /\ InputInv' /\ input'.scan = input.scan
  BY <1>1, AfterIs
<1>8. InScan' = Comps
  <2>1. InScan' = InScan
    BY <1>7 DEF InScan, Scan
  <2> QED
    BY <1>6, <2>1
<1>9. ASSUME NEW c \in Needed PROVE Kept2(m, c, row)
  <2> DEFINE n == rgroup(c) * Groups
             p == iMCUheight(c)
  <2>1. c \in Comps
    BY <1>1, ImageIs
  <2>2. \A i \in p .. n - 1 : OnePassMCU[c][Place(c, i, w)] = main.buf[c][Place(c, i, w)]
    BY <1>2, <2>1, OnePassIs
  <2>3. need_context_rows =>
          \A i \in rgroup(c) * M .. rgroup(c) * (M + 2) - 1 : i \in p .. n - 1
    BY <1>1, <1>2, <2>1, PhysicalIs
  <2>4. Kept2(main, c, row)
    BY <1>1, <1>2 DEF BufferAt
  <2> HIDE DEF n, p
  <2> QED
    BY <1>3, <1>4, <2>2, <2>3, <2>4 DEF Kept2
<1>10. ASSUME NEW c \in Needed, NEW i \in 0 .. iMCUheight(c) - 1
       PROVE  Partial(main, c, i, output.row)'
  <2> DEFINE r == row * iMCUheight(c) + i
             k == ColumnsRead(c, i)'
             S == {x \in Columns(c) : x < k}
             b1 == row * v(c) + (i \div DCT_scaled_size(c))
             new == OnePassMCU[c][Place(c, i, w)]
  <2>1. c \in Comps /\ width_in_blocks(c) \in Nat \ {0}
    BY <1>1, ImageIs, ComponentIs
  <2>2. ASSUME Real(c, r), k > 0 PROVE new.r = r /\ S \subseteq new.cols
    <3>1. b1 \in 0 .. height_in_blocks(c) - 1
      BY <1>1, <2>1, <2>2, BlockRowIs
    <3>2. \A x \in S : Past(c, <<b1, x>>) \/ <<b1, x>> \in BlocksOf(c)
      <4> SUFFICES ASSUME NEW x \in S PROVE Past(c, <<b1, x>>) \/ <<b1, x>> \in BlocksOf(c)
        OBVIOUS
      <4>1. PICK b : b = b1
        OBVIOUS
      <4>2. x \in Columns(c) /\ x < ColumnsRead(c, i)'
        OBVIOUS
      <4>3. Past(c, <<b, x>>)'
        BY <1>1, <1>7, <1>8, <2>1, <4>1, <4>2, NextReadIsPast
      <4> HIDE DEF b1
      <4> QED
        BY <1>1, <2>1, <3>1, <4>1, <4>2, <4>3, PastGrows
    <3>3. S \subseteq Columns(c) /\ S # {}
      <4>1. 0 \in Columns(c)
        BY <2>1 DEF Columns
      <4> QED
        BY <2>2, <4>1
    <3>4. Partial(main, c, i, input.row) /\ c \in InScan
      BY <1>1, <1>2, <1>6, <2>1 DEF BufferAt
    <3>5. Real(c, input.row * iMCUheight(c) + i)
          /\ b1 = input.row * v(c) + (i \div DCT_scaled_size(c))
          /\ input.row * iMCUheight(c) + i = r
      BY <1>1, <2>2
    <3> HIDE DEF S, r, b1
    <3> QED
      BY <1>2, <3>2, <3>3, <3>4, <3>5, DecodedColumns
  <2>3. /\ height_in_blocks(c)' = height_in_blocks(c) /\ need_context_rows' = need_context_rows
        /\ DCT_scaled_size(c)' = DCT_scaled_size(c) /\ iMCUheight(c)' = iMCUheight(c)
        /\ Columns(c)' = Columns(c) /\ FunnyPointers(c)' = FunnyPointers(c)
    BY SizesKept, ModulesKept
  <2>4. (output.row * iMCUheight(c) + i)' = r
    BY <2>3
  <2>5. Place(c, i, main.whichptr)' = Place(c, i, w)
    BY <1>3, <2>3 DEF Place
  <2> HIDE DEF r
  <2> QED
    BY <1>3, <2>2, <2>3, <2>4, <2>5 DEF Partial, HasColumns, Real
<1>11. ~use_c_buffer' /\ Needed' = Needed /\ \A c : iMCUheight(c)' = iMCUheight(c)
  BY ImageKept, SizesKept, ModulesKept
<1>12. Pointers(main, output.row)'
  <2>1. PICK n : n = row
    OBVIOUS
  <2>2. Pointers(m, n)'
    BY <1>5, <2>1, DataKept
  <2> QED
    BY <1>4, <2>1, <2>2
<1>13. \A c \in Needed : Kept2(main, c, output.row)'
  <2>1. PICK n : n = row
    OBVIOUS
  <2>2. \A c \in Needed : Kept2(m, c, n)'
    BY <1>9, <2>1, DataKept
  <2> QED
    BY <1>4, <2>1, <2>2
<1> QED
  BY <1>1, <1>3, <1>10, <1>11, <1>12, <1>13 DEF BufferAt
-----------------------------------------------------------------------------
(* The last MCU of an iMCU row in one pass.                                 *)
LEMMA WholeDecoded ==
  ASSUME CountInv, DataInv, Filling, ~use_c_buffer, input.data, cfg' = cfg, input' = AfterMCU,
         RowEnds, main' = Filled([main EXCEPT !.buf = OnePassMCU]),
         output'.row = output.row + 1
  PROVE  Pointers(main, output.row)' /\ BufferAt(main, output.row)' /\ main'.buf = OnePassMCU
<1> DEFINE row == output.row
           w == main.whichptr
<1>1. /\ cfg \in Configs /\ MainType(main) /\ ~main.buffer_full /\ input.scan = 1
      /\ input.row = row /\ row \in Nat /\ passes > 0 /\ ~main.crank
      /\ output.scanline < OutputHeight /\ InputInv /\ MainAt(main, row)
  BY FillingIs DEF CountInv, MapInv, OnePassInv
<1>2. Pointers(main, row) /\ BufferAt(main, row) /\ BufType
  BY <1>1 DEF DataInv, PassData
<1>3. InScan = Comps
  BY <1>1, AllInScan
<1>4. ASSUME NEW c \in Needed
      PROVE  /\ \A i \in 0 .. iMCUheight(c) - 1 :
                  Real(c, row * iMCUheight(c) + i) =>
                    OnePassMCU[c][Place(c, i, w)] = WholeRow(c, row * iMCUheight(c) + i)
             /\ Kept2(main, c, row)
             /\ need_context_rows =>
                  \A i \in rgroup(c) * M .. rgroup(c) * (M + 2) - 1 :
                    OnePassMCU[c][Place(c, i, w)] = main.buf[c][Place(c, i, w)]
  <2> DEFINE n == rgroup(c) * Groups
             p == iMCUheight(c)
  <2>1. c \in Comps /\ width_in_blocks(c) \in Nat \ {0}
    BY <1>1, ImageIs, ComponentIs
  <2>2. /\ \A i \in p .. n - 1 : OnePassMCU[c][Place(c, i, w)] = main.buf[c][Place(c, i, w)]
        /\ OnePassMCU[c] \in [0 .. n - 1 -> [r : {-1} \cup Nat, cols : SUBSET Columns(c)]]
    BY <1>2, <2>1, OnePassIs
  <2>3. /\ n \in Nat /\ p <= n /\ p \in Nat
        /\ \A i \in 0 .. n - 1 : Place(c, i, w) \in 0 .. n - 1
        /\ need_context_rows =>
             \A i \in rgroup(c) * M .. rgroup(c) * (M + 2) - 1 : i \in p .. n - 1
    BY <1>1, <1>2, <2>1, PhysicalIs
  <2>4. Kept2(main, c, row)
    BY <1>1, <1>2 DEF BufferAt
  <2>5. ASSUME NEW i \in 0 .. p - 1, Real(c, row * p + i)
        PROVE  OnePassMCU[c][Place(c, i, w)] = WholeRow(c, row * p + i)
    <3> DEFINE r == row * p + i
               b1 == row * v(c) + (i \div DCT_scaled_size(c))
               new == OnePassMCU[c][Place(c, i, w)]
    <3>1. /\ b1 \in 0 .. height_in_blocks(c) - 1 /\ b1 \in Nat
          /\ b1 < (input.row + 1) * v(c)
      BY <1>1, <2>1, <2>5, BlockRowIs
    <3>2. \A x \in Columns(c) : Past(c, <<b1, x>>) \/ <<b1, x>> \in BlocksOf(c)
      <4> SUFFICES ASSUME NEW x \in Columns(c)
                   PROVE  Past(c, <<b1, x>>) \/ <<b1, x>> \in BlocksOf(c)
        OBVIOUS
      <4>1. PICK b : b = b1
        OBVIOUS
      <4> HIDE DEF b1
      <4>2. c \in InScan
        BY <1>3, <2>1
      <4>3. Past(c, <<b, x>>)'
        BY <2>1, <3>1, <4>1, <4>2, RowIsPast
      <4> QED
        BY <1>1, <2>1, <3>1, <4>1, <4>3, PastGrows
    <3>3. Columns(c) # {}
      <4>1. 0 \in Columns(c)
        BY <2>1 DEF Columns
      <4> QED
        BY <4>1
    <3>4. Partial(main, c, i, input.row) /\ c \in InScan
      BY <1>1, <1>2, <1>3, <2>1 DEF BufferAt
    <3>5. Real(c, input.row * iMCUheight(c) + i)
          /\ b1 = input.row * v(c) + (i \div DCT_scaled_size(c))
          /\ input.row * iMCUheight(c) + i = r
      BY <1>1, <2>5
    <3>6. new.r = r /\ Columns(c) \subseteq new.cols
      <4> HIDE DEF r, b1
      <4> QED
        BY <1>2, <3>2, <3>3, <3>4, <3>5, DecodedColumns
    <3>7. new \in [r : {-1} \cup Nat, cols : SUBSET Columns(c)]
      <4>1. i \in 0 .. n - 1
        <5> HIDE DEF n, p
        <5> QED
          BY <2>3
      <4> HIDE DEF n
      <4> QED
        BY <2>2, <2>3, <4>1
    <3> HIDE DEF new, r
    <3>8. new.cols = Columns(c)
      BY <3>6, <3>7
    <3> QED
      BY <3>6, <3>7, <3>8 DEF WholeRow, new, r
  <2>6. need_context_rows =>
          \A i \in rgroup(c) * M .. rgroup(c) * (M + 2) - 1 :
            OnePassMCU[c][Place(c, i, w)] = main.buf[c][Place(c, i, w)]
    <3> HIDE DEF n, p
    <3> QED
      BY <2>2, <2>3
  <2> QED
    BY <2>4, <2>5, <2>6
<1>5. /\ Pointers(main', row + 1) /\ BufferAt(main', row + 1)
      /\ main'.buf = OnePassMCU
  <2>1. PICK d : d = OnePassMCU
    OBVIOUS
  <2> QED
    BY <1>1, <1>2, <1>4, <2>1, FilledHolds
<1>6. main'.buffer_full = TRUE
  <2> DEFINE m == [main EXCEPT !.buf = OnePassMCU]
  <2>1. DOMAIN m = DOMAIN main
    OBVIOUS
  <2> HIDE DEF m
  <2>2. Filled(m).buffer_full = TRUE
    BY <1>1, <2>1 DEF Filled, MainType
  <2> QED
    BY <2>2 DEF m
<1>7. PICK m, n : m = main' /\ n = row + 1
  OBVIOUS
<1>8. Pointers(m, n)'
  BY <1>5, <1>7, DataKept
<1>9. BufferAt(m, n)'
  <2>1. BufferAt(m, n) /\ m.buffer_full = TRUE
    BY <1>5, <1>6, <1>7
  <2>2. Needed' = Needed /\ \A c : iMCUheight(c)' = iMCUheight(c)
    BY ImageKept, SizesKept
  <2> QED
    BY <2>1, <2>2, DataKept DEF BufferAt
<1>10. Pointers(main, output.row)' /\ BufferAt(main, output.row)'
  BY <1>7, <1>8, <1>9
<1> QED
  BY <1>5, <1>10

LEMMA DecodeData == ASSUME CountInv, DataInv, DecodeMCU PROVE DataInv'
<1>1. /\ Waiting /\ input.data /\ input' = AfterMCU
      /\ call' = IF call.op = "consume" /\ RowEnds THEN Return("none") ELSE call
      /\ UNCHANGED <<cfg, global_state, coef_bits, up, post, quant, shown, passes>>
  BY DEF DecodeMCU
<1>2. /\ cfg \in Configs /\ MapInv /\ OutputType /\ MainType(main)
      /\ CoefInv /\ BufType /\ PassData /\ ShownData
  BY DEF CountInv, MapInv, DataInv
<1>3. ShownData'
  <2>1. call'.op = "read" => call.op = "read"
    <3>1. DOMAIN call = {"op", "max"}
      BY <1>2 DEF MapInv, CallType
    <3> QED
      BY <1>1, <3>1 DEF Return
  <2> QED
    BY <1>1, <1>2, <2>1, ShownDataKept
<1>4. CASE use_c_buffer
  <2>1. /\ coefs' = [c \in Comps |-> [b \in DOMAIN coefs[c] |->
                       IF b \in BlocksOf(c) THEN input.scan ELSE coefs[c][b]]]
        /\ main' = main /\ output' = output
    BY <1>4 DEF DecodeMCU
  <2>2. CoefInv'
    BY <1>1, <1>2, <2>1, DecodeCoefs
  <2>3. BufType' /\ PassData'
    BY <1>1, <1>2, <1>4, <2>1, BufTypeKept, PassDataKept
  <2> QED
    BY <1>3, <2>2, <2>3 DEF DataInv
<1>5. CASE ~use_c_buffer
  <2>1. /\ Filling
        /\ main' = LET m == [main EXCEPT !.buf = OnePassMCU] IN IF RowEnds THEN Filled(m) ELSE m
        /\ output' = [output EXCEPT !.row = IF RowEnds THEN @ + 1 ELSE @]
        /\ coefs' = coefs
    BY <1>5 DEF DecodeMCU
  <2>2. /\ passes > 0 /\ ~main.crank /\ output.scanline < OutputHeight
    BY <2>1, FillingIs
  <2>3. /\ output'.row = IF RowEnds THEN output.row + 1 ELSE output.row
        /\ output'.scanline = output.scanline
    BY <1>2, <2>1 DEF OutputType
  <2>4. /\ Pointers(main, output.row)' /\ BufferAt(main, output.row)'
        /\ main'.buf = OnePassMCU
    <3>1. CASE RowEnds
      <4>1. main' = Filled([main EXCEPT !.buf = OnePassMCU]) /\ output'.row = output.row + 1
        BY <2>1, <2>3, <3>1
      <4> QED
        BY <1>1, <1>5, <2>1, <3>1, <4>1, WholeDecoded
    <3>2. CASE ~RowEnds
      <4>1. main' = [main EXCEPT !.buf = OnePassMCU] /\ output'.row = output.row
        BY <2>1, <2>3, <3>2
      <4>2. main'.buf = OnePassMCU
        BY <1>2, <4>1 DEF MainType
      <4> QED
        BY <1>1, <1>5, <2>1, <3>2, <4>1, <4>2, SomeDecoded
    <3> QED
      BY <3>1, <3>2
  <2>5. CoefInv'
    <3>1. ~use_c_buffer' /\ Comps' = Comps /\ \A c : Blocks(c)' = Blocks(c)
      BY <1>1, <1>5, ImageKept, ModulesKept, DataKept
    <3> QED
      BY <1>2, <2>1, <3>1 DEF CoefInv
  <2>6. BufType'
    <3>1. Pointers(main, output.row)
      BY <1>2, <2>2 DEF PassData
    <3>2. \A c \in Comps : main'.buf[c] \in [0 .. rgroup(c) * Groups - 1 ->
                                              [r : {-1} \cup Nat, cols : SUBSET Columns(c)]]
      BY <1>2, <2>1, <2>4, <3>1, OnePassIs
    <3>3. DOMAIN main'.buf = Comps
      BY <2>4 DEF OnePassMCU
    <3>4. /\ Comps' = Comps /\ Groups' = Groups
          /\ \A c : rgroup(c)' = rgroup(c) /\ Columns(c)' = Columns(c)
      BY <1>1, ImageKept, SizesKept, ModulesKept
    <3> QED
      BY <3>2, <3>3, <3>4 DEF BufType
  <2>7. PassData'
    <3>1. WholeHolds(post, output.scanline) /\ UpHolds(up, output.scanline)
      BY <1>2, <2>2 DEF PassData
    <3>2. WholeHolds(post, output.scanline)' /\ UpHolds(up, output.scanline)'
      BY <1>1, <2>3, <3>1, DataKept
    <3> QED
      BY <2>4, <3>2 DEF PassData
  <2> QED
    BY <1>3, <2>5, <2>6, <2>7 DEF DataInv
<1> QED
  BY <1>4, <1>5
-----------------------------------------------------------------------------
(* Every step leaves the data in their places.                              *)
LEMMA NextData == CountInv /\ DataInv /\ [Next]_vars => DataInv'
<1> SUFFICES ASSUME CountInv, DataInv, [Next]_vars PROVE DataInv'
  OBVIOUS
<1>1. CASE Library
  <2>1. CASE FillBuffer
    BY <2>1, FillData
  <2>2. CASE Preloaded
    BY <2>2, PreloadedData
  <2>3. CASE EndDummyPass
    BY <2>3, DummyData
  <2>4. CASE SetupDone \/ OutputFinished \/ Finished
    BY <2>4, QuietData
  <2>5. CASE SimpleMain
    BY <2>5, SimpleData
  <2>6. CASE PostponedRow
    BY <2>6, PostponedData
  <2>7. CASE ProcessRows
    BY <2>7, ProcessData
  <2>8. CASE CrankPost
    BY <2>8, CrankData
  <2>9. CASE RawData
    BY <2>9, RawDataData
  <2> QED
    BY <1>1, <2>1, <2>2, <2>3, <2>4, <2>5, <2>6, <2>7, <2>8, <2>9 DEF Library
<1>2. CASE Application
  <2>1. CASE \E n \in LinesAsked : ReadScanlines(n)
    BY <2>1, ReadData
  <2>2. CASE \E n \in 0 .. Len(cfg.scans) + 1 : StartOutput(n)
    BY <2>2, StartOutputData
  <2>3. CASE StartDecompress \/ CallAgain \/ jpeg_new_colormap \/ FinishOutput
             \/ FinishDecompress \/ \E two \in BOOLEAN : Requantize(two)
    BY <2>3, QuietData
  <2> QED
    BY <1>2, <2>1, <2>2, <2>3 DEF Application
<1>3. CASE Source
  BY <1>3, DecodeData, MarkersData DEF Source
<1>4. CASE Suspend \/ ConsumeInput
  BY <1>4, QuietData
<1>5. CASE UNCHANGED vars
  <2>1. cfg' = cfg /\ UNCHANGED <<input, coefs, output, main, up, post, passes, shown>>
        /\ call' = call
    BY <1>5 DEF vars
  <2> QED
    BY <2>1, IdleData
<1> QED
  BY <1>1, <1>2, <1>3, <1>4, <1>5 DEF Next

(* Whatever the image, wherever the source suspends and whatever the        *)
(* application calls: the coefficient arrays, the main buffer with its      *)
(* lists of pointers, the upsampler and the strips of the postprocessor     *)
(* have the data of the scan that is shown, in their places.                *)
THEOREM DataCorrect == Spec => [](CountInv /\ DataInv)
<1> QED
  BY InitCount, NextCount, InitData, NextData, PTL DEF Spec

(* A line is made of the rows of its place and those next to them.          *)
LEMMA ShownLine ==
  ASSUME NEW i, NEW k, NEW c \in Needed, shown.rows[i] = OutputRow(k)
  PROVE  /\ shown.rows[i][c][1] = WholeRow(c, k \div VRatio(c))
         /\ shown.rows[i][c][2] = WholeRow(c, Other(c, k \div VRatio(c), k))
BY DEF OutputRow

(* What was given are then the lines of the image, in order,                *)
LEMMA InOrder == DataInv /\ StripsEnd => RowsInOrder
<1> SUFFICES ASSUME DataInv, StripsEnd PROVE RowsInOrder
  OBVIOUS
<1>1. ASSUME NEW i \in Lines
      PROVE  /\ Line(i) < OutputHeight
             /\ \A c \in Needed : /\ shown.rows[i][c][1].r = Line(i) \div VRatio(c)
                                  /\ ContextIsTrue(i, c)
  <2>1. ~cfg.raw /\ i \in DOMAIN shown.rows
    BY DEF Lines
  <2>2. Line(i) < OutputHeight /\ shown.rows[i] = OutputRow(Line(i))
    BY <2>1 DEF DataInv, ShownData
  <2>3. ASSUME NEW c \in Needed
        PROVE  shown.rows[i][c][1].r = Line(i) \div VRatio(c) /\ ContextIsTrue(i, c)
    <3>1. /\ shown.rows[i][c][1] = WholeRow(c, Line(i) \div VRatio(c))
          /\ shown.rows[i][c][2] = WholeRow(c, Other(c, Line(i) \div VRatio(c), Line(i)))
      BY <2>2, ShownLine, Zenon
    <3> QED
      BY <3>1 DEF WholeRow, ContextIsTrue
  <2> QED
    BY <2>2, <2>3
<1>2. ASSUME cfg.raw, NEW i \in DOMAIN shown.rows, NEW c \in Needed,
             NEW k \in DOMAIN shown.rows[i][c], RawRow(c, k) < downsampled_height(c)
      PROVE  shown.rows[i][c][k].r = RawRow(c, k)
  <2>1. shown.rows[i][c][k] = WholeRow(c, RawRow(c, k))
    BY <1>2 DEF DataInv, ShownData
  <2> QED
    BY <2>1 DEF WholeRow
<1> QED
  BY <1>1, <1>2 DEF RowsInOrder

(* with all their data.                                                     *)
LEMMA Current == DataInv /\ StripsEnd => RowsCurrent
<1> SUFFICES ASSUME DataInv, StripsEnd PROVE RowsCurrent
  OBVIOUS
<1>1. ASSUME NEW i \in Lines, NEW c \in Needed, NEW n \in 1 .. 2
      PROVE  shown.rows[i][c][n].cols = Columns(c)
  <2>1. ~cfg.raw /\ i \in DOMAIN shown.rows
    BY DEF Lines
  <2>2. shown.rows[i] = OutputRow(Line(i))
    BY <2>1 DEF DataInv, ShownData
  <2>3. n = 1 \/ n = 2
    OBVIOUS
  <2>4. \E r : shown.rows[i][c][n] = WholeRow(c, r)
    <3>1. /\ shown.rows[i][c][1] = WholeRow(c, Line(i) \div VRatio(c))
          /\ shown.rows[i][c][2] = WholeRow(c, Other(c, Line(i) \div VRatio(c), Line(i)))
      BY <2>2, ShownLine, Zenon
    <3>2. CASE n = 1
      BY <3>1, <3>2, Zenon
    <3>3. CASE n = 2
      BY <3>1, <3>3, Zenon
    <3> QED
      BY <2>3, <3>2, <3>3
  <2> QED
    BY <2>4 DEF WholeRow
<1>2. ASSUME cfg.raw, NEW i \in DOMAIN shown.rows, NEW c \in Needed,
             NEW k \in DOMAIN shown.rows[i][c], RawRow(c, k) < downsampled_height(c)
      PROVE  shown.rows[i][c][k].cols = Columns(c)
  <2>1. shown.rows[i][c][k] = WholeRow(c, RawRow(c, k))
    BY <1>2 DEF DataInv, ShownData
  <2> QED
    BY <2>1 DEF WholeRow
<1> QED
  BY <1>1, <1>2 DEF RowsCurrent

(* Every line the application gets is made of the rows of its own place in  *)
(* every component, with their true neighbours in the image, and the lines  *)
(* are the next ones in order: whatever was suspended, however many were    *)
(* asked for, through the spare row, the strips and their replay. The strips*)
(* have to end at the bottom of the image: if they do not, the second pass  *)
(* of the quantizer gives lines below it (StopsAtBottom).                   *)
THEOREM LinesInOrder == Spec => [](StripsEnd => RowsInOrder)
<1>1. CountInv /\ DataInv => (StripsEnd => RowsInOrder)
  BY InOrder
<1> QED
  BY <1>1, DataCorrect, PTL

(* And every sample of them, with those smoothing and triangle filtering    *)
(* look at, is decoded from the data of the scan that the pass is to show,  *)
(* whatever was read ahead or given up since.                               *)
THEOREM LinesCurrent == Spec => [](StripsEnd => RowsCurrent)
<1>1. CountInv /\ DataInv => (StripsEnd => RowsCurrent)
  BY Current
<1> QED
  BY <1>1, DataCorrect, PTL

-----------------------------------------------------------------------------
(* When the strips end at the bottom, so does the output.                   *)
EndInv == StripsEnd => StopsAtBottom

(* A call of the postprocessor for the upsampler counts lines of the image  *)
(* only.                                                                    *)
LEMMA PassEnd ==
  ASSUME CountInv, CountInv', Processing, ~main.crank, main'.crank = main.crank,
         UNCHANGED <<cfg, passes>>
  PROVE  EndInv'
<1>1. passes > 0 /\ ~cfg.raw
  BY ProcessingIs, Zenon
<1>2. passes' > 0 /\ ~main'.crank /\ ~cfg'.raw
  BY <1>1
<1>3. ~cfg'.raw /\ ~main'.crank => output'.scanline <= OutputHeight'
  BY <1>2 DEF CountInv, PassInv
<1> QED
  BY <1>2, <1>3 DEF EndInv, StopsAtBottom

LEMMA StepEnd ==
  ASSUME CountInv, DataInv, EndInv, [Next]_vars, CountInv'
  PROVE  EndInv'
<1>1. /\ MapInv /\ OutputType /\ MainType(main) /\ cfg \in Configs
      /\ OutputHeight \in Nat
  <2>1. MapInv /\ OutputType /\ MainType(main) /\ cfg \in Configs
    BY DEF CountInv, MapInv
  <2> QED
    BY <2>1, RowsIs
<1>2. "scanline" \in DOMAIN output /\ "crank" \in DOMAIN main
  BY <1>1 DEF OutputType, MainType
<1>3. ASSUME cfg' = cfg PROVE OutputHeight' = OutputHeight /\ (StripsEnd' <=> StripsEnd)
  BY <1>3, SizesKept, DataKept
<1>4. ASSUME cfg' = cfg, output'.scanline = output.scanline PROVE EndInv'
  BY <1>3, <1>4 DEF EndInv, StopsAtBottom
<1>5. ASSUME cfg' = cfg, output'.scanline = 0 PROVE EndInv'
  BY <1>1, <1>3, <1>5 DEF EndInv, StopsAtBottom
<1>6. ASSUME NEW scan, PreparePass(scan), cfg' = cfg PROVE EndInv'
  <2>1. output' = output \/ output'.scanline = 0
    BY <1>6 DEF PreparePass
  <2> QED
    BY <1>4, <1>5, <1>6, <2>1
<1>7. CASE UNCHANGED vars
  BY <1>4, <1>7 DEF vars
<1>8. CASE \/ Suspend \/ ConsumeInput \/ CallAgain \/ FinishOutput \/ OutputFinished
           \/ FinishDecompress \/ Finished \/ SetupDone \/ jpeg_new_colormap \/ StartDecompress
           \/ (\E two \in BOOLEAN : Requantize(two)) \/ (\E n \in LinesAsked : ReadScanlines(n))
  <2>1. cfg' = cfg /\ output' = output
    BY <1>8 DEF Suspend, ConsumeInput, CallAgain, FinishOutput, OutputFinished,
       FinishDecompress, Finished, SetupDone, jpeg_new_colormap, StartDecompress, Requantize,
       ReadScanlines
  <2> QED
    BY <1>4, <2>1
<1>9. CASE FillBuffer \/ Source
  <2>1. cfg' = cfg /\ output'.scanline = output.scanline
    BY <1>2, <1>9 DEF FillBuffer, Source, DecodeMCU, ConsumeMarkers
  <2> QED
    BY <1>4, <2>1
<1>10. CASE Preloaded \/ \E n \in 0 .. Len(cfg.scans) + 1 : StartOutput(n)
  BY <1>6, <1>10 DEF Preloaded, StartOutput
<1>11. CASE EndDummyPass
  BY <1>2, <1>5, <1>11 DEF EndDummyPass
<1>12. CASE RawData
  BY <1>12 DEF RawData, EndInv, StopsAtBottom
<1>13. CASE SimpleMain
  BY <1>2, <1>13, PassEnd DEF SimpleMain, Posted, AfterSimple
<1>14. CASE PostponedRow
  BY <1>2, <1>14, PassEnd DEF PostponedRow, Posted, AfterPostponed
<1>15. CASE ProcessRows
  <2>1. PICK m \in {IF main.context_state = "PREPARE" THEN Prepare(main) ELSE main} :
          \E q \in {post_process_data(InputRows(m), m.rowgroup_ctr, Room)} :
            main' = AfterProcess(m, q.group) /\ Posted(q, TRUE)
    BY <1>15 DEF ProcessRows
  <2>2. m.crank = main.crank /\ "crank" \in DOMAIN m
    BY <1>2, <2>1 DEF Prepare
  <2>3. main'.crank = m.crank /\ UNCHANGED <<cfg, passes>>
    BY <2>1, <2>2 DEF AfterProcess, NextBuffer, Posted
  <2> QED
    BY <1>15, <2>2, <2>3, PassEnd DEF ProcessRows
<1>16. CASE CrankPost
  <2>1. Processing /\ main.crank
    BY <1>16 DEF CrankPost
  <2>2. PICK q : q = post_process_data(<<>>, 0, Room) /\ Posted(q, TRUE)
    BY <1>16 DEF CrankPost
  <2>3. Posts(q, output.scanline, Room, 0, 0) /\ PostHolds(q, output.scanline)
    <3>1. 0 \in Nat /\ 0 \in Int
      OBVIOUS
    <3> QED
      BY <2>1, <2>2, <3>1, ProcessingIs, ShowingIs
  <2>4. post.mode = "CRANK_DEST"
    BY <2>1, ProcessingIs, Zenon
  <2>5. q.count = Len(q.rows) /\ (StripsEnd => output.scanline + q.count <= OutputHeight)
    BY <2>3, <2>4 DEF Posts, PostHolds
  <2>6. output'.scanline = output.scanline + q.count /\ cfg' = cfg
    BY <1>2, <2>2 DEF Posted
  <2> QED
    BY <1>3, <2>5, <2>6 DEF EndInv, StopsAtBottom
<1> QED
  BY <1>7, <1>8, <1>9, <1>10, <1>11, <1>12, <1>13, <1>14, <1>15, <1>16
     DEF Next, Library, Application

(* The second pass of the 2-pass quantizer, which does not look for the     *)
(* bottom of the image, ends there all the same when the last strip has one *)
(* line or is full; the other passes always do. So strips of one or two     *)
(* lines, those of most images, never show the fault.                       *)
THEOREM StripsStop == Spec => [](StripsEnd => StopsAtBottom)
<1>1. Init => EndInv
  <2> SUFFICES ASSUME Init PROVE EndInv
    OBVIOUS
  <2>1. output.scanline = 0 /\ OutputHeight \in Nat
    <3>1. cfg \in Configs
      BY InitCount DEF CountInv, MapInv
    <3> QED
      BY <3>1, RowsIs DEF Init
  <2> QED
    BY <2>1 DEF EndInv, StopsAtBottom
<1>2. CountInv /\ DataInv /\ EndInv /\ [Next]_vars => EndInv'
  BY NextCount, StepEnd
<1>3. EndInv <=> (StripsEnd => StopsAtBottom)
  BY DEF EndInv
<1> QED
  BY <1>1, <1>2, <1>3, DataCorrect, PTL DEF Spec

(* Strips or not, a line that is in the image is the one of its place, with *)
(* its neighbours and all its data.                                         *)
THEOREM LinesTrue ==
  Spec => [](\A i \in Lines : Line(i) < OutputHeight => shown.rows[i] = OutputRow(Line(i)))
<1>1. CountInv /\ DataInv =>
        \A i \in Lines : Line(i) < OutputHeight => shown.rows[i] = OutputRow(Line(i))
  BY DEF DataInv, ShownData, Lines
<1> QED
  BY <1>1, DataCorrect, PTL
=============================================================================
