----------------------------- MODULE JpegScript -----------------------------
(* Scan scripts of the compressor: validate_script (jcmaster.c) and         *)
(* jpeg_simple_progression (jcparam.c). A scan is [comps, Ss, Se, Ah, Al],  *)
(* comps the sequence of its components, numbered from 1.                   *)
EXTENDS Integers, Sequences, FiniteSets, FiniteSetsExt

CONSTANTS DCTSIZE2,            \* coefficients of a block
          MAX_COMPS_IN_SCAN,
          MAX_AH_AL

ASSUME ScriptAssumption ==
  /\ DCTSIZE2 \in Nat /\ DCTSIZE2 > 6
  /\ MAX_COMPS_IN_SCAN \in Nat \ {0}
  /\ MAX_AH_AL \in Nat \ {0, 1}

Bands(s) == s.Ss .. s.Se
In(s, c) == \E k \in DOMAIN s.comps : s.comps[k] = c
-----------------------------------------------------------------------------
(* last_bitpos: the Al of the last of the first n scans that has this       *)
(* coefficient; -1: not seen yet.                                           *)
last_bitpos(script, n, c, i) ==
  LET seen == {k \in 1 .. n : In(script[k], c) /\ i \in Bands(script[k])}
  IN IF seen = {} THEN -1 ELSE script[Max(seen)].Al

progressive_mode(script) == script[1].Ss # 0 \/ script[1].Se # DCTSIZE2 - 1

GoodComponents(s, ncomps) ==
  /\ Len(s.comps) \in 1 .. MAX_COMPS_IN_SCAN
  /\ \A k \in DOMAIN s.comps : /\ s.comps[k] \in 1 .. ncomps
                               /\ k > 1 => s.comps[k - 1] < s.comps[k]

GoodProgression(script, n) ==
  LET s == script[n] IN
  /\ 0 <= s.Ss /\ s.Ss <= s.Se /\ s.Se < DCTSIZE2
  /\ s.Ah \in 0 .. MAX_AH_AL /\ s.Al \in 0 .. MAX_AH_AL
  /\ IF s.Ss = 0 THEN s.Se = 0 ELSE Len(s.comps) = 1
  /\ \A k \in DOMAIN s.comps :
       LET last(i) == last_bitpos(script, n - 1, s.comps[k], i) IN
       /\ s.Ss # 0 => last(0) >= 0
       /\ \A i \in Bands(s) : IF last(i) < 0 THEN s.Ah = 0
                              ELSE s.Ah = last(i) /\ s.Al = s.Ah - 1

Sequential(s) == s.Ss = 0 /\ s.Se = DCTSIZE2 - 1 /\ s.Ah = 0 /\ s.Al = 0

(* Mutant of GoodScan: a component may be sent again in sequential mode.    *)
GoodScanTwice(script, n, ncomps) ==
  /\ GoodComponents(script[n], ncomps)
  /\ IF progressive_mode(script)
     THEN GoodProgression(script, n)
     ELSE Sequential(script[n])

GoodScan(script, n, ncomps) ==
  /\ GoodComponents(script[n], ncomps)
  /\ IF progressive_mode(script)
     THEN GoodProgression(script, n)
     ELSE /\ Sequential(script[n])
          /\ \A c \in 1 .. ncomps :
               In(script[n], c) => \A k \in 1 .. n - 1 : ~In(script[k], c)

(* validate_script: TRUE unless it leads to ERREXIT.                        *)
validate_script(script, ncomps) ==
  /\ script # <<>>
  /\ \A n \in DOMAIN script : GoodScan(script, n, ncomps)
  /\ \A c \in 1 .. ncomps :
       IF progressive_mode(script) THEN last_bitpos(script, Len(script), c, 0) >= 0
       ELSE \E n \in DOMAIN script : In(script[n], c)
-----------------------------------------------------------------------------
fill_a_scan(ci, Ss, Se, Ah, Al) ==
  <<[comps |-> <<ci>>, Ss |-> Ss, Se |-> Se, Ah |-> Ah, Al |-> Al]>>

fill_scans(ncomps, Ss, Se, Ah, Al) ==
  [ci \in 1 .. ncomps |-> fill_a_scan(ci, Ss, Se, Ah, Al)[1]]

fill_dc_scans(ncomps, Ah, Al) ==
  IF ncomps <= MAX_COMPS_IN_SCAN
  THEN <<[comps |-> [ci \in 1 .. ncomps |-> ci], Ss |-> 0, Se |-> 0, Ah |-> Ah, Al |-> Al]>>
  ELSE fill_scans(ncomps, 0, 0, Ah, Al)

(* The space jpeg_simple_progression reserves for the script.               *)
nscans(ncomps, YCbCr) ==
  IF ncomps = 3 /\ YCbCr THEN 10
  ELSE IF ncomps > MAX_COMPS_IN_SCAN THEN 6 * ncomps ELSE 2 + 4 * ncomps

YCbCrScript ==
  LET last == DCTSIZE2 - 1
  IN fill_dc_scans(3, 0, 1) \o fill_a_scan(1, 1, 5, 0, 2) \o fill_a_scan(3, 1, last, 0, 1) \o
     fill_a_scan(2, 1, last, 0, 1) \o fill_a_scan(1, 6, last, 0, 2) \o
     fill_a_scan(1, 1, last, 2, 1) \o fill_dc_scans(3, 1, 0) \o
     fill_a_scan(3, 1, last, 1, 0) \o fill_a_scan(2, 1, last, 1, 0) \o
     fill_a_scan(1, 1, last, 1, 0)

jpeg_simple_progression(ncomps, YCbCr) ==
  LET last == DCTSIZE2 - 1
  IN IF ncomps = 3 /\ YCbCr THEN YCbCrScript
     ELSE fill_dc_scans(ncomps, 0, 1) \o fill_scans(ncomps, 1, 5, 0, 2) \o
          fill_scans(ncomps, 6, last, 0, 2) \o fill_scans(ncomps, 1, last, 2, 1) \o
          fill_dc_scans(ncomps, 1, 0) \o fill_scans(ncomps, 1, last, 1, 0)
-----------------------------------------------------------------------------
(* What a script is for: the bits of each coefficient. Scan s sends of      *)
(* coefficient i the bits Al .. Ah - 1 (first scan: all from Al up).        *)
Sent(s, c, i) == IF ~In(s, c) \/ i \notin Bands(s) THEN {}
                 ELSE s.Al .. (IF s.Ah = 0 THEN MAX_AH_AL ELSE s.Ah - 1)

(* In a script that is accepted no bit is sent twice, bits come from the    *)
(* highest to the lowest, and DC before AC (jcmaster.c: validate_script).   *)
SentOnce(script, ncomps) ==
  \A c \in 1 .. ncomps : \A i \in 0 .. DCTSIZE2 - 1 : \A m, n \in DOMAIN script :
    m < n => \A x \in Sent(script[m], c, i) : \A y \in Sent(script[n], c, i) : y < x

AllSent(script, ncomps) ==
  \A c \in 1 .. ncomps : \A i \in 0 .. DCTSIZE2 - 1 : \A b \in 0 .. MAX_AH_AL :
    \E n \in DOMAIN script : b \in Sent(script[n], c, i)
=============================================================================
