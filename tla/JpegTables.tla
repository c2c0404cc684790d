----------------------------- MODULE JpegTables -----------------------------
(* One table through its life: counted by a statistics pass, generated by   *)
(* finish_pass_gather, expanded by the encoder and by the decoder.          *)
EXTENDS JpegHuffman

CONSTANTS GatheredCounts,      \* what statistics passes may have counted
          DCT                  \* TRUE for a table of DC symbols

VARIABLES phase,               \* "gathered", "generated", "ready", "error"
          counts, table,
          encoder, decoder     \* the derived tables

vars == <<phase, counts, table, encoder, decoder>>

NoTable == [bits |-> <<>>, huffval |-> <<>>]
NotDerived == [ok |-> FALSE]

Init == /\ phase = "gathered"
        /\ counts \in GatheredCounts
        /\ table = NoTable
        /\ encoder = NotDerived /\ decoder = NotDerived

finish_pass_gather ==
  /\ phase = "gathered"
  /\ IF CanBeCoded(counts)
     THEN phase' = "generated" /\ table' = jpeg_gen_optimal_table(counts)
     ELSE phase' = "error" /\ UNCHANGED table      \* JERR_HUFF_CLEN_OVERFLOW
  /\ UNCHANGED <<counts, encoder, decoder>>

start_pass ==
  /\ phase = "generated"
  /\ encoder' = jpeg_make_c_derived_tbl(table, DCT)
  /\ decoder' = jpeg_make_d_derived_tbl(table, DCT)
  /\ phase' = IF encoder'.ok /\ decoder'.ok THEN "ready" ELSE "error"
  /\ UNCHANGED <<counts, table>>

Next == finish_pass_gather \/ start_pass

Spec == Init /\ [][Next]_vars
-----------------------------------------------------------------------------
Counted == {s \in DOMAIN counts : counts[s] > 0}
Ready == phase = "ready"

(* No code is the beginning of another, and none is all ones: the bits that *)
(* pad the end of a segment look like no symbol (jchuff.c:680).             *)
PrefixFree ==
  LET co == encoder.ehufco   si == encoder.ehufsi IN
  \A s \in Counted : /\ co[s] # 2 ^ si[s] - 1
                     /\ \A q \in Counted \ {s} :
                          si[s] <= si[q] => co[q] \div 2 ^ (si[q] - si[s]) # co[s]

(* Whatever was counted, the generated table is a legal one: both sides     *)
(* accept it, it has a code for each counted symbol and no other, and is    *)
(* free of prefixes, though the lengths were cut to MAX_CODE (jchuff.c:801, *)
(* "the JPEG spec seems to think this works").                              *)
TablesLegal ==
  /\ phase \in {"gathered", "generated", "ready", "error"}
  /\ table # NoTable =>
       table.bits \in [1 .. MAX_CODE -> Nat] /\ table.huffval \in Seq(DOMAIN counts)
  /\ phase = "error" => ~CanBeCoded(counts)
  /\ Ready => DOMAIN encoder.ehufsi = Counted /\ PrefixFree

(* The two ways HUFF_DECODE has of reading a symbol agree: the table of     *)
(* HUFF_LOOKAHEAD bits knows exactly the short codes, whatever bits follow, *)
(* and the loop of jpeg_huff_decode stops at the length of the code, not    *)
(* before and not after, and finds the symbol (jdhuff.c:392).               *)
DecodersAgree ==
  Ready => \A s \in Counted :
    LET n == encoder.ehufsi[s]   co == encoder.ehufco[s]   longer == HUFF_LOOKAHEAD - n IN
    /\ \A l \in 1 .. n - 1 : co \div 2 ^ (n - l) > decoder.maxcode[l]
    /\ co <= decoder.maxcode[n]
    /\ decoder.huffval[co + decoder.valoffset[n]] = s
    /\ IF longer >= 0
       THEN \A x \in 0 .. 2 ^ longer - 1 : decoder.look[co * 2 ^ longer + x] = <<n, s>>
       ELSE decoder.look[co \div 2 ^ (n - HUFF_LOOKAHEAD)] = <<0, 0>>

(* Few symbols never need codes longer than MAX_CODE. Then no other code    *)
(* that keeps a word free is shorter on the data that was counted.          *)
CodeLengths ==
  [n \in 1 .. MAX_CODE |->
     {f \in [1 .. n + 1 -> 1 .. n] :
        FoldFunctionOnSet(+, 0, [i \in 1 .. n + 1 |-> 2 ^ (n - f[i])], 1 .. n + 1) <= 2 ^ n}]

ShortestCode ==
  Ready /\ Cardinality(Counted) <= MAX_CODE =>
    LET n == Cardinality(Counted)
        freq(i) == IF i > n THEN 1 ELSE counts[table.huffval[i]]
        cost(f) == FoldFunctionOnSet(+, 0, [i \in 1 .. n + 1 |-> f[i] * freq(i)], 1 .. n + 1)
        ours == [i \in 1 .. n + 1 |-> encoder.ehufsi[table.huffval[IF i > n THEN n ELSE i]]]
    IN \A f \in CodeLengths[n] : cost(ours) <= cost(f)
=============================================================================
