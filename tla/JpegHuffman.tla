----------------------------- MODULE JpegHuffman ----------------------------
(* Huffman tables of the entropy coders (jchuff.c, jdhuff.c): a table is    *)
(* [bits, huffval] as in a DHT marker, bits[l] the number of codes of       *)
(* length l and huffval the symbols in the order of their codes.            *)
EXTENDS Integers, Sequences, FiniteSets, FiniteSetsExt, SequencesExt

CONSTANTS MAX_CODE,            \* longest code JPEG allows (16)
          MAX_CLEN,            \* longest code before adjustment (32)
          MAX_FREQ,            \* a larger count is not looked at (1000000000)
          HUFF_LOOKAHEAD,      \* bits of the lookahead table (8)
          MAX_DC_SYMBOL        \* (15)

ASSUME HuffmanAssumption ==
  /\ MAX_CODE \in Nat \ {0} /\ MAX_CLEN \in Nat /\ MAX_CLEN >= MAX_CODE
  /\ HUFF_LOOKAHEAD \in 1 .. MAX_CODE
  /\ MAX_FREQ \in Nat \ {0} /\ MAX_DC_SYMBOL \in Nat

PSEUDO == 256

(* The steps of a loop over s from x; a call on a value computed once.      *)
Steps(Op(_, _), x, s) ==
  LET y[i \in 0 .. Len(s)] ==
        IF i = 0 THEN x ELSE CHOOSE z \in {Op(v, s[i]) : v \in {y[i - 1]}} : TRUE
  IN y[Len(s)]
Repeat(Op(_), x, n) == Steps(LAMBDA v, i : Op(v), x, [i \in 1 .. n |-> i])
Call(Op(_), x) == Repeat(Op, x, 1)
-----------------------------------------------------------------------------
(* jpeg_gen_optimal_table. A tree is named by one of its symbols; the chain *)
(* others[] is the set of the symbols of its branch.                        *)
Smallest(freq, S) ==
  LET seen == {s \in S : freq[s] \in 1 .. MAX_FREQ}
  IN IF seen = {} THEN -1
     ELSE Max({s \in seen : \A q \in seen : freq[s] <= freq[q]})

(* Mutant of Joined: the tree keeps the count of its first branch.          *)
JoinedLight(t, c1, c2, grown) ==
  [freq |-> [t.freq EXCEPT ![c2] = 0],
   branch |-> [t.branch EXCEPT ![c1] = @ \union t.branch[c2]],
   codesize |-> [s \in DOMAIN t.codesize |->
                   IF s \in grown THEN t.codesize[s] + 1 ELSE t.codesize[s]]]

Joined(t, c1, c2, grown) ==
  [freq |-> [t.freq EXCEPT ![c1] = @ + t.freq[c2], ![c2] = 0],
   branch |-> [t.branch EXCEPT ![c1] = @ \union t.branch[c2]],
   codesize |-> [s \in DOMAIN t.codesize |->
                   IF s \in grown THEN t.codesize[s] + 1 ELSE t.codesize[s]]]

Merge(t) ==
  LET c1 == Smallest(t.freq, DOMAIN t.freq)
      c2 == Smallest(t.freq, DOMAIN t.freq \ {c1})
  IN IF c2 < 0 THEN t ELSE Joined(t, c1, c2, t.branch[c1] \union t.branch[c2])

CodeSizes(counts) ==
  LET all == DOMAIN counts \union {PSEUDO}
  IN Repeat(Merge, [freq |-> [s \in all |-> IF s = PSEUDO THEN 1 ELSE counts[s]],
                    branch |-> [s \in all |-> {s}],
                    codesize |-> [s \in all |-> 0]], Cardinality(all)).codesize

(* Two codes of length i become one of length i - 1, and a shorter code the *)
(* prefix of two codes.                                                     *)
(* Mutant of Shorten: the shorter code is kept although it is now a prefix. *)
ShortenKeep(bits, i) ==
  LET j == Max({l \in 1 .. i - 2 : bits[l] > 0})
  IN [l \in 1 .. MAX_CLEN |-> bits[l] - (IF l = i THEN 2 ELSE 0)
         + (IF l = i - 1 THEN 1 ELSE 0) + (IF l = j + 1 THEN 2 ELSE 0)]

Shorten(bits, i) ==
  LET j == Max({l \in 1 .. i - 2 : bits[l] > 0})
  IN [l \in 1 .. MAX_CLEN |-> bits[l] - (IF l = i THEN 2 ELSE 0)
         + (IF l = i - 1 THEN 1 ELSE 0) + (IF l = j + 1 THEN 2 ELSE 0)
         - (IF l = j THEN 1 ELSE 0)]

Limited(bits) ==
  Steps(LAMBDA b, i : Repeat(LAMBDA x : Shorten(x, i), b, b[i] \div 2), bits,
        [n \in 1 .. MAX_CLEN - MAX_CODE |-> MAX_CLEN + 1 - n])

WithoutPseudo(bits) ==
  LET longest == Max({l \in 1 .. MAX_CODE : bits[l] > 0})
  IN [l \in 1 .. MAX_CODE |-> IF l = longest THEN bits[l] - 1 ELSE bits[l]]

SortedBySize(size) ==
  LET coded == {s \in DOMAIN size : size[s] > 0} \ {PSEUDO}
      before(s) == {q \in coded : size[q] < size[s] \/ (size[q] = size[s] /\ q < s)}
  IN [p \in 1 .. Cardinality(coded) |->
        CHOOSE s \in coded : Cardinality(before(s)) = p - 1]

CanBeCoded(counts) ==
  \A size \in {CodeSizes(counts)} : \A s \in DOMAIN size : size[s] <= MAX_CLEN

TableOf(size) ==
  LET bits == [l \in 1 .. MAX_CLEN |-> Cardinality({s \in DOMAIN size : size[s] = l})]
  IN [bits |-> Call(WithoutPseudo, Call(Limited, bits)), huffval |-> SortedBySize(size)]

jpeg_gen_optimal_table(counts) == Call(TableOf, CodeSizes(counts))
-----------------------------------------------------------------------------
(* Figures C.1 and C.2: length and code of the p-th symbol, in code order.  *)
Count(t, l) == FoldFunctionOnSet(+, 0, t.bits, 1 .. l)
huffsize(t) == [p \in 1 .. Count(t, MAX_CODE) |-> Min({l \in 1 .. MAX_CODE : p <= Count(t, l)})]

huffcode(size) ==
  LET code[p \in DOMAIN size] ==
        IF p = 1 THEN 0 ELSE (code[p - 1] + 1) * 2 ^ (size[p] - size[p - 1])
  IN code

(* A legal code tree: no code is all ones; all symbols in range and, for    *)
(* the encoder, listed once.                                                *)
LegalTree(t, size, code) ==
  /\ Len(size) <= 256
  /\ \A p \in DOMAIN size : code[p] + 1 < 2 ^ size[p]

jpeg_make_c_derived_tbl(t, isDC) ==
  LET size == huffsize(t)   code == huffcode(size)
      symbols == {t.huffval[p] : p \in DOMAIN size}
      at(s) == CHOOSE p \in DOMAIN size : t.huffval[p] = s
  IN IF /\ LegalTree(t, size, code)
        /\ \A s \in symbols : s <= (IF isDC THEN MAX_DC_SYMBOL ELSE 255)
        /\ Cardinality(symbols) = Len(size)
     THEN [ok |-> TRUE, ehufco |-> [s \in symbols |-> code[at(s)]],
           ehufsi |-> [s \in symbols |-> size[at(s)]]]
     ELSE [ok |-> FALSE, ehufco |-> <<>>, ehufsi |-> <<>>]

(* Mutant of Lookahead: the entries of a code miss the last one.            *)
LookaheadShort(t, size, code) ==
  [look \in 0 .. 2 ^ HUFF_LOOKAHEAD - 1 |->
     LET starts == {p \in DOMAIN size : /\ size[p] <= HUFF_LOOKAHEAD
                                        /\ (look + 1) \div 2 ^ (HUFF_LOOKAHEAD - size[p]) = code[p]}
     IN IF starts = {} THEN <<0, 0>> ELSE <<size[Min(starts)], t.huffval[Min(starts)]>>]

(* look_nbits and look_sym: what a table of all HUFF_LOOKAHEAD bits says.   *)
Lookahead(t, size, code) ==
  [look \in 0 .. 2 ^ HUFF_LOOKAHEAD - 1 |->
     LET starts == {p \in DOMAIN size : /\ size[p] <= HUFF_LOOKAHEAD
                                        /\ look \div 2 ^ (HUFF_LOOKAHEAD - size[p]) = code[p]}
     IN IF starts = {} THEN <<0, 0>> ELSE <<size[Min(starts)], t.huffval[Min(starts)]>>]

jpeg_make_d_derived_tbl(t, isDC) ==
  LET size == huffsize(t)   code == huffcode(size)
      of(l) == {p \in DOMAIN size : size[p] = l}
  IN IF LegalTree(t, size, code) /\ (isDC => \A p \in DOMAIN size : t.huffval[p] <= MAX_DC_SYMBOL)
     THEN [ok |-> TRUE, huffval |-> t.huffval, look |-> Lookahead(t, size, code),
           valoffset |-> [l \in 1 .. MAX_CODE |->
                            IF of(l) = {} THEN 0 ELSE Min(of(l)) - code[Min(of(l))]],
           maxcode |-> [l \in 1 .. MAX_CODE |-> IF of(l) = {} THEN -1 ELSE code[Max(of(l))]]]
     ELSE [ok |-> FALSE, huffval |-> <<>>, look |-> <<>>, valoffset |-> <<>>, maxcode |-> <<>>]
=============================================================================
