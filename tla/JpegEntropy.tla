---------------------------- MODULE JpegEntropy -----------------------------
(* Entropy coding of an image scan by scan, and its decoding: jchuff.c and  *)
(* jcphuff.c write the scans of a script, jdhuff.c and jdphuff.c read each  *)
(* of them from a source that suspends. Sequential and progressive modes,   *)
(* statistics pass, restart markers, byte stuffing, suspension on both      *)
(* sides.                                                                   *)
EXTENDS JpegScript, JpegHuffman

CONSTANTS Jobs,                \* what is to be compressed, see MCJpegEntropy
          natural_order,       \* zigzag position -> position in the block
          RunMax,              \* longest run in a symbol (15)
          MAX_COEF_BITS,       \* bits of a coefficient (10)
          MAX_CORR_BITS,       \* size of the buffer of correction bits (1000)
          ByteBits,            \* (8)
          MIN_GET_BITS,        \* a refill loads at least that many bits (25)
          RestartNums,         \* number of RSTn markers (8)
          BufferSize,          \* bytes of a destination that suspends
          StdTables            \* the tables of jpeg_set_defaults

ASSUME EntropyAssumption ==
  /\ RunMax \in 1 .. 15 /\ MAX_COEF_BITS \in 1 .. 15
  /\ MAX_CORR_BITS >= DCTSIZE2
  /\ MIN_GET_BITS > HUFF_LOOKAHEAD /\ MIN_GET_BITS > MAX_COEF_BITS
  /\ 2 ^ ByteBits > RestartNums + 3

VARIABLES phase,               \* "script", "start", "gather", "write", "read", "done", "error"
          job, scan, mcu,      \* the scan and the MCU being coded or decoded
          counts,              \* statistics: table -> symbol -> count
          tables,              \* table -> derived tables [enc, dec]
          enc,                 \* saved state of the encoder
          out,                 \* the bytes of the scan
          free,                \* free_in_buffer
          avail,               \* bytes that have reached the decoder
          dec,                 \* saved state of the decoder
          coefs                \* its coefficients

vars == <<phase, job, scan, mcu, counts, tables, enc, out, free, avail, dec, coefs>>
reading == <<avail, dec, coefs>>
writing == <<enc, out, free>>
-----------------------------------------------------------------------------
Abs(x) == IF x < 0 THEN -x ELSE x
NBits(x) == Min({n \in 0 .. 16 : Abs(x) < 2 ^ n})
Bits(v, n) == [i \in 1 .. n |-> (v \div 2 ^ (n - i)) % 2]
Num(bits) == Steps(LAMBDA v, b : 2 * v + b, 0, bits)

FF == 2 ^ ByteBits - 1
JPEG_RST0 == 1
JPEG_EOI == JPEG_RST0 + RestartNums
ZRL == RunMax * 16

theScan == job.script[scan]
progressive == progressive_mode(job.script)
comp == theScan.comps[1]                          \* of a scan of one component
Ss == theScan.Ss
Se == theScan.Se
Ah == theScan.Ah
Al == theScan.Al
single == Len(theScan.comps) = 1

nat(k) == natural_order[IF k < DCTSIZE2 THEN k ELSE DCTSIZE2 - 1]

(* The MCUs of the scan, and the blocks of the m-th: <<component, number>>. *)
MCUs == IF single THEN Len(job.image[comp]) ELSE Len(job.image[comp]) \div job.h[comp]
BlocksOf(m) ==
  IF single THEN <<<<comp, m>>>>
  ELSE FlattenSeq([k \in DOMAIN theScan.comps |->
                     LET c == theScan.comps[k]
                     IN [b \in 1 .. job.h[c] |-> <<c, (m - 1) * job.h[c] + b>>]])

Table(kind, c) == <<kind, job.tbl[c]>>
TableIds == {"dc", "ac"} \X {job.tbl[c] : c \in DOMAIN job.tbl}
NeededTables ==
  LET of(kind) == {Table(kind, theScan.comps[k]) : k \in DOMAIN theScan.comps}
  IN IF ~progressive THEN of("dc") \union of("ac")
     ELSE IF Ss > 0 THEN of("ac")
     ELSE IF Ah = 0 THEN of("dc") ELSE {}
-----------------------------------------------------------------------------
(* What the encoder emits: a symbol to be Huffman-coded, raw bits, or a     *)
(* restart marker. A statistics pass only counts the symbols.               *)
Sym(kind, c, s) == [table |-> Table(kind, c), val |-> s, size |-> 0]
Raw(v, n) == [table |-> <<>>, val |-> v % 2 ^ n, size |-> n]
RST(n) == [table |-> <<"rst">>, val |-> n, size |-> 0]
IsSym(i) == Len(i.table) = 2
RawBits(bits) == [i \in DOMAIN bits |-> Raw(bits[i], 1)]

Emit(e, items) == [e EXCEPT !.items = @ \o items]

(* A value of n bits; the complement of its magnitude if it is negative.    *)
Magnitude(v) == IF v = 0 THEN <<>> ELSE <<Raw(IF v < 0 THEN v - 1 ELSE v, NBits(v))>>
Toward0(v) == IF v < 0 THEN -((-v) \div 2 ^ Al) ELSE v \div 2 ^ Al

(* Mutant of emit_eobrun: a run of EOBs is coded without its low bits.      *)
emit_eobrunShort(e) ==
  LET n == NBits(e.EOBRUN) - 1
  IN IF e.EOBRUN = 0 THEN e
     ELSE [Emit(e, <<Sym("ac", comp, n * 16)>> \o RawBits(e.BE)) EXCEPT !.EOBRUN = 0, !.BE = <<>>]

emit_eobrun(e) ==
  LET n == NBits(e.EOBRUN) - 1
      low == IF n > 0 THEN <<Raw(e.EOBRUN, n)>> ELSE <<>>
  IN IF e.EOBRUN = 0 THEN e
     ELSE [Emit(e, <<Sym("ac", comp, n * 16)>> \o low \o RawBits(e.BE))
             EXCEPT !.EOBRUN = 0, !.BE = <<>>]

(* Mutant of CorrectionsFull: the room the next MCU needs is not kept.      *)
CorrectionsFullLate(BE) == Len(BE) > MAX_CORR_BITS - 1

CorrectionsFull(BE) == Len(BE) > MAX_CORR_BITS - DCTSIZE2 + 1

(* One more band that ends in zeros; forced out before a counter overflows. *)
CountEob(e, BR) ==
  LET f == [e EXCEPT !.EOBRUN = @ + 1, !.BE = @ \o BR]
  IN IF f.EOBRUN = 2 ^ RunMax - 1 \/ CorrectionsFull(f.BE) THEN emit_eobrun(f) ELSE f

EncodeDC(e, c, v) ==
  [Emit(e, <<Sym("dc", c, NBits(v - e.dc[c]))>> \o Magnitude(v - e.dc[c])) EXCEPT !.dc[c] = v]

(* The nonzero coefficients of a band from k on, r zeros before it.         *)
RECURSIVE BandCodes(_, _, _, _)
BandCodes(c, b, k, r) ==
  LET v == Toward0(b[nat(k)]) IN
  IF k > Se THEN <<>>
  ELSE IF v = 0 THEN BandCodes(c, b, k + 1, r + 1)
  ELSE IF r > RunMax THEN <<Sym("ac", c, ZRL)>> \o BandCodes(c, b, k, r - RunMax - 1)
  ELSE <<Sym("ac", c, r * 16 + NBits(v))>> \o Magnitude(v) \o BandCodes(c, b, k + 1, 0)

encode_one_block(e, c, b) ==
  Emit(EncodeDC(e, c, b[0]),
       BandCodes(c, b, 1, 0) \o (IF b[nat(Se)] = 0 THEN <<Sym("ac", c, 0)>> ELSE <<>>))

encode_mcu_DC_first(e, c, b) == EncodeDC(e, c, b[0] \div 2 ^ Al)

encode_mcu_DC_refine(e, c, b) == Emit(e, <<Raw(b[0] \div 2 ^ Al, 1)>>)

encode_mcu_AC_first(e, c, b) ==
  LET codes == BandCodes(c, b, Ss, 0)
      f == IF codes = <<>> THEN e ELSE Emit(emit_eobrun(e), codes)
  IN IF Toward0(b[nat(Se)]) = 0 THEN CountEob(f, <<>>) ELSE f

(* A refinement from k on: r zeros and the correction bits BR are pending,  *)
(* "used" of the bit buffer is in use. Symbols and the bits that go with    *)
(* them, then what is left for the EOB.                                     *)
RECURSIVE RefineCodes(_, _, _, _, _, _)
RefineCodes(b, EOB, k, r, BR, used) ==
  LET v == Abs(b[nat(k)]) \div 2 ^ Al
      then(items, rest) == [rest EXCEPT !.items = items \o RawBits(BR) \o @, !.peak = Max({@, used})]
  IN IF k > Se THEN [items |-> <<>>, BR |-> BR, eob |-> r > 0 \/ BR # <<>>, peak |-> used]
     ELSE IF v = 0 THEN RefineCodes(b, EOB, k + 1, r + 1, BR, used)
     ELSE IF r > RunMax /\ k <= EOB
     THEN then(<<Sym("ac", comp, ZRL)>>, RefineCodes(b, EOB, k, r - RunMax - 1, <<>>, 0))
     ELSE IF v > 1 THEN RefineCodes(b, EOB, k + 1, r, Append(BR, v % 2), used + 1)
     ELSE then(<<Sym("ac", comp, r * 16 + 1), Raw(IF b[nat(k)] < 0 THEN 0 ELSE 1, 1)>>,
               RefineCodes(b, EOB, k + 1, 0, <<>>, 0))

encode_mcu_AC_refine(e, c, b) ==
  LET EOB == Max({0} \union {k \in Ss .. Se : Abs(b[nat(k)]) \div 2 ^ Al = 1})
      refined(x) ==
        LET f == IF x.items = <<>> THEN e ELSE Emit(emit_eobrun(e), x.items)
            g == [f EXCEPT !.held = x.peak]
        IN IF x.eob THEN CountEob(g, x.BR) ELSE g
  IN Call(refined, RefineCodes(b, EOB, Ss, 0, <<>>, Len(e.BE)))

EncodeBlock(e, at) ==
  LET c == at[1]   b == job.image[c][at[2]]
  IN CASE ~progressive       -> encode_one_block(e, c, b)
       [] progressive /\ Ss = 0 /\ Ah = 0 -> encode_mcu_DC_first(e, c, b)
       [] progressive /\ Ss = 0 /\ Ah > 0 -> encode_mcu_DC_refine(e, c, b)
       [] progressive /\ Ss > 0 /\ Ah = 0 -> encode_mcu_AC_first(e, c, b)
       [] progressive /\ Ss > 0 /\ Ah > 0 -> encode_mcu_AC_refine(e, c, b)

(* htest_one_block: the statistics pass of the sequential encoder has code  *)
(* of its own.                                                              *)
(* Mutant of AcSymbols: a long run is counted as one symbol.                *)
RECURSIVE AcSymbolsOnce(_, _, _)
AcSymbolsOnce(b, k, r) ==
  IF k = DCTSIZE2 THEN IF r > 0 THEN <<0>> ELSE <<>>
  ELSE IF b[nat(k)] = 0 THEN AcSymbolsOnce(b, k + 1, r + 1)
  ELSE <<(r % (RunMax + 1)) * 16 + NBits(b[nat(k)])>> \o AcSymbolsOnce(b, k + 1, 0)

RECURSIVE AcSymbols(_, _, _)
AcSymbols(b, k, r) ==
  IF k = DCTSIZE2 THEN IF r > 0 THEN <<0>> ELSE <<>>
  ELSE IF b[nat(k)] = 0 THEN AcSymbols(b, k + 1, r + 1)
  ELSE IF r > RunMax THEN <<ZRL>> \o AcSymbols(b, k, r - RunMax - 1)
  ELSE <<r * 16 + NBits(b[nat(k)])>> \o AcSymbols(b, k + 1, 0)

htest_one_block(e, at) ==
  LET c == at[1]   b == job.image[c][at[2]]   ac == AcSymbols(b, 1, 0)
  IN [Emit(e, <<Sym("dc", c, NBits(b[0] - e.dc[c]))>> \o [i \in DOMAIN ac |-> Sym("ac", c, ac[i])])
        EXCEPT !.dc[c] = b[0]]
-----------------------------------------------------------------------------
FreshEncoder == [put |-> <<>>, dc |-> [c \in DOMAIN job.h |-> 0], EOBRUN |-> 0, BE |-> <<>>,
                 restarts_to_go |-> job.interval, next_restart_num |-> 0, held |-> 0, items |-> <<>>]

RestartDue(x) == job.interval # 0 /\ x.restarts_to_go = 0

emit_restart(e) ==
  [Emit(emit_eobrun(e), <<RST(e.next_restart_num)>>)
     EXCEPT !.dc = [c \in DOMAIN @ |-> 0], !.EOBRUN = 0, !.BE = <<>>]

EncodeMCU(Block(_, _)) ==
  Steps(Block, IF RestartDue(enc) THEN emit_restart(enc) ELSE enc, BlocksOf(mcu))

(* The state kept between calls, with the restart interval accounted for.   *)
Saved(e, put) ==
  [e EXCEPT !.put = put, !.items = <<>>,
            !.restarts_to_go = IF job.interval = 0 THEN @
                               ELSE IF @ = 0 THEN job.interval - 1 ELSE @ - 1,
            !.next_restart_num = IF RestartDue(e) THEN (@ + 1) % RestartNums ELSE @]

OutOfRange(items) ==
  \E i \in DOMAIN items : IsSym(items[i]) /\
    IF items[i].table[1] = "dc" THEN items[i].val > MAX_COEF_BITS + 1
    ELSE items[i].val % 16 > MAX_COEF_BITS

HasNoCode(items) ==
  \E i \in DOMAIN items : IsSym(items[i]) /\ items[i].val \notin DOMAIN tables[items[i].table].enc.ehufsi

(* emit_bits: whole bytes go out, a zero is stuffed after each FF.          *)

PutBit(o, bit) ==
  LET put == Append(o.put, bit)
  IN IF Len(put) < ByteBits THEN [o EXCEPT !.put = put]
     ELSE [put |-> <<>>, bytes |-> o.bytes \o (IF Num(put) = FF THEN <<FF, 0>> ELSE <<Num(put)>>)]

flush_bits(o) == [Steps(PutBit, o, [i \in 1 .. ByteBits - 1 |-> 1]) EXCEPT !.put = <<>>]

PutItem(o, i) ==
  IF i.table = <<>> THEN Steps(PutBit, o, Bits(i.val, i.size))
  ELSE IF IsSym(i)
  THEN LET t == tables[i.table].enc IN Steps(PutBit, o, Bits(t.ehufco[i.val], t.ehufsi[i.val]))
  ELSE Call(LAMBDA f : [f EXCEPT !.bytes = @ \o <<FF, JPEG_RST0 + i.val>>], flush_bits(o))

Output(items) == Steps(PutItem, [put |-> enc.put, bytes |-> <<>>], items)

(* emit_byte asks for room as soon as the buffer is full.                   *)
Fits(bytes) == job.suspends => Len(bytes) < free
-----------------------------------------------------------------------------
NoCounts == [t \in TableIds |-> <<>>]
FreshDecoder == [pos |-> 0, bits |-> <<>>, unread_marker |-> 0, insufficient_data |-> FALSE,
                 EOBRUN |-> 0, dc |-> [c \in DOMAIN job.h |-> 0],
                 restarts_to_go |-> job.interval, next_restart_num |-> 0]
ZeroCoefs == [c \in DOMAIN job.image |->
                [n \in DOMAIN job.image[c] |-> [i \in 0 .. DCTSIZE2 - 1 |-> 0]]]

Init == /\ phase = "script" /\ job \in Jobs /\ scan = 1 /\ mcu = 1
        /\ counts = NoCounts /\ tables = <<>>
        /\ enc = FreshEncoder /\ out = <<>> /\ free = BufferSize
        /\ avail = 0 /\ dec = FreshDecoder /\ coefs = ZeroCoefs

ValidateScript ==
  /\ phase = "script"
  /\ phase' = IF validate_script(job.script, Len(job.image)) THEN "start" ELSE "error"
  /\ UNCHANGED <<job, scan, mcu, counts, tables, writing, reading>>

Fail == phase' = "error" /\ UNCHANGED <<job, scan, mcu, counts, tables, writing, reading>>

(* Derived tables for a scan, from the tables tb.                           *)
Derived(tb) == [t \in NeededTables |-> [enc |-> jpeg_make_c_derived_tbl(tb[t], t[1] = "dc"),
                                        dec |-> jpeg_make_d_derived_tbl(tb[t], t[1] = "dc")]]

(* Statistics are gathered for each scan that has tables of its own: always *)
(* in progressive mode, else if optimize_coding.                            *)
start_pass ==
  /\ phase = "start"
  /\ enc' = FreshEncoder /\ mcu' = 1 /\ out' = <<>> /\ avail' = 0 /\ dec' = FreshDecoder
  /\ IF NeededTables # {} /\ (progressive \/ job.optimize)
     THEN /\ phase' = "gather" /\ tables' = <<>>
          /\ counts' = [t \in TableIds |-> [s \in {} |-> 0]]
     ELSE /\ phase' = "write" /\ counts' = NoCounts
          /\ tables' = Derived(StdTables)
  /\ UNCHANGED <<job, scan, free, coefs>>

Add(cs, items) ==
  [t \in DOMAIN cs |->
     LET here == {i \in DOMAIN items : items[i].table = t}
     IN [s \in DOMAIN cs[t] \union {items[i].val : i \in here} |->
           Cardinality({i \in here : items[i].val = s}) + (IF s \in DOMAIN cs[t] THEN cs[t][s] ELSE 0)]]

encode_mcu_gather ==
  /\ phase = "gather" /\ mcu <= MCUs
  /\ \E e \in {IF progressive THEN EncodeMCU(EncodeBlock) ELSE EncodeMCU(htest_one_block)} :
       \/ OutOfRange(e.items) /\ Fail
       \/ /\ ~OutOfRange(e.items)
          /\ counts' = Add(counts, e.items) /\ enc' = Saved(e, <<>>) /\ mcu' = mcu + 1
          /\ UNCHANGED <<phase, job, scan, tables, out, free, reading>>

LastCounts == IF progressive THEN Add(counts, emit_eobrun(enc).items) ELSE counts

(* finish_pass_gather, and start_pass for the output.                       *)
finish_pass_gather ==
  /\ phase = "gather" /\ mcu > MCUs
  /\ \E cs \in {LastCounts} :
       IF \E t \in NeededTables : ~CanBeCoded(cs[t]) THEN Fail
       ELSE /\ counts' = cs
            /\ tables' = Derived([t \in NeededTables |-> jpeg_gen_optimal_table(cs[t])])
            /\ phase' = "write" /\ enc' = FreshEncoder /\ mcu' = 1
            /\ UNCHANGED <<job, scan, out, free, reading>>

(* encode_mcu: a suspended call of the sequential encoder changes nothing;  *)
(* the progressive one cannot suspend.                                      *)
encode_mcu ==
  /\ phase = "write" /\ mcu <= MCUs
  /\ \E e \in {EncodeMCU(EncodeBlock)} :
       \/ (OutOfRange(e.items) \/ HasNoCode(e.items)) /\ Fail
       \/ /\ ~OutOfRange(e.items) /\ ~HasNoCode(e.items)
          /\ \E o \in {Output(e.items)} :
               \/ /\ Fits(o.bytes)
                  /\ enc' = Saved(e, o.put) /\ mcu' = mcu + 1
                  /\ out' = out \o o.bytes /\ free' = free - Len(o.bytes)
                  /\ UNCHANGED <<phase, job, scan, counts, tables, reading>>
               \/ ~Fits(o.bytes) /\ progressive /\ Fail

EmptyBuffer ==
  /\ phase = "write" /\ job.suspends /\ free < BufferSize
  /\ free' = BufferSize
  /\ UNCHANGED <<phase, job, scan, mcu, counts, tables, enc, out, reading>>

finish_pass ==
  /\ phase = "write" /\ mcu > MCUs
  /\ \E items \in {IF progressive THEN emit_eobrun(enc).items ELSE <<>>} :
     \E o \in {flush_bits(Output(items))} :
       \/ ~Fits(o.bytes) /\ Fail
       \/ /\ Fits(o.bytes)
          /\ out' = out \o o.bytes \o <<FF, JPEG_EOI>> /\ free' = BufferSize
          /\ enc' = [enc EXCEPT !.put = <<>>, !.EOBRUN = 0, !.BE = <<>>]
          /\ phase' = "read" /\ mcu' = 1
          /\ UNCHANGED <<job, scan, counts, tables, reading>>
-----------------------------------------------------------------------------
(* The decoder. The working state d of a call holds the saved state, the    *)
(* blocks of the MCU, the last value read and ok, FALSE once it suspends.   *)
Then(d, Op(_)) == Call(LAMBDA v : IF v.ok THEN Op(v) ELSE v, d)

NextByte(d) ==
  LET next == {p \in d.pos + 1 .. avail : out[p] # FF}
  IN IF next = {} THEN [d EXCEPT !.ok = FALSE]
     ELSE IF Min(next) = d.pos + 1
     THEN [d EXCEPT !.pos = @ + 1, !.bits = @ \o Bits(out[d.pos + 1], ByteBits)]
     ELSE IF out[Min(next)] = 0
     THEN [d EXCEPT !.pos = Min(next), !.bits = @ \o Bits(FF, ByteBits)]
     ELSE [d EXCEPT !.pos = Min(next), !.unread_marker = out[Min(next)]]

RECURSIVE LoadBytes(_)
LoadBytes(d) == IF Len(d.bits) >= MIN_GET_BITS \/ d.unread_marker # 0 THEN d
                ELSE Then(NextByte(d), LoadBytes)

(* At a marker the missing bits are zeros.                                  *)
jpeg_fill_bit_buffer(d, nbits) ==
  Then(LoadBytes(d),
       LAMBDA l : IF l.unread_marker = 0 \/ nbits <= Len(l.bits) THEN l
                  ELSE [l EXCEPT !.insufficient_data = TRUE,
                                 !.bits = @ \o [i \in 1 .. MIN_GET_BITS - Len(@) |-> 0]])

GET_BITS(d, n) ==
  Then(IF Len(d.bits) < n THEN jpeg_fill_bit_buffer(d, n) ELSE d,
       LAMBDA c : [c EXCEPT !.val = Num(SubSeq(c.bits, 1, n)), !.bits = SubSeq(@, n + 1, Len(@))])

RECURSIVE LongCode(_, _, _)
LongCode(d, t, l) ==
  IF l > MAX_CODE THEN [d EXCEPT !.val = 0]
  ELSE IF d.val <= t.maxcode[l] THEN [d EXCEPT !.val = t.huffval[@ + t.valoffset[l]]]
  ELSE LET more(c) == [c EXCEPT !.val = 2 * d.val + @]
       IN Then(Then(GET_BITS(d, 1), more), LAMBDA c : LongCode(c, t, l + 1))

jpeg_huff_decode(d, t, l) == Then(GET_BITS(d, l), LAMBDA c : LongCode(c, t, l))

HUFF_DECODE(d, id) ==
  LET t == tables[id].dec
      decode(c) ==
        LET look == t.look[Num(SubSeq(c.bits, 1, HUFF_LOOKAHEAD))]
        IN IF Len(c.bits) < HUFF_LOOKAHEAD THEN jpeg_huff_decode(c, t, 1)
           ELSE IF look[1] = 0 THEN jpeg_huff_decode(c, t, HUFF_LOOKAHEAD + 1)
           ELSE [c EXCEPT !.val = look[2], !.bits = SubSeq(@, look[1] + 1, Len(@))]
  IN Then(IF Len(d.bits) < HUFF_LOOKAHEAD THEN jpeg_fill_bit_buffer(d, 0) ELSE d, decode)

HUFF_EXTEND(x, s) == IF x < 2 ^ (s - 1) THEN x + 1 - 2 ^ s ELSE x

(* s bits, as a signed value; 0 if there are none.                          *)
Signed(d, s) ==
  IF s = 0 THEN [d EXCEPT !.val = 0]
  ELSE Then(GET_BITS(d, s), LAMBDA c : [c EXCEPT !.val = HUFF_EXTEND(@, s)])

(* Block i of the MCU, of component c. The tables of a scan are at hand.    *)
DecodeDC(d, i, c) ==
  LET put(v) == IF job.need = "none" THEN v
                ELSE [v EXCEPT !.dc[c] = @ + v.val,
                               !.blocks[i] = [@ EXCEPT ![0] = (v.dc[c] + v.val) * 2 ^ Al]]
  IN Then(Then(HUFF_DECODE(d, Table("dc", c)), LAMBDA h : Signed(h, h.val)), put)

(* Coefficients of a band from k on. In the end val is the r of the EOBr    *)
(* that cut the band short, -1 if none did.                                 *)
RECURSIVE DecodeBand(_, _, _, _)
DecodeBand(d, i, c, k) ==
  LET symbol(h) ==
        LET r == h.val \div 16   s == h.val % 16
            put(v) == IF job.need # "full" THEN v
                      ELSE [v EXCEPT !.blocks[i] = [@ EXCEPT ![nat(k + r)] = v.val * 2 ^ Al]]
            next(v) == DecodeBand(v, i, c, k + r + 1)
        IN IF s > 0 THEN Then(Then(Signed(h, s), put), next)
           ELSE IF r = RunMax THEN next(h) ELSE [h EXCEPT !.val = r]
  IN IF k > Se THEN [d EXCEPT !.val = -1] ELSE Then(HUFF_DECODE(d, Table("ac", c)), symbol)

SequentialBlock(d, i, c) == Then(DecodeDC(d, i, c), LAMBDA v : DecodeBand(v, i, c, 1))

DCRefine(d, i, c) ==
  LET bit(v) == (v.blocks[i][0] \div 2 ^ Al) % 2
      put(v) == IF v.val = 1 /\ bit(v) = 0
                THEN [v EXCEPT !.blocks[i] = [@ EXCEPT ![0] = @ + 2 ^ Al]] ELSE v
  IN Then(GET_BITS(d, 1), put)

(* A run of 2^r bands, more by the r bits that follow.                      *)
EobRun(d, r) ==
  IF r = 0 THEN [d EXCEPT !.EOBRUN = 1]
  ELSE Then(GET_BITS(d, r), LAMBDA v : [v EXCEPT !.EOBRUN = 2 ^ r + v.val])

BandDone(d) == [d EXCEPT !.EOBRUN = @ - 1]

ACFirst(d) ==
  IF d.EOBRUN > 0 THEN BandDone(d)
  ELSE Then(DecodeBand(d, 1, comp, Ss),
            LAMBDA v : IF v.val < 0 THEN v ELSE Then(EobRun(v, v.val), BandDone))

(* One correction bit: a 1 adds to the magnitude, unless an earlier call    *)
(* that was suspended has done it.                                          *)

Correct(d, k) ==
  LET x == d.blocks[1][nat(k)]
      put(v) == IF v.val = 1 /\ (x \div 2 ^ Al) % 2 = 0
                THEN [v EXCEPT !.blocks[1] =
                        [@ EXCEPT ![nat(k)] = IF x >= 0 THEN x + 2 ^ Al ELSE x - 2 ^ Al]] ELSE v
  IN Then(GET_BITS(d, 1), put)

RECURSIVE RestOfBand(_, _)
RestOfBand(d, k) ==
  IF k > Se THEN BandDone(d)
  ELSE Then(IF d.blocks[1][nat(k)] # 0 THEN Correct(d, k) ELSE d, LAMBDA v : RestOfBand(v, k + 1))

(* Over the nonzero coefficients and r zeros, to the place of a new one.    *)
RECURSIVE SkipZeros(_, _, _)
SkipZeros(d, k, r) ==
  IF k > Se THEN [d EXCEPT !.val = k]
  ELSE IF d.blocks[1][nat(k)] # 0 THEN Then(Correct(d, k), LAMBDA v : SkipZeros(v, k + 1, r))
  ELSE IF r = 0 THEN [d EXCEPT !.val = k] ELSE SkipZeros(d, k + 1, r - 1)

RECURSIVE RefineBand(_, _)
RefineBand(d, k) ==
  LET placed(w, new) ==
        IF new = 0 THEN w
        ELSE [w EXCEPT !.blocks[1] = [@ EXCEPT ![nat(w.val)] = new], !.fresh = @ \union {nat(w.val)}]
      go(v, r, new) ==
        Then(SkipZeros(v, k, r), LAMBDA w : Then(placed(w, new), LAMBDA x : RefineBand(x, w.val + 1)))
      symbol(h) ==
        LET r == h.val \div 16   s == h.val % 16
        IN IF s > 0
           THEN Then(GET_BITS(h, 1), LAMBDA v : go(v, r, IF v.val = 1 THEN 2 ^ Al ELSE -(2 ^ Al)))
           ELSE IF r = RunMax THEN go(h, r, 0)
           ELSE Then(EobRun(h, r), LAMBDA v : RestOfBand(v, k))
  IN IF k > Se THEN d ELSE Then(HUFF_DECODE(d, Table("ac", comp)), symbol)

ACRefine(d) == IF d.EOBRUN > 0 THEN RestOfBand(d, Ss) ELSE RefineBand(d, Ss)

DecodeBlock(d, i, c) ==
  CASE ~progressive       -> SequentialBlock(d, i, c)
    [] progressive /\ Ss = 0 /\ Ah = 0 -> DecodeDC(d, i, c)
    [] progressive /\ Ss = 0 /\ Ah > 0 -> DCRefine(d, i, c)
    [] progressive /\ Ss > 0 /\ Ah = 0 -> ACFirst(d)
    [] progressive /\ Ss > 0 /\ Ah > 0 -> ACRefine(d)

(* read_restart_marker; a marker that was not expected is left unread.      *)
read_restart_marker(d) ==
  LET ends == {p \in d.pos + 2 .. avail : out[p - 1] = FF /\ out[p] \notin {0, FF}}
      m == IF d.unread_marker # 0 THEN d.unread_marker ELSE out[Min(ends)]
  IN IF d.unread_marker = 0 /\ ends = {} THEN [d EXCEPT !.ok = FALSE]
     ELSE [d EXCEPT !.pos = IF d.unread_marker = 0 THEN Min(ends) ELSE @,
                    !.unread_marker = IF m = JPEG_RST0 + d.next_restart_num THEN 0 ELSE m,
                    !.next_restart_num = (@ + 1) % RestartNums]

process_restart(d) ==
  Then(read_restart_marker([d EXCEPT !.bits = <<>>]),
       LAMBDA v : [v EXCEPT !.dc = [c \in DOMAIN @ |-> 0], !.EOBRUN = 0,
                            !.restarts_to_go = job.interval,
                            !.insufficient_data = @ /\ v.unread_marker # 0])

Working ==
  [pos |-> dec.pos, bits |-> dec.bits, unread_marker |-> dec.unread_marker,
   insufficient_data |-> dec.insufficient_data, EOBRUN |-> dec.EOBRUN, dc |-> dec.dc,
   restarts_to_go |-> dec.restarts_to_go, next_restart_num |-> dec.next_restart_num,
   ok |-> TRUE, val |-> 0, fresh |-> {},
   blocks |-> [i \in DOMAIN BlocksOf(mcu) |-> coefs[BlocksOf(mcu)[i][1]][BlocksOf(mcu)[i][2]]]]

Kept(d) == [f \in DOMAIN dec |-> d[f]]

DecodeBlocks(d) ==
  IF d.insufficient_data /\ ~(progressive /\ Ss = 0 /\ Ah > 0) THEN d
  ELSE Steps(LAMBDA v, i : Then(v, LAMBDA w : DecodeBlock(w, i, BlocksOf(mcu)[i][1])), d,
             [i \in DOMAIN BlocksOf(mcu) |-> i])

Stored(d, blocks) ==
  [c \in DOMAIN coefs |-> [n \in DOMAIN coefs[c] |->
     IF \E i \in DOMAIN blocks : BlocksOf(mcu)[i] = <<c, n>>
     THEN blocks[CHOOSE i \in DOMAIN blocks : BlocksOf(mcu)[i] = <<c, n>>] ELSE coefs[c][n]]]

(* What is kept of a call that suspends: the restart, once it is done, and  *)
(* the coefficients assigned so far; but those that a refinement has made   *)
(* nonzero are cleared.                                                     *)
(* Mutant of Undone: they are left.                                         *)
UndoneNot(d) == d.blocks

Undone(d) == [i \in DOMAIN d.blocks |->
                [k \in DOMAIN d.blocks[i] |-> IF k \in d.fresh THEN 0 ELSE d.blocks[i][k]]]

Suspended(r, d) ==
  [Kept(r) EXCEPT !.unread_marker = d.unread_marker, !.insufficient_data = d.insufficient_data]

(* A call that leaves everything as it was is no step.                      *)
decode_mcu ==
  /\ phase = "read" /\ mcu <= MCUs
  /\ \E r \in {IF RestartDue(dec) THEN process_restart(Working) ELSE Working} :
     \E d \in {Then(r, DecodeBlocks)} :
       \/ /\ d.ok
          /\ dec' = [Kept(d) EXCEPT !.restarts_to_go = IF job.interval = 0 THEN @ ELSE @ - 1]
          /\ coefs' = Stored(d, d.blocks) /\ mcu' = mcu + 1
       \/ /\ ~d.ok
          /\ dec' = Suspended(r, d) /\ coefs' = Stored(d, Undone(d)) /\ mcu' = mcu
          /\ dec' # dec \/ coefs' # coefs
  /\ UNCHANGED <<phase, job, scan, counts, tables, writing, avail>>

(* The source: some more bytes, or all that are left.                       *)
Arrive ==
  /\ phase = "read" /\ avail < Len(out)
  /\ avail' \in {avail + 1, Len(out)}
  /\ UNCHANGED <<phase, job, scan, mcu, counts, tables, writing, dec, coefs>>

finish_input_pass ==
  /\ phase = "read" /\ mcu > MCUs
  /\ IF scan < Len(job.script) THEN phase' = "start" /\ scan' = scan + 1
     ELSE phase' = "done" /\ UNCHANGED scan
  /\ UNCHANGED <<job, mcu, counts, tables, writing, reading>>

Stopped == phase \in {"done", "error"} /\ UNCHANGED vars

Next == \/ ValidateScript \/ start_pass \/ encode_mcu_gather \/ finish_pass_gather
        \/ encode_mcu \/ EmptyBuffer \/ finish_pass
        \/ Arrive \/ decode_mcu \/ finish_input_pass \/ Stopped

Spec == Init /\ [][Next]_vars
-----------------------------------------------------------------------------
Image(c, n, k) == job.image[c][n][nat(k)]

(* Types and sizes; in the last line, the correction bits a block adds      *)
(* never run past the end of bit_buffer (jcphuff.c:718).                    *)
TypeOK ==
  /\ phase \in {"script", "start", "gather", "write", "read", "done", "error"}
  /\ enc.EOBRUN \in 0 .. 2 ^ RunMax - 2 /\ dec.EOBRUN \in 0 .. 2 ^ RunMax - 2
  /\ Len(enc.put) < ByteBits /\ Len(dec.bits) < MIN_GET_BITS + ByteBits
  /\ enc.restarts_to_go \in 0 .. job.interval /\ dec.restarts_to_go \in 0 .. job.interval
  /\ \A i \in DOMAIN out : out[i] \in 0 .. FF
  /\ avail \in 0 .. Len(out) /\ dec.pos \in 0 .. avail
  /\ enc.held <= MAX_CORR_BITS

(* The decoder has, of every coefficient of every block it has passed, the  *)
(* bits the scans so far have sent of it and nothing else, wherever it was  *)
(* suspended and however often a call was repeated (jdphuff.c:525).         *)
LastScan(c, n) ==
  LET m == IF single THEN n ELSE (n + job.h[c] - 1) \div job.h[c]
  IN IF phase = "done" \/ (phase = "read" /\ In(theScan, c) /\ m < mcu) THEN scan ELSE scan - 1
Underway(c, n) == phase = "read" /\ mcu <= MCUs /\ \E i \in DOMAIN BlocksOf(mcu) : BlocksOf(mcu)[i] = <<c, n>>

Approximation(c, n, k) ==
  LET bit == last_bitpos(job.script, LastScan(c, n), c, k)   v == Image(c, n, k)
  IN IF bit < 0 \/ job.need = "none" \/ (job.need = "dc" /\ k > 0) THEN 0
     ELSE IF k = 0 \/ v >= 0 THEN (v \div 2 ^ bit) * 2 ^ bit ELSE -((-v) \div 2 ^ bit) * 2 ^ bit

ScansRecovered ==
  phase \in {"start", "gather", "write", "read", "done"} =>
    \A c \in DOMAIN coefs : \A n \in DOMAIN coefs[c] :
      Underway(c, n) \/ \A k \in 0 .. DCTSIZE2 - 1 : coefs[c][n][nat(k)] = Approximation(c, n, k)

(* Both sides stay in step: the decoder never runs out of bits before the   *)
(* marker, and when a segment ends it has left just the bits that pad the   *)
(* last byte (jchuff.c:342, "fill any partial byte with ones").             *)
InStep ==
  phase = "read" =>
    /\ ~dec.insufficient_data
    /\ mcu > MCUs \/ (mcu > 1 /\ RestartDue(dec) /\ dec.bits # <<>>) =>
         /\ Len(dec.bits) < ByteBits
         /\ \A i \in DOMAIN dec.bits : dec.bits[i] = 1

(* The statistics pass agrees with the output pass (jchuff.c:559, "This     *)
(* process MUST agree with the code above"): no symbol comes up that it has *)
(* not given a code; coding fails for the reasons below only.               *)
FailsForAReason ==
  phase = "error" =>
    \/ ~validate_script(job.script, Len(job.image))
    \/ job.suspends
    \/ \E c \in DOMAIN job.image : \E n \in DOMAIN job.image[c] : \E k \in 0 .. DCTSIZE2 - 1 :
         Abs(Image(c, n, k)) >= 2 ^ MAX_COEF_BITS

(* A script that was accepted sends no bit of a coefficient twice (jcmaster.*)
(* c:validate_script); that of jpeg_simple_progression is accepted and loses*)
(* nothing (jcparam.c:fill_scans).                                          *)
ScriptsSound ==
  /\ phase \notin {"script", "error"} => SentOnce(job.script, Len(job.image))
  /\ job.simple => phase # "error" /\ (phase = "done" => coefs = job.image)
=============================================================================
