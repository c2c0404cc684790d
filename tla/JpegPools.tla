----------------------------- MODULE JpegPools -----------------------------
(* The pools of libjpeg's memory manager (jmemmgr.c): small objects share   *)
(* pools that are got with some slop, large objects have a pool each.       *)
(* A memory is a record:                                                    *)
(*   small[p]  the pools of lifetime p, each [used, left, got]              *)
(*   large[p]  the pools of lifetime p, latest first, each [used, got]      *)
(*   total     total_space_allocated                                        *)
(*   heap      what the system has given and not got back, as it counts it  *)
(*   ok        FALSE when a request could not be satisfied (ERREXIT)        *)
(* "got" is what the system really gave for the pool; sizes are units.      *)
EXTENDS Integers, Sequences

CONSTANTS Align,           \* SIZEOF(ALIGN_TYPE)
          Header,          \* SIZEOF(small_pool_hdr) = SIZEOF(large_pool_hdr)
          MgrSize,         \* SIZEOF(my_memory_mgr)
          PointerSize,     \* SIZEOF(JSAMPROW) = SIZEOF(JBLOCKROW)
          MaxAllocChunk,   \* MAX_ALLOC_CHUNK
          FirstSlop,       \* first_pool_slop, by lifetime
          ExtraSlop,       \* extra_pool_slop, by lifetime
          MinSlop          \* MIN_SLOP

PERMANENT == "permanent"
IMAGE == "image"
PoolIds == {PERMANENT, IMAGE}

ASSUME PoolsAssumption ==
  /\ {Align, Header, MgrSize, PointerSize, MaxAllocChunk, MinSlop} \subseteq Nat \ {0}
  /\ FirstSlop \in [PoolIds -> Nat] /\ ExtraSlop \in [PoolIds -> Nat]
  /\ MaxAllocChunk % Align = 0 /\ Header % Align = 0

Least(x, y) == IF x < y THEN x ELSE y
Greatest(x, y) == IF x < y THEN y ELSE x

(* The memory just after jinit_memory_mgr: only the manager's own block.    *)
EmptyMemory ==
  [small |-> [p \in PoolIds |-> <<>>], large |-> [p \in PoolIds |-> <<>>],
   total |-> MgrSize, heap |-> MgrSize, ok |-> TRUE]

RoundUp(size) == IF (size % Align) > 0 THEN size + Align - (size % Align) ELSE size

Refused(m) == [m EXCEPT !.ok = FALSE]

(* The slop after each refusal is half of what it was.                      *)
Halved(slop, times) ==
  LET half[k \in 0 .. times] == IF k = 0 THEN slop ELSE half[k - 1] \div 2
  IN half[times]

(* alloc_small: the first pool with room, or a new one. The system refuses  *)
(* the first `refusals` sizes asked.                                        *)
AllocSmall(m, p, size, refusals) ==
  LET n     == RoundUp(size)
      fits  == {k \in DOMAIN m.small[p] : m.small[p][k].left >= n}
      k     == CHOOSE i \in fits : \A j \in fits : i <= j
      asked == Least(IF m.small[p] = <<>> THEN FirstSlop[p] ELSE ExtraSlop[p],
                     MaxAllocChunk - (n + Header))
      slop  == Halved(asked, refusals)
  IN IF ~m.ok \/ size > MaxAllocChunk - Header THEN Refused(m)
     ELSE IF fits # {}
     THEN [m EXCEPT !.small[p][k] = [used |-> @.used + n, left |-> @.left - n,
                                     got |-> @.got]]
     ELSE IF refusals > 0 /\ slop < MinSlop THEN Refused(m)
     ELSE [m EXCEPT !.small[p] = Append(@, [used |-> n, left |-> slop,
                                            got |-> n + Header + slop]),
                    !.total = @ + n + Header + slop,
                    !.heap = @ + n + Header + slop]

(* alloc_large: always a pool of its own, put at the head of the list.      *)
AllocLarge(m, p, size) ==
  LET n == RoundUp(size)
  IN IF ~m.ok \/ size > MaxAllocChunk - Header THEN Refused(m)
     ELSE [m EXCEPT !.large[p] = <<[used |-> n, got |-> n + Header]>> \o @,
                    !.total = @ + n + Header,
                    !.heap = @ + n + Header]

(* Rows of an array that are allocated, and moved, together.                *)
RowsPerChunk(rowsize, numrows) ==
  Least((MaxAllocChunk - Header) \div rowsize, numrows)

(* The loop of alloc_sarray, up to row `upto`: the row pointers, then the   *)
(* rows in chunks.                                                          *)
AllocRows(m, p, rowsize, numrows, refusals, upto) ==
  LET rpc == RowsPerChunk(rowsize, numrows)
      chunks[row \in 0..numrows] ==          \* rows below `row` are allocated
        IF row = 0 THEN AllocSmall(m, p, numrows * PointerSize, refusals)
        ELSE IF row % rpc # 0 /\ row # numrows THEN chunks[row - 1]
        ELSE LET done == ((row - 1) \div rpc) * rpc
             IN AllocLarge(chunks[done], p, (row - done) * rowsize)
  IN IF MaxAllocChunk - Header < rowsize THEN Refused(m) ELSE chunks[upto]

AllocSArray(m, p, rowsize, numrows, refusals) ==
  AllocRows(m, p, rowsize, numrows, refusals, numrows)

(* alloc_barray: the same for rows of coefficient blocks.                   *)
AllocBArray(m, p, rowsize, numrows, refusals) ==
  AllocRows(m, p, rowsize, numrows, refusals, numrows)

SumOver(s, Size(_)) ==
  LET sum[k \in 0..Len(s)] == IF k = 0 THEN 0 ELSE sum[k - 1] + Size(s[k])
  IN sum[Len(s)]

(* Mutant of SmallFreed: the slop that was not used is not counted.         *)
SmallFreedUsed(h) == h.used + Header

(* What free_pool takes off total_space_allocated: the counts of a header.  *)
LargeFreed(h) == h.used + Header
SmallFreed(h) == h.used + h.left + Header
Got(h) == h.got

FreeObjects(m, p) ==
  [m EXCEPT !.small[p] = <<>>, !.large[p] = <<>>,
            !.total = @ - SumOver(m.large[p], LargeFreed)
                        - SumOver(m.small[p], SmallFreed),
            !.heap  = @ - SumOver(m.large[p], Got) - SumOver(m.small[p], Got)]
============================================================================
