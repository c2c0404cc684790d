-------------------------- MODULE JpegMemoryProofs --------------------------
(* Proofs about JpegMemory: its types, the window over the temporary file,  *)
(* that the arrays it gives to the coders are those of StoredArray, and that*)
(* the space it counts is the space it has.                                 *)
EXTENDS JpegMemory, WellFoundedInduction, TLAPS

(* Induction over an interval of the natural numbers, and the existence of  *)
(* what a recursive definition over one defines, for sets and functions.    *)
LEMMA NatMin ==
  ASSUME NEW T, T \subseteq Nat, T # {}
  PROVE  \E x \in T : \A y \in T : x <= y
  <1> DEFINE R == OpToRel(<, Nat)
  <1>1. IsWellFoundedOn(R, Nat)
    BY NatLessThanWellFounded
  <1>2. \A x, y \in Nat : y < x => <<y, x>> \in R
    BY DEF OpToRel
  <1> HIDE DEF R
  <1>3. PICK x \in T : \A y \in T : ~ (<<y, x>> \in R)
    BY <1>1, WFMin
  <1>4. ASSUME NEW y \in T PROVE x <= y
    <2>1. x \in Nat /\ y \in Nat
      BY <1>3
    <2>2. ~ (y < x)
      BY <1>2, <1>3, <2>1
    <2>3. QED
      BY <2>1, <2>2
  <1>5. QED
    BY <1>3, <1>4

LEMMA IntervalInduction ==
  ASSUME NEW n \in Nat, NEW S, 0 \in S, \A k \in 0 .. n - 1 : k \in S => k + 1 \in S
  PROVE  \A k \in 0 .. n : k \in S
  <1> SUFFICES ASSUME NEW k \in 0 .. n, k \notin S PROVE FALSE
    OBVIOUS
  <1> DEFINE T == {i \in 0 .. n : i \notin S}
  <1>1. T \subseteq Nat /\ T # {}
    OBVIOUS
  <1>2. PICK x \in T : \A y \in T : x <= y
    BY <1>1, NatMin, Zenon
  <1>3. x \in 0 .. n /\ x \notin S /\ x # 0
    BY <1>2
  <1>4. x - 1 \in 0 .. n - 1 /\ x - 1 \in 0 .. n /\ ~(x <= x - 1)
    BY <1>3
  <1>5. x - 1 \in S
    BY <1>2, <1>4
  <1>6. (x - 1) + 1 = x /\ (x - 1) + 1 \in S
    BY <1>3, <1>4, <1>5
  <1>7. QED
    BY <1>3, <1>6

(* f is computed from a by g, which gives the value at k from those before. *)
Computed(f, n, a, g) == f[0] = a /\ \A k \in 1 .. n : f[k] = g[<<k, f>>]

LEMMA ComputedExists ==
  ASSUME NEW n \in Nat, NEW V, NEW a \in V, NEW g \in [(1 .. n) \X [0 .. n -> V] -> V],
         \A k \in 1 .. n : \A e, h \in [0 .. n -> V] :
           (\A j \in 0 .. k - 1 : e[j] = h[j]) => g[<<k, e>>] = g[<<k, h>>]
  PROVE  \E f \in [0 .. n -> V] : Computed(f, n, a, g)
  <1> DEFINE Upto(m, f) == f[0] = a /\ \A k \in 1 .. m : f[k] = g[<<k, f>>]
             S == {m \in 0 .. n : \E f \in [0 .. n -> V] : Upto(m, f)}
  <1>1. 0 \in S
    <2> DEFINE h == [k \in 0 .. n |-> a]
    <2>1. h \in [0 .. n -> V] /\ h[0] = a /\ 1 .. 0 = {} /\ 0 \in 0 .. n
      OBVIOUS
    <2>2. Upto(0, h)
      BY <2>1, Zenon
    <2>3. QED
      BY <2>1, <2>2, Zenon
  <1>2. ASSUME NEW m \in 0 .. n - 1, m \in S PROVE m + 1 \in S
    <2>1. PICK f \in [0 .. n -> V] : Upto(m, f)
      BY <1>2
    <2>2. m + 1 \in 1 .. n /\ m + 1 \in 0 .. n /\ m + 1 # 0 /\ 0 \in 0 .. n
      OBVIOUS
    <2>3. g[<<m + 1, f>>] \in V
      BY <2>2
    <2> DEFINE h == [f EXCEPT ![m + 1] = g[<<m + 1, f>>]]
    <2>4. h \in [0 .. n -> V] /\ h[m + 1] = g[<<m + 1, f>>]
          /\ \A j \in 0 .. n : j # m + 1 => h[j] = f[j]
      BY <2>2, <2>3
    <2> HIDE DEF h
    <2>5. h[0] = a
      BY <2>1, <2>2, <2>4
    <2>6. ASSUME NEW k \in 1 .. m + 1 PROVE h[k] = g[<<k, h>>]
      <3>1. k \in 1 .. n /\ k \in 0 .. n /\ \A j \in 0 .. k - 1 : j \in 0 .. n /\ j # m + 1
        OBVIOUS
      <3>2. \A j \in 0 .. k - 1 : f[j] = h[j]
        BY <2>4, <3>1
      <3>3. g[<<k, f>>] = g[<<k, h>>]
        BY <2>4, <3>1, <3>2
      <3>4. CASE k = m + 1
        BY <2>4, <3>3, <3>4
      <3>5. CASE k # m + 1
        <4>1. k \in 1 .. m
          BY <3>5
        <4>2. QED
          BY <2>1, <2>4, <3>1, <3>3, <3>5, <4>1
      <3>6. QED
        BY <3>4, <3>5
    <2>7. Upto(m + 1, h)
      BY <2>5, <2>6
    <2>8. QED
      BY <2>2, <2>4, <2>7
  <1>3. n \in S
    <2> HIDE DEF S
    <2>1. \A k \in 0 .. n : k \in S
      BY <1>1, <1>2, IntervalInduction, Zenon
    <2>2. QED
      BY <2>1
  <1>4. PICK f \in [0 .. n -> V] : Upto(n, f)
    BY <1>3
  <1>5. QED
    BY <1>4 DEF Computed

(* The same when the value at k is given by the one before it.              *)
Iterated(f, n, a, G) == f[0] = a /\ \A k \in 1 .. n : f[k] = G[<<k, f[k - 1]>>]

LEMMA IteratedExists ==
  ASSUME NEW n \in Nat, NEW V, NEW a \in V, NEW G \in [(1 .. n) \X V -> V]
  PROVE  \E f \in [0 .. n -> V] : Iterated(f, n, a, G)
  <1> DEFINE F == [0 .. n -> V]
             D == (1 .. n) \X F
             g == [q \in D |-> G[<<q[1], q[2][q[1] - 1]>>]]
  <1>1. ASSUME NEW k \in 1 .. n, NEW e \in F
        PROVE  g[<<k, e>>] = G[<<k, e[k - 1]>>] /\ g[<<k, e>>] \in V
    <2>1. k - 1 \in 0 .. n
      OBVIOUS
    <2>2. e[k - 1] \in V
      BY <2>1
    <2>3. <<k, e[k - 1]>> \in (1 .. n) \X V
      BY <2>2
    <2>4. G[<<k, e[k - 1]>>] \in V
      BY <2>3
    <2>5. QED
      BY <2>4
  <1>2. g \in [D -> V]
    <2>1. ASSUME NEW q \in D PROVE g[q] \in V
      <3>1. q = <<q[1], q[2]>> /\ q[1] \in 1 .. n /\ q[2] \in F
        OBVIOUS
      <3> HIDE DEF g, D
      <3>2. QED
        BY <1>1, <3>1, Zenon
    <2>2. g = [q \in D |-> g[q]]
      OBVIOUS
    <2> HIDE DEF g, D
    <2>3. QED
      BY <2>1, <2>2
  <1>3. \A k \in 1 .. n : \A e, h \in F :
          (\A j \in 0 .. k - 1 : e[j] = h[j]) => g[<<k, e>>] = g[<<k, h>>]
    <2> TAKE k \in 1 .. n
    <2> TAKE e, h \in F
    <2>1. k - 1 \in 0 .. k - 1
      OBVIOUS
    <2> HIDE DEF g
    <2>2. (\A j \in 0 .. k - 1 : e[j] = h[j]) => e[k - 1] = h[k - 1]
      BY <2>1, Zenon
    <2>3. g[<<k, e>>] = G[<<k, e[k - 1]>>] /\ g[<<k, h>>] = G[<<k, h[k - 1]>>]
      BY <1>1, Zenon
    <2>4. QED
      BY <2>2, <2>3, Zenon
  <1>4. PICK f \in F : Computed(f, n, a, g)
    <2> HIDE DEF g
    <2>1. QED
      BY <1>2, <1>3, ComputedExists, Zenon
  <1>5. \A k \in 1 .. n : f[k] = G[<<k, f[k - 1]>>]
    BY <1>1, <1>4 DEF Computed
  <1>6. QED
    BY <1>4, <1>5 DEF Computed, Iterated
-----------------------------------------------------------------------------
(* How a buffer sits over its array: it is as high as the array or has a    *)
(* temporary file; it has room for every strip that may be asked for.       *)
Placed(a) ==
  /\ rows_in_mem[a] <= RowsInArray[a]
  /\ rows_in_mem[a] = RowsInArray[a] \/ rows_in_mem[a] >= MaxAccess[a]
  /\ ~b_s_open[a] => rows_in_mem[a] = RowsInArray[a] /\ cur_start_row[a] = 0

(* An array without a buffer has no contents and nobody holds a strip of it.*)
Fresh(a) == first_undef_row[a] = 0 /\ held[a] = NoStrip

(* What is held for writing has been claimed, and its window is dirty.      *)
HeldClaimed(a) ==
  held[a].writable => dirty[a] /\ held[a].hi <= first_undef_row[a]

Shape ==
  /\ status \in {"open", "error", "gone"}
  /\ max_memory_to_use \in MemorySettings
  /\ realized \in [Arrays -> BOOLEAN]
  /\ rows_in_mem \in [Arrays -> Nat \ {0}]
  /\ rowsperchunk \in [Arrays -> Nat \ {0}]
  /\ cur_start_row \in [Arrays -> Nat]
  /\ first_undef_row \in [Arrays -> Nat]
  /\ dirty \in [Arrays -> BOOLEAN] /\ b_s_open \in [Arrays -> BOOLEAN]
  /\ DOMAIN mem_buffer = Arrays /\ DOMAIN temp_file = Arrays /\ DOMAIN held = Arrays

CleanSaved(a) ==
  \A r \in Rows(a) : InWindow(a, r) /\ r < first_undef_row[a] =>
    temp_file[a][r] = mem_buffer[a][r - cur_start_row[a]]

Window(a) ==
  /\ mem_buffer[a] \in [Rows(a) -> Values] /\ temp_file[a] \in [Rows(a) -> Values]
  /\ held[a] \in [lo : Nat, hi : Nat, writable : BOOLEAN, at : Nat]
  /\ first_undef_row[a] <= RowsInArray[a]
  /\ realized[a] => Placed(a)
  /\ ~realized[a] => Fresh(a)
  /\ status = "open" => /\ HeldInWindow(a) /\ HeldClaimed(a)
                        /\ b_s_open[a] /\ realized[a] /\ ~dirty[a] => CleanSaved(a)

IInv == Shape /\ \A a \in Arrays : Window(a)
-----------------------------------------------------------------------------
(* Arithmetic of windows.                                                   *)
LEMMA QuotientPositive ==
  ASSUME NEW m \in Nat, NEW r \in Nat \ {0}, r <= m
  PROVE  m \div r \in Nat \ {0}
  BY SMTT(60)

LEMMA ChunkStart ==
  ASSUME NEW j \in Nat, NEW p \in Nat \ {0}
  PROVE  /\ (j \div p) * p \in Int
         /\ (j \div p) * p <= j
         /\ j - (j \div p) * p < p
  BY SMTT(60)

LEMMA BelowFull ==
  ASSUME NEW n \in Nat \ {0}, NEW m \in Nat \ {0}, NEW h \in Nat \ {0},
         ~((n - 1) \div m + 1 <= h)
  PROVE  h * m \in Nat \ {0} /\ h * m <= n /\ h * m >= m
  BY SMTT(60)

LEMMA MovedIsDefined ==
  ASSUME Shape, NEW a \in Arrays, NEW start \in Nat, NEW j \in Int
  PROVE  Moved(a, start, j) <=> /\ j \in 0 .. rows_in_mem[a] - 1
                                /\ start + j < first_undef_row[a]
                                /\ start + j < RowsInArray[a]
  <1>1. /\ rows_in_mem[a] \in Nat \ {0} /\ rowsperchunk[a] \in Nat \ {0}
        /\ first_undef_row[a] \in Nat /\ RowsInArray[a] \in Nat
    BY ArraysAssumption DEF Shape
  <1>2. CASE j \in Nat
    <2> DEFINE i == (j \div rowsperchunk[a]) * rowsperchunk[a]
    <2>1. i \in Int /\ i <= j /\ j - i < rowsperchunk[a]
      BY <1>1, <1>2, ChunkStart
    <2> HIDE DEF i
    <2>2. Moved(a, start, j) <=> /\ j \in 0 .. rows_in_mem[a] - 1
                                 /\ j - i < rowsperchunk[a]
                                 /\ j - i < rows_in_mem[a] - i
                                 /\ j - i < first_undef_row[a] - (start + i)
                                 /\ j - i < RowsInArray[a] - (start + i)
      BY Zenon DEF Moved, i
    <2>3. QED
      BY <1>1, <1>2, <2>1, <2>2
  <1>3. CASE j \notin Nat
    BY <1>1, <1>3 DEF Moved
  <1>4. QED
    BY <1>2, <1>3

(* A buffer that has just been got is well placed.                          *)
LEMMA RowsInMemPlaced ==
  ASSUME NEW a \in Arrays, NEW h \in Nat \ {0}
  PROVE  /\ RowsInMem(a, h) \in Nat \ {0}
         /\ RowsInMem(a, h) <= RowsInArray[a]
         /\ RowsInMem(a, h) = RowsInArray[a] \/ RowsInMem(a, h) >= MaxAccess[a]
         /\ Fits(a, h) => RowsInMem(a, h) = RowsInArray[a]
  <1>1. RowsInArray[a] \in Nat \ {0} /\ MaxAccess[a] \in Nat \ {0}
    BY ArraysAssumption
  <1>2. CASE Fits(a, h)
    BY <1>1, <1>2 DEF RowsInMem
  <1>3. CASE ~Fits(a, h)
    <2>1. RowsInMem(a, h) = h * MaxAccess[a]
      BY <1>3 DEF RowsInMem
    <2>2. ~((RowsInArray[a] - 1) \div MaxAccess[a] + 1 <= h)
      BY <1>3 DEF Fits
    <2>3. QED
      BY <1>1, <1>3, <2>1, <2>2, BelowFull
  <1>4. QED
    BY <1>2, <1>3

LEMMA ChunksArePositive ==
  ASSUME NEW a \in Arrays, NEW n \in Nat \ {0}
  PROVE  RowsPerChunk(RowSize[a], n) \in Nat \ {0}
  <1>1. RowSize[a] \in Nat \ {0} /\ RowSize[a] <= MaxAllocChunk - Header
    BY ArraysAssumption
  <1>2. MaxAllocChunk - Header \in Nat
    BY <1>1, PoolsAssumption
  <1>3. (MaxAllocChunk - Header) \div RowSize[a] \in Nat \ {0}
    BY <1>1, <1>2, QuotientPositive
  <1>4. QED
    BY <1>3 DEF RowsPerChunk, Least

LEMMA HeightsPositive == ASSUME NEW todo PROVE MaxMinHeights(todo) \in Nat \ {0}
  <1> DEFINE full  == SumOver(todo, FullSpace)
             avail == MemAvailable(full)
             fit   == avail \div SumOver(todo, MinSpace)
  <1>1. MaxMinHeights(todo) = IF avail >= full THEN Unlimited
                              ELSE IF fit \in Nat \ {0} THEN fit ELSE 1
    BY Zenon DEF MaxMinHeights
  <1> HIDE DEF full, avail, fit
  <1>2. Unlimited \in Nat \ {0} /\ 1 \in Nat \ {0}
    BY SMT DEF Unlimited
  <1>3. QED
    BY <1>1, <1>2, Zenon

(* What realize_virt_arrays does to the arrays.                             *)
LEMMA RealizeEffect ==
  ASSUME Realize
  PROVE  \E good, opened : \E heights \in Nat \ {0} :
           /\ GetBuffers(good, opened, heights)
           /\ \A a \in good : ~realized[a]
           /\ status' = "open" => opened = {}
           /\ status' \in {"open", "error"}
  <1> DEFINE h == MaxMinHeights(Unrealized)
  <1>1. PICK done \in 0 .. Len(Unrealized), n \in 0 .. MaxRefusals :
        \E next \in IF done < Len(Unrealized) THEN {{Unrealized[done + 1]}} ELSE {{}} :
        \E opened \in {{}, NeedFile(next, h)} :
          /\ AllocBuffers(Unrealized, h, done, n, next, opened)
          /\ status' = IF next = {} THEN "open" ELSE "error"
          /\ GetBuffers({a \in Listed(SubSeq(Unrealized, 1, done)) : ~realized[a]}, opened, h)
    BY Zenon DEF Realize
  <1>2. PICK next, opened :
          /\ opened \in {{}, NeedFile(next, h)}
          /\ status' = IF next = {} THEN "open" ELSE "error"
          /\ GetBuffers({a \in Listed(SubSeq(Unrealized, 1, done)) : ~realized[a]}, opened, h)
    BY <1>1, Zenon
  <1>3. status' = "open" => opened = {}
    BY <1>2 DEF NeedFile
  <1>4. h \in Nat \ {0}
    BY HeightsPositive
  <1>5. status' \in {"open", "error"}
    BY <1>2
  <1> HIDE DEF h
  <1>6. QED
    BY <1>2, <1>3, <1>4, <1>5, Zenon
-----------------------------------------------------------------------------
LEMMA IInvImplies == IInv => TypeOK /\ CleanWindowSaved
  <1>1. \A a \in Arrays : HeldInWindow(a) <=> (status = "open" => HeldInWindow(a))
    BY DEF HeldInWindow
  <1>2. CleanWindowSaved <=> \A a \in Arrays : status = "open" =>
                               (b_s_open[a] /\ realized[a] /\ ~dirty[a] => CleanSaved(a))
    BY Zenon DEF CleanWindowSaved, CleanSaved
  <1>3. IInv => TypeOK
    BY <1>1, Zenon DEF IInv, Shape, Window, TypeOK
  <1>4. IInv => CleanWindowSaved
    BY <1>2, Zenon DEF IInv, Window
  <1>5. QED
    BY <1>3, <1>4

(* What a step that leaves an array alone must not touch.                   *)
Untouched(a) ==
  /\ realized'[a] = realized[a] /\ rows_in_mem'[a] = rows_in_mem[a]
  /\ cur_start_row'[a] = cur_start_row[a]
  /\ first_undef_row'[a] = first_undef_row[a]
  /\ dirty'[a] = dirty[a] /\ b_s_open'[a] = b_s_open[a]
  /\ mem_buffer'[a] = mem_buffer[a] /\ temp_file'[a] = temp_file[a]
  /\ held'[a] = held[a]

LEMMA UntouchedKept ==
  ASSUME NEW a \in Arrays, Window(a), Untouched(a), status' = "open" => status = "open"
  PROVE  Window(a)'
  <1>1. Placed(a)' <=> Placed(a)
    BY Zenon DEF Placed, Untouched
  <1>2. Fresh(a)' <=> Fresh(a)
    BY Zenon DEF Fresh, Untouched
  <1>3. HeldClaimed(a)' <=> HeldClaimed(a)
    BY Zenon DEF HeldClaimed, Untouched
  <1>4. CleanSaved(a)' <=> CleanSaved(a)
    BY Zenon DEF CleanSaved, Untouched, InWindow
  <1>5. status' = "open" => (HeldInWindow(a)' <=> HeldInWindow(a))
    BY Zenon DEF HeldInWindow, Untouched
  <1>6. QED
    BY <1>1, <1>2, <1>3, <1>4, <1>5, Zenon DEF Window, Untouched

LEMMA UntouchedStored ==
  ASSUME NEW a \in Arrays, Untouched(a), NEW r PROVE Stored(a, r)' = Stored(a, r)
  BY Zenon DEF Stored, InWindow, Untouched

LEMMA InitIInv == ASSUME Init PROVE IInv
  <1>1. Shape
    BY DEF Init, Shape
  <1>2. ASSUME NEW a \in Arrays PROVE Window(a)
    <2>1. /\ ~realized[a] /\ first_undef_row[a] = 0 /\ held[a] = NoStrip
          /\ mem_buffer[a] = [j \in Rows(a) |-> Junk]
          /\ temp_file[a] = [j \in Rows(a) |-> Junk]
      BY DEF Init
    <2>2. RowsInArray[a] \in Nat /\ Junk \in Values
      BY ArraysAssumption
    <2>3. QED
      BY <2>1, <2>2 DEF Window, Fresh, NoStrip, HeldInWindow, HeldClaimed
  <1>3. QED
    BY <1>1, <1>2 DEF IInv

(* A step that only changes the pools, or the lists, or fails.              *)
LEMMA WindowsAlone ==
  ASSUME IInv, UNCHANGED <<max_memory_to_use, realized, window, b_s_open, stored, held>>,
         status' \in {"open", "error", "gone"}, status' = "open" => status = "open"
  PROVE  IInv'
  <1>1. Shape'
    BY DEF IInv, Shape, window, stored
  <1>2. ASSUME NEW a \in Arrays PROVE Window(a)'
    BY UntouchedKept, Zenon DEF IInv, Untouched, window, stored
  <1>3. QED
    BY <1>1, <1>2 DEF IInv

LEMMA RealizeKeeps ==
  ASSUME IInv, Realize
  PROVE  IInv'
  <1>1. PICK good, opened : \E heights \in Nat \ {0} :
           /\ GetBuffers(good, opened, heights)
           /\ \A a \in good : ~realized[a]
           /\ status' = "open" => opened = {}
           /\ status' \in {"open", "error"}
    BY RealizeEffect, Zenon
  <1>2. PICK heights \in Nat \ {0} :
           /\ GetBuffers(good, opened, heights)
           /\ \A a \in good : ~realized[a]
           /\ status' = "open" => opened = {}
           /\ status' \in {"open", "error"}
    BY <1>1
  <1>3. status = "open" /\ UNCHANGED <<max_memory_to_use, stored, held>>
    BY Zenon DEF Realize
  <1>4. \A a \in Arrays : /\ RowsInMem(a, heights) \in Nat \ {0}
                         /\ RowsPerChunk(RowSize[a], RowsInMem(a, heights)) \in Nat \ {0}
    BY RowsInMemPlaced, ChunksArePositive
  <1>5. Shape'
    BY <1>2, <1>3, <1>4 DEF IInv, Shape, GetBuffers, stored
  <1>6. ASSUME NEW a \in Arrays PROVE Window(a)'
    <2>1. Window(a)
      BY DEF IInv
    <2>2. CASE a \in good
      <3>1. Fresh(a) /\ held[a] = NoStrip
        BY <1>2, <2>1, <2>2 DEF Window, Fresh
      <3>2. /\ realized'[a] /\ first_undef_row'[a] = 0 /\ cur_start_row'[a] = 0
            /\ rows_in_mem'[a] = RowsInMem(a, heights)
            /\ ~b_s_open'[a] => Fits(a, heights)
        BY <2>2, <1>2, Zenon DEF GetBuffers
      <3>3. /\ mem_buffer'[a] = mem_buffer[a] /\ temp_file'[a] = temp_file[a]
            /\ held'[a] = NoStrip
        BY <1>3, <3>1 DEF stored, Fresh
      <3>4. Placed(a)'
        BY <3>2, RowsInMemPlaced, Zenon DEF Placed
      <3>5. CleanSaved(a)'
        BY <3>2 DEF CleanSaved, Rows
      <3>6. HeldInWindow(a)' /\ HeldClaimed(a)'
        BY <3>3 DEF HeldInWindow, HeldClaimed, NoStrip
      <3>7. first_undef_row'[a] <= RowsInArray[a]
        BY <3>2, ArraysAssumption
      <3>8. QED
        BY <2>1, <3>1, <3>2, <3>3, <3>4, <3>5, <3>6, <3>7, Zenon DEF Window
    <2>3. CASE a \notin good
      <3>1. /\ realized'[a] = realized[a]
            /\ rows_in_mem'[a] = rows_in_mem[a] /\ cur_start_row'[a] = cur_start_row[a]
            /\ first_undef_row'[a] = first_undef_row[a] /\ dirty'[a] = dirty[a]
            /\ b_s_open'[a] = (b_s_open[a] \/ a \in opened)
        <4>1. /\ realized'[a] = (realized[a] \/ a \in good)
              /\ b_s_open'[a] = (b_s_open[a] \/ a \in opened
                                \/ (a \in good /\ ~Fits(a, heights)))
          BY <1>2, Zenon DEF GetBuffers
        <4> realized[a] \in BOOLEAN
          BY DEF IInv, Shape
        <4>2. realized'[a] = realized[a] /\ b_s_open'[a] = (b_s_open[a] \/ a \in opened)
          BY <2>3, <4>1
        <4>3. QED
          BY <2>3, <1>2, <4>2, Zenon DEF GetBuffers
      <3>2. /\ mem_buffer'[a] = mem_buffer[a] /\ temp_file'[a] = temp_file[a]
            /\ held'[a] = held[a]
        BY <1>3, Zenon DEF stored
      <3>3. Placed(a) => Placed(a)'
        BY <3>1, Zenon DEF Placed
      <3>4. Fresh(a) <=> Fresh(a)'
        BY <3>1, <3>2, Zenon DEF Fresh
      <3>5. HeldClaimed(a) <=> HeldClaimed(a)'
        BY <3>1, <3>2, Zenon DEF HeldClaimed
      <3>6. CleanSaved(a) <=> CleanSaved(a)'
        BY <3>1, <3>2, Zenon DEF CleanSaved, InWindow
      <3>7. HeldInWindow(a) => HeldInWindow(a)'
        BY <1>3, <3>1, <3>2, Zenon DEF HeldInWindow
      <3>8. status' = "open" => (b_s_open'[a] <=> b_s_open[a])
        BY <1>2, <3>1, Zenon
      <3>9. dirty'[a] = dirty[a]
        BY <3>1
      <3>10. QED
        BY <1>3, <2>1, <3>1, <3>2, <3>3, <3>4, <3>5, <3>6, <3>7, <3>8, <3>9, ZenonT(60)
        DEF Window
    <2>4. QED
      BY <2>2, <2>3
  <1>7. QED
    BY <1>5, <1>6 DEF IInv

LEMMA ReleaseKeeps ==
  ASSUME IInv, CloseArrays, status' \in {"open", "gone"}
  PROVE  IInv'
  <1>1. Shape'
    BY DEF IInv, Shape, CloseArrays, NoWindows
  <1>2. ASSUME NEW a \in Arrays PROVE Window(a)'
    <2>1. /\ ~realized'[a] /\ first_undef_row'[a] = 0 /\ held'[a] = NoStrip
          /\ mem_buffer'[a] = [j \in Rows(a) |-> Junk]
          /\ temp_file'[a] = [j \in Rows(a) |-> Junk]
      BY DEF CloseArrays, NoWindows
    <2>2. RowsInArray[a] \in Nat /\ Junk \in Values
      BY ArraysAssumption
    <2>3. QED
      BY <2>1, <2>2 DEF Window, Fresh, NoStrip, HeldInWindow, HeldClaimed
  <1>3. QED
    BY <1>1, <1>2 DEF IInv

LEMMA FailureKeeps ==
  ASSUME IInv, NEW a \in Arrays, NEW lo, NEW hi, NEW w, AccessFails(a, lo, hi, w)
  PROVE  IInv'
  <1>1. /\ status' = "error"
        /\ UNCHANGED <<max_memory_to_use, realized, window, b_s_open, stored>>
        /\ held' = [held EXCEPT ![a] = NoStrip]
    BY Zenon DEF AccessFails
  <1>2. Shape'
    BY <1>1 DEF IInv, Shape, window, stored
  <1>3. ASSUME NEW b \in Arrays PROVE Window(b)'
    <2>1. Window(b) /\ DOMAIN held = Arrays
      BY DEF IInv, Shape
    <2>2. /\ realized'[b] = realized[b] /\ mem_buffer'[b] = mem_buffer[b]
          /\ temp_file'[b] = temp_file[b] /\ first_undef_row'[b] = first_undef_row[b]
          /\ status' # "open"
      BY <1>1 DEF window, stored
    <2>3. held'[b] \in {NoStrip, held[b]}
      BY <1>1, <2>1
    <2>4. NoStrip \in [lo : Nat, hi : Nat, writable : BOOLEAN, at : Nat]
      BY DEF NoStrip
    <2>5. Placed(b) => Placed(b)'
      BY <1>1, Zenon DEF Placed, window
    <2>6. Fresh(b) => Fresh(b)'
      BY <2>2, <2>3 DEF Fresh
    <2>7. held'[b] \in [lo : Nat, hi : Nat, writable : BOOLEAN, at : Nat]
      BY <2>1, <2>3, <2>4 DEF Window
    <2>8. QED
      BY <2>1, <2>2, <2>5, <2>6, <2>7, Zenon DEF Window
  <1>4. QED
    BY <1>2, <1>3 DEF IInv

LEMMA ModifyKeeps ==
  ASSUME IInv, NEW a \in Arrays, NEW r \in Rows(a), NEW v \in NewValues, Modify(a, r, v)
  PROVE  /\ IInv'
         /\ Contents[a][r] # Undefined
         /\ Contents' = [Contents EXCEPT ![a][r] = v]
  <1> DEFINE j == r - cur_start_row[a]
  <1>1. /\ status = "open" /\ held[a].writable
        /\ r \in held[a].lo .. held[a].hi - 1
        /\ mem_buffer' = [mem_buffer EXCEPT ![a][held[a].at + r - held[a].lo] = v]
        /\ UNCHANGED <<status, max_memory_to_use, realized, window, b_s_open, temp_file, held>>
    BY Zenon DEF Modify
  <1>2. Window(a) /\ Shape /\ v \in Values
    BY ArraysAssumption DEF IInv
  <1>3. /\ cur_start_row[a] \in Nat /\ rows_in_mem[a] \in Nat \ {0}
        /\ first_undef_row[a] \in Nat /\ RowsInArray[a] \in Nat
        /\ held[a].lo \in Nat /\ held[a].hi \in Nat
        /\ first_undef_row[a] <= RowsInArray[a]
    BY <1>2, ArraysAssumption DEF Window, Shape
  <1>4. HeldInWindow(a) /\ HeldClaimed(a)
    BY <1>1, <1>2 DEF Window
  <1>5. held[a].lo < held[a].hi /\ r \in Int
    BY <1>1, <1>3 DEF Rows
  <1>6. /\ dirty[a] /\ held[a].hi <= first_undef_row[a] /\ realized[a]
        /\ cur_start_row[a] <= held[a].lo /\ held[a].at = held[a].lo - cur_start_row[a]
        /\ held[a].hi - cur_start_row[a] <= rows_in_mem[a]
        /\ rows_in_mem[a] <= RowsInArray[a]
    BY <1>1, <1>4, <1>5, Zenon DEF HeldInWindow, HeldClaimed
  <1>7. j \in Rows(a) /\ r < first_undef_row[a] /\ InWindow(a, r)
    BY <1>1, <1>3, <1>5, <1>6 DEF Rows, InWindow
  <1>8. \A b \in Arrays \ {a} : Untouched(b)
    BY <1>1, <1>2 DEF Untouched, window, Shape
  <1>9. mem_buffer'[a] = [mem_buffer[a] EXCEPT ![j] = v]
    <2>1. held[a].at + r - held[a].lo = j
      BY <1>3, <1>5, <1>6
    <2>2. QED
      BY <1>1, <1>2, <2>1 DEF Shape
  <1>10. Shape'
    BY <1>1, <1>2 DEF Shape, window
  <1>11. Window(a)'
    <2>1. mem_buffer'[a] \in [Rows(a) -> Values]
      BY <1>2, <1>9 DEF Window
    <2>2. /\ Placed(a) <=> Placed(a)'
          /\ HeldClaimed(a) <=> HeldClaimed(a)'
          /\ Fresh(a) <=> Fresh(a)'
      BY <1>1, Zenon DEF Placed, HeldClaimed, Fresh, window
    <2>3. HeldInWindow(a)'
      BY <1>1, <1>4, Zenon DEF HeldInWindow, window
    <2>4. /\ realized'[a] = realized[a] /\ dirty'[a] = dirty[a] /\ temp_file' = temp_file
          /\ first_undef_row' = first_undef_row /\ held' = held /\ status' = status
      BY <1>1 DEF window
    <2>5. QED
      BY <1>2, <1>6, <2>1, <2>2, <2>3, <2>4, Zenon DEF Window
  <1>12. IInv'
    <2>1. \A b \in Arrays \ {a} : Window(b)'
      BY <1>1, <1>8, UntouchedKept DEF IInv
    <2>2. QED
      BY <1>10, <1>11, <2>1 DEF IInv
  <1>13. Contents[a][r] # Undefined
    <2>1. Stored(a, r) = mem_buffer[a][j]
      BY <1>3, <1>5, <1>7 DEF Stored
    <2>2. Stored(a, r) \in Values
      BY <1>2, <1>7, <2>1 DEF Window
    <2>3. QED
      BY <2>2, ArraysAssumption DEF Contents
  <1>14. \A b \in Arrays \ {a} : \A q \in Rows(b) : Stored(b, q)' = Stored(b, q)
    BY <1>8, UntouchedStored
  <1>15. ASSUME NEW q \in Rows(a) PROVE Stored(a, q)' = IF q = r THEN v ELSE Stored(a, q)
    <2>1. q \in Int
      BY <1>3 DEF Rows
    <2>2. /\ first_undef_row' = first_undef_row /\ cur_start_row' = cur_start_row
          /\ rows_in_mem' = rows_in_mem /\ temp_file' = temp_file
      BY <1>1 DEF window
    <2>3. InWindow(a, q)' <=> InWindow(a, q)
      BY <2>2, Zenon DEF InWindow
    <2>4. Stored(a, q)' = IF q >= first_undef_row[a] THEN Undefined
                          ELSE IF InWindow(a, q) THEN mem_buffer'[a][q - cur_start_row[a]]
                          ELSE temp_file[a][q]
      BY <2>2, <2>3, Zenon DEF Stored
    <2>5. CASE q = r
      BY <1>2, <1>3, <1>5, <1>7, <1>9, <2>4, <2>5 DEF Window
    <2>6. CASE q # r
      <3>1. InWindow(a, q) => q - cur_start_row[a] \in Rows(a) /\ q - cur_start_row[a] # j
        BY <1>3, <1>5, <1>6, <2>1, <2>6 DEF InWindow, Rows
      <3>2. InWindow(a, q) => mem_buffer'[a][q - cur_start_row[a]] = mem_buffer[a][q - cur_start_row[a]]
        BY <1>2, <1>9, <3>1 DEF Window
      <3>3. QED
        BY <2>4, <2>6, <3>2, Zenon DEF Stored
    <2>7. QED
      BY <2>5, <2>6
  <1>16. Contents' = [Contents EXCEPT ![a][r] = v]
    BY <1>14, <1>15 DEF Contents
  <1>17. QED
    BY <1>12, <1>13, <1>16
-----------------------------------------------------------------------------
(* access_virt_sarray and access_virt_barray: where the window goes.        *)
After(a, lo, hi) ==
  IF OutsideWindow(a, lo, hi) THEN NewStart(a, lo, hi) ELSE cur_start_row[a]

FileAfter(a, lo, hi) ==
  IF OutsideWindow(a, lo, hi) /\ dirty[a] THEN FileWritten(a) ELSE temp_file[a]

RowsAfter(a, lo, hi) ==
  IF OutsideWindow(a, lo, hi) THEN BufferRead(a, After(a, lo, hi), FileAfter(a, lo, hi))
                              ELSE mem_buffer[a]

LEMMA AccessEffect ==
  ASSUME NEW a, NEW lo, NEW hi, NEW w, Access(a, lo, hi, w)
  PROVE  /\ ~BadAccess(a, lo, hi, w)
         /\ temp_file' = [temp_file EXCEPT ![a] = FileAfter(a, lo, hi)]
         /\ cur_start_row' = [cur_start_row EXCEPT ![a] = After(a, lo, hi)]
         /\ mem_buffer' = [mem_buffer EXCEPT ![a] =
              [j \in Rows(a) |->
                 IF PreZero[a] /\ j \in Greatest(first_undef_row[a], lo) - After(a, lo, hi)
                                         .. hi - After(a, lo, hi) - 1
                 THEN 0 ELSE RowsAfter(a, lo, hi)[j]]]
         /\ first_undef_row' = [first_undef_row EXCEPT ![a] =
              IF w THEN Greatest(@, hi) ELSE @]
         /\ dirty' = [dirty EXCEPT ![a] = DirtyAfter(a, OutsideWindow(a, lo, hi), w)]
         /\ held' = [held EXCEPT ![a] = [lo |-> lo, hi |-> hi, writable |-> w,
                                         at |-> lo - After(a, lo, hi)]]
         /\ UNCHANGED <<status, max_memory_to_use, realized, rows_in_mem,
                        rowsperchunk, b_s_open>>
  BY Zenon DEF Access, After, FileAfter, RowsAfter

(* What the error exits of access_virt_sarray leave to the rest of it.      *)
LEMMA AccessAllowed ==
  ASSUME IInv, NEW a \in Arrays, NEW lo \in Nat, NEW hi \in Nat, NEW w \in BOOLEAN, lo < hi,
         ~BadAccess(a, lo, hi, w)
  PROVE  /\ hi <= RowsInArray[a] /\ hi - lo <= MaxAccess[a] /\ realized[a] /\ Placed(a)
         /\ OutsideWindow(a, lo, hi) => b_s_open[a]
         /\ w => lo <= first_undef_row[a]
  <1>1. /\ first_undef_row[a] \in Nat /\ RowsInArray[a] \in Nat /\ MaxAccess[a] \in Nat
    BY ArraysAssumption DEF IInv, Shape
  <1>2. /\ ~(hi > RowsInArray[a]) /\ ~(hi - lo > MaxAccess[a]) /\ realized[a]
        /\ OutsideWindow(a, lo, hi) => b_s_open[a]
        /\ w => ~(first_undef_row[a] < lo)
    BY Zenon DEF BadAccess
  <1>3. Placed(a)
    BY <1>2, Zenon DEF IInv, Window
  <1>4. QED
    BY <1>1, <1>2, <1>3

(* The window that has been moved holds the strip.                          *)
LEMMA AfterHolds ==
  ASSUME IInv, NEW a \in Arrays, NEW lo \in Nat, NEW hi \in Nat, NEW w \in BOOLEAN, lo < hi,
         ~BadAccess(a, lo, hi, w)
  PROVE  /\ After(a, lo, hi) \in Nat /\ After(a, lo, hi) <= lo
         /\ hi - After(a, lo, hi) <= rows_in_mem[a]
         /\ ~OutsideWindow(a, lo, hi) => After(a, lo, hi) = cur_start_row[a]
  <1>1. /\ rows_in_mem[a] \in Nat \ {0} /\ cur_start_row[a] \in Nat
        /\ RowsInArray[a] \in Nat /\ MaxAccess[a] \in Nat
    BY ArraysAssumption DEF IInv, Shape
  <1>2. hi <= RowsInArray[a] /\ hi - lo <= MaxAccess[a] /\ Placed(a)
    BY AccessAllowed
  <1>3. hi - lo <= rows_in_mem[a]
    BY <1>1, <1>2 DEF Placed
  <1>4. QED
    BY <1>1, <1>3 DEF After, NewStart, OutsideWindow, Greatest

(* The rows of the moved window, and of the file, are those stored before.  *)
LEMMA RowsFollow ==
  ASSUME IInv, status = "open",
         NEW a \in Arrays, NEW lo \in Nat, NEW hi \in Nat, NEW w \in BOOLEAN, lo < hi,
         ~BadAccess(a, lo, hi, w)
  PROVE  /\ FileAfter(a, lo, hi) \in [Rows(a) -> Values]
         /\ RowsAfter(a, lo, hi) \in [Rows(a) -> Values]
         /\ OutsideWindow(a, lo, hi) => \A r \in Rows(a) : r < first_undef_row[a] =>
              /\ FileAfter(a, lo, hi)[r] = Stored(a, r)
              /\ r \in After(a, lo, hi) .. After(a, lo, hi) + rows_in_mem[a] - 1 =>
                   RowsAfter(a, lo, hi)[r - After(a, lo, hi)] = Stored(a, r)
  <1> DEFINE start == After(a, lo, hi)
             file  == FileAfter(a, lo, hi)
             cur   == cur_start_row[a]
             rim   == rows_in_mem[a]
  <1>1. /\ rim \in Nat \ {0} /\ cur \in Nat /\ first_undef_row[a] \in Nat
        /\ RowsInArray[a] \in Nat /\ start \in Nat
    BY ArraysAssumption, AfterHolds DEF IInv, Shape
  <1>2. /\ realized[a] /\ rim <= RowsInArray[a]
        /\ OutsideWindow(a, lo, hi) => b_s_open[a]
    BY AccessAllowed DEF Placed
  <1>3. Window(a) /\ Shape
    BY DEF IInv
  <1>4. mem_buffer[a] \in [Rows(a) -> Values] /\ temp_file[a] \in [Rows(a) -> Values]
    BY <1>3 DEF Window
  <1>5. \A r \in Rows(a) : r \in Int /\ 0 <= r /\ r < RowsInArray[a]
    BY <1>1 DEF Rows
  <1>6. ASSUME NEW r \in Rows(a)
        PROVE  Moved(a, cur, r - cur) <=> r - cur \in 0 .. rim - 1 /\ r < first_undef_row[a]
    BY <1>1, <1>3, <1>5, MovedIsDefined
  <1>7. FileWritten(a) \in [Rows(a) -> Values]
    <2>1. ASSUME NEW r \in Rows(a), Moved(a, cur, r - cur) PROVE r - cur \in Rows(a)
      BY <1>1, <1>2, <1>5, <1>6, <2>1 DEF Rows
    <2>2. QED
      BY <1>4, <2>1 DEF FileWritten
  <1>8. file \in [Rows(a) -> Values]
    BY <1>4, <1>7 DEF FileAfter
  <1>9. ASSUME NEW j \in Rows(a), Moved(a, start, j) PROVE start + j \in Rows(a)
    BY <1>1, <1>3, <1>5, <1>9, MovedIsDefined DEF Rows
  <1>10. BufferRead(a, start, file) \in [Rows(a) -> Values]
    BY <1>4, <1>8, <1>9 DEF BufferRead
  <1>11. RowsAfter(a, lo, hi) \in [Rows(a) -> Values]
    BY <1>4, <1>10 DEF RowsAfter
  <1>12. ASSUME OutsideWindow(a, lo, hi), NEW r \in Rows(a), r < first_undef_row[a]
         PROVE  file[r] = Stored(a, r)
    <2>1. Stored(a, r) = IF InWindow(a, r) THEN mem_buffer[a][r - cur] ELSE temp_file[a][r]
      BY <1>1, <1>5, <1>12 DEF Stored
    <2>2. InWindow(a, r) <=> Moved(a, cur, r - cur)
      BY <1>1, <1>5, <1>6, <1>12 DEF InWindow
    <2>3. CASE dirty[a]
      BY <1>12, <2>1, <2>2, <2>3 DEF FileAfter, FileWritten
    <2>4. CASE ~dirty[a]
      <3>1. CleanSaved(a)
        BY <1>2, <1>3, <1>12, <2>4, Zenon DEF Window
      <3>2. InWindow(a, r) => temp_file[a][r] = mem_buffer[a][r - cur]
        BY <3>1, <1>12, Zenon DEF CleanSaved
      <3>3. file = temp_file[a]
        BY <2>4, Zenon DEF FileAfter
      <3>4. QED
        BY <2>1, <3>2, <3>3, Zenon
    <2>5. QED
      BY <2>3, <2>4
  <1>13. ASSUME OutsideWindow(a, lo, hi), NEW r \in Rows(a), r < first_undef_row[a],
                r \in start .. start + rim - 1
         PROVE  RowsAfter(a, lo, hi)[r - start] = file[r]
    <2>1. r - start \in Rows(a) /\ start + (r - start) = r /\ r - start \in 0 .. rim - 1
      BY <1>1, <1>2, <1>5, <1>13 DEF Rows
    <2>2. Moved(a, start, r - start)
      BY <1>1, <1>3, <1>5, <1>13, <2>1, MovedIsDefined
    <2>3. BufferRead(a, start, file)[r - start] = file[start + (r - start)]
      BY <2>1, <2>2, Zenon DEF BufferRead
    <2>4. RowsAfter(a, lo, hi) = BufferRead(a, start, file)
      BY <1>13, Zenon DEF RowsAfter
    <2>5. QED
      BY <2>1, <2>3, <2>4
  <1>14. QED
    BY <1>8, <1>11, <1>12, <1>13

(* access_virt_sarray keeps the invariant, and changes no defined row.      *)
LEMMA AccessKeeps ==
  ASSUME IInv, status = "open", NEW a \in Arrays,
         NEW lo \in 0 .. RowsInArray[a], NEW hi \in 0 .. RowsInArray[a],
         NEW w \in BOOLEAN, lo < hi, Access(a, lo, hi, w)
  PROVE  /\ IInv'
         /\ \A b \in Arrays \ {a} : Untouched(b)
         /\ \A r \in Rows(a) : r < first_undef_row[a] => Stored(a, r)' = Stored(a, r)
         /\ first_undef_row'[a] = IF w THEN Greatest(first_undef_row[a], hi)
                                       ELSE first_undef_row[a]
         /\ w => lo <= first_undef_row[a]
         /\ \A r \in Rows(a) : r \in first_undef_row[a] .. hi - 1 /\ w =>
              Stored(a, r)' \in IF PreZero[a] THEN {0} ELSE Values
  <1> DEFINE start == After(a, lo, hi)
             file  == FileAfter(a, lo, hi)
             rows  == RowsAfter(a, lo, hi)
             cur   == cur_start_row[a]
             rim   == rows_in_mem[a]
             fu    == first_undef_row[a]
             moves == OutsideWindow(a, lo, hi)
             undef == Greatest(fu, lo)
             zeroed(j) == PreZero[a] /\ j \in undef - start .. hi - start - 1
  <1>1. Window(a) /\ Shape
    BY DEF IInv
  <1>2. /\ lo \in Nat /\ hi \in Nat /\ rim \in Nat \ {0} /\ cur \in Nat /\ fu \in Nat
        /\ RowsInArray[a] \in Nat /\ fu <= RowsInArray[a] /\ hi <= RowsInArray[a]
    BY <1>1, ArraysAssumption DEF Shape, Window
  <1>3. ~BadAccess(a, lo, hi, w)
    BY AccessEffect
  <1>4. /\ realized[a] /\ Placed(a) /\ rim <= RowsInArray[a]
        /\ moves => b_s_open[a]
        /\ w => lo <= fu
    BY <1>2, <1>3, AccessAllowed DEF Placed
  <1>5. /\ start \in Nat /\ start <= lo /\ hi - start <= rim
        /\ ~moves => start = cur
    BY <1>2, <1>3, AfterHolds
  <1>6. file \in [Rows(a) -> Values] /\ rows \in [Rows(a) -> Values]
    BY <1>2, <1>3, RowsFollow
  <1>7. moves => \A r \in Rows(a) : r < fu =>
          /\ file[r] = Stored(a, r)
          /\ r \in start .. start + rim - 1 => rows[r - start] = Stored(a, r)
    BY <1>2, <1>3, RowsFollow
  <1>8. /\ temp_file' = [temp_file EXCEPT ![a] = file]
        /\ cur_start_row' = [cur_start_row EXCEPT ![a] = start]
        /\ mem_buffer' = [mem_buffer EXCEPT ![a] =
             [j \in Rows(a) |-> IF zeroed(j) THEN 0 ELSE rows[j]]]
        /\ first_undef_row' = [first_undef_row EXCEPT ![a] =
             IF w THEN Greatest(@, hi) ELSE @]
        /\ dirty' = [dirty EXCEPT ![a] = DirtyAfter(a, moves, w)]
        /\ held' = [held EXCEPT ![a] = [lo |-> lo, hi |-> hi, writable |-> w, at |-> lo - start]]
        /\ UNCHANGED <<status, max_memory_to_use, realized, rows_in_mem,
                       rowsperchunk, b_s_open>>
    BY AccessEffect
  <1>9. ~moves => file = temp_file[a] /\ rows = mem_buffer[a]
    BY Zenon DEF FileAfter, RowsAfter
  <1> HIDE DEF start, file, rows, moves, zeroed
  <1>10. /\ temp_file'[a] = file /\ cur_start_row'[a] = start
         /\ mem_buffer'[a] = [j \in Rows(a) |-> IF zeroed(j) THEN 0 ELSE rows[j]]
         /\ first_undef_row'[a] = IF w THEN Greatest(fu, hi) ELSE fu
         /\ held'[a] = [lo |-> lo, hi |-> hi, writable |-> w, at |-> lo - start]
         /\ rows_in_mem'[a] = rim
    BY <1>1, <1>8 DEF Shape
  <1>11. dirty'[a] = DirtyAfter(a, moves, w)
    BY <1>1, <1>8 DEF Shape
  <1>12. \A b \in Arrays \ {a} : Untouched(b)
    BY <1>1, <1>8 DEF Untouched, Shape
  <1>13. DirtyAfter(a, moves, w) \in BOOLEAN
    BY DEF DirtyAfter
  <1>14. Shape'
    BY <1>1, <1>2, <1>5, <1>8, <1>13 DEF Shape, Greatest
  <1>15. \A r \in Rows(a) : r \in Int /\ 0 <= r /\ r < RowsInArray[a]
    BY <1>2 DEF Rows
  <1>16. fu <= first_undef_row'[a] /\ first_undef_row'[a] <= RowsInArray[a]
         /\ first_undef_row'[a] \in Nat
    BY <1>2, <1>10 DEF Greatest
  <1>17. ASSUME NEW r \in Rows(a), r \in start .. start + rim - 1
         PROVE  /\ r - start \in Rows(a)
                /\ zeroed(r - start) <=> PreZero[a] /\ undef <= r /\ r < hi
                /\ mem_buffer'[a][r - start] = IF zeroed(r - start) THEN 0 ELSE rows[r - start]
    <2>1. r - start \in Rows(a)
      BY <1>2, <1>4, <1>5, <1>15, <1>17 DEF Rows
    <2>2. undef \in Nat
      BY <1>2 DEF Greatest
    <2>3. r - start \in undef - start .. hi - start - 1 <=> undef <= r /\ r < hi
      BY <1>2, <1>5, <1>15, <2>2
    <2>4. QED
      BY <1>10, <2>1, <2>3, Zenon DEF zeroed
  <1>18. ASSUME NEW r \in Rows(a)
         PROVE  InWindow(a, r)' <=> r \in start .. start + rim - 1
    BY <1>10, Zenon DEF InWindow
  <1>19. ASSUME NEW r \in Rows(a), r < first_undef_row'[a]
         PROVE  Stored(a, r)' = IF r \in start .. start + rim - 1
                                THEN mem_buffer'[a][r - start] ELSE file[r]
    <2>1. ~(r >= first_undef_row'[a])
      BY <1>15, <1>16, <1>19
    <2>2. QED
      BY <1>10, <1>18, <2>1, Zenon DEF Stored
  <1>20. ASSUME NEW r \in Rows(a), r < fu
         PROVE  /\ Stored(a, r)' = Stored(a, r)
                /\ moves /\ r \in start .. start + rim - 1 =>
                     file[r] = mem_buffer'[a][r - start]
    <2>1. r < first_undef_row'[a] /\ ~(undef <= r)
      BY <1>2, <1>15, <1>16, <1>20 DEF Greatest
    <2>2. r \in start .. start + rim - 1 => mem_buffer'[a][r - start] = rows[r - start]
      BY <1>17, <2>1, Zenon
    <2>3. CASE moves
      BY <1>7, <1>19, <1>20, <2>1, <2>2, <2>3, Zenon
    <2>4. CASE ~moves
      <3>1. file = temp_file[a] /\ rows = mem_buffer[a] /\ start = cur
        BY <1>5, <1>9, <2>4
      <3>2. ~(r >= fu)
        BY <1>2, <1>15, <1>20
      <3>3. Stored(a, r) = IF r \in start .. start + rim - 1 THEN rows[r - start] ELSE file[r]
        BY <3>1, <3>2, Zenon DEF Stored, InWindow
      <3>4. QED
        BY <1>19, <2>1, <2>2, <2>4, <3>3, Zenon
    <2>5. QED
      BY <2>3, <2>4
  <1>21. ASSUME NEW r \in Rows(a), r \in fu .. hi - 1, w
         PROVE  Stored(a, r)' \in IF PreZero[a] THEN {0} ELSE Values
    <2>1. r < first_undef_row'[a] /\ undef = fu /\ fu <= r /\ r < hi
      BY <1>2, <1>4, <1>10, <1>15, <1>21 DEF Greatest
    <2>2. r \in start .. start + rim - 1
      BY <1>2, <1>4, <1>5, <1>15, <2>1, <1>21
    <2>3. Stored(a, r)' = IF PreZero[a] THEN 0 ELSE rows[r - start]
      BY <1>17, <1>19, <2>1, <2>2, Zenon
    <2>4. rows[r - start] \in Values
      BY <1>6, <1>17, <2>2
    <2>5. QED
      BY <2>3, <2>4
  <1>22. Window(a)'
    <2>1. mem_buffer'[a] \in [Rows(a) -> Values] /\ temp_file'[a] \in [Rows(a) -> Values]
      BY <1>6, <1>10, ArraysAssumption
    <2>2. held'[a] \in [lo : Nat, hi : Nat, writable : BOOLEAN, at : Nat]
      BY <1>2, <1>5, <1>10
    <2>3. Placed(a)'
      BY <1>4, <1>5, <1>8, <1>10 DEF Placed
    <2>4. HeldInWindow(a)'
      BY <1>4, <1>5, <1>8, <1>10 DEF HeldInWindow
    <2>5. HeldClaimed(a)'
      <3>1. w => hi <= first_undef_row'[a]
        BY <1>2, <1>10 DEF Greatest
      <3>2. held'[a].writable = w /\ held'[a].hi = hi
        BY <1>10
      <3>3. QED
        BY <1>11, <3>1, <3>2, Zenon DEF HeldClaimed, DirtyAfter
    <2>6. ASSUME b_s_open'[a], ~dirty'[a] PROVE CleanSaved(a)'
      <3>1. ~w /\ (moves \/ ~dirty[a])
        BY <1>11, <2>6, Zenon DEF DirtyAfter
      <3>2. first_undef_row'[a] = fu
        BY <1>10, <3>1
      <3>3. SUFFICES ASSUME NEW r \in Rows(a), r \in start .. start + rim - 1, r < fu
                     PROVE  file[r] = mem_buffer'[a][r - start]
        BY <1>10, <1>18, <3>2, Zenon DEF CleanSaved, Rows
      <3>4. CASE moves
        BY <1>20, <3>3, <3>4
      <3>5. CASE ~moves
        <4>1. CleanSaved(a)
          BY <1>1, <1>4, <1>8, <2>6, <3>1, <3>5, Zenon DEF Window
        <4>2. file = temp_file[a] /\ rows = mem_buffer[a] /\ start = cur
          BY <1>5, <1>9, <3>5
        <4>3. file[r] = rows[r - start]
          BY <3>3, <4>1, <4>2, Zenon DEF CleanSaved, InWindow
        <4>4. ~(undef <= r)
          BY <1>2, <1>15, <3>3 DEF Greatest
        <4>5. QED
          BY <1>17, <3>3, <4>3, <4>4, Zenon
      <3>6. QED
        BY <3>4, <3>5
    <2>7. realized'[a]
      BY <1>4, <1>8
    <2>8. QED
      BY <1>16, <2>1, <2>2, <2>3, <2>4, <2>5, <2>6, <2>7, Zenon DEF Window
  <1>23. \A b \in Arrays \ {a} : Window(b)'
    BY <1>8, <1>12, UntouchedKept DEF IInv
  <1>24. IInv'
    BY <1>14, <1>22, <1>23 DEF IInv
  <1>25. QED
    BY <1>4, <1>10, <1>12, <1>20, <1>21, <1>24

LEMMA AccessStep ==
  ASSUME IInv, status = "open", NEW a \in Arrays,
         NEW lo \in 0 .. RowsInArray[a], NEW hi \in 0 .. RowsInArray[a],
         NEW w \in BOOLEAN, lo < hi, Access(a, lo, hi, w) \/ AccessFails(a, lo, hi, w)
  PROVE  IInv'
  BY AccessKeeps, FailureKeeps

LEMMA NextKeeps == IInv /\ [Next]_vars => IInv'
  <1> SUFFICES ASSUME IInv, [Next]_vars PROVE IInv'
    OBVIOUS
  <1>1. ASSUME NEW p \in PoolIds, AllocObject(p) PROVE IInv'
    <2>1. /\ UNCHANGED <<max_memory_to_use, realized, window, b_s_open, stored, held>>
          /\ status = "open"
      BY <1>1, Zenon DEF AllocObject
    <2>2. status' \in {"open", "error"}
      BY <1>1 DEF AllocObject, Commit
    <2>3. QED
      BY <2>1, <2>2, WindowsAlone
  <1>2. ASSUME NEW a \in Arrays, RequestVirtSArray(a) \/ RequestVirtBArray(a) PROVE IInv'
    <2>1. /\ UNCHANGED <<max_memory_to_use, realized, window, b_s_open, stored, held>>
          /\ status = "open"
      BY <1>2, Zenon DEF RequestVirtSArray, RequestVirtBArray
    <2>2. status' \in {"open", "error"}
      BY <1>2 DEF RequestVirtSArray, RequestVirtBArray, Commit
    <2>3. QED
      BY <2>1, <2>2, WindowsAlone
  <1>3. ASSUME NEW a \in Arrays, AccessVirtSArray(a) \/ AccessVirtBArray(a) PROVE IInv'
    <2>1. status = "open" /\ \E lo, hi \in 0 .. RowsInArray[a], w \in BOOLEAN :
            lo < hi /\ (Access(a, lo, hi, w) \/ AccessFails(a, lo, hi, w))
      BY <1>3, Zenon DEF AccessVirtSArray, AccessVirtBArray
    <2>2. QED
      BY <2>1, AccessStep
  <1>4. ASSUME NEW a \in Arrays, NEW r \in Rows(a), NEW v \in NewValues, Modify(a, r, v)
        PROVE  IInv'
    BY <1>4, ModifyKeeps
  <1>5. CASE Abort \/ Destroy
    <2>1. CloseArrays /\ status' \in {"open", "gone"}
      BY <1>5 DEF Abort, Destroy
    <2>2. QED
      BY <2>1, ReleaseKeeps
  <1>6. CASE UNCHANGED vars
    <2>1. /\ UNCHANGED <<max_memory_to_use, realized, window, b_s_open, stored, held>>
          /\ status' = status
      BY <1>6, Zenon DEF vars
    <2>2. status \in {"open", "error", "gone"}
      BY DEF IInv, Shape
    <2>3. QED
      BY <2>1, <2>2, WindowsAlone
  <1>7. QED
    BY <1>1, <1>2, RealizeKeeps, <1>3, <1>4, <1>5, <1>6, Zenon DEF Next
-----------------------------------------------------------------------------
(* The contents, as the coders see them, step as StoredArray says.          *)
LEMMA WindowsAloneContents ==
  ASSUME UNCHANGED <<window, stored>>
  PROVE  Contents' = Contents
  <1>1. ASSUME NEW a \in Arrays, NEW r \in Rows(a) PROVE Stored(a, r)' = Stored(a, r)
    BY Zenon DEF window, stored, Stored, InWindow
  <1>2. QED
    BY <1>1 DEF Contents

LEMMA RealizeContents ==
  ASSUME IInv, Realize
  PROVE  Contents' = Contents
  <1>1. PICK good, opened : \E heights \in Nat \ {0} :
           /\ GetBuffers(good, opened, heights)
           /\ \A a \in good : ~realized[a]
           /\ status' = "open" => opened = {}
           /\ status' \in {"open", "error"}
    BY RealizeEffect, Zenon
  <1>2. PICK heights \in Nat \ {0} :
           GetBuffers(good, opened, heights) /\ \A a \in good : ~realized[a]
    BY <1>1
  <1>3. mem_buffer' = mem_buffer /\ temp_file' = temp_file
    BY Zenon DEF Realize, stored
  <1>4. ASSUME NEW a \in Arrays, NEW r \in Rows(a) PROVE Stored(a, r)' = Stored(a, r)
    <2>1. CASE a \in good
      <3>1. first_undef_row[a] = 0
        BY <1>2, <2>1 DEF IInv, Window, Fresh
      <3>2. first_undef_row'[a] = 0
        BY <1>2, <2>1, Zenon DEF GetBuffers
      <3>3. r >= 0
        BY ArraysAssumption DEF Rows
      <3>4. QED
        BY <3>1, <3>2, <3>3, Zenon DEF Stored
    <2>2. CASE a \notin good
      <3>1. /\ rows_in_mem'[a] = rows_in_mem[a] /\ cur_start_row'[a] = cur_start_row[a]
            /\ first_undef_row'[a] = first_undef_row[a]
        BY <1>2, <2>2, Zenon DEF GetBuffers
      <3>2. QED
        BY <1>3, <3>1, Zenon DEF Stored, InWindow
    <2>3. QED
      BY <2>1, <2>2
  <1>5. QED
    BY <1>4 DEF Contents

(* What is stored of a defined row is a value, never the undefined row.     *)
LEMMA DefinedIsStored ==
  ASSUME IInv, NEW a \in Arrays, NEW r \in Rows(a), r < first_undef_row[a]
  PROVE  Stored(a, r) \in Values /\ Stored(a, r) # Undefined
  <1>1. /\ first_undef_row[a] \in Nat /\ cur_start_row[a] \in Nat /\ RowsInArray[a] \in Nat
        /\ rows_in_mem[a] \in Nat \ {0} /\ r \in Int /\ r < RowsInArray[a] /\ 0 <= r
    BY ArraysAssumption DEF IInv, Shape, Rows
  <1>2. realized[a] \/ first_undef_row[a] = 0
    BY DEF IInv, Window, Fresh
  <1>3. rows_in_mem[a] <= RowsInArray[a]
    BY <1>1, <1>2 DEF IInv, Window, Placed
  <1>4. InWindow(a, r) => r - cur_start_row[a] \in Rows(a)
    BY <1>1, <1>3 DEF InWindow, Rows
  <1>5. mem_buffer[a] \in [Rows(a) -> Values] /\ temp_file[a] \in [Rows(a) -> Values]
    BY DEF IInv, Window
  <1>6. Stored(a, r) \in Values
    BY <1>1, <1>4, <1>5 DEF Stored
  <1>7. QED
    BY <1>6, ArraysAssumption

LEMMA StripsAlone == ASSUME held' = held PROVE Strips' = Strips
  BY DEF Strips

LEMMA StripsChange ==
  ASSUME NEW a \in Arrays, NEW s, Strips'[a] = s, \A b \in Arrays \ {a} : held'[b] = held[b]
  PROVE  Strips' = [Strips EXCEPT ![a] = s]
  <1>1. \A b \in Arrays \ {a} : Strips'[b] = Strips[b]
    BY DEF Strips
  <1>2. DOMAIN Strips = Arrays /\ DOMAIN Strips' = Arrays
    BY DEF Strips
  <1>3. Strips = [b \in Arrays |-> Strips[b]] /\ Strips' = [b \in Arrays |-> Strips'[b]]
    BY DEF Strips
  <1>4. QED
    BY <1>1, <1>2, <1>3, Zenon

(* An access gets a strip of the array as it is, with new rows for a writer.*)
LEMMA AccessContents ==
  ASSUME IInv, status = "open", NEW a \in Arrays,
         NEW lo \in 0 .. RowsInArray[a], NEW hi \in 0 .. RowsInArray[a],
         NEW w \in BOOLEAN, lo < hi, Access(a, lo, hi, w)
  PROVE  StoredArrays!Get(a, lo, hi, w)
  <1> DEFINE fu == first_undef_row[a]
             claimed == IF w THEN (lo .. hi - 1) \ StoredArrays!Defined(a) ELSE {}
  <1>1. /\ \A b \in Arrays \ {a} : \A r \in Rows(b) : Stored(b, r)' = Stored(b, r)
        /\ \A r \in Rows(a) : r < fu => Stored(a, r)' = Stored(a, r)
        /\ first_undef_row'[a] = IF w THEN Greatest(fu, hi) ELSE fu
        /\ w => lo <= fu
        /\ \A r \in Rows(a) : r \in fu .. hi - 1 /\ w =>
             Stored(a, r)' \in IF PreZero[a] THEN {0} ELSE Values
    BY AccessKeeps, UntouchedStored
  <1>2. /\ fu \in Nat /\ fu <= RowsInArray[a] /\ RowsInArray[a] \in Nat
        /\ lo \in Nat /\ hi \in Nat /\ hi <= RowsInArray[a]
    BY ArraysAssumption DEF IInv, Shape, Window
  <1>3. \A r \in Rows(a) : r \in Int /\ 0 <= r /\ r < RowsInArray[a]
    BY <1>2 DEF Rows
  <1>4. \A r \in Rows(a) : Contents[a][r] = Stored(a, r) /\ Contents'[a][r] = Stored(a, r)'
    BY DEF Contents
  <1>5. StoredArrays!Defined(a) = 0 .. fu - 1
    <2>1. \A r \in Rows(a) : Stored(a, r) = Undefined <=> r >= fu
      BY <1>2, <1>3, DefinedIsStored DEF Stored
    <2>2. StoredArrays!Defined(a) = {r \in Rows(a) : Stored(a, r) # Undefined}
      BY <1>4 DEF StoredArrays!Defined, StoredArrays!RowsOf, Rows
    <2>3. QED
      BY <1>2, <2>1, <2>2 DEF Rows
  <1>6. IF w THEN 0 .. lo - 1 \subseteq StoredArrays!Defined(a)
             ELSE PreZero[a] \/ lo .. hi - 1 \subseteq StoredArrays!Defined(a)
    <2>1. ~w => PreZero[a] \/ ~(fu < hi)
      <3>1. ~BadAccess(a, lo, hi, w)
        BY AccessEffect
      <3>2. QED
        BY <3>1, Zenon DEF BadAccess
    <2>2. CASE w
      BY <1>1, <1>2, <1>5, <2>2
    <2>3. CASE ~w
      BY <1>2, <1>5, <2>1, <2>3
    <2>4. QED
      BY <2>2, <2>3
  <1>7. claimed = IF w THEN fu .. hi - 1 ELSE {}
    <2>1. ASSUME w PROVE (lo .. hi - 1) \ (0 .. fu - 1) = fu .. hi - 1
      BY <1>1, <1>2, <2>1
    <2>2. QED
      BY <1>5, <2>1, Zenon
  <1>8. claimed \subseteq Rows(a)
    BY <1>2, <1>7 DEF Rows
  <1>9. \A r \in claimed : Contents'[a][r] \in IF PreZero[a] THEN {0} ELSE Values
    BY <1>1, <1>4, <1>7, <1>8
  <1>10. \A r \in Rows(a) : r \notin claimed => Contents'[a][r] = Contents[a][r]
    <2>1. SUFFICES ASSUME NEW r \in Rows(a), r \notin claimed
                   PROVE  Stored(a, r)' = Stored(a, r)
      BY <1>4
    <2>2. CASE r < fu
      BY <1>1, <2>2
    <2>3. CASE ~(r < fu)
      <3>1. r >= fu /\ (w => r >= hi)
        <4>1. w => r \notin fu .. hi - 1
          BY <1>7, <2>1, Zenon
        <4>2. QED
          BY <1>2, <1>3, <2>1, <2>3, <4>1
      <3>2. r >= fu /\ r >= first_undef_row'[a]
        BY <1>1, <1>2, <1>3, <3>1 DEF Greatest
      <3>3. QED
        BY <3>2, Zenon DEF Stored
    <2>4. QED
      BY <2>2, <2>3
  <1>11. Contents' = [Contents EXCEPT ![a] =
           [r \in Rows(a) |-> IF r \in claimed THEN Contents'[a][r] ELSE Contents[a][r]]]
    <2>1. \A b \in Arrays \ {a} : Contents'[b] = Contents[b]
      BY <1>1 DEF Contents
    <2>2. Contents'[a] = [r \in Rows(a) |-> Contents'[a][r]]
      BY DEF Contents
    <2>3. Contents' = [b \in Arrays |-> Contents'[b]] /\ Contents = [b \in Arrays |-> Contents[b]]
      BY DEF Contents
    <2> HIDE DEF claimed
    <2>4. Contents'[a] = [r \in Rows(a) |-> IF r \in claimed THEN Contents'[a][r]
                                                              ELSE Contents[a][r]]
      BY <1>10, <2>2, Zenon
    <2>5. QED
      BY <2>1, <2>3, <2>4, Zenon
  <1>12. Strips' = [Strips EXCEPT ![a] = StoredArrays!Strip(lo, hi, w)]
    <2>1. /\ held'[a] = [lo |-> lo, hi |-> hi, writable |-> w, at |-> lo - After(a, lo, hi)]
          /\ \A b \in Arrays \ {a} : held'[b] = held[b]
      BY AccessEffect DEF IInv, Shape
    <2>2. Strips'[a] = StoredArrays!Strip(lo, hi, w)
      BY <2>1 DEF Strips, StoredArrays!Strip
    <2>3. QED
      BY <2>1, <2>2, StripsChange
  <1>13. QED
    BY <1>6, <1>9, <1>11, <1>12, Zenon
    DEF StoredArrays!Get, StoredArrays!RowsOf, Rows

LEMMA FailureContents ==
  ASSUME IInv, NEW a \in Arrays, NEW lo, NEW hi, NEW w, AccessFails(a, lo, hi, w)
  PROVE  Contents' = Contents /\ StoredArrays!Refuse(a)
  <1>1. UNCHANGED <<window, stored>> /\ held' = [held EXCEPT ![a] = NoStrip]
    BY Zenon DEF AccessFails
  <1>2. Contents' = Contents
    BY <1>1, WindowsAloneContents
  <1>3. held'[a] = NoStrip /\ \A b \in Arrays \ {a} : held'[b] = held[b]
    BY <1>1 DEF IInv, Shape
  <1>4. Strips'[a] = StoredArrays!Nothing
    <2>1. /\ held'[a].lo = 0 /\ held'[a].hi = 0
          /\ held'[a].writable = FALSE
      <3>1. NoStrip.lo = 0 /\ NoStrip.hi = 0 /\ NoStrip.writable = FALSE
        BY DEF NoStrip
      <3>2. QED
        BY <1>3, <3>1, Zenon
    <2>2. Strips'[a] = [lo |-> held'[a].lo, hi |-> held'[a].hi, writable |-> held'[a].writable]
      BY Zenon DEF Strips
    <2>3. QED
      BY <2>1, <2>2, Zenon DEF StoredArrays!Nothing
  <1>5. Strips' = [Strips EXCEPT ![a] = StoredArrays!Nothing]
    BY <1>3, <1>4, StripsChange
  <1>6. QED
    BY <1>2, <1>5, Zenon DEF StoredArrays!Refuse

LEMMA ModifyContents ==
  ASSUME IInv, NEW a \in Arrays, NEW r \in Rows(a), NEW v \in NewValues, Modify(a, r, v)
  PROVE  StoredArrays!StoredNext
  <1>1. /\ held' = held /\ held[a].writable /\ r \in held[a].lo .. held[a].hi - 1
    BY Zenon DEF Modify
  <1>2. /\ Strips' = Strips /\ Strips[a].writable
        /\ r \in Strips[a].lo .. Strips[a].hi - 1
    BY <1>1 DEF Strips
  <1>3. r \in StoredArrays!RowsOf(a)
    BY DEF Rows, StoredArrays!RowsOf
  <1>4. StoredArrays!Put(a, r, v)
    BY <1>2, <1>3, ModifyKeeps, Zenon DEF StoredArrays!Put, StoredArrays!Defined
  <1>5. QED
    BY <1>3, <1>4, Zenon DEF StoredArrays!StoredNext

LEMMA ReleaseContents ==
  ASSUME CloseArrays
  PROVE  StoredArrays!StoredNext
  <1>1. ASSUME NEW a \in Arrays, NEW r \in Rows(a) PROVE Stored(a, r)' = Undefined
    <2>1. first_undef_row'[a] = 0
      BY DEF CloseArrays, NoWindows
    <2>2. r >= 0
      BY ArraysAssumption DEF Rows
    <2>3. QED
      BY <2>1, <2>2, Zenon DEF Stored
  <1>2. Contents' = [a \in Arrays |-> [r \in Rows(a) |-> Undefined]]
    BY <1>1 DEF Contents
  <1>3. Strips' = [a \in Arrays |-> StoredArrays!Nothing]
    BY DEF CloseArrays, NoWindows, Strips, StoredArrays!Nothing, NoStrip
  <1>4. QED
    BY <1>2, <1>3, Zenon
    DEF StoredArrays!StoredNext, StoredArrays!Release, StoredArrays!RowsOf, Rows

LEMMA InitContents == ASSUME Init PROVE StoredArrays!StoredInit
  <1>1. ASSUME NEW a \in Arrays, NEW r \in Rows(a) PROVE Stored(a, r) = Undefined
    <2>1. first_undef_row[a] = 0 /\ r >= 0
      BY ArraysAssumption DEF Init, Rows
    <2>2. QED
      BY <2>1, Zenon DEF Stored
  <1>2. Contents = [a \in Arrays |-> [r \in Rows(a) |-> Undefined]]
    BY <1>1 DEF Contents
  <1>3. Strips = [a \in Arrays |-> StoredArrays!Nothing]
    BY DEF Init, Strips, StoredArrays!Nothing, NoStrip
  <1>4. QED
    BY <1>2, <1>3, Zenon DEF StoredArrays!StoredInit, StoredArrays!RowsOf, Rows

(* The steps that are none of the coders' on their arrays.                  *)
LEMMA OthersAlone ==
  ASSUME IInv,
         \/ \E p \in PoolIds : AllocObject(p)
         \/ \E a \in Arrays : RequestVirtSArray(a) \/ RequestVirtBArray(a)
         \/ Realize \/ UNCHANGED vars
  PROVE  Contents' = Contents /\ Strips' = Strips
  <1>1. ASSUME NEW p \in PoolIds, AllocObject(p) PROVE UNCHANGED <<window, stored, held>>
    BY <1>1, Zenon DEF AllocObject
  <1>2. ASSUME NEW a \in Arrays, RequestVirtSArray(a) \/ RequestVirtBArray(a)
        PROVE  UNCHANGED <<window, stored, held>>
    BY <1>2, Zenon DEF RequestVirtSArray, RequestVirtBArray
  <1>3. CASE Realize
    BY <1>3, RealizeContents, StripsAlone, Zenon DEF Realize
  <1>4. CASE UNCHANGED vars
    <2>1. UNCHANGED <<window, stored, held>>
      BY <1>4, Zenon DEF vars
    <2>2. QED
      BY <2>1, WindowsAloneContents, StripsAlone, Zenon
  <1>5. QED
    BY <1>1, <1>2, <1>3, <1>4, WindowsAloneContents, StripsAlone, Zenon

LEMMA NextImplements ==
  IInv /\ [Next]_vars => [StoredArrays!StoredNext]_<<Contents, Strips>>
  <1> SUFFICES ASSUME IInv, [Next]_vars
               PROVE  StoredArrays!StoredNext \/ (Contents' = Contents /\ Strips' = Strips)
    OBVIOUS
  <1>1. ASSUME NEW a \in Arrays, AccessVirtSArray(a) \/ AccessVirtBArray(a)
        PROVE  StoredArrays!StoredNext
    <2>1. status = "open" /\ \E lo, hi \in 0 .. RowsInArray[a], w \in BOOLEAN :
            lo < hi /\ (Access(a, lo, hi, w) \/ AccessFails(a, lo, hi, w))
      BY <1>1, Zenon DEF AccessVirtSArray, AccessVirtBArray
    <2>2. PICK lo \in 0 .. RowsInArray[a], hi \in 0 .. RowsInArray[a], w \in BOOLEAN :
            lo < hi /\ (Access(a, lo, hi, w) \/ AccessFails(a, lo, hi, w))
      BY <2>1
    <2>3. CASE Access(a, lo, hi, w)
      BY <2>1, <2>2, <2>3, AccessContents, Zenon DEF StoredArrays!StoredNext
    <2>4. CASE AccessFails(a, lo, hi, w)
      BY <2>4, FailureContents, Zenon DEF StoredArrays!StoredNext
    <2>5. QED
      BY <2>2, <2>3, <2>4
  <1>2. ASSUME NEW a \in Arrays, NEW r \in Rows(a), NEW v \in NewValues, Modify(a, r, v)
        PROVE  StoredArrays!StoredNext
    BY <1>2, ModifyContents
  <1>3. CASE Abort \/ Destroy
    BY <1>3, ReleaseContents, Zenon DEF Abort, Destroy
  <1>4. QED
    BY OthersAlone, <1>1, <1>2, <1>3, Zenon DEF Next
-----------------------------------------------------------------------------
(* An access of any array leaves the defined rows of all arrays alone.      *)
LEMMA AccessKeepsRows ==
  ASSUME IInv, NEW b \in Arrays, AccessVirtSArray(b) \/ AccessVirtBArray(b),
         NEW a \in Arrays, NEW r \in Rows(a), Contents[a][r] # Undefined
  PROVE  Contents'[a][r] = Contents[a][r]
  <1>1. status = "open" /\ \E lo, hi \in 0 .. RowsInArray[b], w \in BOOLEAN :
          lo < hi /\ (Access(b, lo, hi, w) \/ AccessFails(b, lo, hi, w))
    BY Zenon DEF AccessVirtSArray, AccessVirtBArray
  <1>2. PICK lo \in 0 .. RowsInArray[b], hi \in 0 .. RowsInArray[b], w \in BOOLEAN :
          lo < hi /\ (Access(b, lo, hi, w) \/ AccessFails(b, lo, hi, w))
    BY <1>1
  <1>3. Contents[a][r] = Stored(a, r) /\ Contents'[a][r] = Stored(a, r)'
    BY DEF Contents
  <1>4. CASE AccessFails(b, lo, hi, w)
    BY <1>4, FailureContents
  <1>5. CASE Access(b, lo, hi, w) /\ b # a
    <2>1. Untouched(a)
      BY <1>1, <1>2, <1>5, AccessKeeps
    <2>2. QED
      BY <1>3, <2>1, UntouchedStored
  <1>6. CASE Access(b, lo, hi, w) /\ b = a
    <2>1. r < first_undef_row[a]
      <3>1. ~(r >= first_undef_row[a])
        BY <1>3, Zenon DEF Stored
      <3>2. r \in Int /\ first_undef_row[a] \in Nat
        BY ArraysAssumption DEF Rows, IInv, Shape
      <3>3. QED
        BY <3>1, <3>2
    <2>2. QED
      BY <1>1, <1>2, <1>3, <1>6, <2>1, AccessKeeps
  <1>7. QED
    BY <1>2, <1>4, <1>5, <1>6

LEMMA NextKeepsRows == IInv /\ [Next]_vars => KeepsRows
  <1> SUFFICES ASSUME IInv, [Next]_vars, NEW a \in Arrays, NEW r \in Rows(a)
               PROVE  /\ \A v \in NewValues : Modify(a, r, v) => Contents'[a][r] = v
                      /\ Contents[a][r] \notin {Undefined, Contents'[a][r]} =>
                           (\E v \in NewValues : Modify(a, r, v)) \/ Abort \/ Destroy
    <2>1. \A b \in Arrays : \A q \in Rows(b) :
            Contents[b][q] = Stored(b, q) /\ Contents'[b][q] = Stored(b, q)'
      BY DEF Contents
    <2>2. QED
      BY <2>1, Zenon DEF KeepsRows
  <1>1. \A b \in Arrays : DOMAIN Contents[b] = Rows(b)
    BY DEF Contents
  <1>2. DOMAIN Contents = Arrays
    BY DEF Contents
  <1>3. ASSUME NEW v \in NewValues, Modify(a, r, v) PROVE Contents'[a][r] = v
    <2>1. Contents' = [Contents EXCEPT ![a][r] = v]
      BY <1>3, ModifyKeeps
    <2>2. QED
      BY <1>1, <1>2, <2>1, Zenon
  <1>4. ASSUME Contents[a][r] \notin {Undefined, Contents'[a][r]}, ~Abort, ~Destroy
        PROVE  \E v \in NewValues : Modify(a, r, v)
    <2>1. ~(Contents' = Contents)
      BY <1>4
    <2>2. ~\E b \in Arrays : AccessVirtSArray(b) \/ AccessVirtBArray(b)
      BY <1>4, AccessKeepsRows
    <2>3. PICK b \in Arrays : \E q \in Rows(b), v \in NewValues : Modify(b, q, v)
      BY <1>4, <2>1, <2>2, OthersAlone, Zenon DEF Next
    <2>4. PICK q \in Rows(b), v \in NewValues : Modify(b, q, v)
      BY <2>3
    <2>5. Contents' = [Contents EXCEPT ![b][q] = v]
      BY <2>4, ModifyKeeps
    <2>6. b = a /\ q = r
      BY <1>1, <1>2, <1>4, <2>5
    <2>7. QED
      BY <2>4, <2>6
  <1>5. QED
    BY <1>3, <1>4
-----------------------------------------------------------------------------
(* f adds up w, term after term.                                            *)
Adds(f, n, w) == f \in [0 .. n -> Int] /\ f[0] = 0 /\ \A k \in 1 .. n : f[k] = f[k - 1] + w[k]

LEMMA AddsExists ==
  ASSUME NEW n \in Nat, NEW w \in [1 .. n -> Int]
  PROVE  \E f : Adds(f, n, w)
  <1> DEFINE D == (1 .. n) \X Int
             G == [q \in D |-> q[2] + w[q[1]]]
  <1>1. ASSUME NEW k \in 1 .. n, NEW x \in Int
        PROVE  G[<<k, x>>] = x + w[k] /\ G[<<k, x>>] \in Int
    <2>1. w[k] \in Int
      OBVIOUS
    <2>2. QED
      BY <2>1
  <1>2. G \in [D -> Int]
    <2>1. ASSUME NEW q \in D PROVE G[q] \in Int
      <3>1. q = <<q[1], q[2]>> /\ q[1] \in 1 .. n /\ q[2] \in Int
        OBVIOUS
      <3> HIDE DEF G, D
      <3>2. QED
        BY <1>1, <3>1, Zenon
    <2>2. G = [q \in D |-> G[q]]
      OBVIOUS
    <2> HIDE DEF G, D
    <2>3. QED
      BY <2>1, <2>2
  <1> HIDE DEF G
  <1>3. PICK f \in [0 .. n -> Int] : Iterated(f, n, 0, G)
    <2>1. 0 \in Int
      OBVIOUS
    <2>2. QED
      BY <1>2, <2>1, IteratedExists, Zenon
  <1>4. ASSUME NEW k \in 1 .. n PROVE f[k] = f[k - 1] + w[k]
    <2>1. k - 1 \in 0 .. n
      OBVIOUS
    <2>2. QED
      BY <1>1, <1>3, <2>1 DEF Iterated
  <1>5. QED
    BY <1>3, <1>4 DEF Iterated, Adds

LEMMA AddsAgree ==
  ASSUME NEW n \in Nat, NEW m \in 0 .. n, NEW e, NEW f, NEW v, NEW w, Adds(e, m, v), Adds(f, n, w),
         \A k \in 1 .. m : v[k] = w[k]
  PROVE  \A k \in 0 .. m : e[k] = f[k]
  <1> DEFINE S == {k \in 0 .. m : e[k] = f[k]}
  <1>1. 0 \in S
    BY DEF Adds
  <1>2. ASSUME NEW k \in 0 .. m - 1, k \in S PROVE k + 1 \in S
    <2>1. k + 1 \in 1 .. m /\ k + 1 \in 1 .. n /\ (k + 1) - 1 = k /\ k + 1 \in 0 .. m
      OBVIOUS
    <2>2. e[k + 1] = e[k] + v[k + 1] /\ f[k + 1] = f[k] + w[k + 1]
      BY <2>1 DEF Adds
    <2>3. QED
      BY <1>2, <2>1, <2>2
  <1>3. \A k \in 0 .. m : k \in S
    <2> HIDE DEF S
    <2>1. QED
      BY <1>1, <1>2, IntervalInduction
  <1>4. QED
    BY <1>3

(* A term more at the beginning.                                            *)
LEMMA AddsShifted ==
  ASSUME NEW n \in Nat, NEW e, NEW f, NEW v \in [1 .. n -> Int], NEW w, NEW x \in Int, Adds(e, n, v),
         Adds(f, n + 1, w), w[1] = x, \A k \in 1 .. n : w[k + 1] = v[k]
  PROVE  f[n + 1] = x + e[n]
  <1> DEFINE S == {k \in 0 .. n : f[k + 1] = x + e[k]}
  <1>1. 0 \in S
    <2>1. 1 \in 1 .. n + 1 /\ 1 - 1 = 0 /\ 0 + 1 = 1 /\ 0 \in 0 .. n
      OBVIOUS
    <2>2. f[1] = f[0] + w[1] /\ f[0] = 0 /\ e[0] = 0
      BY <2>1 DEF Adds
    <2>3. QED
      BY <2>1, <2>2
  <1>2. ASSUME NEW k \in 0 .. n - 1, k \in S PROVE k + 1 \in S
    <2>1. /\ k + 1 \in 1 .. n /\ k + 2 \in 1 .. n + 1 /\ (k + 1) - 1 = k /\ k + 1 \in 0 .. n
          /\ (k + 2) - 1 = k + 1 /\ (k + 1) + 1 = k + 2 /\ k + 1 \in 0 .. n + 1 /\ k \in 0 .. n
      OBVIOUS
    <2>2. e[k + 1] = e[k] + v[k + 1] /\ f[k + 2] = f[k + 1] + w[k + 2] /\ w[k + 2] = v[k + 1]
      BY <2>1 DEF Adds
    <2>3. e[k] \in Int /\ e[k + 1] \in Int
      BY <2>1 DEF Adds
    <2>4. v[k + 1] \in Int
      BY <2>1
    <2>5. f[k + 1] = x + e[k]
      BY <1>2
    <2>6. QED
      BY <2>1, <2>2, <2>3, <2>4, <2>5
  <1>3. \A k \in 0 .. n : k \in S
    <2> HIDE DEF S
    <2>1. QED
      BY <1>1, <1>2, IntervalInduction
  <1>4. QED
    BY <1>3

-----------------------------------------------------------------------------
(* The pools: what a header counts is what the system gave.                 *)
SmallPool == {h \in [used : Int, left : Int, got : Int] : h.got = h.used + h.left + Header}
LargePool == {h \in [used : Int, got : Int] : h.got = h.used + Header}
Gots(s) == [k \in 1 .. Len(s) |-> s[k].got]

(* A sum as the code makes it adds up.                                      *)
LEMMA LoopAdds ==
  ASSUME NEW n \in Nat, NEW w \in [1 .. n -> Int], NEW c,
         c = [k \in 0 .. n |-> IF k = 0 THEN 0 ELSE c[k - 1] + w[k]]
  PROVE  Adds(c, n, w)
  <1>1. PICK f : Adds(f, n, w)
    BY AddsExists
  <1>2. c[0] = 0 /\ \A k \in 1 .. n : c[k] = c[k - 1] + w[k]
    OBVIOUS
  <1> DEFINE T == {k \in 0 .. n : c[k] = f[k]}
  <1>3. 0 \in T
    BY <1>1, <1>2 DEF Adds
  <1>4. ASSUME NEW k \in 0 .. n - 1, k \in T PROVE k + 1 \in T
    <2>1. k + 1 \in 1 .. n /\ (k + 1) - 1 = k /\ k + 1 \in 0 .. n
      OBVIOUS
    <2>2. c[k + 1] = c[k] + w[k + 1] /\ f[k + 1] = f[k] + w[k + 1]
      BY <1>1, <1>2, <2>1 DEF Adds
    <2>3. QED
      BY <1>4, <2>1, <2>2
  <1>5. \A k \in 0 .. n : k \in T
    <2> HIDE DEF T
    <2>1. QED
      BY <1>3, <1>4, IntervalInduction
  <1>6. \A k \in 0 .. n : c[k] \in Int
    BY <1>1, <1>5 DEF Adds
  <1>7. c \in [0 .. n -> Int]
    BY <1>6
  <1>8. QED
    BY <1>2, <1>7 DEF Adds

LEMMA GotsType ==
  ASSUME NEW S, NEW s \in Seq(S), \A h \in S : h.got \in Int
  PROVE  /\ Len(s) \in Nat /\ Gots(s) \in [1 .. Len(s) -> Int]
         /\ \A k \in 1 .. Len(s) : Gots(s)[k] = s[k].got /\ s[k] \in S
  BY DEF Gots

(* The three sums of the code over a list of pools are the same.            *)
LEMMA SumGot ==
  ASSUME NEW S, NEW s \in Seq(S), \A h \in S : h.got \in Int
  PROVE  \E f : Adds(f, Len(s), Gots(s)) /\ SumOver(s, Got) = f[Len(s)]
  <1> DEFINE P(h) == h = [k \in 0 .. Len(s) |-> IF k = 0 THEN 0 ELSE h[k - 1] + Got(s[k])]
             c == CHOOSE h : P(h)
  <1>1. Len(s) \in Nat /\ Gots(s) \in [1 .. Len(s) -> Int]
        /\ \A k \in 1 .. Len(s) : Gots(s)[k] = Got(s[k])
    BY GotsType DEF Got
  <1>2. PICK f : Adds(f, Len(s), Gots(s))
    BY <1>1, AddsExists
  <1>3. P(f)
    BY <1>1, <1>2 DEF Adds
  <1>4. P(c)
    BY <1>3, Zenon
  <1>5. SumOver(s, Got) = c[Len(s)]
    BY Zenon DEF SumOver
  <1> HIDE DEF c
  <1>6. c = [k \in 0 .. Len(s) |-> IF k = 0 THEN 0 ELSE c[k - 1] + Gots(s)[k]]
    BY <1>1, <1>4
  <1>7. Adds(c, Len(s), Gots(s))
    BY <1>1, <1>6, LoopAdds
  <1>8. QED
    BY <1>5, <1>7

LEMMA SumLargeFreed ==
  ASSUME NEW s \in Seq(LargePool)
  PROVE  SumOver(s, LargeFreed) = SumOver(s, Got)
  <1> DEFINE P(h) == h = [k \in 0 .. Len(s) |-> IF k = 0 THEN 0 ELSE h[k - 1] + LargeFreed(s[k])]
             c == CHOOSE h : P(h)
  <1>a. \A h \in LargePool : h.got \in Int /\ h.got = LargeFreed(h)
    BY DEF LargePool, LargeFreed
  <1>1. Len(s) \in Nat /\ Gots(s) \in [1 .. Len(s) -> Int]
        /\ \A k \in 1 .. Len(s) : Gots(s)[k] = LargeFreed(s[k])
    BY <1>a, GotsType
  <1>2. PICK f : Adds(f, Len(s), Gots(s)) /\ SumOver(s, Got) = f[Len(s)]
    BY <1>a, SumGot
  <1>3. P(f)
    BY <1>1, <1>2 DEF Adds
  <1>4. P(c)
    BY <1>3, Zenon
  <1>5. SumOver(s, LargeFreed) = c[Len(s)]
    BY Zenon DEF SumOver
  <1> HIDE DEF c
  <1>6. c = [k \in 0 .. Len(s) |-> IF k = 0 THEN 0 ELSE c[k - 1] + Gots(s)[k]]
    BY <1>1, <1>4
  <1>7. Adds(c, Len(s), Gots(s))
    BY <1>1, <1>6, LoopAdds
  <1>8. c[Len(s)] = f[Len(s)]
    <2>1. Len(s) \in 0 .. Len(s)
      BY <1>1
    <2>2. QED
      BY <1>1, <1>2, <1>7, <2>1, AddsAgree
  <1>9. QED
    BY <1>2, <1>5, <1>8

LEMMA SumSmallFreed ==
  ASSUME NEW s \in Seq(SmallPool)
  PROVE  SumOver(s, SmallFreed) = SumOver(s, Got)
  <1> DEFINE P(h) == h = [k \in 0 .. Len(s) |-> IF k = 0 THEN 0 ELSE h[k - 1] + SmallFreed(s[k])]
             c == CHOOSE h : P(h)
  <1>a. \A h \in SmallPool : h.got \in Int /\ h.got = SmallFreed(h)
    BY DEF SmallPool, SmallFreed
  <1>1. Len(s) \in Nat /\ Gots(s) \in [1 .. Len(s) -> Int]
        /\ \A k \in 1 .. Len(s) : Gots(s)[k] = SmallFreed(s[k])
    BY <1>a, GotsType
  <1>2. PICK f : Adds(f, Len(s), Gots(s)) /\ SumOver(s, Got) = f[Len(s)]
    BY <1>a, SumGot
  <1>3. P(f)
    BY <1>1, <1>2 DEF Adds
  <1>4. P(c)
    BY <1>3, Zenon
  <1>5. SumOver(s, SmallFreed) = c[Len(s)]
    BY Zenon DEF SumOver
  <1> HIDE DEF c
  <1>6. c = [k \in 0 .. Len(s) |-> IF k = 0 THEN 0 ELSE c[k - 1] + Gots(s)[k]]
    BY <1>1, <1>4
  <1>7. Adds(c, Len(s), Gots(s))
    BY <1>1, <1>6, LoopAdds
  <1>8. c[Len(s)] = f[Len(s)]
    <2>1. Len(s) \in 0 .. Len(s)
      BY <1>1
    <2>2. QED
      BY <1>1, <1>2, <1>7, <2>1, AddsAgree
  <1>9. QED
    BY <1>2, <1>5, <1>8

(* The sum of a list that grows at its end, at its beginning, or keeps what *)
(* its pools got.                                                           *)
LEMMA SumAppend ==
  ASSUME NEW S, NEW s \in Seq(S), \A h \in S : h.got \in Int, NEW x \in S
  PROVE  /\ SumOver(s, Got) \in Int
         /\ SumOver(Append(s, x), Got) = SumOver(s, Got) + x.got
         /\ SumOver(<<x>> \o s, Got) = SumOver(s, Got) + x.got
  <1>1. /\ Append(s, x) \in Seq(S) /\ Len(Append(s, x)) = Len(s) + 1
        /\ Append(s, x)[Len(s) + 1] = x /\ \A k \in 1 .. Len(s) : Append(s, x)[k] = s[k]
    OBVIOUS
  <1>2. /\ <<x>> \o s \in Seq(S) /\ Len(<<x>> \o s) = Len(s) + 1
        /\ (<<x>> \o s)[1] = x /\ \A k \in 1 .. Len(s) : (<<x>> \o s)[k + 1] = s[k]
    OBVIOUS
  <1>3. Len(s) \in Nat /\ Len(s) \in 0 .. Len(s) + 1 /\ Len(s) \in 0 .. Len(s)
        /\ Len(s) + 1 \in 1 .. Len(s) + 1 /\ (Len(s) + 1) - 1 = Len(s)
        /\ \A k \in 1 .. Len(s) : k \in 1 .. Len(s) + 1 /\ k + 1 \in 1 .. Len(s) + 1
        /\ 1 \in 1 .. Len(s) + 1 /\ Len(s) + 1 \in Nat
    OBVIOUS
  <1>4. PICK f : Adds(f, Len(s), Gots(s)) /\ SumOver(s, Got) = f[Len(s)]
    BY SumGot
  <1> DEFINE a == Append(s, x)
             b == <<x>> \o s
  <1> HIDE DEF a, b
  <1>5. PICK e : Adds(e, Len(a), Gots(a)) /\ SumOver(a, Got) = e[Len(a)]
    BY <1>1, SumGot DEF a
  <1>6. PICK g : Adds(g, Len(b), Gots(b)) /\ SumOver(b, Got) = g[Len(b)]
    BY <1>2, SumGot DEF b
  <1>7. Gots(s) \in [1 .. Len(s) -> Int] /\ \A k \in 1 .. Len(s) : Gots(s)[k] = s[k].got
    BY GotsType
  <1>8. \A k \in 1 .. Len(a) : Gots(a)[k] = a[k].got
    BY <1>1, GotsType DEF a
  <1>9. \A k \in 1 .. Len(b) : Gots(b)[k] = b[k].got
    BY <1>2, GotsType DEF b
  <1>10. e[Len(s)] = f[Len(s)]
    <2>1. \A k \in 1 .. Len(s) : Gots(s)[k] = Gots(a)[k]
      BY <1>1, <1>3, <1>7, <1>8 DEF a
    <2>2. Len(a) \in Nat /\ Len(s) \in 0 .. Len(a)
      BY <1>1, <1>3 DEF a
    <2>3. QED
      BY <1>3, <1>4, <1>5, <2>1, <2>2, AddsAgree
  <1>11. e[Len(s) + 1] = e[Len(s)] + x.got
    BY <1>1, <1>3, <1>5, <1>8 DEF Adds, a
  <1>12. g[Len(s) + 1] = x.got + f[Len(s)]
    <2>1. Gots(b)[1] = x.got /\ \A k \in 1 .. Len(s) : Gots(b)[k + 1] = Gots(s)[k]
      <3>1. b[1] = x /\ Len(b) = Len(s) + 1 /\ \A k \in 1 .. Len(s) : b[k + 1] = s[k]
        BY <1>2 DEF b
      <3>2. Gots(b)[1] = x.got
        <4>1. 1 \in 1 .. Len(b)
          BY <1>3, <3>1
        <4>2. QED
          BY <1>9, <3>1, <4>1
      <3>3. \A k \in 1 .. Len(s) : Gots(b)[k + 1] = s[k].got
        <4>1. \A k \in 1 .. Len(s) : k + 1 \in 1 .. Len(b)
          BY <1>3, <3>1
        <4>2. QED
          BY <1>9, <3>1, <4>1
      <3>4. QED
        BY <1>7, <3>2, <3>3, Zenon
    <2>2. Adds(g, Len(s) + 1, Gots(b))
      BY <1>2, <1>6 DEF b
    <2>3. QED
      BY <1>3, <1>4, <1>7, <2>1, <2>2, AddsShifted
  <1>13. f[Len(s)] \in Int
    BY <1>3, <1>4 DEF Adds
  <1>14. QED
    BY <1>1, <1>2, <1>4, <1>5, <1>6, <1>10, <1>11, <1>12, <1>13 DEF a, b

LEMMA SumSame ==
  ASSUME NEW S, NEW s \in Seq(S), \A h \in S : h.got \in Int, NEW t \in Seq(S),
         Len(t) = Len(s), \A k \in 1 .. Len(s) : t[k].got = s[k].got
  PROVE  SumOver(t, Got) = SumOver(s, Got)
  <1>1. PICK f : Adds(f, Len(s), Gots(s)) /\ SumOver(s, Got) = f[Len(s)]
    BY SumGot
  <1>2. PICK e : Adds(e, Len(s), Gots(t)) /\ SumOver(t, Got) = e[Len(s)]
    BY SumGot
  <1>3. Len(s) \in Nat /\ Len(s) \in 0 .. Len(s)
    OBVIOUS
  <1>4. \A k \in 1 .. Len(s) : Gots(s)[k] = Gots(t)[k]
    BY GotsType
  <1>5. QED
    BY <1>1, <1>2, <1>3, <1>4, AddsAgree

LEMMA SumEmpty == SumOver(<<>>, Got) = 0
  <1> DEFINE s == <<>>
  <1>1. s \in Seq(SmallPool) /\ Len(s) = 0
    OBVIOUS
  <1>2. \A h \in SmallPool : h.got \in Int
    BY DEF SmallPool
  <1> HIDE DEF s
  <1>3. PICK f : Adds(f, Len(s), Gots(s)) /\ SumOver(s, Got) = f[Len(s)]
    BY <1>1, <1>2, SumGot
  <1>4. SumOver(s, Got) = 0
    BY <1>1, <1>3 DEF Adds
  <1>5. QED
    BY <1>4 DEF s

LEMMA GotTypes == /\ \A h \in SmallPool : h.got \in Int
                  /\ \A h \in LargePool : h.got \in Int
  BY DEF SmallPool, LargePool

-----------------------------------------------------------------------------
(* A memory whose count is what the system gave for the manager and for the *)
(* pools on the lists.                                                      *)
SmallLists == Seq(SmallPool)
LargeLists == Seq(LargePool)
Memory == [small : [PoolIds -> SmallLists], large : [PoolIds -> LargeLists],
           total : Int, heap : Int, ok : BOOLEAN]
PoolSpace(m, p) == SumOver(m.large[p], Got) + SumOver(m.small[p], Got)
Accounted == {m \in Memory : /\ m.total = m.heap
                             /\ m.heap = MgrSize + PoolSpace(m, PERMANENT) + PoolSpace(m, IMAGE)}

LEMMA PoolNames == PoolIds = {PERMANENT, IMAGE} /\ PERMANENT # IMAGE
  BY DEF PoolIds, PERMANENT, IMAGE

LEMMA SpaceType ==
  ASSUME NEW m \in Memory, NEW p \in PoolIds
  PROVE  /\ m.small[p] \in Seq(SmallPool) /\ m.large[p] \in Seq(LargePool)
         /\ SumOver(m.small[p], Got) \in Int /\ SumOver(m.large[p], Got) \in Int
         /\ PoolSpace(m, p) \in Int
  <1>1. m.small[p] \in Seq(SmallPool) /\ m.large[p] \in Seq(LargePool)
    <2>1. m.small[p] \in SmallLists /\ m.large[p] \in LargeLists
      BY DEF Memory
    <2>2. QED
      BY <2>1 DEF SmallLists, LargeLists
  <1>2. SumOver(m.small[p], Got) \in Int
    <2> DEFINE s == m.small[p]
    <2>1. s \in Seq(SmallPool) /\ Len(s) \in Nat /\ Len(s) \in 0 .. Len(s)
      BY <1>1
    <2> HIDE DEF s
    <2>2. PICK f : Adds(f, Len(s), Gots(s)) /\ SumOver(s, Got) = f[Len(s)]
      BY <2>1, GotTypes, SumGot
    <2>3. QED
      BY <2>1, <2>2 DEF Adds, s
  <1>3. SumOver(m.large[p], Got) \in Int
    <2> DEFINE s == m.large[p]
    <2>1. s \in Seq(LargePool) /\ Len(s) \in Nat /\ Len(s) \in 0 .. Len(s)
      BY <1>1
    <2> HIDE DEF s
    <2>2. PICK f : Adds(f, Len(s), Gots(s)) /\ SumOver(s, Got) = f[Len(s)]
      BY <2>1, GotTypes, SumGot
    <2>3. QED
      BY <2>1, <2>2 DEF Adds, s
  <1>4. QED
    BY <1>1, <1>2, <1>3 DEF PoolSpace

LEMMA EmptyAccounted == EmptyMemory \in Accounted
  <1>1. MgrSize \in Int
    BY PoolsAssumption
  <1>2. EmptyMemory \in Memory
    <2>1. <<>> \in SmallLists /\ <<>> \in LargeLists
      BY DEF SmallLists, LargeLists
    <2>2. QED
      BY <1>1, <2>1 DEF EmptyMemory, Memory
  <1>3. ASSUME NEW p \in PoolIds PROVE PoolSpace(EmptyMemory, p) = 0
    <2>1. EmptyMemory.small[p] = <<>> /\ EmptyMemory.large[p] = <<>>
      BY DEF EmptyMemory
    <2>2. QED
      BY <2>1, SumEmpty DEF PoolSpace
  <1>4. EmptyMemory.total = MgrSize /\ EmptyMemory.heap = MgrSize
    BY DEF EmptyMemory
  <1>5. PoolSpace(EmptyMemory, PERMANENT) = 0 /\ PoolSpace(EmptyMemory, IMAGE) = 0
    BY <1>3, PoolNames
  <1>6. QED
    BY <1>1, <1>2, <1>4, <1>5 DEF Accounted

(* Whether the last request was satisfied is not part of the account.       *)
LEMMA OkIrrelevant ==
  ASSUME NEW m \in Accounted, NEW b \in BOOLEAN
  PROVE  [m EXCEPT !.ok = b] \in Accounted
  <1> DEFINE r == [m EXCEPT !.ok = b]
  <1>1. m \in Memory
    BY DEF Accounted
  <1>2. r \in Memory /\ r.small = m.small /\ r.large = m.large /\ r.total = m.total
        /\ r.heap = m.heap
    BY <1>1 DEF Memory
  <1> HIDE DEF r
  <1>3. \A p : PoolSpace(r, p) = PoolSpace(m, p)
    BY <1>2 DEF PoolSpace
  <1>4. m.total = m.heap /\ m.heap = MgrSize + PoolSpace(m, PERMANENT) + PoolSpace(m, IMAGE)
    BY DEF Accounted
  <1>5. r \in Accounted
    BY <1>2, <1>3, <1>4 DEF Accounted
  <1>6. QED
    BY <1>5 DEF r

LEMMA RefusedAccounted == ASSUME NEW m \in Accounted PROVE Refused(m) \in Accounted
  BY OkIrrelevant DEF Refused

(* One list of pools grows by d, and the counts with it.                    *)
LEMMA Grown ==
  ASSUME NEW m \in Accounted, NEW r \in Memory, NEW p \in PoolIds, NEW d \in Int,
         \A q \in PoolIds \ {p} : PoolSpace(r, q) = PoolSpace(m, q),
         PoolSpace(r, p) = PoolSpace(m, p) + d, r.total = m.total + d, r.heap = m.heap + d
  PROVE  r \in Accounted
  <1>1. /\ PoolSpace(m, PERMANENT) \in Int /\ PoolSpace(m, IMAGE) \in Int
        /\ m.total \in Int /\ m.heap \in Int /\ MgrSize \in Int
        /\ m.total = m.heap /\ m.heap = MgrSize + PoolSpace(m, PERMANENT) + PoolSpace(m, IMAGE)
    <2>1. m \in Memory /\ m.total = m.heap
          /\ m.heap = MgrSize + PoolSpace(m, PERMANENT) + PoolSpace(m, IMAGE)
      BY DEF Accounted
    <2>2. m.total \in Int /\ m.heap \in Int /\ MgrSize \in Int
      BY <2>1, PoolsAssumption DEF Memory
    <2>3. PoolSpace(m, PERMANENT) \in Int /\ PoolSpace(m, IMAGE) \in Int
      BY <2>1, SpaceType, PoolNames
    <2>4. QED
      BY <2>1, <2>2, <2>3
  <1>2. PoolSpace(r, PERMANENT) + PoolSpace(r, IMAGE)
        = PoolSpace(m, PERMANENT) + PoolSpace(m, IMAGE) + d
    <2>1. CASE p = PERMANENT
      <3>1. PoolSpace(r, IMAGE) = PoolSpace(m, IMAGE)
        BY <2>1, PoolNames
      <3>2. QED
        BY <1>1, <2>1, <3>1
    <2>2. CASE p = IMAGE
      <3>1. PoolSpace(r, PERMANENT) = PoolSpace(m, PERMANENT)
        BY <2>2, PoolNames
      <3>2. QED
        BY <1>1, <2>2, <3>1
    <2>3. QED
      BY <2>1, <2>2, PoolNames
  <1>3. PoolSpace(r, PERMANENT) \in Int /\ PoolSpace(r, IMAGE) \in Int
    BY SpaceType, PoolNames
  <1>4. QED
    BY <1>1, <1>2, <1>3 DEF Accounted

LEMMA RoundUpInt == ASSUME NEW size \in Int PROVE RoundUp(size) \in Int
  <1>1. Align \in Nat \ {0}
    BY PoolsAssumption
  <1>2. size % Align \in Int
    BY <1>1
  <1>3. QED
    BY <1>1, <1>2 DEF RoundUp

LEMMA HalvedInt == ASSUME NEW slop \in Int, NEW n \in Nat PROVE Halved(slop, n) \in Int
  <1> DEFINE P(h) == h = [k \in 0 .. n |-> IF k = 0 THEN slop ELSE h[k - 1] \div 2]
             c == CHOOSE h : P(h)
             D == (1 .. n) \X Int
             G == [q \in D |-> q[2] \div 2]
  <1>1. ASSUME NEW k \in 1 .. n, NEW x \in Int
        PROVE  G[<<k, x>>] = x \div 2 /\ G[<<k, x>>] \in Int
    OBVIOUS
  <1>2. G \in [D -> Int]
    <2>1. ASSUME NEW q \in D PROVE G[q] \in Int
      <3>1. q = <<q[1], q[2]>> /\ q[1] \in 1 .. n /\ q[2] \in Int
        OBVIOUS
      <3> HIDE DEF G, D
      <3>2. QED
        BY <1>1, <3>1, Zenon
    <2>2. G = [q \in D |-> G[q]]
      OBVIOUS
    <2> HIDE DEF G, D
    <2>3. QED
      BY <2>1, <2>2
  <1> HIDE DEF G
  <1>3. PICK f \in [0 .. n -> Int] : Iterated(f, n, slop, G)
    BY <1>2, IteratedExists, Zenon
  <1>5. ASSUME NEW k \in 1 .. n PROVE f[k] = f[k - 1] \div 2
    <2>1. k - 1 \in 0 .. n
      OBVIOUS
    <2>2. QED
      BY <1>1, <1>3, <2>1 DEF Iterated
  <1>6. P(f)
    BY <1>3, <1>5 DEF Iterated
  <1>7. P(c)
    BY <1>6, Zenon
  <1>8. Halved(slop, n) = c[n]
    BY Zenon DEF Halved
  <1> HIDE DEF c
  <1>9. c[0] = slop /\ \A k \in 1 .. n : c[k] = c[k - 1] \div 2
    BY <1>7
  <1> DEFINE S == {k \in 0 .. n : c[k] \in Int}
  <1>10. 0 \in S
    BY <1>9
  <1>11. ASSUME NEW k \in 0 .. n - 1, k \in S PROVE k + 1 \in S
    <2>1. k + 1 \in 1 .. n /\ k + 1 \in 0 .. n /\ (k + 1) - 1 = k /\ c[k] \in Int
      BY <1>11
    <2>2. c[k + 1] = c[k] \div 2
      BY <1>9, <2>1
    <2>3. QED
      BY <2>1, <2>2
  <1>12. \A k \in 0 .. n : k \in S
    <2> HIDE DEF S
    <2>1. QED
      BY <1>10, <1>11, IntervalInduction
  <1>13. QED
    BY <1>8, <1>12

(* A memory with another list of pools and other counts.                    *)
WithSmall(m, p, s, t, h) == [m EXCEPT !.small[p] = s, !.total = t, !.heap = h]
WithLarge(m, p, s, t, h) == [m EXCEPT !.large[p] = s, !.total = t, !.heap = h]

LEMMA SmallChanged ==
  ASSUME NEW m \in Memory, NEW p \in PoolIds, NEW s \in Seq(SmallPool), NEW t \in Int, NEW h \in Int,
         NEW r, r = WithSmall(m, p, s, t, h)
  PROVE  /\ r \in Memory /\ r.small[p] = s /\ r.large = m.large /\ r.total = t /\ r.heap = h
         /\ \A q \in PoolIds \ {p} : r.small[q] = m.small[q]
  <1>1. s \in SmallLists
    BY DEF SmallLists
  <1>2. WithSmall(m, p, s, t, h) \in Memory
    BY <1>1 DEF WithSmall, Memory
  <1>3. /\ WithSmall(m, p, s, t, h).small = [m.small EXCEPT ![p] = s]
        /\ WithSmall(m, p, s, t, h).large = m.large
        /\ WithSmall(m, p, s, t, h).total = t /\ WithSmall(m, p, s, t, h).heap = h
    BY <1>1 DEF WithSmall, Memory
  <1>4. DOMAIN m.small = PoolIds /\ m.small = [q \in PoolIds |-> m.small[q]]
    BY DEF Memory
  <1>5. r.small[p] = s /\ \A q \in PoolIds \ {p} : r.small[q] = m.small[q]
    BY <1>3, <1>4
  <1>6. QED
    BY <1>2, <1>3, <1>5

LEMMA LargeChanged ==
  ASSUME NEW m \in Memory, NEW p \in PoolIds, NEW s \in Seq(LargePool), NEW t \in Int, NEW h \in Int,
         NEW r, r = WithLarge(m, p, s, t, h)
  PROVE  /\ r \in Memory /\ r.large[p] = s /\ r.small = m.small /\ r.total = t /\ r.heap = h
         /\ \A q \in PoolIds \ {p} : r.large[q] = m.large[q]
  <1>1. s \in LargeLists
    BY DEF LargeLists
  <1>2. WithLarge(m, p, s, t, h) \in Memory
    BY <1>1 DEF WithLarge, Memory
  <1>3. /\ WithLarge(m, p, s, t, h).large = [m.large EXCEPT ![p] = s]
        /\ WithLarge(m, p, s, t, h).small = m.small
        /\ WithLarge(m, p, s, t, h).total = t /\ WithLarge(m, p, s, t, h).heap = h
    BY <1>1 DEF WithLarge, Memory
  <1>4. DOMAIN m.large = PoolIds /\ m.large = [q \in PoolIds |-> m.large[q]]
    BY DEF Memory
  <1>5. r.large[p] = s /\ \A q \in PoolIds \ {p} : r.large[q] = m.large[q]
    BY <1>3, <1>4
  <1>6. QED
    BY <1>2, <1>3, <1>5

LEMMA SmallKept ==
  ASSUME NEW m \in Memory, NEW p \in PoolIds, NEW s \in Seq(SmallPool),
         NEW r, r = [m EXCEPT !.small[p] = s]
  PROVE  /\ r \in Memory /\ r.small[p] = s /\ r.large = m.large
         /\ r.total = m.total /\ r.heap = m.heap
         /\ \A q \in PoolIds \ {p} : r.small[q] = m.small[q]
  <1>1. s \in SmallLists
    BY DEF SmallLists
  <1>2. r \in Memory
    BY <1>1 DEF Memory
  <1>3. /\ r.small = [m.small EXCEPT ![p] = s] /\ r.large = m.large
        /\ r.total = m.total /\ r.heap = m.heap
    BY <1>1 DEF Memory
  <1>4. DOMAIN m.small = PoolIds /\ m.small = [q \in PoolIds |-> m.small[q]]
    BY DEF Memory
  <1>5. r.small[p] = s /\ \A q \in PoolIds \ {p} : r.small[q] = m.small[q]
    BY <1>3, <1>4
  <1>6. QED
    BY <1>2, <1>3, <1>5

LEMMA PoolUsed ==
  ASSUME NEW q \in SmallPool, NEW n \in Int
  PROVE  [used |-> q.used + n, left |-> q.left - n, got |-> q.got] \in SmallPool
  <1>1. q.used \in Int /\ q.left \in Int /\ q.got \in Int /\ q.got = q.used + q.left + Header
        /\ Header \in Int
    BY PoolsAssumption DEF SmallPool
  <1>2. QED
    BY <1>1 DEF SmallPool

(* alloc_small: a pool with room gives some of it, or there is a new pool.  *)
LEMMA SmallAccounted ==
  ASSUME NEW m \in Accounted, NEW p \in PoolIds, NEW size \in Int, NEW refusals \in Nat
  PROVE  AllocSmall(m, p, size, refusals) \in Accounted
  <1> DEFINE n     == RoundUp(size)
             s     == m.small[p]
             fits  == {k \in DOMAIN s : s[k].left >= n}
             i     == CHOOSE a \in fits : \A b \in fits : a <= b
             asked == Least(IF s = <<>> THEN FirstSlop[p] ELSE ExtraSlop[p],
                            MaxAllocChunk - (n + Header))
             slop  == Halved(asked, refusals)
             h     == [used |-> s[i].used + n, left |-> s[i].left - n, got |-> s[i].got]
             used  == [m EXCEPT !.small[p][i] = h]
             new   == [used |-> n, left |-> slop, got |-> n + Header + slop]
             a     == Append(s, new)
             t     == m.total + n + Header + slop
             g     == m.heap + n + Header + slop
             more  == WithSmall(m, p, a, t, g)
  <1>1. AllocSmall(m, p, size, refusals) =
          IF ~m.ok \/ size > MaxAllocChunk - Header THEN Refused(m)
          ELSE IF fits # {} THEN used
          ELSE IF refusals > 0 /\ slop < MinSlop THEN Refused(m) ELSE more
    BY Zenon DEF AllocSmall, WithSmall
  <1>2. /\ n \in Int /\ Header \in Int /\ MaxAllocChunk \in Int
        /\ FirstSlop[p] \in Int /\ ExtraSlop[p] \in Int
    BY RoundUpInt, PoolsAssumption
  <1>3. slop \in Int
    <2>1. asked \in Int
      BY <1>2 DEF Least
    <2> HIDE DEF asked
    <2>2. QED
      BY <2>1, HalvedInt
  <1> HIDE DEF n, slop, asked
  <1>4. m \in Memory /\ s \in Seq(SmallPool) /\ m.total \in Int /\ m.heap \in Int
        /\ SumOver(s, Got) \in Int /\ SumOver(m.large[p], Got) \in Int
    <2>1. m \in Memory
      BY DEF Accounted
    <2>2. QED
      BY <2>1, SpaceType DEF Memory
  <1>5. ASSUME fits # {} PROVE used \in Accounted
    <2>1. i \in fits
      <3>1. fits \subseteq Nat
        BY <1>4
      <3>2. \E x \in fits : \A y \in fits : x <= y
        BY <1>5, <3>1, NatMin, Zenon
      <3> HIDE DEF fits
      <3>3. QED
        BY <3>2
    <2>2. i \in 1 .. Len(s) /\ i \in DOMAIN s /\ s[i] \in SmallPool
      <3>1. i \in DOMAIN s
        BY <2>1
      <3> HIDE DEF i, fits, s
      <3>2. QED
        BY <1>4, <3>1
    <2> HIDE DEF i, fits
    <2> DEFINE v == [s EXCEPT ![i] = h]
               r == [m EXCEPT !.small[p] = v]
    <2>3. h \in SmallPool /\ h.got = s[i].got
      <3> HIDE DEF s
      <3>1. QED
        BY <1>2, <2>2, PoolUsed
    <2> HIDE DEF h
    <2>4. v \in Seq(SmallPool) /\ Len(v) = Len(s) /\ \A k \in 1 .. Len(s) : v[k].got = s[k].got
      BY <1>4, <2>2, <2>3
    <2>5. used = r
      BY <1>4 DEF Memory
    <2> HIDE DEF v, used
    <2>6. /\ r \in Memory /\ r.small[p] = v /\ r.large = m.large
          /\ r.total = m.total /\ r.heap = m.heap
          /\ \A q \in PoolIds \ {p} : r.small[q] = m.small[q]
      BY <1>4, <2>4, SmallKept
    <2> HIDE DEF r
    <2>7. SumOver(v, Got) = SumOver(s, Got)
      BY <1>4, <2>4, GotTypes, SumSame
    <2>8. PoolSpace(r, p) = PoolSpace(m, p) + 0
      BY <1>4, <2>6, <2>7 DEF PoolSpace
    <2>9. \A q \in PoolIds \ {p} : PoolSpace(r, q) = PoolSpace(m, q)
      BY <2>6 DEF PoolSpace
    <2>10. r.total = m.total + 0 /\ r.heap = m.heap + 0
      BY <1>4, <2>6
    <2>11. QED
      BY <2>5, <2>6, <2>8, <2>9, <2>10, Grown
  <1>6. more \in Accounted
    <2>1. new \in SmallPool /\ new.got = n + Header + slop /\ t \in Int /\ g \in Int
      <3>1. n \in Int /\ slop \in Int /\ Header \in Int /\ m.total \in Int /\ m.heap \in Int
        BY <1>2, <1>3, <1>4
      <3>2. n + Header + slop = n + slop + Header /\ n + Header + slop \in Int
        BY ONLY <3>1
      <3>3. new.got = n + Header + slop /\ new \in SmallPool
        BY ONLY <3>1, <3>2 DEF SmallPool
      <3>4. t \in Int /\ g \in Int
        BY ONLY <3>1
      <3>5. QED
        BY <3>3, <3>4
    <2> HIDE DEF new
    <2>2. a \in Seq(SmallPool)
      BY <1>4, <2>1
    <2>3. SumOver(a, Got) = SumOver(s, Got) + new.got
      BY <1>4, <2>1, GotTypes, SumAppend
    <2> HIDE DEF a, t, g
    <2>4. /\ more \in Memory /\ more.small[p] = a /\ more.large = m.large
          /\ more.total = t /\ more.heap = g
          /\ \A q \in PoolIds \ {p} : more.small[q] = m.small[q]
      <3> HIDE DEF s
      <3>1. more = WithSmall(m, p, a, t, g)
        OBVIOUS
      <3> HIDE DEF more
      <3>2. QED
        BY <1>4, <2>1, <2>2, <3>1, SmallChanged
    <2> HIDE DEF more
    <2>5. PoolSpace(more, p) = PoolSpace(m, p) + (n + Header + slop)
      BY <1>2, <1>3, <1>4, <2>1, <2>3, <2>4 DEF PoolSpace
    <2>6. \A q \in PoolIds \ {p} : PoolSpace(more, q) = PoolSpace(m, q)
      BY <2>4 DEF PoolSpace
    <2>7. n + Header + slop \in Int /\ more.total = m.total + (n + Header + slop)
          /\ more.heap = m.heap + (n + Header + slop)
      <3>1. n \in Int /\ slop \in Int /\ Header \in Int /\ m.total \in Int /\ m.heap \in Int
        BY <1>2, <1>3, <1>4
      <3>2. t = m.total + (n + Header + slop) /\ g = m.heap + (n + Header + slop)
            /\ n + Header + slop \in Int
        BY ONLY <3>1 DEF t, g
      <3>3. QED
        BY <2>4, <3>2, Zenon
    <2>8. QED
      BY <2>4, <2>5, <2>6, <2>7, Grown
  <1> HIDE DEF used, more, fits
  <1>7. QED
    BY <1>1, <1>5, <1>6, RefusedAccounted

(* alloc_large: a pool of its own, at the head of the list.                 *)
LEMMA LargeAccounted ==
  ASSUME NEW m \in Accounted, NEW p \in PoolIds, NEW size \in Int
  PROVE  AllocLarge(m, p, size) \in Accounted
  <1> DEFINE n    == RoundUp(size)
             s    == m.large[p]
             new  == [used |-> n, got |-> n + Header]
             a    == <<new>> \o s
             t    == m.total + n + Header
             g    == m.heap + n + Header
             more == WithLarge(m, p, a, t, g)
  <1>1. AllocLarge(m, p, size) = IF ~m.ok \/ size > MaxAllocChunk - Header THEN Refused(m)
                                 ELSE more
    BY Zenon DEF AllocLarge, WithLarge
  <1>2. n \in Int /\ Header \in Int
    BY RoundUpInt, PoolsAssumption
  <1> HIDE DEF n
  <1>3. m \in Memory /\ s \in Seq(LargePool) /\ m.total \in Int /\ m.heap \in Int
        /\ SumOver(s, Got) \in Int /\ SumOver(m.small[p], Got) \in Int
    <2>1. m \in Memory
      BY DEF Accounted
    <2>2. QED
      BY <2>1, SpaceType DEF Memory
  <1>4. new \in LargePool /\ new.got = n + Header /\ t \in Int /\ g \in Int
    BY <1>2, <1>3 DEF LargePool
  <1> HIDE DEF new
  <1>5. a \in Seq(LargePool)
    BY <1>3, <1>4
  <1>6. SumOver(a, Got) = SumOver(s, Got) + new.got
    BY <1>3, <1>4, GotTypes, SumAppend
  <1> HIDE DEF a, t, g
  <1>7. /\ more \in Memory /\ more.large[p] = a /\ more.small = m.small
        /\ more.total = t /\ more.heap = g
        /\ \A q \in PoolIds \ {p} : more.large[q] = m.large[q]
    BY <1>3, <1>4, <1>5, LargeChanged
  <1> HIDE DEF more
  <1>8. PoolSpace(more, p) = PoolSpace(m, p) + (n + Header)
    BY <1>2, <1>3, <1>4, <1>6, <1>7 DEF PoolSpace
  <1>9. \A q \in PoolIds \ {p} : PoolSpace(more, q) = PoolSpace(m, q)
    BY <1>7 DEF PoolSpace
  <1>10. n + Header \in Int /\ more.total = m.total + (n + Header)
         /\ more.heap = m.heap + (n + Header)
    BY <1>2, <1>3, <1>7 DEF t, g
  <1>11. more \in Accounted
    BY <1>7, <1>8, <1>9, <1>10, Grown
  <1>12. QED
    BY <1>1, <1>11, RefusedAccounted

(* The loop of alloc_sarray and alloc_barray, wherever it stops.            *)
LEMMA RowsAccounted ==
  ASSUME NEW m \in Accounted, NEW p \in PoolIds, NEW rowsize \in Nat \ {0},
         NEW numrows \in Nat \ {0}, NEW refusals \in Nat, NEW upto \in 0 .. numrows
  PROVE  AllocRows(m, p, rowsize, numrows, refusals, upto) \in Accounted
  <1> DEFINE rpc  == RowsPerChunk(rowsize, numrows)
             head == AllocSmall(m, p, numrows * PointerSize, refusals)
             done(row) == ((row - 1) \div rpc) * rpc
             Step(h, row) == IF row % rpc # 0 /\ row # numrows THEN h[row - 1]
                             ELSE AllocLarge(h[done(row)], p, (row - done(row)) * rowsize)
             P(h) == h = [row \in 0 .. numrows |-> IF row = 0 THEN head ELSE
                            IF row % rpc # 0 /\ row # numrows THEN h[row - 1]
                            ELSE AllocLarge(h[done(row)], p, (row - done(row)) * rowsize)]
             c == CHOOSE h : P(h)
             D == (1 .. numrows) \X [0 .. numrows -> Accounted]
             g == [q \in D |-> Step(q[2], q[1])]
  <1>1. AllocRows(m, p, rowsize, numrows, refusals, upto)
          = IF MaxAllocChunk - Header < rowsize THEN Refused(m) ELSE c[upto]
    BY Zenon DEF AllocRows
  <1>2. CASE MaxAllocChunk - Header < rowsize
    BY <1>1, <1>2, RefusedAccounted
  <1>3. CASE ~(MaxAllocChunk - Header < rowsize)
    <2>1. MaxAllocChunk \in Nat /\ Header \in Nat /\ PointerSize \in Nat
      BY PoolsAssumption
    <2>2. rpc \in Nat \ {0}
      <3>1. MaxAllocChunk - Header \in Nat /\ rowsize <= MaxAllocChunk - Header
        BY <1>3, <2>1
      <3>2. (MaxAllocChunk - Header) \div rowsize \in Nat \ {0}
        BY <3>1, QuotientPositive
      <3>3. QED
        BY <3>2 DEF RowsPerChunk, Least
    <2>3. head \in Accounted
      <3>1. numrows * PointerSize \in Int
        BY <2>1
      <3>2. QED
        BY <3>1, SmallAccounted
    <2> HIDE DEF rpc, head
    <2>4. ASSUME NEW row \in 1 .. numrows
          PROVE  done(row) \in 0 .. row - 1 /\ row - 1 \in 0 .. row - 1
                 /\ (row - done(row)) * rowsize \in Int
      <3>1. row - 1 \in Nat
        OBVIOUS
      <3>2. done(row) \in Int /\ done(row) <= row - 1
        BY <2>2, <3>1, ChunkStart
      <3>3. (row - 1) \div rpc \in Nat
        BY <2>2, <3>1
      <3>4. done(row) >= 0
        BY <2>2, <3>3
      <3> HIDE DEF done
      <3>5. QED
        BY <3>2, <3>4
    <2> HIDE DEF done
    <2>5. ASSUME NEW row \in 1 .. numrows, NEW h \in [0 .. numrows -> Accounted]
          PROVE  Step(h, row) \in Accounted
      <3>1. done(row) \in 0 .. numrows /\ row - 1 \in 0 .. numrows
        <4>1. done(row) \in 0 .. row - 1 /\ row - 1 \in 0 .. row - 1
          BY <2>4
        <4>2. \A j \in 0 .. row - 1 : j \in 0 .. numrows
          OBVIOUS
        <4>3. QED
          BY <4>1, <4>2
      <3>2. h[done(row)] \in Accounted /\ h[row - 1] \in Accounted
        BY <3>1
      <3>3. AllocLarge(h[done(row)], p, (row - done(row)) * rowsize) \in Accounted
        BY <2>4, <3>2, LargeAccounted
      <3>4. QED
        BY <3>2, <3>3
    <2>6. ASSUME NEW row \in 1 .. numrows, NEW e, NEW h, \A j \in 0 .. row - 1 : e[j] = h[j]
          PROVE  Step(e, row) = Step(h, row)
      BY <2>4, <2>6, Zenon
    <2>7. ASSUME NEW row \in 1 .. numrows, NEW h
          PROVE  Step(h, row) = IF row % rpc # 0 /\ row # numrows THEN h[row - 1]
                                ELSE AllocLarge(h[done(row)], p, (row - done(row)) * rowsize)
      OBVIOUS
    <2> HIDE DEF Step
    <2>8. ASSUME NEW row \in 1 .. numrows, NEW h \in [0 .. numrows -> Accounted]
          PROVE  g[<<row, h>>] = Step(h, row) /\ g[<<row, h>>] \in Accounted
      BY <2>5
    <2>9. g \in [D -> Accounted]
      <3>1. ASSUME NEW q \in D PROVE g[q] \in Accounted
        <4>1. q = <<q[1], q[2]>> /\ q[1] \in 1 .. numrows /\ q[2] \in [0 .. numrows -> Accounted]
          OBVIOUS
        <4> HIDE DEF D, g
        <4>2. QED
          BY <2>8, <4>1, Zenon
      <3>2. g = [q \in D |-> g[q]]
        OBVIOUS
      <3> HIDE DEF g, D
      <3>3. QED
        BY <3>1, <3>2
    <2> HIDE DEF g
    <2>10. \A row \in 1 .. numrows : \A e, h \in [0 .. numrows -> Accounted] :
             (\A j \in 0 .. row - 1 : e[j] = h[j]) => g[<<row, e>>] = g[<<row, h>>]
      <3> SUFFICES ASSUME NEW row \in 1 .. numrows, NEW e \in [0 .. numrows -> Accounted],
                          NEW h \in [0 .. numrows -> Accounted],
                          \A j \in 0 .. row - 1 : e[j] = h[j]
                   PROVE  g[<<row, e>>] = g[<<row, h>>]
        OBVIOUS
      <3>1. Step(e, row) = Step(h, row)
        BY <2>6
      <3>2. g[<<row, e>>] = Step(e, row) /\ g[<<row, h>>] = Step(h, row)
        BY <2>8
      <3>3. QED
        BY <3>1, <3>2
    <2>11. PICK f \in [0 .. numrows -> Accounted] : Computed(f, numrows, head, g)
      BY <2>3, <2>9, <2>10, ComputedExists, Zenon
    <2>12. ASSUME NEW row \in 1 .. numrows PROVE f[row] = Step(f, row)
      BY <2>8, <2>11 DEF Computed
    <2>13. f[0] = head
      BY <2>11 DEF Computed
    <2>14. P(f)
      <3>1. f = [row \in 0 .. numrows |-> f[row]]
        OBVIOUS
      <3>2. ASSUME NEW row \in 0 .. numrows
            PROVE f[row] = IF row = 0 THEN head ELSE
                            IF row % rpc # 0 /\ row # numrows THEN f[row - 1]
                            ELSE AllocLarge(f[done(row)], p, (row - done(row)) * rowsize)
        <4>1. CASE row = 0
          BY <2>13, <4>1, Zenon
        <4>2. CASE row # 0
          <5>1. row \in 1 .. numrows
            BY <4>2
          <5>2. QED
            BY <2>7, <2>12, <4>2, <5>1, Zenon
        <4>3. QED
          BY <4>1, <4>2
      <3>3. QED
        BY <3>1, <3>2, Zenon
    <2>15. P(c)
      BY <2>14, Zenon
    <2> HIDE DEF c
    <2>16. c[0] = head /\ \A row \in 1 .. numrows : c[row] = Step(c, row)
      <3>1. 0 \in 0 .. numrows /\ \A row \in 1 .. numrows : row \in 0 .. numrows /\ row # 0
        OBVIOUS
      <3>2. QED
        BY <2>7, <2>15, <3>1, Zenon
    <2>17. \A row \in 0 .. numrows : c[row] = f[row]
      <3> DEFINE S == {row \in 0 .. numrows : \A j \in 0 .. row : c[j] = f[j]}
      <3>1. 0 \in S
        BY <2>13, <2>16
      <3>2. ASSUME NEW k \in 0 .. numrows - 1, k \in S PROVE k + 1 \in S
        <4>1. k + 1 \in 1 .. numrows /\ k + 1 \in 0 .. numrows /\ (k + 1) - 1 = k
          OBVIOUS
        <4>2. \A j \in 0 .. (k + 1) - 1 : c[j] = f[j]
          BY <3>2, <4>1
        <4>3. c[k + 1] = f[k + 1]
          <5>1. Step(c, k + 1) = Step(f, k + 1)
            BY <2>6, <4>1, <4>2, Zenon
          <5>2. c[k + 1] = Step(c, k + 1) /\ f[k + 1] = Step(f, k + 1)
            BY <2>12, <2>16, <4>1, Zenon
          <5>3. QED
            BY <5>1, <5>2, Zenon
        <4>4. \A j \in 0 .. k + 1 : j = k + 1 \/ j \in 0 .. (k + 1) - 1
          BY <4>1
        <4>5. QED
          BY <4>1, <4>2, <4>3, <4>4, Zenon
      <3>3. \A k \in 0 .. numrows : k \in S
        <4> HIDE DEF S
        <4>1. QED
          BY <3>1, <3>2, IntervalInduction
      <3>4. QED
        BY <3>3
    <2>18. QED
      BY <1>1, <1>3, <2>17
  <1>4. QED
    BY <1>2, <1>3

(* free_pool: the counts lose what the pools of the lifetime held.          *)
LEMMA FreedAccounted ==
  ASSUME NEW m \in Accounted, NEW p \in PoolIds
  PROVE  /\ FreeObjects(m, p) \in Accounted
         /\ PoolSpace(FreeObjects(m, p), p) = 0
         /\ \A q \in PoolIds \ {p} : PoolSpace(FreeObjects(m, p), q) = PoolSpace(m, q)
  <1> DEFINE t == m.total - SumOver(m.large[p], LargeFreed) - SumOver(m.small[p], SmallFreed)
             h == m.heap - SumOver(m.large[p], Got) - SumOver(m.small[p], Got)
             r == FreeObjects(m, p)
  <1>1. /\ m \in Memory /\ m.total \in Int /\ m.heap \in Int
        /\ m.small[p] \in Seq(SmallPool) /\ m.large[p] \in Seq(LargePool)
        /\ SumOver(m.small[p], Got) \in Int /\ SumOver(m.large[p], Got) \in Int
    <2>1. m \in Memory
      BY DEF Accounted
    <2>2. QED
      BY <2>1, SpaceType DEF Memory
  <1>2. t = m.total - SumOver(m.large[p], Got) - SumOver(m.small[p], Got)
    BY <1>1, SumLargeFreed, SumSmallFreed
  <1>3. t \in Int /\ h \in Int /\ t = m.total + (0 - PoolSpace(m, p))
        /\ h = m.heap + (0 - PoolSpace(m, p)) /\ PoolSpace(m, p) \in Int
    <2> DEFINE small == SumOver(m.small[p], Got)
               large == SumOver(m.large[p], Got)
    <2>1. /\ small \in Int /\ large \in Int /\ m.total \in Int /\ m.heap \in Int
          /\ t = m.total - large - small /\ h = m.heap - large - small
      BY <1>1, <1>2, Zenon
    <2>2. PoolSpace(m, p) = large + small
      BY Zenon DEF PoolSpace
    <2> HIDE DEF t, h, small, large
    <2>3. QED
      BY <2>1, <2>2
  <1>4. /\ r.small = [m.small EXCEPT ![p] = <<>>] /\ r.large = [m.large EXCEPT ![p] = <<>>]
        /\ r.total = t /\ r.heap = h
    <2>1. r = [m EXCEPT !.small[p] = <<>>, !.large[p] = <<>>, !.total = t, !.heap = h]
      BY Zenon DEF FreeObjects
    <2> HIDE DEF t, h, r
    <2>2. QED
      BY <1>1, <2>1 DEF Memory
  <1>5. r \in Memory
    <2>1. r = [m EXCEPT !.small[p] = <<>>, !.large[p] = <<>>, !.total = t, !.heap = h]
      BY Zenon DEF FreeObjects
    <2>2. <<>> \in SmallLists /\ <<>> \in LargeLists
      BY DEF SmallLists, LargeLists
    <2> HIDE DEF t, h, r
    <2>3. QED
      BY <1>1, <1>3, <2>1, <2>2 DEF Memory
  <1> HIDE DEF r, t, h
  <1>6. /\ r.small[p] = <<>> /\ r.large[p] = <<>>
        /\ \A q \in PoolIds \ {p} : r.small[q] = m.small[q] /\ r.large[q] = m.large[q]
    BY <1>1, <1>4 DEF Memory
  <1>7. PoolSpace(r, p) = 0
    BY <1>6, SumEmpty DEF PoolSpace
  <1>8. \A q \in PoolIds \ {p} : PoolSpace(r, q) = PoolSpace(m, q)
    BY <1>6 DEF PoolSpace
  <1>9. PoolSpace(r, p) = PoolSpace(m, p) + (0 - PoolSpace(m, p)) /\ 0 - PoolSpace(m, p) \in Int
    BY <1>3, <1>7
  <1>10. r \in Accounted
    BY <1>3, <1>4, <1>5, <1>8, <1>9, Grown
  <1>11. QED
    BY <1>7, <1>8, <1>10 DEF r

-----------------------------------------------------------------------------
LEMMA UnrealizedListed ==
  ASSUME NEW L, virt_sarray_list \in Seq(L), virt_barray_list \in Seq(L)
  PROVE  Unrealized \in Seq(L)
  <1> DEFINE all  == virt_sarray_list \o virt_barray_list
             n    == Len(all)
             P(h) == h = [k \in 0 .. n |-> IF k = 0 THEN <<>>
                                           ELSE IF realized[all[k]] THEN h[k - 1]
                                           ELSE Append(h[k - 1], all[k])]
             c == CHOOSE h : P(h)
             D == (1 .. n) \X Seq(L)
             G == [q \in D |-> IF realized[all[q[1]]] THEN q[2] ELSE Append(q[2], all[q[1]])]
  <1>1. all \in Seq(L) /\ n \in Nat /\ \A k \in 1 .. n : all[k] \in L
    OBVIOUS
  <1> HIDE DEF all
  <1>2. ASSUME NEW k \in 1 .. n, NEW s \in Seq(L)
        PROVE  /\ G[<<k, s>>] = IF realized[all[k]] THEN s ELSE Append(s, all[k])
               /\ G[<<k, s>>] \in Seq(L)
    <2>1. all[k] \in L
      BY <1>1
    <2>2. Append(s, all[k]) \in Seq(L)
      BY <2>1
    <2>3. QED
      BY <2>2
  <1>3. G \in [D -> Seq(L)]
    <2>1. ASSUME NEW q \in D PROVE G[q] \in Seq(L)
      <3>1. q = <<q[1], q[2]>> /\ q[1] \in 1 .. n /\ q[2] \in Seq(L)
        OBVIOUS
      <3> HIDE DEF G, D
      <3>2. QED
        BY <1>2, <3>1, Zenon
    <2>2. G = [q \in D |-> G[q]]
      OBVIOUS
    <2> HIDE DEF G, D
    <2>3. QED
      BY <2>1, <2>2
  <1> HIDE DEF G
  <1>4. PICK f \in [0 .. n -> Seq(L)] : Iterated(f, n, <<>>, G)
    <2>1. <<>> \in Seq(L)
      OBVIOUS
    <2>2. QED
      <3>1. n \in Nat /\ G \in [(1 .. n) \X Seq(L) -> Seq(L)]
        BY <1>1, <1>3
      <3> HIDE DEF n
      <3>2. QED
        BY <2>1, <3>1, IteratedExists, Zenon
  <1>5. \A k \in 1 .. n : f[k] = IF realized[all[k]] THEN f[k - 1] ELSE Append(f[k - 1], all[k])
    <2>1. \A k \in 1 .. n : k - 1 \in 0 .. n
      OBVIOUS
    <2>2. QED
      BY <1>2, <1>4, <2>1 DEF Iterated
  <1>6. P(f)
    <2> HIDE DEF n
    <2>1. f = [k \in 0 .. n |-> f[k]] /\ \A k \in 0 .. n : k # 0 => k \in 1 .. n
      BY <1>1
    <2>2. QED
      BY <1>4, <1>5, <2>1, Zenon DEF Iterated
  <1>7. P(c)
    BY <1>6, Zenon
  <1>8. Unrealized = c[n]
    BY Zenon DEF Unrealized, all
  <1> HIDE DEF c, n
  <1>9. c[0] = <<>> /\ \A k \in 1 .. n :
          c[k] = IF realized[all[k]] THEN c[k - 1] ELSE Append(c[k - 1], all[k])
    <2>1. 0 \in 0 .. n /\ \A k \in 1 .. n : k \in 0 .. n /\ k # 0
      BY <1>1
    <2>2. QED
      BY <1>7, <2>1, Zenon
  <1> DEFINE S == {k \in 0 .. n : c[k] \in Seq(L)}
  <1>10. 0 \in S
    <2>1. 0 \in 0 .. n /\ <<>> \in Seq(L)
      BY <1>1
    <2>2. QED
      BY <1>9, <2>1
  <1>11. ASSUME NEW k \in 0 .. n - 1, k \in S PROVE k + 1 \in S
    <2>1. k + 1 \in 1 .. n /\ k + 1 \in 0 .. n /\ (k + 1) - 1 = k /\ c[k] \in Seq(L)
      BY <1>1, <1>11
    <2>2. c[k + 1] = IF realized[all[k + 1]] THEN c[k] ELSE Append(c[k], all[k + 1])
      BY <1>9, <2>1
    <2>3. all[k + 1] \in L
      BY <1>1, <2>1
    <2>4. c[k + 1] \in Seq(L)
      BY <2>1, <2>2, <2>3
    <2>5. QED
      BY <2>1, <2>4
  <1>12. \A k \in 0 .. n : k \in S
    <2> HIDE DEF S
    <2>1. QED
      BY <1>1, <1>10, <1>11, IntervalInduction
  <1>13. n \in 0 .. n
    BY <1>1
  <1>14. QED
    BY <1>8, <1>12, <1>13

(* The buffers of realize_virt_arrays, and what an array that failed left.  *)
LEMMA BufferAccounted ==
  ASSUME NEW m \in Accounted, NEW a \in Arrays, NEW h \in Nat \ {0}, NEW n \in Nat
  PROVE  /\ AllocSArray(m, IMAGE, RowSize[a], RowsInMem(a, h), n) \in Accounted
         /\ AllocBArray(m, IMAGE, RowSize[a], RowsInMem(a, h), n) \in Accounted
         /\ \A upto \in 0 .. RowsInMem(a, h) - 1 :
              AllocRows(m, IMAGE, RowSize[a], RowsInMem(a, h), n, upto) \in Accounted
  <1>1. RowSize[a] \in Nat \ {0} /\ RowsInMem(a, h) \in Nat \ {0} /\ IMAGE \in PoolIds
    BY ArraysAssumption, RowsInMemPlaced, PoolNames
  <1>2. \A upto \in 0 .. RowsInMem(a, h) :
          AllocRows(m, IMAGE, RowSize[a], RowsInMem(a, h), n, upto) \in Accounted
    BY <1>1, RowsAccounted
  <1>3. RowsInMem(a, h) \in 0 .. RowsInMem(a, h)
        /\ \A upto \in 0 .. RowsInMem(a, h) - 1 : upto \in 0 .. RowsInMem(a, h)
    BY <1>1
  <1>4. QED
    BY <1>2, <1>3 DEF AllocSArray, AllocBArray

LEMMA BuffersAccounted ==
  ASSUME mem \in Accounted, NEW todo \in Seq(Arrays), NEW heights \in Nat \ {0},
         NEW done \in 0 .. Len(todo), NEW n \in Nat, NEW next, next \subseteq Arrays,
         NEW opened, AllocBuffers(todo, heights, done, n, next, opened)
  PROVE  mem' \in Accounted
  <1> DEFINE Buffer(m, a) ==
               IF a \in SArrays
               THEN AllocSArray(m, IMAGE, RowSize[a], RowsInMem(a, heights), n)
               ELSE AllocBArray(m, IMAGE, RowSize[a], RowsInMem(a, heights), n)
             Partial(m, a) ==
               {m} \cup {AllocRows(m, IMAGE, RowSize[a], RowsInMem(a, heights), n, upto) :
                           upto \in 0 .. RowsInMem(a, heights) - 1}
             P(h) == h = [k \in 0 .. done |-> IF k = 0 THEN mem ELSE Buffer(h[k - 1], todo[k])]
             c == CHOOSE h : P(h)
             D == (1 .. done) \X Accounted
             G == [q \in D |-> Buffer(q[2], todo[q[1]])]
  <1>1. ASSUME NEW m \in Accounted, NEW a \in Arrays
        PROVE  Buffer(m, a) \in Accounted /\ Partial(m, a) \subseteq Accounted
    <2>1. Buffer(m, a) \in Accounted
      BY BufferAccounted
    <2>2. \A upto \in 0 .. RowsInMem(a, heights) - 1 :
            AllocRows(m, IMAGE, RowSize[a], RowsInMem(a, heights), n, upto) \in Accounted
      BY BufferAccounted
    <2>3. QED
      BY <2>1, <2>2
  <1>2. done \in Nat /\ \A k \in 1 .. done : todo[k] \in Arrays
    OBVIOUS
  <1>3. \E m \in IF next # {} /\ NeedFile(next, heights) = opened
                 THEN UNION {Partial(c[done], a) : a \in next} ELSE {c[done]} :
          mem' = [m EXCEPT !.ok = TRUE]
    BY Zenon DEF AllocBuffers
  <1> HIDE DEF Buffer, Partial
  <1>4. ASSUME NEW k \in 1 .. done, NEW m \in Accounted
        PROVE  G[<<k, m>>] = Buffer(m, todo[k]) /\ G[<<k, m>>] \in Accounted
    <2>1. Buffer(m, todo[k]) \in Accounted
      BY <1>1, <1>2
    <2>2. QED
      BY <2>1
  <1>5. G \in [D -> Accounted]
    <2>1. ASSUME NEW q \in D PROVE G[q] \in Accounted
      <3>1. q = <<q[1], q[2]>> /\ q[1] \in 1 .. done /\ q[2] \in Accounted
        OBVIOUS
      <3> HIDE DEF G, D
      <3>2. QED
        BY <1>4, <3>1, Zenon
    <2>2. G = [q \in D |-> G[q]]
      OBVIOUS
    <2> HIDE DEF G, D
    <2>3. QED
      BY <2>1, <2>2
  <1> HIDE DEF G
  <1>6. PICK f \in [0 .. done -> Accounted] : Iterated(f, done, mem, G)
    <2>1. done \in Nat /\ G \in [(1 .. done) \X Accounted -> Accounted]
      BY <1>2, <1>5
    <2>2. QED
      BY <2>1, IteratedExists, Zenon
  <1>7. \A k \in 1 .. done : f[k] = Buffer(f[k - 1], todo[k])
    <2>1. \A k \in 1 .. done : k - 1 \in 0 .. done
      OBVIOUS
    <2>2. QED
      BY <1>4, <1>6, <2>1 DEF Iterated
  <1>8. P(f)
    <2>1. f = [k \in 0 .. done |-> f[k]] /\ \A k \in 0 .. done : k # 0 => k \in 1 .. done
      BY <1>2
    <2>2. QED
      BY <1>6, <1>7, <2>1, Zenon DEF Iterated
  <1>9. P(c)
    BY <1>8, Zenon
  <1> HIDE DEF c
  <1>10. c[0] = mem /\ \A k \in 1 .. done : c[k] = Buffer(c[k - 1], todo[k])
    BY <1>2, <1>9
  <1> DEFINE S == {k \in 0 .. done : c[k] \in Accounted}
  <1>11. 0 \in S
    BY <1>2, <1>10
  <1>12. ASSUME NEW k \in 0 .. done - 1, k \in S PROVE k + 1 \in S
    <2>1. k + 1 \in 1 .. done /\ k + 1 \in 0 .. done /\ (k + 1) - 1 = k /\ c[k] \in Accounted
      BY <1>12
    <2>2. c[k + 1] = Buffer(c[k], todo[k + 1])
      BY <1>10, <2>1
    <2>3. c[k + 1] \in Accounted
      BY <1>1, <1>2, <2>1, <2>2
    <2>4. QED
      BY <2>1, <2>3
  <1>13. c[done] \in Accounted
    <2> HIDE DEF S
    <2>1. \A k \in 0 .. done : k \in S
      BY <1>2, <1>11, <1>12, IntervalInduction
    <2>2. QED
      BY <1>2, <2>1 DEF S
  <1>14. PICK m \in Accounted : mem' = [m EXCEPT !.ok = TRUE]
    <2>1. \A a \in next : Partial(c[done], a) \subseteq Accounted
      BY <1>1, <1>13
    <2>2. QED
      BY <1>3, <1>13, <2>1
  <1>15. QED
    BY <1>14, OkIrrelevant

-----------------------------------------------------------------------------
(* The account is right until the object is gone, when nothing is left; a   *)
(* temporary file belongs to an array that jpeg_abort and jpeg_destroy find.*)
Requested == Listed(virt_sarray_list) \cup Listed(virt_barray_list)

SpaceInv ==
  /\ status # "gone" => mem \in Accounted
  /\ status = "gone" => mem.heap = 0
  /\ virt_sarray_list \in Seq(Arrays) /\ virt_barray_list \in Seq(Arrays)
  /\ \A a \in Arrays : b_s_open[a] => status # "gone" /\ a \in Requested

LEMMA SpaceInvImplies == SpaceInv => SpaceAccounted
  BY DEF SpaceInv, SpaceAccounted, Accounted

LEMMA InitSpace == ASSUME Init PROVE SpaceInv
  <1>1. <<>> \in Seq(Arrays)
    OBVIOUS
  <1>2. QED
    BY <1>1, EmptyAccounted DEF Init, SpaceInv

LEMMA CommitSpace ==
  ASSUME NEW m \in Accounted, Commit(m)
  PROVE  mem' \in Accounted /\ status' # "gone"
  BY OkIrrelevant DEF Commit

(* A step that neither moves the arrays nor opens files.                    *)
LEMMA PoolsAlone ==
  ASSUME SpaceInv, mem' \in Accounted, status # "gone", status' # "gone",
         virt_sarray_list' \in Seq(Arrays), virt_barray_list' \in Seq(Arrays),
         b_s_open' = b_s_open, Requested \subseteq Requested'
  PROVE  SpaceInv'
  BY DEF SpaceInv

LEMMA ListedGrows ==
  ASSUME NEW a \in Arrays, NEW s \in Seq(Arrays)
  PROVE  <<a>> \o s \in Seq(Arrays) /\ Listed(s) \subseteq Listed(<<a>> \o s)
  <1> DEFINE t == <<a>> \o s
  <1>1. t \in Seq(Arrays) /\ DOMAIN s = 1 .. Len(s) /\ DOMAIN t = 1 .. Len(s) + 1
        /\ \A k \in 1 .. Len(s) : t[k + 1] = s[k] /\ k + 1 \in 1 .. Len(s) + 1
    OBVIOUS
  <1> HIDE DEF t
  <1>2. Listed(s) \subseteq Listed(t)
    BY <1>1 DEF Listed
  <1>3. QED
    BY <1>1, <1>2 DEF t

LEMMA ObjectSpace ==
  ASSUME SpaceInv, NEW p \in PoolIds, AllocObject(p)
  PROVE  SpaceInv'
  <1>1. status = "open" /\ mem \in Accounted
    BY DEF AllocObject, SpaceInv
  <1>2. PICK size \in ObjectSizes, n \in 0 .. MaxRefusals :
           \/ Commit(AllocSmall(mem, p, size, n))
           \/ Commit(IF n = 0 THEN AllocLarge(mem, p, size) ELSE Refused(mem))
    BY DEF AllocObject
  <1>3. size \in Int /\ n \in Nat
    BY ArraysAssumption
  <1>4. /\ AllocSmall(mem, p, size, n) \in Accounted /\ AllocLarge(mem, p, size) \in Accounted
        /\ Refused(mem) \in Accounted
    BY <1>1, <1>3, SmallAccounted, LargeAccounted, RefusedAccounted
  <1>5. mem' \in Accounted /\ status' # "gone"
    <2>1. CASE Commit(AllocSmall(mem, p, size, n))
      BY <1>4, <2>1, CommitSpace
    <2>2. CASE Commit(IF n = 0 THEN AllocLarge(mem, p, size) ELSE Refused(mem))
      BY <1>4, <2>2, CommitSpace
    <2>3. QED
      BY <1>2, <2>1, <2>2
  <1>6. UNCHANGED <<virt_sarray_list, virt_barray_list, b_s_open>>
    BY DEF AllocObject, lists
  <1>7. QED
    BY <1>1, <1>5, <1>6, PoolsAlone DEF SpaceInv, Requested

LEMMA RequestSpace ==
  ASSUME SpaceInv, NEW a \in Arrays, RequestVirtSArray(a) \/ RequestVirtBArray(a)
  PROVE  SpaceInv'
  <1>1. status = "open" /\ mem \in Accounted
        /\ virt_sarray_list \in Seq(Arrays) /\ virt_barray_list \in Seq(Arrays)
    BY DEF RequestVirtSArray, RequestVirtBArray, SpaceInv
  <1>2. mem' \in Accounted /\ status' # "gone"
    <2>1. AllocSmall(mem, IMAGE, ControlSize, 0) \in Accounted
      BY <1>1, PoolNames, ArraysAssumption, SmallAccounted
    <2>2. Commit(AllocSmall(mem, IMAGE, ControlSize, 0))
      BY DEF RequestVirtSArray, RequestVirtBArray
    <2>3. QED
      BY <2>1, <2>2, CommitSpace
  <1>3. /\ b_s_open' = b_s_open
        /\ virt_sarray_list' \in {virt_sarray_list, <<a>> \o virt_sarray_list}
        /\ virt_barray_list' \in {virt_barray_list, <<a>> \o virt_barray_list}
    BY DEF RequestVirtSArray, RequestVirtBArray
  <1>4. /\ virt_sarray_list' \in Seq(Arrays)
        /\ Listed(virt_sarray_list) \subseteq Listed(virt_sarray_list')
    BY <1>1, <1>3, ListedGrows
  <1>5. /\ virt_barray_list' \in Seq(Arrays)
        /\ Listed(virt_barray_list) \subseteq Listed(virt_barray_list')
    BY <1>1, <1>3, ListedGrows
  <1>6. Requested \subseteq Requested'
    BY <1>4, <1>5 DEF Requested
  <1>7. QED
    BY <1>1, <1>2, <1>3, <1>4, <1>5, <1>6, PoolsAlone

(* realize_virt_arrays opens files for arrays of the lists only.            *)
LEMMA RealizeSpace ==
  ASSUME SpaceInv, Realize
  PROVE  SpaceInv'
  <1> DEFINE todo == Unrealized
             h    == MaxMinHeights(Unrealized)
  <1>1. status = "open" /\ mem \in Accounted
        /\ virt_sarray_list \in Seq(Arrays) /\ virt_barray_list \in Seq(Arrays)
    BY DEF Realize, SpaceInv
  <1>2. virt_sarray_list \in Seq(Requested) /\ virt_barray_list \in Seq(Requested)
        /\ Requested \subseteq Arrays
    BY <1>1 DEF Requested, Listed
  <1>3. todo \in Seq(Requested) /\ todo \in Seq(Arrays)
    <2>1. todo \in Seq(Requested)
      BY <1>2, UnrealizedListed
    <2>2. QED
      BY <1>2, <2>1
  <1>4. h \in Nat \ {0}
    BY HeightsPositive
  <1>5. PICK done \in 0 .. Len(todo), n \in 0 .. MaxRefusals :
        \E next \in IF done < Len(todo) THEN {{todo[done + 1]}} ELSE {{}} :
        \E opened \in {{}, NeedFile(next, h)} :
          /\ AllocBuffers(todo, h, done, n, next, opened)
          /\ status' = IF next = {} THEN "open" ELSE "error"
          /\ GetBuffers({a \in Listed(SubSeq(todo, 1, done)) : ~realized[a]}, opened, h)
    BY Zenon DEF Realize
  <1>6. UNCHANGED <<virt_sarray_list, virt_barray_list>>
    BY DEF Realize, lists
  <1> HIDE DEF todo, h
  <1>7. PICK next \in IF done < Len(todo) THEN {{todo[done + 1]}} ELSE {{}} :
        \E opened \in {{}, NeedFile(next, h)} :
          /\ AllocBuffers(todo, h, done, n, next, opened)
          /\ status' = IF next = {} THEN "open" ELSE "error"
          /\ GetBuffers({a \in Listed(SubSeq(todo, 1, done)) : ~realized[a]}, opened, h)
    BY <1>5, Zenon
  <1>8. PICK opened \in {{}, NeedFile(next, h)} :
          /\ AllocBuffers(todo, h, done, n, next, opened)
          /\ status' = IF next = {} THEN "open" ELSE "error"
          /\ GetBuffers({a \in Listed(SubSeq(todo, 1, done)) : ~realized[a]}, opened, h)
    BY <1>7, Zenon
  <1>9. next \subseteq Requested
    <2>1. done < Len(todo) => todo[done + 1] \in Requested
      BY <1>3
    <2>2. QED
      BY <1>7, <2>1
  <1>10. opened \subseteq Requested
    BY <1>8, <1>9 DEF NeedFile
  <1>11. Listed(SubSeq(todo, 1, done)) \subseteq Requested
    <2> DEFINE s == SubSeq(todo, 1, done)
    <2>1. s \in Seq(Requested)
      BY <1>3
    <2> HIDE DEF s
    <2>2. \A k \in DOMAIN s : s[k] \in Requested
      BY <2>1
    <2>3. QED
      BY <2>2 DEF s, Listed
  <1>12. mem' \in Accounted
    <2>1. n \in Nat /\ next \subseteq Arrays
      BY <1>2, <1>9, ArraysAssumption
    <2>2. QED
      BY <1>1, <1>3, <1>4, <1>8, <2>1, BuffersAccounted
  <1>13. status' # "gone"
    BY <1>8
  <1>14. ASSUME NEW a \in Arrays, b_s_open'[a] PROVE a \in Requested'
    <2>1. b_s_open[a] \/ a \in opened \/ a \in Listed(SubSeq(todo, 1, done))
      BY <1>8, <1>14 DEF GetBuffers
    <2>2. a \in Requested
      BY <1>10, <1>11, <2>1 DEF SpaceInv
    <2>3. QED
      BY <1>6, <2>2 DEF Requested
  <1>15. QED
    BY <1>1, <1>6, <1>12, <1>13, <1>14 DEF SpaceInv

LEMMA ReleaseSpace ==
  ASSUME SpaceInv, Abort \/ Destroy
  PROVE  SpaceInv'
  <1>1. status # "gone" /\ mem \in Accounted /\ CloseArrays /\ IMAGE \in PoolIds
        /\ PERMANENT \in PoolIds \ {IMAGE} /\ IMAGE \in PoolIds \ {PERMANENT}
    BY PoolNames DEF Abort, Destroy, SpaceInv
  <1>2. /\ virt_sarray_list' = <<>> /\ virt_barray_list' = <<>>
        /\ <<>> \in Seq(Arrays)
    BY <1>1 DEF CloseArrays
  <1>3. \A a \in Arrays : ~b_s_open'[a]
    BY <1>1 DEF CloseArrays, SpaceInv, Requested
  <1> DEFINE r == FreeObjects(mem, IMAGE)
             q == FreeObjects(r, PERMANENT)
  <1>4. r \in Accounted /\ PoolSpace(r, IMAGE) = 0
    BY <1>1, FreedAccounted
  <1> HIDE DEF r
  <1>5. q \in Accounted /\ PoolSpace(q, PERMANENT) = 0 /\ PoolSpace(q, IMAGE) = PoolSpace(r, IMAGE)
    BY <1>1, <1>4, FreedAccounted
  <1>6. q.heap = MgrSize /\ q \in Memory /\ MgrSize \in Int
    BY <1>4, <1>5, PoolsAssumption DEF Accounted
  <1>7. CASE Abort
    <2>1. mem' = r /\ status' = "open"
      BY <1>7 DEF Abort, r
    <2>2. QED
      BY <1>2, <1>3, <1>4, <2>1 DEF SpaceInv
  <1>8. CASE Destroy
    <2>1. mem' = [q EXCEPT !.heap = @ - MgrSize] /\ status' = "gone"
      BY <1>8 DEF Destroy, r
    <2> HIDE DEF q
    <2>2. mem'.heap = 0
      BY <1>6, <2>1 DEF Memory
    <2>3. QED
      BY <1>2, <1>3, <2>1, <2>2 DEF SpaceInv
  <1>9. QED
    BY <1>7, <1>8

LEMMA NextSpace == SpaceInv /\ [Next]_vars => SpaceInv'
  <1> SUFFICES ASSUME SpaceInv, [Next]_vars PROVE SpaceInv'
    OBVIOUS
  <1>1. ASSUME NEW p \in PoolIds, AllocObject(p) PROVE SpaceInv'
    BY <1>1, ObjectSpace
  <1>2. ASSUME NEW a \in Arrays, RequestVirtSArray(a) \/ RequestVirtBArray(a) PROVE SpaceInv'
    BY <1>2, RequestSpace
  <1>3. ASSUME NEW a \in Arrays, AccessVirtSArray(a) \/ AccessVirtBArray(a) PROVE SpaceInv'
    <2>1. status = "open" /\ status' \in {"open", "error"}
          /\ UNCHANGED <<mem, virt_sarray_list, virt_barray_list, b_s_open>>
      BY <1>3 DEF AccessVirtSArray, AccessVirtBArray, Access, AccessFails, lists
    <2>2. QED
      BY <2>1, PoolsAlone DEF SpaceInv, Requested
  <1>4. ASSUME NEW a \in Arrays, NEW r \in Rows(a), NEW v \in NewValues, Modify(a, r, v)
        PROVE  SpaceInv'
    <2>1. status = "open" /\ status' = "open"
          /\ UNCHANGED <<mem, virt_sarray_list, virt_barray_list, b_s_open>>
      BY <1>4 DEF Modify, lists
    <2>2. QED
      BY <2>1, PoolsAlone DEF SpaceInv, Requested
  <1>5. CASE UNCHANGED vars
    BY <1>5 DEF vars, lists, SpaceInv, Requested
  <1>6. QED
    BY <1>1, <1>2, RealizeSpace, <1>3, <1>4, <1>5, ReleaseSpace, Zenon DEF Next
-----------------------------------------------------------------------------
(* The inductive invariant holds of every behaviour of the manager.         *)
THEOREM Invariance == Spec => []IInv
  BY InitIInv, NextKeeps, PTL DEF Spec

(* The state of the manager has its types, and the strip a coder holds lies *)
(* in the rows that were allocated, after every move of the window.         *)
THEOREM TypeCorrect == Spec => []TypeOK
  BY Invariance, IInvImplies, PTL

(* A window that is not marked dirty agrees with the temporary file on every*)
(* row that has been written, so that moving it without saving loses nothing*)
THEOREM WindowsSaved == Spec => []CleanWindowSaved
  BY Invariance, IInvImplies, PTL

(* The virtual arrays are arrays of full height, whatever memory there was: *)
(* to get a strip changes none of the rows that have been written, and what *)
(* a coder puts in the strip it holds for writing is put in its rows.       *)
THEOREM ArraysImplemented == Spec => ImplementsStoredArray
  <1>1. Spec => [][StoredArrays!StoredNext]_<<Contents, Strips>>
    BY Invariance, NextImplements, PTL DEF Spec
  <1>2. Spec => StoredArrays!StoredInit
    BY InitContents DEF Spec
  <1>3. QED
    BY <1>1, <1>2, PTL DEF ImplementsStoredArray, StoredArrays!StoredSpec

(* A row is, until the arrays are released, what the coder that held it for *)
(* writing put there last: no access, allocation or failure changes it.     *)
THEOREM RowsStay == Spec => RowsKept
  <1>1. IInv /\ [Next]_vars => [KeepsRows]_vars
    BY NextKeepsRows
  <1>2. QED
    BY <1>1, Invariance, PTL DEF Spec, RowsKept

(* total_space_allocated is what the system has given, whatever was asked,  *)
(* refused or left half done by an error, and jpeg_destroy gives all of it  *)
(* back and deletes every temporary file.                                   *)
THEOREM SpaceReturned == Spec => []SpaceAccounted
  BY InitSpace, NextSpace, SpaceInvImplies, PTL DEF Spec
=============================================================================
