----------------------------- MODULE JpegMemory -----------------------------
(* The memory manager of libjpeg (jmemmgr.c) over the system-dependent part *)
(* with temporary files (jmemansi.c) or without (jmemnobs.c, which RIG      *)
(* links), and jpeg_abort and jpeg_destroy (jcomapi.c). A virtual array has *)
(* a window of rows in memory and the whole of it in a temporary file when  *)
(* it does not fit. ERREXIT leaves the object to jpeg_abort or jpeg_destroy.*)
EXTENDS JpegPools

CONSTANTS SArrays, BArrays,   \* virtual sample arrays, coefficient arrays
          RowsInArray, MaxAccess, RowSize, PreZero,    \* by virtual array
          ControlSize,        \* SIZEOF(struct jvirt_sarray_control)
          Values, NewValues,  \* contents of a row, 0 when zeroed; what coders write
          Junk,               \* a row the manager never filled
          Undefined,          \* a row that has had no writer
          MemorySettings,     \* max_memory_to_use; NoBackingStore: jmemnobs.c
          NoBackingStore,
          ObjectSizes,        \* what the coders ask for
          MaxRefusals,        \* bound: refusals of the system in one request
          MaxSpace,           \* bound: no coder request above it
          MaxRows             \* bound: rows of the arrays requested together

Arrays == SArrays \cup BArrays
Rows(a) == 0 .. RowsInArray[a] - 1

ASSUME ArraysAssumption ==
  /\ SArrays \cap BArrays = {}
  /\ RowsInArray \in [Arrays -> Nat \ {0}] /\ MaxAccess \in [Arrays -> Nat \ {0}]
  /\ RowSize \in [Arrays -> Nat \ {0}] /\ PreZero \in [Arrays -> BOOLEAN]
  /\ 0 \in Values /\ NewValues \subseteq Values /\ Junk \in Values /\ Undefined \notin Values
  /\ MemorySettings \subseteq Int
  /\ \A a \in Arrays : RowSize[a] <= MaxAllocChunk - Header   \* else JERR_WIDTH_OVERFLOW
  /\ ControlSize \in Nat /\ ObjectSizes \subseteq Nat
  /\ MaxRefusals \in Nat

VARIABLES status,              \* "open", "error" after ERREXIT, "gone"
          max_memory_to_use,
          mem,                 \* the pools
          virt_sarray_list, virt_barray_list,   \* requested, latest first
          realized,            \* mem_buffer # NULL
          rows_in_mem, rowsperchunk, cur_start_row, first_undef_row,
          dirty, b_s_open,
          mem_buffer,          \* rows in memory, 0 .. rows_in_mem-1
          temp_file,           \* rows in the temporary file
          held                 \* the strip a coder got last: [lo, hi, writable], and
                               \* where it starts in mem_buffer: at

lists == <<virt_sarray_list, virt_barray_list>>
window == <<rows_in_mem, rowsperchunk, cur_start_row, first_undef_row, dirty>>
stored == <<mem_buffer, temp_file>>
vars == <<status, max_memory_to_use, mem, lists, realized, window, b_s_open,
          stored, held>>

NoStrip == [lo |-> 0, hi |-> 0, writable |-> FALSE, at |-> 0]

Init ==
  /\ status = "open"
  /\ max_memory_to_use \in MemorySettings
  /\ mem = EmptyMemory
  /\ virt_sarray_list = <<>> /\ virt_barray_list = <<>>
  /\ realized = [a \in Arrays |-> FALSE]
  /\ rows_in_mem = [a \in Arrays |-> 1]
  /\ rowsperchunk = [a \in Arrays |-> 1]
  /\ cur_start_row = [a \in Arrays |-> 0]
  /\ first_undef_row = [a \in Arrays |-> 0]
  /\ dirty = [a \in Arrays |-> FALSE]
  /\ b_s_open = [a \in Arrays |-> FALSE]
  /\ mem_buffer = [a \in Arrays |-> [j \in Rows(a) |-> Junk]]
  /\ temp_file = [a \in Arrays |-> [r \in Rows(a) |-> Junk]]
  /\ held = [a \in Arrays |-> NoStrip]

(* An error exit, or the new memory if every request was satisfied.         *)
Commit(m) == /\ mem' = [m EXCEPT !.ok = TRUE]
             /\ status' = IF m.ok THEN "open" ELSE "error"

(* A coder asks for an object of one of its own structures.                 *)
AllocObject(p) ==
  /\ status = "open" /\ mem.total <= MaxSpace
  /\ \E size \in ObjectSizes, n \in 0 .. MaxRefusals :
       \/ Commit(AllocSmall(mem, p, size, n))
       \/ Commit(IF n = 0 THEN AllocLarge(mem, p, size) ELSE Refused(mem))
  /\ UNCHANGED <<max_memory_to_use, lists, realized, window, b_s_open, stored, held>>

Listed(s) == {s[k] : k \in DOMAIN s}

WithinBound(a) ==
  SumOver(<<a>> \o virt_sarray_list \o virt_barray_list,
          LAMBDA x : RowsInArray[x]) <= MaxRows

RequestVirtSArray(a) ==
  /\ status = "open" /\ a \in SArrays \ Listed(virt_sarray_list) /\ WithinBound(a)
  /\ Commit(AllocSmall(mem, IMAGE, ControlSize, 0))
  /\ virt_sarray_list' = IF status' = "open" THEN <<a>> \o virt_sarray_list
                                             ELSE virt_sarray_list
  /\ UNCHANGED <<max_memory_to_use, virt_barray_list, realized, window, b_s_open,
                 stored, held>>

RequestVirtBArray(a) ==
  /\ status = "open" /\ a \in BArrays \ Listed(virt_barray_list) /\ WithinBound(a)
  /\ Commit(AllocSmall(mem, IMAGE, ControlSize, 0))
  /\ virt_barray_list' = IF status' = "open" THEN <<a>> \o virt_barray_list
                                             ELSE virt_barray_list
  /\ UNCHANGED <<max_memory_to_use, virt_sarray_list, realized, window, b_s_open,
                 stored, held>>

(* jpeg_mem_available.                                                      *)
MemAvailable(maximum) == IF max_memory_to_use = NoBackingStore THEN maximum
                         ELSE max_memory_to_use - mem.total

(* The arrays without a buffer, in the order of the lists.                  *)
Unrealized ==
  LET all == virt_sarray_list \o virt_barray_list
      todo[k \in 0 .. Len(all)] == IF k = 0 THEN <<>>
                                   ELSE IF realized[all[k]] THEN todo[k - 1]
                                   ELSE Append(todo[k - 1], all[k])
  IN todo[Len(all)]

MinSpace(a) == MaxAccess[a] * RowSize[a]
FullSpace(a) == RowsInArray[a] * RowSize[a]

Unlimited == 1000000000

MaxMinHeights(todo) ==
  LET avail == MemAvailable(SumOver(todo, FullSpace))
      fit   == avail \div SumOver(todo, MinSpace)
  IN IF avail >= SumOver(todo, FullSpace) THEN Unlimited
     ELSE IF fit \in Nat \ {0} THEN fit ELSE 1

Fits(a, heights) == (RowsInArray[a] - 1) \div MaxAccess[a] + 1 <= heights

RowsInMem(a, heights) == IF Fits(a, heights) THEN RowsInArray[a]
                         ELSE heights * MaxAccess[a]

(* The arrays of `good` get a buffer, and a temporary file if need be, and  *)
(* those of `opened` a temporary file only.                                 *)
GetBuffers(good, opened, heights) ==
  /\ realized' = [a \in Arrays |-> realized[a] \/ a \in good]
  /\ rows_in_mem' = [a \in Arrays |->
       IF a \in good THEN RowsInMem(a, heights) ELSE rows_in_mem[a]]
  /\ rowsperchunk' = [a \in Arrays |->
       IF a \in good THEN RowsPerChunk(RowSize[a], RowsInMem(a, heights)) ELSE rowsperchunk[a]]
  /\ cur_start_row' = [a \in Arrays |-> IF a \in good THEN 0 ELSE cur_start_row[a]]
  /\ first_undef_row' = [a \in Arrays |-> IF a \in good THEN 0 ELSE first_undef_row[a]]
  /\ dirty' = [a \in Arrays |-> IF a \in good THEN FALSE ELSE dirty[a]]
  /\ b_s_open' = [a \in Arrays |-> \/ b_s_open[a] \/ a \in opened
                                   \/ a \in good /\ ~Fits(a, heights)]

(* The arrays of these that need a temporary file.                          *)
NeedFile(S, heights) == {a \in S : ~Fits(a, heights)}

(* The memory once the first `done` arrays have their buffers; the next one,*)
(* if any, fails, with some of its rows allocated if its file was opened.   *)
AllocBuffers(todo, heights, done, n, next, opened) ==
  LET Buffer(m, a) ==
        IF a \in SArrays
        THEN AllocSArray(m, IMAGE, RowSize[a], RowsInMem(a, heights), n)
        ELSE AllocBArray(m, IMAGE, RowSize[a], RowsInMem(a, heights), n)
      Partial(m, a) ==
        {m} \cup {AllocRows(m, IMAGE, RowSize[a], RowsInMem(a, heights), n, upto) :
                    upto \in 0 .. RowsInMem(a, heights) - 1}
      memory[k \in 0 .. done] ==
        IF k = 0 THEN mem ELSE Buffer(memory[k - 1], todo[k])
  IN /\ memory[done].ok
     /\ \E m \in IF next # {} /\ NeedFile(next, heights) = opened
                 THEN UNION {Partial(memory[done], a) : a \in next}
                 ELSE {memory[done]} :
          mem' = [m EXCEPT !.ok = TRUE]

(* realize_virt_arrays: the arrays in the order of the lists. The first     *)
(* `done` of them that have none get their buffer; the next one, if any,    *)
(* fails to, perhaps with its temporary file open (opened).                 *)
Realize ==
  LET todo == Unrealized
      heights == MaxMinHeights(todo)
  IN
  /\ status = "open" /\ todo # <<>>
  /\ \E done \in 0 .. Len(todo), n \in 0 .. MaxRefusals :
     \E next \in IF done < Len(todo) THEN {{todo[done + 1]}} ELSE {{}} :
     \E opened \in {{}, NeedFile(next, heights)} :
       /\ AllocBuffers(todo, heights, done, n, next, opened)
       /\ status' = IF next = {} THEN "open" ELSE "error"
       /\ GetBuffers({a \in Listed(SubSeq(todo, 1, done)) : ~realized[a]}, opened, heights)
  /\ UNCHANGED <<max_memory_to_use, lists, stored, held>>

(* Mutant of Moved: the last row that is defined is left out.               *)
MovedLess(a, start, j) ==
  /\ j \in 0 .. rows_in_mem[a] - 1
  /\ j < first_undef_row[a] - 1 - start

(* do_sarray_io: whether row j of the buffer is moved when the window starts*)
(* at row `start`: its chunk starts at row i, and the chunk is cut where the*)
(* buffer, the defined rows and the array end.                              *)
Moved(a, start, j) ==
  LET i == (j \div rowsperchunk[a]) * rowsperchunk[a]
  IN /\ j \in 0 .. rows_in_mem[a] - 1
     /\ j - i < rowsperchunk[a]
     /\ j - i < rows_in_mem[a] - i
     /\ j - i < first_undef_row[a] - (start + i)
     /\ j - i < RowsInArray[a] - (start + i)

FileWritten(a) ==
  [r \in Rows(a) |-> IF Moved(a, cur_start_row[a], r - cur_start_row[a])
                     THEN mem_buffer[a][r - cur_start_row[a]] ELSE temp_file[a][r]]

(* Mutant of BufferRead: the rows are read before the window is flushed.    *)
BufferReadFirst(a, start, file) ==
  [j \in Rows(a) |-> IF Moved(a, start, j) THEN temp_file[a][start + j]
                                           ELSE mem_buffer[a][j]]

BufferRead(a, start, file) ==
  [j \in Rows(a) |-> IF Moved(a, start, j) THEN file[start + j] ELSE mem_buffer[a][j]]

(* Mutant of OutsideWindow: only the first row of the strip is looked at.   *)
StartsOutsideWindow(a, lo, hi) ==
  lo < cur_start_row[a] \/ lo >= cur_start_row[a] + rows_in_mem[a]

OutsideWindow(a, lo, hi) ==
  lo < cur_start_row[a] \/ hi > cur_start_row[a] + rows_in_mem[a]

(* Where the window goes for rows lo..hi-1: forward scan, else backward.    *)
NewStart(a, lo, hi) ==
  IF lo > cur_start_row[a] THEN lo ELSE Greatest(hi - rows_in_mem[a], 0)

BadAccess(a, lo, hi, writable) ==
  \/ hi > RowsInArray[a] \/ hi - lo > MaxAccess[a] \/ ~realized[a]
  \/ OutsideWindow(a, lo, hi) /\ ~b_s_open[a]
  \/ first_undef_row[a] < lo /\ writable
  \/ first_undef_row[a] < hi /\ ~PreZero[a] /\ ~writable

(* Mutant of DirtyAfter: a reader forgets what was written before it.       *)
DirtyIfWriter(a, moves, writable) == writable

DirtyAfter(a, moves, writable) == writable \/ (dirty[a] /\ ~moves)

(* access_virt_sarray, and the error exits of it and of the file's calls.   *)
Access(a, lo, hi, writable) ==
  LET moves == OutsideWindow(a, lo, hi)
      start == IF moves THEN NewStart(a, lo, hi) ELSE cur_start_row[a]
      file  == IF moves /\ dirty[a] THEN FileWritten(a) ELSE temp_file[a]
      rows  == IF moves THEN BufferRead(a, start, file) ELSE mem_buffer[a]
      undef == Greatest(first_undef_row[a], lo)
  IN
  /\ ~BadAccess(a, lo, hi, writable)
  /\ temp_file' = [temp_file EXCEPT ![a] = file]
  /\ cur_start_row' = [cur_start_row EXCEPT ![a] = start]
  /\ mem_buffer' = [mem_buffer EXCEPT ![a] =
       [j \in Rows(a) |-> IF PreZero[a] /\ j \in undef - start .. hi - start - 1
                          THEN 0 ELSE rows[j]]]
  /\ first_undef_row' = [first_undef_row EXCEPT ![a] =
       IF writable THEN Greatest(@, hi) ELSE @]
  /\ dirty' = [dirty EXCEPT ![a] = DirtyAfter(a, moves, writable)]
  /\ held' = [held EXCEPT ![a] = [lo |-> lo, hi |-> hi, writable |-> writable, at |-> lo - start]]
  /\ UNCHANGED <<status, max_memory_to_use, mem, lists, realized, rows_in_mem,
                 rowsperchunk, b_s_open>>

AccessFails(a, lo, hi, writable) ==
  /\ BadAccess(a, lo, hi, writable) \/ OutsideWindow(a, lo, hi)
  /\ status' = "error"
  /\ held' = [held EXCEPT ![a] = NoStrip]
  /\ UNCHANGED <<max_memory_to_use, mem, lists, realized, window, b_s_open, stored>>

AccessVirtSArray(a) ==
  /\ status = "open" /\ a \in SArrays
  /\ \E lo, hi \in 0 .. RowsInArray[a], writable \in BOOLEAN :
       /\ lo < hi
       /\ Access(a, lo, hi, writable) \/ AccessFails(a, lo, hi, writable)

AccessVirtBArray(a) ==
  /\ status = "open" /\ a \in BArrays
  /\ \E lo, hi \in 0 .. RowsInArray[a], writable \in BOOLEAN :
       /\ lo < hi
       /\ Access(a, lo, hi, writable) \/ AccessFails(a, lo, hi, writable)

(* A coder writes a row of the strip it holds for writing, where the pointer*)
(* it got points.                                                           *)
Modify(a, r, v) ==
  /\ status = "open"
  /\ held[a].writable /\ r \in held[a].lo .. held[a].hi - 1
  /\ mem_buffer' = [mem_buffer EXCEPT ![a][held[a].at + r - held[a].lo] = v]
  /\ UNCHANGED <<status, max_memory_to_use, mem, lists, realized, window, b_s_open,
                 temp_file, held>>

NoWindows ==   \* the control blocks and the buffers are gone
  /\ realized' = [a \in Arrays |-> FALSE]
  /\ rows_in_mem' = [a \in Arrays |-> 1]
  /\ rowsperchunk' = [a \in Arrays |-> 1]
  /\ cur_start_row' = [a \in Arrays |-> 0]
  /\ first_undef_row' = [a \in Arrays |-> 0]
  /\ dirty' = [a \in Arrays |-> FALSE]
  /\ mem_buffer' = [a \in Arrays |-> [j \in Rows(a) |-> Junk]]
  /\ temp_file' = [a \in Arrays |-> [r \in Rows(a) |-> Junk]]
  /\ held' = [a \in Arrays |-> NoStrip]

CloseArrays ==
  /\ b_s_open' = [a \in Arrays |->
       b_s_open[a] /\ a \notin Listed(virt_sarray_list) \cup Listed(virt_barray_list)]
  /\ virt_sarray_list' = <<>> /\ virt_barray_list' = <<>>
  /\ NoWindows /\ UNCHANGED max_memory_to_use

(* jpeg_abort: free_pool of the IMAGE pool; the object can be used again.   *)
Abort ==
  /\ status \in {"open", "error"}
  /\ mem' = FreeObjects(mem, IMAGE)
  /\ status' = "open"
  /\ CloseArrays

(* jpeg_destroy: self_destruct frees the pools, then its own block.         *)
Destroy ==
  /\ status \in {"open", "error"}
  /\ mem' = [FreeObjects(FreeObjects(mem, IMAGE), PERMANENT) EXCEPT
               !.heap = @ - MgrSize]
  /\ status' = "gone"
  /\ CloseArrays

Next ==
  \/ \E p \in PoolIds : AllocObject(p)
  \/ \E a \in Arrays : RequestVirtSArray(a) \/ RequestVirtBArray(a)
  \/ Realize
  \/ \E a \in Arrays : AccessVirtSArray(a) \/ AccessVirtBArray(a)
  \/ \E a \in Arrays : \E r \in Rows(a), v \in NewValues :
       Modify(a, r, v)
  \/ Abort
  \/ Destroy

Spec == Init /\ [][Next]_vars
-----------------------------------------------------------------------------
(* The strip a coder holds lies in the buffer that was allocated, and its   *)
(* pointer is still where the window has the rows.                          *)
HeldInWindow(a) ==
  status = "open" /\ held[a].lo < held[a].hi =>
    /\ realized[a]
    /\ cur_start_row[a] <= held[a].lo /\ held[a].at = held[a].lo - cur_start_row[a]
    /\ held[a].hi - cur_start_row[a] <= rows_in_mem[a]
    /\ rows_in_mem[a] <= RowsInArray[a]

(* Types, and the places of the strips.                                     *)
TypeOK ==
  /\ status \in {"open", "error", "gone"}
  /\ max_memory_to_use \in MemorySettings
  /\ realized \in [Arrays -> BOOLEAN]
  /\ rows_in_mem \in [Arrays -> Nat \ {0}]
  /\ rowsperchunk \in [Arrays -> Nat \ {0}]
  /\ cur_start_row \in [Arrays -> Nat]
  /\ first_undef_row \in [Arrays -> Nat]
  /\ dirty \in [Arrays -> BOOLEAN] /\ b_s_open \in [Arrays -> BOOLEAN]
  /\ \A a \in Arrays : /\ mem_buffer[a] \in [Rows(a) -> Values]
                       /\ temp_file[a] \in [Rows(a) -> Values]
                       /\ held[a] \in [lo : Nat, hi : Nat, writable : BOOLEAN, at : Nat]
                       /\ HeldInWindow(a)

(* Row r of a virtual array as a coder would get it now: in the window it is*)
(* what is in memory, elsewhere what is in the file.                        *)
InWindow(a, r) == r \in cur_start_row[a] .. cur_start_row[a] + rows_in_mem[a] - 1
Stored(a, r) ==
  IF r >= first_undef_row[a] THEN Undefined
  ELSE IF InWindow(a, r) THEN mem_buffer[a][r - cur_start_row[a]]
  ELSE temp_file[a][r]

Contents == [a \in Arrays |-> [r \in Rows(a) |-> Stored(a, r)]]

(* The window, its moves and its temporary file implement an array of full  *)
(* height: to get a strip changes no row that was written, and what is      *)
(* written to a strip is written to its rows (jmemmgr.c:755-837).           *)
Strips == [a \in Arrays |-> [lo |-> held[a].lo, hi |-> held[a].hi, writable |-> held[a].writable]]
StoredArrays == INSTANCE StoredArray WITH contents <- Contents, strips <- Strips
ImplementsStoredArray == StoredArrays!StoredSpec

(* A row keeps what the coder that wrote it last has put there: no other    *)
(* step changes it, no access to the same strip again, to another array or  *)
(* by a reader, no allocation and no failure, until the arrays are released.*)
KeepsRows ==
  \A a \in Arrays : \A r \in Rows(a) :
    /\ \A v \in NewValues : Modify(a, r, v) => Stored(a, r)' = v
    /\ Stored(a, r) \notin {Undefined, Stored(a, r)'} =>
         (\E v \in NewValues : Modify(a, r, v)) \/ Abort \/ Destroy
RowsKept == [][KeepsRows]_vars

(* A window that has not been written can be dropped without being saved:   *)
(* what it shares with the temporary file is the same in both.              *)
CleanWindowSaved ==
  status = "open" => \A a \in Arrays : b_s_open[a] /\ realized[a] /\ ~dirty[a] =>
    \A r \in Rows(a) : InWindow(a, r) /\ r < first_undef_row[a] =>
      temp_file[a][r] = mem_buffer[a][r - cur_start_row[a]]

(* total_space_allocated, from which the windows are sized, is what the     *)
(* system has given, and nothing is left when the object is destroyed, after*)
(* errors in the middle of realize_virt_arrays too: neither memory nor files*)
SpaceAccounted ==
  IF status = "gone" THEN mem.heap = 0 /\ \A a \in Arrays : ~b_s_open[a]
                     ELSE mem.total = mem.heap
=============================================================================
