---------------------------- MODULE StoredArray ----------------------------
(* What the virtual arrays of jmemmgr.c promise to the coders: an array of  *)
(* full height, whatever part of it is in memory. A coder gets a strip of   *)
(* rows; getting it changes no row that has had a writer. What is put in a  *)
(* row is put there by the coder that holds it for writing, and stays until *)
(* the array is released. A row is undefined until its first writer claims  *)
(* it; it is then zero if the array was requested so.                       *)
EXTENDS Integers

CONSTANTS Arrays, RowsInArray, PreZero, Values, NewValues, Undefined

VARIABLES contents,
          strips      \* the strip a coder got last: [lo, hi, writable]

RowsOf(a) == 0 .. RowsInArray[a] - 1
Defined(a) == {r \in RowsOf(a) : contents[a][r] # Undefined}

Nothing == [lo |-> 0, hi |-> 0, writable |-> FALSE]
Strip(lo, hi, writable) == [lo |-> lo, hi |-> hi, writable |-> writable]

StoredInit ==
  /\ contents = [a \in Arrays |-> [r \in RowsOf(a) |-> Undefined]]
  /\ strips = [a \in Arrays |-> Nothing]

(* Rows lo..hi-1: a writer leaves no gap before them, a reader finds them   *)
(* defined, or zero. Those that a writer is the first to get are claimed.   *)
Get(a, lo, hi, writable) ==
  LET strip   == lo .. hi - 1
      claimed == IF writable THEN strip \ Defined(a) ELSE {}
  IN /\ strips' = [strips EXCEPT ![a] = Strip(lo, hi, writable)]
     /\ IF writable THEN 0 .. lo - 1 \subseteq Defined(a)
                    ELSE PreZero[a] \/ strip \subseteq Defined(a)
     /\ \A r \in claimed : contents'[a][r] \in IF PreZero[a] THEN {0} ELSE Values
     /\ contents' = [contents EXCEPT ![a] =
          [r \in RowsOf(a) |-> IF r \in claimed THEN contents'[a][r] ELSE contents[a][r]]]

(* A strip that cannot be had: the one held before is lost with it.         *)
Refuse(a) == /\ strips' = [strips EXCEPT ![a] = Nothing]
             /\ UNCHANGED contents

(* A coder writes one row of the strip it holds for writing.                *)
Put(a, r, v) == /\ strips[a].writable /\ r \in strips[a].lo .. strips[a].hi - 1
                /\ r \in Defined(a)
                /\ contents' = [contents EXCEPT ![a][r] = v]
                /\ UNCHANGED strips

Release == /\ contents' = [a \in Arrays |-> [r \in RowsOf(a) |-> Undefined]]
           /\ strips' = [a \in Arrays |-> Nothing]

StoredNext ==
  \/ \E a \in Arrays : \E lo, hi \in 0 .. RowsInArray[a], writable \in BOOLEAN :
       lo < hi /\ Get(a, lo, hi, writable)
  \/ \E a \in Arrays : Refuse(a)
  \/ \E a \in Arrays : \E r \in RowsOf(a), v \in NewValues : Put(a, r, v)
  \/ Release

StoredSpec == StoredInit /\ [][StoredNext]_<<contents, strips>>
============================================================================
