------------------------------ MODULE PageStore ------------------------------
(***************************************************************************)
(* What the HTML cache of one album promises, with no file, no clock and   *)
(* no validity test: builders draft a page section by section where nobody *)
(* reads it, and the slot of a page (the file a request includes) changes  *)
(* only by receiving a draft that has its last section, in one step, or by *)
(* being emptied.  A reader of a slot therefore never sees a page being    *)
(* written.  HtmlCache implements this specification.                      *)
(***************************************************************************)
EXTENDS Naturals

CONSTANTS
  Pages,      \* the cache keys of the album
  Builders,   \* the processes that may build a page
  NSections,  \* the number of sections of a page
  Contents,   \* what a section may hold
  None        \* no page, no draft

VARIABLES
  slot,  \* slot[p]: the sections of the page served for key p, or None
  draft  \* draft[b]: the sections builder b has written so far, or None

storeVars == <<slot, draft>>

StoreInit ==
  /\ slot = [p \in Pages |-> None]
  /\ draft = [b \in Builders |-> None]

(* Builder b writes section s, after the sections it has.                  *)
Write(b, s, c) ==
  /\ IF draft[b] = None
     THEN draft' = [draft EXCEPT ![b] = [t \in 1..NSections |-> IF t = s THEN c ELSE None]]
     ELSE /\ \A t \in 1..NSections : draft[b][t] # None => t < s
          /\ draft' = [draft EXCEPT ![b][s] = c]
  /\ UNCHANGED slot

(* The draft of b, which has the last section, becomes page p.             *)
Publish(b, p) ==
  /\ draft[b] # None
  /\ draft[b][NSections] # None
  /\ slot' = [slot EXCEPT ![p] = draft[b]]
  /\ draft' = [draft EXCEPT ![b] = None]

Discard(b) ==
  /\ draft' = [draft EXCEPT ![b] = None]
  /\ UNCHANGED slot

Withdraw(p) ==
  /\ slot' = [slot EXCEPT ![p] = None]
  /\ UNCHANGED draft

StoreNext ==
  \/ \E b \in Builders :
       \/ \E s \in 1..NSections, c \in Contents : Write(b, s, c)
       \/ \E p \in Pages : Publish(b, p)
       \/ Discard(b)
  \/ \E p \in Pages : Withdraw(p)

StoreSpec == StoreInit /\ [][StoreNext]_storeVars
=============================================================================
