--------------------------- MODULE ThumbCacheProofs ---------------------------
(***************************************************************************)
(* Proofs about ThumbCache, for any number of requests, thumbnails and     *)
(* blocks.                                                                 *)
(***************************************************************************)
EXTENDS ThumbCache, TLAPS

-----------------------------------------------------------------------------
(* Type correctness.                                                       *)

LEMMA Constants ==
  /\ Versions \subseteq Nat /\ 1 \in Versions
  /\ Hole \in 0..Icon /\ Icon \in 0..Icon
  /\ \A v \in Versions : v \in 0..Icon
  /\ Blocks \in Nat /\ Blocks > 0
  /\ 0 \in 0..Blocks
BY BlocksAssumption, BoundsAssumption DEF Versions, Hole, Icon

LEMMA InitType == Init => TypeOK
<1> SUFFICES ASSUME Init PROVE TypeOK
  OBVIOUS
<1>1. NoFile \in File
  BY Constants DEF NoFile, File
<1>2. IdleRequest \in Request
  BY DEF IdleRequest, Request
<1>3. NoEngine \in Engine
  BY Constants DEF NoEngine, Engine
<1>4. \A r \in Requests : req[r].pc = "idle" /\ engine[r].pc = "none"
  BY DEF Init, IdleRequest, NoEngine
<1> QED
  BY <1>1, <1>2, <1>3, <1>4, Constants DEF Init, TypeOK

(* A request and its engine change, and everything else keeps its type.    *)
LEMMA LocalType ==
  ASSUME TypeOK, NEW r \in Requests,
         NEW q \in Request, NEW e \in Engine, Becomes(r, q), Runs(r, e),
         q.pc \in {"exec", "timeout", "copy"} => q.thumb \in Thumbs,
         e.pc # "none" => e.thumb \in Thumbs,
         folder' \in BOOLEAN, cleaning' = cleaning, source' = source,
         file' \in [Thumbs -> File], disturbed' \in SUBSET Thumbs
  PROVE  TypeOK'
<1>1. req' \in [Requests -> Request] /\ engine' \in [Requests -> Engine]
  BY DEF TypeOK, Becomes, Runs
<1>2. ASSUME NEW p \in Requests
      PROVE  /\ req'[p].pc \in {"exec", "timeout", "copy"} => req'[p].thumb \in Thumbs
             /\ engine'[p].pc # "none" => engine'[p].thumb \in Thumbs
  <2>1. CASE p = r
    BY <2>1 DEF TypeOK, Becomes, Runs
  <2>2. CASE p # r
    <3>1. req'[p] = req[p] /\ engine'[p] = engine[p]
      BY <2>2 DEF TypeOK, Becomes, Runs
    <3> QED
      BY <3>1 DEF TypeOK
  <2> QED
    BY <2>1, <2>2
<1> QED
  BY <1>1, <1>2 DEF TypeOK
(* What a step of the request alone leaves.                                *)
LEMMA RequestStepType ==
  ASSUME TypeOK, NEW r \in Requests, NEW q \in Request, Becomes(r, q),
         q.pc \in {"exec", "timeout", "copy"} => q.thumb \in Thumbs,
         engine' = engine, folder' \in BOOLEAN, cleaning' = cleaning, source' = source,
         file' \in [Thumbs -> File], disturbed' \in SUBSET Thumbs
  PROVE  TypeOK'
<1>1. engine[r] \in Engine /\ Runs(r, engine[r])
  BY DEF TypeOK, Runs
<1>2. engine[r].pc # "none" => engine[r].thumb \in Thumbs
  BY DEF TypeOK
<1> QED
  BY <1>1, <1>2, LocalType

(* What a step of the engine alone leaves.                                 *)
LEMMA EngineStepType ==
  ASSUME TypeOK, NEW r \in Requests, NEW e \in Engine, Runs(r, e),
         e.pc # "none" => e.thumb \in Thumbs,
         UNCHANGED <<folder, source, req, cleaning>>,
         file' \in [Thumbs -> File], disturbed' \in SUBSET Thumbs
  PROVE  TypeOK'
<1>1. /\ req[r] \in Request /\ Becomes(r, req[r])
      /\ folder' \in BOOLEAN /\ cleaning' = cleaning /\ source' = source
  BY DEF TypeOK, Becomes
<1>2. req[r].pc \in {"exec", "timeout", "copy"} => req[r].thumb \in Thumbs
  BY DEF TypeOK
<1> QED
  BY <1>1, <1>2, LocalType

LEMMA Records ==
  /\ IdleRequest \in Request /\ NoEngine \in Engine
  /\ IdleRequest.pc = "idle" /\ NoEngine.pc = "none" /\ ~IdleRequest.linked /\ ~NoEngine.linked
<1>1. IdleRequest \in Request /\ NoEngine \in Engine
  BY Constants DEF IdleRequest, Request, NoEngine, Engine
<1>2. IdleRequest.pc = "idle" /\ NoEngine.pc = "none"
  BY DEF IdleRequest, NoEngine
<1>3. ~IdleRequest.linked /\ ~NoEngine.linked
  BY Zenon DEF IdleRequest, NoEngine
<1> QED
  BY <1>1, <1>2, <1>3, Zenon

(* The engine that Stop leaves.                                            *)
LEMMA Stopped ==
  ASSUME TypeOK, NEW r \in Requests, NEW s \in {0, 1, 3}, Stop(r, s)
  PROVE  \E e \in Engine : /\ Runs(r, e) /\ e.pc = "exit" /\ ~e.linked
                          /\ e.thumb = engine[r].thumb
<1>1. PICK b \in BOOLEAN : b = FALSE
  BY Zenon
<1>2. PICK e : e = [engine[r] EXCEPT !.pc = "exit", !.linked = b, !.status = s]
  OBVIOUS
<1>3. engine[r] \in Engine
  BY DEF TypeOK
<1>4. e \in Engine /\ e.pc = "exit" /\ e.linked = b /\ e.thumb = engine[r].thumb
  BY <1>2, <1>3 DEF Engine
<1>5. ~e.linked
  BY <1>1, <1>4, Zenon
<1>6. Runs(r, e)
  BY <1>1, <1>2, Zenon DEF Stop
<1> QED
  BY <1>4, <1>5, <1>6, Zenon

LEMMA StopType ==
  ASSUME TypeOK, NEW r \in Requests, NEW s \in {0, 1, 3}, Stop(r, s), engine[r].pc # "none",
         UNCHANGED <<folder, file, source, req, cleaning>>, disturbed' \in SUBSET Thumbs
  PROVE  TypeOK'
<1>1. PICK e \in Engine : Runs(r, e) /\ e.pc = "exit" /\ e.thumb = engine[r].thumb
  BY Stopped
<1>2. engine[r].thumb \in Thumbs /\ file' \in [Thumbs -> File]
  BY DEF TypeOK
<1> QED
  BY <1>1, <1>2, EngineStepType

(* The contents of a file that a writer changes.                           *)
LEMMA BlockWritten ==
  ASSUME file \in [Thumbs -> File], NEW t \in Thumbs, NEW k \in 1..Blocks, NEW v \in 0..Icon,
         file' = [file EXCEPT ![t].data[k] = v]
  PROVE  /\ file' \in [Thumbs -> File]
         /\ file'[t].there = file[t].there
         /\ file'[t].data[k] = v
         /\ \A i \in 1..Blocks : i # k => file'[t].data[i] = file[t].data[i]
         /\ \A u \in Thumbs : u # t => file'[u] = file[u]
<1>1. PICK d : d = [file[t].data EXCEPT ![k] = v]
  OBVIOUS
<1>2. /\ d \in [1..Blocks -> 0..Icon] /\ d[k] = v
      /\ \A i \in 1..Blocks : i # k => d[i] = file[t].data[i]
  BY <1>1 DEF File
<1>3. PICK f : f = [file[t] EXCEPT !.data = d]
  OBVIOUS
<1>4. f \in File /\ f.there = file[t].there /\ f.data = d
  BY <1>2, <1>3 DEF File
<1>5. file' = [file EXCEPT ![t] = f]
  BY <1>1, <1>3
<1> QED
  BY <1>2, <1>4, <1>5

LEMMA FileReplaced ==
  ASSUME file \in [Thumbs -> File], NEW t \in Thumbs, NEW f \in File,
         file' = [file EXCEPT ![t] = f]
  PROVE  file' \in [Thumbs -> File] /\ file'[t] = f /\ \A u \in Thumbs : u # t => file'[u] = file[u]
OBVIOUS

LEMMA Files ==
  /\ Empty \in File /\ NoFile \in File /\ ~NoFile.there
  /\ \A i \in 1..Blocks : Empty.data[i] = Hole
<1>1. Empty \in File /\ NoFile \in File
  BY Constants DEF Empty, NoFile, File
<1>2. ~NoFile.there
  BY Zenon DEF NoFile
<1>3. \A i \in 1..Blocks : Empty.data[i] = Hole
  BY DEF Empty
<1> QED
  BY <1>1, <1>2, <1>3, Zenon

(* CleanUnlink leaves the processes as they are, but for what is linked.   *)
LEMMA Unlinked ==
  ASSUME TypeOK, NEW t \in Thumbs, CleanUnlink(t), NEW p \in Requests
  PROVE  /\ req'[p] \in Request /\ engine'[p] \in Engine
         /\ req'[p].pc = req[p].pc /\ req'[p].thumb = req[p].thumb
         /\ engine'[p].pc = engine[p].pc /\ engine'[p].thumb = engine[p].thumb
         /\ engine'[p].version = engine[p].version /\ engine'[p].at = engine[p].at
         /\ req'[p].linked => req[p].linked
         /\ engine'[p].linked => engine[p].linked /\ engine[p].thumb # t
<1>1. req[p] \in Request /\ engine[p] \in Engine
  BY DEF TypeOK
<1>2. PICK a \in BOOLEAN, b \in BOOLEAN :
        a = (req[p].linked /\ req[p].thumb # t) /\ b = (engine[p].linked /\ engine[p].thumb # t)
  BY Zenon
<1>3. req'[p] = [req[p] EXCEPT !.linked = a] /\ engine'[p] = [engine[p] EXCEPT !.linked = b]
  BY <1>2, Zenon DEF CleanUnlink
<1>4. /\ req'[p] \in Request /\ engine'[p] \in Engine
      /\ req'[p].pc = req[p].pc /\ req'[p].thumb = req[p].thumb
      /\ engine'[p].pc = engine[p].pc /\ engine'[p].thumb = engine[p].thumb
      /\ engine'[p].version = engine[p].version /\ engine'[p].at = engine[p].at
      /\ req'[p].linked = a /\ engine'[p].linked = b
  BY <1>1, <1>3 DEF Request, Engine
<1>5. req'[p].linked => req[p].linked
  BY <1>2, <1>4, Zenon
<1>6. engine'[p].linked => engine[p].linked /\ engine[p].thumb # t
  BY <1>2, <1>4, Zenon
<1> QED
  BY <1>4, <1>5, <1>6, Zenon

LEMMA NextType == TypeOK /\ [Next]_vars => TypeOK'
<1> SUFFICES ASSUME TypeOK, [Next]_vars PROVE TypeOK'
  OBVIOUS
<1>u. CASE UNCHANGED vars
  BY <1>u DEF vars, TypeOK
<1>1. ASSUME NEW r \in Requests, Prepare(r) PROVE TypeOK'
  <2>1. PICK q : q = [req[r] EXCEPT !.pc = "page"]
    OBVIOUS
  <2>2. q \in Request /\ q.pc = "page" /\ Becomes(r, q)
    BY <1>1, <2>1 DEF TypeOK, Request, Prepare
  <2> QED
    BY <1>1, <2>2, RequestStepType DEF Prepare, TypeOK
<1>2. ASSUME NEW r \in Requests, NEW t \in Thumbs, Build(r, t) PROVE TypeOK'
  <2>1. PICK q, e : /\ q = [req[r] EXCEPT !.pc = "exec", !.thumb = t]
                    /\ e = [NoEngine EXCEPT !.pc = "read", !.thumb = t]
    OBVIOUS
  <2>2. q \in Request /\ q.thumb = t /\ e \in Engine /\ e.thumb = t
    BY <2>1, Records DEF TypeOK, Request, Engine
  <2>3. Becomes(r, q) /\ Runs(r, e)
    BY <1>2, <2>1 DEF Build
  <2> QED
    BY <1>2, <2>2, <2>3, LocalType DEF Build, TypeOK
<1>3. ASSUME NEW r \in Requests, Return(r) PROVE TypeOK'
  <2>1. PICK q : q = IF engine[r].status = 3 THEN [req[r] EXCEPT !.pc = "timeout"]
                     ELSE [req[r] EXCEPT !.pc = "page", !.thumb = None]
    OBVIOUS
  <2>2. req[r] \in Request /\ req[r].thumb \in Thumbs
    BY <1>3 DEF TypeOK, Return
  <2>3. q \in Request /\ (q.pc \in {"exec", "timeout", "copy"} => q.thumb \in Thumbs)
    BY <2>1, <2>2 DEF Request
  <2>4. Becomes(r, q) /\ Runs(r, NoEngine)
    BY <1>3, <2>1 DEF Return
  <2> QED
    BY <1>3, <2>3, <2>4, Records, LocalType DEF Return, TypeOK
<1>4. ASSUME NEW r \in Requests, Copy(r) PROVE TypeOK'
  <2>1. req[r] \in Request /\ req[r].thumb \in Thumbs
    BY <1>4 DEF TypeOK, Copy
  <2>2. PICK b \in BOOLEAN : b = TRUE
    BY Zenon
  <2>3. PICK q : q = [req[r] EXCEPT !.pc = "copy", !.linked = b]
    OBVIOUS
  <2>4. q \in Request /\ q.thumb = req[r].thumb
    BY <2>1, <2>3 DEF Request
  <2>5. Becomes(r, q)
    BY <1>4, <2>2, <2>3, Zenon DEF Copy
  <2>6. file' \in [Thumbs -> File] /\ disturbed' \in SUBSET Thumbs
    BY <1>4, <2>1, Files DEF Copy, TypeOK
  <2> QED
    BY <1>4, <2>1, <2>4, <2>5, <2>6, RequestStepType DEF Copy, TypeOK
<1>5. ASSUME NEW r \in Requests, CopyFails(r) PROVE TypeOK'
  <2>1. PICK q : q = [req[r] EXCEPT !.pc = "page", !.thumb = None]
    OBVIOUS
  <2>2. q \in Request /\ q.pc = "page" /\ Becomes(r, q)
    BY <1>5, <2>1 DEF TypeOK, Request, CopyFails
  <2> QED
    BY <1>5, <2>2, RequestStepType DEF CopyFails, TypeOK
<1>6. ASSUME NEW r \in Requests, Copied(r) PROVE TypeOK'
  <2>1. req[r].thumb \in Thumbs /\ 1 \in 1..Blocks
    BY <1>6, Constants DEF TypeOK, Copied
  <2>2. file' \in [Thumbs -> File]
    BY <1>6, <2>1, Constants, BlockWritten DEF Copied, TypeOK
  <2>3. PICK q : q = [IdleRequest EXCEPT !.pc = "page"]
    OBVIOUS
  <2>4. q \in Request /\ q.pc = "page" /\ Becomes(r, q)
    BY <1>6, <2>3, Records DEF Request, Copied
  <2> QED
    BY <1>6, <2>2, <2>4, RequestStepType DEF Copied, TypeOK
<1>7. ASSUME NEW r \in Requests, End(r) PROVE TypeOK'
  BY <1>7, Records, RequestStepType DEF End, TypeOK
<1>8. ASSUME NEW r \in Requests, Bury(r) PROVE TypeOK'
  BY <1>8, Records, EngineStepType DEF Bury, TypeOK
<1>9. ASSUME NEW r \in Requests, Read(r) PROVE TypeOK'
  <2>1. CASE Stop(r, 1)
    BY <1>9, <2>1, StopType DEF Read, TypeOK
  <2>2. CASE Runs(r, [engine[r] EXCEPT !.pc = "open", !.version = source[engine[r].thumb]])
    <3>1. engine[r] \in Engine /\ engine[r].thumb \in Thumbs
      BY <1>9 DEF Read, TypeOK
    <3>2. PICK e : e = [engine[r] EXCEPT !.pc = "open", !.version = source[engine[r].thumb]]
      OBVIOUS
    <3>3. e \in Engine /\ e.thumb \in Thumbs
      BY <3>1, <3>2 DEF Engine, TypeOK
    <3> QED
      BY <1>9, <2>2, <3>2, <3>3, EngineStepType DEF Read, TypeOK
  <2> QED
    BY <1>9, <2>1, <2>2 DEF Read
<1>10. ASSUME NEW r \in Requests, Open(r) PROVE TypeOK'
  <2>1. engine[r] \in Engine /\ engine[r].thumb \in Thumbs
    BY <1>10 DEF Open, TypeOK
  <2>2. PICK b \in BOOLEAN, k \in 0..Blocks : b = TRUE /\ k = 0
    BY Constants, Zenon
  <2>3. PICK e : e = [engine[r] EXCEPT !.pc = "write", !.at = k, !.linked = b]
    OBVIOUS
  <2>4. e \in Engine /\ e.thumb \in Thumbs
    BY <2>1, <2>3 DEF Engine
  <2>5. Runs(r, e)
    BY <1>10, <2>2, <2>3, Zenon DEF Open
  <2>6. file' \in [Thumbs -> File]
    BY <1>10, <2>1, Files DEF Open, TypeOK
  <2> QED
    BY <1>10, <2>4, <2>5, <2>6, EngineStepType DEF Open, TypeOK
<1>11. ASSUME NEW r \in Requests, OpenFails(r) PROVE TypeOK'
  BY <1>11, StopType DEF OpenFails, TypeOK
<1>12. ASSUME NEW r \in Requests, Write(r) PROVE TypeOK'
  <2>1. engine[r] \in Engine /\ engine[r].thumb \in Thumbs
    BY <1>12 DEF Write, TypeOK
  <2>2. engine[r].at + 1 \in 1..Blocks /\ engine[r].version \in 0..Icon
    BY <1>12, <2>1, Constants DEF Write, Engine
  <2>3. file' \in [Thumbs -> File]
    BY <1>12, <2>1, <2>2, BlockWritten DEF Write, TypeOK
  <2>4. PICK k : k = engine[r].at + 1
    OBVIOUS
  <2>5. PICK e : e = [engine[r] EXCEPT !.at = k]
    OBVIOUS
  <2>6. e \in Engine /\ e.thumb \in Thumbs
    BY <2>1, <2>2, <2>4, <2>5 DEF Engine
  <2>7. Runs(r, e)
    BY <1>12, <2>4, <2>5 DEF Write
  <2> QED
    BY <1>12, <2>3, <2>6, <2>7, EngineStepType DEF Write, TypeOK
<1>13. ASSUME NEW r \in Requests, WriteFails(r) \/ Alarm(r) PROVE TypeOK'
  <2>1. engine[r].pc # "none" /\ engine[r].thumb \in Thumbs
    BY <1>13 DEF WriteFails, Alarm, TypeOK
  <2>2. disturbed' \in SUBSET Thumbs
    BY <1>13, <2>1 DEF WriteFails, Alarm, Disturb, TypeOK
  <2>3. PICK s \in {0, 3} : Stop(r, s)
    BY <1>13 DEF WriteFails, Alarm
  <2> QED
    BY <1>13, <2>1, <2>2, <2>3, StopType DEF WriteFails, Alarm
<1>14. ASSUME NEW r \in Requests, Finish(r) PROVE TypeOK'
  BY <1>14, StopType DEF Finish, TypeOK
<1>15. ASSUME CleanOpen \/ CleanClose PROVE TypeOK'
  BY <1>15 DEF CleanOpen, CleanClose, TypeOK
<1>16. ASSUME NEW t \in Thumbs, CleanUnlink(t) PROVE TypeOK'
  <2>1. file' \in [Thumbs -> File]
    BY <1>16, Files, FileReplaced DEF CleanUnlink, TypeOK
  <2>2. req' \in [Requests -> Request] /\ engine' \in [Requests -> Engine]
    <3>1. \A p \in Requests : req'[p] \in Request /\ engine'[p] \in Engine
      BY <1>16, Unlinked
    <3> QED
      BY <1>16, <3>1, Zenon DEF CleanUnlink
  <2>3. \A p \in Requests :
          /\ req'[p].pc = req[p].pc /\ req'[p].thumb = req[p].thumb
          /\ engine'[p].pc = engine[p].pc /\ engine'[p].thumb = engine[p].thumb
    BY <1>16, Unlinked
  <2> QED
    BY <1>16, <2>1, <2>2, <2>3 DEF CleanUnlink, TypeOK
<1>17. ASSUME NEW t \in Thumbs, Edit(t) PROVE TypeOK'
  <2>1. source[t] + 1 \in Versions
    BY <1>17, BoundsAssumption DEF Edit, TypeOK, Versions
  <2> QED
    BY <1>17, <2>1 DEF Edit, TypeOK
<1> QED
  BY <1>u, <1>1, <1>2, <1>3, <1>4, <1>5, <1>6, <1>7, <1>8, <1>9, <1>10, <1>11, <1>12, <1>13,
     <1>14, <1>15, <1>16, <1>17 DEF Next

(* Every variable keeps its type: in particular no engine writes beyond    *)
(* the end of its thumbnail, and an engine always has one to make.         *)
THEOREM TypeCorrect == Spec => []TypeOK
  BY InitType, NextType, PTL DEF Spec

-----------------------------------------------------------------------------
(* Whole thumbnails.  An engine that has its file open is still to write   *)
(* what lies beyond its place, so a block that is not of the version of    *)
(* its thumbnail is one that some engine will write.  The invariant needs  *)
(* that engines that may still write made it from the source there is.     *)

Writes(p, t) == engine[p].linked /\ engine[p].thumb = t

LinkedWrites == \A p \in Requests : engine[p].linked => engine[p].pc = "write"

Copying ==
  \A p \in Requests : req[p].linked => req[p].pc = "copy" /\ req[p].thumb \in disturbed

(* A request that does not wait for an engine has none.                    *)
Alone ==
  \A p \in Requests : req[p].pc \in {"page", "timeout", "copy"} => engine[p].pc = "none"

MadeOf(t) ==
  \A p \in Requests :
    engine[p].pc \in {"open", "write"} /\ engine[p].thumb = t => engine[p].version = source[t]

Filled(t, v) ==
  /\ \A i \in 1..Blocks : \/ file[t].data[i] = v
                          \/ \E p \in Requests : Writes(p, t) /\ engine[p].at < i
  /\ \A p \in Requests : Writes(p, t) => source[t] = v

Fills(t) == file[t].there => \E v \in Versions : Filled(t, v)

WholeInv ==
  /\ TypeOK /\ LinkedWrites /\ Copying /\ Alone
  /\ \A t \in Thumbs \ disturbed : MadeOf(t) /\ Fills(t)

LEMMA InitWhole == Init => WholeInv
<1> SUFFICES ASSUME Init PROVE WholeInv
  OBVIOUS
<1>1. \A r \in Requests : ~req[r].linked /\ ~engine[r].linked /\ engine[r].pc = "none"
  BY Records DEF Init
<1>2. \A t \in Thumbs : ~file[t].there
  BY Files DEF Init
<1> QED
  BY <1>1, <1>2, InitType DEF WholeInv, LinkedWrites, Copying, Alone, MadeOf, Fills

LEMMA NextAlone == TypeOK /\ Alone /\ [Next]_vars => Alone'
<1> SUFFICES ASSUME TypeOK, Alone, [Next]_vars, NEW p \in Requests,
                    req'[p].pc \in {"page", "timeout", "copy"}
             PROVE  engine'[p].pc = "none"
  BY DEF Alone
<1>t. req \in [Requests -> Request] /\ engine \in [Requests -> Engine]
  BY DEF TypeOK
<1>u. CASE UNCHANGED vars
  BY <1>u DEF vars, Alone
<1>1. ASSUME NEW r \in Requests,
             Prepare(r) \/ Copy(r) \/ CopyFails(r) \/ Copied(r) \/ End(r)
      PROVE  engine'[p].pc = "none"
  <2>1. /\ engine' = engine /\ \E q : Becomes(r, q)
        /\ engine[r].pc = "none" \/ req'[r].pc = "idle"
    BY <1>1, <1>t, Records DEF Prepare, Copy, CopyFails, Copied, End, Becomes, Alone
  <2>2. p # r => req'[p] = req[p]
    BY <2>1, <1>t DEF Becomes
  <2> QED
    BY <2>1, <2>2 DEF Alone
<1>2. ASSUME NEW r \in Requests, NEW t \in Thumbs, Build(r, t) PROVE engine'[p].pc = "none"
  <2>1. req'[r].pc = "exec" /\ (p # r => req'[p] = req[p] /\ engine'[p] = engine[p])
    BY <1>2, <1>t DEF Build, Becomes, Runs, Request
  <2> QED
    BY <2>1 DEF Alone
<1>3. ASSUME NEW r \in Requests, Return(r) PROVE engine'[p].pc = "none"
  <2>1. engine'[r] = NoEngine /\ (p # r => req'[p] = req[p] /\ engine'[p] = engine[p])
    BY <1>3, <1>t DEF Return, Becomes, Runs
  <2> QED
    BY <2>1, Records DEF Alone
<1>4. ASSUME NEW r \in Requests,
             \/ Bury(r) \/ Read(r) \/ Open(r) \/ OpenFails(r)
             \/ Write(r) \/ WriteFails(r) \/ Finish(r) \/ Alarm(r)
      PROVE  engine'[p].pc = "none"
  <2>1. req' = req /\ (p # r => engine'[p] = engine[p])
    BY <1>4, <1>t DEF Bury, Read, Open, OpenFails, Write, WriteFails, Finish, Alarm, Stop, Runs
  <2>2. engine[r].pc # "none" /\ (req[r].pc = "idle" \/ ~Bury(r))
    BY <1>4 DEF Bury, Read, Open, OpenFails, Write, WriteFails, Finish, Alarm
  <2>3. p # r
    BY <1>4, <2>1, <2>2 DEF Alone, Bury
  <2> QED
    BY <2>1, <2>3 DEF Alone
<1>5. CASE CleanOpen \/ CleanClose \/ \E t \in Thumbs : Edit(t)
  BY <1>5 DEF CleanOpen, CleanClose, Edit, Alone
<1>6. ASSUME NEW t \in Thumbs, CleanUnlink(t) PROVE engine'[p].pc = "none"
  BY <1>6, Unlinked DEF Alone
<1> QED
  BY <1>u, <1>1, <1>2, <1>3, <1>4, <1>5, <1>6 DEF Next

(* A thumbnail stays filled when its file and its source do not change, no *)
(* engine begins to write it and none that has to goes.                    *)
LEMMA Kept ==
  ASSUME WholeInv, NEW t \in Thumbs \ disturbed, file'[t] = file[t], source'[t] = source[t],
         \A p \in Requests : Writes(p, t)' => Writes(p, t),
         \A p \in Requests : Writes(p, t) /\ engine[p].at < Blocks =>
                               Writes(p, t)' /\ engine'[p].at = engine[p].at
  PROVE  Fills(t)'
<1> SUFFICES ASSUME file'[t].there PROVE \E v \in Versions : Filled(t, v)'
  BY DEF Fills
<1>1. PICK v \in Versions : Filled(t, v)
  BY DEF WholeInv, Fills
<1>2. ASSUME NEW i \in 1..Blocks
      PROVE  file'[t].data[i] = v \/ \E p \in Requests : Writes(p, t)' /\ engine'[p].at < i
  <2>1. CASE file[t].data[i] = v
    BY <2>1
  <2>2. ASSUME NEW p \in Requests, Writes(p, t), engine[p].at < i
        PROVE  Writes(p, t)' /\ engine'[p].at < i
    <3>1. engine[p].at \in Nat /\ i \in Nat /\ i <= Blocks /\ Blocks \in Nat
      BY BlocksAssumption DEF WholeInv, TypeOK, Engine
    <3> QED
      BY <2>2, <3>1
  <2> QED
    BY <1>1, <2>1, <2>2 DEF Filled
<1>3. \A p \in Requests : Writes(p, t)' => source'[t] = v
  BY <1>1 DEF Filled
<1> QED
  BY <1>2, <1>3 DEF Filled

(* A step of a request that writes no file but those of disturbed.         *)
LEMMA RequestStepWhole ==
  ASSUME WholeInv, TypeOK', Alone', NEW r \in Requests, NEW q \in Request, Becomes(r, q),
         q.linked => q.pc = "copy" /\ q.thumb \in disturbed',
         UNCHANGED <<source, engine>>, disturbed \subseteq disturbed',
         \A t \in Thumbs \ disturbed' : file'[t] = file[t]
  PROVE  WholeInv'
<1>1. LinkedWrites'
  BY DEF WholeInv, LinkedWrites
<1>2. Copying'
  <2> SUFFICES ASSUME NEW p \in Requests, req'[p].linked
                PROVE  req'[p].pc = "copy" /\ req'[p].thumb \in disturbed'
    BY DEF Copying
  <2>1. CASE p = r
    BY <2>1 DEF Becomes, WholeInv, TypeOK
  <2>2. CASE p # r
    BY <2>2 DEF Becomes, WholeInv, TypeOK, Copying
  <2> QED
    BY <2>1, <2>2
<1>3. ASSUME NEW t \in Thumbs \ disturbed' PROVE MadeOf(t)' /\ Fills(t)'
  <2>1. t \in Thumbs \ disturbed
    OBVIOUS
  <2>2. MadeOf(t)'
    BY <2>1 DEF WholeInv, MadeOf
  <2>3. \A p \in Requests : Writes(p, t)' <=> Writes(p, t)
    BY DEF Writes
  <2>4. Fills(t)'
    BY <1>3, <2>1, <2>3, Kept
  <2> QED
    BY <2>2, <2>4
<1> QED
  BY <1>1, <1>2, <1>3 DEF WholeInv

(* A step of an engine that leaves it with no file open.                   *)
LEMMA EngineStepWhole ==
  ASSUME WholeInv, TypeOK', Alone', NEW r \in Requests, NEW e \in Engine, Runs(r, e), ~e.linked,
         e.pc \in {"open", "write"} => e.version = source[e.thumb],
         UNCHANGED <<file, source>>, \A p \in Requests : req'[p].linked => req'[p] = req[p],
         disturbed \subseteq disturbed',
         engine[r].linked /\ engine[r].at < Blocks => engine[r].thumb \in disturbed'
  PROVE  WholeInv'
<1>r. engine'[r] = e /\ \A p \in Requests : p # r => engine'[p] = engine[p]
  BY DEF Runs, WholeInv, TypeOK
<1>1. LinkedWrites'
  <2> SUFFICES ASSUME NEW p \in Requests, engine'[p].linked PROVE engine'[p].pc = "write"
    BY DEF LinkedWrites
  <2>1. p # r
    BY <1>r
  <2> QED
    BY <1>r, <2>1 DEF WholeInv, LinkedWrites
<1>2. Copying'
  BY DEF WholeInv, Copying
<1>3. ASSUME NEW t \in Thumbs \ disturbed' PROVE MadeOf(t)' /\ Fills(t)'
  <2>1. t \in Thumbs \ disturbed
    OBVIOUS
  <2>2. MadeOf(t)'
    BY <1>r, <2>1 DEF WholeInv, MadeOf
  <2>3. ASSUME NEW p \in Requests, Writes(p, t)' PROVE Writes(p, t)
    BY <1>r, <2>3 DEF Writes
  <2>4. ASSUME NEW p \in Requests, Writes(p, t), engine[p].at < Blocks
        PROVE  Writes(p, t)' /\ engine'[p].at = engine[p].at
    <3>1. p # r
      BY <1>3, <2>4 DEF Writes
    <3> QED
      BY <1>r, <2>4, <3>1 DEF Writes
  <2>5. Fills(t)'
    BY <2>1, <2>3, <2>4, Kept
  <2> QED
    BY <2>2, <2>5
<1> QED
  BY <1>1, <1>2, <1>3 DEF WholeInv

LEMMA StopWhole ==
  ASSUME WholeInv, TypeOK', Alone', NEW r \in Requests, NEW s \in {0, 1, 3}, Stop(r, s),
         UNCHANGED <<file, source, req>>, disturbed \subseteq disturbed',
         engine[r].linked /\ engine[r].at < Blocks => engine[r].thumb \in disturbed'
  PROVE  WholeInv'
<1>1. PICK e \in Engine : Runs(r, e) /\ e.pc = "exit" /\ ~e.linked
  BY Stopped DEF WholeInv
<1> QED
  BY <1>1, EngineStepWhole

(* Opening empties the file, and all of it is to be written from the       *)
(* source there is.                                                        *)
LEMMA OpenWhole ==
  ASSUME WholeInv, TypeOK', Alone', NEW r \in Requests, Open(r)
  PROVE  WholeInv'
<1>t. /\ engine[r] \in Engine /\ engine[r].thumb \in Thumbs /\ engine \in [Requests -> Engine]
      /\ file \in [Thumbs -> File] /\ source \in [Thumbs -> Versions]
  BY DEF Open, WholeInv, TypeOK
<1>1. PICK b \in BOOLEAN, k \in 0..Blocks : b = TRUE /\ k = 0
  BY Constants, Zenon
<1>2. PICK e : e = [engine[r] EXCEPT !.pc = "write", !.at = k, !.linked = b]
  OBVIOUS
<1>3. /\ e.pc = "write" /\ e.thumb = engine[r].thumb /\ e.version = engine[r].version
      /\ e.at = k /\ e.linked = b
  BY <1>t, <1>2 DEF Engine
<1>4. engine' = [engine EXCEPT ![r] = e]
  BY <1>1, <1>2, Zenon DEF Open, Runs
<1>5. engine'[r] = e /\ \A p \in Requests : p # r => engine'[p] = engine[p]
  BY <1>t, <1>4
<1>6. /\ source' = source /\ req' = req /\ disturbed' = disturbed
      /\ file' = [file EXCEPT ![e.thumb] = Empty] /\ engine[r].pc = "open"
  BY <1>3 DEF Open
<1>7. LinkedWrites' /\ Copying'
  BY <1>3, <1>5, <1>6 DEF WholeInv, LinkedWrites, Copying
<1>8. ASSUME NEW t \in Thumbs \ disturbed' PROVE MadeOf(t)' /\ Fills(t)'
  <2>1. MadeOf(t)'
    BY <1>3, <1>5, <1>6 DEF WholeInv, MadeOf
  <2>2. CASE t # e.thumb
    <3>1. \A p \in Requests :
            /\ Writes(p, t)' => Writes(p, t)
            /\ Writes(p, t) => Writes(p, t)' /\ engine'[p].at = engine[p].at
      <4>1. ASSUME NEW p \in Requests, p = r PROVE ~Writes(p, t)' /\ ~Writes(p, t)
        BY <4>1, <1>3, <1>5, <2>2 DEF Writes
      <4> QED
        BY <4>1, <1>5 DEF Writes
    <3>2. file'[t] = file[t] /\ source'[t] = source[t] /\ t \in Thumbs \ disturbed
      BY <1>6, <1>t, <2>2
    <3>3. Fills(t)'
      BY <3>1, <3>2, Kept
    <3> QED
      BY <2>1, <3>3
  <2>3. CASE t = e.thumb
    <3>1. Writes(r, t)' /\ engine'[r].at = 0
      BY <1>1, <1>3, <1>5, <2>3, Zenon DEF Writes
    <3>2. Filled(t, source[t])'
      <4>1. \A i \in 1..Blocks : engine'[r].at < i
        BY <3>1, BlocksAssumption
      <4> QED
        BY <3>1, <4>1, <1>6 DEF Filled
    <3>3. Fills(t)'
      BY <3>2, <1>6, <1>t DEF Fills
    <3> QED
      BY <2>1, <3>3
  <2> QED
    BY <2>2, <2>3
<1> QED
  BY <1>7, <1>8 DEF WholeInv

(* A block is written, of the version the others have or will have.        *)
LEMMA WriteWhole ==
  ASSUME WholeInv, TypeOK', Alone', NEW r \in Requests, Write(r)
  PROVE  WholeInv'
<1>t. /\ engine[r] \in Engine /\ engine[r].thumb \in Thumbs /\ engine \in [Requests -> Engine]
      /\ file \in [Thumbs -> File] /\ source \in [Thumbs -> Versions]
  BY DEF Write, WholeInv, TypeOK
<1>1. PICK k : k = engine[r].at + 1
  OBVIOUS
<1>2. k \in 1..Blocks /\ engine[r].at \in Nat /\ engine[r].version \in 0..Icon
  BY <1>t, <1>1, Constants DEF Write, Engine
<1>3. PICK e : e = [engine[r] EXCEPT !.at = k]
  OBVIOUS
<1>4. /\ e.pc = "write" /\ e.thumb = engine[r].thumb /\ e.version = engine[r].version
      /\ e.linked = engine[r].linked /\ e.at = k
  BY <1>t, <1>2, <1>3 DEF Engine, Write
<1>5. engine' = [engine EXCEPT ![r] = e]
  BY <1>1, <1>3 DEF Write, Runs
<1>6. engine'[r] = e /\ \A p \in Requests : p # r => engine'[p] = engine[p]
  BY <1>t, <1>5
<1>7. /\ source' = source /\ req' = req /\ disturbed' = disturbed /\ engine[r].pc = "write"
      /\ file' = IF e.linked THEN [file EXCEPT ![e.thumb].data[k] = e.version] ELSE file
  BY <1>1, <1>4 DEF Write
<1>8. LinkedWrites' /\ Copying'
  BY <1>4, <1>6, <1>7 DEF WholeInv, LinkedWrites, Copying
<1>w. ASSUME NEW t \in Thumbs, NEW p \in Requests PROVE Writes(p, t)' <=> Writes(p, t)
  BY <1>4, <1>6 DEF Writes
<1>9. ASSUME NEW t \in Thumbs \ disturbed' PROVE MadeOf(t)' /\ Fills(t)'
  <2>1. t \in Thumbs \ disturbed /\ MadeOf(t) /\ Fills(t)
    BY <1>7 DEF WholeInv
  <2>2. MadeOf(t)'
    BY <1>4, <1>6, <1>7, <2>1 DEF MadeOf
  <2>3. CASE ~Writes(r, t)
    <3>1. file'[t] = file[t]
      BY <1>2, <1>4, <1>7, <1>t, <2>3, BlockWritten DEF Writes
    <3>2. \A p \in Requests : Writes(p, t) => engine'[p].at = engine[p].at
      BY <1>6, <2>3
    <3>3. Fills(t)'
      BY <1>7, <1>w, <2>1, <3>1, <3>2, Kept
    <3> QED
      BY <2>2, <3>3
  <2>4. CASE Writes(r, t)
    <3>1. /\ file'[t].there = file[t].there /\ file'[t].data[k] = source[t]
          /\ \A i \in 1..Blocks : i # k => file'[t].data[i] = file[t].data[i]
      <4>1. e.linked /\ e.thumb = t /\ e.version = source[t]
        BY <1>4, <1>7, <2>1, <2>4 DEF Writes, MadeOf
      <4>2. PICK v \in 0..Icon : v = source[t]
        BY <1>2, <1>4, <4>1
      <4>3. file' = [file EXCEPT ![t].data[k] = v] /\ file \in [Thumbs -> File]
        BY <1>7, <1>t, <4>1, <4>2
      <4>4. t \in Thumbs
        OBVIOUS
      <4>0. k \in 1..Blocks
        BY <1>2
      <4>5. /\ file'[t].there = file[t].there
            /\ \A i \in 1..Blocks : i # k => file'[t].data[i] = file[t].data[i]
        BY <4>0, <4>3, <4>4, BlockWritten
      <4>6. file'[t].data[k] = v
        <5>1. file[t] \in File
          BY <4>3, <4>4
        <5> QED
          BY <4>0, <4>3, <4>4, <5>1 DEF File
      <4> QED
        BY <4>2, <4>5, <4>6
    <3> SUFFICES ASSUME file'[t].there PROVE Filled(t, source[t])'
      BY <1>7, <1>t, <2>2 DEF Fills
    <3>2. Filled(t, source[t])
      BY <2>1, <2>4, <3>1 DEF Fills, Filled
    <3>3. ASSUME NEW i \in 1..Blocks
          PROVE  \/ file'[t].data[i] = source[t]
                 \/ \E p \in Requests : Writes(p, t)' /\ engine'[p].at < i
      <4>1. CASE file[t].data[i] = source[t] \/ i = k
        BY <3>1, <4>1
      <4>2. ASSUME i # k, NEW p \in Requests, Writes(p, t), engine[p].at < i
            PROVE  Writes(p, t)' /\ engine'[p].at < i
        <5>1. p = r => k < i
          BY <1>1, <1>2, <4>2
        <5> QED
          BY <1>4, <1>6, <1>w, <4>2, <5>1
      <4> QED
        BY <3>2, <4>1, <4>2 DEF Filled
    <3> QED
      BY <1>7, <3>3 DEF Filled
  <2> QED
    BY <2>3, <2>4
<1> QED
  BY <1>8, <1>9 DEF WholeInv

(* A thumbnail that is removed is not there.                               *)
LEMMA UnlinkWhole ==
  ASSUME WholeInv, TypeOK', Alone', NEW u \in Thumbs, CleanUnlink(u)
  PROVE  WholeInv'
<1>t. TypeOK
  BY DEF WholeInv
<1>1. /\ source' = source /\ disturbed' = disturbed
      /\ file' = [file EXCEPT ![u] = NoFile] /\ file \in [Thumbs -> File]
  BY <1>t DEF CleanUnlink, TypeOK
<1>2. \A p \in Requests :
        /\ req'[p].pc = req[p].pc /\ req'[p].thumb = req[p].thumb
        /\ engine'[p].pc = engine[p].pc /\ engine'[p].thumb = engine[p].thumb
        /\ engine'[p].version = engine[p].version /\ engine'[p].at = engine[p].at
        /\ req'[p].linked => req[p].linked
        /\ engine'[p].linked => engine[p].linked /\ engine[p].thumb # u
  BY <1>t, Unlinked
<1>3. LinkedWrites' /\ Copying'
  BY <1>1, <1>2 DEF WholeInv, LinkedWrites, Copying
<1>4. ASSUME NEW t \in Thumbs \ disturbed' PROVE MadeOf(t)' /\ Fills(t)'
  <2>1. t \in Thumbs \ disturbed
    BY <1>1
  <2>2. MadeOf(t)'
    BY <1>1, <1>2, <2>1 DEF WholeInv, MadeOf
  <2>3. CASE t = u
    <3>1. file'[t] = NoFile
      BY <1>1, <2>3
    <3> QED
      BY <2>2, <3>1, Files DEF Fills
  <2>4. CASE t # u
    <3>1. ASSUME NEW p \in Requests, Writes(p, t) PROVE Writes(p, t)'
      <4>1. engine'[p] = [engine[p] EXCEPT !.linked = @ /\ engine[p].thumb # u]
        BY Zenon DEF CleanUnlink
      <4>2. PICK b \in BOOLEAN : b = (engine[p].linked /\ engine[p].thumb # u)
        BY Zenon
      <4>3. engine'[p] = [engine[p] EXCEPT !.linked = b] /\ engine[p] \in Engine
        BY <1>t, <4>1, <4>2, Zenon DEF TypeOK
      <4>4. engine'[p].linked = b
        BY <4>3 DEF Engine
      <4>5. b
        BY <2>4, <3>1, <4>2, Zenon DEF Writes
      <4> QED
        BY <1>2, <3>1, <4>4, <4>5, Zenon DEF Writes
    <3>2. \A p \in Requests : Writes(p, t)' => Writes(p, t)
      BY <1>2 DEF Writes
    <3>3. Fills(t)'
      BY <1>1, <1>2, <2>1, <2>4, <3>1, <3>2, Kept
    <3> QED
      BY <2>2, <3>3
  <2> QED
    BY <2>3, <2>4
<1> QED
  BY <1>3, <1>4 DEF WholeInv

(* A source that changes while no engine is making its thumbnail.          *)
LEMMA EditWhole ==
  ASSUME WholeInv, TypeOK', Alone', NEW u \in Thumbs, Edit(u)
  PROVE  WholeInv'
<1>1. /\ req' = req /\ engine' = engine /\ file' = file /\ disturbed \subseteq disturbed'
      /\ \A t \in Thumbs : t # u => source'[t] = source[t]
  BY DEF Edit, WholeInv, TypeOK
<1>2. LinkedWrites' /\ Copying'
  BY <1>1 DEF WholeInv, LinkedWrites, Copying
<1>3. ASSUME NEW t \in Thumbs \ disturbed' PROVE MadeOf(t)' /\ Fills(t)'
  <2>1. t \in Thumbs \ disturbed /\ MadeOf(t) /\ Fills(t)
    BY <1>1 DEF WholeInv
  <2>2. CASE t # u
    BY <1>1, <2>1, <2>2 DEF MadeOf, Fills, Filled, Writes
  <2>3. CASE t = u
    <3>1. \A p \in Requests : engine[p].thumb = t => engine[p].pc \notin {"open", "write"}
      BY <2>3 DEF Edit
    <3>2. \A p \in Requests : ~Writes(p, t)
      BY <3>1 DEF WholeInv, LinkedWrites, Writes
    <3> QED
      BY <1>1, <2>1, <3>1, <3>2 DEF MadeOf, Fills, Filled, Writes
  <2> QED
    BY <2>2, <2>3
<1> QED
  BY <1>2, <1>3 DEF WholeInv

LEMMA NextWhole == WholeInv /\ [Next]_vars => WholeInv'
<1> SUFFICES ASSUME WholeInv, [Next]_vars PROVE WholeInv'
  OBVIOUS
<1>t. TypeOK /\ TypeOK' /\ Alone'
  BY NextType, NextAlone DEF WholeInv
<1>n. \A r \in Requests :
        /\ req[r].pc # "copy" => ~req[r].linked
        /\ engine[r].pc # "write" => ~engine[r].linked
  BY DEF WholeInv, Copying, LinkedWrites
<1>u. CASE UNCHANGED vars
  <2>1. ASSUME NEW t \in Thumbs, MadeOf(t), Fills(t) PROVE MadeOf(t)' /\ Fills(t)'
    BY <1>u, <2>1 DEF vars, MadeOf, Fills, Filled, Writes
  <2> QED
    BY <1>u, <1>t, <2>1 DEF vars, WholeInv, LinkedWrites, Copying
<1>1. ASSUME NEW r \in Requests, Prepare(r) PROVE WholeInv'
  <2>1. PICK q : q = [req[r] EXCEPT !.pc = "page"]
    OBVIOUS
  <2>2. q \in Request /\ q.linked = req[r].linked /\ Becomes(r, q)
    BY <1>1, <1>t, <2>1 DEF TypeOK, Request, Prepare
  <2>3. ~q.linked
    BY <1>1, <1>n, <2>2 DEF Prepare
  <2> QED
    BY <1>1, <1>t, <2>2, <2>3, RequestStepWhole DEF Prepare
<1>2. ASSUME NEW r \in Requests, NEW t \in Thumbs, Build(r, t) PROVE WholeInv'
  <2>1. PICK q, e : /\ q = [req[r] EXCEPT !.pc = "exec", !.thumb = t]
                    /\ e = [NoEngine EXCEPT !.pc = "read", !.thumb = t]
    OBVIOUS
  <2>2. q.linked = req[r].linked /\ e \in Engine /\ e.pc = "read" /\ e.linked = NoEngine.linked
    BY <1>t, <2>1, Records, ZenonT(60) DEF TypeOK, Request, Engine
  <2>3. Becomes(r, q) /\ Runs(r, e)
    BY <1>2, <2>1 DEF Build
  <2>4. ~q.linked /\ ~e.linked
    BY <1>2, <1>n, <2>2, Records DEF Build
  <2>5. \A p \in Requests : req'[p].linked => req'[p] = req[p]
    BY <1>t, <2>3, <2>4 DEF Becomes, TypeOK
  <2>6. ~engine[r].linked
    BY <1>2, <1>n DEF Build, WholeInv, Alone
  <2> QED
    BY <1>2, <1>t, <2>2, <2>3, <2>4, <2>5, <2>6, EngineStepWhole DEF Build
<1>3. ASSUME NEW r \in Requests, Return(r) PROVE WholeInv'
  <2>1. PICK q : q = IF engine[r].status = 3 THEN [req[r] EXCEPT !.pc = "timeout"]
                     ELSE [req[r] EXCEPT !.pc = "page", !.thumb = None]
    OBVIOUS
  <2>2. q.linked = req[r].linked /\ Becomes(r, q) /\ Runs(r, NoEngine)
    BY <1>3, <1>t, <2>1 DEF TypeOK, Request, Return
  <2>3. ~q.linked /\ ~engine[r].linked
    BY <1>3, <1>n, <2>2 DEF Return
  <2>4. \A p \in Requests : req'[p].linked => req'[p] = req[p]
    BY <1>t, <2>2, <2>3 DEF Becomes, TypeOK
  <2> QED
    BY <1>3, <1>t, <2>2, <2>3, <2>4, Records, EngineStepWhole DEF Return
<1>4. ASSUME NEW r \in Requests, Copy(r) PROVE WholeInv'
  <2>1. req[r] \in Request /\ req[r].thumb \in Thumbs
    BY <1>4, <1>t DEF TypeOK, Copy
  <2>2. PICK b \in BOOLEAN : b = TRUE
    BY Zenon
  <2>3. PICK q : q = [req[r] EXCEPT !.pc = "copy", !.linked = b]
    OBVIOUS
  <2>4. q \in Request /\ q.pc = "copy" /\ q.thumb = req[r].thumb
    BY <2>1, <2>3 DEF Request
  <2>5. Becomes(r, q)
    BY <1>4, <2>2, <2>3, Zenon DEF Copy
  <2>6. \A t \in Thumbs \ disturbed' : file'[t] = file[t]
    BY <1>4, <1>t, <2>1 DEF Copy, TypeOK
  <2> QED
    BY <1>4, <1>t, <2>1, <2>4, <2>5, <2>6, RequestStepWhole DEF Copy
<1>5. ASSUME NEW r \in Requests, CopyFails(r) PROVE WholeInv'
  <2>1. PICK q : q = [req[r] EXCEPT !.pc = "page", !.thumb = None]
    OBVIOUS
  <2>2. q \in Request /\ q.linked = req[r].linked /\ Becomes(r, q)
    BY <1>5, <1>t, <2>1 DEF TypeOK, Request, CopyFails
  <2>3. ~q.linked
    BY <1>5, <1>n, <2>2 DEF CopyFails
  <2> QED
    BY <1>5, <1>t, <2>2, <2>3, RequestStepWhole DEF CopyFails
<1>6. ASSUME NEW r \in Requests, Copied(r) PROVE WholeInv'
  <2>1. req[r].thumb \in Thumbs /\ 1 \in 1..Blocks /\ (req[r].linked => req[r].thumb \in disturbed)
    BY <1>6, <1>t, Constants DEF TypeOK, Copied, WholeInv, Copying
  <2>2. \A t \in Thumbs \ disturbed : file'[t] = file[t]
    BY <1>6, <1>t, <2>1, Constants, BlockWritten DEF Copied, TypeOK
  <2>3. PICK q : q = [IdleRequest EXCEPT !.pc = "page"]
    OBVIOUS
  <2>4. q \in Request /\ q.linked = IdleRequest.linked /\ Becomes(r, q)
    BY <1>6, <2>3, Records DEF Request, Copied
  <2> QED
    BY <1>6, <1>t, <2>2, <2>4, Records, RequestStepWhole DEF Copied
<1>7. ASSUME NEW r \in Requests, End(r) PROVE WholeInv'
  BY <1>7, <1>t, Records, RequestStepWhole DEF End
<1>8. ASSUME NEW r \in Requests, Bury(r) PROVE WholeInv'
  BY <1>8, <1>t, <1>n, Records, EngineStepWhole DEF Bury
<1>9. ASSUME NEW r \in Requests, Read(r) PROVE WholeInv'
  <2>1. CASE Stop(r, 1)
    BY <1>9, <1>t, <1>n, <2>1, StopWhole DEF Read
  <2>2. CASE Runs(r, [engine[r] EXCEPT !.pc = "open", !.version = source[engine[r].thumb]])
    <3>1. engine[r] \in Engine /\ engine[r].thumb \in Thumbs
      BY <1>9, <1>t DEF Read, TypeOK
    <3>2. PICK e : e = [engine[r] EXCEPT !.pc = "open", !.version = source[engine[r].thumb]]
      OBVIOUS
    <3>3. e \in Engine /\ e.version = source[e.thumb] /\ e.linked = engine[r].linked
      BY <1>t, <3>1, <3>2 DEF Engine, TypeOK
    <3>4. ~engine[r].linked
      BY <1>9, <1>n DEF Read
    <3> QED
      BY <1>9, <1>t, <2>2, <3>2, <3>3, <3>4, EngineStepWhole DEF Read
  <2> QED
    BY <1>9, <2>1, <2>2 DEF Read
<1>10. ASSUME NEW r \in Requests, Open(r) PROVE WholeInv'
  BY <1>10, <1>t, OpenWhole
<1>11. ASSUME NEW r \in Requests, OpenFails(r) PROVE WholeInv'
  BY <1>11, <1>t, <1>n, StopWhole DEF OpenFails
<1>12. ASSUME NEW r \in Requests, Write(r) PROVE WholeInv'
  BY <1>12, <1>t, WriteWhole
<1>13. ASSUME NEW r \in Requests, WriteFails(r) \/ Alarm(r) PROVE WholeInv'
  <2>1. PICK s \in {0, 3} : Stop(r, s)
    BY <1>13 DEF WriteFails, Alarm
  <2>2. engine[r].linked /\ engine[r].at < Blocks => engine[r].thumb \in disturbed'
    BY <1>13, <1>n DEF WriteFails, Alarm, Disturb
  <2>3. disturbed \subseteq disturbed'
    BY <1>13 DEF WriteFails, Alarm, Disturb
  <2> QED
    BY <1>13, <1>t, <2>1, <2>2, <2>3, StopWhole DEF WriteFails, Alarm
<1>14. ASSUME NEW r \in Requests, Finish(r) PROVE WholeInv'
  <2>1. ~(engine[r].at < Blocks)
    BY <1>14, BlocksAssumption DEF Finish
  <2> QED
    BY <1>14, <1>t, <2>1, StopWhole DEF Finish
<1>15. ASSUME CleanOpen \/ CleanClose PROVE WholeInv'
  <2>1. ASSUME NEW t \in Thumbs, MadeOf(t), Fills(t) PROVE MadeOf(t)' /\ Fills(t)'
    BY <1>15, <2>1 DEF CleanOpen, CleanClose, MadeOf, Fills, Filled, Writes
  <2> QED
    BY <1>15, <1>t, <2>1 DEF CleanOpen, CleanClose, WholeInv, LinkedWrites, Copying
<1>16. ASSUME NEW t \in Thumbs, CleanUnlink(t) PROVE WholeInv'
  BY <1>16, <1>t, UnlinkWhole
<1>17. ASSUME NEW t \in Thumbs, Edit(t) PROVE WholeInv'
  BY <1>17, <1>t, EditWhole
<1> QED
  BY <1>u, <1>1, <1>2, <1>3, <1>4, <1>5, <1>6, <1>7, <1>8, <1>9, <1>10, <1>11, <1>12, <1>13,
     <1>14, <1>15, <1>16, <1>17 DEF Next

(* When all the engines of a thumbnail have ended, the file that is there  *)
(* is whole, whoever wrote it: no block of it is of another version or was *)
(* never written, but for the cases "disturbed" lists.                     *)
THEOREM ThumbsAreWhole == Spec => []WholeThumbs
<1>1. WholeInv => WholeThumbs
  <2> SUFFICES ASSUME WholeInv, NEW t \in Thumbs \ disturbed, file[t].there, ~Opened(t)
               PROVE  \E v \in Versions : \A i \in 1..Blocks : file[t].data[i] = v
    BY DEF WholeThumbs
  <2>1. PICK v \in Versions : Filled(t, v)
    BY DEF WholeInv, Fills
  <2>2. \A p \in Requests : ~Writes(p, t)
    BY DEF Opened, Writes
  <2> QED
    BY <2>1, <2>2 DEF Filled
<1> QED
  BY <1>1, InitWhole, NextWhole, PTL DEF Spec
=============================================================================
