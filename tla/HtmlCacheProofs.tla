--------------------------- MODULE HtmlCacheProofs ---------------------------
(***************************************************************************)
(* Theorems about HtmlCache, for any number of requests, pages, sections,  *)
(* seconds and edits.                                                      *)
(***************************************************************************)
EXTENDS HtmlCache, TLAPS

(* An idle request, and the file a flush leaves, have their types.         *)
LEMMA IdleType == Idle \in Request /\ Idle.pc = "idle"
  BY DEF Idle, Request, PC, Content

LEMMA AppendedType ==
  ASSUME TypeOK, NEW r \in Procs, req[r].pc = "flush"
  PROVE  Appended(tmp[r], r) \in File
  <1>1. req[r] \in Request /\ req[r].at \in Sections
    BY DEF TypeOK
  <1>2. (IF tmp[r] = None THEN NoChunks ELSE tmp[r].chunks) \in Chunks
    BY DEF TypeOK, NoChunks, Chunks, File
  <1>3. QED
    BY <1>1, <1>2 DEF Appended, File, Chunks, Request, TypeOK

(* A request that is changed into another one.                             *)
LEMMA RequestType ==
  ASSUME TypeOK, NEW r \in Procs, NEW q \in Request, req' = [req EXCEPT ![r] = q]
  PROVE  /\ req' \in [Procs -> Request]
         /\ req'[r] = q
         /\ \A o \in Procs \ {r} : req'[o] = req[o]
  BY DEF TypeOK

(* Every step keeps the types.                                             *)
LEMMA TypeStep == TypeOK /\ [Next]_vars => TypeOK'
  <1> SUFFICES ASSUME TypeOK, [Next]_vars PROVE TypeOK'
    OBVIOUS
  <1> USE SectionsAssumption, FlagsAssumption, BoundsAssumption
  <1>0. CASE UNCHANGED vars
    BY <1>0 DEF vars, TypeOK
  <1>1. ASSUME NEW r \in Procs, NEW p \in Pages, Prepare(r, p) PROVE TypeOK'
    <2>1. req'[r] \in Request /\ req'[r].pc = "lookup" /\ req'[r].page = p
      BY <1>1 DEF Prepare, Idle, Request, PC, Content, TypeOK
    <2>2. QED
      BY <1>1, <2>1 DEF Prepare, TypeOK, sourceVars, fileVars
  <1>2. ASSUME NEW r \in Procs, Lookup(r) PROVE TypeOK'
    BY <1>2, SMTT(60) DEF Lookup, Goto, TypeOK, sourceVars, fileVars, Request, PC, Sections
  <1>3. ASSUME NEW r \in Procs, Stat(r) PROVE TypeOK'
    <2>1. req[r].page \in Pages /\ html[req[r].page] \in File \cup {None}
      BY <1>3 DEF Stat, TypeOK
    <2>2. ModifDate(req[r].page) \in Nat
      BY <2>1 DEF ModifDate, File
    <2> DEFINE q == [req[r] EXCEPT !.pc = "check", !.at = 1,
                 !.stamp = ModifDate(req[r].page)]
    <2>a. q \in Request /\ q.pc = "check" /\ q.at = 1 /\ q.page = req[r].page
      BY <2>2, ZenonT(60) DEF Request, PC, TypeOK
    <2>b. req' = [req EXCEPT ![r] = q]
      BY <1>3 DEF Stat
    <2> HIDE DEF q
    <2>3. req' \in [Procs -> Request] /\ req'[r].pc = "check" /\ req'[r].at = 1
          /\ req'[r].page = req[r].page /\ \A o \in Procs \ {r} : req'[o] = req[o]
      BY <2>a, <2>b, RequestType
    <2>4. QED
      BY <1>3, <2>1, <2>3 DEF Stat, TypeOK, sourceVars, fileVars
  <1>4. ASSUME NEW r \in Procs, Check(r) PROVE TypeOK'
    BY <1>4 DEF Check, Goto, TypeOK, sourceVars, fileVars, Request, PC, Sections
  <1>5. ASSUME NEW r \in Procs, Expire(r) PROVE TypeOK'
    <2> DEFINE q == [req[r] EXCEPT !.pc = "build", !.at = 1]
    <2>a. q \in Request /\ q.pc = "build" /\ q.at = 1 /\ q.page = req[r].page
      BY ZenonT(60) DEF Request, PC, TypeOK
    <2>b. req' = [req EXCEPT ![r] = q]
      BY <1>5 DEF Expire, Goto
    <2> HIDE DEF q
    <2>1. req' \in [Procs -> Request] /\ req'[r].pc = "build" /\ req'[r].at = 1
          /\ req'[r].page = req[r].page /\ \A o \in Procs \ {r} : req'[o] = req[o]
      BY <2>a, <2>b, RequestType
    <2>2. html' \in [Pages -> File \cup {None}] /\ cacheTime' \in Nat
      BY <1>5 DEF Expire, TypeOK
    <2>3. QED
      BY <1>5, <2>1, <2>2 DEF Expire, TypeOK, sourceVars, Sections
  <1>6. ASSUME NEW r \in Procs, Include(r) PROVE TypeOK'
    BY <1>6, IdleType DEF Include, End, TypeOK, sourceVars, fileVars
  <1>7. ASSUME NEW r \in Procs, Render(r) PROVE TypeOK'
    <2>1. req[r].seen \in Content /\ version["album"] \in Nat
      BY DEF TypeOK, Request, Sources
    <2>2. [req[r].seen EXCEPT !["album"] =
             IF req[r].at = LoadSection THEN version["album"] ELSE @] \in Content
      BY <2>1 DEF Content
    <2> DEFINE q == [req[r] EXCEPT !.pc = "flush", !.seen["album"] =
                       IF req[r].at = LoadSection THEN version["album"] ELSE @]
    <2>a. q \in Request /\ q.pc = "flush" /\ q.at = req[r].at /\ q.page = req[r].page
      BY <2>2, ZenonT(60) DEF Request, PC, TypeOK
    <2>b. req' = [req EXCEPT ![r] = q]
      BY <1>7 DEF Render
    <2> HIDE DEF q
    <2>3. req' \in [Procs -> Request] /\ req'[r].pc = "flush" /\ req'[r].at = req[r].at
          /\ req'[r].page = req[r].page /\ \A o \in Procs \ {r} : req'[o] = req[o]
      BY <2>a, <2>b, RequestType
    <2>4. QED
      BY <1>7, <2>3 DEF Render, TypeOK, sourceVars
  <1>8. ASSUME NEW r \in Procs, Reread(r) PROVE TypeOK'
    <2>1. [req[r].seen EXCEPT !["options"] = version["options"]] \in Content
      BY DEF TypeOK, Request, Content, Sources
    <2>2. req' \in [Procs -> Request] /\ req'[r].pc = "flush" /\ req'[r].at = req[r].at
          /\ req'[r].page = req[r].page /\ \A q \in Procs \ {r} : req'[q] = req[q]
      BY <1>8, <2>1, SMTT(60) DEF Reread, TypeOK, Request, PC
    <2>3. QED
      BY <1>8, <2>2 DEF Reread, TypeOK, sourceVars, fileVars
  <1>9. ASSUME NEW r \in Procs, AfterFlush(r), req[r].pc = "flush",
               UNCHANGED <<clock, sourceVars, html, strays, clean>>,
               tmp' \in [Procs -> File \cup {None}], dirExists' \in BOOLEAN, cacheTime' \in Nat
        PROVE  TypeOK'
    BY <1>9 DEF AfterFlush, Goto, TypeOK, sourceVars, Request, PC, Sections
  <1>10. ASSUME NEW r \in Procs, Flush(r) PROVE TypeOK'
    BY <1>9, <1>10, AppendedType DEF Flush, TypeOK
  <1>11. ASSUME NEW r \in Procs, FlushLost(r) PROVE TypeOK'
    BY <1>9, <1>11 DEF FlushLost, TypeOK, fileVars
  <1>12. ASSUME NEW r \in Procs, Finish(r) PROVE TypeOK'
    BY <1>12, SMTT(60) DEF Finish, Goto, TypeOK, sourceVars, fileVars, Request, PC, Sections
  <1>13. ASSUME NEW r \in Procs, Drop(r) PROVE TypeOK'
    BY <1>13, IdleType DEF Drop, RemoveTmp, End, TypeOK, sourceVars
  <1>14. ASSUME NEW r \in Procs, Move(r) PROVE TypeOK'
    BY <1>14, IdleType DEF Move, RemoveTmp, End, TypeOK, sourceVars
  <1>15. ASSUME NEW r \in Procs, Abort(r) PROVE TypeOK'
    BY <1>15, IdleType DEF Abort, RemoveTmp, End, TypeOK, sourceVars
  <1>16. ASSUME NEW r \in Procs, Crash(r) PROVE TypeOK'
    BY <1>16, IdleType DEF Crash, End, TypeOK, sourceVars, File
  <1>17. CASE CleanOpen
    BY <1>17 DEF CleanOpen, TypeOK, sourceVars, fileVars
  <1>18. ASSUME NEW p \in Pages, CleanUnlink(p) PROVE TypeOK'
    BY <1>18 DEF CleanUnlink, TypeOK, sourceVars
  <1>19. CASE CleanClose
    BY <1>19 DEF CleanClose, CleanIdle, TypeOK, sourceVars
  <1>20. CASE WritePreview
    BY <1>20 DEF WritePreview, TypeOK, sourceVars
  <1>21. ASSUME NEW s \in Sources, Edit(s) PROVE TypeOK'
    BY <1>21 DEF Edit, TypeOK, fileVars
  <1>22. CASE Tick
    BY <1>22 DEF Tick, TypeOK, sourceVars, fileVars
  <1>23. QED
    BY <1>0, <1>1, <1>2, <1>3, <1>4, <1>5, <1>6, <1>7, <1>8, <1>10, <1>11, <1>12, <1>13,
       <1>14, <1>15, <1>16, <1>17, <1>18, <1>19, <1>20, <1>21, <1>22 DEF Next, Serve

LEMMA TypeInit == Init => TypeOK
  <1> SUFFICES ASSUME Init PROVE TypeOK
    OBVIOUS
  <1>1. dirExists \in BOOLEAN /\ strays \in BOOLEAN
    BY FlagsAssumption, Zenon DEF Init
  <1>2. clean \in [on : BOOLEAN, todo : SUBSET Pages, kept : BOOLEAN]
    BY DEF Init, CleanIdle
  <1>3. req \in [Procs -> Request] /\ \A r \in Procs : req[r].pc = "idle"
    BY IdleType DEF Init
  <1>4. QED
    BY <1>1, <1>2, <1>3 DEF Init, TypeOK

(* Type correctness: in particular a request that is building has a        *)
(* section to build, and one that checks has a path to check.              *)
THEOREM TypeCorrect == Spec => []TypeOK
  BY TypeInit, TypeStep, PTL DEF Spec

-----------------------------------------------------------------------------
(* Without a cache folder there is nothing in it.                          *)
FolderInv == dirExists \/ EmptyDir

LEMMA FolderStep == TypeOK /\ FolderInv /\ [Next]_vars => FolderInv'
  <1> SUFFICES ASSUME TypeOK, FolderInv, [Next]_vars PROVE FolderInv'
    OBVIOUS
  <1> USE DEF FolderInv, EmptyDir
  <1>1. ASSUME UNCHANGED fileVars PROVE FolderInv'
    BY <1>1 DEF fileVars
  <1>2. ASSUME NEW r \in Procs, Serve(r) PROVE FolderInv'
    <2>1. CASE UNCHANGED fileVars
      BY <1>1, <2>1
    <2>2. CASE Expire(r)
      BY <2>2 DEF Expire, TypeOK
    <2>3. CASE Render(r)
      BY <2>3 DEF Render
    <2>4. CASE Flush(r)
      BY <2>4 DEF Flush
    <2>5. CASE Drop(r)
      BY <2>5 DEF Drop, RemoveTmp, TypeOK
    <2>6. CASE Move(r)
      BY <2>6 DEF Move, RemoveTmp, TypeOK
    <2>7. CASE Abort(r)
      BY <2>7 DEF Abort, RemoveTmp, TypeOK
    <2>8. CASE Crash(r)
      BY <2>8 DEF Crash, TypeOK
    <2>9. QED
      BY <1>2, <2>1, <2>2, <2>3, <2>4, <2>5, <2>6, <2>7, <2>8
         DEF Serve, Prepare, Lookup, Stat, Check, Include, Reread, FlushLost, Finish
  <1>3. ASSUME NEW p \in Pages, CleanUnlink(p) PROVE FolderInv'
    BY <1>3 DEF CleanUnlink, TypeOK
  <1>4. CASE CleanClose
    BY <1>4 DEF CleanClose
  <1>5. CASE WritePreview
    BY <1>5 DEF WritePreview
  <1>6. QED
    BY <1>1, <1>2, <1>3, <1>4, <1>5 DEF Next, CleanOpen, Edit, Tick, vars, fileVars

(* A temporary file belongs to a request that is building, and dates back  *)
(* to it.                                                                  *)
OwnerInv ==
  \A r \in Procs : tmp[r] # None =>
    req[r].pc \in Building /\ tmp[r].start = req[r].start

LEMMA OwnerStep == TypeOK /\ OwnerInv /\ [Next]_vars => OwnerInv'
  <1> SUFFICES ASSUME TypeOK, OwnerInv, [Next]_vars PROVE OwnerInv'
    OBVIOUS
  <1> USE DEF OwnerInv, Building
  <1>1. ASSUME UNCHANGED <<tmp, req>> PROVE OwnerInv'
    BY <1>1
  <1>2. ASSUME NEW r \in Procs, Serve(r) PROVE OwnerInv'
    <2>1. ASSUME tmp' = [tmp EXCEPT ![r] = None], End(r) PROVE OwnerInv'
      BY <2>1 DEF End, TypeOK
    <2>2. ASSUME UNCHANGED tmp, NEW pc, NEW i, Goto(r, pc, i),
                 req[r].pc \in Building => pc \in Building
          PROVE  OwnerInv'
      BY <2>2 DEF Goto, TypeOK, Request
    <2>3. CASE \E p \in Pages : Prepare(r, p)
      BY <2>3 DEF Prepare, fileVars, TypeOK
    <2>4. CASE Lookup(r) \/ Check(r) \/ Expire(r)
      BY <2>2, <2>4 DEF Lookup, Check, Expire, fileVars
    <2>5. CASE Stat(r)
      BY <2>5 DEF Stat, fileVars, TypeOK
    <2>6. CASE Include(r)
      BY <2>6 DEF Include, End, fileVars, TypeOK
    <2>7. CASE Render(r)
      BY <2>7 DEF Render, fileVars, TypeOK, Request
    <2>8. CASE Reread(r)
      BY <2>8 DEF Reread, fileVars, TypeOK, Request
    <2>9. CASE Flush(r)
      BY <2>9 DEF Flush, AfterFlush, Goto, Appended, TypeOK, Request
    <2>10. CASE FlushLost(r) \/ Finish(r)
      BY <2>2, <2>10 DEF FlushLost, Finish, AfterFlush, fileVars
    <2>11. CASE Drop(r) \/ Move(r) \/ Abort(r) \/ Crash(r)
      BY <2>1, <2>11 DEF Drop, Move, Abort, Crash, RemoveTmp
    <2>12. QED
      BY <1>2, <2>3, <2>4, <2>5, <2>6, <2>7, <2>8, <2>9, <2>10, <2>11 DEF Serve
  <1>3. QED
    BY <1>1, <1>2 DEF Next, CleanOpen, CleanUnlink, CleanClose, WritePreview, Edit, Tick,
                      vars, fileVars

(* No temporary file outlives its request, except one that was killed.     *)
THEOREM TmpFilesAreOwned == Spec => []TmpBelongsToBuilder
  <1>1. Init => OwnerInv
    BY DEF Init, OwnerInv
  <1>2. OwnerInv => TmpBelongsToBuilder
    BY DEF OwnerInv, TmpBelongsToBuilder
  <1>3. QED
    BY <1>1, <1>2, OwnerStep, TypeCorrect, PTL DEF Spec

-----------------------------------------------------------------------------
(* No date is in the future, and a page is not newer than its folder.      *)
TimeInv ==
  /\ cacheTime <= clock
  /\ \A s \in Sources : srcTime[s] <= clock
  /\ \A r \in Procs : tmp[r] # None => tmp[r].stamp <= clock
  /\ \A p \in Pages : html[p] # None => html[p].stamp <= cacheTime

(* A file whose date is not in the future and, if it is a page, not newer  *)
(* than its folder.                                                        *)
LEMMA TimeStep == TypeOK /\ FolderInv /\ TimeInv /\ [Next]_vars => TimeInv'
  <1> SUFFICES ASSUME TypeOK, FolderInv, TimeInv, [Next]_vars PROVE TimeInv'
    OBVIOUS
  <1> USE DEF TimeInv
  <1>1. ASSUME UNCHANGED <<clock, sourceVars, fileVars>> PROVE TimeInv'
    BY <1>1 DEF sourceVars, fileVars
  <1>2. ASSUME UNCHANGED <<clock, sourceVars, html, tmp>>, cacheTime' \in {cacheTime, clock}
        PROVE  TimeInv'
    BY <1>2 DEF sourceVars, TypeOK, File
  <1>3. ASSUME UNCHANGED <<clock, sourceVars, tmp>>, cacheTime' = clock, NEW p \in Pages,
               html' = [html EXCEPT ![p] = None]
        PROVE  TimeInv'
    BY <1>3 DEF sourceVars, TypeOK, File
  <1>4. ASSUME UNCHANGED <<clock, sourceVars, html>>, cacheTime' \in {cacheTime, clock},
               NEW r \in Procs, tmp' = [tmp EXCEPT ![r] = None]
        PROVE  TimeInv'
    BY <1>4 DEF sourceVars, TypeOK, File
  <1>5. ASSUME NEW p \in Pages, UNCHANGED <<clock, sourceVars, tmp>>,
               html' = [html EXCEPT ![p] = None],
               cacheTime' = IF html[p] = None THEN cacheTime ELSE clock
        PROVE  TimeInv'
    BY <1>5 DEF sourceVars, TypeOK, File
  <1>6. ASSUME NEW r \in Procs, Serve(r) PROVE TimeInv'
    <2>1. CASE UNCHANGED <<clock, sourceVars, fileVars>>
      BY <1>1, <2>1
    <2>2. CASE Expire(r)
      <3>1. req[r].page \in Pages
        BY <2>2 DEF Expire, TypeOK
      <3>2. QED
        BY <1>5, <2>2, <3>1 DEF Expire
    <2>3. CASE Render(r)
      BY <1>2, <2>3 DEF Render
    <2>4. CASE Flush(r)
      <3>1. Appended(tmp[r], r).stamp = clock
        BY DEF Appended
      <3>2. QED
        BY <2>4, <3>1 DEF Flush, sourceVars, TypeOK, File
    <2>5. CASE Drop(r) \/ Abort(r)
      BY <1>4, <2>5 DEF Drop, Abort, RemoveTmp
    <2>6. CASE Move(r)
      <3>1. CASE tmp[r] = None
        BY <1>4, <2>6, <3>1 DEF Move, RemoveTmp
      <3>2. CASE tmp[r] # None
        <4>1. html' = [html EXCEPT ![req[r].page] = tmp[r]] /\ cacheTime' = clock
              /\ tmp' = [tmp EXCEPT ![r] = None] /\ UNCHANGED <<clock, sourceVars>>
          BY <2>6, <3>2 DEF Move, RemoveTmp
        <4>2. QED
          BY <3>2, <4>1 DEF sourceVars, TypeOK, File
      <3>3. QED
        BY <3>1, <3>2
    <2>7. CASE Crash(r)
      BY <2>7 DEF Crash, sourceVars, TypeOK, File
    <2>8. QED
      BY <1>6, <2>1, <2>2, <2>3, <2>4, <2>5, <2>6, <2>7
         DEF Serve, Prepare, Lookup, Stat, Check, Include, Reread, FlushLost, Finish
  <1>7. ASSUME NEW p \in Pages, CleanUnlink(p) PROVE TimeInv'
    BY <1>5, <1>7 DEF CleanUnlink
  <1>8. CASE CleanClose \/ WritePreview
    BY <1>2, <1>8 DEF CleanClose, WritePreview
  <1>9. ASSUME NEW s \in Sources, Edit(s) PROVE TimeInv'
    BY <1>9 DEF Edit, fileVars, TypeOK
  <1>10. CASE Tick
    BY <1>10 DEF Tick, sourceVars, fileVars, TypeOK, File
  <1>11. QED
    BY <1>1, <1>6, <1>7, <1>8, <1>9, <1>10 DEF Next, CleanOpen, vars

(* A page passes the tests only in the second of the last change of its    *)
(* folder: it is at most as new as the folder, and the folder is watched.  *)
THEOREM ServedOnlyInSecondOfRename == Spec => []ServedInSecondOfRename
  <1>1. Init => FolderInv /\ TimeInv
    BY DEF Init, FolderInv, EmptyDir, TimeInv
  <1>2. TypeOK /\ FolderInv /\ TimeInv => ServedInSecondOfRename
    <2> SUFFICES ASSUME TypeOK, FolderInv, TimeInv, NEW p \in Pages, Acceptable(p)
                 PROVE  html[p].stamp = cacheTime
      BY DEF ServedInSecondOfRename
    <2>1. ~Newer(Watched[3], html[p].stamp) /\ html[p] # None
      BY DEF Acceptable
    <2>2. dirExists
      BY <2>1 DEF FolderInv, EmptyDir
    <2>3. ~(cacheTime > html[p].stamp)
      BY <2>1, <2>2 DEF Newer, Watched, CacheNewer
    <2>4. QED
      BY <2>1, <2>3, SMTT(60) DEF TimeInv, TypeOK, File
  <1>3. QED
    BY <1>1, <1>2, FolderStep, TimeStep, TypeCorrect, PTL DEF Spec

-----------------------------------------------------------------------------
(* What was read at second t or later is c: a source that differs from it  *)
(* was edited at t or later.                                               *)
ReadSince(c, t) == \A s \in Sources : c[s] # version[s] => srcTime[s] >= t

FileReadSince(f) ==
  /\ f.start <= clock
  /\ \A i \in Sections : f.chunks[i] # None => ReadSince(f.chunks[i], f.start)

ContentInv ==
  /\ \A r \in Procs : req[r].start <= clock
  /\ \A r \in Procs : req[r].pc # "idle" => ReadSince(req[r].seen, req[r].start)
  /\ \A r \in Procs : tmp[r] # None => FileReadSince(tmp[r])
  /\ \A p \in Pages : html[p] # None => FileReadSince(html[p])

LEMMA ContentStep ==
  TypeOK /\ OwnerInv /\ TimeInv /\ ContentInv /\ [Next]_vars => ContentInv'
  <1> SUFFICES ASSUME TypeOK, OwnerInv, TimeInv, ContentInv, [Next]_vars
               PROVE  ContentInv'
    OBVIOUS
  <1> USE DEF ContentInv
  <1>1. ASSUME UNCHANGED <<clock, sourceVars, html, tmp, req>> PROVE ContentInv'
    BY <1>1 DEF ReadSince, FileReadSince, sourceVars
  <1>2. ASSUME NEW p \in Pages, UNCHANGED <<clock, sourceVars, tmp>>, req' = req,
               html' = [html EXCEPT ![p] = None]
        PROVE  ContentInv'
    BY <1>2 DEF ReadSince, FileReadSince, sourceVars, TypeOK
  <1>3. ASSUME NEW r \in Procs, Serve(r) PROVE ContentInv'
    <2>1. UNCHANGED <<clock, sourceVars>>
      BY <1>3 DEF Serve, Prepare, Lookup, Stat, Check, Expire, Include, Render, Reread,
                  Flush, FlushLost, Finish, Drop, Move, Abort, Crash
    <2>2. \A c, t : ReadSince(c, t) => ReadSince(c, t)'
      BY <2>1 DEF ReadSince, sourceVars
    <2>3. \A f : FileReadSince(f) => FileReadSince(f)'
      BY <2>1, <2>2 DEF FileReadSince
    <2>4. ASSUME \A q \in Procs : tmp'[q] # None => FileReadSince(tmp'[q]),
                 \A p \in Pages : html'[p] # None => FileReadSince(html'[p]),
                 req'[r].start <= clock,
                 req'[r].pc # "idle" => ReadSince(req'[r].seen, req'[r].start),
                 \A q \in Procs \ {r} : req'[q] = req[q]
          PROVE  ContentInv'
      <3>1. \A q \in Procs : req'[q].start <= clock
                             /\ (req'[q].pc # "idle" => ReadSince(req'[q].seen, req'[q].start))
        BY <2>4
      <3>2. QED
        BY <2>1, <2>2, <2>3, <2>4, <3>1
    <2>5. ASSUME req' = [req EXCEPT ![r] = Idle]
          PROVE  /\ req'[r].start <= clock
                 /\ req'[r].pc = "idle"
                 /\ \A q \in Procs \ {r} : req'[q] = req[q]
      BY <2>5 DEF Idle, TypeOK
    <2>6. ASSUME NEW pc, NEW i, Goto(r, pc, i), req[r].pc # "idle"
          PROVE  /\ req'[r].start <= clock
                 /\ ReadSince(req'[r].seen, req'[r].start)
                 /\ \A q \in Procs \ {r} : req'[q] = req[q]
      <3>1. /\ req'[r].start = req[r].start
            /\ req'[r].seen = req[r].seen
            /\ \A q \in Procs \ {r} : req'[q] = req[q]
        BY <2>6 DEF Goto, TypeOK, Request
      <3>2. QED
        BY <2>6, <3>1
    <2>7. CASE \E p \in Pages : Prepare(r, p)
      <3>1. /\ req'[r].start = clock /\ req'[r].seen = version
            /\ \A q \in Procs \ {r} : req'[q] = req[q]
            /\ UNCHANGED <<html, tmp>>
        BY <2>7 DEF Prepare, Idle, TypeOK, fileVars
      <3>2. ReadSince(req'[r].seen, req'[r].start)
        BY <3>1 DEF ReadSince
      <3>3. QED
        BY <2>4, <3>1, <3>2 DEF TypeOK
    <2>8. CASE Lookup(r) \/ Check(r) \/ FlushLost(r) \/ Finish(r)
      <3>1. UNCHANGED <<html, tmp>> /\ req[r].pc # "idle" /\ \E pc, i : Goto(r, pc, i)
        BY <2>8 DEF Lookup, Check, FlushLost, Finish, AfterFlush, fileVars
      <3>2. QED
        BY <2>4, <2>6, <3>1
    <2>9. CASE Stat(r)
      <3>1. /\ req'[r].start = req[r].start /\ req'[r].seen = req[r].seen
            /\ \A q \in Procs \ {r} : req'[q] = req[q]
            /\ UNCHANGED <<html, tmp>> /\ req[r].pc # "idle"
        BY <2>9 DEF Stat, TypeOK, Request, fileVars
      <3>2. QED
        BY <2>4, <3>1
    <2>10. CASE Expire(r)
      <3>1. /\ req[r].pc # "idle" /\ Goto(r, "build", 1) /\ tmp' = tmp
            /\ \A p \in Pages : html'[p] # None => html'[p] = html[p]
        BY <2>10 DEF Expire, TypeOK
      <3>2. QED
        BY <2>4, <2>6, <3>1
    <2>11. CASE Include(r)
      BY <2>4, <2>5, <2>11 DEF Include, End, fileVars
    <2>12. CASE Render(r) \/ Reread(r)
      <3>1. /\ req'[r].start = req[r].start /\ req[r].pc # "idle"
            /\ \A q \in Procs \ {r} : req'[q] = req[q]
            /\ UNCHANGED <<html, tmp>>
        BY <2>12 DEF Render, Reread, TypeOK, Request, fileVars
      <3>2. \A s \in Sources : req'[r].seen[s] \in {req[r].seen[s], version[s]}
        <4>1. req[r] \in Request /\ req[r].seen \in Content
          BY DEF TypeOK, Request
        <4>2. CASE Render(r)
          <5>1. req'[r].seen = [req[r].seen EXCEPT !["album"] =
                                  IF req[r].at = LoadSection THEN version["album"] ELSE @]
            BY <4>1, <4>2 DEF Render, TypeOK, Request
          <5>2. QED
            BY <4>1, <5>1 DEF Content
        <4>3. CASE Reread(r)
          <5>1. req'[r].seen = [req[r].seen EXCEPT !["options"] = version["options"]]
            BY <4>1, <4>3 DEF Reread, TypeOK, Request
          <5>2. QED
            BY <4>1, <5>1 DEF Content
        <4>4. QED
          BY <2>12, <4>2, <4>3
      <3>3. ReadSince(req'[r].seen, req'[r].start)
        BY <3>1, <3>2 DEF ReadSince
      <3>4. QED
        BY <2>4, <3>1, <3>3
    <2>13. CASE Flush(r)
      <3>1. /\ req[r].pc = "flush" /\ \E pc, i : Goto(r, pc, i)
            /\ html' = html /\ tmp'[r] = Appended(tmp[r], r)
            /\ \A q \in Procs \ {r} : tmp'[q] = tmp[q]
        BY <2>13 DEF Flush, AfterFlush, TypeOK
      <3>2. FileReadSince(Appended(tmp[r], r))
        <4>1. \A i \in Sections :
                Appended(tmp[r], r).chunks[i] =
                  IF i = req[r].at THEN req[r].seen
                  ELSE IF tmp[r] = None THEN None ELSE tmp[r].chunks[i]
          BY DEF Appended, NoChunks, TypeOK, File, Chunks
        <4>2. Appended(tmp[r], r).start = req[r].start
          BY DEF Appended
        <4>3. tmp[r] # None => tmp[r].start = req[r].start
          BY DEF OwnerInv
        <4>4. QED
          BY <3>1, <4>1, <4>2, <4>3 DEF FileReadSince
      <3>3. QED
        BY <2>4, <2>6, <3>1, <3>2
    <2>14. CASE Drop(r) \/ Abort(r) \/ Crash(r)
      BY <2>4, <2>5, <2>14 DEF Drop, Abort, Crash, RemoveTmp, End, TypeOK
    <2>15. CASE Move(r)
      <3>1. /\ tmp' = [tmp EXCEPT ![r] = None] /\ req' = [req EXCEPT ![r] = Idle]
            /\ html' = IF tmp[r] = None THEN html ELSE [html EXCEPT ![req[r].page] = tmp[r]]
        BY <2>15 DEF Move, RemoveTmp, End
      <3>2. \A p \in Pages : html'[p] # None => FileReadSince(html'[p])
        BY <3>1 DEF TypeOK
      <3>3. \A q \in Procs : tmp'[q] # None => FileReadSince(tmp'[q])
        BY <3>1 DEF TypeOK
      <3>4. QED
        BY <2>4, <2>5, <3>1, <3>2, <3>3
    <2>16. QED
      BY <1>3, <2>7, <2>8, <2>9, <2>10, <2>11, <2>12, <2>13, <2>14, <2>15 DEF Serve
  <1>4. ASSUME NEW p \in Pages, CleanUnlink(p) PROVE ContentInv'
    BY <1>2, <1>4 DEF CleanUnlink
  <1>5. ASSUME NEW s \in Sources, Edit(s) PROVE ContentInv'
    <2>1. UNCHANGED <<clock, html, tmp, req>>
      BY <1>5 DEF Edit, fileVars
    <2>2. ASSUME NEW c, NEW t \in Nat, t <= clock, ReadSince(c, t) PROVE ReadSince(c, t)'
      BY <1>5, <2>2 DEF Edit, ReadSince, TypeOK
    <2>3. \A f \in File : FileReadSince(f) => FileReadSince(f)'
      BY <2>1, <2>2 DEF FileReadSince, File
    <2>4. \A r \in Procs : req[r].start \in Nat
      BY DEF TypeOK, Request
    <2>5. QED
      BY <2>1, <2>2, <2>3, <2>4 DEF TypeOK
  <1>6. CASE Tick
    BY <1>6 DEF Tick, ReadSince, FileReadSince, sourceVars, fileVars, TypeOK, Request, File
  <1>7. QED
    BY <1>1, <1>3, <1>4, <1>5, <1>6
       DEF Next, CleanOpen, CleanClose, WritePreview, vars, sourceVars, fileVars

(* A page is out of date only with a source that was edited in or after    *)
(* the second its request arrived, whatever the interleaving of requests,  *)
(* edits, cleanings, aborts and crashes, and even if writes fail.          *)
THEOREM StaleOnlyIfEditedDuringBuild == Spec => []StaleEditedSinceStart
  <1>1. Init => OwnerInv /\ TimeInv /\ ContentInv /\ FolderInv
    BY DEF Init, OwnerInv, TimeInv, ContentInv, FolderInv, EmptyDir, Idle
  <1>2. ContentInv => StaleEditedSinceStart
    BY DEF ContentInv, FileReadSince, ReadSince, StaleEditedSinceStart
  <1>3. QED
    BY <1>1, <1>2, FolderStep, OwnerStep, TimeStep, ContentStep, TypeCorrect, PTL DEF Spec

-----------------------------------------------------------------------------
(* f has section n, no later one, and none missing between two it has.     *)
WrittenUpTo(f, n) ==
  /\ n \in Sections
  /\ f.chunks[n] # None
  /\ \A i, j \in Sections : i < j /\ j <= n /\ f.chunks[i] # None => f.chunks[j] # None
  /\ \A j \in Sections : n < j => f.chunks[j] = None

(* The last section a request is past.                                     *)
Past(r) == IF req[r].pc \in {"build", "flush"} THEN req[r].at - 1 ELSE NSections

SuffixInv ==
  /\ \A r \in Procs : tmp[r] # None => WrittenUpTo(tmp[r], Past(r))
  /\ \A p \in Pages : html[p] # None => WrittenUpTo(html[p], NSections)

(* A flush that works extends a file by the section after the last.        *)
LEMMA AppendedUpTo ==
  ASSUME TypeOK, NEW r \in Procs, req[r].pc = "flush",
         tmp[r] # None => WrittenUpTo(tmp[r], req[r].at - 1)
  PROVE  WrittenUpTo(Appended(tmp[r], r), req[r].at)
  <1>1. req[r].at \in Sections /\ NSections \in Nat
    BY SectionsAssumption DEF TypeOK
  <1>2. req[r].seen # None
    BY NoneAssumption DEF TypeOK, Request
  <1>3. \A i \in Sections :
          Appended(tmp[r], r).chunks[i] =
            IF i = req[r].at THEN req[r].seen
            ELSE IF tmp[r] = None THEN None ELSE tmp[r].chunks[i]
    BY DEF Appended, NoChunks, TypeOK, File, Chunks
  <1>4. CASE tmp[r] = None
    BY <1>1, <1>2, <1>3, <1>4 DEF WrittenUpTo, Sections
  <1>5. CASE tmp[r] # None
    <2>1. WrittenUpTo(tmp[r], req[r].at - 1)
      BY <1>5
    <2>2. \A i \in Sections :
            Appended(tmp[r], r).chunks[i] =
              IF i = req[r].at THEN req[r].seen ELSE tmp[r].chunks[i]
      BY <1>3, <1>5
    <2>3. \A i, j \in Sections :
            i < j /\ j <= req[r].at /\ Appended(tmp[r], r).chunks[i] # None
              => Appended(tmp[r], r).chunks[j] # None
      BY <1>1, <1>2, <2>1, <2>2 DEF WrittenUpTo, Sections
    <2>4. \A j \in Sections : req[r].at < j => Appended(tmp[r], r).chunks[j] = None
      BY <1>1, <2>1, <2>2 DEF WrittenUpTo, Sections
    <2>5. QED
      BY <1>1, <1>2, <2>2, <2>3, <2>4 DEF WrittenUpTo
  <1>6. QED
    BY <1>4, <1>5

LEMMA SuffixStep ==
  ASSUME ~MayFail
  PROVE  TypeOK /\ FolderInv /\ OwnerInv /\ SuffixInv /\ [Next]_vars => SuffixInv'
  <1> SUFFICES ASSUME TypeOK, FolderInv, OwnerInv, SuffixInv, [Next]_vars
               PROVE  SuffixInv'
    OBVIOUS
  <1> USE DEF SuffixInv
  <1>1. ASSUME \A q \in Procs : tmp'[q] # None => WrittenUpTo(tmp'[q], Past(q)'),
               \A p \in Pages : html'[p] # None => WrittenUpTo(html'[p], NSections)
        PROVE  SuffixInv'
    BY <1>1 DEF WrittenUpTo
  <1>2. ASSUME UNCHANGED <<html, tmp, req>> PROVE SuffixInv'
    BY <1>2 DEF WrittenUpTo, Past
  <1>3. ASSUME NEW r \in Procs, Serve(r) PROVE SuffixInv'
    <2>1. ASSUME \A q \in Procs \ {r} : req'[q] = req[q] /\ tmp'[q] = tmp[q],
                 tmp'[r] = None,
                 \A p \in Pages : html'[p] \in {None, html[p]}
          PROVE  SuffixInv'
      BY <1>1, <2>1 DEF Past
    <2>2. ASSUME \A q \in Procs \ {r} : req'[q] = req[q],
                 UNCHANGED <<html, tmp>>,
                 tmp[r] # None => Past(r)' = Past(r)
          PROVE  SuffixInv'
      BY <1>1, <2>2 DEF Past
    <2>3. CASE req[r].pc \notin Building /\ ~Abort(r) /\ ~Crash(r)
      <3>1. tmp[r] = None /\ tmp' = tmp
        BY <1>3, <2>3
           DEF OwnerInv, Serve, Prepare, Lookup, Stat, Check, Expire, Include, Render, Reread,
               Flush, FlushLost, Finish, Drop, Move, Building, fileVars
      <3>2. \A p \in Pages : html'[p] \in {None, html[p]}
        BY <1>3, <2>3
           DEF Serve, Prepare, Lookup, Stat, Check, Expire, Include, Render, Reread,
               Flush, FlushLost, Finish, Drop, Move, Building, fileVars, TypeOK
      <3>3. \A q \in Procs \ {r} : req'[q] = req[q]
        BY <1>3, <2>3
           DEF Serve, Prepare, Lookup, Stat, Check, Expire, Include, Render, Reread,
               Flush, FlushLost, Finish, Drop, Move, Building, Goto, End, TypeOK
      <3>4. QED
        BY <2>1, <3>1, <3>2, <3>3
    <2>4. CASE Render(r) \/ Reread(r)
      <3>1. /\ \A q \in Procs \ {r} : req'[q] = req[q]
            /\ UNCHANGED <<html, tmp>>
            /\ req'[r].at = req[r].at
            /\ req[r].pc \in {"build", "flush"} /\ req'[r].pc = "flush"
        BY <2>4 DEF Render, Reread, fileVars, TypeOK, Request
      <3>2. QED
        BY <2>2, <3>1 DEF Past
    <2>5. CASE Flush(r)
      <3>1. /\ req[r].pc = "flush" /\ html' = html
            /\ tmp'[r] = Appended(tmp[r], r)
            /\ \A q \in Procs \ {r} : tmp'[q] = tmp[q] /\ req'[q] = req[q]
        BY <2>5 DEF Flush, AfterFlush, Goto, TypeOK
      <3>2. WrittenUpTo(tmp'[r], req[r].at)
        BY <3>1, AppendedUpTo DEF Past
      <3>3. Past(r)' = req[r].at
        BY <2>5, SectionsAssumption DEF Past, Flush, AfterFlush, Goto, TypeOK, Request, Sections
      <3>4. \A q \in Procs : tmp'[q] # None => WrittenUpTo(tmp'[q], Past(q)')
        BY <3>1, <3>2, <3>3 DEF Past
      <3>5. QED
        BY <1>1, <3>1, <3>4
    <2>6. CASE FlushLost(r)
      <3>1. tmp[r] = None /\ UNCHANGED <<html, tmp>>
            /\ \A q \in Procs \ {r} : req'[q] = req[q]
        BY <2>6 DEF FlushLost, FolderInv, EmptyDir, AfterFlush, Goto, fileVars, TypeOK
      <3>2. QED
        BY <2>2, <3>1
    <2>7. CASE Finish(r)
      <3>1. /\ \A q \in Procs \ {r} : req'[q] = req[q]
            /\ UNCHANGED <<html, tmp>>
            /\ req[r].pc = "finish" /\ req'[r].pc \in {"drop", "move"}
        BY <2>7 DEF Finish, Goto, fileVars, TypeOK, Request
      <3>2. QED
        BY <2>2, <3>1 DEF Past
    <2>8. CASE Drop(r) \/ Abort(r) \/ Crash(r)
      BY <2>1, <2>8 DEF Drop, Abort, Crash, RemoveTmp, End, TypeOK
    <2>9. CASE Move(r)
      <3>1. /\ tmp'[r] = None
            /\ \A q \in Procs \ {r} : tmp'[q] = tmp[q] /\ req'[q] = req[q]
            /\ req[r].pc = "move"
            /\ html' = IF tmp[r] = None THEN html ELSE [html EXCEPT ![req[r].page] = tmp[r]]
        BY <2>9 DEF Move, RemoveTmp, End, TypeOK
      <3>2. tmp[r] # None => WrittenUpTo(tmp[r], NSections)
        BY <3>1 DEF Past
      <3>3. \A p \in Pages : html'[p] # None => WrittenUpTo(html'[p], NSections)
        BY <3>1, <3>2 DEF TypeOK
      <3>4. \A q \in Procs : tmp'[q] # None => WrittenUpTo(tmp'[q], Past(q)')
        BY <3>1 DEF Past
      <3>5. QED
        BY <1>1, <3>3, <3>4
    <2>10. QED
      BY <1>3, <2>3, <2>4, <2>5, <2>6, <2>7, <2>8, <2>9
         DEF Serve, Prepare, Lookup, Stat, Check, Expire, Include, Building
  <1>4. ASSUME NEW p \in Pages, CleanUnlink(p) PROVE SuffixInv'
    <2>1. UNCHANGED <<tmp, req>> /\ \A q \in Pages : html'[q] \in {None, html[q]}
      BY <1>4 DEF CleanUnlink, TypeOK
    <2>2. QED
      BY <1>1, <2>1 DEF Past
  <1>5. QED
    BY <1>2, <1>3, <1>4
       DEF Next, CleanOpen, CleanClose, WritePreview, Edit, Tick, vars, fileVars

(* If rig_flush writes whenever its folder exists, a published page has    *)
(* its last section and every section after the first it has.              *)
THEOREM PublishedPagesAreSuffixes == ASSUME ~MayFail PROVE Spec => []PublishedIsSuffix
  <1>1. Init => FolderInv /\ OwnerInv /\ SuffixInv
    BY DEF Init, FolderInv, EmptyDir, OwnerInv, SuffixInv
  <1>2. SuffixInv => PublishedIsSuffix
    BY SectionsAssumption DEF SuffixInv, WrittenUpTo, PublishedIsSuffix, Sections
  <1>3. QED
    BY <1>1, <1>2, FolderStep, OwnerStep, SuffixStep, TypeCorrect, PTL DEF Spec

-----------------------------------------------------------------------------
(* On the root album, whose folder stays, f has the sections 1 .. n.        *)
HasSections(f, n) == \A i \in 1 .. n : f.chunks[i] # None

RootInv ==
  /\ dirExists
  /\ \A r \in Procs : req[r].pc \in Building /\ Past(r) > 0 =>
       tmp[r] # None /\ HasSections(tmp[r], Past(r))
  /\ \A p \in Pages : html[p] # None => HasSections(html[p], NSections)

(* A flush that works adds the next section to those that are there.        *)
LEMMA AppendedHasSections ==
  ASSUME TypeOK, NEW r \in Procs, req[r].pc = "flush",
         req[r].at > 1 => tmp[r] # None /\ HasSections(tmp[r], req[r].at - 1)
  PROVE  HasSections(Appended(tmp[r], r), req[r].at)
  <1>1. req[r].at \in Sections /\ NSections \in Nat
    BY SectionsAssumption DEF TypeOK
  <1>2. req[r].seen # None
    BY NoneAssumption DEF TypeOK, Request
  <1>3. \A i \in Sections :
          Appended(tmp[r], r).chunks[i] =
            IF i = req[r].at THEN req[r].seen
            ELSE IF tmp[r] = None THEN None ELSE tmp[r].chunks[i]
    BY DEF Appended, NoChunks, TypeOK, File, Chunks
  <1>4. QED
    BY <1>1, <1>2, <1>3 DEF HasSections, Sections

LEMMA RootStep ==
  ASSUME ~MayFail, Root
  PROVE  TypeOK /\ OwnerInv /\ RootInv /\ [Next]_vars => RootInv'
  <1> SUFFICES ASSUME TypeOK, OwnerInv, RootInv, [Next]_vars PROVE RootInv'
    OBVIOUS
  <1> USE SectionsAssumption
  <1>a. dirExists'
    BY DEF RootInv, Next, Serve, Prepare, Lookup, Stat, Check, Expire, Include, Render, Reread,
           Flush, FlushLost, Finish, Drop, Move, Abort, Crash, CleanOpen, CleanUnlink,
           CleanClose, WritePreview, Edit, Tick, vars, fileVars
  <1>1. ASSUME \A q \in Procs : req'[q].pc \in Building /\ Past(q)' > 0 =>
                 tmp'[q] # None /\ HasSections(tmp'[q], Past(q)'),
               \A p \in Pages : html'[p] # None => HasSections(html'[p], NSections)
        PROVE  RootInv'
    BY <1>a, <1>1 DEF RootInv, HasSections
  <1>2. ASSUME UNCHANGED <<html, tmp, req>> PROVE RootInv'
    BY <1>1, <1>2 DEF RootInv, HasSections, Past
  <1>3. ASSUME NEW r \in Procs, Serve(r) PROVE RootInv'
    <2>0. ASSUME \A q \in Procs \ {r} : req'[q] = req[q] /\ tmp'[q] = tmp[q],
                 req'[r].pc \in Building /\ Past(r)' > 0 =>
                   tmp'[r] # None /\ HasSections(tmp'[r], Past(r)'),
                 \A p \in Pages : html'[p] # None => HasSections(html'[p], NSections)
          PROVE  RootInv'
      BY <1>1, <2>0 DEF RootInv, Past
    <2>1. ASSUME \A q \in Procs \ {r} : req'[q] = req[q] /\ tmp'[q] = tmp[q],
                 req'[r].pc \in Building => Past(r)' = 0,
                 \A p \in Pages : html'[p] \in {None, html[p]}
          PROVE  RootInv'
      BY <2>0, <2>1 DEF RootInv
    <2>2. ASSUME \A q \in Procs \ {r} : req'[q] = req[q],
                 UNCHANGED <<html, tmp>>,
                 req[r].pc \in Building, Past(r)' = Past(r)
          PROVE  RootInv'
      BY <2>0, <2>2 DEF RootInv
    <2>3. ASSUME End(r), \A q \in Procs \ {r} : tmp'[q] = tmp[q],
                 \A p \in Pages : html'[p] \in {None, html[p]}
          PROVE  RootInv'
      <3>1. req'[r].pc = "idle" /\ \A q \in Procs \ {r} : req'[q] = req[q]
        BY <2>3 DEF End, Idle, TypeOK
      <3>2. QED
        BY <2>1, <2>3, <3>1 DEF Building
    <2>4. CASE \E p \in Pages : Prepare(r, p)
      <3>1. req'[r].pc = "lookup" /\ \A q \in Procs \ {r} : req'[q] = req[q]
        BY <2>4 DEF Prepare, Idle, TypeOK
      <3>2. QED
        BY <2>1, <2>4, <3>1 DEF Prepare, Building, fileVars
    <2>5. CASE Lookup(r) \/ Check(r) \/ Expire(r)
      <3>1. PICK pc \in {"stat", "build", "expire", "check", "include"}, i \in Nat :
              Goto(r, pc, i) /\ (pc = "build" => i = 1)
        BY <2>5 DEF Lookup, Check, Expire, TypeOK, Request
      <3>2. /\ req'[r].pc = pc /\ req'[r].at = i
            /\ \A q \in Procs \ {r} : req'[q] = req[q]
        BY <3>1 DEF Goto, TypeOK, Request
      <3>3. req'[r].pc \in Building => Past(r)' = 0
        BY <3>1, <3>2 DEF Building, Past
      <3>4. tmp' = tmp /\ \A p \in Pages : html'[p] \in {None, html[p]}
        BY <2>5 DEF Lookup, Check, Expire, fileVars, TypeOK
      <3>5. QED
        BY <2>1, <3>2, <3>3, <3>4
    <2>6. CASE Stat(r)
      <3>1. req'[r].pc = "check" /\ \A q \in Procs \ {r} : req'[q] = req[q]
        BY <2>6 DEF Stat, TypeOK, Request
      <3>2. QED
        BY <2>1, <2>6, <3>1 DEF Stat, Building, fileVars
    <2>7. CASE Include(r) \/ Drop(r) \/ Abort(r) \/ Crash(r)
      <3>1. End(r) /\ (\A q \in Procs \ {r} : tmp'[q] = tmp[q]) /\ html' = html
        BY <2>7 DEF Include, Drop, Abort, Crash, RemoveTmp, fileVars, TypeOK
      <3>2. QED
        BY <2>3, <3>1
    <2>8. CASE Render(r) \/ Reread(r)
      <3>1. /\ \A q \in Procs \ {r} : req'[q] = req[q]
            /\ UNCHANGED <<html, tmp>>
            /\ req'[r].at = req[r].at
            /\ req[r].pc \in {"build", "flush"} /\ req'[r].pc = "flush"
        BY <2>8 DEF Render, Reread, fileVars, TypeOK, Request
      <3>2. QED
        BY <2>2, <3>1 DEF Past, Building
    <2>9. CASE Flush(r)
      <3>1. /\ req[r].pc = "flush" /\ html' = html
            /\ tmp'[r] = Appended(tmp[r], r)
            /\ \A q \in Procs \ {r} : tmp'[q] = tmp[q] /\ req'[q] = req[q]
        BY <2>9 DEF Flush, AfterFlush, Goto, TypeOK
      <3>2. req[r].at \in Nat \ {0}
        BY <3>1 DEF TypeOK, Sections
      <3>3. req[r].at > 1 => tmp[r] # None /\ HasSections(tmp[r], req[r].at - 1)
        BY <3>1, <3>2 DEF RootInv, Past, Building
      <3>4. HasSections(tmp'[r], req[r].at) /\ tmp'[r] # None
        BY <3>1, <3>3, AppendedHasSections, AppendedType, NoneAssumption
      <3>5. Past(r)' = req[r].at
        BY <2>9 DEF Past, Flush, AfterFlush, Goto, TypeOK, Request, Sections
      <3>6. QED
        BY <2>0, <3>1, <3>4, <3>5 DEF RootInv
    <2>10. CASE FlushLost(r)
      BY <2>10 DEF FlushLost, RootInv
    <2>11. CASE Finish(r)
      <3>1. /\ \A q \in Procs \ {r} : req'[q] = req[q]
            /\ UNCHANGED <<html, tmp>>
            /\ req[r].pc = "finish" /\ req'[r].pc \in {"drop", "move"}
        BY <2>11 DEF Finish, Goto, fileVars, TypeOK, Request
      <3>2. QED
        BY <2>2, <3>1 DEF Past, Building
    <2>12. CASE Move(r)
      <3>1. /\ End(r) /\ req[r].pc = "move" /\ (\A q \in Procs \ {r} : tmp'[q] = tmp[q])
            /\ html' = IF tmp[r] = None THEN html ELSE [html EXCEPT ![req[r].page] = tmp[r]]
        BY <2>12 DEF Move, RemoveTmp, TypeOK
      <3>2. tmp[r] # None => HasSections(tmp[r], NSections)
        BY <3>1 DEF RootInv, Past, Building
      <3>3. \A p \in Pages : html'[p] # None => HasSections(html'[p], NSections)
        BY <3>1, <3>2 DEF TypeOK, RootInv
      <3>4. req'[r].pc = "idle" /\ \A q \in Procs \ {r} : req'[q] = req[q]
        BY <3>1 DEF End, Idle, TypeOK
      <3>5. QED
        BY <2>0, <3>1, <3>3, <3>4 DEF Building
    <2>13. QED
      BY <1>3, <2>4, <2>5, <2>6, <2>7, <2>8, <2>9, <2>10, <2>11, <2>12 DEF Serve
  <1>4. ASSUME NEW p \in Pages, CleanUnlink(p) PROVE RootInv'
    <2>1. UNCHANGED <<tmp, req>> /\ \A q \in Pages : html'[q] \in {None, html[q]}
      BY <1>4 DEF CleanUnlink, TypeOK
    <2>2. QED
      BY <1>1, <2>1 DEF RootInv, Past
  <1>5. QED
    BY <1>2, <1>3, <1>4
       DEF Next, CleanOpen, CleanClose, WritePreview, Edit, Tick, vars, fileVars

(* The folder of the root album is never removed: as long as writes work, a *)
(* page of it that is published has all its sections, however requests,     *)
(* cleanings, aborts and crashes interleave.                                *)
THEOREM RootPagesComplete == ASSUME ~MayFail, Root PROVE Spec => []PublishedComplete
  <1>1. Init => OwnerInv /\ RootInv
    <2>1. Init => dirExists
      BY Zenon DEF Init
    <2>2. Init => \A r \in Procs : tmp[r] = None /\ req[r].pc = "idle"
      BY IdleType DEF Init
    <2>3. Init => \A p \in Pages : html[p] = None
      BY DEF Init
    <2>4. QED
      BY <2>1, <2>2, <2>3 DEF OwnerInv, RootInv, Building
  <1>2. RootInv => PublishedComplete
    BY DEF RootInv, HasSections, PublishedComplete, Sections
  <1>3. QED
    BY <1>1, <1>2, OwnerStep, RootStep, TypeCorrect, PTL DEF Spec

-----------------------------------------------------------------------------
(* The versions a request has seen are versions that were reached.         *)
SeenInv ==
  /\ \A s \in Sources : version[s] <= MaxEdits
  /\ \A r \in Procs, s \in Sources : req[r].seen[s] <= MaxEdits

LEMMA SeenStep == TypeOK /\ SeenInv /\ [Next]_vars => SeenInv'
  <1> SUFFICES ASSUME TypeOK, SeenInv, [Next]_vars PROVE SeenInv'
    OBVIOUS
  <1> USE BoundsAssumption DEF SeenInv
  <1>1. ASSUME UNCHANGED <<version, req>> PROVE SeenInv'
    BY <1>1
  <1>2. ASSUME NEW r \in Procs, Serve(r) PROVE SeenInv'
    <2>1. version' = version
      BY <1>2 DEF Serve, Prepare, Lookup, Stat, Check, Expire, Include, Render, Reread,
                  Flush, FlushLost, Finish, Drop, Move, Abort, Crash, sourceVars
    <2>2. ASSUME \A q \in Procs \ {r} : req'[q] = req[q],
                 \A s \in Sources : req'[r].seen[s] \in {0, version[s], req[r].seen[s]}
          PROVE  SeenInv'
      BY <2>1, <2>2
    <2>3. ASSUME End(r) PROVE SeenInv'
      BY <2>2, <2>3 DEF End, Idle, TypeOK
    <2>4. ASSUME NEW pc, NEW i, Goto(r, pc, i) PROVE SeenInv'
      BY <2>2, <2>4 DEF Goto, TypeOK, Request
    <2>5. CASE \E p \in Pages : Prepare(r, p)
      BY <2>2, <2>5 DEF Prepare, Idle, TypeOK
    <2>6. CASE Stat(r)
      BY <2>2, <2>6 DEF Stat, TypeOK, Request
    <2>7. CASE Render(r)
      <3>1. req[r].seen \in Content
        BY DEF TypeOK, Request
      <3>2. req'[r].seen = [req[r].seen EXCEPT !["album"] =
                              IF req[r].at = LoadSection THEN version["album"] ELSE @]
            /\ \A q \in Procs \ {r} : req'[q] = req[q]
        BY <2>7 DEF Render, TypeOK, Request
      <3>3. QED
        BY <2>2, <3>1, <3>2 DEF Content
    <2>8. CASE Reread(r)
      <3>1. req[r].seen \in Content
        BY DEF TypeOK, Request
      <3>2. req'[r].seen = [req[r].seen EXCEPT !["options"] = version["options"]]
            /\ \A q \in Procs \ {r} : req'[q] = req[q]
        BY <2>8 DEF Reread, TypeOK, Request
      <3>3. QED
        BY <2>2, <3>1, <3>2 DEF Content
    <2>9. QED
      BY <1>2, <2>3, <2>4, <2>5, <2>6, <2>7, <2>8
         DEF Serve, Lookup, Check, Expire, Include, Flush, FlushLost, AfterFlush, Finish,
             Drop, Move, Abort, Crash, RemoveTmp
  <1>3. ASSUME NEW s \in Sources, Edit(s) PROVE SeenInv'
    BY <1>3 DEF Edit, TypeOK, Sources
  <1>4. QED
    BY <1>1, <1>2, <1>3
       DEF Next, CleanOpen, CleanUnlink, CleanClose, WritePreview, Tick, vars, sourceVars

(* The steps of the store.                                                 *)
LEMMA WriteIsStep ==
  ASSUME NEW r \in Procs, NEW n \in Sections, NEW c \in [Sources -> 0..MaxEdits],
         Store!Write(r, n, c)
  PROVE  Store!StoreNext
  BY Zenon DEF Store!StoreNext, Sections

LEMMA PublishIsStep ==
  ASSUME NEW r \in Procs, NEW p \in Pages, Store!Publish(r, p)
  PROVE  Store!StoreNext
  BY Zenon DEF Store!StoreNext

(* Steps of the cache are steps of the store, or do not concern it.        *)
LEMMA StoreStep ==
  ASSUME ~MayFail
  PROVE  TypeOK /\ FolderInv /\ SuffixInv /\ SeenInv /\ [Next]_vars
           => [Store!StoreNext]_(Store!storeVars)
  <1> DEFINE slot == [p \in Pages |-> IF html[p] = None THEN None ELSE html[p].chunks]
             draft == [r \in Procs |-> IF tmp[r] = None THEN None ELSE tmp[r].chunks]
  <1> SUFFICES ASSUME TypeOK, FolderInv, SuffixInv, SeenInv, [Next]_vars
               PROVE  Store!StoreNext \/ (slot' = slot /\ draft' = draft)
    BY DEF Store!storeVars
  <1>1. ASSUME UNCHANGED <<html, tmp>> PROVE slot' = slot /\ draft' = draft
    BY <1>1
  <1>2. ASSUME NEW p \in Pages, html' = [html EXCEPT ![p] = None], tmp' = tmp
        PROVE  Store!StoreNext
    <2>1. slot' = [slot EXCEPT ![p] = None] /\ draft' = draft
      BY <1>2 DEF TypeOK
    <2>2. Store!Withdraw(p)
      BY <2>1 DEF Store!Withdraw
    <2>3. QED
      BY <2>2 DEF Store!StoreNext
  <1>3. ASSUME NEW r \in Procs, tmp' = [tmp EXCEPT ![r] = None], html' = html
        PROVE  Store!StoreNext
    <2>1. draft' = [draft EXCEPT ![r] = None] /\ slot' = slot
      BY <1>3 DEF TypeOK
    <2>2. Store!Discard(r)
      BY <2>1 DEF Store!Discard
    <2>3. QED
      BY <2>2 DEF Store!StoreNext
  <1>4. ASSUME NEW r \in Procs, Move(r) PROVE Store!StoreNext
    <2>1. CASE tmp[r] = None
      BY <1>3, <1>4, <2>1 DEF Move, RemoveTmp
    <2>2. CASE tmp[r] # None
      <3>0. PICK p \in Pages : p = req[r].page
        BY <1>4 DEF Move, TypeOK
      <3>1. p \in Pages /\ req[r].pc = "move"
        BY <1>4 DEF Move
      <3>2. html' = [html EXCEPT ![p] = tmp[r]] /\ tmp' = [tmp EXCEPT ![r] = None]
        BY <1>4, <2>2, <3>0 DEF Move, RemoveTmp
      <3>3. slot' = [slot EXCEPT ![p] = draft[r]] /\ draft' = [draft EXCEPT ![r] = None]
        BY <2>2, <3>1, <3>2, NoneAssumption DEF TypeOK
      <3>4. draft[r] # None /\ draft[r][NSections] # None
        <4>1. WrittenUpTo(tmp[r], NSections)
          BY <2>2, <3>1 DEF SuffixInv, Past
        <4>2. tmp[r].chunks \in Chunks
          BY <2>2 DEF TypeOK, File
        <4>3. QED
          BY <2>2, <4>1, <4>2, NoneAssumption DEF WrittenUpTo
      <3>5. Store!Publish(r, p)
        BY <3>3, <3>4 DEF Store!Publish
      <3>6. QED
        BY <3>1, <3>5, PublishIsStep
    <2>3. QED
      BY <2>1, <2>2
  <1>5. ASSUME NEW r \in Procs, Flush(r) PROVE Store!StoreNext
    <2>0. PICK n \in Sections, c \in Content : n = req[r].at /\ c = req[r].seen
      BY <1>5 DEF Flush, TypeOK, Request
    <2>1. /\ n \in Sections /\ c \in Content /\ req[r].pc = "flush"
          /\ html' = html /\ tmp' = [tmp EXCEPT ![r] = Appended(tmp[r], r)]
      BY <1>5 DEF Flush
    <2>2. c \in [Sources -> 0..MaxEdits]
      BY <2>0, BoundsAssumption DEF SeenInv, Content
    <2>3. Appended(tmp[r], r) \in File /\ Appended(tmp[r], r) # None
      BY <2>1, AppendedType, NoneAssumption
    <2>4. draft' = [draft EXCEPT ![r] = Appended(tmp[r], r).chunks] /\ slot' = slot
      BY <2>1, <2>3 DEF TypeOK
    <2>5. CASE tmp[r] = None
      <3>1. Appended(tmp[r], r).chunks = [t \in 1..NSections |-> IF t = n THEN c ELSE None]
        BY <2>0, <2>1, <2>5 DEF Appended, NoChunks, Sections
      <3>2. draft[r] = None
        BY <2>5
      <3>3. Store!Write(r, n, c)
        BY <2>4, <3>1, <3>2 DEF Store!Write
      <3>4. QED
        BY <2>1, <2>2, <3>3, WriteIsStep
    <2>6. CASE tmp[r] # None
      <3>1. tmp[r].chunks \in Chunks /\ draft[r] = tmp[r].chunks /\ draft[r] # None
        BY <2>6, NoneAssumption DEF TypeOK, File
      <3>2. Appended(tmp[r], r).chunks = [draft[r] EXCEPT ![n] = c]
        BY <2>0, <2>6, <3>1 DEF Appended
      <3>3. \A t \in 1..NSections : draft[r][t] # None => t < n
        <4>1. WrittenUpTo(tmp[r], n - 1)
          BY <2>0, <2>1, <2>6 DEF SuffixInv, Past
        <4>2. QED
          BY <2>1, <3>1, <4>1, SectionsAssumption DEF WrittenUpTo, Sections
      <3>4. draft' = [draft EXCEPT ![r][n] = c]
        BY <2>4, <3>2
      <3>5. Store!Write(r, n, c)
        BY <2>4, <3>1, <3>3, <3>4 DEF Store!Write
      <3>6. QED
        BY <2>1, <2>2, <3>5, WriteIsStep
    <2>7. QED
      BY <2>5, <2>6
  <1>6. ASSUME NEW r \in Procs, Serve(r) PROVE Store!StoreNext \/ (slot' = slot /\ draft' = draft)
    <2>1. CASE Expire(r)
      <3>1. req[r].page \in Pages
        BY <2>1 DEF Expire, TypeOK
      <3>2. QED
        BY <1>2, <2>1, <3>1 DEF Expire
    <2>2. CASE Drop(r) \/ Abort(r) \/ Crash(r)
      BY <1>3, <2>2 DEF Drop, Abort, Crash, RemoveTmp
    <2>3. CASE Move(r)
      BY <1>4, <2>3
    <2>4. CASE Flush(r)
      BY <1>5, <2>4
    <2>5. QED
      BY <1>1, <1>6, <2>1, <2>2, <2>3, <2>4
         DEF Serve, Prepare, Lookup, Stat, Check, Include, Render, Reread, FlushLost, Finish,
             fileVars
  <1>7. ASSUME NEW p \in Pages, CleanUnlink(p) PROVE Store!StoreNext
    BY <1>2, <1>7 DEF CleanUnlink
  <1>8. QED
    BY <1>1, <1>6, <1>7
       DEF Next, CleanOpen, CleanClose, WritePreview, Edit, Tick, vars, fileVars

(* The pages of an album change only by a finished draft taking a place,   *)
(* or by a page going: the cache implements PageStore.                     *)
THEOREM CacheImplementsStore == ASSUME ~MayFail PROVE Spec => StoreImplemented
  <1>1. Init => FolderInv /\ OwnerInv /\ SuffixInv
    BY DEF Init, FolderInv, EmptyDir, OwnerInv, SuffixInv
  <1>2. Init => SeenInv
    BY BoundsAssumption DEF Init, SeenInv, Idle
  <1>3. Init => Store!StoreInit
    BY DEF Init, Store!StoreInit
  <1>4. QED
    BY <1>1, <1>2, <1>3, StoreStep, FolderStep, OwnerStep, SuffixStep, SeenStep, TypeCorrect,
       PTL DEF Spec, StoreImplemented, Store!StoreSpec
=============================================================================
