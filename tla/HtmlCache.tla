------------------------------ MODULE HtmlCache ------------------------------
(***************************************************************************)
(* The cache of rendered album pages (rig/src/common.php, rig_modif_date   *)
(* to rig_clean_buffering, as rig/src/album.php uses it) for one album.    *)
(*                                                                         *)
(* Requests are concurrent PHP processes; each action is one file system   *)
(* call, or one run of code between two such calls.  A request looks the   *)
(* page up, compares its date with the dates of what it was built from     *)
(* and includes it, or builds it section by section: rig_flush appends     *)
(* every section to a temporary file of the request, and rig_end_buffering *)
(* moves that file over the page.  Meanwhile the album or its options are  *)
(* edited, other processes put previews in the cache folder, and the       *)
(* administrator deletes the pages (rig_admin_rm_html_caches).  A request  *)
(* may be aborted, which runs its shutdown function, or be killed.         *)
(***************************************************************************)
EXTENDS Naturals

CONSTANTS
  Procs,        \* the PHP processes that serve the album's page
  Pages,        \* the cache keys of the album: language, theme, user, ...
  None,         \* no file, no page
  NSections,    \* rig_flush is called after each section of the page
  LoadSection,  \* the section that starts with rig_load_album_list
  Root,         \* TRUE when the album is the root album
  Cleaning,     \* TRUE when the administrator may delete the HTML caches
  MayFail,      \* TRUE when rig_flush may fail to open or write its file
  MaxClock,     \* bound: the last second
  MaxEdits      \* bound: edits of the sources

ASSUME SectionsAssumption ==
  /\ NSections \in Nat \ {0}
  /\ LoadSection \in 1..NSections
ASSUME FlagsAssumption ==
  /\ Root \in BOOLEAN
  /\ Cleaning \in BOOLEAN
  /\ MayFail \in BOOLEAN
ASSUME BoundsAssumption == MaxClock \in Nat /\ MaxEdits \in Nat

VARIABLES
  clock,      \* the current second: a file date has this granularity
  version,    \* version[s]: how many times source s was edited
  srcTime,    \* srcTime[s]: the date of the last edit of s
  html,       \* html[p]: the file cache_<md5 of p>.html, or None
  tmp,        \* tmp[r]: the file cache_<md5>.html_<uniqid> of r, or None
  dirExists,  \* the album's cache folder exists
  cacheTime,  \* the newest date among that folder, its parent and the
              \* entries of the folder that are neither html nor tmp
  strays,     \* there are such entries: previews, files of killed requests
  req,        \* req[r]: the state of request r
  clean       \* the state of rig_admin_rm_html_caches

vars == <<clock, version, srcTime, html, tmp, dirExists, cacheTime, strays, req, clean>>
sourceVars == <<version, srcTime>>
fileVars == <<html, tmp, dirExists, cacheTime, strays>>

-----------------------------------------------------------------------------
(* "options" stands for the album's options, the preferences and templates *)
(* read when a request starts, "album" for the folder that is listed.      *)
Sources == {"album", "options"}
Sections == 1..NSections

(* What a section shows: a version of each source.                         *)
Content == [Sources -> Nat]

(* The file of a page: its sections, None where one is missing, its        *)
(* modification date, and (history) the second its request arrived.        *)
Chunks == [Sections -> Content \cup {None}]
File == [chunks : Chunks, stamp : Nat, start : Nat]

ASSUME NoneAssumption == None \notin File \cup Chunks \cup Content \cup Pages

(* The paths rig_begin_buffering gives to rig_check_expired, in order.     *)
Watched == <<"album", "options", "cache">>

PC == {"idle", "lookup", "stat", "check", "expire", "include",
       "build", "flush", "finish", "drop", "move"}
Building == {"build", "flush", "finish", "drop", "move"}

(* seen: the versions the request has read; at: the rank of the watched    *)
(* path or of the section it is at; stamp: the date of the page it checks. *)
Request == [pc : PC, page : Pages \cup {None}, at : Nat, seen : Content,
            stamp : Nat, start : Nat]
Idle == [pc |-> "idle", page |-> None, at |-> 0, seen |-> [s \in Sources |-> 0],
         stamp |-> 0, start |-> 0]

CleanIdle == [on |-> FALSE, todo |-> {}, kept |-> FALSE]

TypeOK ==
  /\ clock \in Nat
  /\ version \in [Sources -> Nat]
  /\ srcTime \in [Sources -> Nat]
  /\ html \in [Pages -> File \cup {None}]
  /\ tmp \in [Procs -> File \cup {None}]
  /\ dirExists \in BOOLEAN
  /\ cacheTime \in Nat
  /\ strays \in BOOLEAN
  /\ req \in [Procs -> Request]
  /\ \A r \in Procs :
       /\ req[r].pc # "idle" => req[r].page \in Pages
       /\ req[r].pc = "check" => req[r].at \in 1..3
       /\ req[r].pc \in {"build", "flush"} => req[r].at \in Sections
  /\ clean \in [on : BOOLEAN, todo : SUBSET Pages, kept : BOOLEAN]

Init ==
  /\ clock = 1
  /\ version = [s \in Sources |-> 0]
  /\ srcTime = [s \in Sources |-> 1]
  /\ html = [p \in Pages |-> None]
  /\ tmp = [r \in Procs |-> None]
  /\ dirExists \in {TRUE, Root}
  /\ cacheTime = 1
  /\ strays = FALSE
  /\ req = [r \in Procs |-> Idle]
  /\ clean = CleanIdle

(* Request r goes to pc, at rank i of what it does there.                  *)
Goto(r, pc, i) == req' = [req EXCEPT ![r].pc = pc, ![r].at = i]
End(r) == req' = [req EXCEPT ![r] = Idle]

-----------------------------------------------------------------------------
(* Mutant of Prepare: the options of the first request are kept.           *)
PrepareKeepingOptions(r, p) ==
  /\ req[r].pc = "idle"
  /\ req' = [req EXCEPT ![r] = [Idle EXCEPT !.pc = "lookup", !.page = p,
                                  !.seen["album"] = version["album"], !.start = clock]]
  /\ UNCHANGED <<clock, sourceVars, fileVars, clean>>

(* rig_prepare_album reads the album's options before the cache is looked  *)
(* up, and the request keeps them.                                         *)
Prepare(r, p) ==
  /\ req[r].pc = "idle"
  /\ req' = [req EXCEPT ![r] = [Idle EXCEPT !.pc = "lookup", !.page = p,
                                            !.seen = version, !.start = clock]]
  /\ UNCHANGED <<clock, sourceVars, fileVars, clean>>

(* rig_begin_buffering: does the page exist?                               *)
Lookup(r) ==
  /\ req[r].pc = "lookup"
  /\ IF html[req[r].page] # None THEN Goto(r, "stat", 0) ELSE Goto(r, "build", 1)
  /\ UNCHANGED <<clock, sourceVars, fileVars, clean>>

(* rig_modif_date: the date of the page, 0 when it has just gone.          *)
ModifDate(p) == IF html[p] = None THEN 0 ELSE html[p].stamp

Stat(r) ==
  /\ req[r].pc = "stat"
  /\ req' = [req EXCEPT ![r] = [@ EXCEPT !.pc = "check", !.at = 1,
                                         !.stamp = ModifDate(req[r].page)]]
  /\ UNCHANGED <<clock, sourceVars, fileVars, clean>>

(* Mutant of CacheNewer: the date of the folder itself is not looked at.   *)
CacheEntryNewer(d) ==
  /\ dirExists
  /\ \/ \E p \in Pages : html[p] # None /\ html[p].stamp > d
     \/ \E r \in Procs : tmp[r] # None /\ tmp[r].stamp > d

(* A folder is newer than date d when it or one of its entries is.         *)
CacheNewer(d) ==
  /\ dirExists
  /\ \/ cacheTime > d
     \/ \E p \in Pages : html[p] # None /\ html[p].stamp > d
     \/ \E r \in Procs : tmp[r] # None /\ tmp[r].stamp > d

Newer(w, d) == IF w = "cache" THEN CacheNewer(d) ELSE srcTime[w] > d

(* rig_check_expired: one path of the list; the first newer one ends it.   *)
Check(r) ==
  LET i == req[r].at IN
  /\ req[r].pc = "check"
  /\ IF Newer(Watched[i], req[r].stamp) THEN Goto(r, "expire", 0)
     ELSE IF i < 3 THEN Goto(r, "check", i + 1)
     ELSE Goto(r, "include", 0)
  /\ UNCHANGED <<clock, sourceVars, fileVars, clean>>

(* The page is no longer valid: remove the file of that name, and build.   *)
Expire(r) ==
  LET p == req[r].page IN
  /\ req[r].pc = "expire"
  /\ html' = [html EXCEPT ![p] = None]
  /\ cacheTime' = IF html[p] = None THEN cacheTime ELSE clock
  /\ Goto(r, "build", 1)
  /\ UNCHANGED <<clock, sourceVars, tmp, dirExists, strays, clean>>

(* album.php includes the file whose name rig_begin_buffering returned.    *)
Include(r) ==
  /\ req[r].pc = "include"
  /\ End(r)
  /\ UNCHANGED <<clock, sourceVars, fileVars, clean>>

(* The next section is rendered.  The one of rig_load_album_list lists the *)
(* album, having created the cache folder (rig_create_preview_dir).        *)
Render(r) ==
  LET load == req[r].at = LoadSection IN
  /\ req[r].pc = "build"
  /\ req' = [req EXCEPT ![r].pc = "flush",
                        ![r].seen["album"] = IF load THEN version["album"] ELSE @]
  /\ dirExists' = (dirExists \/ load)
  /\ cacheTime' = IF load /\ ~dirExists THEN clock ELSE cacheTime
  /\ UNCHANGED <<clock, sourceVars, html, tmp, strays, clean>>

(* rig_build_album_preview restores the album's options from their file    *)
(* while the list of albums is displayed.                                  *)
Reread(r) ==
  /\ req[r].pc = "flush"
  /\ req[r].at = LoadSection
  /\ req' = [req EXCEPT ![r].seen["options"] = version["options"]]
  /\ UNCHANGED <<clock, sourceVars, fileVars, clean>>

NoChunks == [s \in Sections |-> None]

(* File f of request r with the section it is at.                          *)
Appended(f, r) ==
  [chunks |-> [IF f = None THEN NoChunks ELSE f.chunks EXCEPT ![req[r].at] = req[r].seen],
   stamp  |-> clock,
   start  |-> req[r].start]

(* Mutant of AfterFlush: a section too few.                                *)
AfterFlushEarly(r) ==
  IF req[r].at + 1 < NSections THEN Goto(r, "build", req[r].at + 1) ELSE Goto(r, "finish", 0)

AfterFlush(r) ==
  IF req[r].at < NSections THEN Goto(r, "build", req[r].at + 1) ELSE Goto(r, "finish", 0)

(* rig_flush: the section is appended, and the file created if need be.    *)
Flush(r) ==
  /\ req[r].pc = "flush"
  /\ dirExists
  /\ tmp' = [tmp EXCEPT ![r] = Appended(tmp[r], r)]
  /\ cacheTime' = IF tmp[r] = None THEN clock ELSE cacheTime
  /\ AfterFlush(r)
  /\ UNCHANGED <<clock, sourceVars, html, dirExists, strays, clean>>

(* rig_flush, "if ($file)": a file that does not open, for want of its     *)
(* folder or for another reason, drops the section and nothing else.       *)
FlushLost(r) ==
  /\ req[r].pc = "flush"
  /\ ~dirExists \/ MayFail
  /\ AfterFlush(r)
  /\ UNCHANGED <<clock, sourceVars, fileVars, clean>>

(* rig_end_buffering: has another process published the page?              *)
Finish(r) ==
  /\ req[r].pc = "finish"
  /\ IF html[req[r].page] # None THEN Goto(r, "drop", 0) ELSE Goto(r, "move", 0)
  /\ UNCHANGED <<clock, sourceVars, fileVars, clean>>

(* The temporary file of r goes, and so does the request.                  *)
RemoveTmp(r) ==
  /\ tmp' = [tmp EXCEPT ![r] = None]
  /\ cacheTime' = IF tmp[r] = None THEN cacheTime ELSE clock
  /\ End(r)

Drop(r) ==
  /\ req[r].pc = "drop"
  /\ RemoveTmp(r)
  /\ UNCHANGED <<clock, sourceVars, html, dirExists, strays, clean>>

(* rename: it replaces a page of that name, and fails without a source.    *)
Move(r) ==
  /\ req[r].pc = "move"
  /\ html' = IF tmp[r] = None THEN html ELSE [html EXCEPT ![req[r].page] = tmp[r]]
  /\ RemoveTmp(r)
  /\ UNCHANGED <<clock, sourceVars, dirExists, strays, clean>>

(* Mutant of Abort: no shutdown function is registered.                    *)
AbortWithoutCleanup(r) ==
  /\ req[r].pc # "idle"
  /\ End(r)
  /\ UNCHANGED <<clock, sourceVars, fileVars, clean>>

(* PHP aborts the script: rig_clean_buffering, the shutdown function       *)
(* registered when a build starts, removes the temporary file.             *)
Abort(r) ==
  /\ req[r].pc # "idle"
  /\ RemoveTmp(r)
  /\ UNCHANGED <<clock, sourceVars, html, dirExists, strays, clean>>

(* The process is killed: its temporary file is nobody's.                  *)
Crash(r) ==
  /\ req[r].pc # "idle"
  /\ tmp' = [tmp EXCEPT ![r] = None]
  /\ strays' = (strays \/ tmp[r] # None)
  /\ cacheTime' = IF tmp[r] # None /\ tmp[r].stamp > cacheTime
                  THEN tmp[r].stamp ELSE cacheTime
  /\ End(r)
  /\ UNCHANGED <<clock, sourceVars, html, dirExists, clean>>

-----------------------------------------------------------------------------
(* rig_admin_rm_html_caches: opendir gives the entries; those that match   *)
(* the name of a page are removed one by one, the others are counted.      *)
CleanOpen ==
  /\ Cleaning
  /\ ~clean.on
  /\ dirExists
  /\ clean' = [on |-> TRUE, todo |-> {p \in Pages : html[p] # None},
               kept |-> strays \/ \E r \in Procs : tmp[r] # None]
  /\ UNCHANGED <<clock, sourceVars, fileVars, req>>

CleanUnlink(p) ==
  /\ clean.on
  /\ p \in clean.todo
  /\ clean' = [clean EXCEPT !.todo = @ \ {p}]
  /\ html' = [html EXCEPT ![p] = None]
  /\ cacheTime' = IF html[p] = None THEN cacheTime ELSE clock
  /\ UNCHANGED <<clock, sourceVars, tmp, dirExists, strays, req>>

(* Mutant of EmptyDir: the folder goes with the temporary files in it.     *)
NoPageInDir == ~strays /\ \A p \in Pages : html[p] = None

(* rmdir is tried when nothing was kept, never on the root, and it fails   *)
(* on a folder that is not empty.                                          *)
EmptyDir ==
  /\ ~strays
  /\ \A p \in Pages : html[p] = None
  /\ \A r \in Procs : tmp[r] = None

(* Mutant of CleanClose: the root is removed as any other folder.          *)
CleanCloseAnywhere ==
  /\ clean.on
  /\ clean.todo = {}
  /\ clean' = CleanIdle
  /\ dirExists' = (dirExists /\ ~(~clean.kept /\ EmptyDir))
  /\ UNCHANGED <<clock, sourceVars, html, tmp, cacheTime, strays, req>>

CleanClose ==
  /\ clean.on
  /\ clean.todo = {}
  /\ clean' = CleanIdle
  /\ dirExists' = (dirExists /\ ~(~clean.kept /\ ~Root /\ EmptyDir))
  /\ UNCHANGED <<clock, sourceVars, html, tmp, cacheTime, strays, req>>

(* Another request puts a preview in the cache folder (image.php).         *)
WritePreview ==
  /\ dirExists' = TRUE
  /\ strays' = TRUE
  /\ cacheTime' = clock
  /\ UNCHANGED <<clock, sourceVars, html, tmp, req, clean>>

(* The album's folder, or its options, are edited.                         *)
Edit(s) ==
  /\ version["album"] + version["options"] < MaxEdits
  /\ version' = [version EXCEPT ![s] = @ + 1]
  /\ srcTime' = [srcTime EXCEPT ![s] = clock]
  /\ UNCHANGED <<clock, fileVars, req, clean>>

Tick ==
  /\ clock < MaxClock
  /\ clock' = clock + 1
  /\ UNCHANGED <<sourceVars, fileVars, req, clean>>

Serve(r) ==
  \/ \E p \in Pages : Prepare(r, p)
  \/ Lookup(r) \/ Stat(r) \/ Check(r) \/ Expire(r) \/ Include(r)
  \/ Render(r) \/ Reread(r) \/ Flush(r) \/ FlushLost(r)
  \/ Finish(r) \/ Drop(r) \/ Move(r)
  \/ Abort(r) \/ Crash(r)

Next ==
  \/ \E r \in Procs : Serve(r)
  \/ CleanOpen \/ (\E p \in Pages : CleanUnlink(p)) \/ CleanClose
  \/ WritePreview
  \/ \E s \in Sources : Edit(s)
  \/ Tick

Spec == Init /\ [][Next]_vars

-----------------------------------------------------------------------------
(* The page of key p passes every test of rig_check_expired.               *)
Acceptable(p) ==
  /\ html[p] # None
  /\ \A i \in 1..3 : ~Newer(Watched[i], html[p].stamp)

(* A published page may lack its first sections, never one in the middle   *)
(* or at the end: rig_flush drops sections only as long as there is no     *)
(* cache folder, and no step removes the folder under a temporary file.    *)
PublishedIsSuffix ==
  \A p \in Pages : html[p] # None =>
    /\ html[p].chunks[NSections] # None
    /\ \A i, j \in Sections : i < j /\ html[p].chunks[i] # None => html[p].chunks[j] # None

(* What a published page shows is wrong only if the source it shows was    *)
(* edited in or after the second its request arrived: with the test of     *)
(* rig_check_expired (no source newer than the page), a page that is       *)
(* served while it is out of date was overtaken while it was being built.  *)
StaleEditedSinceStart ==
  \A p \in Pages : html[p] # None =>
    \A i \in Sections, s \in Sources :
      html[p].chunks[i] # None /\ html[p].chunks[i][s] # version[s]
        => srcTime[s] >= html[p].start

(* A temporary file with an owner belongs to a request that is building:   *)
(* whatever ends a request, short of killing it, removes its file          *)
(* (rig_clean_buffering and the branches of rig_end_buffering).            *)
TmpBelongsToBuilder ==
  \A r \in Procs : tmp[r] # None => req[r].pc \in Building

(* A page is only ever served if nothing happened in the cache folder in   *)
(* a later second than its last flush: its own rename and every build of a *)
(* sibling must fall in that second.  The folder is among the paths of     *)
(* rig_check_expired and rename dates it, not the file.                    *)
ServedInSecondOfRename ==
  \A p \in Pages : Acceptable(p) => html[p].stamp = cacheTime

(* The pages of an album change atomically and are never seen half         *)
(* written: the cache implements PageStore (for rig_flush calls that work, *)
(* ~MayFail; see FlushLost).                                               *)
Store == INSTANCE PageStore WITH
  Builders <- Procs,
  Contents <- [Sources -> 0..MaxEdits],
  slot  <- [p \in Pages |-> IF html[p] = None THEN None ELSE html[p].chunks],
  draft <- [r \in Procs |-> IF tmp[r] = None THEN None ELSE tmp[r].chunks]
StoreImplemented == Store!StoreSpec

(* A published page has all its sections.                                  *)
PublishedComplete ==
  \A p \in Pages : html[p] # None => \A i \in Sections : html[p].chunks[i] # None

-----------------------------------------------------------------------------
(* What the comments and the documentation say, and the code does not do.  *)

(* common.php: "if present, that may mean another RIG process is building  *)
(* the same directory, so let's give up": rename finds no page.            *)
GivesUpOnPresentPage ==
  \A r \in Procs : req[r].pc = "move" => html[req[r].page] = None

(* prefs.php: "The HTML is automatically expired whenever one of these     *)
(* folders is modified": a page that is served shows what its sources were *)
(* when the request arrived, or later.                                     *)
ServedIsCurrent ==
  \A r \in Procs : LET f == html[req[r].page] IN
    req[r].pc = "include" /\ f # None =>
      \A i \in LoadSection..NSections, s \in Sources :
        f.chunks[i] # None => f.chunks[i][s] >= req[r].seen[s]

(* CHANGELOG: "serves the cached version next time the same unchanged      *)
(* album is viewed": a page that is up to date is not rebuilt, unless      *)
(* previews came in the folder (which expires its pages on purpose).       *)
UnchangedIsServed ==
  \A r \in Procs : LET f == html[req[r].page] IN
    req[r].pc = "expire" /\ f # None /\ ~strays =>
      \E i \in Sections : f.chunks[i] # None /\ f.chunks[i] # version
=============================================================================
