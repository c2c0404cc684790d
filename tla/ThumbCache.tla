------------------------------ MODULE ThumbCache ------------------------------
(***************************************************************************)
(* The thumbnails of an album, in its folder of the image cache.           *)
(*                                                                         *)
(* A PHP request that shows an image or a video tests whether the file of  *)
(* its thumbnail is there (rig_build_image_type, rig_build_video_type).    *)
(* When it is not, the request runs the thumbnail engine, a program of its *)
(* own that reads and rescales the source, and only then opens the file    *)
(* and writes it.  An alarm stops the engine after 20 seconds wherever it  *)
(* is.  Nobody locks the file: engines of several requests may write it,   *)
(* each at its own place, while the administrator removes it.              *)
(***************************************************************************)
EXTENDS Naturals

CONSTANTS
  Requests,  \* the PHP processes, each with its engine
  Thumbs,    \* the files of the thumbnails, one for each image or video
  Videos,    \* those of videos
  Blocks,    \* how many blocks a thumbnail has
  MaxEdits,  \* bound: how often a source changes
  MayFail,   \* TRUE when sources may be unreadable, and files fail to open or
             \* to be written
  None       \* no thumbnail

ASSUME ThumbsAssumption == Videos \subseteq Thumbs /\ None \notin Thumbs
ASSUME BlocksAssumption == Blocks \in Nat \ {0}
ASSUME BoundsAssumption == MaxEdits \in Nat /\ MayFail \in BOOLEAN

VARIABLES
  folder,    \* whether the folder is there
  file,      \* file[t]: the contents of a file
  source,    \* source[t]: the version of the source of t
  req,       \* req[r]: the state of a request
  engine,    \* engine[r]: the state of the engine request r started
  cleaning,  \* whether rig_admin_rm_previews is at work
  disturbed  \* (history) the thumbnails of which a write was cut short or gave
             \* way to the default icon, or whose source changed in the making

vars == <<folder, file, source, req, engine, cleaning, disturbed>>

-----------------------------------------------------------------------------
(* A block of a file: 0 where nothing was written, the version of the      *)
(* source it was made from, or the default icon, which takes one block.    *)
Hole == 0
Versions == 1..(MaxEdits + 1)
Icon == MaxEdits + 2
File == [there : BOOLEAN, data : [1..Blocks -> 0..Icon]]
NoFile == [there |-> FALSE, data |-> [i \in 1..Blocks |-> Hole]]
Empty == [there |-> TRUE, data |-> [i \in 1..Blocks |-> Hole]]

(* linked: the file the process has open is the one in the folder.         *)
Request == [pc : {"idle", "page", "exec", "timeout", "copy"}, thumb : Thumbs \cup {None},
            linked : BOOLEAN]
Engine == [pc : {"none", "read", "open", "write", "exit"}, thumb : Thumbs \cup {None},
           version : Versions, at : 0..Blocks, linked : BOOLEAN, status : {0, 1, 3}]

IdleRequest == [pc |-> "idle", thumb |-> None, linked |-> FALSE]
NoEngine == [pc |-> "none", thumb |-> None, version |-> 1, at |-> 0, linked |-> FALSE,
             status |-> 0]

TypeOK ==
  /\ folder \in BOOLEAN /\ cleaning \in BOOLEAN
  /\ file \in [Thumbs -> File]
  /\ source \in [Thumbs -> Versions]
  /\ req \in [Requests -> Request]
  /\ engine \in [Requests -> Engine]
  /\ disturbed \in SUBSET Thumbs
  /\ \A r \in Requests :
       /\ req[r].pc \in {"exec", "timeout", "copy"} => req[r].thumb \in Thumbs
       /\ engine[r].pc # "none" => engine[r].thumb \in Thumbs

Init ==
  /\ folder = FALSE
  /\ file = [t \in Thumbs |-> NoFile]
  /\ source = [t \in Thumbs |-> 1]
  /\ req = [r \in Requests |-> IdleRequest]
  /\ engine = [r \in Requests |-> NoEngine]
  /\ cleaning = FALSE
  /\ disturbed = {}

(* Request r and its engine become q and e.                                *)
Becomes(r, q) == req' = [req EXCEPT ![r] = q]
Runs(r, e) == engine' = [engine EXCEPT ![r] = e]

-----------------------------------------------------------------------------
(* The request.                                                            *)

(* rig_prepare_album creates the folder (rig_create_preview_dir).          *)
Prepare(r) ==
  /\ req[r].pc = "idle"
  /\ engine[r].pc = "none"
  /\ folder' = TRUE
  /\ Becomes(r, [req[r] EXCEPT !.pc = "page"])
  /\ UNCHANGED <<file, source, engine, cleaning, disturbed>>

(* The file of t is not there, and rig_make_image runs the engine.         *)
Build(r, t) ==
  /\ req[r].pc = "page"
  /\ ~file[t].there
  /\ Becomes(r, [req[r] EXCEPT !.pc = "exec", !.thumb = t])
  /\ Runs(r, [NoEngine EXCEPT !.pc = "read", !.thumb = t])
  /\ UNCHANGED <<folder, file, source, cleaning, disturbed>>

(* exec returns the status of the engine; 3 is a timeout.                  *)
Return(r) ==
  /\ req[r].pc = "exec"
  /\ engine[r].pc = "exit"
  /\ Runs(r, NoEngine)
  /\ Becomes(r, IF engine[r].status = 3 THEN [req[r] EXCEPT !.pc = "timeout"]
                 ELSE [req[r] EXCEPT !.pc = "page", !.thumb = None])
  /\ UNCHANGED <<folder, file, source, cleaning, disturbed>>

(* After a timeout the default icon is copied in place of the thumbnail.   *)
(* rig_build_image_type does not declare $abs_images_path, so there is no  *)
(* icon to copy.  A file that is there is emptied before it is written.    *)
Copy(r) ==
  LET t == req[r].thumb IN
  /\ req[r].pc = "timeout"
  /\ t \in Videos /\ folder
  /\ file' = [file EXCEPT ![t] = Empty]
  /\ Becomes(r, [req[r] EXCEPT !.pc = "copy", !.linked = TRUE])
  /\ disturbed' = disturbed \cup {t}
  /\ UNCHANGED <<folder, source, engine, cleaning>>

CopyFails(r) ==
  LET t == req[r].thumb IN
  /\ req[r].pc = "timeout"
  /\ t \notin Videos \/ ~folder \/ MayFail
  /\ Becomes(r, [req[r] EXCEPT !.pc = "page", !.thumb = None])
  /\ UNCHANGED <<folder, file, source, engine, cleaning, disturbed>>

Copied(r) ==
  LET t == req[r].thumb IN
  /\ req[r].pc = "copy"
  /\ file' = IF req[r].linked THEN [file EXCEPT ![t].data[1] = Icon] ELSE file
  /\ Becomes(r, [IdleRequest EXCEPT !.pc = "page"])
  /\ UNCHANGED <<folder, source, engine, cleaning, disturbed>>

(* The page is complete, or the process is aborted or killed: an engine it *)
(* waits for goes on alone.                                                *)
End(r) ==
  /\ req[r].pc # "idle"
  /\ Becomes(r, IdleRequest)
  /\ UNCHANGED <<folder, file, source, engine, cleaning, disturbed>>

(* The system buries an engine that nobody waits for.                      *)
Bury(r) ==
  /\ req[r].pc = "idle"
  /\ engine[r].pc = "exit"
  /\ Runs(r, NoEngine)
  /\ UNCHANGED <<folder, file, source, req, cleaning, disturbed>>

-----------------------------------------------------------------------------
(* The engine.                                                             *)

Stop(r, status) == Runs(r, [engine[r] EXCEPT !.pc = "exit", !.linked = FALSE, !.status = status])

(* rig_resize_image reads and rescales the source.                         *)
Read(r) ==
  /\ engine[r].pc = "read"
  /\ \/ Runs(r, [engine[r] EXCEPT !.pc = "open", !.version = source[engine[r].thumb]])
     \/ MayFail /\ Stop(r, 1)
  /\ UNCHANGED <<folder, file, source, req, cleaning, disturbed>>

(* rig_jpeg_write: fopen makes the file, or empties the one that is there. *)
Open(r) ==
  /\ engine[r].pc = "open"
  /\ folder
  /\ file' = [file EXCEPT ![engine[r].thumb] = Empty]
  /\ Runs(r, [engine[r] EXCEPT !.pc = "write", !.at = 0, !.linked = TRUE])
  /\ UNCHANGED <<folder, source, req, cleaning, disturbed>>

(* It fails without a folder, and rig_jpeg_write returns TRUE.             *)
OpenFails(r) ==
  /\ engine[r].pc = "open"
  /\ ~folder \/ MayFail
  /\ Stop(r, 0)
  /\ UNCHANGED <<folder, file, source, req, cleaning, disturbed>>

(* Mutant of Write: one block too many.                                    *)
WriteOneMore(r) ==
  LET e == engine[r] IN
  /\ e.pc = "write"
  /\ e.at <= Blocks
  /\ file' = IF e.linked THEN [file EXCEPT ![e.thumb].data[e.at + 1] = e.version] ELSE file
  /\ Runs(r, [e EXCEPT !.at = @ + 1])
  /\ UNCHANGED <<folder, source, req, cleaning, disturbed>>

(* The next block, at its place in the file.                               *)
Write(r) ==
  LET e == engine[r] IN
  /\ e.pc = "write"
  /\ e.at < Blocks
  /\ file' = IF e.linked THEN [file EXCEPT ![e.thumb].data[e.at + 1] = e.version] ELSE file
  /\ Runs(r, [e EXCEPT !.at = @ + 1])
  /\ UNCHANGED <<folder, source, req, cleaning, disturbed>>

(* What a write that stops before the last block leaves in the folder.     *)
Disturb(e) ==
  disturbed' = IF e.pc = "write" /\ e.linked /\ e.at < Blocks THEN disturbed \cup {e.thumb}
               ELSE disturbed

(* Writing fails; rig_resize_image ignores what rig_jpeg_write returns.    *)
WriteFails(r) ==
  /\ engine[r].pc = "write"
  /\ MayFail
  /\ Stop(r, 0)
  /\ Disturb(engine[r])
  /\ UNCHANGED <<folder, file, source, req, cleaning>>

(* Mutant of Finish: the last block is not waited for.                     *)
FinishEarly(r) ==
  /\ engine[r].pc = "write"
  /\ engine[r].at >= Blocks - 1
  /\ Stop(r, 0)
  /\ UNCHANGED <<folder, file, source, req, cleaning, disturbed>>

Finish(r) ==
  /\ engine[r].pc = "write"
  /\ engine[r].at = Blocks
  /\ Stop(r, 0)
  /\ UNCHANGED <<folder, file, source, req, cleaning, disturbed>>

(* Mutant of Alarm: no alarm once the file is open.                        *)
AlarmDisarmed(r) ==
  /\ engine[r].pc \in {"read", "open"}
  /\ Stop(r, 3)
  /\ UNCHANGED <<folder, file, source, req, cleaning, disturbed>>

(* rig_sig_alarm: _exit(3), wherever the engine is.                        *)
Alarm(r) ==
  /\ engine[r].pc \in {"read", "open", "write"}
  /\ Stop(r, 3)
  /\ Disturb(engine[r])
  /\ UNCHANGED <<folder, file, source, req, cleaning>>

-----------------------------------------------------------------------------
(* rig_admin_rm_previews, and the owner of the album.                      *)

CleanOpen ==
  /\ ~cleaning
  /\ folder
  /\ cleaning' = TRUE
  /\ UNCHANGED <<folder, file, source, req, engine, disturbed>>

(* The processes that have the file open keep one that is not in the       *)
(* folder any more.                                                        *)
CleanUnlink(t) ==
  /\ cleaning
  /\ file[t].there
  /\ file' = [file EXCEPT ![t] = NoFile]
  /\ req' = [r \in Requests |-> [req[r] EXCEPT !.linked = @ /\ req[r].thumb # t]]
  /\ engine' = [r \in Requests |-> [engine[r] EXCEPT !.linked = @ /\ engine[r].thumb # t]]
  /\ UNCHANGED <<folder, source, cleaning, disturbed>>

(* rmdir, unless something else was listed, removes a folder that is empty.*)
CleanClose ==
  /\ cleaning
  /\ cleaning' = FALSE
  /\ folder' = (\E t \in Thumbs : file[t].there) \/ UNCHANGED folder
  /\ UNCHANGED <<file, source, req, engine, disturbed>>

Edit(t) ==
  /\ source[t] <= MaxEdits
  /\ source' = [source EXCEPT ![t] = @ + 1]
  /\ disturbed' = IF \E r \in Requests : engine[r].thumb = t /\ engine[r].pc \in {"open", "write"}
                  THEN disturbed \cup {t} ELSE disturbed
  /\ UNCHANGED <<folder, file, req, engine, cleaning>>

Next ==
  \/ \E r \in Requests :
       \/ Prepare(r) \/ Return(r) \/ Copy(r) \/ CopyFails(r) \/ Copied(r) \/ End(r) \/ Bury(r)
       \/ Read(r) \/ Open(r) \/ OpenFails(r) \/ Write(r) \/ WriteFails(r) \/ Finish(r) \/ Alarm(r)
       \/ \E t \in Thumbs : Build(r, t)
  \/ CleanOpen \/ CleanClose
  \/ \E t \in Thumbs : CleanUnlink(t) \/ Edit(t)

Spec == Init /\ [][Next]_vars

(* The alarm goes off in the end, and PHP goes on when exec returns.       *)
Fairness ==
  \A r \in Requests : /\ WF_vars(Alarm(r)) /\ WF_vars(Return(r))
                      /\ WF_vars(Copy(r) \/ CopyFails(r)) /\ WF_vars(Copied(r))

FairSpec == Spec /\ Fairness

-----------------------------------------------------------------------------
Opened(t) == \/ \E r \in Requests : engine[r].linked /\ engine[r].thumb = t
             \/ \E r \in Requests : req[r].linked /\ req[r].thumb = t

(* Engines of several requests may make the same thumbnail at the same     *)
(* time, empty each other's file and lose theirs to the administrator:     *)
(* when they end, the file that is there is whole and of one version, but  *)
(* for the cases "disturbed" lists.                                        *)
WholeThumbs ==
  \A t \in Thumbs \ disturbed :
    file[t].there /\ ~Opened(t) => \E v \in Versions : \A i \in 1..Blocks : file[t].data[i] = v

(* The alarm of the engine ends the wait of every request, whatever the    *)
(* engine is doing ("20 seconds also happens to be the time PHP's call     *)
(* will wait").                                                            *)
RequestsEnd == \A r \in Requests : req[r].pc = "exec" ~> req[r].pc \in {"page", "idle"}

(* common_images.php: after a timeout "we actually *copy* the default N/A  *)
(* icon as the generated thumbnail", because "the next request for the     *)
(* same thumbnail will generate one more timeout".                         *)
TimeoutRemembered ==
  [][\A r \in Requests :
       req[r].pc \in {"timeout", "copy"} /\ req'[r].pc = "page" /\ folder =>
         file'[req[r].thumb].there]_vars
=============================================================================
