----------------------------- MODULE AlbumOptions -----------------------------
(***************************************************************************)
(* The options of the albums: one options.txt per album, read into global  *)
(* variables (rig_read_album_options), changed there, and written back     *)
(* (rig_write_album_options), by concurrent PHP requests and without a     *)
(* lock.                                                                   *)
(*                                                                         *)
(* A request shows an album, to a visitor or to the administrator.  It     *)
(* reads the options of that album, does what the administrator asked, and *)
(* shows a preview of every sub-album, unless it is hidden from a visitor. *)
(* For that preview it reads the options of the sub-album in the same      *)
(* global variables, may choose an icon and write those options, and must  *)
(* put back the options of the album it shows.  Each action makes at most  *)
(* one access to options.txt.                                              *)
(***************************************************************************)
EXTENDS Naturals

CONSTANTS
  Requests,  \* the PHP processes
  Albums,    \* the albums, and the links to albums
  Images,    \* names of images
  Root,      \* the root album, which has no icon
  Subs,      \* Subs[a]: the sub-albums of a
  Below,     \* Below[a]: the albums under a, at any depth
  Files,     \* Files[a]: the images of a
  Name,      \* Name[a]: the last part of the path of a
  Real,      \* Real[a]: the album a link leads to, or a (current_real_album)
  Ops,       \* the operations of the administrator
  MayFail,   \* TRUE when requests may be killed and fopen may fail
  None,      \* no icon, no album
  MaxVisits  \* bound: how many requests come

Names == Images \cup {Name[a] : a \in Albums \ {Root}}

ASSUME AlbumsAssumption ==
  /\ Root \in Albums
  /\ Subs \in [Albums -> SUBSET Albums]
  /\ Below \in [Albums -> SUBSET Albums]
  /\ \A a \in Albums : Subs[a] \subseteq Below[a] /\ \A b \in Below[a] : Below[b] \subseteq Below[a]
  /\ \A a \in Albums : Root \notin Below[a]
  /\ Files \in [Albums -> SUBSET Images]
  /\ Real \in [Albums -> Albums]
ASSUME OpsAssumption ==
  Ops \subseteq {"rand", "hide", "show", "icon", "fix", "fixall", "make"}
ASSUME BoundsAssumption == MayFail \in BOOLEAN /\ MaxVisits \in Nat
ASSUME NoneAssumption == None \notin Albums \cup Images \cup Requests

VARIABLES
  file,      \* file[a]: the contents of options.txt of album a
  req,       \* req[r]: the state of request r
  visits,    \* how many requests came
  intended,  \* intended[a]: (history) the options that the changes made to a,
             \* applied one after the other, add up to
  spoiled    \* (history) the albums with a change that was not made alone

vars == <<file, req, visits, intended, spoiled>>
historyVars == <<intended, spoiled>>

-----------------------------------------------------------------------------
(* list_hide, and the file in list_album_icon.                             *)
Options == [hide : SUBSET Names, icon : Images \cup {None}]
NoOptions == [hide |-> {}, icon |-> None]

(* A file holds the options "data" of the process that opened it last, as  *)
(* far as the values of ":list_hide" (1), those of ":list_album_icon" (2)  *)
(* or the final ":" (3).  It is mixed when another process wrote in it at  *)
(* its own place.  An album without a file has no options.                 *)
File == [by : Requests \cup {None}, upto : 0..3, mixed : BOOLEAN, data : Options]
Whole(o) == [by |-> None, upto |-> 3, mixed |-> FALSE, data |-> o]

Complete(f) == f.upto = 3 /\ ~f.mixed

(* rig_read_album_options keeps a list when it meets the next line that    *)
(* starts with ":", so the last list of a file cut short is lost.  Nothing *)
(* is known of the lists of a mixed file.                                  *)
ReadOf(f) ==
  IF f.mixed THEN Options
  ELSE {[hide |-> IF f.upto >= 2 THEN f.data.hide ELSE {},
         icon |-> IF f.upto = 3 THEN f.data.icon ELSE None]}

(* A change of options: the hidden names that stay, those that come, and   *)
(* the new icon.                                                           *)
Change == [keep : SUBSET Names, add : SUBSET Names, icon : Images \cup {None}]
Hide(n) == [keep |-> Names, add |-> {n}, icon |-> None]
Show(n) == [keep |-> Names \ {n}, add |-> {}, icon |-> None]
KeepOnly(s) == [keep |-> s, add |-> {}, icon |-> None]
NewIcon(i) == [keep |-> Names, add |-> {}, icon |-> i]
NoChange == KeepOnly(Names)

Apply(c, o) == [hide |-> (o.hide \cap c.keep) \cup c.add,
                icon |-> IF c.icon = None THEN o.icon ELSE c.icon]

(* What the administrator asks for: rig_admin_perform_before_header (rand) *)
(* and rig_admin_perform_defer.                                            *)
Act == [op : {"none", "rand", "hide", "show", "icon", "fix", "fixall", "make"},
        on : Names \cup {None}]
NoAct == [op |-> "none", on |-> None]

PC == {"idle", "page", "icon", "random", "set", "open", "write", "readback", "restore"}

(* album: current_album; admin: the page is the administrator's; act: what *)
(* the administrator asked for and is not done; todo, fixes: the albums to *)
(* preview and to fix; opts: the global variables, read from the file of   *)
(* album "from"; target: the album whose preview is built or whose options *)
(* are written; image: its new icon; changed: album_options_changed;       *)
(* change, at: what is being written, and how far; then: what follows;     *)
(* stale: (history) the file of "from" was not complete, or was opened for *)
(* writing by another process since, or opts holds a change that could not *)
(* be written.                                                             *)
Request == [pc : PC, album : Albums \cup {None}, admin : BOOLEAN, act : Act,
            todo : SUBSET Albums, fixes : SUBSET Albums,
            opts : Options, from : Albums \cup {None}, stale : BOOLEAN,
            target : Albums \cup {None}, image : Images \cup {None},
            changed : BOOLEAN, change : Change, at : 0..2,
            then : {"page", "restore", "readback"}]

Idle == [pc |-> "idle", album |-> None, admin |-> FALSE, act |-> NoAct, todo |-> {}, fixes |-> {},
         opts |-> NoOptions, from |-> None, stale |-> FALSE, target |-> None,
         image |-> None, changed |-> FALSE, change |-> NoChange, at |-> 0, then |-> "page"]

TypeOK ==
  /\ file \in [Albums -> File]
  /\ req \in [Requests -> Request]
  /\ visits \in Nat
  /\ intended \in [Albums -> Options]
  /\ spoiled \in SUBSET Albums
  /\ \A r \in Requests :
       /\ req[r].pc # "idle" => req[r].album \in Albums /\ req[r].from \in Albums
       /\ req[r].pc \in {"icon", "random", "set", "open", "write"} => req[r].target \in Albums
       /\ req[r].pc = "set" => req[r].image \in Images
       /\ req[r].act.op \in {"hide", "show"} => req[r].act.on \in Names
       /\ req[r].act.op = "icon" => req[r].act.on \in Images

(* What an album contains: the names rig_load_album_list(TRUE) finds.      *)
Contents(a) == Files[a] \cup {Name[b] : b \in Subs[a]}

(* Nothing is hidden at first, or everything is.                           *)
Init ==
  /\ \/ intended = [a \in Albums |-> NoOptions]
     \/ intended = [a \in Albums |-> [NoOptions EXCEPT !.hide = Contents(a)]]
  /\ file = [a \in Albums |-> Whole(intended[a])]
  /\ req = [r \in Requests |-> Idle]
  /\ visits = 0
  /\ spoiled = {}

(* Request r becomes q.                                                    *)
Becomes(r, q) == req' = [req EXCEPT ![r] = q]

(* Request q, done with its target, goes on to pc.                         *)
Done(q, pc) == [q EXCEPT !.pc = pc, !.target = None, !.image = None, !.change = NoChange,
                         !.changed = FALSE, !.then = "page", !.at = 0]

(* Mutant of Having: an album without options keeps those that were there. *)
HavingUncleared(q, a, o) ==
  [q EXCEPT !.opts = IF o = NoOptions THEN @ ELSE o, !.from = a, !.stale = ~Complete(file[a])]

(* Request q with options o, just read from the file of album a.           *)
Having(q, a, o) == [q EXCEPT !.opts = o, !.from = a, !.stale = ~Complete(file[a])]

(* A request comes.                                                        *)
Arrive(r) ==
  /\ req[r].pc = "idle"
  /\ visits < MaxVisits
  /\ visits' = visits + 1

-----------------------------------------------------------------------------
(* rig_prepare_album reads the options of the album.  Its page shows the   *)
(* sub-albums; the administrator's starts with the preview of the album    *)
(* itself, or with the choice of a new icon (rand_prev, which shows no     *)
(* page).                                                                  *)
Visit(r, c) ==
  /\ Arrive(r)
  /\ \E o \in ReadOf(file[Real[c]]) :
       Becomes(r, Having([Idle EXCEPT !.pc = "page", !.album = c, !.todo = Subs[c]],
                         Real[c], o))
  /\ UNCHANGED <<file, historyVars>>

Administer(r, c, act) ==
  LET q == [Idle EXCEPT !.album = c, !.admin = TRUE] IN
  /\ Arrive(r)
  /\ \E o \in ReadOf(file[Real[c]]) :
       Becomes(r, Having(
         IF act.op = "rand" THEN [q EXCEPT !.pc = "random", !.target = c]
         ELSE [q EXCEPT !.pc = "page", !.act = act, !.todo = {c} \ {Root}],
         Real[c], o))
  /\ UNCHANGED <<file, historyVars>>

End(r) ==
  /\ req[r].pc = "page"
  /\ req[r].act = NoAct /\ req[r].todo = {} /\ req[r].fixes = {}
  /\ Becomes(r, Idle)
  /\ UNCHANGED <<file, visits, historyVars>>

(* rig_display_album_list passes over an album that is hidden, or not on   *)
(* the current page of the list.                                           *)
Skip(r, a) ==
  /\ req[r].pc = "page"
  /\ ~req[r].admin
  /\ a \in req[r].todo
  /\ Becomes(r, [req[r] EXCEPT !.todo = @ \ {a}])
  /\ UNCHANGED <<file, visits, historyVars>>

(* rig_build_album_preview: the icon of album a is there and fits; or it   *)
(* does not, or its date must be checked, and its options are needed: they *)
(* are read unless a is the album shown.                                   *)
Preview(r, a) ==
  LET q == [req[r] EXCEPT !.todo = @ \ {a}] IN
  /\ req[r].pc = "page"
  /\ req[r].fixes = {}
  /\ a \in req[r].todo
  /\ req[r].admin \/ Name[a] \notin req[r].opts.hide
  /\ \/ Becomes(r, q)
     \/ \E next \in {"icon", "restore"} :
          IF a = Real[q.album]
          THEN Becomes(r, [q EXCEPT !.pc = next, !.target = a])
          ELSE \E o \in ReadOf(file[a]) :
                 Becomes(r, Having([q EXCEPT !.pc = next, !.target = a, !.changed = TRUE], a, o))
  /\ UNCHANGED <<file, visits, historyVars>>

(* The icon the options name is made again, or another must be chosen.     *)
Icon(r) ==
  /\ req[r].pc = "icon"
  /\ \/ req[r].opts.icon # None /\ Becomes(r, [req[r] EXCEPT !.pc = "restore"])
     \/ Becomes(r, [req[r] EXCEPT !.pc = "random"])
  /\ UNCHANGED <<file, visits, historyVars>>

(* rig_select_random_album_icon: an image of the album, if it is visible,  *)
(* or of those under it; there may be none whose preview can be made.      *)
Random(r) ==
  LET a == req[r].target IN
  /\ req[r].pc = "random"
  /\ \E o \in ReadOf(file[a]) :
       \/ Becomes(r, Having([req[r] EXCEPT !.pc = "restore"], a, o))
       \/ \E i \in (Files[a] \ o.hide) \cup UNION {Files[b] : b \in Below[a]} :
            Becomes(r, Having([req[r] EXCEPT !.pc = "set", !.image = i], a, o))
  /\ UNCHANGED <<file, visits, historyVars>>

(* rig_set_album_icon reads the options of the album, to change the icon.  *)
SetIcon(r) ==
  LET a == req[r].target
      c == NewIcon(req[r].image) IN
  /\ req[r].pc = "set"
  /\ \E o \in ReadOf(file[a]) :
       Becomes(r, Having([req[r] EXCEPT !.pc = "open", !.change = c, !.then = "restore"],
                         a, Apply(c, o)))
  /\ UNCHANGED <<file, visits, historyVars>>

(* Mutant of Restore: the options of the sub-album stay.                   *)
RestoreNothing(r) ==
  /\ req[r].pc = "restore"
  /\ Becomes(r, Done(req[r], "page"))
  /\ UNCHANGED <<file, visits, historyVars>>

(* rig_build_album_preview: "read the current options back if changed".    *)
Restore(r) ==
  LET q == Done(req[r], "page") IN
  /\ req[r].pc = "restore"
  /\ IF req[r].changed
     THEN \E o \in ReadOf(file[Real[q.album]]) : Becomes(r, Having(q, Real[q.album], o))
     ELSE Becomes(r, q)
  /\ UNCHANGED <<file, visits, historyVars>>

-----------------------------------------------------------------------------
(* The request is ready for what the administrator asked; the page then    *)
(* shows the previews of all the sub-albums.                               *)
Acting(r, op) ==
  /\ req[r].pc = "page"
  /\ req[r].todo = {}
  /\ req[r].act.op = op
Acted(r) == [req[r] EXCEPT !.act = NoAct, !.todo = Subs[req[r].album]]

(* rig_admin_set_album_visible and rig_admin_set_image_visible change the  *)
(* list and write it if it does not say so already, and read it back.      *)
SetVisible(r) ==
  LET n == req[r].act.on
      show == req[r].act.op = "show"
      c == IF show THEN Show(n) ELSE Hide(n)
      q == [Acted(r) EXCEPT !.change = c, !.target = req[r].album, !.then = "readback"] IN
  /\ Acting(r, "show") \/ Acting(r, "hide")
  /\ IF (n \in req[r].opts.hide) = show
     THEN Becomes(r, [q EXCEPT !.pc = "open", !.opts = Apply(c, req[r].opts)])
     ELSE Becomes(r, [q EXCEPT !.pc = "readback"])
  /\ UNCHANGED <<file, visits, historyVars>>

Readback(r) ==
  /\ req[r].pc = "readback"
  /\ \E o \in ReadOf(file[req[r].album]) :
       Becomes(r, Having(Done(req[r], "page"), req[r].album, o))
  /\ UNCHANGED <<file, visits, historyVars>>

(* set_icon: the preview of the image cannot be made, or is the new icon.  *)
UseAsIcon(r) ==
  /\ Acting(r, "icon")
  /\ \/ Becomes(r, Acted(r))
     \/ Becomes(r, [Acted(r) EXCEPT !.pc = "set", !.target = req[r].album,
                                    !.image = req[r].act.on])
  /\ UNCHANGED <<file, visits, historyVars>>

(* fix_option and fix_options: the latter also fixes the albums under it   *)
(* that have a folder in the image cache.                                  *)
FixOptions(r) ==
  /\ \/ Acting(r, "fix") /\ Becomes(r, [Acted(r) EXCEPT !.fixes = {req[r].album}])
     \/ /\ Acting(r, "fixall")
        /\ \E s \in SUBSET Below[req[r].album] :
             Becomes(r, [Acted(r) EXCEPT !.fixes = s \cup {req[r].album}])
  /\ UNCHANGED <<file, visits, historyVars>>

(* mk_previews, mk_images: the previews of the album and of all below it.  *)
MakePreviews(r) ==
  LET a == Real[req[r].album] IN
  /\ Acting(r, "make")
  /\ Becomes(r, [Acted(r) EXCEPT !.todo = @ \cup Below[a] \cup ({a} \ {Root})])
  /\ UNCHANGED <<file, visits, historyVars>>

(* What rig_load_album_list finds: the contents of the album shown.        *)
Listed(r) == Contents(Real[req[r].album])

(* rig_admin_fix_options: hidden names that are not listed are rejected.   *)
Fix(r, a) ==
  LET c == KeepOnly(Listed(r)) IN
  /\ req[r].pc = "page"
  /\ a \in req[r].fixes
  /\ \E o \in ReadOf(file[a]) :
       Becomes(r, Having([req[r] EXCEPT !.pc = "open", !.fixes = @ \ {a}, !.target = a,
                                        !.change = c, !.then = "page"],
                         a, Apply(c, o)))
  /\ UNCHANGED <<file, visits, historyVars>>

-----------------------------------------------------------------------------
(* rig_write_album_options: fopen truncates the file.                      *)
Open(r) ==
  LET a == req[r].target IN
  /\ req[r].pc = "open"
  /\ file' = [file EXCEPT ![a] = [by |-> r, upto |-> 0, mixed |-> FALSE, data |-> req[r].opts]]
  /\ req' = [q \in Requests |->
               IF q = r THEN [req[r] EXCEPT !.pc = "write", !.at = 0]
               ELSE [req[q] EXCEPT !.stale = @ \/ req[q].from = a]]
  /\ UNCHANGED <<visits, historyVars>>

(* What follows: "page" after a fix, "restore" after an icon, "readback".   *)
AfterWrite(q) == IF q.then = "page" THEN Done(q, "page") ELSE [q EXCEPT !.pc = q.then, !.at = 0]

(* The file does not open: an error is shown, and nothing is written.      *)
OpenFails(r) ==
  /\ req[r].pc = "open"
  /\ MayFail
  /\ Becomes(r, [AfterWrite(req[r]) EXCEPT !.stale = TRUE])
  /\ UNCHANGED <<file, visits, historyVars>>

(* The next lines are written where the process is in the file.            *)
Written(f, r) ==
  IF f.by = r /\ f.upto = req[r].at /\ ~f.mixed
  THEN [f EXCEPT !.upto = req[r].at + 1]
  ELSE [f EXCEPT !.mixed = TRUE, !.data = NoOptions]

Write(r) ==
  LET a == req[r].target IN
  /\ req[r].pc = "write"
  /\ req[r].at < 2
  /\ file' = [file EXCEPT ![a] = Written(@, r)]
  /\ Becomes(r, [req[r] EXCEPT !.at = @ + 1])
  /\ UNCHANGED <<visits, historyVars>>

(* The final ":" and fclose.                                               *)
Close(r) ==
  LET a == req[r].target IN
  /\ req[r].pc = "write"
  /\ req[r].at = 2
  /\ file' = [file EXCEPT ![a] = Written(@, r)]
  /\ Becomes(r, AfterWrite(req[r]))
  /\ intended' = [intended EXCEPT ![a] = Apply(req[r].change, @)]
  /\ spoiled' = IF req[r].stale THEN spoiled \cup {a} ELSE spoiled
  /\ UNCHANGED visits

(* The process is killed.                                                  *)
Crash(r) ==
  /\ MayFail
  /\ req[r].pc # "idle"
  /\ Becomes(r, Idle)
  /\ spoiled' = IF req[r].pc = "write" THEN spoiled \cup {req[r].target} ELSE spoiled
  /\ UNCHANGED <<file, visits, intended>>

Acts(c) ==
  [op : Ops \cap {"rand", "fix", "fixall", "make"}, on : {None}]
    \cup [op : Ops \cap {"hide", "show"}, on : Contents(c)]
    \cup [op : Ops \cap {"icon"}, on : Files[c]]

Serve(r) ==
  \/ \E c \in Albums : Visit(r, c) \/ \E act \in Acts(c) : Administer(r, c, act)
  \/ \E a \in Albums : Skip(r, a) \/ Preview(r, a) \/ Fix(r, a)
  \/ Icon(r) \/ Random(r) \/ SetIcon(r) \/ Restore(r)
  \/ SetVisible(r) \/ Readback(r) \/ UseAsIcon(r) \/ FixOptions(r) \/ MakePreviews(r)
  \/ Open(r) \/ OpenFails(r) \/ Write(r) \/ Close(r)
  \/ Crash(r) \/ End(r)

Next == \E r \in Requests : Serve(r)

Spec == Init /\ [][Next]_vars

-----------------------------------------------------------------------------
Writing(r, a) == req[r].pc = "write" /\ req[r].target = a

(* Whatever the requests do to the global variables in between, the file   *)
(* of an album holds what the changes made to it add up to, as long as     *)
(* each change was made alone: nobody opened the file between the read it  *)
(* started from and its end, and nobody was killed writing it.  (A change  *)
(* that started from the options of another album would break this.)       *)
ChangesAddUp ==
  \A a \in Albums \ spoiled :
    (\A r \in Requests : ~Writing(r, a)) => Complete(file[a]) /\ file[a].data = intended[a]

(* The options in the global variables are those of the album shown when   *)
(* they decide which sub-albums a visitor sees, and when the action of the *)
(* administrator that changes them is due: every preview in between, which *)
(* reads those of other albums, put them back.                             *)
PageOptionsRestored ==
  \A r \in Requests :
    req[r].pc = "page" /\ (req[r].admin => req[r].act # NoAct) =>
      req[r].from = Real[req[r].album]

-----------------------------------------------------------------------------
(* What the comments and the documentation say, and the code does not do.  *)

(* common_images.php: "make sure we have the correct album options": a new *)
(* icon does not show what is hidden.                                      *)
IconKeepsHidden ==
  \A r \in Requests : LET a == req[r].target IN
    req[r].pc = "open" /\ req[r].then = "restore" /\ a \notin spoiled =>
      \/ intended[a].hide \subseteq req[r].opts.hide
      \/ \E q \in Requests \ {r} : req[q].target = a /\ req[q].pc = "write"

(* admin_util.php: "we have the list of files and sub-albums for this      *)
(* album": hidden names that are in the album are not rejected.            *)
FixKeepsExisting ==
  \A r \in Requests : LET a == req[r].target IN
    req[r].pc = "open" /\ req[r].then = "page" /\ a \notin spoiled /\ ~req[r].stale =>
      intended[a].hide \cap Contents(a) \subseteq req[r].opts.hide

(* prefs.php, pref_follow_album_symlinks: "options from the original album *)
(* will be used": a link has no options of its own.                        *)
LinkHasNoOptions ==
  \A a \in Albums : Real[a] # a => file[a].by = None
=============================================================================
