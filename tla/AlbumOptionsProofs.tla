-------------------------- MODULE AlbumOptionsProofs --------------------------
(***************************************************************************)
(* Theorems about AlbumOptions, for any number of requests, albums, images *)
(* and visits.                                                             *)
(***************************************************************************)
EXTENDS AlbumOptions, TLAPS

-----------------------------------------------------------------------------
(* The constants, the records and what reading a file returns.             *)

LEMMA AlbumFacts ==
  ASSUME NEW a \in Albums
  PROVE  /\ Subs[a] \subseteq Albums /\ Below[a] \subseteq Albums
         /\ Real[a] \in Albums /\ Files[a] \subseteq Images
         /\ Contents(a) \subseteq Names
  <1>1. /\ Subs[a] \in SUBSET Albums /\ Below[a] \in SUBSET Albums
        /\ Real[a] \in Albums /\ Files[a] \in SUBSET Images
        /\ Subs[a] \subseteq Below[a] /\ Root \notin Below[a]
    BY AlbumsAssumption
  <1>2. {Name[b] : b \in Subs[a]} \subseteq {Name[b] : b \in Albums \ {Root}}
    BY <1>1
  <1>3. QED
    BY <1>1, <1>2 DEF Contents, Names

LEMMA NoChangeType == NoOptions \in Options /\ NoChange \in Change /\ NoAct \in Act
  BY DEF NoOptions, Options, NoChange, KeepOnly, Change, NoAct, Act

LEMMA ApplyType ==
  ASSUME NEW c \in Change, NEW o \in Options
  PROVE  Apply(c, o) \in Options
  BY DEF Apply, Change, Options

LEMMA IdleType == Idle \in Request /\ Idle.pc = "idle"
  BY NoChangeType DEF Idle, Request, PC

LEMMA ReadFacts ==
  ASSUME NEW f \in File, NEW o \in ReadOf(f)
  PROVE  o \in Options /\ (Complete(f) => o = f.data)
  <1>1. CASE f.mixed
    BY <1>1 DEF ReadOf, Complete
  <1>2. CASE ~f.mixed
    <2>1. /\ f.data \in Options /\ f.upto \in 0..3
          /\ o = [hide |-> IF f.upto >= 2 THEN f.data.hide ELSE {},
                  icon |-> IF f.upto = 3 THEN f.data.icon ELSE None]
      BY <1>2 DEF ReadOf, File
    <2>2. o \in Options
      BY <2>1 DEF Options
    <2>3. ASSUME f.upto = 3 PROVE o = f.data
      BY <2>1, <2>3 DEF Options
    <2>4. QED
      BY <2>2, <2>3 DEF Complete
  <1>3. QED
    BY <1>1, <1>2

(* What Having and Done change in a request.                               *)
LEMMA HavingFields ==
  ASSUME NEW q \in Request, NEW a \in Albums, NEW o \in Options,
         NEW h, h = Having(q, a, o)
  PROVE  /\ h \in Request
         /\ h.opts = o /\ h.from = a /\ (~h.stale => Complete(file[a]))
         /\ h.pc = q.pc /\ h.album = q.album /\ h.admin = q.admin /\ h.act = q.act
         /\ h.todo = q.todo /\ h.fixes = q.fixes /\ h.target = q.target
         /\ h.image = q.image /\ h.changed = q.changed /\ h.change = q.change
         /\ h.at = q.at /\ h.then = q.then
  <1>1. PICK s \in BOOLEAN : s = ~Complete(file[a])
    BY Zenon
  <1>2. h = [q EXCEPT !.opts = o, !.from = a, !.stale = s]
    BY <1>1, Zenon DEF Having
  <1>3. /\ h \in Request
        /\ h.opts = o /\ h.from = a /\ h.stale = s
        /\ h.pc = q.pc /\ h.album = q.album /\ h.admin = q.admin /\ h.act = q.act
        /\ h.todo = q.todo /\ h.fixes = q.fixes /\ h.target = q.target
        /\ h.image = q.image /\ h.changed = q.changed /\ h.change = q.change
        /\ h.at = q.at /\ h.then = q.then
    BY <1>1, <1>2, ZenonT(60) DEF Request
  <1>4. ~h.stale => Complete(file[a])
    BY <1>1, <1>3, Zenon
  <1>5. QED
    BY <1>3, <1>4, Zenon

LEMMA DoneFields ==
  ASSUME NEW q \in Request, NEW pc \in PC, NEW h, h = Done(q, pc)
  PROVE  /\ h \in Request
         /\ h.pc = pc /\ h.target = None /\ h.image = None /\ h.change = NoChange
         /\ ~h.changed /\ h.then = "page" /\ h.at = 0
         /\ h.opts = q.opts /\ h.from = q.from /\ h.stale = q.stale
         /\ h.album = q.album /\ h.admin = q.admin /\ h.act = q.act
         /\ h.todo = q.todo /\ h.fixes = q.fixes
  <1> DEFINE g == [q EXCEPT !.pc = pc, !.target = None, !.image = None, !.change = NoChange]
  <1>1. /\ g \in Request
        /\ g.pc = pc /\ g.target = None /\ g.image = None /\ g.change = NoChange
        /\ g.opts = q.opts /\ g.from = q.from /\ g.stale = q.stale
        /\ g.album = q.album /\ g.admin = q.admin /\ g.act = q.act
        /\ g.todo = q.todo /\ g.fixes = q.fixes
    BY NoChangeType DEF Request
  <1>2. PICK b \in BOOLEAN, n \in 0..2 : b = FALSE /\ n = 0
    <2>1. 0 \in 0..2
      OBVIOUS
    <2>2. QED
      BY <2>1, Zenon
  <1>3. h = [g EXCEPT !.changed = b, !.then = "page", !.at = n]
    BY <1>2, Zenon DEF Done
  <1> HIDE DEF g
  <1>4. h \in Request
    BY <1>1, <1>2, <1>3 DEF Request
  <1>5. /\ h.then = "page" /\ h.at = n
        /\ h.changed = b
    BY <1>1, <1>2, <1>3 DEF Request
  <1>6. /\ h.pc = g.pc /\ h.target = g.target /\ h.image = g.image /\ h.change = g.change
        /\ h.opts = g.opts /\ h.from = g.from /\ h.stale = g.stale
        /\ h.album = g.album /\ h.admin = g.admin /\ h.act = g.act
        /\ h.todo = g.todo /\ h.fixes = g.fixes
    BY <1>1, <1>2, <1>3 DEF Request
  <1>7. ~h.changed /\ h.at = 0
    BY <1>2, <1>5, Zenon
  <1>8. QED
    BY <1>1, <1>4, <1>5, <1>6, <1>7, Zenon

-----------------------------------------------------------------------------
(* The inductive invariant.                                                *)

NoLinks == \A a \in Albums : Real[a] = a

(* What TypeOK says of each request.                                       *)
Formed(q) ==
  /\ q.pc # "idle" => q.album \in Albums /\ q.from \in Albums
  /\ q.pc \in {"icon", "random", "set", "open", "write"} => q.target \in Albums
  /\ q.pc = "set" => q.image \in Images
  /\ q.act.op \in {"hide", "show"} => q.act.on \in Names
  /\ q.act.op = "icon" => q.act.on \in Images

(* A visitor's request, or the administrator's before it did what he asked *)
(* for, only leaves the options of the page to preview a sub-album, and    *)
(* knows that it did: changed says so, unless it previews the page itself. *)
Waiting(q) == q.pc # "idle" /\ (~q.admin \/ q.act # NoAct)
Previews(q) ==
  /\ q.fixes = {} /\ q.pc # "readback"
  /\ q.pc \in {"open", "write"} => q.then = "restore"
  /\ q.pc = "page" => q.from = Real[q.album]
  /\ q.pc # "page" /\ ~q.changed => q.target = Real[q.album] /\ q.from = Real[q.album]
Shown(q) == (~q.admin => q.act = NoAct) /\ (Waiting(q) => Previews(q))

(* Options that are not stale are those intended for their album, with the *)
(* change that is being written.                                           *)
Changing(q) == q.pc \in {"open", "write"}
Right(q) ==
  q.pc # "idle" /\ ~q.stale /\ q.from \notin spoiled =>
    q.opts = IF Changing(q) THEN Apply(q.change, intended[q.from]) ELSE intended[q.from]

(* Options are written in the file of the album they come from.            *)
Own(q) == Changing(q) => q.from = q.target

(* While a file is written by a process that read it last, it is known by  *)
(* nobody else.  A file is mixed only by a process that was not the last   *)
(* to read it, and complete when none writes it.                           *)
WriterKnows(r) ==
  req[r].pc = "write" =>
    LET f == file[req[r].target] IN
    /\ f.by = r /\ ~f.mixed => f.upto = req[r].at /\ f.data = req[r].opts
    /\ ~req[r].stale => f.by = r
    /\ ~req[r].stale =>
         \A q \in Requests \ {r} :
           req[q].pc # "idle" /\ req[q].from = req[r].target => req[q].stale
Unspoiled(a) ==
  a \notin spoiled =>
    /\ file[a].mixed => \E q \in Requests : Writing(q, a) /\ req[q].stale
    /\ Complete(file[a]) => file[a].data = intended[a]
    /\ Complete(file[a]) \/ \E q \in Requests : Writing(q, a)

ShownInv == TypeOK /\ \A r \in Requests : Shown(req[r])
AddUpInv ==
  /\ ShownInv
  /\ \A r \in Requests : Right(req[r]) /\ Own(req[r]) /\ WriterKnows(r)
  /\ \A a \in Albums : Unspoiled(a)

-----------------------------------------------------------------------------
(* The actions that only change their request.                             *)

(* What request r may become: a request that only knows what r knew or     *)
(* what it read in a complete file.                                        *)
Sound(q) == q \in Request /\ Formed(q) /\ Shown(q)
Steady(r, q) ==
  /\ q.pc # "write" /\ Right(q) /\ Own(q)
  /\ q.pc # "idle" /\ ~q.stale =>
       \/ Complete(file[q.from])
       \/ req[r].pc # "idle" /\ ~req[r].stale /\ req[r].from = q.from
Local(r) ==
  \E q \in Request : Becomes(r, q) /\ Sound(q) /\ (NoLinks /\ AddUpInv => Steady(r, q))

LEMMA ReadSteady ==
  ASSUME AddUpInv, NEW r \in Requests, NEW q \in Request, NEW a \in Albums,
         NEW o \in ReadOf(file[a]), NEW p \in Options, NEW h, h = Having(q, a, p),
         q.pc # "write",
         q.pc = "open" => p = Apply(q.change, o) /\ q.target = a,
         q.pc # "open" => p = o
  PROVE  Steady(r, h)
  <1>1. /\ h \in Request /\ h.opts = p /\ h.from = a /\ (~h.stale => Complete(file[a]))
        /\ h.pc = q.pc /\ h.target = q.target /\ h.change = q.change
    BY HavingFields
  <1>2. file[a] \in File /\ Unspoiled(a)
    BY DEF AddUpInv, ShownInv, TypeOK
  <1>3. Complete(file[a]) => o = file[a].data
    BY <1>2, ReadFacts
  <1>4. ~h.stale /\ a \notin spoiled => o = intended[a]
    BY <1>1, <1>2, <1>3 DEF Unspoiled
  <1>5. Right(h)
    BY <1>1, <1>4 DEF Right, Changing
  <1>6. Own(h)
    BY <1>1 DEF Own, Changing
  <1>7. QED
    BY <1>1, <1>5, <1>6 DEF Steady

LEMMA KeepSteady ==
  ASSUME AddUpInv, NEW r \in Requests, NEW q \in Request,
         req[r].pc \notin {"idle", "open", "write"}, q.pc \notin {"idle", "open", "write"},
         q.opts = req[r].opts, q.from = req[r].from, q.stale = req[r].stale
  PROVE  Steady(r, q)
  <1>1. Right(req[r]) /\ req[r] \in Request
    BY DEF AddUpInv, ShownInv, TypeOK
  <1>2. Right(q)
    BY <1>1 DEF Right, Changing
  <1>3. Own(q)
    BY DEF Own, Changing
  <1>4. QED
    BY <1>1, <1>2, <1>3 DEF Steady

LEMMA IdleLocal ==
  ASSUME NEW r \in Requests, Becomes(r, Idle)
  PROVE  Local(r)
  <1>1. Idle.pc = "idle" /\ Idle.act = NoAct /\ NoAct.op = "none"
    BY DEF Idle, NoAct
  <1>2. Formed(Idle) /\ Shown(Idle)
    BY <1>1 DEF Formed, Shown, Waiting
  <1>3. Steady(r, Idle)
    BY <1>1 DEF Steady, Right, Own, Changing
  <1>4. QED
    BY <1>2, <1>3, IdleType DEF Local, Sound

LEMMA ReqFacts ==
  ASSUME ShownInv, NEW r \in Requests
  PROVE  /\ req[r] \in Request /\ Formed(req[r]) /\ Shown(req[r])
         /\ file \in [Albums -> File]
  BY DEF ShownInv, TypeOK, Formed

LEMMA IdleFields == /\ ~Idle.admin /\ ~Idle.changed /\ ~Idle.stale
                    /\ Idle.act = NoAct /\ Idle.fixes = {} /\ Idle.change = NoChange
  <1>1. ~Idle.admin /\ ~Idle.changed /\ ~Idle.stale
    BY Zenon DEF Idle
  <1>2. Idle.act = NoAct /\ Idle.fixes = {} /\ Idle.change = NoChange
    BY DEF Idle
  <1>3. QED
    BY <1>1, <1>2

LEMMA VisitLocal ==
  ASSUME ShownInv, NEW r \in Requests, NEW c \in Albums, Visit(r, c)
  PROVE  Local(r)
  <1>1. PICK o \in ReadOf(file[Real[c]]) :
          Becomes(r, Having([Idle EXCEPT !.pc = "page", !.album = c, !.todo = Subs[c]],
                            Real[c], o))
    BY DEF Visit
  <1>2. PICK q : q = [Idle EXCEPT !.pc = "page", !.album = c, !.todo = Subs[c]]
    OBVIOUS
  <1>3. /\ q \in Request /\ q.pc = "page" /\ q.album = c /\ q.act = NoAct
        /\ q.fixes = {} /\ ~q.admin
    <2>1. Subs[c] \in SUBSET Albums /\ "page" \in PC
      BY AlbumFacts DEF PC
    <2>2. q \in Request /\ q.pc = "page" /\ q.album = c /\ q.admin = Idle.admin
      BY <1>2, <2>1, IdleType DEF Request
    <2>3. q.act = NoAct /\ q.fixes = {}
      BY <1>2, IdleType, IdleFields DEF Request
    <2>4. QED
      BY <2>2, <2>3, IdleFields
  <1>4. Real[c] \in Albums /\ file[Real[c]] \in File
    BY AlbumFacts, ReqFacts
  <1>5. o \in Options
    BY <1>4, ReadFacts
  <1>6. PICK h : h = Having(q, Real[c], o)
    OBVIOUS
  <1>7. /\ h \in Request /\ h.pc = "page" /\ h.album = c /\ h.act = NoAct
        /\ h.fixes = {} /\ h.admin = q.admin /\ h.from = Real[c]
    BY <1>3, <1>4, <1>5, <1>6, HavingFields
  <1>8. Formed(h) /\ Shown(h)
    BY <1>3, <1>4, <1>7 DEF Formed, Shown, Previews, NoAct
  <1>9. AddUpInv => Steady(r, h)
    BY <1>3, <1>4, <1>5, <1>6, ReadSteady
  <1>10. Becomes(r, h)
    BY <1>1, <1>2, <1>6
  <1>11. QED
    BY <1>7, <1>8, <1>9, <1>10 DEF Local, Sound

LEMMA AdministerLocal ==
  ASSUME ShownInv, NEW r \in Requests, NEW c \in Albums, NEW act \in Acts(c),
         Administer(r, c, act)
  PROVE  Local(r)
  <1>0. PICK b \in BOOLEAN : b = TRUE
    BY Zenon
  <1>1. PICK q : q = IF act.op = "rand"
                     THEN [Idle EXCEPT !.album = c, !.admin = b, !.pc = "random", !.target = c]
                     ELSE [Idle EXCEPT !.album = c, !.admin = b, !.pc = "page", !.act = act,
                                       !.todo = {c} \ {Root}]
    OBVIOUS
  <1>2. PICK o \in ReadOf(file[Real[c]]) : Becomes(r, Having(q, Real[c], o))
    BY <1>0, <1>1, Zenon DEF Administer
  <1>3. act \in Act /\ (act.op \in {"hide", "show"} => act.on \in Names)
        /\ (act.op = "icon" => act.on \in Images)
    <2>1. Contents(c) \subseteq Names /\ Files[c] \subseteq Images /\ Images \subseteq Names
      BY AlbumFacts DEF Names
    <2>2. QED
      BY <2>1, OpsAssumption DEF Acts, Act
  <1>4. /\ q \in Request /\ q.admin = b /\ q.album = c /\ q.fixes = {}
        /\ \/ q.pc = "random" /\ q.target = c /\ q.act = NoAct
           \/ q.pc = "page" /\ q.act = act
    <2>1. "random" \in PC /\ "page" \in PC /\ {c} \ {Root} \in SUBSET Albums
      BY DEF PC
    <2>2. CASE act.op = "rand"
      <3>1. q = [Idle EXCEPT !.album = c, !.admin = b, !.pc = "random", !.target = c]
        BY <1>1, <2>2
      <3>2. /\ q \in Request /\ q.admin = b
            /\ q.album = c /\ q.pc = "random" /\ q.target = c
            /\ q.act = Idle.act /\ q.fixes = Idle.fixes
        BY <2>1, <3>1, IdleType DEF Request
      <3>3. QED
        BY <3>2, IdleFields
    <2>3. CASE act.op # "rand"
      <3>1. q = [Idle EXCEPT !.album = c, !.admin = b, !.pc = "page", !.act = act,
                             !.todo = {c} \ {Root}]
        BY <1>1, <2>3
      <3>2. /\ q \in Request /\ q.admin = b
            /\ q.album = c /\ q.pc = "page" /\ q.act = act /\ q.fixes = Idle.fixes
        BY <1>3, <2>1, <3>1, IdleType DEF Request
      <3>3. QED
        BY <3>2, IdleFields
    <2>4. QED
      BY <2>2, <2>3
  <1>5. Real[c] \in Albums /\ file[Real[c]] \in File
    BY AlbumFacts, ReqFacts
  <1>6. o \in Options
    BY <1>5, ReadFacts
  <1>7. PICK h : h = Having(q, Real[c], o)
    OBVIOUS
  <1>8. /\ h \in Request /\ h.pc = q.pc /\ h.album = c /\ h.act = q.act /\ h.admin = q.admin
        /\ h.fixes = {} /\ h.target = q.target /\ h.from = Real[c]
    BY <1>4, <1>5, <1>6, <1>7, HavingFields
  <1>9. h.admin
    BY <1>0, <1>4, <1>8, Zenon
  <1>10. Formed(h) /\ Shown(h)
    BY <1>3, <1>4, <1>5, <1>8, <1>9 DEF Formed, Shown, Waiting, Previews, NoAct
  <1>11. AddUpInv => Steady(r, h)
    BY <1>4, <1>5, <1>6, <1>7, ReadSteady
  <1>12. Becomes(r, h)
    BY <1>2, <1>7
  <1>13. QED
    BY <1>8, <1>10, <1>11, <1>12 DEF Local, Sound

(* A request that keeps its options and what they are for.                 *)
LEMMA KeepLocal ==
  ASSUME ShownInv, NEW r \in Requests, NEW q \in Request, Becomes(r, q),
         req[r].pc \notin {"idle", "open", "write"}, q.pc \notin {"idle", "open", "write"},
         q.opts = req[r].opts, q.from = req[r].from, q.stale = req[r].stale,
         Formed(q), Shown(q)
  PROVE  Local(r)
  BY KeepSteady DEF Local, Sound

LEMMA SkipLocal ==
  ASSUME ShownInv, NEW r \in Requests, NEW a, Skip(r, a)
  PROVE  Local(r)
  <1>1. PICK q : q = [req[r] EXCEPT !.todo = @ \ {a}] /\ Becomes(r, q)
    BY DEF Skip
  <1>2. PICK p \in Request : p = req[r] /\ Formed(p) /\ Shown(p) /\ p.pc = "page"
    BY ReqFacts DEF Skip
  <1>3. /\ q \in Request /\ q.pc = "page" /\ q.album = p.album /\ q.from = p.from
        /\ q.act = p.act /\ q.fixes = p.fixes /\ q.opts = p.opts
        /\ q.admin = p.admin /\ q.stale = p.stale
    BY <1>1, <1>2 DEF Request
  <1>4. Formed(q) /\ Shown(q)
    BY <1>2, <1>3 DEF Formed, Shown, Waiting, Previews
  <1>5. QED
    BY <1>1, <1>2, <1>3, <1>4, KeepLocal

LEMMA PreviewLocal ==
  ASSUME ShownInv, NEW r \in Requests, NEW a \in Albums, Preview(r, a)
  PROVE  Local(r)
  <1>1. PICK p \in Request : p = req[r] /\ Formed(p) /\ Shown(p) /\ p.pc = "page"
    BY ReqFacts DEF Preview
  <1>2. PICK q : q = [p EXCEPT !.todo = @ \ {a}]
    OBVIOUS
  <1>3. /\ q \in Request /\ q.pc = "page" /\ q.album = p.album /\ q.from = p.from
        /\ q.act = p.act /\ q.fixes = p.fixes /\ q.opts = p.opts
        /\ q.admin = p.admin /\ q.stale = p.stale /\ q.changed = p.changed
    BY <1>1, <1>2 DEF Request
  <1>4. p.fixes = {} /\ p.album \in Albums /\ p.from \in Albums
    BY <1>1 DEF Preview, Formed
  <1>5. CASE Becomes(r, q)
    <2>1. Formed(q) /\ Shown(q)
      BY <1>1, <1>3 DEF Formed, Shown, Waiting, Previews
    <2>2. QED
      BY <1>1, <1>3, <1>5, <2>1, KeepLocal
  <1>6. ASSUME NEW next \in {"icon", "restore"}, a = Real[q.album],
               Becomes(r, [q EXCEPT !.pc = next, !.target = a])
        PROVE  Local(r)
    <2>1. PICK h : h = [q EXCEPT !.pc = next, !.target = a] /\ Becomes(r, h)
      BY <1>6
    <2>2. /\ h \in Request /\ h.pc = next /\ h.album = p.album /\ h.from = p.from
          /\ h.act = p.act /\ h.fixes = p.fixes /\ h.opts = p.opts /\ h.target = a
          /\ h.admin = p.admin /\ h.stale = p.stale
      BY <1>3, <2>1 DEF Request, PC
    <2>3. Formed(h)
      BY <1>1, <1>4, <2>2 DEF Formed
    <2>4. Shown(h)
      BY <1>1, <1>3, <1>4, <1>6, <2>2 DEF Shown, Waiting, Previews
    <2>5. QED
      BY <1>1, <2>1, <2>2, <2>3, <2>4, KeepLocal
  <1>7. ASSUME NEW next \in {"icon", "restore"}, NEW o \in ReadOf(file[a]),
               Becomes(r, Having([q EXCEPT !.pc = next, !.target = a, !.changed = TRUE], a, o))
        PROVE  Local(r)
    <2>1. PICK b \in BOOLEAN : b = TRUE
      BY Zenon
    <2>2. PICK g : g = [q EXCEPT !.pc = next, !.target = a, !.changed = b]
      OBVIOUS
    <2>3. /\ g \in Request /\ g.pc = next /\ g.album = p.album /\ g.target = a
          /\ g.act = p.act /\ g.fixes = p.fixes
          /\ g.admin = p.admin /\ g.changed = b
      BY <1>3, <2>1, <2>2, ZenonT(60) DEF Request, PC
    <2>4. o \in Options
      BY ReqFacts, ReadFacts
    <2>5. PICK h : h = Having(g, a, o)
      OBVIOUS
    <2>6. /\ h \in Request /\ h.pc = next /\ h.album = p.album /\ h.target = a
          /\ h.act = p.act /\ h.fixes = p.fixes /\ h.from = a
          /\ h.admin = p.admin /\ h.changed = b
      BY <2>3, <2>4, <2>5, HavingFields
    <2>7. h.changed
      BY <2>1, <2>6, Zenon
    <2>8. Formed(h)
      BY <1>1, <1>4, <2>6 DEF Formed
    <2>9. Shown(h)
      BY <1>1, <1>4, <2>6, <2>7 DEF Shown, Waiting, Previews
    <2>10. AddUpInv => Steady(r, h)
      BY <2>3, <2>4, <2>5, ReadSteady
    <2>11. Becomes(r, h)
      BY <1>7, <2>1, <2>2, <2>5, Zenon
    <2>12. QED
      BY <2>6, <2>8, <2>9, <2>10, <2>11 DEF Local, Sound
  <1>8. QED
    BY <1>1, <1>2, <1>5, <1>6, <1>7 DEF Preview

LEMMA IconLocal ==
  ASSUME ShownInv, NEW r \in Requests, Icon(r)
  PROVE  Local(r)
  <1>1. PICK p \in Request : p = req[r] /\ Formed(p) /\ Shown(p) /\ p.pc = "icon"
    BY ReqFacts DEF Icon
  <1>2. PICK next \in {"random", "restore"} : Becomes(r, [p EXCEPT !.pc = next])
    BY <1>1 DEF Icon
  <1>3. PICK q : q = [p EXCEPT !.pc = next]
    OBVIOUS
  <1>4. /\ q \in Request /\ q.pc = next /\ q.album = p.album /\ q.from = p.from
        /\ q.act = p.act /\ q.fixes = p.fixes /\ q.opts = p.opts /\ q.target = p.target
        /\ q.admin = p.admin /\ q.stale = p.stale /\ q.changed = p.changed
    BY <1>1, <1>3 DEF Request, PC
  <1>5. Formed(q) /\ Shown(q)
    BY <1>1, <1>4 DEF Formed, Shown, Waiting, Previews
  <1>6. QED
    BY <1>1, <1>2, <1>3, <1>4, <1>5, KeepLocal

LEMMA RandomLocal ==
  ASSUME ShownInv, NEW r \in Requests, Random(r)
  PROVE  Local(r)
  <1>1. PICK p \in Request : p = req[r] /\ Formed(p) /\ Shown(p) /\ p.pc = "random"
    BY ReqFacts DEF Random
  <1>2. PICK a \in Albums : a = p.target
    BY <1>1 DEF Formed
  <1>3. PICK next \in {"restore", "set"}, i \in Images \cup {None}, o \in ReadOf(file[a]) :
          /\ next = "set" => i \in Images
          /\ Becomes(r, Having([p EXCEPT !.pc = next, !.image = i], a, o))
    <2>1. PICK o \in ReadOf(file[a]) :
            \/ Becomes(r, Having([p EXCEPT !.pc = "restore"], a, o))
            \/ \E i \in (Files[a] \ o.hide) \cup UNION {Files[b] : b \in Below[a]} :
                 Becomes(r, Having([p EXCEPT !.pc = "set", !.image = i], a, o))
      BY <1>1, <1>2 DEF Random
    <2>2. CASE Becomes(r, Having([p EXCEPT !.pc = "restore"], a, o))
      <3>1. [p EXCEPT !.pc = "restore"] = [p EXCEPT !.pc = "restore", !.image = p.image]
        BY DEF Request
      <3>2. p.image \in Images \cup {None}
        BY DEF Request
      <3>3. Becomes(r, Having([p EXCEPT !.pc = "restore", !.image = p.image], a, o))
        BY <2>2, <3>1
      <3>4. QED
        BY <3>2, <3>3
    <2>3. ASSUME NEW i \in (Files[a] \ o.hide) \cup UNION {Files[b] : b \in Below[a]},
                 Becomes(r, Having([p EXCEPT !.pc = "set", !.image = i], a, o))
          PROVE  i \in Images
      BY AlbumFacts
    <2>4. QED
      BY <2>1, <2>2, <2>3
  <1>4. PICK g : g = [p EXCEPT !.pc = next, !.image = i]
    OBVIOUS
  <1>5. /\ g \in Request /\ g.pc = next /\ g.album = p.album /\ g.target = a /\ g.image = i
        /\ g.act = p.act /\ g.fixes = p.fixes
        /\ g.admin = p.admin /\ g.changed = p.changed
    BY <1>1, <1>2, <1>4, ZenonT(60) DEF Request, PC
  <1>6. o \in Options
    BY ReqFacts, ReadFacts
  <1>7. PICK h : h = Having(g, a, o)
    OBVIOUS
  <1>8. /\ h \in Request /\ h.pc = next /\ h.album = p.album /\ h.target = a /\ h.image = i
        /\ h.act = p.act /\ h.fixes = p.fixes /\ h.from = a
        /\ h.admin = p.admin /\ h.changed = p.changed
    BY <1>5, <1>6, <1>7, HavingFields
  <1>9. Formed(h)
    BY <1>1, <1>3, <1>8 DEF Formed
  <1>10. Shown(h)
    BY <1>1, <1>2, <1>8 DEF Shown, Waiting, Previews
  <1>11. AddUpInv => Steady(r, h)
    BY <1>5, <1>6, <1>7, ReadSteady
  <1>12. Becomes(r, h)
    BY <1>3, <1>4, <1>7
  <1>13. QED
    BY <1>8, <1>9, <1>10, <1>11, <1>12 DEF Local, Sound

LEMMA SetIconLocal ==
  ASSUME ShownInv, NEW r \in Requests, SetIcon(r)
  PROVE  Local(r)
  <1>1. PICK p \in Request : p = req[r] /\ Formed(p) /\ Shown(p) /\ p.pc = "set"
    BY ReqFacts DEF SetIcon
  <1>2. PICK a \in Albums : a = p.target
    BY <1>1 DEF Formed
  <1>3. PICK c \in Change : c = NewIcon(p.image)
    BY DEF Request, NewIcon, Change
  <1>4. PICK g : g = [p EXCEPT !.pc = "open", !.change = c, !.then = "restore"]
    OBVIOUS
  <1>5. PICK o \in ReadOf(file[a]) : Becomes(r, Having(g, a, Apply(c, o)))
    BY <1>1, <1>2, <1>3, <1>4 DEF SetIcon
  <1>6. /\ g \in Request /\ g.pc = "open" /\ g.album = p.album /\ g.target = a
        /\ g.change = c /\ g.then = "restore" /\ g.act = p.act /\ g.fixes = p.fixes
        /\ g.admin = p.admin /\ g.changed = p.changed
    BY <1>1, <1>2, <1>4 DEF Request, PC
  <1>7. Apply(c, o) \in Options
    BY ReqFacts, ReadFacts, ApplyType
  <1>8. PICK h : h = Having(g, a, Apply(c, o))
    OBVIOUS
  <1>9. /\ h \in Request /\ h.pc = "open" /\ h.album = p.album /\ h.target = a
        /\ h.then = "restore" /\ h.act = p.act /\ h.fixes = p.fixes /\ h.from = a
        /\ h.admin = p.admin /\ h.changed = p.changed
    BY <1>6, <1>7, <1>8, HavingFields
  <1>10. Formed(h)
    BY <1>1, <1>9 DEF Formed
  <1>11. Shown(h)
    BY <1>1, <1>2, <1>9 DEF Shown, Waiting, Previews
  <1>12. AddUpInv => Steady(r, h)
    BY <1>6, <1>7, <1>8, ReadSteady
  <1>13. Becomes(r, h)
    BY <1>5, <1>8
  <1>14. QED
    BY <1>9, <1>10, <1>11, <1>12, <1>13 DEF Local, Sound

LEMMA RestoreLocal ==
  ASSUME ShownInv, NEW r \in Requests, Restore(r)
  PROVE  Local(r)
  <1>1. PICK p \in Request : p = req[r] /\ Formed(p) /\ Shown(p) /\ p.pc = "restore"
    BY ReqFacts DEF Restore
  <1>2. PICK q : q = Done(p, "page")
    OBVIOUS
  <1>3. /\ q \in Request /\ q.pc = "page" /\ q.album = p.album /\ q.from = p.from
        /\ q.act = p.act /\ q.fixes = p.fixes /\ q.opts = p.opts
        /\ q.admin = p.admin /\ q.stale = p.stale
    BY <1>2, DoneFields DEF PC
  <1>4. p.album \in Albums /\ Real[p.album] \in Albums
    BY <1>1, AlbumFacts DEF Formed
  <1>5. CASE ~p.changed
    <2>1. Becomes(r, q)
      BY <1>1, <1>2, <1>5 DEF Restore
    <2>2. Formed(q) /\ Shown(q)
      BY <1>1, <1>3, <1>5 DEF Formed, Shown, Waiting, Previews
    <2>3. QED
      BY <1>1, <1>3, <2>1, <2>2, KeepLocal
  <1>6. CASE p.changed
    <2>1. PICK a \in Albums : a = Real[p.album]
      BY <1>4
    <2>2. PICK o \in ReadOf(file[a]) : Becomes(r, Having(q, a, o))
      BY <1>1, <1>2, <1>3, <1>6, <2>1 DEF Restore
    <2>3. o \in Options
      BY ReqFacts, ReadFacts
    <2>4. PICK h : h = Having(q, a, o)
      OBVIOUS
    <2>5. /\ h \in Request /\ h.pc = "page" /\ h.album = p.album
          /\ h.act = p.act /\ h.fixes = p.fixes /\ h.from = a /\ h.admin = p.admin
      BY <1>3, <2>3, <2>4, HavingFields
    <2>6. Formed(h) /\ Shown(h)
      BY <1>1, <2>1, <2>5 DEF Formed, Shown, Waiting, Previews
    <2>7. AddUpInv => Steady(r, h)
      BY <1>3, <2>3, <2>4, ReadSteady
    <2>8. Becomes(r, h)
      BY <2>2, <2>4
    <2>9. QED
      BY <2>5, <2>6, <2>7, <2>8 DEF Local, Sound
  <1>7. QED
    BY <1>5, <1>6

LEMMA ActedFields ==
  ASSUME ShownInv, NEW r \in Requests, req[r].pc = "page", req[r].act.op # "none",
         NEW q, q = Acted(r)
  PROVE  /\ q \in Request /\ q.pc = "page" /\ q.admin /\ q.act = NoAct
         /\ q.album = req[r].album /\ q.album \in Albums
         /\ q.opts = req[r].opts /\ q.from = req[r].from /\ q.from \in Albums
         /\ q.stale = req[r].stale /\ q.from = Real[q.album]
  <1>1. PICK p \in Request : p = req[r] /\ Formed(p) /\ Shown(p)
    BY ReqFacts
  <1>2. /\ p.album \in Albums /\ p.from \in Albums /\ Subs[p.album] \in SUBSET Albums
        /\ NoAct \in Act /\ NoAct.op = "none"
    BY <1>1, AlbumFacts, NoChangeType DEF Formed, NoAct
  <1>3. q = [p EXCEPT !.act = NoAct, !.todo = Subs[p.album]]
    BY <1>1 DEF Acted
  <1>4. /\ q \in Request /\ q.pc = p.pc /\ q.admin = p.admin /\ q.act = NoAct
        /\ q.album = p.album /\ q.opts = p.opts /\ q.from = p.from /\ q.stale = p.stale
    BY <1>2, <1>3 DEF Request
  <1>5. p.admin /\ p.from = Real[p.album]
    BY <1>1, <1>2 DEF Shown, Waiting, Previews
  <1>6. q.admin
    BY <1>4, <1>5
  <1>7. QED
    BY <1>1, <1>2, <1>4, <1>5, <1>6

LEMMA SetVisibleLocal ==
  ASSUME ShownInv, NEW r \in Requests, SetVisible(r)
  PROVE  Local(r)
  <1>1. req[r].pc = "page" /\ req[r].act.op \in {"hide", "show"}
    BY DEF SetVisible, Acting
  <1>2. PICK p \in Request : p = req[r] /\ Formed(p) /\ p.pc = "page" /\ p.act.on \in Names
    BY <1>1, ReqFacts DEF Formed
  <1>3. PICK c \in Change :
          c = IF p.act.op = "show" THEN Show(p.act.on) ELSE Hide(p.act.on)
    <2>1. Show(p.act.on) \in Change
      BY DEF Show, Change
    <2>2. Hide(p.act.on) \in Change
      BY <1>2 DEF Hide, Change
    <2>3. QED
      BY <2>1, <2>2
  <1>4. PICK q : q = Acted(r)
    OBVIOUS
  <1>5. /\ q \in Request /\ q.pc = "page" /\ q.admin /\ q.act = NoAct
        /\ q.album = p.album /\ q.album \in Albums
        /\ q.opts = p.opts /\ q.from = p.from /\ q.from \in Albums
        /\ q.stale = p.stale /\ q.from = Real[q.album]
    BY <1>1, <1>2, <1>4, ActedFields
  <1>6. PICK g : g = [q EXCEPT !.change = c, !.target = p.album, !.then = "readback"]
    OBVIOUS
  <1>7. /\ g \in Request /\ g.album = q.album /\ g.from = q.from /\ g.opts = q.opts
        /\ g.act = NoAct /\ g.target = q.album /\ g.change = c
        /\ g.admin = q.admin /\ g.stale = q.stale
    BY <1>5, <1>6 DEF Request
  <1>8. \/ Becomes(r, [g EXCEPT !.pc = "open", !.opts = Apply(c, p.opts)])
        \/ Becomes(r, [g EXCEPT !.pc = "readback"])
    BY <1>2, <1>3, <1>4, <1>6 DEF SetVisible
  <1>9. CASE Becomes(r, [g EXCEPT !.pc = "open", !.opts = Apply(c, p.opts)])
    <2>1. PICK h : h = [g EXCEPT !.pc = "open", !.opts = Apply(c, p.opts)]
      OBVIOUS
    <2>2. Apply(c, p.opts) \in Options
      BY ApplyType DEF Request
    <2>3. /\ h \in Request /\ h.pc = "open" /\ h.album = q.album /\ h.from = q.from
          /\ h.act = NoAct /\ h.target = q.album /\ h.change = c
          /\ h.opts = Apply(c, p.opts)
          /\ h.admin = q.admin /\ h.stale = q.stale
      BY <1>7, <2>1, <2>2, ZenonT(60) DEF Request, PC
    <2>4. Formed(h) /\ Shown(h)
      BY <1>5, <2>3 DEF Formed, Shown, Waiting, NoAct
    <2>5. ASSUME NoLinks, AddUpInv PROVE Steady(r, h)
      <3>1. h.from = h.target
        BY <1>5, <2>3, <2>5 DEF NoLinks
      <3>2. Right(p)
        BY <1>2, <2>5 DEF AddUpInv
      <3>3. Right(h)
        BY <1>2, <1>5, <2>3, <3>2 DEF Right, Changing
      <3>4. QED
        BY <1>2, <1>5, <2>3, <3>1, <3>3 DEF Steady, Own
    <2>6. QED
      BY <1>9, <2>1, <2>3, <2>4, <2>5 DEF Local, Sound
  <1>10. CASE Becomes(r, [g EXCEPT !.pc = "readback"])
    <2>1. PICK h : h = [g EXCEPT !.pc = "readback"]
      OBVIOUS
    <2>2. /\ h \in Request /\ h.pc = "readback" /\ h.album = q.album /\ h.from = q.from
          /\ h.act = NoAct /\ h.opts = q.opts
          /\ h.admin = q.admin /\ h.stale = q.stale
      BY <1>7, <2>1 DEF Request, PC
    <2>3. Formed(h) /\ Shown(h)
      BY <1>5, <2>2 DEF Formed, Shown, Waiting, NoAct
    <2>4. QED
      BY <1>2, <1>5, <1>10, <2>1, <2>2, <2>3, KeepLocal
  <1>11. QED
    BY <1>8, <1>9, <1>10

LEMMA ReadbackLocal ==
  ASSUME ShownInv, NEW r \in Requests, Readback(r)
  PROVE  Local(r)
  <1>1. PICK p \in Request : p = req[r] /\ Formed(p) /\ Shown(p) /\ p.pc = "readback"
    BY ReqFacts DEF Readback
  <1>2. PICK q : q = Done(p, "page")
    OBVIOUS
  <1>3. /\ q \in Request /\ q.pc = "page" /\ q.album = p.album /\ q.act = p.act
        /\ q.admin = p.admin
    BY <1>2, DoneFields DEF PC
  <1>4. PICK a \in Albums : a = p.album
    BY <1>1 DEF Formed
  <1>5. PICK o \in ReadOf(file[a]) : Becomes(r, Having(q, a, o))
    BY <1>1, <1>2, <1>4 DEF Readback
  <1>6. o \in Options
    BY ReqFacts, ReadFacts
  <1>7. PICK h : h = Having(q, a, o)
    OBVIOUS
  <1>8. /\ h \in Request /\ h.pc = "page" /\ h.album = a /\ h.act = p.act /\ h.from = a
        /\ h.admin = p.admin
    BY <1>3, <1>4, <1>6, <1>7, HavingFields
  <1>9. ~Waiting(p)
    BY <1>1 DEF Shown, Previews
  <1>10. Formed(h) /\ Shown(h)
    BY <1>1, <1>8, <1>9 DEF Formed, Shown, Waiting
  <1>11. AddUpInv => Steady(r, h)
    BY <1>3, <1>6, <1>7, ReadSteady
  <1>12. Becomes(r, h)
    BY <1>5, <1>7
  <1>13. QED
    BY <1>8, <1>10, <1>11, <1>12 DEF Local, Sound

(* The administrator's request after it did what he asked for.             *)
LEMMA NotWaiting ==
  ASSUME NEW q \in Request, q.admin, q.act = NoAct, q.album \in Albums, q.from \in Albums,
         q.pc \in {"page", "set"}, q.pc = "set" => q.target \in Albums /\ q.image \in Images
  PROVE  Formed(q) /\ Shown(q)
  BY DEF Formed, Shown, Waiting, NoAct

LEMMA UseAsIconLocal ==
  ASSUME ShownInv, NEW r \in Requests, UseAsIcon(r)
  PROVE  Local(r)
  <1>1. req[r].pc = "page" /\ req[r].act.op = "icon"
    BY DEF UseAsIcon, Acting
  <1>2. PICK i \in Images : i = req[r].act.on
    BY <1>1, ReqFacts DEF Formed
  <1>3. PICK q : q = Acted(r)
    OBVIOUS
  <1>4. /\ q \in Request /\ q.pc = "page" /\ q.admin /\ q.act = NoAct
        /\ q.album = req[r].album /\ q.album \in Albums
        /\ q.opts = req[r].opts /\ q.from = req[r].from /\ q.from \in Albums
        /\ q.stale = req[r].stale
    BY <1>1, <1>3, ActedFields
  <1>5. CASE Becomes(r, q)
    BY <1>1, <1>4, <1>5, NotWaiting, KeepLocal
  <1>6. CASE Becomes(r, [q EXCEPT !.pc = "set", !.target = q.album, !.image = i])
    <2>1. PICK h : h = [q EXCEPT !.pc = "set", !.target = q.album, !.image = i]
      OBVIOUS
    <2>2. /\ h \in Request /\ h.pc = "set" /\ h.act = NoAct /\ h.album = q.album
          /\ h.target = q.album /\ h.image = i /\ h.opts = q.opts /\ h.from = q.from
          /\ h.stale = q.stale /\ h.admin = q.admin
      BY <1>4, <2>1 DEF Request, PC
    <2>3. QED
      BY <1>1, <1>4, <1>6, <2>1, <2>2, NotWaiting, KeepLocal
  <1>7. QED
    BY <1>2, <1>3, <1>4, <1>5, <1>6 DEF UseAsIcon

LEMMA FixOptionsLocal ==
  ASSUME ShownInv, NEW r \in Requests, FixOptions(r)
  PROVE  Local(r)
  <1>1. req[r].pc = "page" /\ req[r].act.op \in {"fix", "fixall"}
    BY DEF FixOptions, Acting
  <1>2. PICK q : q = Acted(r)
    OBVIOUS
  <1>3. /\ q \in Request /\ q.pc = "page" /\ q.admin /\ q.act = NoAct
        /\ q.album = req[r].album /\ q.album \in Albums
        /\ q.opts = req[r].opts /\ q.from = req[r].from /\ q.from \in Albums
        /\ q.stale = req[r].stale
    BY <1>1, <1>2, ActedFields
  <1>4. PICK f \in SUBSET Albums : Becomes(r, [q EXCEPT !.fixes = f])
    <2>1. Below[q.album] \subseteq Albums /\ {q.album} \in SUBSET Albums
      BY <1>3, AlbumFacts
    <2>2. \A s \in SUBSET Below[q.album] : s \cup {q.album} \in SUBSET Albums
      BY <1>3, <2>1
    <2>3. QED
      BY <1>2, <1>3, <2>1, <2>2 DEF FixOptions
  <1>5. PICK h : h = [q EXCEPT !.fixes = f]
    OBVIOUS
  <1>6. /\ h \in Request /\ h.pc = "page" /\ h.act = NoAct /\ h.album = q.album
        /\ h.opts = q.opts /\ h.from = q.from /\ h.stale = q.stale /\ h.admin = q.admin
    BY <1>3, <1>5 DEF Request
  <1>7. QED
    BY <1>1, <1>3, <1>4, <1>5, <1>6, NotWaiting, KeepLocal

LEMMA MakePreviewsLocal ==
  ASSUME ShownInv, NEW r \in Requests, MakePreviews(r)
  PROVE  Local(r)
  <1>1. req[r].pc = "page" /\ req[r].act.op = "make"
    BY DEF MakePreviews, Acting
  <1>2. PICK q : q = Acted(r)
    OBVIOUS
  <1>3. /\ q \in Request /\ q.pc = "page" /\ q.admin /\ q.act = NoAct
        /\ q.album = req[r].album /\ q.album \in Albums
        /\ q.opts = req[r].opts /\ q.from = req[r].from /\ q.from \in Albums
        /\ q.stale = req[r].stale
    BY <1>1, <1>2, ActedFields
  <1>4. PICK t \in SUBSET Albums : Becomes(r, [q EXCEPT !.todo = t])
    <2>1. PICK a \in Albums : a = Real[q.album]
      BY <1>3, AlbumFacts
    <2>2. q.todo \cup Below[a] \cup ({a} \ {Root}) \in SUBSET Albums
      BY <1>3, AlbumFacts DEF Request
    <2>3. Becomes(r, [q EXCEPT !.todo = q.todo \cup Below[a] \cup ({a} \ {Root})])
      BY <1>2, <1>3, <2>1 DEF MakePreviews
    <2>4. QED
      BY <2>2, <2>3
  <1>5. PICK h : h = [q EXCEPT !.todo = t]
    OBVIOUS
  <1>6. /\ h \in Request /\ h.pc = "page" /\ h.act = NoAct /\ h.album = q.album
        /\ h.opts = q.opts /\ h.from = q.from /\ h.stale = q.stale /\ h.admin = q.admin
    BY <1>3, <1>5 DEF Request
  <1>7. QED
    BY <1>1, <1>3, <1>4, <1>5, <1>6, NotWaiting, KeepLocal

LEMMA FixLocal ==
  ASSUME ShownInv, NEW r \in Requests, NEW a \in Albums, Fix(r, a)
  PROVE  Local(r)
  <1>1. PICK p \in Request : p = req[r] /\ Formed(p) /\ Shown(p) /\ p.pc = "page"
    BY ReqFacts DEF Fix
  <1>2. a \in p.fixes
    BY <1>1 DEF Fix
  <1>3. PICK c \in Change : c = KeepOnly(Listed(r))
    <2>1. Listed(r) \in SUBSET Names
      BY <1>1, AlbumFacts DEF Listed, Formed
    <2>2. KeepOnly(Listed(r)) \in Change
      BY <2>1 DEF KeepOnly, Change
    <2>3. QED
      BY <2>2
  <1>4. PICK f : f = p.fixes \ {a}
    OBVIOUS
  <1>5. PICK g : g = [p EXCEPT !.pc = "open", !.fixes = f, !.target = a, !.change = c,
                               !.then = "page"]
    OBVIOUS
  <1>6. PICK o \in ReadOf(file[a]) : Becomes(r, Having(g, a, Apply(c, o)))
    BY <1>1, <1>3, <1>4, <1>5 DEF Fix
  <1>7. /\ g \in Request /\ g.pc = "open" /\ g.album = p.album /\ g.target = a
        /\ g.change = c /\ g.act = p.act /\ g.admin = p.admin
    <2>1. f \in SUBSET Albums
      BY <1>4 DEF Request
    <2>2. QED
      BY <1>1, <1>5, <2>1 DEF Request, PC
  <1>8. Apply(c, o) \in Options
    BY ReqFacts, ReadFacts, ApplyType
  <1>9. PICK h : h = Having(g, a, Apply(c, o))
    OBVIOUS
  <1>10. /\ h \in Request /\ h.pc = "open" /\ h.album = p.album /\ h.target = a
         /\ h.act = p.act /\ h.from = a /\ h.admin = p.admin
    BY <1>7, <1>8, <1>9, HavingFields
  <1>11. ~Waiting(p)
    BY <1>1, <1>2 DEF Shown, Previews
  <1>12. Formed(h) /\ Shown(h)
    BY <1>1, <1>10, <1>11 DEF Formed, Shown, Waiting
  <1>13. AddUpInv => Steady(r, h)
    BY <1>7, <1>8, <1>9, ReadSteady
  <1>14. Becomes(r, h)
    BY <1>6, <1>9
  <1>15. QED
    BY <1>10, <1>12, <1>13, <1>14 DEF Local, Sound

LEMMA AfterWriteFields ==
  ASSUME NEW p \in Request, Formed(p), Shown(p), Changing(p), NEW h, h = AfterWrite(p)
  PROVE  /\ Sound(h) /\ h.pc \in {"page", "restore", "readback"}
         /\ h.opts = p.opts /\ h.from = p.from /\ h.stale = p.stale
  <1>1. CASE p.then = "page"
    <2>1. h = Done(p, "page")
      BY <1>1 DEF AfterWrite
    <2>2. /\ h \in Request /\ h.pc = "page" /\ h.album = p.album /\ h.act = p.act
          /\ h.opts = p.opts /\ h.from = p.from /\ h.stale = p.stale /\ h.admin = p.admin
      BY <2>1, DoneFields DEF PC
    <2>3. ~Waiting(p)
      BY <1>1 DEF Shown, Previews, Changing
    <2>4. Formed(h) /\ Shown(h)
      BY <2>2, <2>3 DEF Formed, Shown, Waiting, Changing
    <2>5. QED
      BY <2>2, <2>4 DEF Sound
  <1>2. CASE p.then # "page"
    <2>1. PICK z \in 0..2 : z = 0
      OBVIOUS
    <2>2. PICK next \in {"restore", "readback"} : next = p.then
      BY <1>2 DEF Request
    <2>3. h = [p EXCEPT !.pc = next, !.at = z]
      BY <1>2, <2>1, <2>2 DEF AfterWrite
    <2>4. /\ h \in Request /\ h.pc = next /\ h.album = p.album /\ h.act = p.act
          /\ h.opts = p.opts /\ h.from = p.from /\ h.stale = p.stale /\ h.admin = p.admin
          /\ h.target = p.target /\ h.changed = p.changed /\ h.fixes = p.fixes
      BY <2>1, <2>2, <2>3 DEF Request, PC
    <2>5. Formed(h)
      BY <2>2, <2>4 DEF Formed, Changing
    <2>6. Shown(h)
      BY <2>2, <2>4 DEF Shown, Waiting, Previews, Changing
    <2>7. QED
      BY <2>2, <2>4, <2>5, <2>6 DEF Sound
  <1>3. QED
    BY <1>1, <1>2

LEMMA OpenFailsLocal ==
  ASSUME ShownInv, NEW r \in Requests, OpenFails(r)
  PROVE  Local(r)
  <1>1. PICK p \in Request : p = req[r] /\ Formed(p) /\ Shown(p) /\ Changing(p)
    BY ReqFacts DEF OpenFails, Changing
  <1>2. PICK q : q = AfterWrite(p)
    OBVIOUS
  <1>3. Sound(q) /\ q.pc \in {"page", "restore", "readback"}
    BY <1>1, <1>2, AfterWriteFields
  <1>4. PICK b \in BOOLEAN : b = TRUE
    BY Zenon
  <1>5. PICK h : h = [q EXCEPT !.stale = b]
    OBVIOUS
  <1>6. /\ h \in Request /\ h.pc = q.pc /\ h.album = q.album /\ h.act = q.act
        /\ h.from = q.from /\ h.target = q.target /\ h.fixes = q.fixes /\ h.image = q.image
        /\ h.admin = q.admin /\ h.changed = q.changed /\ h.stale = b
    BY <1>3, <1>4, <1>5 DEF Sound, Request
  <1>7. h.stale
    BY <1>4, <1>6, Zenon
  <1>8. Formed(h)
    BY <1>3, <1>6 DEF Sound, Formed
  <1>9. Shown(h)
    BY <1>3, <1>6 DEF Sound, Shown, Waiting, Previews
  <1>10. Steady(r, h)
    BY <1>3, <1>6, <1>7 DEF Steady, Right, Own, Changing
  <1>11. Becomes(r, h)
    BY <1>1, <1>2, <1>4, <1>5, Zenon DEF OpenFails
  <1>12. QED
    BY <1>6, <1>8, <1>9, <1>10, <1>11 DEF Local, Sound

(* All of them, but a crash in the middle of a write.                      *)
Quietly(r) ==
  \/ \E c \in Albums : Visit(r, c) \/ \E act \in Acts(c) : Administer(r, c, act)
  \/ \E a \in Albums : Skip(r, a) \/ Preview(r, a) \/ Fix(r, a)
  \/ Icon(r) \/ Random(r) \/ SetIcon(r) \/ Restore(r)
  \/ SetVisible(r) \/ Readback(r) \/ UseAsIcon(r) \/ FixOptions(r) \/ MakePreviews(r)
  \/ OpenFails(r) \/ (Crash(r) /\ req[r].pc # "write") \/ End(r)

LEMMA QuietlyLocal ==
  ASSUME ShownInv, NEW r \in Requests, Quietly(r)
  PROVE  /\ Local(r) /\ req[r].pc # "write"
         /\ UNCHANGED <<file, intended, spoiled>> /\ visits' \in Nat
  <1>1. Local(r)
    <2>1. CASE Crash(r) \/ End(r)
      BY <2>1, IdleLocal DEF Crash, End
    <2>2. CASE ~(Crash(r) \/ End(r))
      BY <2>2, VisitLocal, AdministerLocal, SkipLocal, PreviewLocal, FixLocal, IconLocal,
         RandomLocal, SetIconLocal, RestoreLocal, SetVisibleLocal, ReadbackLocal,
         UseAsIconLocal, FixOptionsLocal, MakePreviewsLocal, OpenFailsLocal DEF Quietly
    <2>3. QED
      BY <2>1, <2>2
  <1>2. /\ UNCHANGED <<file, intended, spoiled>> /\ visits' \in Nat /\ req[r].pc # "write"
    <2>1. visits \in Nat
      BY DEF ShownInv, TypeOK
    <2>2. ASSUME NEW c \in Albums, Visit(r, c) \/ \E act \in Acts(c) : Administer(r, c, act)
          PROVE  /\ UNCHANGED <<file, intended, spoiled>> /\ visits' \in Nat
                 /\ req[r].pc # "write"
      <3>1. Arrive(r) /\ UNCHANGED <<file, intended, spoiled>>
        BY <2>2, Zenon DEF Visit, Administer, historyVars
      <3>2. QED
        BY <2>1, <3>1, BoundsAssumption DEF Arrive
    <2>3. ASSUME NEW a \in Albums, Skip(r, a) \/ Preview(r, a) \/ Fix(r, a)
          PROVE  UNCHANGED <<file, visits, intended, spoiled>> /\ req[r].pc # "write"
      BY <2>3 DEF Skip, Preview, Fix, historyVars
    <2>4. ASSUME Icon(r) \/ Random(r) \/ SetIcon(r) \/ Restore(r) \/ Readback(r)
          PROVE  UNCHANGED <<file, visits, intended, spoiled>> /\ req[r].pc # "write"
      BY <2>4 DEF Icon, Random, SetIcon, Restore, Readback, historyVars
    <2>5. ASSUME SetVisible(r) \/ UseAsIcon(r) \/ FixOptions(r) \/ MakePreviews(r)
          PROVE  UNCHANGED <<file, visits, intended, spoiled>> /\ req[r].pc # "write"
      <3>1. req[r].pc = "page"
        BY <2>5 DEF SetVisible, UseAsIcon, FixOptions, MakePreviews, Acting
      <3>2. UNCHANGED <<file, visits, intended, spoiled>>
        BY <2>5 DEF SetVisible, UseAsIcon, FixOptions, MakePreviews, historyVars
      <3>3. QED
        BY <3>1, <3>2
    <2>6. ASSUME OpenFails(r) \/ (Crash(r) /\ req[r].pc # "write") \/ End(r)
          PROVE  UNCHANGED <<file, visits, intended, spoiled>> /\ req[r].pc # "write"
      BY <2>6 DEF OpenFails, Crash, End, historyVars
    <2>7. QED
      BY <2>1, <2>2, <2>3, <2>4, <2>5, <2>6 DEF Quietly
  <1>3. QED
    BY <1>1, <1>2

-----------------------------------------------------------------------------
(* Types, and the options of the page.                                     *)

LEMMA ShownAfter ==
  ASSUME ShownInv, NEW r \in Requests, NEW q, Sound(q), Becomes(r, q),
         file' \in [Albums -> File], visits' \in Nat,
         intended' \in [Albums -> Options], spoiled' \in SUBSET Albums
  PROVE  ShownInv'
  <1>1. req \in [Requests -> Request]
    BY DEF ShownInv, TypeOK
  <1>2. req' \in [Requests -> Request]
    BY <1>1 DEF Sound, Becomes
  <1>3. ASSUME NEW p \in Requests PROVE Formed(req'[p]) /\ Shown(req'[p])
    <2>1. req'[p] = IF p = r THEN q ELSE req[p]
      BY <1>1 DEF Becomes
    <2>2. QED
      BY <2>1, ReqFacts DEF Sound
  <1>4. TypeOK'
    BY <1>2, <1>3 DEF TypeOK, Formed
  <1>5. QED
    BY <1>3, <1>4 DEF ShownInv

(* What Open writes, and what the next lines do to a file.                 *)
LEMMA OpenedFields ==
  ASSUME NEW r \in Requests, NEW o \in Options, NEW f,
         f = [by |-> r, upto |-> 0, mixed |-> FALSE, data |-> o]
  PROVE  f \in File /\ f.by = r /\ f.upto = 0 /\ ~f.mixed /\ f.data = o
  <1>1. PICK b \in BOOLEAN, n \in 0..3 : b = FALSE /\ n = 0
    <2>1. 0 \in 0..3
      OBVIOUS
    <2>2. QED
      BY <2>1, Zenon
  <1>2. f = [by |-> r, upto |-> n, mixed |-> b, data |-> o]
    BY <1>1, Zenon
  <1>3. f \in File
    BY <1>1, <1>2 DEF File
  <1>4. f.by = r /\ f.upto = 0 /\ f.data = o
    OBVIOUS
  <1>5. ~f.mixed
    BY Zenon
  <1>6. QED
    BY <1>3, <1>4, <1>5, Zenon

LEMMA WrittenFields ==
  ASSUME NEW r \in Requests, req[r] \in Request, NEW f \in File, NEW g, g = Written(f, r)
  PROVE  /\ g \in File /\ g.by = f.by
         /\ f.by = r /\ f.upto = req[r].at /\ ~f.mixed =>
              ~g.mixed /\ g.upto = req[r].at + 1 /\ g.data = f.data
         /\ ~(f.by = r /\ f.upto = req[r].at /\ ~f.mixed) => g.mixed
  <1>1. CASE f.by = r /\ f.upto = req[r].at /\ ~f.mixed
    <2>1. PICK n \in 0..3 : n = req[r].at + 1
      <3>1. req[r].at \in 0..2
        BY DEF Request
      <3>2. QED
        BY <3>1
    <2>2. g = [f EXCEPT !.upto = n]
      BY <1>1, <2>1 DEF Written
    <2>3. g \in File /\ g.by = f.by /\ g.upto = n /\ g.data = f.data /\ g.mixed = f.mixed
      BY <2>2 DEF File
    <2>4. QED
      BY <1>1, <2>1, <2>3
  <1>2. CASE ~(f.by = r /\ f.upto = req[r].at /\ ~f.mixed)
    <2>1. PICK b \in BOOLEAN : b = TRUE
      BY Zenon
    <2>2. g = [f EXCEPT !.mixed = b, !.data = NoOptions]
      BY <1>2, <2>1, Zenon DEF Written
    <2>3. g \in File /\ g.by = f.by /\ g.mixed = b
      BY <2>1, <2>2, NoChangeType DEF File
    <2>4. g.mixed
      BY <2>1, <2>3, Zenon
    <2>5. QED
      BY <1>2, <2>3, <2>4
  <1>3. QED
    BY <1>1, <1>2

(* What Open changes in the requests.                                      *)
LEMMA OpenFields ==
  ASSUME ShownInv, NEW r \in Requests, Open(r)
  PROVE  /\ req[r].pc = "open"
         /\ UNCHANGED <<visits, intended, spoiled>>
         /\ file' = [file EXCEPT ![req[r].target] =
                       [by |-> r, upto |-> 0, mixed |-> FALSE, data |-> req[r].opts]]
         /\ req' \in [Requests -> Request]
         /\ \A q \in Requests :
              /\ req'[q].pc = IF q = r THEN "write" ELSE req[q].pc
              /\ q = r => req'[q].at = 0
              /\ q # r => req'[q].at = req[q].at
              /\ req'[q].album = req[q].album /\ req'[q].admin = req[q].admin
              /\ req'[q].act = req[q].act /\ req'[q].fixes = req[q].fixes
              /\ req'[q].opts = req[q].opts /\ req'[q].from = req[q].from
              /\ req'[q].target = req[q].target /\ req'[q].image = req[q].image
              /\ req'[q].changed = req[q].changed /\ req'[q].change = req[q].change
              /\ req'[q].then = req[q].then
              /\ q = r => req'[q].stale = req[q].stale
              /\ q # r => (req'[q].stale <=> req[q].stale \/ req[q].from = req[r].target)
  <1>1. /\ req[r].pc = "open"
        /\ UNCHANGED <<visits, intended, spoiled>>
        /\ file' = [file EXCEPT ![req[r].target] =
                       [by |-> r, upto |-> 0, mixed |-> FALSE, data |-> req[r].opts]]
    BY Zenon DEF Open, historyVars
  <1>2. PICK z \in 0..2 : z = 0
    OBVIOUS
  <1>3. req' = [q \in Requests |->
                  IF q = r THEN [req[r] EXCEPT !.pc = "write", !.at = z]
                  ELSE [req[q] EXCEPT !.stale = @ \/ req[q].from = req[r].target]]
    BY <1>2, Zenon DEF Open
  <1>4. ASSUME NEW q \in Requests
        PROVE  /\ req'[q] \in Request
               /\ req'[q].pc = IF q = r THEN "write" ELSE req[q].pc
               /\ q = r => req'[q].at = 0
               /\ q # r => req'[q].at = req[q].at
               /\ req'[q].album = req[q].album /\ req'[q].admin = req[q].admin
               /\ req'[q].act = req[q].act /\ req'[q].fixes = req[q].fixes
               /\ req'[q].opts = req[q].opts /\ req'[q].from = req[q].from
               /\ req'[q].target = req[q].target /\ req'[q].image = req[q].image
               /\ req'[q].changed = req[q].changed /\ req'[q].change = req[q].change
               /\ req'[q].then = req[q].then
               /\ q = r => req'[q].stale = req[q].stale
               /\ q # r => (req'[q].stale <=> req[q].stale \/ req[q].from = req[r].target)
    <2>1. PICK p \in Request : p = req[q]
      BY ReqFacts
    <2>2. PICK h : h = req'[q]
      OBVIOUS
    <2>3. CASE q = r
      <3>1. h = [p EXCEPT !.pc = "write", !.at = z]
        BY <1>3, <2>1, <2>2, <2>3
      <3>2. /\ h \in Request /\ h.pc = "write" /\ h.at = z /\ h.album = p.album
            /\ h.act = p.act /\ h.fixes = p.fixes /\ h.opts = p.opts /\ h.from = p.from
            /\ h.target = p.target /\ h.image = p.image /\ h.change = p.change
            /\ h.then = p.then
            /\ h.admin = p.admin /\ h.changed = p.changed /\ h.stale = p.stale
        BY <1>2, <3>1 DEF Request, PC
      <3>3. QED
        BY <1>2, <2>1, <2>2, <2>3, <3>2
    <2>4. CASE q # r
      <3>1. PICK b \in BOOLEAN : b = (p.stale \/ p.from = req[r].target)
        BY Zenon
      <3>2. h = [p EXCEPT !.stale = b]
        BY <1>3, <2>1, <2>2, <2>4, <3>1, Zenon
      <3>3. /\ h \in Request /\ h.pc = p.pc /\ h.at = p.at /\ h.album = p.album
            /\ h.act = p.act /\ h.fixes = p.fixes /\ h.opts = p.opts /\ h.from = p.from
            /\ h.target = p.target /\ h.image = p.image /\ h.change = p.change
            /\ h.then = p.then
            /\ h.admin = p.admin /\ h.changed = p.changed /\ h.stale = b
        BY <3>1, <3>2 DEF Request
      <3>4. h.stale <=> p.stale \/ p.from = req[r].target
        BY <3>1, <3>3, Zenon
      <3>5. QED
        BY <2>1, <2>2, <2>4, <3>3, <3>4
    <2>5. QED
      BY <2>3, <2>4
  <1>5. req' \in [Requests -> Request]
    <2>1. req' = [q \in Requests |-> req'[q]]
      BY <1>3
    <2>2. QED
      BY <1>4, <2>1
  <1>6. QED
    BY <1>1, <1>4, <1>5

(* The lines that Write and Close write.                                   *)
LEMMA WriteFields ==
  ASSUME ShownInv, NEW r \in Requests, Write(r)
  PROVE  /\ \E q : /\ Becomes(r, q) /\ Sound(q)
                   /\ q.pc = "write" /\ q.at = req[r].at + 1 /\ q.target = req[r].target
                   /\ q.opts = req[r].opts /\ q.from = req[r].from
                   /\ q.change = req[r].change /\ q.stale = req[r].stale
         /\ req[r].pc = "write" /\ req[r].at < 2 /\ req[r].target \in Albums
         /\ file' = [file EXCEPT ![req[r].target] = Written(@, r)]
         /\ UNCHANGED <<visits, intended, spoiled>>
  <1>1. PICK p \in Request : p = req[r] /\ Formed(p) /\ Shown(p) /\ p.pc = "write" /\ p.at < 2
    BY ReqFacts DEF Write
  <1>2. PICK n \in 0..2 : n = p.at + 1
    BY <1>1 DEF Request
  <1>3. PICK q : q = [p EXCEPT !.at = n]
    OBVIOUS
  <1>4. /\ q \in Request /\ q.pc = p.pc /\ q.at = n /\ q.album = p.album
        /\ q.act = p.act /\ q.fixes = p.fixes /\ q.opts = p.opts /\ q.from = p.from
        /\ q.target = p.target /\ q.image = p.image /\ q.change = p.change
        /\ q.then = p.then
        /\ q.admin = p.admin /\ q.changed = p.changed /\ q.stale = p.stale
    BY <1>2, <1>3 DEF Request
  <1>5. Sound(q)
    BY <1>1, <1>4 DEF Sound, Formed, Shown, Waiting, Previews
  <1>6. Becomes(r, q)
    BY <1>1, <1>2, <1>3 DEF Write
  <1>7. file' = [file EXCEPT ![req[r].target] = Written(@, r)]
        /\ UNCHANGED <<visits, intended, spoiled>>
    BY DEF Write, historyVars
  <1>8. req[r].target \in Albums
    BY <1>1 DEF Formed
  <1>9. QED
    BY <1>1, <1>2, <1>4, <1>5, <1>6, <1>7, <1>8

LEMMA CloseFields ==
  ASSUME ShownInv, NEW r \in Requests, Close(r)
  PROVE  /\ \E q : /\ Becomes(r, q) /\ Sound(q)
                   /\ q.pc \in {"page", "restore", "readback"}
                   /\ q.opts = req[r].opts /\ q.from = req[r].from /\ q.stale = req[r].stale
         /\ req[r].pc = "write" /\ req[r].at = 2 /\ req[r].target \in Albums
         /\ file' = [file EXCEPT ![req[r].target] = Written(@, r)]
         /\ intended' = [intended EXCEPT ![req[r].target] = Apply(req[r].change, @)]
         /\ intended' \in [Albums -> Options]
         /\ spoiled' = IF req[r].stale THEN spoiled \cup {req[r].target} ELSE spoiled
         /\ spoiled' \in SUBSET Albums
         /\ UNCHANGED visits
  <1>1. PICK p \in Request : p = req[r] /\ Formed(p) /\ Shown(p) /\ p.pc = "write" /\ p.at = 2
    BY ReqFacts DEF Close
  <1>2. PICK q : q = AfterWrite(p)
    OBVIOUS
  <1>3. /\ Sound(q) /\ q.pc \in {"page", "restore", "readback"}
        /\ q.opts = p.opts /\ q.from = p.from /\ q.stale = p.stale
    BY <1>1, <1>2, AfterWriteFields DEF Changing
  <1>4. Becomes(r, q)
    BY <1>1, <1>2 DEF Close
  <1>5. /\ file' = [file EXCEPT ![req[r].target] = Written(@, r)]
        /\ intended' = [intended EXCEPT ![req[r].target] = Apply(req[r].change, @)]
        /\ spoiled' = IF req[r].stale THEN spoiled \cup {req[r].target} ELSE spoiled
        /\ UNCHANGED visits
    BY DEF Close
  <1>6. PICK a \in Albums : a = req[r].target
    BY <1>1 DEF Formed
  <1>7. intended \in [Albums -> Options] /\ spoiled \in SUBSET Albums
    BY DEF ShownInv, TypeOK
  <1>8. intended' \in [Albums -> Options]
    <2>1. PICK c \in Change : c = req[r].change
      BY <1>1 DEF Request
    <2>2. Apply(c, intended[a]) \in Options
      BY <1>7, ApplyType
    <2>3. intended' = [intended EXCEPT ![a] = Apply(c, intended[a])]
      BY <1>5, <1>6, <2>1
    <2>4. QED
      BY <1>7, <2>2, <2>3
  <1>9. spoiled' \in SUBSET Albums
    BY <1>5, <1>6, <1>7
  <1>10. QED
    BY <1>1, <1>3, <1>4, <1>5, <1>6, <1>8, <1>9

LEMMA WrittenFile ==
  ASSUME ShownInv, NEW r \in Requests, NEW a \in Albums, file' = [file EXCEPT ![a] = Written(@, r)]
  PROVE  file' \in [Albums -> File]
  <1>1. file \in [Albums -> File] /\ req[r] \in Request
    BY ReqFacts
  <1>2. Written(file[a], r) \in File
    BY <1>1, WrittenFields
  <1>3. file' = [file EXCEPT ![a] = Written(file[a], r)]
    OBVIOUS
  <1>4. QED
    BY <1>1, <1>2, <1>3

LEMMA ShownStep ==
  ASSUME ShownInv, NEW r \in Requests, Serve(r)
  PROVE  ShownInv'
  <1>1. /\ req \in [Requests -> Request] /\ file \in [Albums -> File] /\ visits \in Nat
        /\ intended \in [Albums -> Options] /\ spoiled \in SUBSET Albums
    BY DEF ShownInv, TypeOK
  <1>2. CASE Quietly(r)
    <2>1. PICK q : Becomes(r, q) /\ Sound(q)
      BY <1>2, QuietlyLocal DEF Local
    <2>2. UNCHANGED <<file, intended, spoiled>> /\ visits' \in Nat
      BY <1>2, QuietlyLocal
    <2>3. QED
      BY <1>1, <2>1, <2>2, ShownAfter
  <1>3. CASE Open(r)
    <2>1. PICK a \in Albums, o \in Options : a = req[r].target /\ o = req[r].opts
      BY <1>3, ReqFacts DEF Open, Formed, Request
    <2>2. PICK f : f = [by |-> r, upto |-> 0, mixed |-> FALSE, data |-> o]
      OBVIOUS
    <2>3. f \in File
      BY <2>2, OpenedFields
    <2>4. file' = [file EXCEPT ![a] = f]
      BY <1>3, <2>1, <2>2, OpenFields, Zenon
    <2>5. file' \in [Albums -> File]
      BY <1>1, <2>3, <2>4
    <2>6. ASSUME NEW q \in Requests PROVE Formed(req'[q]) /\ Shown(req'[q])
      <3>1. PICK p \in Request, h \in Request : p = req[q] /\ h = req'[q] /\ Formed(p) /\ Shown(p)
        BY <1>3, OpenFields, ReqFacts
      <3>2. /\ h.pc = IF q = r THEN "write" ELSE p.pc
            /\ h.album = p.album /\ h.act = p.act /\ h.fixes = p.fixes /\ h.from = p.from
            /\ h.target = p.target /\ h.image = p.image /\ h.then = p.then
            /\ h.admin = p.admin /\ h.changed = p.changed
        BY <1>3, <3>1, OpenFields
      <3>3. q = r => p.pc = "open"
        BY <1>3, <3>1, OpenFields
      <3>4. Formed(h)
        BY <3>1, <3>2, <3>3 DEF Formed
      <3>5. Shown(h)
        BY <3>1, <3>2, <3>3 DEF Shown, Waiting, Previews
      <3>6. QED
        BY <3>1, <3>4, <3>5
    <2>7. /\ req' \in [Requests -> Request] /\ visits' \in Nat
          /\ intended' \in [Albums -> Options] /\ spoiled' \in SUBSET Albums
      BY <1>1, <1>3, OpenFields
    <2>8. TypeOK'
      BY <2>5, <2>6, <2>7 DEF TypeOK, Formed
    <2>9. QED
      BY <2>6, <2>8 DEF ShownInv
  <1>4. CASE Write(r)
    BY <1>1, <1>4, WriteFields, WrittenFile, ShownAfter
  <1>5. CASE Close(r)
    BY <1>1, <1>5, CloseFields, WrittenFile, ShownAfter
  <1>6. CASE Crash(r) /\ req[r].pc = "write"
    <2>1. Sound(Idle) /\ Becomes(r, Idle)
      <3>1. Idle.pc = "idle" /\ Idle.act = NoAct /\ NoAct.op = "none"
        BY DEF Idle, NoAct
      <3>2. QED
        BY <1>6, <3>1, IdleType DEF Sound, Formed, Shown, Waiting, Crash
    <2>2. req[r].target \in Albums
      BY <1>6, ReqFacts DEF Formed
    <2>3. UNCHANGED <<file, visits, intended>> /\ spoiled' = spoiled \cup {req[r].target}
      BY <1>6 DEF Crash
    <2>4. QED
      BY <1>1, <2>1, <2>2, <2>3, ShownAfter
  <1>7. Quietly(r) \/ Open(r) \/ Write(r) \/ Close(r) \/ (Crash(r) /\ req[r].pc = "write")
    BY DEF Serve, Quietly
  <1>8. QED
    BY <1>2, <1>3, <1>4, <1>5, <1>6, <1>7

LEMMA WholeFields ==
  ASSUME NEW o \in Options
  PROVE  Whole(o) \in File /\ Complete(Whole(o)) /\ ~Whole(o).mixed /\ Whole(o).data = o
  <1>1. PICK b \in BOOLEAN, n \in 0..3 : b = FALSE /\ n = 3
    <2>1. 3 \in 0..3
      OBVIOUS
    <2>2. QED
      BY <2>1, Zenon
  <1>2. Whole(o) = [by |-> None, upto |-> n, mixed |-> b, data |-> o]
    BY <1>1, Zenon DEF Whole
  <1>3. Whole(o) \in File
    BY <1>1, <1>2 DEF File
  <1>4. ~Whole(o).mixed
    BY Zenon DEF Whole
  <1>5. Whole(o).upto = 3 /\ Whole(o).data = o
    BY DEF Whole
  <1>6. QED
    BY <1>3, <1>4, <1>5 DEF Complete

LEMMA ShownInit == Init => ShownInv
  <1> SUFFICES ASSUME Init PROVE ShownInv
    OBVIOUS
  <1>1. intended \in [Albums -> Options]
    <2>1. ASSUME NEW a \in Albums
          PROVE  [NoOptions EXCEPT !.hide = Contents(a)] \in Options
      BY AlbumFacts DEF NoOptions, Options
    <2>2. QED
      BY <2>1, NoChangeType DEF Init
  <1>2. file \in [Albums -> File]
    BY <1>1, WholeFields DEF Init
  <1>3. ASSUME NEW r \in Requests PROVE req[r] = Idle /\ Formed(req[r]) /\ Shown(req[r])
    <2>1. Idle.pc = "idle" /\ Idle.act = NoAct /\ NoAct.op = "none"
      BY DEF Idle, NoAct
    <2>2. req[r] = Idle
      BY DEF Init
    <2>3. QED
      BY <2>1, <2>2 DEF Formed, Shown, Waiting
  <1>4. req \in [Requests -> Request] /\ visits \in Nat /\ spoiled \in SUBSET Albums
    BY IdleType DEF Init
  <1>5. TypeOK
    BY <1>1, <1>2, <1>3, <1>4 DEF TypeOK, Formed
  <1>6. QED
    BY <1>3, <1>5 DEF ShownInv

LEMMA ShownNext == ShownInv /\ [Next]_vars => ShownInv'
  <1> SUFFICES ASSUME ShownInv, [Next]_vars PROVE ShownInv'
    OBVIOUS
  <1>1. CASE Next
    BY <1>1, ShownStep DEF Next
  <1>2. CASE UNCHANGED vars
    BY <1>2 DEF vars, ShownInv, TypeOK
  <1>3. QED
    BY <1>1, <1>2

(* The files, the requests and the changes stay well formed, however many  *)
(* requests change the options of however many albums.                     *)
THEOREM TypeCorrect == Spec => []TypeOK
  <1>1. ShownInv => TypeOK
    BY DEF ShownInv
  <1>2. QED
    BY <1>1, ShownInit, ShownNext, PTL DEF Spec

(* A visitor's page is filtered by the options of the album it shows, and  *)
(* the administrator's change is made to them, with links to albums too:   *)
(* the previews of the sub-albums put those options back.                  *)
THEOREM PageOptions == Spec => []PageOptionsRestored
  <1>1. ShownInv => PageOptionsRestored
    BY DEF ShownInv, PageOptionsRestored, Shown, Waiting, Previews
  <1>2. QED
    BY <1>1, ShownInit, ShownNext, PTL DEF Spec

-----------------------------------------------------------------------------
(* What the changes add up to, when no album is a link.                    *)

LEMMA AddUpFacts ==
  ASSUME AddUpInv, NEW r \in Requests
  PROVE  /\ ShownInv /\ req[r] \in Request /\ Formed(req[r])
         /\ Right(req[r]) /\ Own(req[r]) /\ WriterKnows(r)
         /\ file \in [Albums -> File] /\ intended \in [Albums -> Options]
         /\ spoiled \in SUBSET Albums
  BY ReqFacts DEF AddUpInv, ShownInv, TypeOK

(* The file a process writes is not complete.                              *)
LEMMA WriterIncomplete ==
  ASSUME AddUpInv, NEW r \in Requests, req[r].pc = "write", ~req[r].stale
  PROVE  ~Complete(file[req[r].target])
  <1>1. req[r].at \in 0..2 /\ WriterKnows(r)
    BY AddUpFacts DEF Request
  <1>2. QED
    BY <1>1 DEF WriterKnows, Complete

LEMMA AddUpQuiet ==
  ASSUME NoLinks, AddUpInv, NEW r \in Requests, Quietly(r)
  PROVE  AddUpInv'
  <1>1. PICK q \in Request : Becomes(r, q) /\ Steady(r, q)
    BY QuietlyLocal, AddUpFacts DEF Local
  <1>2. req[r].pc # "write" /\ UNCHANGED <<file, intended, spoiled>>
    BY QuietlyLocal, AddUpFacts
  <1>3. ShownInv'
    BY ShownStep, AddUpFacts DEF Quietly, Serve
  <1>4. ASSUME NEW p \in Requests PROVE req'[p] = IF p = r THEN q ELSE req[p]
    BY <1>1 DEF Becomes, AddUpInv, ShownInv, TypeOK
  <1>5. ASSUME NEW p \in Requests PROVE Right(req[p])' /\ Own(req[p])'
    <2>1. Right(q)' /\ Own(q)
      BY <1>1, <1>2 DEF Steady, Right
    <2>2. Right(req[p]) /\ Own(req[p])
      BY AddUpFacts
    <2>3. CASE p = r
      BY <1>4, <2>1, <2>3
    <2>4. CASE p # r
      BY <1>2, <1>4, <2>2, <2>4 DEF Right
    <2>5. QED
      BY <2>3, <2>4
  <1>6. ASSUME NEW p \in Requests PROVE WriterKnows(p)'
    <2>1. SUFFICES ASSUME req'[p].pc = "write" PROVE WriterKnows(p)'
      BY DEF WriterKnows
    <2>2. p # r /\ req'[p] = req[p] /\ WriterKnows(p)
      BY <1>1, <1>4, <2>1, AddUpFacts DEF Steady
    <2>3. ASSUME NEW x \in Requests \ {p}, ~req[p].stale,
                 req'[x].pc # "idle", req'[x].from = req[p].target
          PROVE  req'[x].stale
      <3>1. CASE x # r
        BY <1>4, <2>1, <2>2, <2>3, <3>1 DEF WriterKnows
      <3>2. CASE x = r
        <4>1. req'[x] = q
          BY <1>4, <3>2
        <4>2. ~Complete(file[q.from])
          BY <2>1, <2>2, <2>3, <4>1, WriterIncomplete
        <4>3. req[r].pc # "idle" /\ req[r].from = q.from => req[r].stale
          BY <2>1, <2>2, <2>3, <3>2, <4>1 DEF WriterKnows
        <4>4. QED
          BY <1>1, <2>3, <4>1, <4>2, <4>3 DEF Steady
      <3>3. QED
        BY <3>1, <3>2
    <2>4. QED
      BY <1>2, <2>1, <2>2, <2>3 DEF WriterKnows
  <1>7. ASSUME NEW a \in Albums PROVE Unspoiled(a)'
    <2>1. Unspoiled(a)
      BY DEF AddUpInv
    <2>2. \A p \in Requests : Writing(p, a) => req'[p] = req[p]
      BY <1>2, <1>4 DEF Writing
    <2>3. QED
      BY <1>2, <2>1, <2>2 DEF Unspoiled, Writing, Complete
  <1>8. QED
    BY <1>3, <1>5, <1>6, <1>7 DEF AddUpInv

LEMMA AddUpOpen ==
  ASSUME AddUpInv, NEW r \in Requests, Open(r)
  PROVE  AddUpInv'
  <1>1. PICK a \in Albums, o \in Options : a = req[r].target /\ o = req[r].opts
    BY ReqFacts, AddUpFacts DEF Open, Formed, Request
  <1>2. PICK f : f = [by |-> r, upto |-> 0, mixed |-> FALSE, data |-> o]
    OBVIOUS
  <1>3. f \in File /\ f.by = r /\ f.upto = 0 /\ ~f.mixed /\ f.data = o
    BY <1>2, OpenedFields
  <1>4. file' = [file EXCEPT ![a] = f] /\ UNCHANGED <<intended, spoiled>> /\ req[r].pc = "open"
    BY <1>1, <1>2, OpenFields, AddUpFacts, Zenon
  <1>5. \A b \in Albums : file'[b] = IF b = a THEN f ELSE file[b]
    BY <1>4, AddUpFacts
  <1>6. ShownInv'
    BY ShownStep, AddUpFacts DEF Serve
  <1>7. ASSUME NEW p \in Requests
        PROVE  /\ req'[p].pc = IF p = r THEN "write" ELSE req[p].pc
               /\ p = r => req'[p].at = 0
               /\ p # r => req'[p].at = req[p].at
               /\ req'[p].opts = req[p].opts /\ req'[p].from = req[p].from
               /\ req'[p].target = req[p].target /\ req'[p].change = req[p].change
               /\ p = r => req'[p].stale = req[p].stale
               /\ p # r => (req'[p].stale <=> req[p].stale \/ req[p].from = a)
    <2>1. ShownInv
      BY AddUpFacts
    <2>2. PICK t : t = req[r].target
      OBVIOUS
    <2>3. /\ req'[p].pc = IF p = r THEN "write" ELSE req[p].pc
          /\ p = r => req'[p].at = 0
          /\ p # r => req'[p].at = req[p].at
          /\ req'[p].opts = req[p].opts /\ req'[p].from = req[p].from
          /\ req'[p].target = req[p].target /\ req'[p].change = req[p].change
          /\ p = r => req'[p].stale = req[p].stale
      BY <2>1, OpenFields
    <2>4. p # r => (req'[p].stale <=> req[p].stale \/ req[p].from = t)
      BY <2>1, <2>2, OpenFields, ZenonT(60)
    <2>5. QED
      BY <1>1, <2>2, <2>3, <2>4
  <1>8. ASSUME NEW p \in Requests PROVE Right(req[p])' /\ Own(req[p])'
    <2>1. Right(req[p]) /\ Own(req[p])
      BY AddUpFacts
    <2>2. Own(req[p])'
      BY <1>4, <1>7, <2>1 DEF Own, Changing
    <2>3. ~req'[p].stale => ~req[p].stale
      BY <1>7
    <2>4. Changing(req'[p]) <=> Changing(req[p])
      BY <1>4, <1>7 DEF Changing
    <2>5. Right(req[p])'
      BY <1>4, <1>7, <2>1, <2>3, <2>4 DEF Right
    <2>6. QED
      BY <2>2, <2>5
  <1>9. ASSUME NEW p \in Requests PROVE WriterKnows(p)'
    <2>1. SUFFICES ASSUME req'[p].pc = "write" PROVE WriterKnows(p)'
      BY DEF WriterKnows
    <2>2. CASE p = r
      <3>1. req'[p].target = a /\ file'[a] = f /\ req'[p].at = 0 /\ req'[p].opts = o
        BY <1>1, <1>5, <1>7, <2>2
      <3>2. \A x \in Requests \ {p} : req'[x].from = a => req'[x].stale
        BY <1>7, <2>2
      <3>3. QED
        BY <1>3, <2>2, <3>1, <3>2 DEF WriterKnows
    <2>3. CASE p # r
      <3>1. /\ req[p].pc = "write" /\ req'[p].target = req[p].target /\ WriterKnows(p)
            /\ Own(req[p]) /\ Formed(req[p])
        BY <1>7, <2>1, <2>3, AddUpFacts
      <3>2. PICK b \in Albums : b = req[p].target
        BY <3>1 DEF Formed
      <3>3. ~req'[p].stale => b # a /\ ~req[p].stale
        BY <1>7, <2>3, <3>1, <3>2 DEF Own, Changing
      <3>4. \A x \in Requests : req[x].pc # "idle" /\ req[x].stale => req'[x].stale
        BY <1>7
      <3>5. \A x \in Requests : req'[x].pc # "idle" => req[x].pc # "idle"
        BY <1>4, <1>7
      <3>6. /\ req'[p].at = req[p].at /\ req'[p].opts = req[p].opts
            /\ \A x \in Requests : req'[x].from = req[x].from
        BY <1>7, <2>3
      <3>7. CASE b = a
        <4>1. req'[p].stale /\ file'[b].by = r
          BY <1>3, <1>5, <3>3, <3>7
        <4>2. QED
          BY <2>3, <3>1, <3>2, <4>1 DEF WriterKnows
      <3>8. CASE b # a
        <4>1. file'[b] = file[b]
          BY <1>5, <3>8
        <4>2. QED
          BY <3>1, <3>2, <3>3, <3>4, <3>5, <3>6, <4>1 DEF WriterKnows
      <3>9. QED
        BY <3>7, <3>8
    <2>4. QED
      BY <2>2, <2>3
  <1>10. ASSUME NEW b \in Albums PROVE Unspoiled(b)'
    <2>1. Unspoiled(b) /\ file'[b] = IF b = a THEN f ELSE file[b]
      BY <1>5 DEF AddUpInv
    <2>2. \A p \in Requests : Writing(p, b) => Writing(p, b)' /\ (req[p].stale => req'[p].stale)
      BY <1>4, <1>7 DEF Writing
    <2>3. CASE b = a
      <3>1. Writing(r, b)'
        BY <1>1, <1>7, <2>3 DEF Writing
      <3>2. ~Complete(f)
        BY <1>3 DEF Complete
      <3>3. QED
        BY <1>3, <2>1, <2>3, <3>1, <3>2 DEF Unspoiled, Complete
    <2>4. CASE b # a
      BY <1>4, <2>1, <2>2, <2>4 DEF Unspoiled, Complete
    <2>5. QED
      BY <2>3, <2>4
  <1>11. QED
    BY <1>6, <1>8, <1>9, <1>10 DEF AddUpInv

(* What the next lines, the last ones included, do to the file.            *)
LEMMA AddUpWritten ==
  ASSUME AddUpInv, NEW r \in Requests, NEW a \in Albums, Writing(r, a),
         NEW g, g = Written(file[a], r), file' = [file EXCEPT ![a] = g]
  PROVE  /\ \A b \in Albums : b # a => file'[b] = file[b]
         /\ file'[a].by = file[a].by
         /\ file[a].by = r /\ ~file[a].mixed =>
              /\ ~file'[a].mixed /\ file'[a].upto = req[r].at + 1
              /\ file'[a].data = req[r].opts
         /\ file'[a].mixed => file[a].mixed \/ req[r].stale
         /\ file[a].mixed => file'[a].mixed
         /\ file[a].by # r => file'[a].mixed
  <1>1. /\ file[a] \in File /\ req[r] \in Request /\ WriterKnows(r)
        /\ req[r].pc = "write" /\ a = req[r].target
    BY AddUpFacts DEF Writing
  <1>2. (\A b \in Albums : b # a => file'[b] = file[b]) /\ file'[a] = g
    BY <1>1, AddUpFacts
  <1>3. /\ g.by = file[a].by
        /\ file[a].by = r /\ file[a].upto = req[r].at /\ ~file[a].mixed =>
             ~g.mixed /\ g.upto = req[r].at + 1 /\ g.data = file[a].data
        /\ ~(file[a].by = r /\ file[a].upto = req[r].at /\ ~file[a].mixed) => g.mixed
    BY <1>1, WrittenFields
  <1>4. /\ file[a].by = r /\ ~file[a].mixed =>
             file[a].upto = req[r].at /\ file[a].data = req[r].opts
        /\ ~req[r].stale => file[a].by = r
    BY <1>1 DEF WriterKnows
  <1>5. QED
    BY <1>1, <1>2, <1>3, <1>4

LEMMA AddUpWrite ==
  ASSUME AddUpInv, NEW r \in Requests, Write(r)
  PROVE  AddUpInv'
  <1>1. ShownInv
    BY AddUpFacts
  <1>2. PICK q : /\ Becomes(r, q) /\ Sound(q)
                 /\ q.pc = "write" /\ q.at = req[r].at + 1 /\ q.target = req[r].target
                 /\ q.opts = req[r].opts /\ q.from = req[r].from
                 /\ q.change = req[r].change /\ q.stale = req[r].stale
    BY <1>1, WriteFields
  <1>3. PICK a \in Albums : a = req[r].target
    BY <1>1, WriteFields
  <1>4. /\ req[r].pc = "write" /\ req[r].at < 2
        /\ \E g : g = Written(file[a], r) /\ file' = [file EXCEPT ![a] = g]
        /\ UNCHANGED <<intended, spoiled>>
    BY <1>1, <1>3, WriteFields
  <1>5. ASSUME NEW b \in Albums
        PROVE  /\ b # a => file'[b] = file[b]
               /\ file'[b].by = file[b].by
               /\ file[a].by = r /\ ~file[a].mixed =>
                    /\ ~file'[a].mixed /\ file'[a].upto = req[r].at + 1
                    /\ file'[a].data = req[r].opts
               /\ file'[a].mixed => file[a].mixed \/ req[r].stale
               /\ file[a].mixed => file'[a].mixed
               /\ file[a].by # r => file'[a].mixed
    <2>1. PICK g : g = Written(file[a], r) /\ file' = [file EXCEPT ![a] = g]
      BY <1>4
    <2>2. /\ file[a].by = r /\ ~file[a].mixed =>
               /\ ~file'[a].mixed /\ file'[a].upto = req[r].at + 1
               /\ file'[a].data = req[r].opts
          /\ file'[a].mixed => file[a].mixed \/ req[r].stale
          /\ file[a].mixed => file'[a].mixed
          /\ file[a].by # r => file'[a].mixed
          /\ \A c \in Albums : c # a => file'[c] = file[c]
          /\ file'[a].by = file[a].by
      <3>1. Writing(r, a)
        BY <1>3, <1>4 DEF Writing
      <3>2. QED
        BY <2>1, <3>1, AddUpWritten
    <2>3. QED
      BY <2>2
  <1>6. ShownInv'
    BY <1>1, ShownStep DEF Serve
  <1>7. ASSUME NEW p \in Requests PROVE req'[p] = IF p = r THEN q ELSE req[p]
    BY <1>2 DEF Becomes, AddUpInv, ShownInv, TypeOK
  <1>8. ASSUME NEW p \in Requests
        PROVE  /\ req'[p].pc = req[p].pc /\ req'[p].opts = req[p].opts
               /\ req'[p].from = req[p].from /\ req'[p].target = req[p].target
               /\ req'[p].change = req[p].change /\ req'[p].stale = req[p].stale
               /\ p # r => req'[p].at = req[p].at
    BY <1>2, <1>4, <1>7
  <1>9. ASSUME NEW p \in Requests PROVE Right(req[p])' /\ Own(req[p])'
    <2>1. Right(req[p]) /\ Own(req[p])
      BY AddUpFacts
    <2>2. QED
      BY <1>4, <1>8, <2>1 DEF Right, Own, Changing
  <1>10. ASSUME NEW p \in Requests PROVE WriterKnows(p)'
    <2>1. SUFFICES ASSUME req'[p].pc = "write" PROVE WriterKnows(p)'
      BY DEF WriterKnows
    <2>2. /\ req[p].pc = "write" /\ WriterKnows(p) /\ req[p].target \in Albums
      BY <1>8, <2>1, AddUpFacts DEF Formed
    <2>3. PICK b \in Albums : b = req[p].target
      BY <2>2
    <2>4. ASSUME file'[b].by = p, ~file'[b].mixed
          PROVE  file'[b].upto = req'[p].at /\ file'[b].data = req'[p].opts
      <3>1. CASE p = r
        BY <1>2, <1>3, <1>5, <1>7, <2>3, <2>4, <3>1
      <3>2. CASE p # r /\ b = a
        BY <1>5, <2>3, <2>4, <3>2
      <3>3. CASE p # r /\ b # a
        BY <1>5, <1>8, <2>2, <2>3, <2>4, <3>3 DEF WriterKnows
      <3>4. QED
        BY <3>1, <3>2, <3>3
    <2>5. ~req'[p].stale => file'[b].by = p
      BY <1>5, <1>8, <2>2, <2>3 DEF WriterKnows
    <2>6. ASSUME ~req'[p].stale, NEW x \in Requests \ {p},
                 req'[x].pc # "idle", req'[x].from = b
          PROVE  req'[x].stale
      BY <1>8, <2>2, <2>3, <2>6 DEF WriterKnows
    <2>7. QED
      BY <1>8, <2>3, <2>4, <2>5, <2>6 DEF WriterKnows
  <1>11. ASSUME NEW b \in Albums PROVE Unspoiled(b)'
    <2>1. Unspoiled(b)
      BY DEF AddUpInv
    <2>2. \A p \in Requests : Writing(p, b)' <=> Writing(p, b)
      BY <1>8 DEF Writing
    <2>3. CASE b = a
      <3>1. Writing(r, b)' /\ req'[r].stale = req[r].stale
        BY <1>3, <1>4, <1>8, <2>3 DEF Writing
      <3>2. ~Complete(file'[a])
        <4>1. req[r].at + 1 # 3
          BY <1>1, <1>4, ReqFacts DEF Request
        <4>2. QED
          BY <1>5, <4>1 DEF Complete
      <3>3. QED
        BY <1>4, <1>5, <1>8, <2>1, <2>2, <2>3, <3>1, <3>2 DEF Unspoiled, Complete
    <2>4. CASE b # a
      BY <1>4, <1>5, <1>8, <2>1, <2>2, <2>4 DEF Unspoiled, Complete
    <2>5. QED
      BY <2>3, <2>4
  <1>12. QED
    BY <1>6, <1>9, <1>10, <1>11 DEF AddUpInv

LEMMA AddUpClose ==
  ASSUME AddUpInv, NEW r \in Requests, Close(r)
  PROVE  AddUpInv'
  <1>1. ShownInv
    BY AddUpFacts
  <1>2. PICK q : /\ Becomes(r, q) /\ Sound(q)
                 /\ q.pc \in {"page", "restore", "readback"}
                 /\ q.opts = req[r].opts /\ q.from = req[r].from /\ q.stale = req[r].stale
    BY <1>1, CloseFields
  <1>3. PICK a \in Albums : a = req[r].target
    BY <1>1, CloseFields
  <1>4. /\ req[r].pc = "write" /\ req[r].at = 2 /\ Writing(r, a) /\ req[r].from = a
        /\ \E g : g = Written(file[a], r) /\ file' = [file EXCEPT ![a] = g]
        /\ intended' = [intended EXCEPT ![a] = Apply(req[r].change, @)]
        /\ spoiled' = IF req[r].stale THEN spoiled \cup {a} ELSE spoiled
    BY <1>1, <1>3, CloseFields, AddUpFacts DEF Writing, Own, Changing
  <1>5. /\ file[a].by = r /\ ~file[a].mixed =>
             /\ ~file'[a].mixed /\ file'[a].upto = 3
             /\ file'[a].data = req[r].opts
        /\ file'[a].mixed => file[a].mixed \/ req[r].stale
        /\ file[a].mixed => file'[a].mixed
        /\ file[a].by # r => file'[a].mixed
        /\ \A c \in Albums : c # a => file'[c] = file[c]
        /\ file'[a].by = file[a].by
    <2>1. PICK g : g = Written(file[a], r) /\ file' = [file EXCEPT ![a] = g]
      BY <1>4
    <2>2. /\ file[a].by = r /\ ~file[a].mixed =>
               /\ ~file'[a].mixed /\ file'[a].upto = req[r].at + 1
               /\ file'[a].data = req[r].opts
          /\ file'[a].mixed => file[a].mixed \/ req[r].stale
          /\ file[a].mixed => file'[a].mixed
          /\ file[a].by # r => file'[a].mixed
          /\ \A c \in Albums : c # a => file'[c] = file[c]
          /\ file'[a].by = file[a].by
      <3>1. Writing(r, a)
        BY <1>4
      <3>2. QED
        BY <2>1, <3>1, AddUpWritten
    <2>3. req[r].at + 1 = 3
      BY <1>4
    <2>4. QED
      BY <2>2, <2>3
  <1>6. \A b \in Albums :
          intended'[b] = IF b = a THEN Apply(req[r].change, intended[a]) ELSE intended[b]
    BY <1>4, AddUpFacts
  <1>7. ShownInv'
    BY <1>1, ShownStep DEF Serve
  <1>8. ASSUME NEW p \in Requests
        PROVE  /\ p = r => req'[p].pc \in {"page", "restore", "readback"}
               /\ p # r => req'[p] = req[p]
               /\ req'[p].opts = req[p].opts /\ req'[p].from = req[p].from
               /\ req'[p].stale = req[p].stale
    <2>1. req'[p] = IF p = r THEN q ELSE req[p]
      BY <1>2 DEF Becomes, AddUpInv, ShownInv, TypeOK
    <2>2. QED
      BY <1>2, <2>1
  <1>9. ASSUME NEW p \in Requests PROVE Right(req[p])' /\ Own(req[p])'
    <2>1. Right(req[p]) /\ Own(req[p]) /\ WriterKnows(r) /\ Formed(req[p])
      BY AddUpFacts
    <2>2. CASE p = r
      BY <1>4, <1>6, <1>8, <2>1, <2>2 DEF Right, Own, Changing
    <2>3. CASE p # r /\ req[p].from = a
      <3>1. req[p].pc # "idle" /\ ~req[p].stale => a \in spoiled'
        BY <1>3, <1>4, <2>1, <2>3 DEF WriterKnows
      <3>2. QED
        BY <1>8, <2>1, <2>3, <3>1 DEF Right, Own
    <2>4. CASE p # r /\ req[p].from # a
      <3>1. req'[p] = req[p] /\ (req[p].from \notin spoiled' => req[p].from \notin spoiled)
        BY <1>4, <1>8, <2>4
      <3>2. req[p].pc # "idle" => intended'[req[p].from] = intended[req[p].from]
        BY <1>6, <2>1, <2>4 DEF Formed
      <3>3. QED
        BY <2>1, <3>1, <3>2 DEF Right, Own
    <2>5. QED
      BY <2>2, <2>3, <2>4
  <1>10. ASSUME NEW p \in Requests PROVE WriterKnows(p)'
    <2>1. SUFFICES ASSUME req'[p].pc = "write" PROVE WriterKnows(p)'
      BY DEF WriterKnows
    <2>2. p # r /\ req'[p] = req[p] /\ WriterKnows(p) /\ req[p].target \in Albums
      BY <1>8, <2>1, AddUpFacts DEF Formed
    <2>3. PICK b \in Albums : b = req[p].target
      BY <2>2
    <2>4. ASSUME file'[b].by = p, ~file'[b].mixed
          PROVE  file'[b].upto = req[p].at /\ file'[b].data = req[p].opts
      <3>1. CASE b = a
        BY <1>5, <2>2, <2>4, <3>1
      <3>2. CASE b # a
        BY <1>5, <2>1, <2>2, <2>3, <2>4, <3>2 DEF WriterKnows
      <3>3. QED
        BY <3>1, <3>2
    <2>5. ~req[p].stale => file'[b].by = p
      BY <1>5, <2>1, <2>2, <2>3 DEF WriterKnows
    <2>6. ASSUME ~req[p].stale, NEW x \in Requests \ {p},
                 req'[x].pc # "idle", req'[x].from = b
          PROVE  req'[x].stale
      BY <1>4, <1>8, <2>1, <2>2, <2>3, <2>6 DEF WriterKnows
    <2>7. QED
      BY <2>2, <2>3, <2>4, <2>5, <2>6 DEF WriterKnows
  <1>11. ASSUME NEW b \in Albums PROVE Unspoiled(b)'
    <2>1. Unspoiled(b) /\ Right(req[r]) /\ WriterKnows(r)
      BY AddUpFacts DEF AddUpInv
    <2>2. \A p \in Requests \ {r} : Writing(p, b) => Writing(p, b)' /\ req'[p] = req[p]
      BY <1>8 DEF Writing
    <2>3. SUFFICES ASSUME b \notin spoiled' PROVE Unspoiled(b)'
      BY DEF Unspoiled
    <2>4. b \notin spoiled
      BY <1>4, <2>3
    <2>5. CASE b = a
      <3>1. ~req[r].stale
        BY <1>4, <2>3, <2>5
      <3>2. file[a].by = r
        BY <1>3, <1>4, <2>1, <3>1 DEF WriterKnows
      <3>3. file[a].mixed => \E p \in Requests : Writing(p, b)' /\ req'[p].stale
        BY <2>1, <2>2, <2>4, <2>5, <3>1 DEF Unspoiled
      <3>4. ~file[a].mixed => Complete(file'[a]) /\ file'[a].data = intended'[a]
        <4>1. req[r].opts = Apply(req[r].change, intended[a])
          BY <1>4, <2>1, <2>4, <2>5, <3>1 DEF Right, Changing
        <4>2. QED
          BY <1>5, <1>6, <3>2, <4>1 DEF Complete
      <3>5. Complete(file'[a]) => ~file[a].mixed
        BY <1>5 DEF Complete
      <3>6. file'[a].mixed => file[a].mixed
        BY <1>5, <3>1
      <3>7. QED
        BY <2>5, <3>3, <3>4, <3>5, <3>6 DEF Unspoiled, Complete
    <2>6. CASE b # a
      <3>1. ~Writing(r, b)
        BY <1>4, <2>6 DEF Writing
      <3>2. file'[b] = file[b] /\ intended'[b] = intended[b]
        BY <1>5, <1>6, <2>6
      <3>3. QED
        BY <2>1, <2>2, <2>4, <3>1, <3>2 DEF Unspoiled, Complete
    <2>7. QED
      BY <2>5, <2>6
  <1>12. QED
    BY <1>7, <1>9, <1>10, <1>11 DEF AddUpInv

LEMMA AddUpCrash ==
  ASSUME AddUpInv, NEW r \in Requests, Crash(r), req[r].pc = "write"
  PROVE  AddUpInv'
  <1>1. PICK a \in Albums : a = req[r].target /\ Writing(r, a)
    BY AddUpFacts DEF Formed, Writing
  <1>2. UNCHANGED <<file, intended>> /\ spoiled' = spoiled \cup {a}
    BY <1>1 DEF Crash
  <1>3. ShownInv'
    BY AddUpFacts, ShownStep DEF Serve
  <1>4. ASSUME NEW p \in Requests
        PROVE  (p = r => req'[p].pc = "idle") /\ (p # r => req'[p] = req[p])
    <2>1. req'[p] = IF p = r THEN Idle ELSE req[p]
      BY DEF Crash, Becomes, AddUpInv, ShownInv, TypeOK
    <2>2. QED
      BY <2>1, IdleType
  <1>5. ASSUME NEW p \in Requests PROVE Right(req[p])' /\ Own(req[p])'
    <2>1. Right(req[p]) /\ Own(req[p])
      BY AddUpFacts
    <2>2. CASE p = r
      BY <1>4, <2>2 DEF Right, Own, Changing
    <2>3. CASE p # r
      BY <1>2, <1>4, <2>1, <2>3 DEF Right, Own
    <2>4. QED
      BY <2>2, <2>3
  <1>6. ASSUME NEW p \in Requests PROVE WriterKnows(p)'
    <2>1. WriterKnows(p)
      BY AddUpFacts
    <2>2. QED
      BY <1>2, <1>4, <2>1 DEF WriterKnows
  <1>7. ASSUME NEW b \in Albums PROVE Unspoiled(b)'
    <2>1. Unspoiled(b)
      BY DEF AddUpInv
    <2>2. CASE b = a
      BY <1>2, <2>2 DEF Unspoiled
    <2>3. CASE b # a
      <3>1. \A p \in Requests : Writing(p, b) => p # r /\ Writing(p, b)' /\ req'[p] = req[p]
        BY <1>1, <1>4, <2>3 DEF Writing
      <3>2. QED
        BY <1>2, <2>1, <2>3, <3>1 DEF Unspoiled, Complete
    <2>4. QED
      BY <2>2, <2>3
  <1>8. QED
    BY <1>3, <1>5, <1>6, <1>7 DEF AddUpInv

LEMMA AddUpInit == Init => AddUpInv
  <1> SUFFICES ASSUME Init PROVE AddUpInv
    OBVIOUS
  <1>1. ShownInv /\ spoiled = {}
    BY ShownInit DEF Init
  <1>2. ASSUME NEW r \in Requests PROVE Right(req[r]) /\ Own(req[r]) /\ WriterKnows(r)
    <2>1. req[r].pc = "idle"
      BY IdleType DEF Init
    <2>2. QED
      BY <2>1 DEF Right, Own, Changing, WriterKnows
  <1>3. ASSUME NEW a \in Albums PROVE Unspoiled(a)
    <2>1. file[a] = Whole(intended[a])
      BY DEF Init
    <2>2. intended[a] \in Options
      BY <1>1 DEF ShownInv, TypeOK
    <2>3. Complete(file[a]) /\ ~file[a].mixed /\ file[a].data = intended[a]
      BY <2>1, <2>2, WholeFields
    <2>4. QED
      BY <2>2, <2>3 DEF Unspoiled, Complete
  <1>4. QED
    BY <1>1, <1>2, <1>3 DEF AddUpInv

LEMMA AddUpNext == NoLinks /\ AddUpInv /\ [Next]_vars => AddUpInv'
  <1> SUFFICES ASSUME NoLinks, AddUpInv, [Next]_vars PROVE AddUpInv'
    OBVIOUS
  <1>1. CASE Next
    <2>1. PICK r \in Requests : Serve(r)
      BY <1>1 DEF Next
    <2>2. Quietly(r) \/ Open(r) \/ Write(r) \/ Close(r) \/ (Crash(r) /\ req[r].pc = "write")
      BY <2>1 DEF Serve, Quietly
    <2>3. QED
      BY <2>2, AddUpQuiet, AddUpOpen, AddUpWrite, AddUpClose, AddUpCrash
  <1>2. CASE UNCHANGED vars
    <2>1. ShownInv'
      BY <1>2, ShownNext DEF AddUpInv
    <2>2. QED
      BY <1>2, <2>1 DEF vars, AddUpInv, Right, Own, WriterKnows, Unspoiled, Writing, Complete
  <1>3. QED
    BY <1>1, <1>2

(* When no album is a link, the file of an album holds what the changes    *)
(* made to it add up to, as long as each was made alone, whatever the      *)
(* requests read, write and overwrite in the other albums meanwhile.       *)
THEOREM ChangesAddUpAlone == ASSUME NoLinks PROVE Spec => []ChangesAddUp
  <1>1. AddUpInv => ChangesAddUp
    BY DEF AddUpInv, Unspoiled, ChangesAddUp
  <1>2. AddUpInv /\ [Next]_vars => AddUpInv'
    BY AddUpNext
  <1>3. QED
    BY <1>1, <1>2, AddUpInit, PTL DEF Spec
=============================================================================
