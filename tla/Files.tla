-------------------------------- MODULE Files --------------------------------
(***************************************************************************)
(* The file manager (web, FilesApp) over the commands of the Debian        *)
(* adapter (core): what the window shows is the answer to a listing asked  *)
(* some time ago, what the user confirms is decided on what the window     *)
(* shows, and what is then done on the host is done later, by requests     *)
(* that run beside each other.  A command denied is asked for again in the *)
(* elevation dialog (useElevation), more than once if the user hits Enter  *)
(* more than once, and such a retry may run after its operation is over.   *)
(* The window may be closed or minimised, and opened again as a new one,   *)
(* while the requests of the old one are on their way.                     *)
(*                                                                         *)
(* A file is a path - a directory and a name - with a content.  A name is  *)
(* a base and the "(n)" suffixes "Keep both" gave it.  The operands of     *)
(* the commands are files; directories are only where they are.            *)
(***************************************************************************)
EXTENDS Integers, Sequences, FiniteSets

CONSTANTS
  Plans,       \* the combinations of kinds of choice and of trouble in one behaviour
  Dirs,        \* directories the user moves between
  Home,        \* the one a window opens on
  Bases,       \* names a file can be given
  Lists,       \* listings that can be outstanding at once
  Ops,         \* operations, each used once
  Requests,    \* requests for a command that can be outstanding at once
  MaxWindow,   \* bound on the times the window is opened
  None         \* null

ASSUME NoneAssumption == None \notin Dirs \cup Bases \cup Lists \cup Requests
ASSUME FiniteAssumption == IsFiniteSet(Dirs) /\ IsFiniteSet(Bases)
ASSUME HomeAssumption == Home \in Dirs
ASSUME MaxWindowAssumption == MaxWindow \in Nat \ {0}

VARIABLES
  plan,        \* the kinds of choice and of trouble of this behaviour (a bound)
  fs,          \* the files of the host: contents by path
  window,      \* the window: FilesApp as it was mounted the n-th time
  path,        \* the directory shown
  entries,     \* the names shown
  error,       \* the listing failed
  list,        \* the outstanding listings
  active,      \* the one whose effect has not been cleaned up
  clipboard,
  dialog,      \* the name dialog or the delete confirmation
  conflict,    \* the Replace / Keep both / Cancel dialog
  upload,      \* the upload whose file the browser is reading
  op,          \* the operations: the commands still to do, and the path the user agreed to
               \* delete or replace; one is "asking" while the refs of useElevation hold it
  req,         \* the requests, and who hears the answer: the operation that waits for its
               \* first request, the elevation dialog for a retry, or nobody any more
  unseen       \* the requests that changed the files since the window last asked for a
               \* listing, while their answers are on their way; None for those answered
               \* otherwise than by a success that the window was told of (history)

screen == <<window, path, entries, error, list, active>>
choices == <<plan, clipboard, dialog, conflict, upload>>
work == <<op, req, unseen>>
vars == <<fs, screen, choices, work>>

Name == Seq(Bases \cup Nat)
Path == Dirs \X Name
Content == Path \cup {<<"new">>, <<"uploaded">>, <<"partial">>}
Windows == 1..MaxWindow

Idle == [state |-> "idle", dir |-> None, names |-> {}]
NoRequest == [state |-> "idle", op |-> None, cmd |-> None, heard |-> "nobody", answer |-> "none"]
Unused == [state |-> "idle", window |-> 1, todo |-> <<>>, agreed |-> None]
NamesIn(d) == {p[2] : p \in {q \in DOMAIN fs : q[1] = d}}

NameSets == {N \in SUBSET Name : IsFiniteSet(N)}
Listing == [state : {"idle", "sent", "served"}, dir : Dirs \cup {None}, names : NameSets]
Clipping == [from : Path, cmd : {"move", "copy"}]
Dialog == [kind : {"newFile", "rename", "delete"}, target : Name]
Intent == [cmd : {"move", "copy", "create", "write"}, from : Path \cup {None}, dir : Dirs, name : Name]
Question == [intent : Intent, existing : NameSets, window : Windows]
Command == [cmd : {"move", "copy", "create", "write", "remove"}, from : Path \cup {None}, to : Path]
Operation == [state : {"idle", "waiting", "asking", "done", "hung"}, window : Windows,
              todo : Seq(Command), agreed : Path \cup {None}]
Request == [state : {"sent", "ran"}, op : Ops, cmd : Command,
            heard : {"operation", "dialog", "nobody"}, answer : {"none", "ok", "failed", "denied"}]

ASSUME NoneOfTheseAssumption == None \notin Clipping \cup Dialog \cup Question

FilesOK ==
  DOMAIN fs \subseteq Path /\ IsFiniteSet(DOMAIN fs) /\ \A p \in DOMAIN fs : fs[p] \in Content

ScreenOK ==
  /\ window \in Windows
  /\ path \in Dirs
  /\ entries \in NameSets
  /\ error \in BOOLEAN
  /\ list \in [Lists -> Listing]
  /\ active \in Lists \cup {None}

ChoicesOK ==
  /\ plan \in Plans
  /\ clipboard \in Clipping \cup {None}
  /\ dialog \in Dialog \cup {None}
  /\ conflict \in Question \cup {None}
  /\ conflict # None => conflict.intent.name \in conflict.existing
  /\ upload \in Question \cup {None}

WorkOK ==
  /\ op \in [Ops -> Operation]
  /\ \A o \in Ops : /\ Len(op[o].todo) <= 2
                   /\ op[o].state \in {"waiting", "asking"} <=> op[o].todo # <<>>
  /\ req \in [Requests -> Request \cup {NoRequest}]
  /\ unseen \subseteq Requests \cup {None}

TypeOK == FilesOK /\ ScreenOK /\ ChoicesOK /\ WorkOK

\* The same names in every directory; the window opens on Home and asks for it.
Init ==
  /\ plan \in Plans
  /\ window = 1
  /\ path = Home
  /\ fs = [p \in Dirs \X {<<b>> : b \in Bases} |-> p]
  /\ entries = {}
  /\ error = FALSE
  /\ active \in Lists
  /\ list = [l \in Lists |->
               IF l = active THEN [state |-> "sent", dir |-> path, names |-> {}] ELSE Idle]
  /\ clipboard = None /\ dialog = None /\ conflict = None /\ upload = None
  /\ op = [o \in Ops |-> Unused]
  /\ req = [q \in Requests |-> NoRequest]
  /\ unseen = {}

----------------------------------------------------------------------------
(* Listing.                                                                *)

\* The effect on [path, tick]: the listing before is cleaned up, a new one is asked.
Ask(d) ==
  /\ \E l \in Lists :
       /\ list[l].state = "idle"
       /\ list' = [list EXCEPT ![l] = [state |-> "sent", dir |-> d, names |-> {}]]
       /\ active' = l
  /\ error' = FALSE
  /\ unseen' = {}

Load(d) == Ask(d) /\ path' = d /\ UNCHANGED <<window, entries>>

\* The operation whose action and resolve the refs of useElevation hold in window w.
Asking(o, w) == op[o].state = "asking" /\ op[o].window = w

\* The window can be used while no dialog is in front of it.
Elevating == \E o \in Ops : Asking(o, window)
Usable == dialog = None /\ conflict = None /\ ~Elevating

\* Bound: a choice is of a kind in the plan, and begun only while an operation is left to
\* carry it out.
CanAct(kind) == kind \in plan /\ Usable /\ \E o \in Ops : op[o].state = "idle"

Navigate(d) ==
  /\ Usable /\ d # path
  /\ Load(d)
  /\ UNCHANGED <<fs, choices, op, req>>

Refresh ==
  /\ Usable
  /\ Load(path)
  /\ UNCHANGED <<fs, choices, op, req>>

\* The window is closed or minimised, which unmounts FilesApp, and opened again: nothing is
\* left of it, but what it sent is on its way and what it was reading is read.
Reopen ==
  /\ "reopen" \in plan /\ Usable /\ window < MaxWindow
  /\ window' = window + 1
  /\ path' = Home
  /\ entries' = {}
  /\ Ask(Home)
  /\ clipboard' = None
  /\ UNCHANGED <<fs, plan, dialog, conflict, upload, op, req>>

\* find runs on the host.
ServeListing(l) ==
  /\ list[l].state = "sent"
  /\ list' = [list EXCEPT ![l].state = "served", ![l].names = NamesIn(list[l].dir)]
  /\ UNCHANGED <<fs, window, path, entries, error, active, choices, work>>

\* Mutant of ShowListing: without the test of active.
ShowAnyListing(l) ==
  /\ list[l].state = "served"
  /\ list' = [list EXCEPT ![l] = Idle]
  /\ active' = IF l = active THEN None ELSE active
  /\ \/ entries' = list[l].names /\ UNCHANGED error
     \/ error' = TRUE /\ UNCHANGED entries
  /\ UNCHANGED <<fs, window, path, choices, work>>

\* The answer arrives, the names or an error (find failed, or the request did); it is
\* shown if its effect is the active one.
ShowListing(l) ==
  /\ list[l].state = "served"
  /\ list' = [list EXCEPT ![l] = Idle]
  /\ IF l # active THEN UNCHANGED <<entries, error, active>>
     ELSE /\ active' = None
          /\ \/ entries' = list[l].names /\ UNCHANGED error
             \/ error' = TRUE /\ UNCHANGED entries
  /\ UNCHANGED <<fs, window, path, choices, work>>

----------------------------------------------------------------------------
(* What the user asks for.                                                 *)

\* A name not in existing: the least "(n)", from 2.
uniqueName(name, existing) ==
  IF name \notin existing THEN name
  ELSE LET free == {n \in 2..Cardinality(existing) + 2 : Append(name, n) \notin existing}
       IN  Append(name, CHOOSE n \in free : \A m \in free : n <= m)

\* The commands an intent comes to under the name it is finally given.
Commands(i, name) == <<[cmd |-> i.cmd, from |-> i.from, to |-> <<i.dir, name>>]>>

\* Replace: move, copy and touch do not clobber, so the file in the way is removed first;
\* an upload truncates it.
ReplaceCommands(i) ==
  IF i.cmd = "write" THEN Commands(i, i.name)
  ELSE <<[cmd |-> "remove", from |-> None, to |-> <<i.dir, i.name>>]>> \o Commands(i, i.name)

\* A request for a command, in the name of an operation.
Sent(o, c, heard) == [state |-> "sent", op |-> o, cmd |-> c, heard |-> heard, answer |-> "none"]

\* runVoid: the operation begins with its first command.
Issue(todo, agreed, w) ==
  /\ \E o \in Ops, q \in Requests :
       /\ op[o].state = "idle" /\ req[q].state = "idle"
       /\ op' = [op EXCEPT ![o] = [state |-> "waiting", window |-> w, todo |-> todo, agreed |-> agreed]]
       /\ req' = [req EXCEPT ![q] = Sent(o, Head(todo), "operation")]
  /\ UNCHANGED unseen

\* withConflict: by the names shown when the closure was made, not by those on the host.  A
\* question of a window that is gone is not asked.
withConflict(i, existing, w) ==
  IF i.name \notin existing
  THEN Issue(Commands(i, i.name), None, w) /\ UNCHANGED conflict
  ELSE /\ conflict' = IF w = window THEN [intent |-> i, existing |-> existing, window |-> w]
                      ELSE conflict
       /\ UNCHANGED work

\* The Cut and Copy items of an entry.
Clip(name, cmd) ==
  /\ CanAct("paste") /\ name \in entries
  /\ clipboard' = [from |-> <<path, name>>, cmd |-> cmd]
  /\ UNCHANGED <<fs, screen, plan, dialog, conflict, upload, work>>

\* paste: a cut is forgotten whatever becomes of it.
Paste ==
  /\ CanAct("paste") /\ clipboard # None
  /\ clipboard' = IF clipboard.cmd = "move" THEN None ELSE clipboard
  /\ withConflict([cmd |-> clipboard.cmd, from |-> clipboard.from, dir |-> path,
                   name |-> clipboard.from[2]], entries, window)
  /\ UNCHANGED <<fs, screen, plan, dialog, upload>>

\* New file, or Rename or Delete of an entry shown now.
OpenDialog(kind, name) ==
  /\ CanAct(kind)
  /\ IF kind = "newFile" THEN name = <<>> ELSE name \in entries
  /\ dialog' = [kind |-> kind, target |-> name]
  /\ UNCHANGED <<fs, screen, plan, clipboard, conflict, upload, work>>

\* The dialog can be answered while no other was put in front of it.
InFront == dialog # None /\ conflict = None /\ ~Elevating

\* submitDialog: the names may have changed since the dialog was opened.
SubmitDialog(name) ==
  LET renames == dialog.kind = "rename" IN
  /\ InFront
  /\ dialog.kind \in {"newFile", "rename"}
  /\ dialog' = None
  /\ IF renames /\ dialog.target = name
     THEN UNCHANGED <<work, conflict>>
     ELSE withConflict([cmd |-> IF renames THEN "move" ELSE "create",
                        from |-> IF renames THEN <<path, dialog.target>> ELSE None,
                        dir |-> path, name |-> name], entries, window)
  /\ UNCHANGED <<fs, screen, plan, clipboard, upload>>

ConfirmDelete ==
  /\ InFront
  /\ dialog.kind = "delete"
  /\ dialog' = None
  /\ LET target == <<path, dialog.target>>
     IN  Issue(<<[cmd |-> "remove", from |-> None, to |-> target]>>, target, window)
  /\ UNCHANGED <<fs, screen, plan, clipboard, conflict, upload>>

CancelDialog ==
  /\ InFront
  /\ dialog' = None
  /\ UNCHANGED <<fs, screen, plan, clipboard, conflict, upload, work>>

\* A file is picked: uploadFile has the directory and the names of this moment.
PickUpload(name) ==
  /\ CanAct("upload") /\ upload = None
  /\ upload' = [intent |-> [cmd |-> "write", from |-> None, dir |-> path, name |-> name],
                existing |-> entries, window |-> window]
  /\ UNCHANGED <<fs, screen, plan, clipboard, dialog, conflict, work>>

\* fileToBase64 resolved - possibly over another conflict, which is forgotten - or threw.
UploadRead ==
  /\ upload # None
  /\ upload' = None
  /\ withConflict(upload.intent, upload.existing, upload.window)
  /\ UNCHANGED <<fs, screen, plan, clipboard, dialog>>

UploadUnreadable ==
  /\ upload # None
  /\ upload' = None
  /\ UNCHANGED <<fs, screen, plan, clipboard, dialog, conflict, work>>

KeepBoth ==
  /\ "keepBoth" \in plan /\ conflict # None
  /\ conflict' = None
  /\ Issue(Commands(conflict.intent, uniqueName(conflict.intent.name, conflict.existing)), None, window)
  /\ UNCHANGED <<fs, screen, plan, clipboard, dialog, upload>>

Replace ==
  /\ conflict # None
  /\ conflict' = None
  /\ Issue(ReplaceCommands(conflict.intent), <<conflict.intent.dir, conflict.intent.name>>, window)
  /\ UNCHANGED <<fs, screen, plan, clipboard, dialog, upload>>

CancelConflict ==
  /\ conflict # None
  /\ conflict' = None
  /\ UNCHANGED <<fs, screen, plan, clipboard, dialog, upload, work>>

----------------------------------------------------------------------------
(* What the host does.                                                     *)

Exists(p) == p \in DOMAIN fs

\* Mutant of Skips: mv without -n.
SkipsCopies(c) == c.cmd \in {"copy", "create"} /\ Exists(c.to)

\* mv -n and cp -a -n leave a file in the way as it is; touch does not change one.
Skips(c) == c.cmd \in {"move", "copy", "create"} /\ Exists(c.to)

\* The contents a command brings to its destination.
Brought(c) ==
  CASE c.cmd \in {"move", "copy"} -> fs[c.from]
    [] c.cmd = "create" -> <<"new">>
    [] c.cmd = "write" -> <<"uploaded">>

CanRun(c) == c.cmd \in {"move", "copy"} => Exists(c.from)

\* The files after a command that succeeded.
After(c) ==
  IF c.cmd = "remove" THEN [p \in DOMAIN fs \ {c.to} |-> fs[p]]
  ELSE IF Skips(c) THEN fs
  ELSE LET kept == IF c.cmd = "move" THEN DOMAIN fs \ {c.from} ELSE DOMAIN fs
       IN  [p \in kept \cup {c.to} |-> IF p = c.to THEN Brought(c) ELSE fs[p]]

\* The files after a command that broke off: a copy, or a move to another disk, is there in
\* part, and "> path" has emptied the file before base64 wrote to it.
Partly(c) ==
  IF c.cmd \in {"move", "copy", "write"} /\ ~Skips(c)
  THEN [p \in DOMAIN fs \cup {c.to} |-> IF p = c.to THEN <<"partial">> ELSE fs[p]]
  ELSE fs

\* Whoever changed the files, the window has not asked since.
Note(who) == unseen' = IF fs' = fs THEN unseen ELSE unseen \cup {who}

\* The window will not be told of a success of this request.
Forget(q) == IF q \in unseen THEN (unseen \ {q}) \cup {None} ELSE unseen

\* The command of a request runs, as the user or, for a retry, with elevated rights.  It may
\* be denied or fail, and a failure may leave it undone, done in part or done; a skip is a
\* success or, with some coreutils, a failure.
Run(q) ==
  LET c == req[q].cmd IN
  /\ req[q].state = "sent" /\ req[q].heard # "nobody"
  /\ \E answer \in {"ok", "failed", "denied"} :
       /\ answer = "denied" => "elevate" \in plan
       /\ \/ answer = "ok" /\ CanRun(c) /\ fs' = After(c)
          \/ answer = "failed" /\ "lose" \in plan /\ CanRun(c) /\ fs' \in {After(c), Partly(c)}
          \/ answer \in {"failed", "denied"} /\ fs' = fs
       /\ req' = [req EXCEPT ![q].state = "ran", ![q].answer = answer]
  /\ Note(q)
  /\ UNCHANGED <<screen, choices, op>>

\* One whose answer nobody waits for runs as well, late, or not at all.
RunUnheard(q) ==
  LET c == req[q].cmd IN
  /\ req[q].state = "sent" /\ req[q].heard = "nobody"
  /\ \/ CanRun(c) /\ fs' = After(c)
     \/ CanRun(c) /\ fs' = Partly(c)
     \/ fs' = fs
  /\ req' = [req EXCEPT ![q] = NoRequest]
  /\ Note(None)
  /\ UNCHANGED <<screen, choices, op>>

Ended(o, state) == [op EXCEPT ![o].state = state, ![o].todo = <<>>]

\* Mutant of GoOn: an operation is over with its first command.
GoOnNoFurther(o, q) ==
  op' = [op EXCEPT ![o].state = "done"] /\ req' = [req EXCEPT ![q] = NoRequest]

\* What becomes of an operation whose command succeeded, by the answer to q.
GoOn(o, q) ==
  LET rest == Tail(op[o].todo) IN
  IF rest = <<>>
  THEN op' = Ended(o, "done") /\ req' = [req EXCEPT ![q] = NoRequest]
  ELSE /\ op' = [op EXCEPT ![o].state = "waiting", ![o].todo = rest]
       /\ req' = [req EXCEPT ![q] = Sent(o, Head(rest), "operation")]

\* The promise of run resolves with ok: runVoid reloads - the window, if it is still there -
\* and the operation goes on.
Succeed(o, q) ==
  /\ IF op[o].window = window
     THEN Load(path)
     ELSE unseen' = Forget(q) /\ UNCHANGED screen
  /\ GoOn(o, q)

\* The answer to q changes nothing the window shows.
Dismiss(q) ==
  /\ req' = [req EXCEPT ![q] = NoRequest]
  /\ unseen' = Forget(q)
  /\ UNCHANGED screen

\* The answer to the first request for a command.  Denied, the elevation dialog opens for
\* it - in a window that is gone nobody sees it - and if it was open for another operation,
\* that one is forgotten.  Otherwise (also if /api/privilege failed) a failure ends it.
Answer(q) ==
  LET o == req[q].op IN
  /\ req[q].state = "ran" /\ req[q].heard = "operation" /\ op[o].state = "waiting"
  /\ \/ req[q].answer = "ok" /\ Succeed(o, q)
     \/ req[q].answer \in {"failed", "denied"} /\ op' = Ended(o, "done") /\ Dismiss(q)
     \/ /\ req[q].answer = "denied"
        /\ op' = [k \in Ops |-> IF k = o THEN [op[k] EXCEPT !.state = "asking"]
                                ELSE IF Asking(k, op[o].window) THEN Ended(k, "hung")[k]
                                ELSE op[k]]
        /\ Dismiss(q)
  /\ UNCHANGED <<fs, choices>>

\* Authorize, or Enter, which busy does not stop: the command is asked for once more.
Retry(o) ==
  /\ Asking(o, window)
  /\ \E q \in Requests :
       /\ req[q].state = "idle"
       /\ req' = [req EXCEPT ![q] = Sent(o, Head(op[o].todo), "dialog")]
  /\ UNCHANGED <<fs, screen, choices, op, unseen>>

\* Escape, or Cancel: the operation ends with the answer it had, whatever becomes of the
\* retries.
CancelElevation(o) ==
  /\ Asking(o, window)
  /\ op' = Ended(o, "done")
  /\ UNCHANGED <<fs, screen, choices, req, unseen>>

\* A retry is answered.  A success is that of the operation the refs hold now, which may be
\* another than the one the retry was for, or none; anything else is only shown.
AnswerRetry(q) ==
  LET w == op[req[q].op].window IN
  /\ req[q].state = "ran" /\ req[q].heard = "dialog"
  /\ \/ req[q].answer = "ok" /\ \E o \in Ops : Asking(o, w) /\ Succeed(o, q)
     \/ /\ req[q].answer # "ok" \/ \A o \in Ops : ~Asking(o, w)
        /\ Dismiss(q) /\ UNCHANGED op
  /\ UNCHANGED <<fs, choices>>

\* The answer does not come: the SSH connection was lost, which exec reports as a failure,
\* or the request failed, after which run never settles.  The command may run all the same.
Lose(q) ==
  /\ "lose" \in plan
  /\ req[q].state # "idle" /\ req[q].heard # "nobody"
  /\ req' = [req EXCEPT ![q] = IF @.state = "sent" THEN [@ EXCEPT !.heard = "nobody"] ELSE NoRequest]
  /\ unseen' = Forget(q)
  /\ IF req[q].heard = "operation"
     THEN \E state \in {"done", "hung"} : op' = Ended(req[q].op, state)
     ELSE UNCHANGED op
  /\ UNCHANGED <<fs, screen, choices>>

----------------------------------------------------------------------------
UserStep ==
  \/ \E d \in Dirs : Navigate(d)
  \/ Refresh \/ Reopen
  \/ \E name \in entries : \E cmd \in {"move", "copy"} : Clip(name, cmd)
  \/ Paste
  \/ OpenDialog("newFile", <<>>)
  \/ \E name \in entries : \E kind \in {"rename", "delete"} : OpenDialog(kind, name)
  \/ \E b \in Bases : SubmitDialog(<<b>>) \/ PickUpload(<<b>>)
  \/ ConfirmDelete \/ CancelDialog
  \/ KeepBoth \/ Replace \/ CancelConflict
  \/ \E o \in Ops : Retry(o) \/ CancelElevation(o)

AnswerStep ==
  \/ \E l \in Lists : ServeListing(l) \/ ShowListing(l)
  \/ \E q \in Requests : Run(q) \/ RunUnheard(q) \/ Answer(q) \/ AnswerRetry(q) \/ Lose(q)
  \/ UploadRead \/ UploadUnreadable

Next == UserStep \/ AnswerStep

Spec == Init /\ [][Next]_vars

----------------------------------------------------------------------------
\* No listing and no answer is on its way.
Quiet == active = None /\ \A q \in Requests : req[q].state # "ran"

\* A quiet window shows the directory it names, as it is on the host: no listing that was
\* overtaken stays on it, and every change whose success the window is told of is followed
\* by a listing.  The changes it is not told of are in unseen as None, until the next
\* listing: a command that failed though it ran, or ran in part; one whose answer was lost;
\* a retry that ran once its operation was over; one of a window that is gone.  A failed
\* listing leaves the names as they were.
QuietScreenIsTrue ==
  Quiet /\ ~error /\ None \notin unseen => entries = NamesIn(path)

\* A file's content goes from its place only by being moved to where a command carries it, by
\* a request to remove that path, for an operation the user agreed should delete or replace
\* it, or under an upload - the one operation that writes over a name the window did not
\* show.  The request may be a second retry or one of a cancelled operation, and the content
\* may have come there after the user agreed.
NothingLostUnasked ==
  [][ \A p \in DOMAIN fs :
        ~(p \in DOMAIN fs' /\ fs'[p] = fs[p]) =>
          \/ \E q \in Requests : /\ req[q].state = "sent" /\ req'[q].state # "sent"
                                 /\ p = op[req[q].op].agreed
          \/ \E q \in DOMAIN fs' \ DOMAIN fs : fs'[q] = fs[p]
          \/ p \in DOMAIN fs' /\ fs'[p] \in {<<"uploaded">>, <<"partial">>} ]_vars

\* What makes these hold, step by step.  Once the window has asked for a listing after the
\* last change, the listing that is asked for, and then the window, is true.
ActiveIsOfPath ==
  active # None => list[active].state \in {"sent", "served"} /\ list[active].dir = path

SettledIsTrue ==
  unseen = {} =>
    /\ active # None /\ list[active].state = "served" => list[active].names = NamesIn(path)
    /\ active = None /\ ~error => entries = NamesIn(path)

UnseenIsAnswered == \A q \in unseen : q = None \/ req[q].state = "ran"

\* Only the first command of an operation removes, and what the user agreed to; a request is
\* for nothing else.
RemovalsAgreed ==
  /\ \A o \in Ops :
       /\ op[o].todo # <<>> /\ Head(op[o].todo).cmd = "remove" => Head(op[o].todo).to = op[o].agreed
       /\ Len(op[o].todo) = 2 => op[o].todo[2].cmd # "remove"
  /\ \A q \in Requests :
       req[q].state # "idle" =>
         /\ op[req[q].op].state # "idle"
         /\ req[q].cmd.cmd = "remove" => req[q].cmd.to = op[req[q].op].agreed

IInv == TypeOK /\ ActiveIsOfPath /\ SettledIsTrue /\ UnseenIsAnswered /\ RemovalsAgreed

\* "`onReplace` overwrites the existing one": what is removed to make place for a file is
\* not that file.
ReplaceSparesSource ==
  \A o \in Ops : Len(op[o].todo) = 2 => op[o].todo[2].from # op[o].todo[1].to
=============================================================================
