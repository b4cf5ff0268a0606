------------------------------ MODULE FileApps ------------------------------
(***************************************************************************)
(* The applications the file manager opens files in (web): Stallman and    *)
(* Documents, the editors, and the image and PDF viewers.  A behaviour is  *)
(* that of one of them.                                                    *)
(*                                                                         *)
(* The desktop holds the file last asked of the application, its target;   *)
(* the window, while it is mounted, holds the file it shows, loads the     *)
(* target when it differs, and answers late.  Minimising a window unmounts *)
(* its application like closing it: what it held is gone, but the saves it *)
(* has sent go on.  A text is the file it came from and a version.         *)
(***************************************************************************)
EXTENDS Integers, FiniteSets

CONSTANTS
  Apps,        \* the applications: among "stallman", "documents", "image", "pdf"
  Files,       \* the files that can be opened
  Images,      \* those of them whose name is that of an image
  Loads,       \* readFile requests that can be outstanding at once
  Saves,       \* writeFile requests that can be outstanding at once
  MaxVersion,  \* bound on the texts the user types
  None         \* null

ASSUME AppsAssumption == Apps \subseteq {"stallman", "documents", "image", "pdf"}
ASSUME BoundsAssumption == MaxVersion \in Nat /\ None \notin Files \cup Loads

VARIABLES
  app,         \* the application
  target,      \* the file the desktop wants in it
  win,         \* its window, or None while it is not mounted
  load,        \* the outstanding reads
  active,      \* the one whose effect has not been cleaned up
  save,        \* the outstanding writes
  disk,        \* the texts of the files on the host
  version,     \* of the text typed last
  docs         \* parsed PDF documents not destroyed

vars == <<app, target, win, load, active, save, disk, version, docs>>

Editor == app \in {"stallman", "documents"}

Text == [of : Files, n : 0..MaxVersion]

\* A window just mounted.  listening is loadedRef: Documents notices edits; doc is docRef.
Fresh == [path |-> None, text |-> None, dirty |-> FALSE, status |-> "idle",
          listening |-> FALSE, doc |-> FALSE]
NoLoad == [state |-> "idle", file |-> None, text |-> None]
NoSave == [state |-> "idle", file |-> None, text |-> None, live |-> FALSE]

Window == [path : Files \cup {None}, text : Text \cup {None}, dirty : BOOLEAN,
           status : {"idle", "loading", "ready", "saving", "saved", "error"},
           listening : BOOLEAN, doc : BOOLEAN]

ASSUME NoWindowAssumption == None \notin Window \cup Text

TypeOK ==
  /\ app \in Apps
  /\ target \in Files \cup {None}
  /\ win \in Window \cup {None}
  /\ win # None /\ Editor => win.status # "ready"
  /\ load \in [Loads -> [state : {"idle", "sent", "served", "parsing"},
                         file : Files \cup {None}, text : Text \cup {None}]]
  /\ active \in Loads \cup {None}
  /\ active # None => win # None /\ load[active].state # "idle"
  /\ save \in [Saves -> [state : {"idle", "sent", "wrote", "refused"},
                         file : Files \cup {None}, text : Text \cup {None}, live : BOOLEAN]]
  /\ \A s \in Saves : save[s].live => win # None
  /\ disk \in [Files -> Text]
  /\ version \in 0..MaxVersion
  /\ docs \in Nat

Init ==
  /\ app \in Apps
  /\ target = None /\ win = None /\ active = None
  /\ load = [l \in Loads |-> NoLoad]
  /\ save = [s \in Saves |-> NoSave]
  /\ disk = [f \in Files |-> [of |-> f, n |-> 0]]
  /\ version = 0
  /\ docs = 0

----------------------------------------------------------------------------
(* Opening, loading and closing.                                           *)

\* The load effect of window w for target f: the one before is cleaned up; the file shown
\* is not loaded again - nor is the status reset - and any other is asked for, but by the
\* image viewer one that is not an image.
Effect(w, f) ==
  IF f \in {None, w.path} THEN win' = w /\ active' = None /\ UNCHANGED load
  ELSE IF app = "image" /\ f \notin Images
  THEN /\ win' = [w EXCEPT !.path = f, !.text = None, !.status = "error"]
       /\ active' = None
       /\ UNCHANGED load
  ELSE /\ win' = [w EXCEPT !.status = "loading", !.listening = FALSE]
       /\ \E l \in Loads :
            /\ load[l].state = "idle"
            /\ load' = [load EXCEPT ![l] = [state |-> "sent", file |-> f, text |-> None]]
            /\ active' = l

\* openEditor, openDoc, openImage, openPdf: set the target and open or focus the window.
OpenFile(f) ==
  /\ target' = f
  /\ IF win # None /\ f = target THEN UNCHANGED <<win, load, active>>
     ELSE Effect(IF win = None THEN Fresh ELSE win, f)
  /\ UNCHANGED <<app, save, disk, version, docs>>

\* From the launcher, or restored from the taskbar: the window starts over.
Launch ==
  /\ win = None
  /\ Effect(Fresh, target)
  /\ UNCHANGED <<app, target, save, disk, version, docs>>

\* Mutant of Unmount: without the cleanup of the effect.
UnmountUncleaned ==
  /\ win # None
  /\ win' = None /\ UNCHANGED active
  /\ save' = [s \in Saves |-> [save[s] EXCEPT !.live = FALSE]]
  /\ docs' = IF win.doc THEN docs - 1 ELSE docs
  /\ UNCHANGED <<app, target, load, disk, version>>

\* Closed or minimised.  The answers to come change no window.
Unmount ==
  /\ win # None
  /\ win' = None /\ active' = None
  /\ save' = [s \in Saves |-> [save[s] EXCEPT !.live = FALSE]]
  /\ docs' = IF win.doc THEN docs - 1 ELSE docs
  /\ UNCHANGED <<app, target, load, disk, version>>

\* base64 on the host.
ServeLoad(l) ==
  /\ load[l].state = "sent"
  /\ load' = [load EXCEPT ![l].state = "served", ![l].text = disk[load[l].file]]
  /\ UNCHANGED <<app, target, win, active, save, disk, version, docs>>

\* The PDF viewer parses the bytes before it shows them.
ParsePdf(l) ==
  /\ app = "pdf" /\ active = l
  /\ load[l].state = "served"
  /\ load' = [load EXCEPT ![l].state = "parsing"]
  /\ UNCHANGED <<app, target, win, active, save, disk, version, docs>>

\* The last answer of a load.
Arrived(l) == load[l].state = IF app = "pdf" THEN "parsing" ELSE "served"

\* The window once the file is loaded; setting path cleans the effect up.
Shown(l) ==
  [win EXCEPT !.path = load[l].file, !.text = load[l].text, !.dirty = FALSE,
              !.status = IF Editor THEN "idle" ELSE "ready",
              !.listening = (app = "documents"), !.doc = (app = "pdf")]

\* Mutant of ShowFile: without the test of active.
ShowAnyFile(l) ==
  /\ Arrived(l) /\ win # None
  /\ load' = [load EXCEPT ![l] = NoLoad]
  /\ active' = None
  /\ win' = Shown(l)
  /\ docs' = IF app # "pdf" THEN docs ELSE IF win.doc THEN docs ELSE docs + 1
  /\ UNCHANGED <<app, target, save, disk, version>>

ShowFile(l) ==
  /\ Arrived(l) /\ active = l
  /\ load' = [load EXCEPT ![l] = NoLoad]
  /\ active' = None
  /\ win' = Shown(l)
  /\ docs' = IF app # "pdf" THEN docs ELSE IF win.doc THEN docs ELSE docs + 1
  /\ UNCHANGED <<app, target, save, disk, version>>

\* Mutant of FailFile: without the catch.
FailFileQuietly(l) ==
  /\ load[l].state \in {"served", "parsing"} /\ active = l
  /\ load' = [load EXCEPT ![l] = NoLoad]
  /\ active' = None
  /\ UNCHANGED <<app, target, win, save, disk, version, docs>>

\* The file cannot be read, shown as text or parsed, or the request failed: an editor keeps
\* what it shows, a viewer is at the new file with nothing to show.
FailFile(l) ==
  /\ load[l].state \in {"served", "parsing"} /\ active = l
  /\ load' = [load EXCEPT ![l] = NoLoad]
  /\ active' = None
  /\ win' = IF Editor THEN [win EXCEPT !.status = "error"]
            ELSE [win EXCEPT !.status = "error", !.path = load[l].file, !.text = None]
  /\ UNCHANGED <<app, target, save, disk, version, docs>>

\* Mutant of DropFile: a document parsed too late is not destroyed.
DropFileUndestroyed(l) ==
  /\ load[l].state \in {"served", "parsing"} /\ active # l
  /\ load' = [load EXCEPT ![l] = NoLoad]
  /\ docs' = IF load[l].state = "parsing" THEN docs + 1 ELSE docs
  /\ UNCHANGED <<app, target, win, active, save, disk, version>>

\* The answer to a load that was overtaken or whose window is gone; a document parsed in
\* the meantime is destroyed.
DropFile(l) ==
  /\ load[l].state \in {"served", "parsing"} /\ active # l
  /\ load' = [load EXCEPT ![l] = NoLoad]
  /\ UNCHANGED <<app, target, win, active, save, disk, version, docs>>

----------------------------------------------------------------------------
(* Editing and saving.                                                     *)

\* A change is noticed by Stallman always, by Documents after a load that succeeded.
Type ==
  /\ Editor /\ win # None /\ win.path # None
  /\ version < MaxVersion
  /\ version' = version + 1
  /\ LET typed == [win EXCEPT !.text = [of |-> win.text.of, n |-> version + 1]]
     IN  win' = IF app = "stallman" \/ win.listening
                THEN [typed EXCEPT !.dirty = TRUE,
                                   !.status = IF @ = "saved" THEN "idle" ELSE @]
                ELSE typed
  /\ UNCHANGED <<app, target, load, active, save, disk, docs>>

\* The Save button, disabled while a save is on its way; in Stallman Ctrl-S never is.
CanSave ==
  /\ Editor /\ win # None /\ win.path # None
  /\ app = "stallman" \/ (win.dirty /\ win.status # "saving")

\* Mutant of Save: to the file asked for instead of the one shown.
SaveToTarget ==
  /\ CanSave
  /\ win' = [win EXCEPT !.status = "saving"]
  /\ \E s \in Saves :
       /\ save[s].state = "idle"
       /\ save' = [save EXCEPT ![s] = [state |-> "sent", file |-> target,
                                       text |-> win.text, live |-> TRUE]]
  /\ UNCHANGED <<app, target, load, active, disk, version, docs>>

Save ==
  /\ CanSave
  /\ win' = [win EXCEPT !.status = "saving"]
  /\ \E s \in Saves :
       /\ save[s].state = "idle"
       /\ save' = [save EXCEPT ![s] = [state |-> "sent", file |-> win.path,
                                       text |-> win.text, live |-> TRUE]]
  /\ UNCHANGED <<app, target, load, active, disk, version, docs>>

\* The writes run beside each other, each on a channel of its own, or are refused.
ServeSave(s) ==
  /\ save[s].state = "sent"
  /\ \/ /\ disk' = [disk EXCEPT ![save[s].file] = save[s].text]
        /\ save' = [save EXCEPT ![s].state = "wrote"]
     \/ /\ save' = [save EXCEPT ![s].state = "refused"]
        /\ UNCHANGED disk
  /\ UNCHANGED <<app, target, win, load, active, version, docs>>

\* The answer arrives - or the request of a write that was done fails.
SaveAnswered(s) ==
  /\ save[s].state \in {"wrote", "refused"}
  /\ save' = [save EXCEPT ![s] = NoSave]
  /\ IF ~save[s].live THEN UNCHANGED win
     ELSE \/ /\ save[s].state = "wrote"
             /\ win' = [win EXCEPT !.dirty = FALSE, !.status = "saved"]
          \/ win' = [win EXCEPT !.status = "error"]
  /\ UNCHANGED <<app, target, load, active, disk, version, docs>>

----------------------------------------------------------------------------
Next ==
  \/ \E f \in Files : OpenFile(f)
  \/ Launch \/ Unmount
  \/ \E l \in Loads : ServeLoad(l) \/ ParsePdf(l) \/ ShowFile(l) \/ FailFile(l) \/ DropFile(l)
  \/ Type \/ Save
  \/ \E s \in Saves : ServeSave(s) \/ SaveAnswered(s)

Spec == Init /\ [][Next]_vars

----------------------------------------------------------------------------
\* A save writes the text of the file it is named after, though another file may be on its
\* way to the window when it is asked and shown in it when it is done.
NoCrossWrites == \A f \in Files : disk[f].of = f

\* A window turns only to the file asked for last, whatever order the answers come in.
TurnsToTarget ==
  [][ win # None /\ win' # None /\ win'.path # win.path => win'.path = target' ]_vars

\* What the window says it is doing is going on.  Saving is shown only while a save of this
\* window is on its way, and loading only while a load is, but for one case the code has: a
\* return to the file shown, while another is loading, ends that load and leaves it there.
StatusIsTrue ==
  win # None =>
    /\ win.status = "saving" => \E s \in Saves : save[s].live
    /\ win.status = "loading" => active # None \/ win.path = target

\* Every PDF parsed is in the window or destroyed: none outlives the window or the next file.
DocumentsFreed == docs = IF win # None /\ win.doc THEN 1 ELSE 0

\* What makes these hold, step by step: wherever a text is on its way, it is with the file it
\* came from; only the PDF viewer has documents; what is loaded is the target.
WindowMatches ==
  win # None =>
    /\ Editor /\ win.path # None => win.text # None /\ win.text.of = win.path
    /\ app # "pdf" => ~win.doc
LoadsMatch ==
  /\ \A l \in Loads :
       /\ load[l].state # "idle" => load[l].file # None
       /\ load[l].state \in {"served", "parsing"} =>
            load[l].text # None /\ load[l].text.of = load[l].file
  /\ active # None => load[active].file = target
SavesMatch ==
  \A s \in Saves :
    IF save[s].state = "idle" THEN ~save[s].live
    ELSE save[s].file # None /\ save[s].text # None /\ save[s].text.of = save[s].file

IInv ==
  /\ TypeOK /\ WindowMatches /\ LoadsMatch /\ SavesMatch
  /\ NoCrossWrites /\ StatusIsTrue /\ DocumentsFreed

\* 'Unsaved changes': with no save of its own on its way, a window whose text is newer than
\* the file says so.
UnsavedIsMarked ==
  Editor /\ win # None /\ win.path # None /\ (\A s \in Saves : ~save[s].live)
    => win.dirty \/ win.text.n <= disk[win.path].n
=============================================================================
