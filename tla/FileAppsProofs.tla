--------------------------- MODULE FileAppsProofs ---------------------------
(***************************************************************************)
(* Theorems about the editors and viewers, for any number of files and of  *)
(* requests outstanding at once.  What a request carries is described      *)
(* where it is on its way (LoadsMatch, SavesMatch) and where it is shown   *)
(* (WindowMatches); the properties follow.                                 *)
(***************************************************************************)
EXTENDS FileApps, TLAPS

LEMMA FreshWindow == Fresh \in Window /\ Fresh # None
<1>1. Fresh \in Window
  BY DEF Fresh, Window
<1> QED BY <1>1, NoWindowAssumption

LEMMA InitInv == Init => IInv
<1> SUFFICES ASSUME Init
             PROVE  IInv
  OBVIOUS
<1>1. \A f \in Files : [of |-> f, n |-> 0] \in Text
  BY BoundsAssumption DEF Text
<1>2. TypeOK
  BY <1>1, BoundsAssumption DEF Init, TypeOK, NoLoad, NoSave
<1>3. WindowMatches /\ LoadsMatch /\ SavesMatch
  BY DEF Init, WindowMatches, LoadsMatch, SavesMatch, NoLoad, NoSave
<1>4. NoCrossWrites /\ StatusIsTrue /\ DocumentsFreed
  BY DEF Init, NoCrossWrites, StatusIsTrue, DocumentsFreed
<1> QED BY <1>2, <1>3, <1>4 DEF IInv

\* The load effect of a window, fresh or there already, for the file now wanted.
LEMMA EffectInv ==
  ASSUME IInv, NEW f \in Files \cup {None}, NEW w, Effect(w, f), target' = f,
         IF win = None THEN w = Fresh ELSE w = win /\ f # None,
         UNCHANGED <<app, save, disk, version, docs>>
  PROVE  IInv'
<1> USE DEF IInv
<1>1. w \in Window /\ w # None
  BY FreshWindow DEF TypeOK
<1>2. /\ Editor => w.status # "ready"
      /\ Editor /\ w.path # None => w.text # None /\ w.text.of = w.path
      /\ app # "pdf" => ~w.doc
  BY DEF TypeOK, WindowMatches, Fresh
<1>3. docs = IF w.doc THEN 1 ELSE 0
  BY DEF Fresh, DocumentsFreed
<1>4. /\ w.status = "saving" => \E s \in Saves : save[s].live
      /\ f = w.path => (w.status = "loading" => w.path = f)
      /\ f = None => w.status = "idle"
  BY DEF StatusIsTrue, Fresh
<1>5. /\ Editor' <=> Editor
      /\ NoCrossWrites' /\ SavesMatch'
  BY DEF Editor, NoCrossWrites, SavesMatch
<1>6. CASE f \in {None, w.path}
  <2>1. win' = w /\ active' = None /\ load' = load
    BY <1>6 DEF Effect
  <2>2. TypeOK'
    BY <1>1, <1>2, <1>5, <2>1 DEF TypeOK
  <2>3. WindowMatches'
    BY <1>2, <1>5, <2>1 DEF WindowMatches
  <2>4. LoadsMatch' /\ StatusIsTrue'
    BY <1>4, <1>6, <2>1 DEF LoadsMatch, StatusIsTrue
  <2>5. DocumentsFreed'
    BY <1>1, <1>3, <2>1 DEF DocumentsFreed
  <2> QED BY <1>5, <2>2, <2>3, <2>4, <2>5
<1>7. CASE f \notin {None, w.path} /\ ~(app = "image" /\ f \notin Images)
  <2>1. win' = [w EXCEPT !.status = "loading", !.listening = FALSE]
    BY <1>7 DEF Effect
  <2>2. PICK l \in Loads :
          /\ load[l].state = "idle"
          /\ load' = [load EXCEPT ![l] = [state |-> "sent", file |-> f, text |-> None]]
          /\ active' = l
    BY <1>7 DEF Effect
  <2>3. /\ win' \in Window /\ win' # None
        /\ win'.status = "loading" /\ win'.path = w.path /\ win'.text = w.text /\ win'.doc = w.doc
    BY <1>1, <2>1, NoWindowAssumption DEF Window
  <2>4. TypeOK'
    BY <2>2, <2>3 DEF TypeOK, Editor
  <2>5. WindowMatches'
    BY <1>2, <1>5, <2>3 DEF WindowMatches
  <2>6. LoadsMatch'
    BY <1>7, <2>2 DEF LoadsMatch, TypeOK
  <2>7. StatusIsTrue' /\ DocumentsFreed'
    BY <1>3, <2>2, <2>3, BoundsAssumption DEF StatusIsTrue, DocumentsFreed
  <2> QED BY <1>5, <2>4, <2>5, <2>6, <2>7
<1>8. CASE f \notin {None, w.path} /\ app = "image" /\ f \notin Images
  <2>1. /\ win' = [w EXCEPT !.path = f, !.text = None, !.status = "error"]
        /\ active' = None /\ load' = load
    BY <1>8 DEF Effect
  <2>2. /\ win' \in Window /\ win' # None /\ win'.status = "error" /\ win'.doc = w.doc
    BY <1>1, <1>8, <2>1, NoWindowAssumption DEF Window
  <2>3. ~Editor'
    BY <1>5, <1>8 DEF Editor
  <2>4. TypeOK'
    BY <2>1, <2>2, <2>3 DEF TypeOK
  <2>5. WindowMatches' /\ LoadsMatch'
    BY <1>2, <2>1, <2>2, <2>3 DEF WindowMatches, LoadsMatch
  <2>6. StatusIsTrue' /\ DocumentsFreed'
    BY <1>3, <2>2 DEF StatusIsTrue, DocumentsFreed
  <2> QED BY <1>5, <2>4, <2>5, <2>6
<1> QED BY <1>6, <1>7, <1>8

LEMMA OpenInv ==
  ASSUME IInv, NEW f \in Files, OpenFile(f)
  PROVE  IInv'
<1>1. CASE win # None /\ f = target
  <2>1. UNCHANGED vars
    BY <1>1 DEF OpenFile, vars
  <2> QED BY <2>1 DEF vars, IInv, TypeOK, WindowMatches, LoadsMatch, SavesMatch, NoCrossWrites,
                      StatusIsTrue, DocumentsFreed, Editor
<1>2. CASE ~(win # None /\ f = target)
  <2> DEFINE w == IF win = None THEN Fresh ELSE win
  <2>1. Effect(w, f)
    BY <1>2 DEF OpenFile
  <2>2. IF win = None THEN w = Fresh ELSE w = win /\ f # None
    BY BoundsAssumption
  <2> HIDE DEF w
  <2> QED BY <2>1, <2>2, EffectInv DEF OpenFile
<1> QED BY <1>1, <1>2

LEMMA LaunchInv ==
  ASSUME IInv, Launch
  PROVE  IInv'
<1>1. target \in Files \cup {None} /\ target' = target
  BY DEF IInv, TypeOK, Launch
<1> QED BY <1>1, EffectInv DEF Launch

LEMMA UnmountInv ==
  ASSUME IInv, Unmount
  PROVE  IInv'
<1> USE DEF IInv
<1>1. save' \in [Saves -> [state : {"idle", "sent", "wrote", "refused"},
                           file : Files \cup {None}, text : Text \cup {None}, live : BOOLEAN]]
  BY DEF Unmount, TypeOK
<1>2. \A s \in Saves : /\ ~save'[s].live /\ save'[s].state = save[s].state
                       /\ save'[s].file = save[s].file /\ save'[s].text = save[s].text
  BY DEF Unmount, TypeOK
<1>3. docs' = 0
  BY DEF Unmount, DocumentsFreed
<1>4. TypeOK'
  BY <1>1, <1>2, <1>3 DEF Unmount, TypeOK
<1>5. SavesMatch'
  BY <1>2 DEF SavesMatch
<1>6. WindowMatches' /\ LoadsMatch' /\ NoCrossWrites' /\ StatusIsTrue' /\ DocumentsFreed'
  BY <1>3 DEF Unmount, WindowMatches, LoadsMatch, NoCrossWrites, StatusIsTrue, DocumentsFreed
<1> QED BY <1>4, <1>5, <1>6

\* A load moves on without the window: the text it carries is that of its file.
LEMMA LoadInv ==
  ASSUME IInv, NEW l \in Loads, ServeLoad(l) \/ ParsePdf(l) \/ DropFile(l)
  PROVE  IInv'
<1> USE DEF IInv
<1>0. /\ UNCHANGED <<app, target, win, active, save, disk, version, docs>>
      /\ Editor' <=> Editor
  BY DEF ServeLoad, ParsePdf, DropFile, Editor
<1>1. /\ load' \in [Loads -> [state : {"idle", "sent", "served", "parsing"},
                              file : Files \cup {None}, text : Text \cup {None}]]
      /\ active # None => load'[active].state # "idle"
      /\ LoadsMatch'
  <2>1. CASE ServeLoad(l)
    <3>1. load[l].file \in Files /\ disk[load[l].file] \in Text
          /\ disk[load[l].file].of = load[l].file
      BY <2>1 DEF ServeLoad, TypeOK, LoadsMatch, NoCrossWrites
    <3>2. load'[l].state = "served" /\ load'[l].file = load[l].file
          /\ load'[l].text = disk[load[l].file]
      BY <2>1 DEF ServeLoad, TypeOK
    <3>3. \A k \in Loads \ {l} : load'[k] = load[k]
      BY <2>1 DEF ServeLoad, TypeOK
    <3>4. load' \in [Loads -> [state : {"idle", "sent", "served", "parsing"},
                                file : Files \cup {None}, text : Text \cup {None}]]
      <4> DEFINE Load == [state : {"idle", "sent", "served", "parsing"},
                          file : Files \cup {None}, text : Text \cup {None}]
                 sent == load[l]
                 served == [sent EXCEPT !.state = "served", !.text = disk[load[l].file]]
      <4>1. sent \in Load /\ load \in [Loads -> Load]
        BY DEF TypeOK
      <4>2. load' = [load EXCEPT ![l] = served]
        BY <2>1 DEF ServeLoad
      <4>3. served \in Load
        <5> HIDE DEF sent
        <5> QED BY ONLY <3>1, <4>1
      <4> HIDE DEF served, Load
      <4>4. load' \in [Loads -> Load]
        BY <4>1, <4>2, <4>3
      <4> QED BY <4>4 DEF Load
    <3>5. LoadsMatch'
      <4>1. /\ load[l].file # None
            /\ load'[l].text # None /\ load'[l].text.of = load'[l].file
        BY <2>1, <3>1, <3>2, NoWindowAssumption DEF ServeLoad, LoadsMatch
      <4>2. \A k \in Loads : load'[k].file = load[k].file
        BY <3>2, <3>3
      <4>3. active # None => active \in Loads
        BY DEF TypeOK
      <4> QED BY <1>0, <3>2, <3>3, <4>1, <4>2, <4>3 DEF LoadsMatch
    <3>6. active # None => load'[active].state # "idle"
      BY <3>2, <3>3 DEF TypeOK
    <3> QED BY <3>4, <3>5, <3>6
  <2>2. CASE ParsePdf(l)
    BY <2>2 DEF ParsePdf, TypeOK, LoadsMatch
  <2>3. CASE DropFile(l)
    BY <2>3 DEF DropFile, TypeOK, LoadsMatch, NoLoad
  <2> QED BY <2>1, <2>2, <2>3
<1>2. TypeOK'
  BY <1>0, <1>1 DEF TypeOK
<1>3. WindowMatches' /\ SavesMatch' /\ NoCrossWrites' /\ StatusIsTrue' /\ DocumentsFreed'
  BY <1>0 DEF WindowMatches, SavesMatch, NoCrossWrites, StatusIsTrue, DocumentsFreed
<1> QED BY <1>1, <1>2, <1>3

\* The load whose effect is active ends.
LEMMA EndOfLoad ==
  ASSUME IInv, active # None, load' = [load EXCEPT ![active] = NoLoad], active' = None,
         UNCHANGED <<target>>
  PROVE  /\ load' \in [Loads -> [state : {"idle", "sent", "served", "parsing"},
                                 file : Files \cup {None}, text : Text \cup {None}]]
         /\ LoadsMatch'
BY DEF IInv, TypeOK, LoadsMatch, NoLoad

LEMMA ShowInv ==
  ASSUME IInv, NEW l \in Loads, ShowFile(l)
  PROVE  IInv'
<1> USE DEF IInv
<1>1. /\ active = l /\ win \in Window /\ win # None
      /\ load[l].file \in Files /\ load[l].text \in Text /\ load[l].text.of = load[l].file
      /\ UNCHANGED <<app, target, save, disk, version>>
      /\ Editor' <=> Editor
  BY BoundsAssumption DEF ShowFile, Arrived, TypeOK, LoadsMatch, Editor
<1>2. /\ win' \in Window /\ win' # None
      /\ win'.path = load[l].file /\ win'.text = load[l].text
      /\ win'.status = IF Editor THEN "idle" ELSE "ready"
      /\ win'.doc = (app = "pdf")
  <2>1. (app = "documents") \in BOOLEAN /\ (app = "pdf") \in BOOLEAN
    OBVIOUS
  <2>2. win' = Shown(l)
    BY DEF ShowFile
  <2>3. Shown(l) \in Window
    BY <1>1, <2>1 DEF Shown, Window
  <2>4. /\ Shown(l).path = load[l].file /\ Shown(l).text = load[l].text
        /\ Shown(l).status = IF Editor THEN "idle" ELSE "ready"
        /\ Shown(l).doc = (app = "pdf")
    BY <1>1 DEF Shown, Window
  <2> QED BY <2>2, <2>3, <2>4, NoWindowAssumption
<1>3. /\ load' \in [Loads -> [state : {"idle", "sent", "served", "parsing"},
                              file : Files \cup {None}, text : Text \cup {None}]]
      /\ LoadsMatch'
  BY <1>1, BoundsAssumption, EndOfLoad DEF ShowFile
<1>4. DocumentsFreed' /\ docs' \in Nat
  <2>1. CASE app = "pdf"
    <3>1. win'.doc
      BY <1>2, <2>1
    <3>2. docs' = 1
      <4>1. CASE win.doc
        BY <1>1, <2>1, <4>1 DEF ShowFile, DocumentsFreed
      <4>2. CASE ~win.doc
        BY <1>1, <2>1, <4>2 DEF ShowFile, DocumentsFreed
      <4> QED BY <4>1, <4>2
    <3> QED BY <1>2, <3>1, <3>2 DEF DocumentsFreed
  <2>2. CASE app # "pdf"
    BY <1>1, <1>2, <2>2 DEF ShowFile, DocumentsFreed, WindowMatches
  <2> QED BY <2>1, <2>2
<1>5. TypeOK'
  BY <1>1, <1>2, <1>3, <1>4 DEF ShowFile, TypeOK
<1>6. WindowMatches' /\ StatusIsTrue'
  BY <1>1, <1>2, NoWindowAssumption DEF WindowMatches, StatusIsTrue
<1>7. SavesMatch' /\ NoCrossWrites'
  BY <1>1 DEF SavesMatch, NoCrossWrites
<1> QED BY <1>3, <1>4, <1>5, <1>6, <1>7

LEMMA FailInv ==
  ASSUME IInv, NEW l \in Loads, FailFile(l)
  PROVE  IInv'
<1> USE DEF IInv
<1>1. /\ active = l /\ win \in Window /\ win # None /\ load[l].file \in Files
      /\ UNCHANGED <<app, target, save, disk, version, docs>>
      /\ Editor' <=> Editor
  BY BoundsAssumption DEF FailFile, TypeOK, LoadsMatch, Editor
<1>2. /\ win' \in Window /\ win' # None /\ win'.status = "error" /\ win'.doc = win.doc
      /\ Editor => win'.path = win.path /\ win'.text = win.text
  BY <1>1, NoWindowAssumption DEF FailFile, Window
<1>3. /\ load' \in [Loads -> [state : {"idle", "sent", "served", "parsing"},
                              file : Files \cup {None}, text : Text \cup {None}]]
      /\ LoadsMatch'
  BY <1>1, BoundsAssumption, EndOfLoad DEF FailFile
<1>4. TypeOK'
  BY <1>1, <1>2, <1>3 DEF FailFile, TypeOK
<1>5. WindowMatches' /\ StatusIsTrue' /\ DocumentsFreed'
  BY <1>1, <1>2 DEF WindowMatches, StatusIsTrue, DocumentsFreed
<1>6. SavesMatch' /\ NoCrossWrites'
  BY <1>1 DEF SavesMatch, NoCrossWrites
<1> QED BY <1>3, <1>4, <1>5, <1>6

LEMMA TypeInv ==
  ASSUME IInv, Type
  PROVE  IInv'
<1> USE DEF IInv
<1>1. /\ win \in Window /\ win # None /\ win.text \in Text /\ win.text.of \in Files
      /\ win.text.of = win.path
      /\ version' \in 0..MaxVersion /\ version' = version + 1
      /\ UNCHANGED <<app, target, load, active, save, disk, docs>>
      /\ Editor /\ Editor'
  BY BoundsAssumption DEF Type, TypeOK, WindowMatches, Window, Text, Editor
<1>2. [of |-> win.text.of, n |-> version + 1] \in Text
  BY <1>1 DEF Text
<1>3. /\ win' \in Window /\ win' # None
      /\ win'.path = win.path /\ win'.text = [of |-> win.text.of, n |-> version + 1]
      /\ win'.status \in {win.status, "idle"} /\ win'.doc = win.doc
  BY <1>1, <1>2, NoWindowAssumption DEF Type, Window
<1>4. TypeOK'
  BY <1>1, <1>3 DEF TypeOK
<1>5. WindowMatches'
  BY <1>1, <1>2, <1>3, NoWindowAssumption DEF WindowMatches
<1>6. StatusIsTrue' /\ DocumentsFreed'
  BY <1>1, <1>3 DEF StatusIsTrue, DocumentsFreed
<1>7. LoadsMatch' /\ SavesMatch' /\ NoCrossWrites'
  BY <1>1 DEF LoadsMatch, SavesMatch, NoCrossWrites
<1> QED BY <1>4, <1>5, <1>6, <1>7

LEMMA SaveInv ==
  ASSUME IInv, Save
  PROVE  IInv'
<1> USE DEF IInv
<1>1. /\ win \in Window /\ win # None /\ win.path \in Files /\ win.text \in Text
      /\ win.text.of = win.path
      /\ UNCHANGED <<app, target, load, active, disk, version, docs>>
      /\ Editor /\ Editor'
  BY BoundsAssumption DEF Save, CanSave, TypeOK, WindowMatches, Window, Editor
<1>2. PICK s \in Saves :
        /\ save[s].state = "idle"
        /\ save' = [save EXCEPT ![s] = [state |-> "sent", file |-> win.path,
                                        text |-> win.text, live |-> TRUE]]
  BY DEF Save
<1>3. /\ win' \in Window /\ win' # None /\ win'.status = "saving"
      /\ win'.path = win.path /\ win'.text = win.text /\ win'.doc = win.doc
  BY <1>1, NoWindowAssumption DEF Save, Window
<1>4. TypeOK'
  BY <1>1, <1>2, <1>3 DEF TypeOK
<1>5. SavesMatch'
  BY <1>1, <1>2, BoundsAssumption, NoWindowAssumption DEF SavesMatch, TypeOK
<1>6. WindowMatches' /\ StatusIsTrue' /\ DocumentsFreed'
  BY <1>1, <1>2, <1>3 DEF WindowMatches, StatusIsTrue, DocumentsFreed, TypeOK
<1>7. LoadsMatch' /\ NoCrossWrites'
  BY <1>1 DEF LoadsMatch, NoCrossWrites
<1> QED BY <1>4, <1>5, <1>6, <1>7

LEMMA ServeSaveInv ==
  ASSUME IInv, NEW s \in Saves, ServeSave(s)
  PROVE  IInv'
<1> USE DEF IInv
<1>1. /\ save[s].file \in Files /\ save[s].text \in Text /\ save[s].text.of = save[s].file
      /\ UNCHANGED <<app, target, win, load, active, version, docs>>
      /\ Editor' <=> Editor
  BY DEF ServeSave, TypeOK, SavesMatch, Editor
<1>2. disk' \in [Files -> Text] /\ NoCrossWrites'
  BY <1>1 DEF ServeSave, TypeOK, NoCrossWrites
<1>3. /\ save' \in [Saves -> [state : {"idle", "sent", "wrote", "refused"},
                              file : Files \cup {None}, text : Text \cup {None}, live : BOOLEAN]]
      /\ \A t \in Saves : save'[t].live = save[t].live
      /\ SavesMatch'
  BY DEF ServeSave, TypeOK, SavesMatch
<1>4. TypeOK'
  BY <1>1, <1>2, <1>3 DEF TypeOK
<1>5. WindowMatches' /\ LoadsMatch' /\ StatusIsTrue' /\ DocumentsFreed'
  BY <1>1, <1>3 DEF WindowMatches, LoadsMatch, StatusIsTrue, DocumentsFreed
<1> QED BY <1>2, <1>3, <1>4, <1>5

LEMMA AnswerInv ==
  ASSUME IInv, NEW s \in Saves, SaveAnswered(s)
  PROVE  IInv'
<1> USE DEF IInv
<1>1. /\ UNCHANGED <<app, target, load, active, disk, version, docs>>
      /\ Editor' <=> Editor
      /\ save[s].live => win \in Window /\ win # None
  BY DEF SaveAnswered, TypeOK, Editor
<1>2. /\ save' \in [Saves -> [state : {"idle", "sent", "wrote", "refused"},
                              file : Files \cup {None}, text : Text \cup {None}, live : BOOLEAN]]
      /\ ~save'[s].live
      /\ \A t \in Saves : t # s => save'[t] = save[t]
      /\ SavesMatch'
  BY DEF SaveAnswered, TypeOK, SavesMatch, NoSave
<1>3. CASE ~save[s].live
  <2>1. win' = win
    BY <1>3 DEF SaveAnswered
  <2>2. \A t \in Saves : save[t].live => save'[t].live
    BY <1>2, <1>3
  <2>3. TypeOK'
    BY <1>1, <1>2, <2>1 DEF TypeOK
  <2>4. WindowMatches' /\ LoadsMatch' /\ StatusIsTrue' /\ DocumentsFreed' /\ NoCrossWrites'
    BY <1>1, <2>1, <2>2 DEF WindowMatches, LoadsMatch, StatusIsTrue, DocumentsFreed, NoCrossWrites
  <2> QED BY <1>2, <2>3, <2>4
<1>4. CASE save[s].live
  <2>1. /\ win' \in Window /\ win' # None /\ win'.status \in {"saved", "error"}
        /\ win'.path = win.path /\ win'.text = win.text /\ win'.doc = win.doc
    <3>1. CASE win' = [win EXCEPT !.dirty = FALSE, !.status = "saved"]
      BY <1>1, <1>4, <3>1, NoWindowAssumption DEF Window
    <3>2. CASE win' = [win EXCEPT !.status = "error"]
      BY <1>1, <1>4, <3>2, NoWindowAssumption DEF Window
    <3> QED BY <1>4, <3>1, <3>2 DEF SaveAnswered
  <2>2. TypeOK'
    BY <1>1, <1>2, <2>1 DEF TypeOK
  <2>3. WindowMatches' /\ LoadsMatch' /\ StatusIsTrue' /\ DocumentsFreed' /\ NoCrossWrites'
    BY <1>1, <1>4, <2>1 DEF WindowMatches, LoadsMatch, StatusIsTrue, DocumentsFreed, NoCrossWrites
  <2> QED BY <1>2, <2>2, <2>3
<1> QED BY <1>3, <1>4

LEMMA NextInv == IInv /\ [Next]_vars => IInv'
<1> SUFFICES ASSUME IInv, [Next]_vars
             PROVE  IInv'
  OBVIOUS
<1>1. CASE UNCHANGED vars
  BY <1>1 DEF vars, IInv, TypeOK, WindowMatches, LoadsMatch, SavesMatch, NoCrossWrites,
              StatusIsTrue, DocumentsFreed, Editor
<1>2. CASE Next
  BY <1>2, OpenInv, LaunchInv, UnmountInv, LoadInv, ShowInv, FailInv, TypeInv, SaveInv,
     ServeSaveInv, AnswerInv DEF Next
<1> QED BY <1>1, <1>2

LEMMA Invariance == Spec => []IInv
<1> QED BY InitInv, NextInv, PTL DEF Spec

----------------------------------------------------------------------------
(* What follows.                                                           *)

\* The window, its requests and the files keep their types (the four applications).
THEOREM TypeCorrect == Spec => []TypeOK
<1>1. IInv => TypeOK
  BY DEF IInv
<1> QED BY <1>1, Invariance, PTL

\* No text is ever written over another file: not though the window turns to another file,
\* is closed, or is opened again while its saves are on their way (save, writeFile).
THEOREM TextsStayHome == Spec => []NoCrossWrites
<1>1. IInv => NoCrossWrites
  BY DEF IInv
<1> QED BY <1>1, Invariance, PTL

\* "Saving" and "loading" are shown while a save or a load is going on, but for the return
\* to the file shown, which leaves "loading" behind (the load effect).
THEOREM StatusTrue == Spec => []StatusIsTrue
<1>1. IInv => StatusIsTrue
  BY DEF IInv
<1> QED BY <1>1, Invariance, PTL

\* A parsed PDF is in the window or destroyed, whenever it was parsed (PdfViewerApp).
THEOREM NoDocumentStays == Spec => []DocumentsFreed
<1>1. IInv => DocumentsFreed
  BY DEF IInv
<1> QED BY <1>1, Invariance, PTL

\* A window turns only to the file asked for last, whatever order the answers come in (the
\* active flag of the load effects).
THEOREM TurnsOnlyToTarget == Spec => TurnsToTarget
<1>1. ASSUME IInv, [Next]_vars, win # None, win' # None, win'.path # win.path
      PROVE  win'.path = target'
  <2> USE <1>1 DEF IInv
  <2>1. win \in Window
    BY DEF TypeOK
  <2>2. ASSUME NEW f \in Files, OpenFile(f)
        PROVE  win'.path \in {win.path, target'}
    BY <2>1, <2>2 DEF OpenFile, Effect, Window
  <2>3. ASSUME NEW l \in Loads, ShowFile(l)
        PROVE  win'.path = target'
    BY <2>1, <2>3, BoundsAssumption DEF ShowFile, Shown, LoadsMatch, Window
  <2>4. ASSUME NEW l \in Loads, FailFile(l)
        PROVE  win'.path = target'
    BY <2>1, <2>4, BoundsAssumption DEF FailFile, LoadsMatch, Window
  <2>5. ASSUME NEW l \in Loads, ServeLoad(l) \/ ParsePdf(l) \/ DropFile(l)
        PROVE  win' = win
    BY <2>5 DEF ServeLoad, ParsePdf, DropFile
  <2>6. CASE Type \/ Save
    BY <2>1, <2>6 DEF Type, Save, Window
  <2>7. ASSUME NEW s \in Saves, ServeSave(s) \/ SaveAnswered(s)
        PROVE  win'.path = win.path
    BY <2>1, <2>7 DEF ServeSave, SaveAnswered, Window
  <2> QED BY <2>2, <2>3, <2>4, <2>5, <2>6, <2>7 DEF Next, Launch, Unmount, vars
<1>2. IInv /\ [Next]_vars =>
        [win # None /\ win' # None /\ win'.path # win.path => win'.path = target']_vars
  BY <1>1
<1> QED BY <1>2, Invariance, PTL DEF Spec, TurnsToTarget
=============================================================================
