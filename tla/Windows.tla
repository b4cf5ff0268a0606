------------------------------ MODULE Windows ------------------------------
(***************************************************************************)
(* The window manager of the desktop: useWindows, the pointer handlers of  *)
(* Window, the taskbar and the launcher.  An action is one event; React    *)
(* renders before the next one, so a handler sees the state it acts on.    *)
(* Places and sizes have one coordinate: the other is handled alike.       *)
(***************************************************************************)
EXTENDS Integers

CONSTANTS
  Apps,        \* applications
  MinSize,     \* the least size a window can be given (MIN_W, MIN_H)
  DefaultSize, \* the size a window opens with
  Pointer,     \* coordinates of the pointer
  MaxOpened,   \* bound on the windows opened
  MaxZ,        \* bound on the stacking order
  MaxExtent    \* bound on places and sizes

ASSUME SizeAssumption == MinSize \in Nat /\ DefaultSize \in Nat /\ DefaultSize >= MinSize
ASSUME PointerAssumption == Pointer \subseteq Int
ASSUME BoundsAssumption == MaxOpened \in Nat /\ MaxZ \in Nat /\ MaxExtent \in Nat

VARIABLES
  windows,     \* the open windows
  topZ,        \* the stacking order given last
  windowSeq,   \* number of windows opened since the page was loaded
  grips,       \* the drag and resize refs of the windows shown
  newer        \* <<i, j>>: window i was used after window j was used last

vars == <<windows, topZ, windowSeq, grips, newer>>

Window == [id : Nat, app : Apps, z : Nat, minimized : BOOLEAN, maximized : BOOLEAN,
           x : Nat, size : Nat]

\* What a ref remembers: the pointer and the window where the pointer went down.
Grip == [id : Nat, kind : {"drag", "resize"}, at : Pointer, from : Nat]

TypeOK ==
  /\ windows \subseteq Window
  /\ \A w \in windows : w.size >= MinSize
  /\ topZ \in Nat
  /\ windowSeq \in Nat
  /\ grips \subseteq Grip
  /\ newer \subseteq Nat \X Nat

Init ==
  /\ windows = {}
  /\ topZ = 1
  /\ windowSeq = 0
  /\ grips = {}
  /\ newer = {}

Ids == {w.id : w \in windows}
Shown == {w \in windows : ~w.minimized}

----------------------------------------------------------------------------
(* useWindows.                                                             *)

\* Window w becomes v; ids are unique.
Becomes(w, v) == windows' = (windows \ {w}) \cup {v}

\* The user has just used a window: the history StackIsRecency is about.
Used(id, others) ==
  newer' = {p \in newer : id \notin {p[1], p[2]}} \cup {<<id, i>> : i \in others \ {id}}

\* focus, called n times by one event.
Focus(w, n) ==
  /\ topZ + n <= MaxZ
  /\ topZ' = topZ + n
  /\ Becomes(w, [w EXCEPT !.z = topZ + n, !.minimized = FALSE])
  /\ Used(w.id, Ids)

\* Mutant: a callback that is not made anew when topZ changes.
NextZStale == 2

\* openApp: one more than the topZ of the last render.
NextZ == topZ + 1

\* Mutant: a minimised window is not looked for.
RunningShown(a) == {w \in windows : w.app = a /\ ~w.minimized}

\* The window openApp finds for an application.
Running(a) == {w \in windows : w.app = a}

NewWindow(a) ==
  [id |-> windowSeq + 1, app |-> a, z |-> NextZ, minimized |-> FALSE, maximized |-> FALSE,
   x |-> windowSeq % 6, size |-> DefaultSize]

\* From the launcher, or to show a file or a directory in an application: openApp.
OpenApp(a) ==
  /\ topZ' = NextZ /\ NextZ <= MaxZ
  /\ \/ \E w \in Running(a) :
          /\ Becomes(w, [w EXCEPT !.z = NextZ, !.minimized = FALSE])
          /\ Used(w.id, Ids)
          /\ UNCHANGED windowSeq
     \/ /\ Running(a) = {}
        /\ windowSeq < MaxOpened
        /\ windowSeq' = windowSeq + 1
        /\ windows' = windows \cup {NewWindow(a)}
        /\ Used(windowSeq + 1, Ids)
  /\ UNCHANGED grips

\* The component is gone, and its refs.
Ungrip(id) == grips' = {g \in grips : g.id # id}

Close(w) ==
  /\ windows' = windows \ {w}
  /\ newer' = {p \in newer : w.id \notin {p[1], p[2]}}
  /\ Ungrip(w.id)
  /\ UNCHANGED <<topZ, windowSeq>>

Minimize(w) ==
  /\ Becomes(w, [w EXCEPT !.minimized = TRUE])
  /\ Ungrip(w.id)
  /\ UNCHANGED <<topZ, windowSeq, newer>>

\* The button, or a double click on the title bar.
ToggleMaximize(w) ==
  /\ Becomes(w, [w EXCEPT !.maximized = ~w.maximized])
  /\ UNCHANGED <<topZ, windowSeq, grips, newer>>

\* A click on a taskbar button: the window may be minimised.
Select(w) ==
  /\ Focus(w, 1)
  /\ UNCHANGED <<windowSeq, grips>>

----------------------------------------------------------------------------
(* The pointer on a window that is shown.                                  *)

\* A pointer down on the window's contents.
PointerDown(w) ==
  /\ Focus(w, 1)
  /\ UNCHANGED <<windowSeq, grips>>

Grab(w, kind, p, from) ==
  grips' = {g \in grips : <<g.id, g.kind>> # <<w.id, kind>>}
           \cup {[id |-> w.id, kind |-> kind, at |-> p, from |-> from]}

\* On the title bar: startDrag and, as the event bubbles, onFocus again; startDrag does
\* nothing to a maximised window.
StartDrag(w, p) ==
  /\ IF w.maximized THEN Focus(w, 1) /\ UNCHANGED grips
     ELSE Focus(w, 2) /\ Grab(w, "drag", p, w.x)
  /\ UNCHANGED windowSeq

\* On the corner, which a maximised window does not have.
StartResize(w, p) ==
  /\ ~w.maximized
  /\ Focus(w, 1)
  /\ Grab(w, "resize", p, w.size)
  /\ UNCHANGED windowSeq

AtLeast(least, n) == IF n < least THEN least ELSE n

NewSize(g, p) == AtLeast(MinSize, g.from + (p - g.at))
NewPlace(g, p) == AtLeast(0, g.from + (p - g.at))

\* onDragMove and onResizeMove.  The ref decides, not the button: a pointer that was lost
\* (pointercancel) leaves the ref behind, and the window follows the next pointer over it.
MoveGrip(w, g, p) ==
  /\ g.id = w.id
  /\ \/ /\ g.kind = "drag" /\ NewPlace(g, p) <= MaxExtent
        /\ Becomes(w, [w EXCEPT !.x = NewPlace(g, p)])
     \/ /\ g.kind = "resize" /\ ~w.maximized /\ NewSize(g, p) <= MaxExtent
        /\ Becomes(w, [w EXCEPT !.size = NewSize(g, p)])
  /\ UNCHANGED <<topZ, windowSeq, grips, newer>>

\* endDrag, endResize.
EndGrip(w, g) ==
  /\ g.id = w.id
  /\ g.kind = "resize" => ~w.maximized
  /\ grips' = grips \ {g}
  /\ UNCHANGED <<windows, topZ, windowSeq, newer>>

----------------------------------------------------------------------------
\* Disconnect, and a new desktop: windowSeq is the module's and goes on.
NewDesktop ==
  /\ windows' = {} /\ grips' = {} /\ newer' = {}
  /\ topZ' = 1
  /\ UNCHANGED windowSeq

WindowStep(w) ==
  \/ PointerDown(w) \/ Minimize(w) \/ ToggleMaximize(w) \/ Close(w)
  \/ \E p \in Pointer : StartDrag(w, p) \/ StartResize(w, p)
  \/ \E g \in grips : EndGrip(w, g) \/ \E p \in Pointer : MoveGrip(w, g, p)

Next ==
  \/ \E a \in Apps : OpenApp(a)
  \/ \E w \in windows : Select(w)
  \/ \E w \in Shown : WindowStep(w)
  \/ NewDesktop

Spec == Init /\ [][Next]_vars

----------------------------------------------------------------------------
(* Properties.                                                             *)

\* The stacking order is the order of use: of two windows the one used last is above the
\* other, so that the active window is the last one used of those shown - though openApp
\* and focus count topZ in two ways, and minimising and maximising leave it alone.
StackIsRecency ==
  /\ \A v, w \in windows : v # w => <<v.id, w.id>> \in newer \/ <<w.id, v.id>> \in newer
  /\ \A v, w \in windows : <<v.id, w.id>> \in newer => v.z > w.z

\* Applications are single-instance, and ids are not used again by a later desktop.
OneWindowPerApp ==
  \A v, w \in windows : v.app = w.app \/ v.id = w.id => v = w

\* What makes them hold, step by step: ids and orders were counted out.
Counted == \A w \in windows : w.id <= windowSeq /\ w.z <= topZ

IInv == TypeOK /\ Counted /\ OneWindowPerApp /\ StackIsRecency
=============================================================================
