--------------------------- MODULE WindowsProofs ---------------------------
(***************************************************************************)
(* Theorems about the window manager, for any set of applications and any  *)
(* bounds: every window that is used goes on top of all others, whichever  *)
(* handler it was used through.                                            *)
(***************************************************************************)
EXTENDS Windows, TLAPS

LEMMA InitInv == Init => IInv
BY DEF Init, IInv, TypeOK, Counted, OneWindowPerApp, StackIsRecency

\* A window that changes without being used keeps its place in the order.
LEMMA KeptInv ==
  ASSUME IInv, NEW w \in windows, NEW v \in Window, Becomes(w, v),
         v.id = w.id, v.app = w.app, v.z = w.z, v.size >= MinSize,
         grips' \subseteq Grip, UNCHANGED <<topZ, windowSeq, newer>>
  PROVE  IInv'
<1>1. \A u \in windows' : u = v \/ (u \in windows /\ u # w)
  BY DEF Becomes
<1>2. TypeOK'
  BY <1>1 DEF IInv, TypeOK
<1>3. Counted'
  BY <1>1 DEF IInv, Counted
<1>4. OneWindowPerApp'
  BY <1>1 DEF IInv, OneWindowPerApp
<1>5. StackIsRecency'
  BY <1>1 DEF IInv, OneWindowPerApp, StackIsRecency
<1> QED BY <1>2, <1>3, <1>4, <1>5 DEF IInv

\* A window that is used is numbered above every other.
LEMMA RaisedInv ==
  ASSUME IInv, NEW w \in windows, NEW v \in Window, Becomes(w, v), Used(w.id, Ids),
         v.id = w.id, v.app = w.app, v.z > topZ, v.size >= MinSize,
         topZ' = v.z, grips' \subseteq Grip, UNCHANGED windowSeq
  PROVE  IInv'
<1>1. \A u \in windows' : u = v \/ (u \in windows /\ u # w /\ u.id # w.id /\ u.z <= topZ)
  BY DEF Becomes, IInv, OneWindowPerApp, Counted
<1>2. w.id \in Nat /\ topZ \in Nat /\ v.z \in Nat /\ \A u \in windows : u \in Window
  BY DEF IInv, TypeOK, Window
<1>3. TypeOK'
  <2>1. newer' \subseteq Nat \X Nat
    BY <1>2 DEF Used, Ids, IInv, TypeOK, Window
  <2> QED BY <1>1, <1>2, <2>1 DEF IInv, TypeOK
<1>4. Counted'
  BY <1>1, <1>2 DEF IInv, Counted, Window
<1>5. OneWindowPerApp'
  BY <1>1 DEF IInv, OneWindowPerApp
<1>6. StackIsRecency'
  <2>1. \A i, j : <<i, j>> \in newer' <=>
          \/ <<i, j>> \in newer /\ w.id # i /\ w.id # j
          \/ i = w.id /\ j \in Ids /\ j # w.id
    BY DEF Used, IInv, TypeOK
  <2>2. \A u \in windows' : u # v => u.id \in Ids /\ u.id # v.id /\ v.z > u.z
    BY <1>1, <1>2 DEF Ids, Window
  <2>3. \A t, u \in windows' : t # u => <<t.id, u.id>> \in newer' \/ <<u.id, t.id>> \in newer'
    BY <1>1, <2>1, <2>2 DEF IInv, StackIsRecency
  <2>4. \A t, u \in windows' : <<t.id, u.id>> \in newer' => t.z > u.z
    BY <1>1, <2>1, <2>2 DEF IInv, StackIsRecency
  <2> QED BY <2>3, <2>4 DEF StackIsRecency
<1> QED BY <1>3, <1>4, <1>5, <1>6 DEF IInv

\* A window that is opened is numbered above every other, and by an id never given before.
LEMMA OpenedInv ==
  ASSUME IInv, NEW a \in Apps, Running(a) = {}, windows' = windows \cup {NewWindow(a)},
         Used(windowSeq + 1, Ids), windowSeq' = windowSeq + 1, topZ' = NextZ,
         UNCHANGED grips
  PROVE  IInv'
<1> DEFINE v == NewWindow(a)
<1>1. /\ v \in Window /\ v.id = windowSeq + 1 /\ v.z = topZ + 1 /\ v.app = a
      /\ v.size >= MinSize
  BY SizeAssumption DEF IInv, TypeOK, NewWindow, Window, NextZ
<1>2. topZ \in Nat /\ windowSeq \in Nat /\ \A u \in windows : u \in Window
  BY DEF IInv, TypeOK
<1>3. \A u \in windows : u.id # v.id /\ v.z > u.z /\ u.app # a /\ u.id \in Ids
  BY <1>1, <1>2 DEF IInv, Counted, Window, Running, Ids
<1>4. windows' = windows \cup {v}
  OBVIOUS
<1> HIDE DEF v
<1>5. TypeOK'
  <2>1. newer' \subseteq Nat \X Nat
    BY <1>2 DEF Used, Ids, IInv, TypeOK, Window
  <2> QED BY <1>1, <1>2, <1>4, <2>1 DEF IInv, TypeOK, NextZ
<1>6. Counted'
  BY <1>1, <1>2, <1>4 DEF IInv, Counted, Window, NextZ
<1>7. OneWindowPerApp'
  BY <1>1, <1>3, <1>4 DEF IInv, OneWindowPerApp
<1>8. StackIsRecency'
  <2>1. \A i, j : <<i, j>> \in newer' <=>
          \/ <<i, j>> \in newer /\ v.id # i /\ v.id # j
          \/ i = v.id /\ j \in Ids /\ j # v.id
    BY <1>1 DEF Used, IInv, TypeOK
  <2>2. \A t, u \in windows' : t # u => <<t.id, u.id>> \in newer' \/ <<u.id, t.id>> \in newer'
    BY <1>3, <1>4, <2>1 DEF IInv, StackIsRecency
  <2>3. \A t, u \in windows' : <<t.id, u.id>> \in newer' => t.z > u.z
    BY <1>3, <1>4, <2>1 DEF IInv, StackIsRecency
  <2> QED BY <2>2, <2>3 DEF StackIsRecency
<1> QED BY <1>5, <1>6, <1>7, <1>8 DEF IInv

LEMMA FocusInv ==
  ASSUME IInv, NEW w \in windows, NEW n \in {1, 2}, Focus(w, n),
         grips' \subseteq Grip, UNCHANGED windowSeq
  PROVE  IInv'
<1> DEFINE v == [w EXCEPT !.z = topZ + n, !.minimized = FALSE]
<1>1. topZ \in Nat /\ w \in Window /\ w.size >= MinSize
  BY DEF IInv, TypeOK
<1>2. topZ + n \in Nat /\ topZ + n > topZ
  BY <1>1
<1>3. v \in Window
  BY <1>1, <1>2 DEF Window
<1>4. v.id = w.id /\ v.app = w.app /\ v.z = topZ + n /\ v.size = w.size
  BY <1>1 DEF Window
<1>5. /\ v \in Window /\ v.id = w.id /\ v.app = w.app /\ v.z = topZ + n
      /\ v.size >= MinSize /\ v.z > topZ
  BY <1>1, <1>2, <1>3, <1>4
<1>6. Becomes(w, v) /\ Used(w.id, Ids) /\ topZ' = topZ + n
  BY DEF Focus
<1> HIDE DEF v
<1> QED BY <1>5, <1>6, RaisedInv

LEMMA OpenAppInv ==
  ASSUME IInv, NEW a \in Apps, OpenApp(a)
  PROVE  IInv'
<1>1. CASE Running(a) = {}
  BY <1>1, OpenedInv DEF OpenApp
<1>2. ASSUME NEW w \in Running(a), Becomes(w, [w EXCEPT !.z = NextZ, !.minimized = FALSE]),
             Used(w.id, Ids), UNCHANGED windowSeq
      PROVE  IInv'
  <2> DEFINE v == [w EXCEPT !.z = NextZ, !.minimized = FALSE]
  <2>1. topZ \in Nat /\ w \in windows /\ w \in Window /\ w.size >= MinSize
    BY DEF IInv, TypeOK, Running
  <2>2. NextZ \in Nat /\ NextZ > topZ
    BY <2>1 DEF NextZ
  <2>3. v \in Window
    BY <2>1, <2>2 DEF Window
  <2>4. v.id = w.id /\ v.app = w.app /\ v.z = NextZ /\ v.size = w.size
    BY <2>1 DEF Window
  <2>5. /\ v \in Window /\ v.id = w.id /\ v.app = w.app /\ v.z = NextZ
        /\ v.size >= MinSize /\ v.z > topZ
    BY <2>1, <2>2, <2>3, <2>4
  <2>6. Becomes(w, v) /\ topZ' = v.z /\ grips' \subseteq Grip
    BY <1>2, <2>5 DEF OpenApp, IInv, TypeOK
  <2> HIDE DEF v
  <2> QED BY <1>2, <2>1, <2>5, <2>6, RaisedInv
<1> QED BY <1>1, <1>2 DEF OpenApp

LEMMA CloseInv ==
  ASSUME IInv, NEW w \in windows, Close(w)
  PROVE  IInv'
<1>1. /\ \A u \in windows' : u \in windows /\ u.id # w.id
      /\ grips' \subseteq grips /\ newer' \subseteq newer
      /\ UNCHANGED <<topZ, windowSeq>>
  BY DEF Close, Ungrip, IInv, OneWindowPerApp
<1>2. TypeOK' /\ Counted' /\ OneWindowPerApp'
  BY <1>1 DEF IInv, TypeOK, Counted, OneWindowPerApp
<1>3. \A u, v \in windows' : <<u.id, v.id>> \in newer <=> <<u.id, v.id>> \in newer'
  BY <1>1 DEF Close
<1>4. StackIsRecency'
  BY <1>1, <1>3 DEF IInv, StackIsRecency
<1> QED BY <1>2, <1>4 DEF IInv

LEMMA MoveGripInv ==
  ASSUME IInv, NEW w \in windows, NEW g \in grips, NEW p \in Pointer, MoveGrip(w, g, p)
  PROVE  IInv'
<1>1. /\ w \in Window /\ w.size >= MinSize /\ MinSize \in Nat /\ g \in Grip
      /\ p \in Int /\ g.at \in Int /\ g.from \in Nat
  BY SizeAssumption, PointerAssumption DEF IInv, TypeOK, Grip
<1>2. NewPlace(g, p) \in Nat /\ NewSize(g, p) \in Nat /\ NewSize(g, p) >= MinSize
  BY <1>1 DEF NewPlace, NewSize, AtLeast
<1>3. grips' \subseteq Grip /\ UNCHANGED <<topZ, windowSeq, newer>>
  BY DEF MoveGrip, IInv, TypeOK
<1>4. CASE Becomes(w, [w EXCEPT !.x = NewPlace(g, p)])
  <2> DEFINE v == [w EXCEPT !.x = NewPlace(g, p)]
  <2>1. v \in Window /\ v.id = w.id /\ v.app = w.app /\ v.z = w.z /\ v.size >= MinSize
    BY <1>1, <1>2 DEF Window
  <2>2. Becomes(w, v)
    BY <1>4
  <2> HIDE DEF v
  <2> QED BY <1>3, <2>1, <2>2, KeptInv
<1>5. CASE Becomes(w, [w EXCEPT !.size = NewSize(g, p)])
  <2> DEFINE v == [w EXCEPT !.size = NewSize(g, p)]
  <2>1. v \in Window /\ v.id = w.id /\ v.app = w.app /\ v.z = w.z /\ v.size >= MinSize
    BY <1>1, <1>2 DEF Window
  <2>2. Becomes(w, v)
    BY <1>5
  <2> HIDE DEF v
  <2> QED BY <1>3, <2>1, <2>2, KeptInv
<1> QED BY <1>4, <1>5 DEF MoveGrip

LEMMA GrabType ==
  ASSUME IInv, NEW w \in windows, NEW kind \in {"drag", "resize"}, NEW p \in Pointer,
         NEW from \in Nat, Grab(w, kind, p, from)
  PROVE  grips' \subseteq Grip
<1>1. w.id \in Nat
  BY DEF IInv, TypeOK, Window
<1>2. [id |-> w.id, kind |-> kind, at |-> p, from |-> from] \in Grip
  BY <1>1 DEF Grip
<1> QED BY <1>2 DEF Grab, IInv, TypeOK

LEMMA WindowStepInv ==
  ASSUME IInv, NEW w \in Shown, WindowStep(w)
  PROVE  IInv'
<1>1. w \in windows /\ w \in Window /\ w.size >= MinSize /\ grips \subseteq Grip
  BY DEF IInv, TypeOK, Shown
<1>2. CASE PointerDown(w)
  BY <1>1, <1>2, FocusInv DEF PointerDown
<1>3. CASE Minimize(w)
  <2> DEFINE v == [w EXCEPT !.minimized = TRUE]
  <2>1. v \in Window /\ v.id = w.id /\ v.app = w.app /\ v.z = w.z /\ v.size >= MinSize
    BY <1>1 DEF Window
  <2>2. Becomes(w, v) /\ grips' \subseteq Grip /\ UNCHANGED <<topZ, windowSeq, newer>>
    BY <1>1, <1>3 DEF Minimize, Ungrip
  <2> HIDE DEF v
  <2> QED BY <1>1, <2>1, <2>2, KeptInv
<1>4. CASE ToggleMaximize(w)
  <2> DEFINE v == [w EXCEPT !.maximized = ~w.maximized]
  <2>1. v \in Window /\ v.id = w.id /\ v.app = w.app /\ v.z = w.z /\ v.size >= MinSize
    BY <1>1 DEF Window
  <2>2. Becomes(w, v) /\ grips' \subseteq Grip /\ UNCHANGED <<topZ, windowSeq, newer>>
    BY <1>1, <1>4 DEF ToggleMaximize
  <2> HIDE DEF v
  <2> QED BY <1>1, <2>1, <2>2, KeptInv
<1>5. CASE Close(w)
  BY <1>1, <1>5, CloseInv
<1>6. ASSUME NEW p \in Pointer, StartDrag(w, p)
      PROVE  IInv'
  <2>1. w.x \in Nat
    BY <1>1 DEF Window
  <2>2. grips' \subseteq Grip
    BY <1>1, <1>6, <2>1, GrabType DEF StartDrag
  <2> QED BY <1>1, <1>6, <2>2, FocusInv DEF StartDrag
<1>7. ASSUME NEW p \in Pointer, StartResize(w, p)
      PROVE  IInv'
  <2>1. w.size \in Nat
    BY <1>1 DEF Window
  <2>2. grips' \subseteq Grip
    BY <1>1, <1>7, <2>1, GrabType DEF StartResize
  <2> QED BY <1>1, <1>7, <2>2, FocusInv DEF StartResize
<1>8. ASSUME NEW g \in grips, EndGrip(w, g)
      PROVE  IInv'
  BY <1>8 DEF EndGrip, IInv, TypeOK, Counted, OneWindowPerApp, StackIsRecency
<1>9. ASSUME NEW g \in grips, NEW p \in Pointer, MoveGrip(w, g, p)
      PROVE  IInv'
  BY <1>1, <1>9, MoveGripInv
<1> QED BY <1>2, <1>3, <1>4, <1>5, <1>6, <1>7, <1>8, <1>9 DEF WindowStep

LEMMA NextInv == IInv /\ [Next]_vars => IInv'
<1> SUFFICES ASSUME IInv, [Next]_vars
             PROVE  IInv'
  OBVIOUS
<1>1. ASSUME NEW a \in Apps, OpenApp(a)
      PROVE  IInv'
  BY <1>1, OpenAppInv
<1>2. ASSUME NEW w \in windows, Select(w)
      PROVE  IInv'
  BY <1>2, FocusInv DEF Select, IInv, TypeOK
<1>3. ASSUME NEW w \in Shown, WindowStep(w)
      PROVE  IInv'
  BY <1>3, WindowStepInv
<1>4. CASE NewDesktop
  BY <1>4 DEF NewDesktop, IInv, TypeOK, Counted, OneWindowPerApp, StackIsRecency
<1>5. CASE UNCHANGED vars
  BY <1>5 DEF vars, IInv, TypeOK, Counted, OneWindowPerApp, StackIsRecency
<1> QED BY <1>1, <1>2, <1>3, <1>4, <1>5 DEF Next

\* The invariant that carries the three theorems below.
THEOREM Inductive == Spec => []IInv
BY InitInv, NextInv, PTL DEF Spec

\* The variables keep their types, and no window gets smaller than the least size.
THEOREM TypeCorrect == Spec => []TypeOK
<1>1. IInv => TypeOK
  BY DEF IInv
<1> QED BY <1>1, Inductive, PTL

\* The window used last is above every other, however often each was used, minimised,
\* closed and opened again.
THEOREM StackOrdered == Spec => []StackIsRecency
<1>1. IInv => StackIsRecency
  BY DEF IInv
<1> QED BY <1>1, Inductive, PTL

\* Applications have one window each, and ids are unique.
THEOREM SingleInstance == Spec => []OneWindowPerApp
<1>1. IInv => OneWindowPerApp
  BY DEF IInv
<1> QED BY <1>1, Inductive, PTL
=============================================================================
