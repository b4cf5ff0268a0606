---------------------------- MODULE MonitorProofs ----------------------------
(***************************************************************************)
(* Theorems about the elevation dialogs, for any number of runs and        *)
(* retries, and about the system monitor whose actions they run.  The      *)
(* monitor's steps are steps of Elevation or leave its variables alone, so *)
(* that what is proved of the dialogs holds in the monitor too.            *)
(***************************************************************************)
EXTENDS Monitor, FiniteSetTheorems, TLAPS

----------------------------------------------------------------------------
(* The dialogs.                                                            *)

LEMMA ElevationInit == Init => IInv
<1> SUFFICES ASSUME Init
             PROVE  IInv
  OBVIOUS
<1>1. TypeOK
  BY DEF Init, TypeOK, Unresolved, NoRetry
<1>2. DialogHasOwner /\ Unanswered
  BY NoRunAssumption DEF Init, DialogHasOwner, Unanswered, Settled
<1>3. OkIsReal /\ RetriesOfRuns
  BY DEF Init, OkIsReal, RetriesOfRuns, Unresolved, NoRetry
<1> QED BY <1>1, <1>2, <1>3 DEF IInv

LEMMA DialogsTyped == Dialogs \subseteq {"modal1", "noticeCan", "noticeCannot"}
BY DEF Dialogs, Dialog

\* A promise is resolved once, and with what the caller says.
LEMMA ResolveOnce ==
  ASSUME TypeOK, NEW r \in Runs, NEW of \in Runs, NEW kind \in {"ok", "failed", "denied"},
         Resolve(r, of, kind)
  PROVE  /\ answer' \in [Runs -> [of : Runs \cup {NoRun}, kind : {"pending", "ok", "failed", "denied"}]]
         /\ answer'[r] # Unresolved
         /\ \A q \in Runs : q # r \/ Settled(q) => answer'[q] = answer[q]
         /\ ~Settled(r) => answer'[r] = [of |-> of, kind |-> kind]
BY DEF TypeOK, Resolve, Settled, Unresolved

LEMMA ElevationNext == IInv /\ [Next]_vars => IInv'
<1> SUFFICES ASSUME IInv, [Next]_vars
             PROVE  IInv'
  OBVIOUS
<1> USE NoRunAssumption DEF IInv
<1>1. ASSUME NEW r \in Runs, Start(r) \/ ActionThrows(r) \/ ActionDenied(r)
      PROVE  IInv'
  BY <1>1 DEF Start, ActionThrows, ActionDenied, TypeOK, DialogHasOwner, OkIsReal, Unanswered,
              RetriesOfRuns, Settled
<1>2. ASSUME NEW r \in Runs, NEW kind \in {"ok", "failed", "denied"},
             run[r] \in {"acting", "probing"}, run' = [run EXCEPT ![r] = "done"],
             Resolve(r, r, kind),
             UNCHANGED <<retry, current, stage, busy, transitioning, ranElevated>>
      PROVE  IInv'
  <2>1. /\ \A q \in Runs : q # r => answer'[q] = answer[q]
        /\ ~Settled(r) => answer'[r] = [of |-> r, kind |-> kind]
        /\ Settled(r) => answer'[r] = answer[r]
        /\ answer' \in [Runs -> [of : Runs \cup {NoRun}, kind : {"pending", "ok", "failed", "denied"}]]
    BY <1>2, ResolveOnce
  <2>2. TypeOK'
    BY <1>2, <2>1 DEF TypeOK
  <2>3. OkIsReal'
    BY <1>2, <2>1 DEF OkIsReal
  <2>4. DialogHasOwner' /\ Unanswered' /\ RetriesOfRuns'
    BY <1>2, <2>1 DEF DialogHasOwner, Unanswered, RetriesOfRuns, Settled, TypeOK
  <2> QED BY <2>2, <2>3, <2>4
<1>3. ASSUME NEW r \in Runs, NEW dialog \in Dialogs, ProbeEnds(r, dialog)
      PROVE  IInv'
  BY <1>3, DialogsTyped DEF ProbeEnds, TypeOK, DialogHasOwner, OkIsReal, Unanswered,
                            RetriesOfRuns, Settled
<1>4. ASSUME NEW a \in Retries, Apply(a)
      PROVE  IInv'
  BY <1>4 DEF Apply, TypeOK, DialogHasOwner, OkIsReal, Unanswered, RetriesOfRuns, Settled
<1>5. ASSUME NEW a \in Retries, ApplyOk(a)
      PROVE  IInv'
  <2>1. retry[a].of \in Runs
    BY <1>5 DEF ApplyOk, RetriesOfRuns
  <2>2. /\ retry' \in [Retries -> [state : {"idle", "running"}, of : Runs \cup {NoRun}]]
        /\ RetriesOfRuns'
    BY <1>5 DEF ApplyOk, TypeOK, RetriesOfRuns, NoRetry
  <2>3. CASE current = NoRun
    BY <1>5, <2>1, <2>2, <2>3 DEF ApplyOk, reset, TypeOK, DialogHasOwner, OkIsReal, Unanswered,
                                  Settled
  <2>4. CASE current # NoRun
    <3>1. current \in Runs /\ Resolve(current, retry[a].of, "ok")
      BY <1>5, <2>4 DEF ApplyOk, TypeOK
    <3>2. \A q \in Runs : q # current \/ Settled(q) => answer'[q] = answer[q]
      BY <2>1, <3>1, ResolveOnce
    <3>3. TypeOK'
      BY <1>5, <2>1, <2>2, <3>1, ResolveOnce DEF ApplyOk, reset, TypeOK
    <3>4. answer'[current] = [of |-> retry[a].of, kind |-> "ok"]
      BY <2>1, <2>4, <3>1, ResolveOnce DEF DialogHasOwner
    <3>5. OkIsReal'
      BY <1>5, <3>1, <3>2, <3>4 DEF ApplyOk, OkIsReal
    <3>6. DialogHasOwner' /\ Unanswered'
      BY <1>5, <2>4, <3>1, <3>2 DEF ApplyOk, reset, DialogHasOwner, Unanswered, Settled, TypeOK
    <3> QED BY <2>2, <3>3, <3>5, <3>6
  <2> QED BY <2>3, <2>4
<1>6. ASSUME NEW a \in Retries, ApplyFails(a)
      PROVE  IInv'
  BY <1>6 DEF ApplyFails, NoRetry, TypeOK, DialogHasOwner, OkIsReal, Unanswered, RetriesOfRuns,
              Settled
<1>7. CASE HaveAdmin
  BY <1>7 DEF HaveAdmin, TypeOK, DialogHasOwner, OkIsReal, Unanswered, RetriesOfRuns, Settled
<1>8. CASE Cancel
  <2>1. CASE transitioning
    BY <1>8, <2>1 DEF Cancel, TypeOK, DialogHasOwner, OkIsReal, Unanswered, RetriesOfRuns, Settled
  <2>2. CASE ~transitioning
    <3>1. current \in Runs /\ Resolve(current, current, "denied")
      BY <1>8, <2>2 DEF Cancel, TypeOK, DialogHasOwner
    <3>2. /\ \A q \in Runs : q # current \/ Settled(q) => answer'[q] = answer[q]
          /\ answer'[current] = [of |-> current, kind |-> "denied"]
      BY <1>8, <2>2, <3>1, ResolveOnce DEF DialogHasOwner, Cancel, TypeOK
    <3>3. TypeOK'
      BY <1>8, <2>2, <3>1, ResolveOnce DEF Cancel, reset, TypeOK
    <3>4. OkIsReal'
      BY <1>8, <3>1, <3>2 DEF Cancel, OkIsReal
    <3>5. DialogHasOwner' /\ Unanswered' /\ RetriesOfRuns'
      BY <1>8, <2>2, <3>1, <3>2
         DEF Cancel, reset, DialogHasOwner, Unanswered, RetriesOfRuns, Settled, TypeOK
    <3> QED BY <3>3, <3>4, <3>5
  <2> QED BY <2>1, <2>2
<1>9. CASE UNCHANGED vars
  BY <1>9 DEF vars, TypeOK, DialogHasOwner, OkIsReal, Unanswered, RetriesOfRuns, Settled
<1> QED
  <2>1. ASSUME NEW r \in Runs, RunStep(r)
        PROVE  IInv'
    BY <1>1, <1>2, <1>3, <2>1 DEF RunStep, ProbeFails, ActionEnds
  <2> QED BY <1>4, <1>5, <1>6, <1>7, <1>8, <1>9, <2>1 DEF Next

\* The inductive invariant of the dialogs holds.
LEMMA DialogsInv == Spec => []IInv
<1> QED BY ElevationInit, ElevationNext, PTL DEF Spec

----------------------------------------------------------------------------
(* The monitor.                                                            *)

\* Whatever the monitor does, the dialogs take a step of their own or none.
LEMMA MonitorTakesSteps == [MonitorNext]_allVars => [Next]_vars
<1> SUFFICES ASSUME [MonitorNext]_allVars
             PROVE  [Next]_vars
  OBVIOUS
<1>1. CASE \E r \in Runs : Start(r) /\ Confirm
  BY <1>1 DEF Next, RunStep
<1>2. CASE \E r \in Runs : Elevating(Answers(r))
  BY <1>2 DEF Elevating, Answers, Next, RunStep
<1>3. CASE \E a \in Retries : Elevating(Apply(a) \/ ApplyOk(a) \/ ApplyFails(a))
  BY <1>3 DEF Elevating, Next
<1>4. CASE Elevating(HaveAdmin \/ Cancel)
  BY <1>4 DEF Elevating, Next
<1>5. CASE UNCHANGED vars
  BY <1>5
<1> QED BY <1>1, <1>2, <1>3, <1>4, <1>5 DEF MonitorNext, allVars

\* A promise that is resolved stays as it is.
LEMMA AnswersStay ==
  ASSUME IInv, [Next]_vars, NEW r \in Runs, Settled(r)
  PROVE  answer'[r] = answer[r]
<1> USE DEF IInv
<1>1. ASSUME NEW q \in Runs, RunStep(q)
      PROVE  answer'[r] = answer[r]
  BY <1>1, ResolveOnce
     DEF RunStep, Start, ActionThrows, ActionDenied, ProbeFails, ActionEnds, ProbeEnds
<1>2. ASSUME NEW a \in Retries, ApplyOk(a)
      PROVE  answer'[r] = answer[r]
  <2>1. retry[a].of \in Runs
    BY <1>2 DEF ApplyOk, RetriesOfRuns
  <2>2. current # NoRun => current \in Runs
    BY DEF TypeOK
  <2> QED BY <1>2, <2>1, <2>2, ResolveOnce DEF ApplyOk
<1>3. ASSUME NEW a \in Retries, Apply(a) \/ ApplyFails(a)
      PROVE  answer'[r] = answer[r]
  BY <1>3 DEF Apply, ApplyFails
<1>4. CASE HaveAdmin \/ UNCHANGED vars
  BY <1>4 DEF HaveAdmin, vars
<1>5. CASE Cancel
  <2>1. current \in Runs
    BY <1>5 DEF Cancel, DialogHasOwner, TypeOK
  <2> QED BY <1>5, <2>1, ResolveOnce DEF Cancel
<1> QED BY <1>1, <1>2, <1>3, <1>4, <1>5 DEF Next

LEMMA MonitorInitInv == MonitorInit => MonitorInv
<1> SUFFICES ASSUME MonitorInit
             PROVE  MonitorInv
  OBVIOUS
<1>1. TypeOK
  BY ElevationInit DEF MonitorInit, IInv
<1>2. MonitorTypeOK
  <2>1. 0 \in 0..MaxTick /\ 0 \in 0..0 /\ {} \in SUBSET {}
    BY MaxTickAssumption
  <2>2. Idle \in [state : {"idle", "sent", "served"}, tick : 0..0, metrics : BOOLEAN,
                  procs : BOOLEAN, seen : SUBSET {}]
    BY <2>1 DEF Idle
  <2> QED BY <1>1, <2>1, <2>2 DEF MonitorInit, MonitorTypeOK
<1>3. OkTookEffect
  BY DEF MonitorInit, Init, OkTookEffect, Unresolved
<1>4. FreshPolls /\ FreshAfterAction
  BY DEF MonitorInit, FreshPolls, FreshAfterAction
<1>5. ReloadsLeft
  <2>1. Runs \ reported = Runs
    BY DEF MonitorInit
  <2> QED BY <2>1, MaxTickAssumption, FS_CardinalityType DEF MonitorInit, ReloadsLeft
<1> QED BY <1>2, <1>3, <1>4, <1>5 DEF MonitorInv

\* A step of the dialogs: it says "ok" of what ran, and leaves the monitor as it is.
LEMMA ElevatingInv ==
  ASSUME IInv, MonitorInv, [Next]_vars, TypeOK', OkTookEffect', UNCHANGED <<effects, reported, tick, poll, screen, procs>>,
         pending' \in BOOLEAN
  PROVE  MonitorInv'
<1> USE DEF MonitorInv
<1>1. reported \subseteq {r \in Runs : Settled(r)}
  BY DEF MonitorTypeOK
<1>2. \A r \in reported : Settled(r) /\ answer'[r] = answer[r]
  BY <1>1, AnswersStay
<1>3. MonitorTypeOK'
  BY <1>1, <1>2 DEF MonitorTypeOK, Settled
<1>4. FreshPolls' /\ FreshAfterAction'
  BY <1>1, <1>2 DEF FreshPolls, FreshAfterAction
<1>5. ReloadsLeft'
  BY DEF ReloadsLeft
<1> QED BY <1>3, <1>4, <1>5

\* A step of the application: the dialogs stay as they are.
LEMMA MonitorStepInv ==
  ASSUME IInv, MonitorInv, MonitorStep, UNCHANGED vars
  PROVE  MonitorInv'
<1> USE DEF MonitorInv
<1>0. /\ TypeOK' /\ answer' = answer
      /\ \A r \in Runs : Settled(r)' <=> Settled(r)
  BY DEF MonitorTypeOK, TypeOK, vars, Settled
<1>1. ASSUME NEW p \in Polls, Poll(p)
      PROVE  MonitorInv'
  <2>1. [Idle EXCEPT !.state = "sent", !.tick = tick]
          \in [state : {"idle", "sent", "served"}, tick : 0..tick, metrics : BOOLEAN,
              procs : BOOLEAN, seen : SUBSET effects]
    <3>1. tick \in 0..tick
      BY MaxTickAssumption DEF MonitorTypeOK
    <3> QED BY <3>1 DEF Idle
  <2>2. MonitorTypeOK'
    BY <1>0, <1>1, <2>1 DEF Poll, MonitorTypeOK
  <2>3. FreshPolls'
    BY <1>0, <1>1 DEF Poll, Idle, MonitorTypeOK, FreshPolls
  <2> QED BY <1>0, <1>1, <2>2, <2>3 DEF Poll, OkTookEffect, FreshAfterAction, ReloadsLeft
<1>2. ASSUME NEW p \in Polls, NEW m \in BOOLEAN, NEW l \in BOOLEAN, Serve(p, m, l)
      PROVE  MonitorInv'
  <2>1. \A r \in reported : answer[r].kind = "ok" => answer[r].of \in effects
    BY DEF MonitorTypeOK, OkTookEffect
  <2>2. MonitorTypeOK'
    <3>1. (m \/ screen = "shown") \in BOOLEAN /\ l \in BOOLEAN
      BY Zenon
    <3>2. (IF l THEN effects ELSE {}) \in SUBSET effects
      OBVIOUS
    <3>3. poll[p] \in [state : {"idle", "sent", "served"}, tick : 0..tick, metrics : BOOLEAN,
                       procs : BOOLEAN, seen : SUBSET effects]
      BY DEF MonitorTypeOK
    <3>4. [poll[p] EXCEPT !.state = "served", !.metrics = m \/ screen = "shown", !.procs = l,
                          !.seen = IF l THEN effects ELSE {}]
            \in [state : {"idle", "sent", "served"}, tick : 0..tick, metrics : BOOLEAN,
                procs : BOOLEAN, seen : SUBSET effects]
      BY <3>1, <3>2, <3>3
    <3> QED BY <1>0, <1>2, <3>4 DEF Serve, MonitorTypeOK
  <2>3. FreshPolls'
    BY <1>0, <1>2, <2>1 DEF Serve, MonitorTypeOK, FreshPolls
  <2> QED BY <1>0, <1>2, <2>2, <2>3 DEF Serve, OkTookEffect, FreshAfterAction, ReloadsLeft
<1>3. ASSUME NEW p \in Polls, Deliver(p)
      PROVE  MonitorInv'
  <2>1. MonitorTypeOK'
    BY <1>0, <1>3 DEF Deliver, Idle, MonitorTypeOK
  <2>2. FreshPolls'
    BY <1>0, <1>3 DEF Deliver, Idle, MonitorTypeOK, FreshPolls
  <2>3. FreshAfterAction'
    BY <1>0, <1>3 DEF Deliver, MonitorTypeOK, FreshPolls, FreshAfterAction
  <2> QED BY <1>0, <1>3, <2>1, <2>2, <2>3 DEF Deliver, OkTookEffect, ReloadsLeft
<1>4. tick \in Nat /\ Cardinality(Runs \ reported) \in Nat
  <2>1. IsFiniteSet(Runs \ reported)
    BY MaxTickAssumption, FS_Difference
  <2>2. tick \in Nat
    BY MaxTickAssumption DEF MonitorTypeOK
  <2> QED BY <2>1, <2>2, FS_CardinalityType
<1>5. CASE Refresh
  <2>1. tick' \in 0..MaxTick /\ tick' = tick + 1
    BY <1>4, <1>5, MaxTickAssumption DEF Refresh
  <2>2. MonitorTypeOK'
    BY <1>0, <1>4, <1>5, <2>1 DEF Refresh, MonitorTypeOK
  <2>3. FreshPolls' /\ FreshAfterAction'
    BY <1>4, <1>5, <2>1 DEF Refresh, MonitorTypeOK, FreshPolls, FreshAfterAction
  <2>4. ReloadsLeft'
    BY <1>4, <1>5, MaxTickAssumption DEF Refresh, ReloadsLeft
  <2> QED BY <1>0, <1>5, <2>2, <2>3, <2>4 DEF Refresh, OkTookEffect
<1>6. CASE Ask \/ CancelAsk
  BY <1>0, <1>6 DEF Ask, CancelAsk, MonitorTypeOK, OkTookEffect, FreshPolls, FreshAfterAction,
                    ReloadsLeft
<1>7. ASSUME NEW r \in Runs, Act(r)
      PROVE  MonitorInv'
  BY <1>0, <1>7 DEF Act, MonitorTypeOK, OkTookEffect, FreshPolls, FreshAfterAction, ReloadsLeft
<1>8. ASSUME NEW r \in Runs, Report(r)
      PROVE  MonitorInv'
  <2>1. /\ Runs \ reported' = (Runs \ reported) \ {r}
        /\ r \in Runs \ reported
    BY <1>8 DEF Report
  <2>2. Cardinality(Runs \ reported') = Cardinality(Runs \ reported) - 1
    BY <2>1, MaxTickAssumption, FS_Difference, FS_RemoveElement
  <2>3. tick' \in 0..MaxTick /\ ReloadsLeft' /\ (answer[r].kind = "ok" => tick' = tick + 1)
        /\ (answer[r].kind # "ok" => tick' = tick)
    <3>1. Cardinality(Runs \ reported') \in Nat
      BY MaxTickAssumption, FS_Difference, FS_CardinalityType
    <3> QED BY <1>4, <1>8, <2>2, <3>1, MaxTickAssumption DEF Report, ReloadsLeft
  <2>4. MonitorTypeOK'
    BY <1>0, <1>4, <1>8, <2>3 DEF Report, MonitorTypeOK
  <2>5. FreshPolls'
    BY <1>0, <1>4, <1>8, <2>3 DEF Report, MonitorTypeOK, FreshPolls
  <2>6. FreshAfterAction'
    BY <1>0, <1>4, <1>8, <2>3 DEF Report, MonitorTypeOK, FreshAfterAction
  <2> QED BY <1>0, <1>8, <2>3, <2>4, <2>5, <2>6 DEF Report, OkTookEffect
<1> QED BY <1>1, <1>2, <1>3, <1>5, <1>6, <1>7, <1>8 DEF MonitorStep

LEMMA MonitorNextInv ==
  ASSUME IInv, MonitorInv, [MonitorNext]_allVars
  PROVE  MonitorInv'
<1>0. [Next]_vars /\ IInv'
  BY MonitorTakesSteps, ElevationNext
<1>1. TypeOK'
  BY <1>0 DEF IInv
<1>2. ASSUME NEW r \in Runs, Start(r), Confirm
      PROVE  MonitorInv'
  BY <1>0, <1>1, <1>2, ElevatingInv DEF Start, Confirm, OkTookEffect, MonitorInv
<1>3. ASSUME OkRan, UNCHANGED monitorVars
      PROVE  MonitorInv'
  <2>1. OkTookEffect' /\ pending' \in BOOLEAN
    BY <1>3 DEF OkRan, OkTookEffect, monitorVars, MonitorInv, MonitorTypeOK
  <2> QED BY <1>0, <1>1, <1>3, <2>1, ElevatingInv DEF monitorVars
<1>4. CASE MonitorStep /\ UNCHANGED vars
  BY <1>4, MonitorStepInv
<1>5. CASE UNCHANGED allVars
  BY <1>0, <1>1, <1>5, ElevatingInv
     DEF allVars, vars, monitorVars, OkTookEffect, MonitorInv, MonitorTypeOK
<1> QED BY <1>2, <1>3, <1>4, <1>5 DEF MonitorNext, Elevating

\* Both inductive invariants hold of the monitor and its dialogs.
LEMMA Invariance == MonitorSpec => [](IInv /\ MonitorInv)
<1>1. MonitorInit => IInv /\ MonitorInv
  BY ElevationInit, MonitorInitInv DEF MonitorInit
<1>2. IInv /\ MonitorInv /\ [MonitorNext]_allVars => IInv' /\ MonitorInv'
  BY MonitorTakesSteps, ElevationNext, MonitorNextInv
<1> QED BY <1>1, <1>2, PTL DEF MonitorSpec

----------------------------------------------------------------------------
(* What follows.                                                           *)

\* The variables of the hook keep their types, alone and under the monitor (useElevation).
THEOREM TypeCorrect == Spec => []TypeOK
<1>1. IInv => TypeOK
  BY DEF IInv
<1> QED BY <1>1, DialogsInv, PTL

THEOREM MonitorTypeCorrect == MonitorSpec => []MonitorTypeOK
<1>1. MonitorInv => MonitorTypeOK
  BY DEF MonitorInv
<1> QED BY <1>1, Invariance, PTL

\* A dialog is open exactly while the refs belong to a run, whose promise is pending: no
\* dialog is left whose buttons act on nothing, however many runs and retries overlap.
THEOREM OwnedDialogs == MonitorSpec => []DialogHasOwner
<1>1. IInv => DialogHasOwner
  BY DEF IInv
<1> QED BY <1>1, Invariance, PTL

\* "ok" is said only of an action that succeeded: the run's own, or an elevated one.
THEOREM OkReal == MonitorSpec => []OkIsReal
<1>1. IInv => OkIsReal
  BY DEF IInv
<1> QED BY <1>1, Invariance, PTL

\* A process list asked for by the running effect shows every action that was reported to
\* have succeeded (confirmPending reloads; an answer of an earlier effect is ignored).
THEOREM ListsFresh == MonitorSpec => []FreshAfterAction
<1>1. MonitorInv => FreshAfterAction
  BY DEF MonitorInv
<1> QED BY <1>1, Invariance, PTL

\* A promise that was resolved keeps its result, whatever retry still comes back: the later
\* resolve of a promise does nothing (useElevation.tsx, apply and cancel).
THEOREM ResultsStay ==
  MonitorSpec => [][\A r \in Runs : Settled(r) => answer'[r] = answer[r]]_answer
<1>1. IInv /\ [MonitorNext]_allVars => [\A r \in Runs : Settled(r) => answer'[r] = answer[r]]_answer
  BY MonitorTakesSteps, AnswersStay
<1> QED BY <1>1, Invariance, PTL DEF MonitorSpec

\* The monitor uses the dialogs as Elevation has them.
THEOREM UsesDialogs == MonitorSpec => Spec
<1>1. MonitorInit => Init
  BY DEF MonitorInit
<1> QED BY <1>1, MonitorTakesSteps, PTL DEF MonitorSpec, Spec
=============================================================================
