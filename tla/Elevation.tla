----------------------------- MODULE Elevation -----------------------------
(***************************************************************************)
(* useElevation (web): run(action) runs an action; if it was denied for    *)
(* lack of privilege the hook asks what the session's user may do, opens   *)
(* the dialog that fits, and retries the action elevated.  The dialogs     *)
(* belong to the hook, one set per app window, and the hook remembers one  *)
(* run only - actionRef, resolveRef and lastRef, set and cleared together, *)
(* are the variable current - while the actions of several runs, and       *)
(* several retries, may be outstanding at a time.                          *)
(***************************************************************************)
EXTENDS FiniteSets

CONSTANTS
  Runs,        \* calls of run(action), each with its own action and promise
  Retries,     \* calls of apply that can be outstanding at once
  NoRun        \* null

ASSUME NoRunAssumption == NoRun \notin Runs

VARIABLES
  run,             \* where each run is
  answer,          \* what its promise was resolved with: whose action, and how it ended
  retry,           \* the outstanding retries, and the actions they retry
  current,         \* the run the refs belong to
  stage,           \* the open dialog
  busy,
  transitioning,   \* transitioningRef
  ranElevated      \* the runs whose action succeeded with elevated rights

vars == <<run, answer, retry, current, stage, busy, transitioning, ranElevated>>

NoRetry == [state |-> "idle", of |-> NoRun]
Unresolved == [of |-> NoRun, kind |-> "pending"]

TypeOK ==
  /\ run \in [Runs -> {"idle", "acting", "probing", "waiting", "done", "threw"}]
  /\ answer \in [Runs -> [of : Runs \cup {NoRun}, kind : {"pending", "ok", "failed", "denied"}]]
  /\ retry \in [Retries -> [state : {"idle", "running"}, of : Runs \cup {NoRun}]]
  /\ current \in Runs \cup {NoRun}
  /\ stage \in {"closed", "modal1", "noticeCan", "noticeCannot", "modal2"}
  /\ busy \in BOOLEAN
  /\ transitioning \in BOOLEAN
  /\ ranElevated \subseteq Runs

Init ==
  /\ run = [r \in Runs |-> "idle"]
  /\ answer = [r \in Runs |-> Unresolved]
  /\ retry = [a \in Retries |-> NoRetry]
  /\ current = NoRun
  /\ stage = "closed"
  /\ busy = FALSE
  /\ transitioning = FALSE
  /\ ranElevated = {}

Settled(r) == answer[r] # Unresolved

----------------------------------------------------------------------------
(* run(action).                                                            *)

\* A second resolve of a promise does nothing.
Resolve(r, of, kind) ==
  answer' = IF Settled(r) THEN answer
            ELSE [answer EXCEPT ![r] = [of |-> of, kind |-> kind]]

\* No dialog is open: it would keep the user from starting another action.
Start(r) ==
  /\ run[r] = "idle" /\ stage = "closed"
  /\ run' = [run EXCEPT ![r] = "acting"]
  /\ UNCHANGED <<answer, retry, current, stage, busy, transitioning, ranElevated>>

\* The action succeeded, or failed for another reason than privilege.
ActionEnds(r, kind) ==
  /\ run[r] = "acting"
  /\ run' = [run EXCEPT ![r] = "done"]
  /\ Resolve(r, r, kind)
  /\ UNCHANGED <<retry, current, stage, busy, transitioning, ranElevated>>

\* The request failed: the rejection leaves the promise as it is.
ActionThrows(r) ==
  /\ run[r] = "acting"
  /\ run' = [run EXCEPT ![r] = "threw"]
  /\ UNCHANGED <<answer, retry, current, stage, busy, transitioning, ranElevated>>

ActionDenied(r) ==
  /\ run[r] = "acting"
  /\ run' = [run EXCEPT ![r] = "probing"]
  /\ UNCHANGED <<answer, retry, current, stage, busy, transitioning, ranElevated>>

\* getPrivilege failed: the denied result is the final one.
ProbeFails(r) ==
  /\ run[r] = "probing"
  /\ run' = [run EXCEPT ![r] = "done"]
  /\ Resolve(r, r, "denied")
  /\ UNCHANGED <<retry, current, stage, busy, transitioning, ranElevated>>

\* What detectPrivilege can find out about the session's user, at any time.
Privileges == [isRoot : BOOLEAN, inSudoGroup : BOOLEAN, haveSudo : BOOLEAN, haveSu : BOOLEAN]

canSudo(u) == u.isRoot \/ (u.haveSudo /\ u.inSudoGroup)
escalationAvailable(u) == u.haveSudo \/ u.haveSu

\* The dialog for such a user: root, who was denied all the same, needs somebody else too.
Dialog(u) ==
  IF canSudo(u) /\ ~u.isRoot THEN "modal1"
  ELSE IF escalationAvailable(u) THEN "noticeCan" ELSE "noticeCannot"

Dialogs == {Dialog(u) : u \in Privileges}

\* The refs now belong to r, whoever they belonged to, and r's dialog opens.
ProbeEnds(r, dialog) ==
  /\ run[r] = "probing"
  /\ run' = [run EXCEPT ![r] = "waiting"]
  /\ current' = r
  /\ stage' = dialog
  /\ UNCHANGED <<answer, retry, busy, transitioning, ranElevated>>

----------------------------------------------------------------------------
(* The dialogs.                                                            *)

\* Mutant: the refs are not cleared.
resetDialog ==
  /\ stage' = "closed"
  /\ busy' = FALSE
  /\ UNCHANGED current

\* reset does not touch transitioningRef.
reset ==
  /\ stage' = "closed"
  /\ busy' = FALSE
  /\ current' = NoRun

\* "I have administrator credentials".  The notice may report that it closed, which the
\* first branch of cancel absorbs, or it may not.
HaveAdmin ==
  /\ stage = "noticeCan"
  /\ stage' = "modal2"
  /\ transitioning' \in BOOLEAN
  /\ UNCHANGED <<run, answer, retry, current, busy, ranElevated>>

\* apply: from the button, or by Enter, which does not look at busy.
Apply(a) ==
  /\ stage \in {"modal1", "modal2"}
  /\ retry[a].state = "idle"
  /\ retry' = [retry EXCEPT ![a] = [state |-> "running", of |-> current]]
  /\ busy' = TRUE
  /\ UNCHANGED <<run, answer, current, stage, transitioning, ranElevated>>

\* The retry succeeded: the promise the refs hold now is resolved with its result.
ApplyOk(a) ==
  /\ retry[a].state = "running"
  /\ retry' = [retry EXCEPT ![a] = NoRetry]
  /\ ranElevated' = ranElevated \cup {retry[a].of}
  /\ IF current # NoRun THEN Resolve(current, retry[a].of, "ok") ELSE UNCHANGED answer
  /\ reset
  /\ UNCHANGED <<run, transitioning>>

\* Mutant: any result of a retry is the final one.
ApplyFailsAsOk(a) ==
  /\ retry[a].state = "running"
  /\ retry' = [retry EXCEPT ![a] = NoRetry]
  /\ IF current # NoRun THEN Resolve(current, retry[a].of, "ok") ELSE UNCHANGED answer
  /\ reset
  /\ UNCHANGED <<run, transitioning, ranElevated>>

\* It failed or threw: the dialog stays, with the reason in it.
ApplyFails(a) ==
  /\ retry[a].state = "running"
  /\ retry' = [retry EXCEPT ![a] = NoRetry]
  /\ busy' = FALSE
  /\ UNCHANGED <<run, answer, current, stage, transitioning, ranElevated>>

\* Mutant: the flag is not taken back.
CancelAbsorbed ==
  /\ stage # "closed"
  /\ IF transitioning
     THEN UNCHANGED <<answer, current, stage, busy, transitioning>>
     ELSE /\ Resolve(current, current, "denied")
          /\ reset
          /\ UNCHANGED transitioning
  /\ UNCHANGED <<run, retry, ranElevated>>

\* cancel: the Cancel buttons, Escape, a click outside.
Cancel ==
  /\ stage # "closed"
  /\ IF transitioning
     THEN transitioning' = FALSE /\ UNCHANGED <<answer, current, stage, busy>>
     ELSE /\ Resolve(current, current, "denied")
          /\ reset
          /\ UNCHANGED transitioning
  /\ UNCHANGED <<run, retry, ranElevated>>

----------------------------------------------------------------------------
RunStep(r) ==
  \/ Start(r) \/ ActionThrows(r) \/ ActionDenied(r) \/ ProbeFails(r)
  \/ \E kind \in {"ok", "failed"} : ActionEnds(r, kind)
  \/ \E dialog \in Dialogs : ProbeEnds(r, dialog)

Next ==
  \/ \E r \in Runs : RunStep(r)
  \/ \E a \in Retries : Apply(a) \/ ApplyOk(a) \/ ApplyFails(a)
  \/ HaveAdmin
  \/ Cancel

Spec == Init /\ [][Next]_vars

\* The gateway answers, and the user does not leave a dialog open for ever.
Answers(r) ==
  \/ ActionThrows(r) \/ ActionDenied(r) \/ ProbeFails(r)
  \/ \E kind \in {"ok", "failed"} : ActionEnds(r, kind)
  \/ \E dialog \in Dialogs : ProbeEnds(r, dialog)

Fairness ==
  /\ \A r \in Runs : WF_vars(Answers(r))
  /\ \A a \in Retries : WF_vars(ApplyOk(a) \/ ApplyFails(a))
  /\ WF_vars(Cancel)

FairSpec == Spec /\ Fairness

----------------------------------------------------------------------------
\* An open dialog belongs to a run whose promise is still pending, and a run owns the refs
\* only while its dialog is open: no dialog is left whose buttons act on nothing.
DialogHasOwner ==
  /\ stage # "closed" <=> current # NoRun
  /\ current # NoRun => run[current] = "waiting" /\ ~Settled(current)

\* A run is told "ok" only for an action that succeeded: unelevated and its own, or elevated.
OkIsReal ==
  \A r \in Runs :
    answer[r].kind = "ok" => answer[r].of = r \/ answer[r].of \in ranElevated

\* What makes these hold, step by step: no promise is resolved before its action ended, and
\* what is retried is the action of a run.
Unanswered == \A r \in Runs : run[r] \in {"idle", "acting", "probing"} => ~Settled(r)
RetriesOfRuns == \A a \in Retries : retry[a].state = "running" => retry[a].of \in Runs

IInv == TypeOK /\ DialogHasOwner /\ OkIsReal /\ Unanswered /\ RetriesOfRuns

\* Every run is answered but two kinds: one whose request failed, and one whose dialog
\* another run took.  The owner of the dialog always is - Cancel, if need be pressed twice
\* after "I have administrator credentials", ends it.
RunsSettle ==
  \A r \in Runs :
    run[r] = "acting" ~> Settled(r) \/ run[r] = "threw" \/ (run[r] = "waiting" /\ current # r)

\* "run(action) runs the action; if it fails for lack of privilege it drives the right modal
\* and retries elevated, resolving with the final result": the result is its own action's.
OwnResult == \A r \in Runs : Settled(r) => answer[r].of = r
=============================================================================
