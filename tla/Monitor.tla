------------------------------- MODULE Monitor -------------------------------
(***************************************************************************)
(* The System monitor app over useElevation: it polls metrics and the      *)
(* process list every 2.5 seconds, and signals processes and controls      *)
(* services.  An action is confirmed by the user, run through              *)
(* useElevation, and followed by a reload when it succeeds.  What the      *)
(* actions did to the host is the set of the runs that took effect; a      *)
(* process list shows the effects of the moment the host was asked.        *)
(***************************************************************************)
EXTENDS Elevation, Naturals

CONSTANTS
  Polls,       \* polls that can be outstanding at once
  MaxTick      \* bound on the runs of the polling effect

ASSUME MaxTickAssumption == MaxTick \in Nat /\ IsFiniteSet(Runs) /\ Cardinality(Runs) <= MaxTick

VARIABLES
  effects,     \* the runs whose action changed the host
  pending,     \* the confirmation dialog is open
  reported,    \* the runs whose result confirmPending has handled
  tick,        \* the run of the polling effect that is active
  poll,        \* the outstanding polls
  screen,      \* metrics and unavailable, as far as they show
  procs        \* the process list shown: the run of the effect that asked, and what it saw

monitorVars == <<effects, pending, reported, tick, poll, screen, procs>>
allVars == <<vars, monitorVars>>

Idle == [state |-> "idle", tick |-> 0, metrics |-> FALSE, procs |-> FALSE, seen |-> {}]

MonitorTypeOK ==
  /\ TypeOK
  /\ effects \subseteq Runs
  /\ pending \in BOOLEAN
  /\ reported \subseteq {r \in Runs : Settled(r)}
  /\ tick \in 0..MaxTick
  /\ poll \in [Polls -> [state : {"idle", "sent", "served"}, tick : 0..tick,
                         metrics : BOOLEAN, procs : BOOLEAN, seen : SUBSET effects]]
  /\ screen \in {"loading", "unavailable", "shown"}
  /\ procs \in [tick : 0..tick, seen : SUBSET effects]

MonitorInit ==
  /\ Init
  /\ effects = {}
  /\ pending = FALSE
  /\ reported = {}
  /\ tick = 0
  /\ poll = [p \in Polls |-> Idle]
  /\ screen = "loading"
  /\ procs = [tick |-> 0, seen |-> {}]

----------------------------------------------------------------------------
(* Polling.                                                                *)

\* Mutant: no polling once there is something to show.
PollOnce(p) ==
  /\ poll[p].state = "idle" /\ screen # "shown"
  /\ poll' = [poll EXCEPT ![p] = [Idle EXCEPT !.state = "sent", !.tick = tick]]
  /\ UNCHANGED <<effects, pending, reported, tick, screen, procs>>

\* poll(), called by the effect and by its interval.
Poll(p) ==
  /\ poll[p].state = "idle"
  /\ poll' = [poll EXCEPT ![p] = [Idle EXCEPT !.state = "sent", !.tick = tick]]
  /\ UNCHANGED <<effects, pending, reported, tick, screen, procs>>

\* The host is asked for both; each output parses, or it does not, or the request failed.
\* Metrics are told apart only until some are shown.
Serve(p, metrics, processes) ==
  /\ poll[p].state = "sent"
  /\ poll' = [poll EXCEPT ![p] = [@ EXCEPT !.state = "served", !.metrics = metrics \/ screen = "shown",
                !.procs = processes, !.seen = IF processes THEN effects ELSE {}]]
  /\ UNCHANGED <<effects, pending, reported, tick, screen, procs>>

\* Mutant: an answer is shown whichever run of the effect asked for it.
DeliverAnyway(p) ==
  /\ poll[p].state = "served"
  /\ screen' = IF poll[p].metrics THEN "shown" ELSE screen
  /\ procs' = IF poll[p].procs THEN [tick |-> tick, seen |-> poll[p].seen] ELSE procs
  /\ poll' = [poll EXCEPT ![p] = Idle]
  /\ UNCHANGED <<effects, pending, reported, tick>>

\* Both arrived.  Metrics, once there, stay; "unavailable" shows only without any.
Deliver(p) ==
  /\ poll[p].state = "served"
  /\ IF poll[p].tick = tick
     THEN /\ screen' = IF poll[p].metrics THEN "shown"
                       ELSE IF screen = "shown" THEN screen ELSE "unavailable"
          /\ procs' = IF poll[p].procs THEN [tick |-> tick, seen |-> poll[p].seen] ELSE procs
     ELSE UNCHANGED <<screen, procs>>
  /\ poll' = [poll EXCEPT ![p] = Idle]
  /\ UNCHANGED <<effects, pending, reported, tick>>

\* The refresh button; bounded so that every run can still be followed by its reload.
Refresh ==
  /\ screen = "shown"
  /\ tick + Cardinality(Runs \ reported) < MaxTick
  /\ tick' = tick + 1
  /\ UNCHANGED <<effects, pending, reported, poll, screen, procs>>

----------------------------------------------------------------------------
(* Actions.                                                                *)

\* An item of a process's menu, or a button of the service form.
Ask ==
  /\ screen = "shown" /\ ~pending /\ stage = "closed"
  /\ pending' = TRUE
  /\ UNCHANGED <<effects, reported, tick, poll, screen, procs>>

CancelAsk ==
  /\ pending /\ stage = "closed"
  /\ pending' = FALSE
  /\ UNCHANGED <<effects, reported, tick, poll, screen, procs>>

\* confirmPending, up to runElevated.
Confirm ==
  /\ pending
  /\ pending' = FALSE
  /\ UNCHANGED <<effects, reported, tick, poll, screen, procs>>

\* kill or systemctl runs on the host, for a first attempt or a retry, before its answer;
\* the answer may still be an error or be lost.
Act(r) ==
  /\ run[r] = "acting" \/ \E a \in Retries : retry[a] = [state |-> "running", of |-> r]
  /\ effects' = effects \cup {r}
  /\ UNCHANGED <<pending, reported, tick, poll, screen, procs>>

\* An action that ended with "ok" ran.
OkRan ==
  \A r \in Runs :
    /\ r \in ranElevated' => r \in effects
    /\ answer'[r].kind = "ok" => answer'[r].of \in effects

\* Mutant: the result is not awaited.
ReportUnawaited(r) ==
  /\ run[r] # "idle" /\ r \notin reported
  /\ reported' = reported \cup {r}
  /\ tick' = IF answer[r].kind = "ok" THEN tick + 1 ELSE tick
  /\ UNCHANGED <<effects, pending, poll, screen, procs>>

\* confirmPending, after runElevated: reload, or the reason of the failure.
Report(r) ==
  /\ Settled(r) /\ r \notin reported
  /\ reported' = reported \cup {r}
  /\ tick' = IF answer[r].kind = "ok" THEN tick + 1 ELSE tick
  /\ UNCHANGED <<effects, pending, poll, screen, procs>>

----------------------------------------------------------------------------
Elevating(step) == step /\ OkRan /\ UNCHANGED monitorVars

MonitorStep ==
  \/ \E p \in Polls : Poll(p) \/ Deliver(p) \/ \E m, l \in BOOLEAN : Serve(p, m, l)
  \/ Refresh \/ Ask \/ CancelAsk
  \/ \E r \in Runs : Act(r) \/ Report(r)

MonitorNext ==
  \/ \E r \in Runs : Start(r) /\ Confirm
  \/ \E r \in Runs : Elevating(Answers(r))
  \/ \E a \in Retries : Elevating(Apply(a) \/ ApplyOk(a) \/ ApplyFails(a))
  \/ Elevating(HaveAdmin \/ Cancel)
  \/ MonitorStep /\ UNCHANGED vars

\* As for Elevation; and the interval keeps polling, each poll is answered, and polling
\* for ever the process list is read again and again.
MonitorFairness ==
  /\ \A r \in Runs : WF_allVars(Elevating(Answers(r))) /\ WF_allVars(Report(r) /\ UNCHANGED vars)
  /\ \A a \in Retries : WF_allVars(Elevating(ApplyOk(a) \/ ApplyFails(a)))
  /\ WF_allVars(Elevating(Cancel))
  /\ \A p \in Polls :
       /\ WF_allVars(Poll(p) /\ UNCHANGED vars)
       /\ WF_allVars(Deliver(p) /\ UNCHANGED vars)
       /\ SF_allVars(Serve(p, TRUE, TRUE) /\ UNCHANGED vars)

MonitorSpec == MonitorInit /\ [][MonitorNext]_allVars /\ MonitorFairness

----------------------------------------------------------------------------
\* A list asked for by the running effect shows every action the user was told succeeded:
\* no earlier poll, arriving late, brings back a process that was stopped.
FreshAfterAction ==
  procs.tick = tick =>
    \A r \in reported : answer[r].kind = "ok" => answer[r].of \in procs.seen

\* What makes it hold, step by step: "ok" is said of what ran, an answer still to be shown is
\* as fresh as the list must be, and every run has its reload left (a bound).
OkTookEffect == \A r \in Runs : answer[r].kind = "ok" => answer[r].of \in effects
FreshPolls ==
  \A p \in Polls :
    poll[p].state = "served" /\ poll[p].tick = tick /\ poll[p].procs =>
      \A r \in reported : answer[r].kind = "ok" => answer[r].of \in poll[p].seen
ReloadsLeft == tick + Cardinality(Runs \ reported) <= MaxTick

MonitorInv == MonitorTypeOK /\ OkTookEffect /\ FreshPolls /\ FreshAfterAction /\ ReloadsLeft

\* Once no action runs, the list settles on everything the actions did - those whose answer
\* was lost, and those whose result went to another run, included.
EffectsShown == <>[](effects \subseteq procs.seen)
=============================================================================
