-------------------------- MODULE SessionContract --------------------------
(***************************************************************************)
(* What a client of the gateway relies on, with no connection, host key or *)
(* await in it: a request to open a session is granted or refused, once; a *)
(* call begins only on a session that is live at that moment and is        *)
(* answered, once; a session that ended never comes back; a restart of the *)
(* gateway ends everything.                                                *)
(***************************************************************************)
CONSTANTS Requests, NoSession

VARIABLES
  phase,    \* of each request, and of the session it was granted
  on        \* the session a call was made on

vars == <<phase, on>>

Phases == {"idle", "opening", "live", "ended", "refused", "calling", "answered"}

TypeOK ==
  /\ phase \in [Requests -> Phases]
  /\ on \in [Requests -> Requests \cup {NoSession}]

Init ==
  /\ phase = [r \in Requests |-> "idle"]
  /\ on = [r \in Requests |-> NoSession]

Move(r, from, to) ==
  /\ phase[r] = from
  /\ phase' = [phase EXCEPT ![r] = to]

Open(r) == Move(r, "idle", "opening") /\ UNCHANGED on
Grant(r) == Move(r, "opening", "live") /\ UNCHANGED on
Refuse(r) == Move(r, "opening", "refused") /\ UNCHANGED on
End(r) == Move(r, "live", "ended") /\ UNCHANGED on

Begin(r, s) ==
  /\ phase[s] = "live"
  /\ Move(r, "idle", "calling")
  /\ on' = [on EXCEPT ![r] = s]

Finish(r) == Move(r, "calling", "answered") /\ UNCHANGED on

Miss(r, s) ==
  /\ phase[s] = "ended"
  /\ Move(r, "idle", "answered")
  /\ UNCHANGED on

AfterRestart(p) ==
  CASE p = "opening" -> "refused"
    [] p = "live" -> "ended"
    [] p = "calling" -> "answered"
    [] OTHER -> p

Restart ==
  /\ phase' = [r \in Requests |-> AfterRestart(phase[r])]
  /\ UNCHANGED on

Next ==
  \/ \E r \in Requests : Open(r) \/ Grant(r) \/ Refuse(r) \/ End(r) \/ Finish(r)
  \/ \E r, s \in Requests : Begin(r, s) \/ Miss(r, s)
  \/ Restart

Spec == Init /\ [][Next]_vars

Settle(r) == Grant(r) \/ Refuse(r) \/ Finish(r)
LiveSpec == Spec /\ \A r \in Requests : WF_vars(Settle(r))
=============================================================================
