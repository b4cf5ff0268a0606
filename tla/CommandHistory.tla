--------------------------- MODULE CommandHistory ---------------------------
(***************************************************************************)
(* The Command history app over the transparency log: while it is open it  *)
(* asks the gateway for the whole log every three seconds and once more on *)
(* Refresh, never waiting for the answer to an earlier question, and shows *)
(* whichever answer arrived last.  An answer carries the log as it was     *)
(* when the gateway served the request; the log only grows, so the number  *)
(* of records in an answer says which answer it is.                        *)
(***************************************************************************)
EXTENDS Transparency

CONSTANTS
  Polls,       \* requests the app can have outstanding at once
  MaxTick      \* bound on the refreshes and the times the window is opened again

ASSUME MaxTickAssumption == MaxTick \in Nat

VARIABLES
  open,        \* the window is open
  tick,        \* the last run of the effect; it is active while the window is open
  poll,        \* the outstanding requests
  records      \* how many records the app shows

historyVars == <<open, tick, poll, records>>
allVars == <<vars, historyVars>>

Idle == [state |-> "idle", tick |-> 0, answer |-> 0]

HistoryTypeOK ==
  /\ TypeOK
  /\ open \in BOOLEAN
  /\ tick \in 0..MaxTick
  /\ poll \in [Polls -> [state : {"idle", "sent", "served", "failed"},
                         tick : 0..MaxTick, answer : 0..Len(entries)]]
  /\ records \in 0..Len(entries)

HistoryInit ==
  /\ Init
  /\ open = TRUE
  /\ tick = 0
  /\ poll = [p \in Polls |-> Idle]
  /\ records = 0

\* Mutant: no polling once there is something to show.
LoadOnce(p) ==
  /\ open /\ poll[p].state = "idle" /\ records = 0
  /\ poll' = [poll EXCEPT ![p] = [state |-> "sent", tick |-> tick, answer |-> 0]]
  /\ UNCHANGED <<open, tick, records>>

\* load(), called by the effect and by its interval.
Load(p) ==
  /\ open /\ poll[p].state = "idle"
  /\ poll' = [poll EXCEPT ![p] = [state |-> "sent", tick |-> tick, answer |-> 0]]
  /\ UNCHANGED <<open, tick, records>>

\* POST /api/transparency: the gateway lists the log, or the request fails.
Serve(p) ==
  /\ poll[p].state = "sent"
  /\ poll' = [poll EXCEPT ![p].state = "served", ![p].answer = Len(entries)]
  /\ UNCHANGED <<open, tick, records>>

Fail(p) ==
  /\ poll[p].state = "sent"
  /\ poll' = [poll EXCEPT ![p] = Idle]
  /\ UNCHANGED <<open, tick, records>>

\* The answer arrives; an answer to a run of the effect that was cleaned up is ignored.
Deliver(p) ==
  /\ poll[p].state = "served"
  /\ records' = IF open /\ poll[p].tick = tick THEN poll[p].answer ELSE records
  /\ poll' = [poll EXCEPT ![p] = Idle]
  /\ UNCHANGED <<open, tick>>

\* The Refresh button: the effect is cleaned up and run again.
Refresh ==
  /\ open /\ tick < MaxTick
  /\ tick' = tick + 1
  /\ UNCHANGED <<open, poll, records>>

\* The window is closed or minimised: the effect is cleaned up, its questions are still out.
Close ==
  /\ open
  /\ open' = FALSE
  /\ UNCHANGED <<tick, poll, records>>

\* It is opened again, and knows nothing.
Reopen ==
  /\ ~open /\ tick < MaxTick
  /\ open' = TRUE
  /\ tick' = tick + 1
  /\ records' = 0
  /\ UNCHANGED poll

HistoryStep ==
  \/ \E p \in Polls : Load(p) \/ Serve(p) \/ Fail(p) \/ Deliver(p)
  \/ Refresh \/ Close \/ Reopen

HistoryNext ==
  \/ Next /\ UNCHANGED historyVars
  \/ HistoryStep /\ UNCHANGED vars

\* While the window is open the interval keeps polling, and the gateway and the network
\* answer each request.  A request is not assumed to succeed, but polling for ever it
\* succeeds again and again.
HistoryFairness ==
  \A p \in Polls :
    /\ WF_allVars(Load(p) /\ UNCHANGED vars)
    /\ SF_allVars(Serve(p) /\ UNCHANGED vars)
    /\ WF_allVars((Serve(p) \/ Fail(p)) /\ UNCHANGED vars)
    /\ WF_allVars(Deliver(p) /\ UNCHANGED vars)

HistorySpec == HistoryInit /\ [][HistoryNext]_allVars /\ HistoryFairness

----------------------------------------------------------------------------
\* Answers may be shown out of order, and a window may be closed and opened again while its
\* questions are out; but once no command runs an open window settles on the whole log: an
\* answer overtaken by a later one does not stay on the screen.
HistoryCatchesUp == <>[](open => records = Len(entries))
=============================================================================
