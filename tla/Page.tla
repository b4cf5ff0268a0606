-------------------------------- MODULE Page --------------------------------
(***************************************************************************)
(* The web application's own state (App.tsx, LoginForm, HostKeyDialog) in  *)
(* front of the gateway.  A page is one browser tab: it shows the login    *)
(* form, the host key dialog over it, or a desktop.  Everything it knows   *)
(* is in the memory of the tab, and what it asks the gateway to do is      *)
(* answered later, or not at all.                                          *)
(***************************************************************************)
EXTENDS Gateway

CONSTANTS
  Pages,
  NoPrompt     \* no host key to verify

ASSUME NoPromptAssumption == NoPrompt \notin Hosts \X Keys

VARIABLES
  asking,      \* the connect request a page waits for; its form is busy meanwhile
  prompt,      \* pending.host and hostKey.fingerprint while the dialog is open
  desk,        \* the session of the desktop a page shows
  leaving,     \* sessions whose disconnect request is on its way
  confirmed,   \* <<host, key>> pairs a user confirmed in a dialog
  forsaken     \* connects and sessions nobody will hear of: a page or a request was lost

page == <<asking, prompt, desk, leaving, confirmed, forsaken>>
pageVars == <<vars, page>>

PageTypeOK ==
  /\ TypeOK
  /\ asking \in [Pages -> Requests \cup {NoSession}]
  /\ prompt \in [Pages -> (Hosts \X Keys) \cup {NoPrompt}]
  /\ desk \in [Pages -> Requests \cup {NoSession}]
  /\ leaving \subseteq Requests
  /\ confirmed \subseteq Hosts \X Keys
  /\ forsaken \subseteq Requests

PageInit ==
  /\ Init
  /\ asking = [p \in Pages |-> NoSession]
  /\ prompt = [p \in Pages |-> NoPrompt]
  /\ desk = [p \in Pages |-> NoSession]
  /\ leaving = {}
  /\ confirmed = shown
  /\ forsaken = {}

----------------------------------------------------------------------------
(* App and LoginForm.                                                      *)

Busy(p) == asking[p] # NoSession

\* attempt: the form is busy until the request settles.
Attempt(p, r, h, trust) ==
  /\ Connect(r, h, trust)
  /\ asking' = [asking EXCEPT ![p] = r]

\* The Connect button: disabled while busy, and out of reach under the dialog.
Submit(p, r, h) ==
  /\ desk[p] = NoSession /\ prompt[p] = NoPrompt /\ ~Busy(p)
  /\ Attempt(p, r, h, NoKey)
  /\ UNCHANGED <<prompt, desk, leaving, confirmed, forsaken>>

\* Mutant: a request that fails leaves the form busy.
DeliverStuck(p) ==
  LET r == asking[p] IN
  /\ Busy(p) /\ reply[r] # "none"
  /\ asking' = IF reply[r] \in {"connected", "verify-host-key"}
               THEN [asking EXCEPT ![p] = NoSession] ELSE asking
  /\ prompt' = IF reply[r] = "verify-host-key"
               THEN [prompt EXCEPT ![p] = <<attempt[r].host, attempt[r].presented>>] ELSE prompt
  /\ desk' = IF reply[r] = "connected" THEN [desk EXCEPT ![p] = r] ELSE desk
  /\ UNCHANGED <<vars, leaving, confirmed, forsaken>>

\* The answer arrives: a desktop, a key to verify, or (catch) an error over the form.
Deliver(p) ==
  LET r == asking[p] IN
  /\ Busy(p) /\ reply[r] # "none"
  /\ asking' = [asking EXCEPT ![p] = NoSession]
  /\ prompt' = IF reply[r] = "verify-host-key"
               THEN [prompt EXCEPT ![p] = <<attempt[r].host, attempt[r].presented>>] ELSE prompt
  /\ desk' = IF reply[r] = "connected" THEN [desk EXCEPT ![p] = r] ELSE desk
  /\ UNCHANGED <<vars, leaving, confirmed, forsaken>>

\* fetch rejects: the request may have reached the gateway all the same.
FetchFails(p) ==
  /\ Busy(p)
  /\ asking' = [asking EXCEPT ![p] = NoSession]
  /\ forsaken' = forsaken \cup {asking[p]}
  /\ UNCHANGED <<vars, prompt, desk, leaving, confirmed>>

\* confirmHostKey: the same attempt again, with the fingerprint that was shown.
Confirm(p, r) ==
  /\ prompt[p] # NoPrompt
  /\ Attempt(p, r, prompt[p][1], prompt[p][2])
  /\ prompt' = [prompt EXCEPT ![p] = NoPrompt]
  /\ confirmed' = confirmed \cup {prompt[p]}
  /\ UNCHANGED <<desk, leaving, forsaken>>

\* Mutant: the attempt is repeated whichever button is pressed.
CancelRetries(p) ==
  /\ prompt[p] # NoPrompt
  /\ \E r \in Requests : Attempt(p, r, prompt[p][1], prompt[p][2])
  /\ prompt' = [prompt EXCEPT ![p] = NoPrompt]
  /\ UNCHANGED <<desk, leaving, confirmed, forsaken>>

\* cancelHostKey.
CancelPrompt(p) ==
  /\ prompt[p] # NoPrompt
  /\ prompt' = [prompt EXCEPT ![p] = NoPrompt]
  /\ UNCHANGED <<vars, asking, desk, leaving, confirmed, forsaken>>

\* Mutant: the desktop is left without a word to the gateway.
LeaveQuietly(p) ==
  /\ desk[p] # NoSession
  /\ desk' = [desk EXCEPT ![p] = NoSession]
  /\ UNCHANGED <<vars, asking, prompt, leaving, confirmed, forsaken>>

\* handleDisconnect: the request is sent and nobody waits for its answer.
Leave(p) ==
  /\ desk[p] # NoSession
  /\ leaving' = leaving \cup {desk[p]}
  /\ desk' = [desk EXCEPT ![p] = NoSession]
  /\ UNCHANGED <<vars, asking, prompt, confirmed, forsaken>>

\* The tab is reloaded or closed: App's state is gone, and it told nobody.
Reload(p) ==
  /\ Busy(p) \/ prompt[p] # NoPrompt \/ desk[p] # NoSession
  /\ forsaken' = forsaken \cup ({asking[p], desk[p]} \ {NoSession})
  /\ asking' = [asking EXCEPT ![p] = NoSession]
  /\ prompt' = [prompt EXCEPT ![p] = NoPrompt]
  /\ desk' = [desk EXCEPT ![p] = NoSession]
  /\ UNCHANGED <<vars, leaving, confirmed>>

----------------------------------------------------------------------------
(* The gateway under the pages.                                            *)

\* Mutant: a disconnect ends the sessions to the host.
DisconnectedAll(s) ==
  LET same == {t \in sessions : attempt[t].host = attempt[s].host} IN
  /\ s \in leaving
  /\ leaving' = leaving \ {s}
  /\ sessions' = sessions \ same
  /\ conn' = [r \in Requests |-> IF r \in same THEN "closed" ELSE conn[r]]
  /\ UNCHANGED <<store, disk, shown, pc, reply, attempt, target>>
  /\ UNCHANGED <<asking, prompt, desk, confirmed, forsaken>>

\* POST /api/disconnect arrives; the session may be gone by then.
Disconnected(s) ==
  /\ s \in leaving
  /\ leaving' = leaving \ {s}
  /\ IF s \in sessions THEN Disconnect(s) ELSE UNCHANGED vars
  /\ UNCHANGED <<asking, prompt, desk, confirmed, forsaken>>

DisconnectLost(s) ==
  /\ s \in leaving
  /\ leaving' = leaving \ {s}
  /\ forsaken' = forsaken \cup {s}
  /\ UNCHANGED <<vars, asking, prompt, desk, confirmed>>

\* The applications of a desktop call on the page's session.
CallFrom(p, r) ==
  /\ desk[p] # NoSession
  /\ UnknownSession(r, desk[p]) \/ Call(r, desk[p]) \/ CallAsUser(r, desk[p])
  /\ UNCHANGED page

\* What the handlers do once they are running, and what befalls the gateway.
Serve(r) ==
  /\ \/ \E k \in Keys : VerifyAccept(r, k) \/ VerifyReject(r, k)
     \/ ConnectFails(r) \/ Ready(r) \/ ReadySaveFails(r)
     \/ DetectOs(r) \/ Register(r) \/ ProbeThrows(r)
     \/ \E k \in Keys : ElevateReady(r, k)
     \/ ElevateFails(r) \/ CallReturns(r) \/ CallThrows(r)
     \/ Drop(r)
  /\ UNCHANGED page

GatewayEnds == (Crash \/ CrashWhileSaving) /\ UNCHANGED page

PageStep(p) ==
  \/ \E r \in Requests, h \in Hosts : Submit(p, r, h)
  \/ \E r \in Requests : Confirm(p, r) \/ CallFrom(p, r)
  \/ Deliver(p) \/ FetchFails(p) \/ CancelPrompt(p) \/ Leave(p) \/ Reload(p)

PageNext ==
  \/ \E p \in Pages : PageStep(p)
  \/ \E r \in Requests : Serve(r) \/ Disconnected(r) \/ DisconnectLost(r)
  \/ GatewayEnds

\* A fetch settles, and a disconnect is delivered or lost; what users do is up to them.
PageFairness ==
  /\ \A r \in Requests :
       /\ WF_pageVars(SettlesConnect(r) /\ UNCHANGED page)
       /\ WF_pageVars(AnswersCommand(r) /\ UNCHANGED page)
       /\ WF_pageVars(Disconnected(r) \/ DisconnectLost(r))
  /\ \A p \in Pages : WF_pageVars(Deliver(p))

PageSpec == PageInit /\ [][PageNext]_pageVars
FairPageSpec == PageSpec /\ PageFairness

----------------------------------------------------------------------------
(* Properties.                                                             *)

\* From the dialog to the file: a host's key is stored, or carries a registered session,
\* only if a user confirmed that key in a dialog about that host - on whichever page, and
\* whatever was asked, cancelled, reloaded or restarted in between.  (A transient session
\* is not registered, and nobody is asked about its key.)
TrustedWereConfirmed ==
  /\ \A h \in Hosts, k \in Keys : store[h] = k \/ disk[h] = k => <<h, k>> \in confirmed
  /\ \A s \in sessions : <<attempt[s].host, attempt[s].presented>> \in confirmed

\* A registered session can be ended by somebody: a page shows it or waits for its answer,
\* or its disconnect is on the way.  Only a page or a request that was lost leaves one behind.
SessionsHavePages ==
  \A s \in sessions :
    (\E p \in Pages : s \in {asking[p], desk[p]}) \/ s \in leaving \/ s \in forsaken

\* No session is ended under the desktop of a page, but by the end of the gateway: two
\* pages never share one, and a disconnect never reaches another page's.
DesktopsKeepSessions ==
  [][ \A p \in Pages :
        desk[p] \in sessions /\ desk'[p] = desk[p] /\ desk[p] \notin sessions'
          => GatewayEnds ]_pageVars

\* The form becomes usable again, however the request ends.
BusyEnds == \A p \in Pages : Busy(p) ~> ~Busy(p)

----------------------------------------------------------------------------
(* Why they hold: what is true of the pages between two steps.             *)

\* A dialog is about a key the gateway asked about.
PromptsShown ==
  /\ \A r \in Requests :
       reply[r] = "verify-host-key" => <<attempt[r].host, attempt[r].presented>> \in shown
  /\ \A p \in Pages : prompt[p] # NoPrompt => prompt[p] \in shown

\* What is stored for a host, and what a connect request looked up or was told, somebody
\* confirmed by then; what it was presented and accepted, it was told or looked up.
Chosen(h) == {NoKey} \cup {k \in Keys : <<h, k>> \in confirmed}

StoreConfirmed == \A h \in Hosts : store[h] \in Chosen(h) /\ disk[h] \in Chosen(h)

Confirmed(r) ==
  LET a == attempt[r] IN
  /\ pc[r] \in Opening => a.known \in Chosen(a.host) /\ a.trust \in Chosen(a.host)
  /\ pc[r] \in Opening \ {"handshake"} \/ r \in sessions
       => <<a.host, a.presented>> \in confirmed

\* A page is busy, or asks about a key, or shows a desktop, or none of these.
OneThing(p) ==
  /\ Busy(p) => prompt[p] = NoPrompt /\ desk[p] = NoSession
  /\ prompt[p] # NoPrompt => desk[p] = NoSession

\* A request or a session is in one place: asked for by a page, on a desktop, or leaving.
OnePlace ==
  /\ \A p \in Pages : Busy(p) => pc[asking[p]] # "idle" /\ asking[p] \notin leaving
  /\ \A p \in Pages :
       desk[p] # NoSession => reply[desk[p]] = "connected" /\ desk[p] \notin leaving
  /\ \A s \in leaving : reply[s] = "connected"
  /\ \A p, q \in Pages :
       /\ Busy(p) => asking[p] # desk[q] /\ (asking[p] = asking[q] => p = q)
       /\ desk[p] # NoSession /\ desk[p] = desk[q] => p = q

\* A session has somebody from the moment it is asked for.
Followed(r) == (\E p \in Pages : r \in {asking[p], desk[p]}) \/ r \in leaving \/ r \in forsaken
OpeningHavePages == \A r \in Requests : pc[r] \in Opening \/ r \in sessions => Followed(r)

PageInv ==
  /\ PageTypeOK /\ IInv
  /\ PromptsShown /\ StoreConfirmed /\ \A r \in Requests : Confirmed(r)
  /\ OnePlace /\ OpeningHavePages /\ \A p \in Pages : OneThing(p)
=============================================================================
