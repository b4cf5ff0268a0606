------------------------------ MODULE Gateway ------------------------------
(***************************************************************************)
(* The gateway process (packages/server): HTTP requests that open an SSH   *)
(* session behind a trust-on-first-use host key check, register it with    *)
(* the SessionManager, run capabilities on it - as the session's user or   *)
(* through a transient session of another user - and disconnect it.        *)
(*                                                                         *)
(* Every await of a handler is a place where other requests run, so a      *)
(* request is a process with a program counter, and the shared state is    *)
(* the known-hosts map, its file, and the map of registered sessions.  A   *)
(* request opens at most one SSH connection, and a connect request opens   *)
(* the connection of the session it registers: the request's identity      *)
(* stands for its connection and for its session id as well.               *)
(***************************************************************************)
EXTENDS FiniteSets

CONSTANTS
  Requests,    \* HTTP requests, each handled once
  Hosts,       \* "host:port" names
  Keys,        \* host key fingerprints
  NoKey,       \* no fingerprint (undefined)
  NoSession    \* the target of a request that is not a call on a session

ASSUME NoKeyAssumption == NoKey \notin Keys
ASSUME NoSessionAssumption == NoSession \notin Requests

VARIABLES
  store,       \* known_hosts in memory: the map of FileKnownHosts
  disk,        \* known_hosts.json
  shown,       \* <<host, key>> pairs the user was asked to verify
  sessions,    \* the keys of SessionManager.sessions
  pc,          \* where each request's handler is awaiting
  reply,       \* what each request was answered
  conn,        \* the SSH connection a request opened
  attempt,     \* the locals of the opener: host, known, trustFingerprint, and the key the
               \* host presented; of a transient connection, its host and that key
  target       \* the session a call runs on

vars == <<store, disk, shown, sessions, pc, reply, conn, attempt, target>>

Opening == {"handshake", "auth", "detectOs", "readHome"}  \* inside opener(request)
InFlight == Opening \cup {"elevating", "call"}
Replies == {"none", "connected", "verify-host-key", "mismatch", "error",
            "unknown-session", "result", "lost"}
NoAttempt(h) == [host |-> h, known |-> NoKey, trust |-> NoKey, presented |-> NoKey]

TypeOK ==
  /\ store \in [Hosts -> Keys \cup {NoKey}]
  /\ disk \in [Hosts -> Keys \cup {NoKey}]
  /\ shown \subseteq Hosts \X Keys
  /\ sessions \subseteq Requests
  /\ pc \in [Requests -> InFlight \cup {"idle", "replied"}]
  /\ reply \in [Requests -> Replies]
  /\ conn \in [Requests -> {"none", "connecting", "open", "closed"}]
  /\ attempt \in [Requests -> [host : Hosts, known : Keys \cup {NoKey},
                               trust : Keys \cup {NoKey}, presented : Keys \cup {NoKey}]]
  /\ target \in [Requests -> Requests \cup {NoSession}]

\* The process starts with the file of an earlier run; the user confirmed what it holds.
Init ==
  /\ store \in [Hosts -> Keys \cup {NoKey}]
  /\ disk = store
  /\ shown = {p \in Hosts \X Keys : store[p[1]] = p[2]}
  /\ sessions = {}
  /\ pc = [r \in Requests |-> "idle"]
  /\ reply = [r \in Requests |-> "none"]
  /\ conn = [r \in Requests |-> "none"]
  /\ attempt \in {[r \in Requests |-> NoAttempt(h)] : h \in Hosts}
  /\ target = [r \in Requests |-> NoSession]

----------------------------------------------------------------------------
(* The helpers the handlers share.                                         *)

\* sendJson: the handler is over.
Answer(r, what) ==
  /\ pc' = [pc EXCEPT ![r] = "replied"]
  /\ reply' = [reply EXCEPT ![r] = what]

Await(r, where) ==
  /\ pc' = [pc EXCEPT ![r] = where]
  /\ UNCHANGED reply

SetConn(r, state) == conn' = [conn EXCEPT ![r] = state]

\* The fingerprints App.confirmHostKey can send back for a host.
Confirmable(h) == {NoKey} \cup {k \in Keys : <<h, k>> \in shown}

----------------------------------------------------------------------------
(* POST /api/connect: createSshOpener, then SessionManager.add.            *)

\* The trusted key is looked up before the connection is awaited.
Connect(r, h, trust) ==
  /\ pc[r] = "idle"
  /\ attempt' = [attempt EXCEPT ![r] = [host |-> h, known |-> store[h],
                                        trust |-> trust, presented |-> NoKey]]
  /\ SetConn(r, "connecting")
  /\ Await(r, "handshake")
  /\ UNCHANGED <<store, disk, shown, sessions, target>>

\* Mutant: once the user has confirmed a key, any key is accepted.
VerdictAnyConfirmed(a, k) ==
  IF a.known # NoKey
  THEN IF k = a.known THEN "accept" ELSE "mismatch"
  ELSE IF a.trust # NoKey THEN "accept" ELSE "unknown"

\* verifyHostKey: what the opener decides about the key the host presents.
Verdict(a, k) ==
  IF a.known # NoKey
  THEN IF k = a.known THEN "accept" ELSE "mismatch"
  ELSE IF k = a.trust THEN "accept" ELSE "unknown"

VerifyAccept(r, k) ==
  /\ pc[r] = "handshake"
  /\ Verdict(attempt[r], k) = "accept"
  /\ attempt' = [attempt EXCEPT ![r].presented = k]
  /\ Await(r, "auth")
  /\ UNCHANGED <<store, disk, shown, sessions, conn, target>>

\* A rejected key ends the handshake; the client shows an unknown one to the user.
VerifyReject(r, k) ==
  /\ pc[r] = "handshake"
  /\ attempt' = [attempt EXCEPT ![r].presented = k]
  /\ SetConn(r, "closed")
  /\ \/ /\ Verdict(attempt[r], k) = "unknown"
        /\ shown' = shown \cup {<<attempt[r].host, k>>}
        /\ Answer(r, "verify-host-key")
     \/ /\ Verdict(attempt[r], k) = "mismatch"
        /\ UNCHANGED shown
        /\ Answer(r, "mismatch")
  /\ UNCHANGED <<store, disk, sessions, target>>

\* The client's 'error' event: network, authentication, readyTimeout.
ConnectFails(r) ==
  /\ pc[r] \in {"handshake", "auth"}
  /\ SetConn(r, "closed")
  /\ Answer(r, "error")
  /\ UNCHANGED <<store, disk, shown, sessions, attempt, target>>

\* Mutant: the map is written over with the new key alone.
TrustedAlone(h, k) == [x \in Hosts |-> IF x = h THEN k ELSE NoKey]

\* KnownHostsStore.add: the map is set, then the whole map is written to the file.
Trusted(h, k) == [store EXCEPT ![h] = k]

\* Mutant: the accepted key is not stored.
ReadyUnstored(r) ==
  /\ pc[r] = "auth"
  /\ SetConn(r, "open")
  /\ Await(r, "detectOs")
  /\ UNCHANGED <<store, disk, shown, sessions, attempt, target>>

\* 'ready': a key that was not known when the request began is stored.
Ready(r) ==
  LET a == attempt[r] IN
  /\ pc[r] = "auth"
  /\ SetConn(r, "open")
  /\ IF a.known = NoKey
     THEN store' = Trusted(a.host, a.presented) /\ disk' = store'
     ELSE UNCHANGED <<store, disk>>
  /\ Await(r, "detectOs")
  /\ UNCHANGED <<shown, sessions, attempt, target>>

\* writeFileSync throws after the map was set: the opener rejects, the session stays open.
ReadySaveFails(r) ==
  LET a == attempt[r] IN
  /\ pc[r] = "auth"
  /\ a.known = NoKey
  /\ SetConn(r, "open")
  /\ store' = Trusted(a.host, a.presented)
  /\ Answer(r, "error")
  /\ UNCHANGED <<disk, shown, sessions, attempt, target>>

\* detectOs: commands in flight when the connection drops return no output, and the
\* next command is refused.
DetectOs(r) ==
  /\ pc[r] = "detectOs"
  /\ IF conn[r] = "open" THEN Await(r, "readHome") ELSE Answer(r, "error")
  /\ UNCHANGED <<store, disk, shown, sessions, conn, attempt, target>>

\* echo "$HOME" returned, or was in flight when the connection dropped (home is "/").
Register(r) ==
  /\ pc[r] = "readHome"
  /\ sessions' = sessions \cup {r}
  /\ Answer(r, "connected")
  /\ UNCHANGED <<store, disk, shown, conn, attempt, target>>

\* The host refuses the channel of one of these commands: the opener rejects.
ProbeThrows(r) ==
  /\ pc[r] \in {"detectOs", "readHome"}
  /\ Answer(r, "error")
  /\ UNCHANGED <<store, disk, shown, sessions, conn, attempt, target>>

----------------------------------------------------------------------------
(* Capability requests: requireSession, runCap and makeElevated.           *)

\* A session id the client was given.
Issued(s) == reply[s] = "connected"

UnknownSession(r, s) ==
  /\ pc[r] = "idle"
  /\ Issued(s) /\ s \notin sessions
  /\ Answer(r, "unknown-session")
  /\ UNCHANGED <<store, disk, shown, sessions, conn, attempt, target>>

\* Mutant: the call does not ask the SessionManager for the session.
CallUnchecked(r, s) ==
  /\ pc[r] = "idle"
  /\ Issued(s)
  /\ target' = [target EXCEPT ![r] = s]
  /\ Await(r, "call")
  /\ UNCHANGED <<store, disk, shown, sessions, conn, attempt>>

\* Not elevated, or elevated as the current user: the session's own executor runs it.
Call(r, s) ==
  /\ pc[r] = "idle"
  /\ Issued(s) /\ s \in sessions
  /\ target' = [target EXCEPT ![r] = s]
  /\ Await(r, "call")
  /\ UNCHANGED <<store, disk, shown, sessions, conn, attempt>>

\* Elevated as another user: makeElevated opens a transient session first, to the host and
\* port of the session acted for.  No trusted key is looked up.
CallAsUser(r, s) ==
  /\ pc[r] = "idle"
  /\ Issued(s) /\ s \in sessions
  /\ target' = [target EXCEPT ![r] = s]
  /\ attempt' = [attempt EXCEPT ![r] = NoAttempt(attempt[s].host)]
  /\ SetConn(r, "connecting")
  /\ Await(r, "elevating")
  /\ UNCHANGED <<store, disk, shown, sessions>>

\* Mutant: the failure is reported only while the session acted for is registered.
ElevateFailsIfRegistered(r) ==
  /\ pc[r] = "elevating" /\ target[r] \in sessions
  /\ SetConn(r, "closed")
  /\ Answer(r, "error")
  /\ UNCHANGED <<store, disk, shown, sessions, attempt, target>>

ElevateFails(r) ==
  /\ pc[r] = "elevating"
  /\ SetConn(r, "closed")
  /\ Answer(r, "error")
  /\ UNCHANGED <<store, disk, shown, sessions, attempt, target>>

\* verifyHostKey: () => true.  The key the host presents is accepted whatever it is: it is
\* compared with none, shown to nobody and not stored.
ElevateReady(r, k) ==
  /\ pc[r] = "elevating"
  /\ attempt' = [attempt EXCEPT ![r].presented = k]
  /\ SetConn(r, "open")
  /\ Await(r, "call")
  /\ UNCHANGED <<store, disk, shown, sessions, target>>

\* Mutant: the cleanup is left to the session acted for, once that is disconnected.
CleanupIfRegistered(r) ==
  conn' = [conn EXCEPT ![r] = IF @ = "open" /\ target[r] \in sessions THEN "closed" ELSE @]

\* The finally of runCap: makeElevated's cleanup.
Cleanup(r) == conn' = [conn EXCEPT ![r] = IF @ = "open" THEN "closed" ELSE @]

CallReturns(r) ==
  /\ pc[r] = "call"
  /\ Cleanup(r)
  /\ Answer(r, "result")
  /\ UNCHANGED <<store, disk, shown, sessions, attempt, target>>

CallThrows(r) ==
  /\ pc[r] = "call"
  /\ Cleanup(r)
  /\ Answer(r, "error")
  /\ UNCHANGED <<store, disk, shown, sessions, attempt, target>>

----------------------------------------------------------------------------
(* POST /api/disconnect, and what happens to the gateway.                  *)

\* Mutant: the session is forgotten and not closed.
DisconnectForgets(s) ==
  /\ s \in sessions
  /\ sessions' = sessions \ {s}
  /\ UNCHANGED <<store, disk, shown, pc, reply, conn, attempt, target>>

\* SessionManager.remove: close, then forget.
Disconnect(s) ==
  /\ s \in sessions
  /\ SetConn(s, "closed")
  /\ sessions' = sessions \ {s}
  /\ UNCHANGED <<store, disk, shown, pc, reply, attempt, target>>

\* The connection is lost: SshSession notes it, nobody else is told.
Drop(r) ==
  /\ conn[r] = "open"
  /\ SetConn(r, "closed")
  /\ UNCHANGED <<store, disk, shown, sessions, pc, reply, attempt, target>>

\* The process ends and starts again: only the file survives.
Restart(file) ==
  /\ store' = file
  /\ disk' = file
  /\ sessions' = {}
  /\ conn' = [r \in Requests |-> IF conn[r] = "none" THEN "none" ELSE "closed"]
  /\ pc' = [r \in Requests |-> IF pc[r] \in InFlight THEN "replied" ELSE pc[r]]
  /\ reply' = [r \in Requests |-> IF pc[r] \in InFlight THEN "lost" ELSE reply[r]]
  /\ UNCHANGED <<shown, attempt, target>>

Crash == Restart(disk)

\* A crash inside writeFileSync leaves a truncated file, which loads as empty.
CrashWhileSaving ==
  /\ \E r \in Requests : pc[r] = "auth" /\ attempt[r].known = NoKey
  /\ Restart([h \in Hosts |-> NoKey])

----------------------------------------------------------------------------
ConnectStep(r) ==
  \/ \E h \in Hosts : \E trust \in Confirmable(h) : Connect(r, h, trust)
  \/ \E k \in Keys : VerifyAccept(r, k) \/ VerifyReject(r, k)
  \/ ConnectFails(r) \/ Ready(r) \/ ReadySaveFails(r)
  \/ DetectOs(r) \/ Register(r) \/ ProbeThrows(r)

CallStep(r) ==
  \/ \E s \in Requests : UnknownSession(r, s) \/ Call(r, s) \/ CallAsUser(r, s)
  \/ \E k \in Keys : ElevateReady(r, k)
  \/ ElevateFails(r) \/ CallReturns(r) \/ CallThrows(r)

Next ==
  \/ \E r \in Requests : ConnectStep(r) \/ CallStep(r) \/ Disconnect(r) \/ Drop(r)
  \/ Crash
  \/ CrashWhileSaving

\* SshSession.open always settles (readyTimeout); a command the host accepted ends, or
\* its connection drops - an assumption about the host, for the code sets no timeout.
SettlesConnect(r) == ConnectFails(r) \/ ElevateFails(r)
AnswersCommand(r) ==
  DetectOs(r) \/ Register(r) \/ ProbeThrows(r) \/ CallReturns(r) \/ CallThrows(r)

Fairness == \A r \in Requests : WF_vars(SettlesConnect(r)) /\ WF_vars(AnswersCommand(r))

Spec == Init /\ [][Next]_vars
FairSpec == Spec /\ Fairness

----------------------------------------------------------------------------
(* Properties.                                                             *)

IsMain(r) == target[r] = NoSession
HostVerified(h) == \E k \in Keys : <<h, k>> \in shown

\* A key is in the known-hosts map or file, or carries an open session that a connect
\* request asked for, only if the user was asked to verify that key for that host, whatever
\* requests and restarts interleave.  Of a transient session no such thing can be said, as
\* elevate.ts accepts every key: only some key of its host was verified once, and the one
\* it runs on may be another.
KeysWereVerified ==
  /\ \A h \in Hosts, k \in Keys : store[h] = k \/ disk[h] = k => <<h, k>> \in shown
  /\ \A r \in Requests :
       /\ conn[r] = "open" /\ IsMain(r) => <<attempt[r].host, attempt[r].presented>> \in shown
       /\ conn[r] = "open" /\ ~IsMain(r) => HostVerified(attempt[r].host)

\* Every registered session is to a host whose key is in the known-hosts map, so that the
\* next connect to the host is checked against a key instead of being asked about.
RegisteredHostsAreKnown ==
  \A s \in sessions : store[attempt[s].host] # NoKey

\* runCap tears down a transient session whatever the call does: once an elevated request
\* is answered its connection is gone, even if the session it acted for was disconnected
\* or dropped meanwhile.
TransientSessionsEnd ==
  \A r \in Requests : ~IsMain(r) /\ pc[r] = "replied" => conn[r] \in {"none", "closed"}

\* A connected session belongs to a request still opening it or is registered; the only
\* other one is left by a connect that failed after 'ready'.  No disconnect, restart or
\* successful connect leaves one behind.
OnlyFailedConnectsLeak ==
  \A r \in Requests :
    conn[r] = "open" /\ IsMain(r) /\ r \notin sessions =>
      pc[r] \in Opening \/ (pc[r] = "replied" /\ reply[r] = "error")

\* The gateway forgets a known host only by ending: no session and no request survives a
\* step after which the host is unknown.
HostsStayKnown ==
  [][ (\E h \in Hosts : store[h] # NoKey /\ store'[h] = NoKey)
        => sessions' = {} /\ \A r \in Requests : pc'[r] \notin InFlight ]_vars

----------------------------------------------------------------------------
(* Why they hold: what is true of every request between two steps.         *)

\* What a request awaits says what its connection, target and answer are.
Booked(r) ==
  /\ pc[r] = "idle" => conn[r] = "none" /\ IsMain(r)
  /\ pc[r] \in {"handshake", "auth", "elevating"} => conn[r] = "connecting"
  /\ pc[r] \in {"detectOs", "readHome", "call", "replied"} => conn[r] # "connecting"
  /\ pc[r] \in Opening => IsMain(r)
  /\ pc[r] \in {"elevating", "call"} => ~IsMain(r)
  /\ pc[r] = "replied" <=> reply[r] # "none"
  /\ r \in sessions => reply[r] = "connected"
  /\ reply[r] = "connected" => IsMain(r)
  /\ pc[r] = "replied" /\ conn[r] = "open" => IsMain(r) /\ (r \in sessions \/ reply[r] = "error")

\* The user vouched for what is stored, and for what a connect request looked up or was
\* told, by the time it uses it.
StoreVouched == \A h \in Hosts : store[h] \in Confirmable(h) /\ disk[h] \in Confirmable(h)

Vouched(r) ==
  LET a == attempt[r] IN
  /\ pc[r] \in Opening => a.known \in Confirmable(a.host) /\ a.trust \in Confirmable(a.host)
  /\ pc[r] \in Opening /\ a.known # NoKey => store[a.host] # NoKey
  /\ pc[r] \in Opening \ {"handshake"} \/ (conn[r] = "open" /\ IsMain(r))
       => a.presented \in Keys /\ <<a.host, a.presented>> \in shown
  /\ pc[r] \in {"detectOs", "readHome"} \/ r \in sessions => store[a.host] # NoKey
  /\ ~IsMain(r) /\ conn[r] \in {"connecting", "open"} => HostVerified(a.host)

IInv == TypeOK /\ StoreVouched /\ \A r \in Requests : Booked(r) /\ Vouched(r)

----------------------------------------------------------------------------
(* The gateway implements the contract its clients rely on.                *)

PhaseOf(r) ==
  IF r \in sessions THEN "live"
  ELSE IF pc[r] = "idle" THEN "idle"
  ELSE IF pc[r] \in Opening THEN "opening"
  ELSE IF pc[r] \in {"elevating", "call"} THEN "calling"
  ELSE IF reply[r] = "connected" THEN "ended"
  ELSE IF IsMain(r) /\ reply[r] # "unknown-session" THEN "refused"
  ELSE "answered"

Contract ==
  INSTANCE SessionContract WITH phase <- [r \in Requests |-> PhaseOf(r)], on <- target

\* Every behaviour is one the contract allows: sessions are granted once, calls begin only
\* on live ones, nothing is answered twice - and under fairness every request settles.
ImplementsContract == Contract!Spec
SettlesAsContracted == Contract!LiveSpec
=============================================================================
