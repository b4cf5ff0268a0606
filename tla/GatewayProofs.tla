--------------------------- MODULE GatewayProofs ---------------------------
(***************************************************************************)
(* Theorems about Gateway, for any sets of requests, hosts and keys: IInv  *)
(* is inductive; the safety properties follow from it.  Then about the     *)
(* pages in front of it, for any number of them: what the pages make the   *)
(* gateway do are steps of Gateway, so that what is proved of it holds     *)
(* under them; what the gateway does changes what is true of the pages     *)
(* only as Advances says.                                                  *)
(***************************************************************************)
EXTENDS Page, TLAPS

(***************************************************************************)
(* Typing.                                                                 *)
(***************************************************************************)

LEMMA TypeInit == Init => TypeOK
BY NoKeyAssumption, NoSessionAssumption
   DEF Init, TypeOK, InFlight, Opening, Replies, NoAttempt

LEMMA TypeConnect ==
  ASSUME TypeOK, NEW r \in Requests, ConnectStep(r)
  PROVE  TypeOK'
<1> USE DEF TypeOK, Answer, Await, SetConn, InFlight, Opening, Replies
<1>1. ASSUME NEW h \in Hosts, NEW trust \in Confirmable(h), Connect(r, h, trust)
      PROVE  TypeOK'
  <2>1. trust \in Keys \cup {NoKey}
    BY DEF Confirmable
  <2>2. attempt' \in [Requests -> [host : Hosts, known : Keys \cup {NoKey},
                                  trust : Keys \cup {NoKey}, presented : Keys \cup {NoKey}]]
    BY <1>1, <2>1 DEF Connect
  <2>3. /\ pc' = [pc EXCEPT ![r] = "handshake"] /\ conn' = [conn EXCEPT ![r] = "connecting"]
        /\ UNCHANGED <<store, disk, shown, sessions, target, reply>>
    BY <1>1 DEF Connect
  <2>4. QED BY <2>2, <2>3
<1>2. ASSUME NEW k \in Keys, VerifyAccept(r, k)
      PROVE  TypeOK'
  BY <1>2 DEF VerifyAccept
<1>3. ASSUME NEW k \in Keys, VerifyReject(r, k)
      PROVE  TypeOK'
  <2>1. attempt[r].host \in Hosts
    OBVIOUS
  <2>2. shown' \subseteq Hosts \X Keys
    BY <1>3, <2>1 DEF VerifyReject
  <2>. DEFINE a == [attempt[r] EXCEPT !.presented = k]
  <2>3. attempt' \in [Requests -> [host : Hosts, known : Keys \cup {NoKey},
                                  trust : Keys \cup {NoKey}, presented : Keys \cup {NoKey}]]
    <3>1. attempt' = [attempt EXCEPT ![r] = a]
      BY <1>3 DEF VerifyReject
    <3>2. a \in [host : Hosts, known : Keys \cup {NoKey},
                 trust : Keys \cup {NoKey}, presented : Keys \cup {NoKey}]
      OBVIOUS
    <3> QED BY <3>1, <3>2
  <2>4. pc' = [pc EXCEPT ![r] = "replied"]
    BY <1>3 DEF VerifyReject
  <2>5. \E what \in {"verify-host-key", "mismatch"} : reply' = [reply EXCEPT ![r] = what]
    BY <1>3 DEF VerifyReject
  <2>6. QED BY <1>3, <2>2, <2>3, <2>4, <2>5 DEF VerifyReject
<1>4. CASE ConnectFails(r)
  BY <1>4 DEF ConnectFails
<1>5. CASE Ready(r)
  <2>1. attempt[r].host \in Hosts /\ attempt[r].presented \in Keys \cup {NoKey}
    OBVIOUS
  <2>2. store' \in [Hosts -> Keys \cup {NoKey}] /\ disk' \in [Hosts -> Keys \cup {NoKey}]
    <3>1. Trusted(attempt[r].host, attempt[r].presented) \in [Hosts -> Keys \cup {NoKey}]
      BY <2>1 DEF Trusted
    <3>2. \/ store' = Trusted(attempt[r].host, attempt[r].presented) /\ disk' = store'
          \/ UNCHANGED <<store, disk>>
      BY <1>5 DEF Ready
    <3> QED BY <3>1, <3>2
  <2>3. /\ pc' = [pc EXCEPT ![r] = "detectOs"] /\ conn' = [conn EXCEPT ![r] = "open"]
        /\ UNCHANGED <<shown, sessions, target, reply, attempt>>
    BY <1>5 DEF Ready
  <2>4. QED BY <2>2, <2>3
<1>6. CASE ReadySaveFails(r)
  <2>1. attempt[r].host \in Hosts /\ attempt[r].presented \in Keys \cup {NoKey}
    OBVIOUS
  <2>2. store' \in [Hosts -> Keys \cup {NoKey}]
    BY <1>6, <2>1 DEF ReadySaveFails, Trusted
  <2>3. QED BY <1>6, <2>2 DEF ReadySaveFails
<1>7. CASE DetectOs(r)
  BY <1>7 DEF DetectOs
<1>8. CASE Register(r)
  BY <1>8 DEF Register
<1>9. CASE ProbeThrows(r)
  BY <1>9 DEF ProbeThrows
<1> QED
  BY <1>1, <1>2, <1>3, <1>4, <1>5, <1>6, <1>7, <1>8, <1>9 DEF ConnectStep

LEMMA TypeCall ==
  ASSUME TypeOK, NEW r \in Requests, CallStep(r)
  PROVE  TypeOK'
<1> USE DEF TypeOK, Answer, Await, SetConn, InFlight, Opening, Replies, Cleanup
<1>1. ASSUME NEW s \in Requests, UnknownSession(r, s) \/ Call(r, s)
      PROVE  TypeOK'
  <2>1. CASE UnknownSession(r, s)
    BY <2>1 DEF UnknownSession
  <2>2. CASE Call(r, s)
    BY <2>2 DEF Call
  <2> QED BY <1>1, <2>1, <2>2
<1>2. ASSUME NEW s \in Requests, CallAsUser(r, s)
      PROVE  TypeOK'
  <2>1. NoAttempt(attempt[s].host) \in [host : Hosts, known : Keys \cup {NoKey},
                                       trust : Keys \cup {NoKey}, presented : Keys \cup {NoKey}]
    BY DEF NoAttempt
  <2> QED BY <1>2, <2>1 DEF CallAsUser
<1>3. ASSUME NEW k \in Keys, ElevateReady(r, k)
      PROVE  TypeOK'
  BY <1>3 DEF ElevateReady
<1>4. CASE ElevateFails(r) \/ CallReturns(r) \/ CallThrows(r)
  BY <1>4 DEF ElevateFails, CallReturns, CallThrows
<1> QED
  BY <1>1, <1>2, <1>3, <1>4 DEF CallStep

LEMMA TypeRestart ==
  ASSUME TypeOK, NEW file \in [Hosts -> Keys \cup {NoKey}], Restart(file)
  PROVE  TypeOK'
BY DEF TypeOK, Restart, InFlight, Opening, Replies

LEMMA TypeNext == TypeOK /\ [Next]_vars => TypeOK'
<1> SUFFICES ASSUME TypeOK, [Next]_vars
             PROVE  TypeOK'
  OBVIOUS
<1>1. ASSUME NEW r \in Requests, ConnectStep(r) \/ CallStep(r)
      PROVE  TypeOK'
  BY <1>1, TypeConnect, TypeCall
<1>2. ASSUME NEW r \in Requests, Disconnect(r) \/ Drop(r)
      PROVE  TypeOK'
  BY <1>2 DEF TypeOK, Disconnect, Drop, SetConn
<1>3. CASE Crash
  BY <1>3, TypeRestart DEF Crash, TypeOK
<1>4. CASE CrashWhileSaving
  BY <1>4, TypeRestart DEF CrashWhileSaving
<1>5. CASE UNCHANGED vars
  BY <1>5 DEF vars, TypeOK
<1> QED
  BY <1>1, <1>2, <1>3, <1>4, <1>5 DEF Next

\* The variables of the gateway keep their types.
THEOREM TypeCorrect == Spec => []TypeOK
BY TypeInit, TypeNext, PTL DEF Spec

(***************************************************************************)
(* The inductive invariant.  First the bookkeeping: a step of request r    *)
(* changes what is booked of r alone.                                      *)
(***************************************************************************)

LEMMA BookedConnect ==
  ASSUME TypeOK, \A q \in Requests : Booked(q), NEW r \in Requests, ConnectStep(r)
  PROVE  \A q \in Requests : Booked(q)'
<1> SUFFICES ASSUME NEW q \in Requests
             PROVE  Booked(q)'
  OBVIOUS
<1> USE DEF TypeOK, Booked, Answer, Await, SetConn, InFlight, Opening, Replies, IsMain
<1>1. ASSUME NEW h \in Hosts, NEW trust \in Confirmable(h), Connect(r, h, trust)
      PROVE  Booked(q)'
  BY <1>1 DEF Connect
<1>2. ASSUME NEW k \in Keys, VerifyAccept(r, k)
      PROVE  Booked(q)'
  BY <1>2 DEF VerifyAccept
<1>3. ASSUME NEW k \in Keys, VerifyReject(r, k)
      PROVE  Booked(q)'
  <2>1. \E what \in {"verify-host-key", "mismatch"} : reply' = [reply EXCEPT ![r] = what]
    BY <1>3 DEF VerifyReject
  <2>2. /\ pc[r] = "handshake" /\ pc' = [pc EXCEPT ![r] = "replied"]
        /\ conn' = [conn EXCEPT ![r] = "closed"] /\ UNCHANGED <<sessions, target>>
    BY <1>3 DEF VerifyReject
  <2> QED BY <2>1, <2>2
<1>4. CASE ConnectFails(r)
  BY <1>4 DEF ConnectFails
<1>5. CASE Ready(r)
  BY <1>5 DEF Ready
<1>6. CASE ReadySaveFails(r)
  BY <1>6 DEF ReadySaveFails
<1>7. CASE DetectOs(r)
  BY <1>7 DEF DetectOs
<1>8. CASE Register(r)
  BY <1>8 DEF Register
<1>9. CASE ProbeThrows(r)
  BY <1>9 DEF ProbeThrows
<1> QED
  BY <1>1, <1>2, <1>3, <1>4, <1>5, <1>6, <1>7, <1>8, <1>9 DEF ConnectStep

LEMMA BookedCall ==
  ASSUME TypeOK, \A q \in Requests : Booked(q), NEW r \in Requests, CallStep(r)
  PROVE  \A q \in Requests : Booked(q)'
<1> SUFFICES ASSUME NEW q \in Requests
             PROVE  Booked(q)'
  OBVIOUS
<1> USE NoSessionAssumption
    DEF TypeOK, Booked, Answer, Await, SetConn, InFlight, Opening, Replies, IsMain, Cleanup
<1>1. ASSUME NEW s \in Requests, UnknownSession(r, s)
      PROVE  Booked(q)'
  BY <1>1 DEF UnknownSession
<1>2. ASSUME NEW s \in Requests, Call(r, s)
      PROVE  Booked(q)'
  BY <1>2 DEF Call
<1>3. ASSUME NEW s \in Requests, CallAsUser(r, s)
      PROVE  Booked(q)'
  BY <1>3 DEF CallAsUser
<1>4. CASE ElevateFails(r)
  BY <1>4 DEF ElevateFails
<1>5. ASSUME NEW k \in Keys, ElevateReady(r, k)
      PROVE  Booked(q)'
  BY <1>5 DEF ElevateReady
<1>6. CASE CallReturns(r)
  BY <1>6 DEF CallReturns
<1>7. CASE CallThrows(r)
  BY <1>7 DEF CallThrows
<1> QED
  BY <1>1, <1>2, <1>3, <1>4, <1>5, <1>6, <1>7 DEF CallStep

LEMMA BookedNext ==
  TypeOK /\ (\A q \in Requests : Booked(q)) /\ [Next]_vars => \A q \in Requests : Booked(q)'
<1> SUFFICES ASSUME TypeOK, \A q \in Requests : Booked(q), [Next]_vars
             PROVE  \A q \in Requests : Booked(q)'
  OBVIOUS
<1>1. ASSUME NEW r \in Requests, ConnectStep(r) \/ CallStep(r)
      PROVE  \A q \in Requests : Booked(q)'
  BY <1>1, BookedConnect, BookedCall
<1>2. ASSUME NEW s \in Requests, Disconnect(s) \/ Drop(s)
      PROVE  \A q \in Requests : Booked(q)'
  BY <1>2 DEF TypeOK, Booked, Disconnect, Drop, SetConn, IsMain, Opening
<1>3. ASSUME NEW file, Restart(file)
      PROVE  \A q \in Requests : Booked(q)'
  BY <1>3 DEF TypeOK, Booked, Restart, InFlight, Opening, Replies, IsMain
<1>4. CASE UNCHANGED vars
  BY <1>4 DEF vars, Booked, IsMain
<1> QED
  BY <1>1, <1>2, <1>3, <1>4 DEF Next, Crash, CrashWhileSaving

(***************************************************************************)
(* What users vouched for.  Prompts are never taken back, and a step that  *)
(* is not a restart keeps every host it knows; so what a request has been  *)
(* vouched for stays so until the request acts on it.                      *)
(***************************************************************************)

\* What a step of a request other than q's own must respect for q to stay vouched for.
Keeps(q) ==
  /\ shown \subseteq shown'
  /\ \A h \in Hosts : store[h] # NoKey => store'[h] # NoKey
  /\ pc'[q] = pc[q] /\ conn'[q] = conn[q] /\ attempt'[q] = attempt[q] /\ target'[q] = target[q]
  /\ (q \in sessions') = (q \in sessions)

LEMMA KeptVouched ==
  ASSUME TypeOK, NEW q \in Requests, Vouched(q), Keeps(q)
  PROVE  Vouched(q)'
<1>1. attempt[q].host \in Hosts
  BY DEF TypeOK
<1> QED
  BY <1>1 DEF Keeps, Vouched, Confirmable, HostVerified, IsMain, Opening

LEMMA ConnectKeepsOthers ==
  ASSUME TypeOK, NoKey \notin Keys, NEW r \in Requests, ConnectStep(r),
         Vouched(r), NEW q \in Requests, q # r
  PROVE  Keeps(q)
<1> USE DEF TypeOK, Keeps, Answer, Await, SetConn
<1>1. ASSUME NEW h \in Hosts, NEW trust \in Confirmable(h), Connect(r, h, trust)
      PROVE  Keeps(q)
  BY <1>1 DEF Connect
<1>2. ASSUME NEW k \in Keys, VerifyAccept(r, k)
      PROVE  Keeps(q)
  BY <1>2 DEF VerifyAccept
<1>3. ASSUME NEW k \in Keys, VerifyReject(r, k)
      PROVE  Keeps(q)
  <2>1. /\ shown \subseteq shown' /\ UNCHANGED <<store, sessions, target>>
        /\ pc' = [pc EXCEPT ![r] = "replied"] /\ conn' = [conn EXCEPT ![r] = "closed"]
    BY <1>3 DEF VerifyReject
  <2>2. attempt'[q] = attempt[q]
    BY <1>3 DEF VerifyReject
  <2> QED BY <2>1, <2>2
<1>4. CASE Ready(r) \/ ReadySaveFails(r)
  <2>1. attempt[r].host \in Hosts /\ attempt[r].presented \in Keys
    BY <1>4 DEF Ready, ReadySaveFails, Vouched, Opening
  <2>2. \A h \in Hosts : store[h] # NoKey => store'[h] # NoKey
    BY <1>4, <2>1 DEF Ready, ReadySaveFails, Trusted
  <2> QED BY <1>4, <2>2 DEF Ready, ReadySaveFails
<1>5. CASE ConnectFails(r) \/ DetectOs(r) \/ Register(r) \/ ProbeThrows(r)
  BY <1>5 DEF ConnectFails, DetectOs, Register, ProbeThrows
<1> QED
  BY <1>1, <1>2, <1>3, <1>4, <1>5 DEF ConnectStep

LEMMA ConnectVouches ==
  ASSUME IInv, NEW r \in Requests, ConnectStep(r)
  PROVE  StoreVouched' /\ Vouched(r)'
<1> USE NoKeyAssumption DEF IInv, TypeOK, Answer, Await, SetConn, Opening, IsMain, Confirmable
<1>0. attempt[r].host \in Hosts
  OBVIOUS
<1>target. target'[r] = NoSession
  BY DEF ConnectStep, Connect, VerifyAccept, VerifyReject, ConnectFails, Ready, ReadySaveFails,
         DetectOs, Register, ProbeThrows, Booked
<1>1. ASSUME NEW h \in Hosts, NEW trust \in Confirmable(h), Connect(r, h, trust)
      PROVE  StoreVouched' /\ Vouched(r)'
  <2>1. /\ attempt'[r] = [host |-> h, known |-> store[h], trust |-> trust, presented |-> NoKey]
        /\ pc'[r] = "handshake" /\ conn'[r] = "connecting"
        /\ UNCHANGED <<store, disk, shown, sessions, target>>
    BY <1>1 DEF Connect
  <2>2. r \notin sessions
    BY <1>1 DEF Connect, Booked
  <2>3. store[h] \in Confirmable(h)
    BY DEF StoreVouched
  <2> QED BY <1>target, <2>1, <2>2, <2>3, <1>0 DEF StoreVouched, Vouched
<1>2. ASSUME NEW k \in Keys, VerifyAccept(r, k)
      PROVE  StoreVouched' /\ Vouched(r)'
  <2>1. /\ attempt'[r] = [attempt[r] EXCEPT !.presented = k]
        /\ pc[r] = "handshake" /\ pc'[r] = "auth"
        /\ UNCHANGED <<store, disk, shown, sessions, conn, target>>
    BY <1>2 DEF VerifyAccept
  <2>2. k = attempt[r].known \/ k = attempt[r].trust
    BY <1>2 DEF VerifyAccept, Verdict
  <2>3. <<attempt[r].host, k>> \in shown
    BY <2>1, <2>2 DEF Vouched
  <2>4. r \notin sessions
    BY <2>1 DEF Booked
  <2>5. /\ attempt'[r].host = attempt[r].host /\ attempt'[r].known = attempt[r].known
        /\ attempt'[r].trust = attempt[r].trust /\ attempt'[r].presented = k
    BY <2>1
  <2> QED BY <1>target, <2>1, <2>3, <2>4, <2>5 DEF StoreVouched, Vouched
<1>3. ASSUME NEW k \in Keys, VerifyReject(r, k)
      PROVE  StoreVouched' /\ Vouched(r)'
  <2>1. /\ shown \subseteq shown' /\ UNCHANGED <<store, disk, sessions, target>>
        /\ pc[r] = "handshake" /\ pc'[r] = "replied" /\ conn'[r] = "closed"
    BY <1>3 DEF VerifyReject
  <2>2. r \notin sessions
    BY <2>1 DEF Booked
  <2> QED BY <1>target, <2>1, <2>2 DEF StoreVouched, Vouched
<1>4. CASE Ready(r) \/ ReadySaveFails(r)
  <2>1. /\ attempt[r].presented \in Keys /\ <<attempt[r].host, attempt[r].presented>> \in shown
        /\ attempt[r].known # NoKey => store[attempt[r].host] # NoKey
        /\ attempt[r].known \in Confirmable(attempt[r].host)
        /\ attempt[r].trust \in Confirmable(attempt[r].host)
    BY <1>4 DEF Ready, ReadySaveFails, Vouched
  <2>2. /\ UNCHANGED <<shown, sessions, attempt, target>>
        /\ pc'[r] \in {"detectOs", "replied"} /\ r \notin sessions
        /\ pc'[r] = "replied" => attempt[r].known = NoKey
    BY <1>4 DEF Ready, ReadySaveFails, Booked
  <2>3. \/ attempt[r].known # NoKey /\ UNCHANGED <<store, disk>>
        \/ store' = Trusted(attempt[r].host, attempt[r].presented) /\ disk' \in {store', disk}
    BY <1>4 DEF Ready, ReadySaveFails
  <2>4. store'[attempt[r].host] # NoKey
    BY <1>0, <2>1, <2>3 DEF Trusted
  <2>5. ASSUME NEW h \in Hosts
        PROVE  store'[h] \in Confirmable(h) /\ disk'[h] \in Confirmable(h)
    <3>1. store[h] \in Confirmable(h) /\ disk[h] \in Confirmable(h)
      BY DEF StoreVouched
    <3>2. CASE UNCHANGED <<store, disk>>
      BY <3>1, <3>2
    <3>3. CASE store' = Trusted(attempt[r].host, attempt[r].presented) /\ disk' \in {store', disk}
      <4>1. store'[h] = IF h = attempt[r].host THEN attempt[r].presented ELSE store[h]
        BY <1>0, <3>3 DEF Trusted
      <4>2. store'[h] \in Confirmable(h)
        BY <2>1, <3>1, <4>1
      <4> QED BY <3>1, <3>3, <4>2
    <3> QED BY <2>3, <3>2, <3>3
  <2>6. StoreVouched'
    BY <2>2, <2>5 DEF StoreVouched
  <2> QED BY <1>target, <2>1, <2>2, <2>4, <2>6 DEF Vouched
<1>5. CASE ConnectFails(r)
  BY <1>target, <1>5 DEF ConnectFails, StoreVouched, Vouched, Booked
<1>6. CASE DetectOs(r)
  BY <1>target, <1>6 DEF DetectOs, StoreVouched, Vouched, Booked
<1>7. CASE Register(r)
  BY <1>target, <1>7 DEF Register, StoreVouched, Vouched, Booked
<1>8. CASE ProbeThrows(r)
  BY <1>target, <1>8 DEF ProbeThrows, StoreVouched, Vouched, Booked
<1> QED
  BY <1>1, <1>2, <1>3, <1>4, <1>5, <1>6, <1>7, <1>8 DEF ConnectStep

\* A call stores nothing and opens nothing but a transient session, and that to the host
\* of a registered one.
LEMMA CallVouches ==
  ASSUME IInv, NEW r \in Requests, CallStep(r)
  PROVE  StoreVouched' /\ \A q \in Requests : Vouched(q)'
<1> USE NoSessionAssumption DEF Answer, Await, SetConn, Cleanup
<1>0. TypeOK /\ StoreVouched /\ \A q \in Requests : Booked(q) /\ Vouched(q)
  BY DEF IInv
<1>1. UNCHANGED <<store, disk, shown, sessions>>
  BY DEF CallStep, UnknownSession, Call, CallAsUser, ElevateFails, ElevateReady,
         CallReturns, CallThrows
<1>2. StoreVouched'
  BY <1>0, <1>1 DEF StoreVouched, Confirmable
<1>3. ASSUME NEW q \in Requests, q # r
      PROVE  Vouched(q)'
  <2>1. Keeps(q)
    BY <1>0, <1>1, <1>3 DEF Keeps, CallStep, UnknownSession, Call, CallAsUser, ElevateFails,
                            ElevateReady, CallReturns, CallThrows, TypeOK
  <2> QED BY <1>0, <2>1, KeptVouched
<1>4. r \notin sessions /\ pc[r] \notin Opening
  <2>1. pc[r] \in {"idle", "elevating", "call"}
    BY DEF CallStep, UnknownSession, Call, CallAsUser, ElevateFails, ElevateReady, CallReturns,
           CallThrows
  <2> QED BY <1>0, <2>1 DEF TypeOK, Booked, Opening
<1> DEFINE Transient == conn'[r] \in {"connecting", "open"} => target'[r] # NoSession
           OfVerified == conn'[r] \in {"connecting", "open"} => HostVerified(attempt'[r].host)
<1>5. ASSUME NEW s \in Requests, UnknownSession(r, s) \/ Call(r, s)
      PROVE  pc'[r] \notin Opening /\ Transient /\ OfVerified
  BY <1>0, <1>5 DEF UnknownSession, Call, Opening, TypeOK, Booked
<1>6. ASSUME NEW s \in Requests, CallAsUser(r, s)
      PROVE  pc'[r] \notin Opening /\ Transient /\ OfVerified
  <2>1. pc'[r] \notin Opening /\ target'[r] = s
    BY <1>0, <1>6 DEF CallAsUser, Opening, TypeOK
  <2>2. attempt'[r].host = attempt[s].host
    BY <1>0, <1>6 DEF CallAsUser, NoAttempt, TypeOK
  <2>3. store[attempt[s].host] # NoKey /\ attempt[s].host \in Hosts
    BY <1>0, <1>6 DEF CallAsUser, Vouched, TypeOK
  <2>4. HostVerified(attempt[s].host)
    BY <1>0, <2>3 DEF StoreVouched, Confirmable, HostVerified
  <2> QED BY <2>1, <2>2, <2>4
<1>7. ASSUME NEW k \in Keys, ElevateReady(r, k)
      PROVE  pc'[r] \notin Opening /\ Transient /\ OfVerified
  <2>1. conn[r] = "connecting" /\ target[r] # NoSession
    BY <1>0, <1>7 DEF ElevateReady, Booked, IsMain
  <2>2. HostVerified(attempt[r].host)
    BY <1>0, <2>1 DEF Vouched, IsMain
  <2>3. attempt'[r].host = attempt[r].host
    BY <1>0, <1>7 DEF ElevateReady, TypeOK
  <2>4. pc'[r] = "call" /\ target'[r] = target[r]
    BY <1>0, <1>7 DEF ElevateReady, TypeOK
  <2> QED BY <2>1, <2>2, <2>3, <2>4 DEF Opening
<1>8. ASSUME ElevateFails(r) \/ CallReturns(r) \/ CallThrows(r)
      PROVE  pc'[r] \notin Opening /\ Transient /\ OfVerified
  <2>1. pc'[r] = "replied" /\ conn'[r] \notin {"connecting", "open"}
    BY <1>0, <1>8 DEF ElevateFails, CallReturns, CallThrows, TypeOK, Booked
  <2> QED BY <2>1 DEF Opening
<1>9. pc'[r] \notin Opening /\ Transient /\ OfVerified
  BY <1>5, <1>6, <1>7, <1>8 DEF CallStep
<1>10. Vouched(r)'
  <2>1. HostVerified(attempt'[r].host) => HostVerified(attempt[r].host)'
    BY <1>1 DEF HostVerified
  <2> QED BY <1>1, <1>4, <1>9, <2>1 DEF Vouched, IsMain, Opening
<1> QED
  BY <1>2, <1>3, <1>10

LEMMA RestartVouches ==
  ASSUME IInv, NEW file, Restart(file), \A h \in Hosts : file[h] \in Confirmable(h)
  PROVE  StoreVouched' /\ \A q \in Requests : Vouched(q)'
<1>1. ASSUME NEW q \in Requests
      PROVE  pc'[q] \notin Opening /\ conn'[q] \notin {"connecting", "open"} /\ q \notin sessions'
  BY DEF Restart, Opening, InFlight
<1>2. \A q \in Requests : Vouched(q)'
  BY <1>1 DEF Vouched, Opening
<1>3. StoreVouched'
  BY DEF StoreVouched, Restart, Confirmable
<1> QED BY <1>2, <1>3

LEMMA InvNext == IInv /\ [Next]_vars => IInv'
<1> SUFFICES ASSUME IInv, [Next]_vars
             PROVE  IInv'
  OBVIOUS
<1>1. TypeOK' /\ \A q \in Requests : Booked(q)'
  BY TypeNext, BookedNext DEF IInv
<1>2. ASSUME NEW r \in Requests, ConnectStep(r)
      PROVE  StoreVouched' /\ \A q \in Requests : Vouched(q)'
  <2>1. StoreVouched' /\ Vouched(r)'
    BY <1>2, ConnectVouches
  <2>2. ASSUME NEW q \in Requests, q # r
        PROVE  Vouched(q)'
    <3>1. Keeps(q)
      BY <1>2, <2>2, ConnectKeepsOthers, NoKeyAssumption DEF IInv
    <3> QED BY <3>1, KeptVouched DEF IInv
  <2> QED BY <2>1, <2>2
<1>3. ASSUME NEW r \in Requests, CallStep(r)
      PROVE  StoreVouched' /\ \A q \in Requests : Vouched(q)'
  BY <1>3, CallVouches
<1>4. ASSUME NEW s \in Requests, Disconnect(s) \/ Drop(s)
      PROVE  StoreVouched' /\ \A q \in Requests : Vouched(q)'
  <2>1. /\ UNCHANGED <<store, disk, shown, pc, attempt, target>> /\ sessions' \subseteq sessions
        /\ \A q \in Requests : conn'[q] = conn[q] \/ conn'[q] = "closed"
    BY <1>4 DEF Disconnect, Drop, SetConn, IInv, TypeOK
  <2>2. StoreVouched'
    BY <2>1 DEF IInv, StoreVouched, Confirmable
  <2>3. ASSUME NEW q \in Requests
        PROVE  Vouched(q)'
    <3>1. /\ Vouched(q) /\ IsMain(q)' = IsMain(q)
          /\ \A h \in Hosts : Confirmable(h)' = Confirmable(h) /\ HostVerified(h)' = HostVerified(h)
          /\ attempt[q].host \in Hosts
      BY <2>1 DEF IInv, TypeOK, IsMain, Confirmable, HostVerified
    <3>2. conn'[q] = "open" => conn[q] = "open"
      BY <2>1
    <3>3. conn'[q] \in {"connecting", "open"} => conn[q] \in {"connecting", "open"}
      BY <2>1
    <3> QED BY <2>1, <3>1, <3>2, <3>3 DEF Vouched
  <2> QED BY <2>2, <2>3
<1>5. ASSUME Crash
      PROVE  StoreVouched' /\ \A q \in Requests : Vouched(q)'
  BY <1>5, RestartVouches DEF Crash, IInv, StoreVouched
<1>6. ASSUME CrashWhileSaving
      PROVE  StoreVouched' /\ \A q \in Requests : Vouched(q)'
  BY <1>6, RestartVouches DEF CrashWhileSaving, Confirmable
<1>7. ASSUME UNCHANGED vars
      PROVE  StoreVouched' /\ \A q \in Requests : Vouched(q)'
  BY <1>7 DEF vars, IInv, StoreVouched, Vouched, Confirmable, HostVerified, IsMain
<1> QED
  BY <1>1, <1>2, <1>3, <1>4, <1>5, <1>6, <1>7 DEF Next, IInv

LEMMA InvInit == Init => IInv
BY TypeInit, NoSessionAssumption
   DEF Init, IInv, TypeOK, Booked, StoreVouched, Vouched, Confirmable, IsMain, Opening

LEMMA Invariance == Spec => []IInv
BY InvInit, InvNext, PTL DEF Spec

(***************************************************************************)
(* The safety properties.                                                  *)
(***************************************************************************)

\* Whatever requests, failures and restarts interleave, the gateway stores only keys the user
\* was asked to verify for that host, and the sessions that connect requests opened run on
\* such keys; a transient session is to a host with such a key, on a key nobody looks at.
THEOREM VerifiedKeys == Spec => []KeysWereVerified
<1>1. IInv => KeysWereVerified
  BY NoKeyAssumption
     DEF IInv, TypeOK, StoreVouched, Vouched, Confirmable, KeysWereVerified, IsMain
<1> QED BY <1>1, Invariance, PTL

\* A session is registered only while its host is in the known-hosts map.
THEOREM RegisteredAreKnown == Spec => []RegisteredHostsAreKnown
<1>1. IInv => RegisteredHostsAreKnown
  BY DEF IInv, TypeOK, Vouched, RegisteredHostsAreKnown
<1> QED BY <1>1, Invariance, PTL

\* No answered request leaves a transient session of another user behind.
THEOREM TransientsEnd == Spec => []TransientSessionsEnd
<1>1. IInv => TransientSessionsEnd
  BY DEF IInv, TypeOK, Booked, TransientSessionsEnd, IsMain
<1> QED BY <1>1, Invariance, PTL

\* The only connected session nobody can reach is that of a connect that failed late.
THEOREM OnlyFailedLeak == Spec => []OnlyFailedConnectsLeak
<1>1. IInv => OnlyFailedConnectsLeak
  BY DEF IInv, TypeOK, Booked, OnlyFailedConnectsLeak, IsMain, InFlight, Opening
<1> QED BY <1>1, Invariance, PTL

\* A known host is forgotten only by a restart.
THEOREM KnownHostsStay == Spec => HostsStayKnown
<1> DEFINE Stays ==
      (\E h \in Hosts : store[h] # NoKey /\ store'[h] = NoKey)
        => sessions' = {} /\ \A r \in Requests : pc'[r] \notin InFlight
<1>1. ASSUME IInv, [Next]_vars
      PROVE  Stays
  <2>1. ASSUME NEW r \in Requests, Ready(r) \/ ReadySaveFails(r)
        PROVE  Stays
    <3>1. attempt[r].host \in Hosts /\ attempt[r].presented \in Keys
      BY <1>1, <2>1 DEF IInv, TypeOK, Ready, ReadySaveFails, Vouched, Opening
    <3>2. \A h \in Hosts : store[h] # NoKey => store'[h] # NoKey
      BY <1>1, <2>1, <3>1, NoKeyAssumption DEF IInv, TypeOK, Ready, ReadySaveFails, Trusted
    <3> QED BY <3>2
  <2>2. ASSUME NEW r \in Requests, ConnectStep(r), ~Ready(r), ~ReadySaveFails(r)
        PROVE  Stays
    <3>1. UNCHANGED store
      BY <2>2 DEF ConnectStep, Connect, VerifyAccept, VerifyReject, ConnectFails, DetectOs,
                  Register, ProbeThrows
    <3> QED BY <3>1
  <2>3. ASSUME NEW r \in Requests, CallStep(r) \/ Disconnect(r) \/ Drop(r)
        PROVE  Stays
    <3>1. UNCHANGED store
      BY <2>3 DEF CallStep, UnknownSession, Call, CallAsUser, ElevateFails, ElevateReady,
                  CallReturns, CallThrows, Disconnect, Drop
    <3> QED BY <3>1
  <2>4. ASSUME NEW file, Restart(file)
        PROVE  Stays
    BY <1>1, <2>4 DEF IInv, TypeOK, Restart, InFlight, Opening
  <2>5. CASE UNCHANGED vars
    BY <2>5 DEF vars
  <2> QED
    BY <1>1, <2>1, <2>2, <2>3, <2>4, <2>5 DEF Next, Crash, CrashWhileSaving
<1>2. IInv /\ [Next]_vars => [Stays]_vars
  BY <1>1
<1> QED BY <1>2, Invariance, PTL DEF Spec, HostsStayKnown

(***************************************************************************)
(* The gateway implements SessionContract.                                 *)
(***************************************************************************)

Phase == [r \in Requests |-> PhaseOf(r)]

\* A step that moves r alone, from one phase to another, is a step of the contract's Move.
LEMMA Moves ==
  ASSUME NEW r \in Requests, NEW to, PhaseOf(r)' = to,
         \A q \in Requests : q # r => PhaseOf(q)' = PhaseOf(q)
  PROVE  Phase' = [Phase EXCEPT ![r] = to]
BY DEF Phase

\* A request's phase is a function of these; other requests do not move it.
LEMMA OthersStay ==
  ASSUME NEW q \in Requests, pc'[q] = pc[q], reply'[q] = reply[q], target'[q] = target[q],
         (q \in sessions') = (q \in sessions)
  PROVE  PhaseOf(q)' = PhaseOf(q)
BY DEF PhaseOf, IsMain

LEMMA RefinesConnect ==
  ASSUME IInv, NEW r \in Requests, ConnectStep(r)
  PROVE  Contract!Next \/ UNCHANGED Contract!vars
<1> USE DEF IInv, TypeOK, Answer, Await, Opening, InFlight, Replies, PhaseOf, IsMain
<1>1. UNCHANGED target /\ r \notin sessions /\ Booked(r)
  BY DEF ConnectStep, Connect, VerifyAccept, VerifyReject, ConnectFails, Ready, ReadySaveFails,
         DetectOs, Register, ProbeThrows, Booked
<1>2. \A q \in Requests : q # r => PhaseOf(q)' = PhaseOf(q)
  <2>1. ASSUME NEW q \in Requests, q # r
        PROVE  /\ pc'[q] = pc[q] /\ reply'[q] = reply[q]
               /\ (q \in sessions') = (q \in sessions)
    BY <2>1 DEF ConnectStep, Connect, VerifyAccept, VerifyReject, ConnectFails, Ready,
                ReadySaveFails, DetectOs, Register, ProbeThrows
  <2> QED BY <1>1, <2>1, OthersStay
<1>3. CASE PhaseOf(r) = "idle" /\ PhaseOf(r)' = "opening"
  <2>1. Contract!Open(r)
    BY <1>1, <1>2, <1>3, Moves DEF Contract!Open, Contract!Move, Phase
  <2> QED BY <2>1 DEF Contract!Next
<1>4. CASE PhaseOf(r) = "opening" /\ PhaseOf(r)' = "live"
  <2>1. Contract!Grant(r)
    BY <1>1, <1>2, <1>4, Moves DEF Contract!Grant, Contract!Move, Phase
  <2> QED BY <2>1 DEF Contract!Next
<1>5. CASE PhaseOf(r) = "opening" /\ PhaseOf(r)' = "refused"
  <2>1. Contract!Refuse(r)
    BY <1>1, <1>2, <1>5, Moves DEF Contract!Refuse, Contract!Move, Phase
  <2> QED BY <2>1 DEF Contract!Next
<1>6. CASE PhaseOf(r)' = PhaseOf(r)
  BY <1>1, <1>2, <1>6 DEF Contract!vars
<1>7. \/ PhaseOf(r) = "idle" /\ PhaseOf(r)' = "opening"
      \/ PhaseOf(r) = "opening" /\ PhaseOf(r)' \in {"opening", "live", "refused"}
  <2>1. ASSUME NEW h \in Hosts, NEW trust \in Confirmable(h), Connect(r, h, trust)
        PROVE  <1>7
    BY <1>1, <2>1 DEF Connect
  <2>2. ASSUME NEW k \in Keys, VerifyAccept(r, k) \/ VerifyReject(r, k)
        PROVE  <1>7
    BY <1>1, <2>2 DEF VerifyAccept, VerifyReject, Booked
  <2>3. CASE ConnectFails(r) \/ Ready(r) \/ ReadySaveFails(r)
    BY <1>1, <2>3 DEF ConnectFails, Ready, ReadySaveFails, Booked
  <2>4. CASE DetectOs(r) \/ Register(r) \/ ProbeThrows(r)
    BY <1>1, <2>4 DEF DetectOs, Register, ProbeThrows, Booked
  <2> QED BY <2>1, <2>2, <2>3, <2>4 DEF ConnectStep
<1> QED BY <1>3, <1>4, <1>5, <1>6, <1>7

LEMMA RefinesCall ==
  ASSUME IInv, NEW r \in Requests, CallStep(r)
  PROVE  Contract!Next \/ UNCHANGED Contract!vars
<1> USE NoSessionAssumption
    DEF IInv, TypeOK, Answer, Await, Opening, InFlight, Replies, PhaseOf, IsMain
<1>1. UNCHANGED sessions /\ r \notin sessions /\ Booked(r)
  BY DEF CallStep, UnknownSession, Call, CallAsUser, ElevateFails, ElevateReady, CallReturns,
         CallThrows, Booked
<1>2. \A q \in Requests : q # r => PhaseOf(q)' = PhaseOf(q)
  <2>1. ASSUME NEW q \in Requests, q # r
        PROVE  pc'[q] = pc[q] /\ reply'[q] = reply[q] /\ target'[q] = target[q]
    BY <2>1 DEF CallStep, UnknownSession, Call, CallAsUser, ElevateFails, ElevateReady,
                CallReturns, CallThrows
  <2> QED BY <1>1, <2>1, OthersStay
<1>3. ASSUME NEW s \in Requests, UnknownSession(r, s)
      PROVE  Contract!Miss(r, s)
  <2>1. PhaseOf(s) = "ended"
    BY <1>3 DEF UnknownSession, Issued, Booked
  <2>2. PhaseOf(r) = "idle" /\ PhaseOf(r)' = "answered" /\ UNCHANGED target
    BY <1>1, <1>3 DEF UnknownSession
  <2> QED BY <1>2, <2>1, <2>2, Moves DEF Contract!Miss, Contract!Move, Phase
<1>4. ASSUME NEW s \in Requests, Call(r, s) \/ CallAsUser(r, s)
      PROVE  Contract!Begin(r, s)
  <2>1. PhaseOf(s) = "live"
    BY <1>4 DEF Call, CallAsUser
  <2>2. /\ PhaseOf(r) = "idle" /\ PhaseOf(r)' = "calling"
        /\ target' = [target EXCEPT ![r] = s]
    BY <1>1, <1>4 DEF Call, CallAsUser
  <2>3. Phase' = [Phase EXCEPT ![r] = "calling"]
    BY <1>2, <2>2, Moves
  <2>4. Phase[r] = "idle" /\ Phase[s] = "live"
    BY <2>1, <2>2 DEF Phase
  <2> HIDE DEF IInv, TypeOK, PhaseOf
  <2> QED BY <2>2, <2>3, <2>4 DEF Contract!Begin, Contract!Move, Phase
<1>5. ASSUME ElevateFails(r) \/ CallReturns(r) \/ CallThrows(r)
      PROVE  Contract!Finish(r)
  <2>1. PhaseOf(r) = "calling" /\ PhaseOf(r)' = "answered" /\ UNCHANGED target
    BY <1>1, <1>5 DEF ElevateFails, CallReturns, CallThrows, Booked
  <2> QED BY <1>2, <2>1, Moves DEF Contract!Finish, Contract!Move, Phase
<1>6. ASSUME NEW k \in Keys, ElevateReady(r, k)
      PROVE  UNCHANGED Contract!vars
  <2>1. PhaseOf(r)' = PhaseOf(r) /\ UNCHANGED target
    BY <1>1, <1>6 DEF ElevateReady
  <2> QED BY <1>2, <2>1 DEF Contract!vars
<1> QED
  BY <1>3, <1>4, <1>5, <1>6 DEF CallStep, Contract!Next

LEMMA RefinesNext == IInv /\ [Next]_vars => [Contract!Next]_Contract!vars
<1> SUFFICES ASSUME IInv, [Next]_vars
             PROVE  Contract!Next \/ UNCHANGED Contract!vars
  OBVIOUS
<1>1. ASSUME NEW r \in Requests, ConnectStep(r) \/ CallStep(r)
      PROVE  Contract!Next \/ UNCHANGED Contract!vars
  BY <1>1, RefinesConnect, RefinesCall
<1>2. ASSUME NEW s \in Requests, Disconnect(s)
      PROVE  Contract!End(s)
  <2>1. \A q \in Requests : q # s => PhaseOf(q)' = PhaseOf(q)
    BY <1>2, OthersStay DEF Disconnect
  <2>2. PhaseOf(s) = "live" /\ PhaseOf(s)' = "ended" /\ UNCHANGED target
    BY <1>2 DEF Disconnect, PhaseOf, IInv, TypeOK, Booked, Opening, InFlight
  <2> QED BY <2>1, <2>2, Moves DEF Contract!End, Contract!Move, Phase
<1>3. ASSUME NEW s \in Requests, Drop(s)
      PROVE  UNCHANGED Contract!vars
  BY <1>3 DEF Drop, Contract!vars, PhaseOf, IsMain
<1>4. ASSUME NEW file, Restart(file)
      PROVE  Contract!Restart
  <2>1. ASSUME NEW q \in Requests
        PROVE  PhaseOf(q)' = Contract!AfterRestart(PhaseOf(q))
    BY <1>4 DEF IInv, TypeOK, Booked, Restart, PhaseOf, IsMain, InFlight, Opening, Replies,
                Contract!AfterRestart
  <2> QED BY <1>4, <2>1 DEF Contract!Restart, Restart
<1>5. CASE UNCHANGED vars
  BY <1>5 DEF vars, Contract!vars, PhaseOf, IsMain
<1> QED
  BY <1>1, <1>2, <1>3, <1>4, <1>5 DEF Next, Crash, CrashWhileSaving, Contract!Next

\* Every behaviour of the gateway is one its clients' contract allows: sessions are granted
\* once and end once, calls begin only on live sessions and are answered once.
THEOREM Refinement == Spec => ImplementsContract
<1>1. Init => Contract!Init
  BY DEF Init, Contract!Init, PhaseOf
<1> QED
  BY <1>1, RefinesNext, Invariance, PTL DEF Spec, Contract!Spec, ImplementsContract

(***************************************************************************)
(* The gateway under the pages.                                            *)
(***************************************************************************)

\* A page sends back only a fingerprint it was shown: its steps are steps of the gateway.
LEMMA PagesUseGateway ==
  ASSUME PageTypeOK, PromptsShown, [PageNext]_pageVars
  PROVE  [Next]_vars
<1>1. ASSUME NEW p \in Pages, NEW r \in Requests, NEW h \in Hosts, Submit(p, r, h)
      PROVE  Next
  <2>1. Connect(r, h, NoKey) /\ NoKey \in Confirmable(h)
    BY <1>1 DEF Submit, Attempt, Confirmable
  <2> QED BY <2>1 DEF Next, ConnectStep
<1>2. ASSUME NEW p \in Pages, NEW r \in Requests, Confirm(p, r)
      PROVE  Next
  <2>1. prompt[p] \in shown /\ prompt[p] \in Hosts \X Keys
    BY <1>2 DEF Confirm, PromptsShown, PageTypeOK, TypeOK
  <2>2. prompt[p][1] \in Hosts /\ prompt[p][2] \in Confirmable(prompt[p][1])
    BY <2>1 DEF Confirmable
  <2>3. Connect(r, prompt[p][1], prompt[p][2])
    BY <1>2 DEF Confirm, Attempt
  <2> QED BY <2>2, <2>3 DEF Next, ConnectStep
<1>3. ASSUME NEW p \in Pages, NEW r \in Requests, CallFrom(p, r)
      PROVE  Next
  <2>1. desk[p] \in Requests
    BY <1>3 DEF CallFrom, PageTypeOK
  <2> QED BY <1>3, <2>1 DEF CallFrom, Next, CallStep
<1>4. ASSUME NEW p \in Pages,
             Deliver(p) \/ FetchFails(p) \/ CancelPrompt(p) \/ Leave(p) \/ Reload(p)
      PROVE  UNCHANGED vars
  BY <1>4 DEF Deliver, FetchFails, CancelPrompt, Leave, Reload
<1>5. ASSUME NEW r \in Requests, Serve(r)
      PROVE  Next
  BY <1>5 DEF Serve, Next, ConnectStep, CallStep
<1>6. ASSUME NEW r \in Requests, Disconnected(r) \/ DisconnectLost(r)
      PROVE  Next \/ UNCHANGED vars
  BY <1>6 DEF Disconnected, DisconnectLost, Next
<1>7. CASE GatewayEnds
  BY <1>7 DEF GatewayEnds, Next
<1>8. CASE UNCHANGED pageVars
  BY <1>8 DEF pageVars
<1> QED
  BY <1>1, <1>2, <1>3, <1>4, <1>5, <1>6, <1>7, <1>8 DEF PageNext, PageStep

\* What a step of the gateway other than the beginning of a connect does to a request.
Advances(q) ==
  /\ pc[q] # "idle" => pc'[q] # "idle"
  /\ reply[q] = "connected" => reply'[q] = "connected"
  /\ pc'[q] \in Opening => pc[q] \in Opening
  /\ q \in sessions' => q \in sessions \/ pc[q] = "readHome"
  /\ pc'[q] \in Opening \/ q \in sessions' =>
       /\ attempt'[q].host = attempt[q].host /\ attempt'[q].known = attempt[q].known
       /\ attempt'[q].trust = attempt[q].trust
  /\ pc'[q] \in Opening \ {"handshake"} \/ q \in sessions' =>
       \/ /\ pc[q] \in Opening \ {"handshake"} \/ q \in sessions
          /\ attempt'[q].presented = attempt[q].presented
       \/ /\ pc[q] = "handshake" /\ attempt'[q].presented \in Keys
          /\ Verdict(attempt[q], attempt'[q].presented) = "accept"
  /\ reply'[q] = "verify-host-key" =>
       \/ /\ reply[q] = "verify-host-key" /\ attempt'[q].host = attempt[q].host
          /\ attempt'[q].presented = attempt[q].presented
       \/ <<attempt'[q].host, attempt'[q].presented>> \in shown'

\* What a step can find in the map and in the file of known hosts.
Known(h) ==
  {NoKey, store[h], disk[h]}
    \cup {attempt[q].presented : q \in {x \in Requests : pc[x] = "auth" /\ attempt[x].host = h}}

Advancing ==
  /\ \A q \in Requests : Advances(q)
  /\ \A h \in Hosts : store'[h] \in Known(h) /\ disk'[h] \in Known(h)
  /\ shown \subseteq shown'

LEMMA SameGateway == ASSUME UNCHANGED vars PROVE Advancing
BY DEF vars, Advancing, Advances, Known

LEMMA SameStore ==
  ASSUME UNCHANGED <<store, disk>>
  PROVE  \A h \in Hosts : store'[h] \in Known(h) /\ disk'[h] \in Known(h)
BY DEF Known

LEMMA ServeAdvances ==
  ASSUME IInv, NEW r \in Requests, Serve(r)
  PROVE  Advancing
<1> USE DEF Answer, Await, SetConn, Opening
<1>0. TypeOK /\ \A q \in Requests : Booked(q)
  BY DEF IInv
<1>1. ASSUME NEW k \in Keys, VerifyAccept(r, k)
      PROVE  Advancing
  <2>1. /\ pc[r] = "handshake" /\ Verdict(attempt[r], k) = "accept"
        /\ pc' = [pc EXCEPT ![r] = "auth"] /\ pc \in [Requests -> InFlight \cup {"idle", "replied"}]
        /\ UNCHANGED <<store, disk, shown, sessions, reply>>
    BY <1>0, <1>1 DEF VerifyAccept, TypeOK
  <2>2. /\ attempt'[r].host = attempt[r].host /\ attempt'[r].known = attempt[r].known
        /\ attempt'[r].trust = attempt[r].trust /\ attempt'[r].presented = k
        /\ \A q \in Requests : q # r => attempt'[q] = attempt[q]
    BY <1>0, <1>1 DEF VerifyAccept, TypeOK
  <2>3. r \notin sessions /\ reply[r] = "none"
    BY <1>0, <2>1 DEF Booked, TypeOK
  <2>4. ASSUME NEW q \in Requests
        PROVE  Advances(q)
    BY <2>1, <2>2, <2>3 DEF Advances
  <2> QED BY <2>1, <2>4, SameStore DEF Advancing
<1>2. ASSUME NEW k \in Keys, VerifyReject(r, k)
      PROVE  Advancing
  <2>1. /\ pc[r] = "handshake" /\ pc' = [pc EXCEPT ![r] = "replied"]
        /\ pc \in [Requests -> InFlight \cup {"idle", "replied"}]
        /\ UNCHANGED <<store, disk, sessions>> /\ shown \subseteq shown'
    BY <1>0, <1>2 DEF VerifyReject, TypeOK
  <2>2. /\ attempt'[r].host = attempt[r].host /\ attempt'[r].known = attempt[r].known
        /\ attempt'[r].trust = attempt[r].trust /\ attempt'[r].presented = k
        /\ \A q \in Requests : q # r => attempt'[q] = attempt[q]
    BY <1>0, <1>2 DEF VerifyReject, TypeOK
  <2>3. r \notin sessions /\ reply[r] = "none"
    BY <1>0, <2>1 DEF Booked, TypeOK
  <2>4. /\ reply'[r] = "verify-host-key" => <<attempt[r].host, k>> \in shown'
        /\ \A q \in Requests : q # r => reply'[q] = reply[q]
    BY <1>0, <1>2 DEF VerifyReject, TypeOK
  <2>5. ASSUME NEW q \in Requests
        PROVE  Advances(q)
    BY <2>1, <2>2, <2>3, <2>4 DEF Advances
  <2> QED BY <2>1, <2>5, SameStore DEF Advancing
<1> DEFINE Goes ==
             /\ pc'[r] \in Opening \/ r \in sessions' => attempt'[r] = attempt[r]
             /\ \A q \in Requests : q # r => attempt'[q] = attempt[q]
             /\ shown' = shown
             /\ pc[r] \in {"handshake", "auth", "detectOs", "readHome", "elevating", "call"}
             /\ reply[r] = "none" /\ r \notin sessions
             /\ \A q \in Requests : q # r => pc'[q] = pc[q] /\ reply'[q] = reply[q]
             /\ pc'[r] # "idle" /\ reply'[r] # "verify-host-key"
             /\ pc'[r] \in Opening => pc[r] \in Opening \ {"handshake"}
             /\ sessions' \subseteq sessions \cup {r}
             /\ r \in sessions' => pc[r] = "readHome"
<1>3. ASSUME Goes
      PROVE  \A q \in Requests : Advances(q)
  <2> SUFFICES ASSUME NEW q \in Requests
               PROVE  Advances(q)
    OBVIOUS
  <2>1. CASE q = r
    BY <1>3, <2>1 DEF Advances
  <2>2. CASE q # r
    BY <1>3, <2>2 DEF Advances
  <2> QED BY <2>1, <2>2
<1>4. CASE Ready(r) \/ ReadySaveFails(r)
  <2>1. Goes
    BY <1>0, <1>4 DEF Ready, ReadySaveFails, TypeOK, Booked
  <2>2. ASSUME NEW h \in Hosts
        PROVE  store'[h] \in Known(h) /\ disk'[h] \in Known(h)
    <3>1. CASE UNCHANGED <<store, disk>>
      BY <3>1, SameStore
    <3>2. CASE /\ store' = Trusted(attempt[r].host, attempt[r].presented)
               /\ disk' \in {store', disk} /\ pc[r] = "auth"
      <4>1. store'[h] = IF h = attempt[r].host THEN attempt[r].presented ELSE store[h]
        BY <1>0, <3>2 DEF Trusted, TypeOK
      <4>2. store'[h] \in Known(h)
        BY <3>2, <4>1 DEF Known
      <4> QED BY <3>2, <4>2 DEF Known
    <3> QED BY <1>4, <3>1, <3>2 DEF Ready, ReadySaveFails
  <2> QED BY <1>3, <2>1, <2>2 DEF Advancing
<1>5. CASE ConnectFails(r) \/ DetectOs(r) \/ Register(r) \/ ProbeThrows(r)
  <2>1. Goes
    BY <1>0, <1>5 DEF ConnectFails, DetectOs, Register, ProbeThrows, TypeOK, Booked
  <2>2. UNCHANGED <<store, disk>>
    BY <1>5 DEF ConnectFails, DetectOs, Register, ProbeThrows
  <2> QED BY <1>3, <2>1, <2>2, SameStore DEF Advancing
<1>6. CASE ElevateFails(r) \/ CallReturns(r) \/ CallThrows(r)
  <2>1. Goes
    BY <1>0, <1>6 DEF ElevateFails, CallReturns, CallThrows, TypeOK, Booked
  <2>2. UNCHANGED <<store, disk>>
    BY <1>6 DEF ElevateFails, CallReturns, CallThrows
  <2> QED BY <1>3, <2>1, <2>2, SameStore DEF Advancing
<1>7. ASSUME NEW k \in Keys, ElevateReady(r, k)
      PROVE  Advancing
  <2>1. pc'[r] = "call" /\ reply[r] = "none" /\ r \notin sessions /\ sessions' = sessions
    BY <1>0, <1>7 DEF ElevateReady, TypeOK, Booked
  <2>2. Goes
    BY <1>0, <1>7, <2>1 DEF ElevateReady, TypeOK
  <2>3. UNCHANGED <<store, disk>>
    BY <1>7 DEF ElevateReady
  <2> QED BY <1>3, <2>2, <2>3, SameStore DEF Advancing
<1>8. CASE Drop(r)
  BY <1>8, SameStore DEF Drop, Advancing, Advances
<1> QED
  BY <1>1, <1>2, <1>4, <1>5, <1>6, <1>7, <1>8 DEF Serve

LEMMA CallAdvances ==
  ASSUME IInv, NEW p \in Pages, NEW r \in Requests, CallFrom(p, r)
  PROVE  Advancing
<1>1. /\ UNCHANGED <<store, disk, shown, sessions>>
      /\ pc[r] = "idle" /\ reply[r] = "none" /\ r \notin sessions
      /\ pc'[r] \in {"replied", "call", "elevating"}
      /\ reply'[r] # "verify-host-key"
      /\ \A q \in Requests :
           q # r => pc'[q] = pc[q] /\ reply'[q] = reply[q] /\ attempt'[q] = attempt[q]
  BY DEF CallFrom, UnknownSession, Call, CallAsUser, Answer, Await, IInv, TypeOK, Booked
<1>2. ASSUME NEW q \in Requests
      PROVE  Advances(q)
  <2>1. CASE q = r
    BY <1>1, <2>1 DEF Advances, Opening
  <2>2. CASE q # r
    BY <1>1, <2>2 DEF Advances
  <2> QED BY <2>1, <2>2
<1> QED BY <1>1, <1>2, SameStore DEF Advancing

LEMMA EndAdvances ==
  ASSUME IInv, GatewayEnds
  PROVE  Advancing
<1>1. ASSUME NEW file, Restart(file), \A h \in Hosts : file[h] \in {NoKey, disk[h]}
      PROVE  Advancing
  <2>1. \A q \in Requests : Advances(q)
    BY <1>1 DEF Restart, Advances, IInv, TypeOK, Booked, Opening, InFlight
  <2>2. \A h \in Hosts : store'[h] \in Known(h) /\ disk'[h] \in Known(h)
    BY <1>1 DEF Restart, Known
  <2> QED BY <1>1, <2>1, <2>2 DEF Advancing, Restart
<1> QED BY <1>1 DEF GatewayEnds, Crash, CrashWhileSaving

LEMMA DisconnectAdvances ==
  ASSUME NEW s \in Requests, Disconnect(s)
  PROVE  Advancing
BY SameStore DEF Disconnect, Advancing, Advances

(***************************************************************************)
(* What is true of the pages stays so while the gateway advances.          *)
(***************************************************************************)

\* A verdict accepts a key that was looked up or confirmed, and only such a key.
LEMMA AcceptedWasConfirmed ==
  ASSUME NEW a, NEW k \in Keys, Verdict(a, k) = "accept",
         a.known \in Chosen(a.host), a.trust \in Chosen(a.host)
  PROVE  <<a.host, k>> \in confirmed
BY NoKeyAssumption DEF Verdict, Chosen

LEMMA KeepsConfirmed ==
  ASSUME PageInv, Advancing, confirmed' = confirmed
  PROVE  StoreConfirmed' /\ \A r \in Requests : Confirmed(r)'
<1>1. /\ PageTypeOK /\ StoreConfirmed /\ \A q \in Requests : Confirmed(q) /\ Advances(q)
      /\ \A h \in Hosts : store'[h] \in Known(h) /\ disk'[h] \in Known(h)
  BY DEF PageInv, Advancing
<1>2. ASSUME NEW h \in Hosts
      PROVE  Known(h) \subseteq Chosen(h)
  <2>1. ASSUME NEW q \in Requests, pc[q] = "auth", attempt[q].host = h
        PROVE  attempt[q].presented \in Chosen(h)
    <3>1. <<h, attempt[q].presented>> \in confirmed
      BY <1>1, <2>1 DEF Confirmed, Opening
    <3>2. attempt[q].presented \in Keys
      BY <1>1, <3>1 DEF PageTypeOK
    <3> QED BY <3>1, <3>2 DEF Chosen
  <2>2. {NoKey, store[h], disk[h]} \subseteq Chosen(h)
    BY <1>1 DEF StoreConfirmed, Chosen
  <2> QED BY <2>1, <2>2 DEF Known
<1>3. \A h : Chosen(h)' = Chosen(h)
  BY DEF Chosen
<1>4. StoreConfirmed'
  BY <1>1, <1>2, <1>3 DEF StoreConfirmed
<1>5. ASSUME NEW r \in Requests
      PROVE  Confirmed(r)'
  <2>1. /\ pc'[r] \in Opening \/ r \in sessions' =>
             /\ attempt'[r].host = attempt[r].host /\ attempt'[r].known = attempt[r].known
             /\ attempt'[r].trust = attempt[r].trust
        /\ pc'[r] \in Opening => pc[r] \in Opening
    BY <1>1 DEF Advances
  <2>2. ASSUME pc'[r] \in Opening \ {"handshake"} \/ r \in sessions'
        PROVE  <<attempt'[r].host, attempt'[r].presented>> \in confirmed
    <3>1. CASE /\ pc[r] \in Opening \ {"handshake"} \/ r \in sessions
               /\ attempt'[r].presented = attempt[r].presented
      BY <1>1, <2>1, <2>2, <3>1 DEF Confirmed
    <3>2. CASE /\ pc[r] = "handshake" /\ attempt'[r].presented \in Keys
               /\ Verdict(attempt[r], attempt'[r].presented) = "accept"
      <4>1. /\ attempt[r].known \in Chosen(attempt[r].host)
            /\ attempt[r].trust \in Chosen(attempt[r].host)
        BY <1>1, <3>2 DEF Confirmed, Opening
      <4> QED BY <2>1, <2>2, <3>2, <4>1, AcceptedWasConfirmed
    <3> QED BY <1>1, <2>2, <3>1, <3>2 DEF Advances
  <2>3. pc'[r] \in Opening => /\ attempt'[r].known \in Chosen(attempt'[r].host)
                              /\ attempt'[r].trust \in Chosen(attempt'[r].host)
    BY <1>1, <2>1 DEF Confirmed
  <2> QED BY <1>3, <2>2, <2>3 DEF Confirmed
<1> QED BY <1>4, <1>5

LEMMA KeepsAsked ==
  ASSUME PageInv, Advancing
  PROVE  /\ \A r \in Requests :
              reply'[r] = "verify-host-key" => <<attempt'[r].host, attempt'[r].presented>> \in shown'
         /\ shown \subseteq shown'
BY DEF PageInv, PromptsShown, Advancing, Advances

\* The pages stay as they are; a disconnect that left the pages has ended its session.
LEMMA KeepsPlaces ==
  ASSUME PageInv, Advancing, UNCHANGED <<asking, prompt, desk, forsaken>>,
         leaving' \subseteq leaving, \A s \in leaving \ leaving' : s \notin sessions'
  PROVE  OnePlace' /\ OpeningHavePages' /\ \A p \in Pages : OneThing(p)'
<1>1. /\ PageTypeOK /\ OnePlace /\ OpeningHavePages /\ \A p \in Pages : OneThing(p)
      /\ \A q \in Requests : Booked(q) /\ Advances(q)
  BY DEF PageInv, IInv, Advancing
<1>2. \A p \in Pages : OneThing(p)'
  BY <1>1 DEF OneThing, Busy
<1>3. OnePlace'
  <2>1. \A p \in Pages : /\ asking[p] # NoSession => asking[p] \in Requests
                         /\ desk[p] # NoSession => desk[p] \in Requests
    BY <1>1 DEF PageTypeOK
  <2>2. leaving \subseteq Requests
    BY <1>1 DEF PageTypeOK
  <2>3. \A q \in Requests : /\ pc[q] # "idle" => pc'[q] # "idle"
                            /\ reply[q] = "connected" => reply'[q] = "connected"
    BY <1>1 DEF Advances
  <2> QED BY <1>1, <2>1, <2>2, <2>3 DEF OnePlace, Busy
<1>4. ASSUME NEW r \in Requests, pc'[r] \in Opening \/ r \in sessions'
      PROVE  Followed(r)'
  <2>1. pc[r] \in Opening \/ r \in sessions
    BY <1>1, <1>4 DEF Advances, Opening
  <2>2. Followed(r)
    BY <1>1, <2>1 DEF OpeningHavePages
  <2>3. r \in leaving => r \in leaving'
    <3> SUFFICES ASSUME r \in leaving, r \notin leaving'
                 PROVE  FALSE
      OBVIOUS
    <3>1. r \notin sessions' /\ reply[r] = "connected"
      BY <1>1 DEF OnePlace
    <3>2. pc[r] = "replied"
      BY <1>1, <3>1 DEF Booked
    <3> QED BY <1>1, <1>4, <3>1, <3>2 DEF Advances, Opening
  <2> QED BY <2>2, <2>3 DEF Followed
<1> QED BY <1>2, <1>3, <1>4 DEF OpeningHavePages

LEMMA GatewayMovesInv ==
  ASSUME PageInv, PageTypeOK', IInv', Advancing,
         UNCHANGED <<asking, prompt, desk, forsaken, confirmed>>,
         leaving' \subseteq leaving, \A s \in leaving \ leaving' : s \notin sessions'
  PROVE  PageInv'
<1>1. PromptsShown'
  BY KeepsAsked DEF PageInv, PromptsShown
<1> QED BY <1>1, KeepsConfirmed, KeepsPlaces DEF PageInv

(***************************************************************************)
(* The steps of the pages.                                                 *)
(***************************************************************************)

\* A page asks for a session with no trust, or with a key its user confirms.
LEMMA AttemptInv ==
  ASSUME PageInv, PageTypeOK', IInv', NEW p \in Pages, NEW r \in Requests, NEW h \in Hosts,
         NEW trust \in {NoKey} \cup {k \in Keys : <<h, k>> \in confirmed'},
         Attempt(p, r, h, trust), ~Busy(p), desk[p] = NoSession,
         \A q \in Pages : prompt'[q] = IF q = p THEN NoPrompt ELSE prompt[q],
         confirmed \subseteq confirmed', UNCHANGED <<desk, leaving, forsaken>>
  PROVE  PageInv'
<1>1. /\ PageTypeOK /\ TypeOK /\ PromptsShown /\ StoreConfirmed /\ OnePlace /\ OpeningHavePages
      /\ \A q \in Requests : Booked(q) /\ Confirmed(q)
      /\ \A q \in Pages : OneThing(q)
  BY DEF PageInv, PageTypeOK, IInv
<1>2. /\ pc[r] = "idle" /\ pc'[r] = "handshake" /\ reply[r] = "none" /\ r \notin sessions
      /\ attempt'[r] = [host |-> h, known |-> store[h], trust |-> trust, presented |-> NoKey]
      /\ \A q \in Requests : q # r => pc'[q] = pc[q] /\ attempt'[q] = attempt[q]
      /\ UNCHANGED <<store, disk, shown, sessions, reply>>
  BY <1>1 DEF Attempt, Connect, Await, TypeOK, Booked
<1>3. asking'[p] = r /\ \A q \in Pages : q # p => asking'[q] = asking[q]
  BY <1>1 DEF Attempt, PageTypeOK
<1>4. PromptsShown'
  <2>1. \A q \in Requests : reply'[q] = "verify-host-key" =>
                             <<attempt'[q].host, attempt'[q].presented>> \in shown'
    BY <1>1, <1>2 DEF PromptsShown
  <2>2. \A q \in Pages : prompt'[q] # NoPrompt => prompt'[q] \in shown'
    BY <1>1, <1>2 DEF PromptsShown
  <2> QED BY <2>1, <2>2 DEF PromptsShown
<1>5. \A x : Chosen(x) \subseteq Chosen(x)'
  BY DEF Chosen
<1>6. StoreConfirmed'
  BY <1>1, <1>2, <1>5 DEF StoreConfirmed
<1>7. ASSUME NEW q \in Requests
      PROVE  Confirmed(q)'
  <2>1. CASE q = r
    <3>1. trust \in Chosen(h)' /\ store[h] \in Chosen(h)'
      BY <1>1, <1>5 DEF StoreConfirmed, Chosen
    <3>2. /\ attempt'[r].host = h /\ attempt'[r].known = store[h] /\ attempt'[r].trust = trust
      BY <1>2
    <3> QED BY <1>2, <2>1, <3>1, <3>2 DEF Confirmed
  <2>2. CASE q # r
    BY <1>1, <1>2, <1>5, <2>2 DEF Confirmed
  <2> QED BY <2>1, <2>2
<1>8. OnePlace'
  <2>1. /\ \A q \in Pages : asking[q] # NoSession => asking[q] # r
        /\ \A q \in Pages : desk[q] # r
        /\ r \notin leaving /\ r # NoSession
    BY <1>1, <1>2, NoSessionAssumption DEF OnePlace, Busy
  <2>2. \A q \in Pages : Busy(q)' => pc'[asking'[q]] # "idle" /\ asking'[q] \notin leaving'
    BY <1>1, <1>2, <1>3, <2>1 DEF OnePlace, Busy, PageTypeOK
  <2>3. \A q \in Pages :
          desk'[q] # NoSession => reply'[desk'[q]] = "connected" /\ desk'[q] \notin leaving'
    BY <1>1, <1>2 DEF OnePlace
  <2>4. \A s \in leaving' : reply'[s] = "connected"
    BY <1>1, <1>2 DEF OnePlace
  <2>5. \A x, q \in Pages :
          /\ Busy(x)' => asking'[x] # desk'[q] /\ (asking'[x] = asking'[q] => x = q)
          /\ desk'[x] # NoSession /\ desk'[x] = desk'[q] => x = q
    BY <1>1, <1>3, <2>1 DEF OnePlace, Busy
  <2> QED BY <2>2, <2>3, <2>4, <2>5 DEF OnePlace
<1>9. OpeningHavePages'
  <2> SUFFICES ASSUME NEW q \in Requests, pc'[q] \in Opening \/ q \in sessions'
               PROVE  Followed(q)'
    BY DEF OpeningHavePages
  <2>1. CASE q = r
    BY <1>3, <2>1 DEF Followed
  <2>2. CASE q # r
    <3>1. Followed(q)
      BY <1>1, <1>2, <2>2 DEF OpeningHavePages
    <3>2. \A x \in Pages : q \in {asking[x], desk[x]} => q \in {asking'[x], desk'[x]}
      BY <1>3, NoSessionAssumption DEF Busy
    <3> QED BY <3>1, <3>2 DEF Followed
  <2> QED BY <2>1, <2>2
<1>10. \A q \in Pages : OneThing(q)'
  BY <1>1, <1>3 DEF OneThing, Busy
<1> QED BY <1>4, <1>6, <1>7, <1>8, <1>9, <1>10 DEF PageInv

\* The gateway stands still: what is stored and what was asked and confirmed stay.
LEMMA StillInv ==
  ASSUME PageInv, UNCHANGED vars, confirmed' = confirmed,
         \A p \in Pages : prompt'[p] # NoPrompt => prompt'[p] \in shown
  PROVE  IInv' /\ PromptsShown' /\ StoreConfirmed' /\ \A r \in Requests : Confirmed(r)'
<1>1. IInv'
  BY InvNext DEF PageInv
<1>2. PromptsShown'
  BY DEF PageInv, PromptsShown, vars
<1> QED BY <1>1, <1>2, SameGateway, KeepsConfirmed

\* A page gets its answer.
LEMMA DeliverInv ==
  ASSUME PageInv, PageTypeOK', NEW p \in Pages, Deliver(p)
  PROVE  PageInv'
<1> DEFINE r == asking[p]
<1>1. /\ PageTypeOK /\ PromptsShown /\ OnePlace /\ OpeningHavePages
      /\ \A q \in Requests : Booked(q)
      /\ \A q \in Pages : OneThing(q)
  BY DEF PageInv, IInv
<1>2. /\ r \in Requests /\ prompt[p] = NoPrompt /\ desk[p] = NoSession
      /\ UNCHANGED vars /\ UNCHANGED <<leaving, confirmed, forsaken>>
      /\ reply[r] # "none"
      /\ r \notin leaving
      /\ \A q \in Pages : desk[q] # r /\ (q # p => asking[q] # r)
  BY <1>1 DEF Deliver, PageTypeOK, OneThing, OnePlace, Busy
<1>3. /\ asking'[p] = NoSession /\ \A q \in Pages : q # p => asking'[q] = asking[q]
      /\ \A q \in Pages : q # p => prompt'[q] = prompt[q] /\ desk'[q] = desk[q]
      /\ prompt'[p] = IF reply[r] = "verify-host-key"
                      THEN <<attempt[r].host, attempt[r].presented>> ELSE NoPrompt
      /\ desk'[p] = IF reply[r] = "connected" THEN r ELSE NoSession
  BY <1>1, <1>2 DEF Deliver, PageTypeOK
<1> HIDE DEF r
<1>4. IInv' /\ PromptsShown' /\ StoreConfirmed' /\ \A q \in Requests : Confirmed(q)'
  <2>1. \A q \in Pages : prompt'[q] # NoPrompt => prompt'[q] \in shown
    BY <1>1, <1>2, <1>3 DEF PromptsShown
  <2> QED BY <1>2, <2>1, StillInv
<1>5. \A q \in Pages : OneThing(q)'
  BY <1>1, <1>3 DEF OneThing, Busy
<1>6. OnePlace'
  <2>1. \A q \in Pages : Busy(q)' => q # p /\ Busy(q) /\ asking'[q] = asking[q]
    BY <1>3 DEF Busy
  <2>2. \A q \in Pages : desk'[q] # NoSession =>
          reply'[desk'[q]] = "connected" /\ desk'[q] \notin leaving'
    BY <1>1, <1>2, <1>3 DEF OnePlace, vars
  <2>3. \A q \in Pages : Busy(q)' => pc'[asking'[q]] # "idle" /\ asking'[q] \notin leaving'
    BY <1>1, <1>2, <2>1 DEF OnePlace, vars
  <2>4. \A s \in leaving' : reply'[s] = "connected"
    BY <1>1, <1>2 DEF OnePlace, vars
  <2>5. \A x, q \in Pages :
          Busy(x)' => asking'[x] # desk'[q] /\ (asking'[x] = asking'[q] => x = q)
    BY <1>1, <1>2, <1>3, <2>1 DEF OnePlace, Busy
  <2>6. \A x, q \in Pages : desk'[x] # NoSession /\ desk'[x] = desk'[q] => x = q
    BY <1>1, <1>2, <1>3 DEF OnePlace
  <2> QED BY <2>2, <2>3, <2>4, <2>5, <2>6 DEF OnePlace
<1>7. OpeningHavePages'
  <2> SUFFICES ASSUME NEW q \in Requests, pc'[q] \in Opening \/ q \in sessions'
               PROVE  Followed(q)'
    BY DEF OpeningHavePages
  <2>1. pc[q] \in Opening \/ q \in sessions
    BY <1>2 DEF vars
  <2>2. Followed(q)
    BY <1>1, <2>1 DEF OpeningHavePages
  <2>3. CASE q = r
    <3>1. reply[r] = "connected"
      BY <1>1, <1>2, <2>1, <2>3 DEF Booked, Opening
    <3> QED BY <1>3, <2>3, <3>1 DEF Followed
  <2>4. CASE q # r
    <3>1. \A x \in Pages : q \in {asking[x], desk[x]} => q \in {asking'[x], desk'[x]}
      BY <1>2, <1>3, <2>4, NoSessionAssumption DEF r
    <3> QED BY <1>2, <2>2, <3>1 DEF Followed
  <2> QED BY <2>3, <2>4
<1> QED BY <1>4, <1>5, <1>6, <1>7 DEF PageInv

\* A page lets go of what it has, and somebody is told: the gateway is, or nobody will be.
LEMMA LetGoInv ==
  ASSUME PageInv, PageTypeOK', NEW p \in Pages, UNCHANGED <<vars, confirmed>>,
         asking' \in {asking, [asking EXCEPT ![p] = NoSession]},
         prompt' \in {prompt, [prompt EXCEPT ![p] = NoPrompt]},
         desk' \in {desk, [desk EXCEPT ![p] = NoSession]},
         leaving \subseteq leaving', leaving' \subseteq leaving \cup ({desk[p]} \ {NoSession}),
         leaving' # leaving => desk'[p] = NoSession,
         forsaken \subseteq forsaken',
         {asking[p], desk[p]} \ {NoSession, asking'[p], desk'[p]} \subseteq leaving' \cup forsaken'
  PROVE  PageInv'
<1>1. /\ PageTypeOK /\ PromptsShown /\ OnePlace /\ OpeningHavePages
      /\ \A q \in Pages : OneThing(q)
  BY DEF PageInv
<1>2. /\ asking'[p] \in {asking[p], NoSession} /\ prompt'[p] \in {prompt[p], NoPrompt}
      /\ desk'[p] \in {desk[p], NoSession}
      /\ \A q \in Pages : q # p => /\ asking'[q] = asking[q] /\ prompt'[q] = prompt[q]
                                  /\ desk'[q] = desk[q]
  BY <1>1 DEF PageTypeOK
<1>3. IInv' /\ PromptsShown' /\ StoreConfirmed' /\ \A r \in Requests : Confirmed(r)'
  <2>1. \A q \in Pages : prompt'[q] # NoPrompt => prompt'[q] \in shown
    BY <1>1, <1>2 DEF PromptsShown
  <2> QED BY <2>1, StillInv
<1>4. \A q \in Pages : OneThing(q)'
  BY <1>1, <1>2 DEF OneThing, Busy
<1>5. OnePlace'
  <2>1. \A q \in Pages : /\ asking'[q] # NoSession => asking'[q] = asking[q]
                         /\ desk'[q] # NoSession => desk'[q] = desk[q]
    BY <1>2
  <2>2. ASSUME NEW q \in Pages, asking'[q] # NoSession
        PROVE  pc'[asking'[q]] # "idle" /\ asking'[q] \notin leaving'
    BY <1>1, <2>1, <2>2 DEF OnePlace, Busy, vars
  <2>3. ASSUME NEW q \in Pages, desk'[q] # NoSession
        PROVE  reply'[desk'[q]] = "connected" /\ desk'[q] \notin leaving'
    <3>1. desk'[q] = desk[q] /\ reply[desk[q]] = "connected" /\ desk[q] \notin leaving
      BY <1>1, <2>1, <2>3 DEF OnePlace
    <3>2. desk[q] \notin leaving'
      <4> SUFFICES ASSUME desk[q] \in leaving'
                   PROVE  FALSE
        OBVIOUS
      <4>1. desk[q] = desk[p] /\ desk'[p] = NoSession
        BY <3>1
      <4>2. q = p
        BY <1>1, <2>3, <3>1, <4>1 DEF OnePlace
      <4> QED BY <2>3, <4>1, <4>2
    <3> QED BY <3>1, <3>2 DEF vars
  <2>4. \A s \in leaving' : reply'[s] = "connected"
    BY <1>1 DEF OnePlace, vars
  <2>5. \A x, q \in Pages :
          /\ asking'[x] # NoSession => asking'[x] # desk'[q] /\ (asking'[x] = asking'[q] => x = q)
          /\ desk'[x] # NoSession /\ desk'[x] = desk'[q] => x = q
    BY <1>1, <2>1 DEF OnePlace, Busy
  <2> QED BY <2>2, <2>3, <2>4, <2>5 DEF OnePlace, Busy
<1>6. OpeningHavePages'
  <2> SUFFICES ASSUME NEW r \in Requests, pc'[r] \in Opening \/ r \in sessions'
               PROVE  Followed(r)'
    BY DEF OpeningHavePages
  <2>1. Followed(r) /\ r # NoSession
    BY <1>1, NoSessionAssumption DEF OpeningHavePages, vars
  <2>2. CASE r \in leaving \/ r \in forsaken
    BY <2>2 DEF Followed
  <2>3. ASSUME NEW x \in Pages, r \in {asking[x], desk[x]}
        PROVE  Followed(r)'
    <3>1. CASE x = p
      BY <2>1, <2>3, <3>1 DEF Followed
    <3>2. CASE x # p
      BY <1>2, <2>3, <3>2 DEF Followed
    <3> QED BY <3>1, <3>2
  <2> QED BY <2>1, <2>2, <2>3 DEF Followed
<1> QED BY <1>3, <1>4, <1>5, <1>6 DEF PageInv

(***************************************************************************)
(* The invariant of the pages.                                             *)
(***************************************************************************)

LEMMA PageTypes == PageInv /\ [PageNext]_pageVars => PageTypeOK'
<1> SUFFICES ASSUME PageInv, [PageNext]_pageVars
             PROVE  PageTypeOK'
  OBVIOUS
<1>1. /\ PageTypeOK /\ TypeOK /\ TypeOK' /\ PromptsShown
  BY PagesUseGateway, TypeNext DEF PageInv, PageTypeOK
<1> USE <1>1 DEF PageTypeOK
<1>2. ASSUME NEW p \in Pages, NEW r \in Requests, NEW h \in Hosts, Submit(p, r, h)
      PROVE  PageTypeOK'
  BY <1>2 DEF Submit, Attempt
<1>3. ASSUME NEW p \in Pages, NEW r \in Requests, Confirm(p, r)
      PROVE  PageTypeOK'
  BY <1>3 DEF Confirm, Attempt
<1>4. ASSUME NEW p \in Pages, Deliver(p)
      PROVE  PageTypeOK'
  <2>1. asking[p] \in Requests
    BY <1>4 DEF Deliver, Busy
  <2>2. reply[asking[p]] = "verify-host-key" =>
          <<attempt[asking[p]].host, attempt[asking[p]].presented>> \in Hosts \X Keys
    BY <2>1 DEF PromptsShown, TypeOK
  <2> QED BY <1>4, <2>1, <2>2 DEF Deliver
<1>5. ASSUME NEW p \in Pages, FetchFails(p) \/ CancelPrompt(p) \/ Leave(p) \/ Reload(p)
      PROVE  PageTypeOK'
  BY <1>5 DEF FetchFails, CancelPrompt, Leave, Reload, Busy
<1>6. ASSUME NEW p \in Pages, NEW r \in Requests, CallFrom(p, r) \/ Serve(r)
      PROVE  PageTypeOK'
  BY <1>6 DEF CallFrom, Serve, page
<1>7. ASSUME NEW r \in Requests, Serve(r) \/ Disconnected(r) \/ DisconnectLost(r)
      PROVE  PageTypeOK'
  BY <1>7 DEF Serve, page, Disconnected, DisconnectLost
<1>8. CASE GatewayEnds \/ UNCHANGED pageVars
  BY <1>8 DEF GatewayEnds, page, pageVars
<1> QED
  BY <1>2, <1>3, <1>4, <1>5, <1>6, <1>7, <1>8 DEF PageNext, PageStep

LEMMA PageInitInv == PageInit => PageInv
<1> SUFFICES ASSUME PageInit
             PROVE  PageInv
  OBVIOUS
<1>1. IInv /\ TypeOK
  BY InvInit DEF PageInit, IInv
<1>2. PageTypeOK
  BY <1>1 DEF PageInit, PageTypeOK, TypeOK
<1>3. PromptsShown
  BY DEF PageInit, Init, PromptsShown
<1>4. StoreConfirmed
  <2>1. \A h \in Hosts, k \in Keys : store[h] = k => <<h, k>> \in confirmed
    BY DEF PageInit, Init
  <2> QED BY <1>1, <2>1 DEF PageInit, Init, StoreConfirmed, Chosen, TypeOK
<1>5. \A r \in Requests : Confirmed(r)
  BY DEF PageInit, Init, Confirmed, Opening
<1>6. OnePlace /\ \A p \in Pages : OneThing(p)
  BY DEF PageInit, OnePlace, OneThing, Busy
<1>7. OpeningHavePages
  BY DEF PageInit, Init, OpeningHavePages, Opening
<1> QED BY <1>1, <1>2, <1>3, <1>4, <1>5, <1>6, <1>7 DEF PageInv

LEMMA PageNextInv == PageInv /\ [PageNext]_pageVars => PageInv'
<1> SUFFICES ASSUME PageInv, [PageNext]_pageVars
             PROVE  PageInv'
  OBVIOUS
<1>1. PageTypeOK' /\ IInv' /\ IInv /\ PageTypeOK
  BY PageTypes, PagesUseGateway, InvNext DEF PageInv
<1>2. ASSUME NEW p \in Pages, NEW r \in Requests, NEW h \in Hosts, Submit(p, r, h)
      PROVE  PageInv'
  <2>1. /\ Attempt(p, r, h, NoKey) /\ ~Busy(p) /\ desk[p] = NoSession /\ prompt[p] = NoPrompt
        /\ UNCHANGED <<prompt, desk, leaving, confirmed, forsaken>>
    BY <1>2 DEF Submit
  <2> QED BY <1>1, <2>1, AttemptInv
<1>3. ASSUME NEW p \in Pages, NEW r \in Requests, Confirm(p, r)
      PROVE  PageInv'
  <2>1. /\ prompt[p] # NoPrompt /\ prompt[p] \in Hosts \X Keys
        /\ prompt[p] = <<prompt[p][1], prompt[p][2]>>
    BY <1>1, <1>3 DEF Confirm, PageTypeOK
  <2>2. ~Busy(p) /\ desk[p] = NoSession
    BY <2>1 DEF PageInv, OneThing
  <2>3. /\ Attempt(p, r, prompt[p][1], prompt[p][2])
        /\ prompt' = [prompt EXCEPT ![p] = NoPrompt] /\ prompt[p] \in confirmed'
        /\ confirmed \subseteq confirmed' /\ UNCHANGED <<desk, leaving, forsaken>>
    BY <1>3 DEF Confirm
  <2>4. \A q \in Pages : prompt'[q] = IF q = p THEN NoPrompt ELSE prompt[q]
    BY <1>1, <2>3 DEF PageTypeOK
  <2>5. /\ prompt[p][1] \in Hosts
        /\ prompt[p][2] \in {NoKey} \cup {k \in Keys : <<prompt[p][1], k>> \in confirmed'}
    BY <2>1, <2>3
  <2> QED BY <1>1, <2>2, <2>3, <2>4, <2>5, AttemptInv
<1>4. ASSUME NEW p \in Pages, Deliver(p)
      PROVE  PageInv'
  BY <1>1, <1>4, DeliverInv
<1>5. ASSUME NEW p \in Pages, FetchFails(p) \/ CancelPrompt(p) \/ Leave(p) \/ Reload(p)
      PROVE  PageInv'
  <2>1. CASE FetchFails(p)
    BY <1>1, <2>1, LetGoInv DEF FetchFails
  <2>2. CASE CancelPrompt(p)
    BY <1>1, <2>2, LetGoInv DEF CancelPrompt
  <2>3. CASE Leave(p)
    BY <1>1, <2>3, LetGoInv DEF Leave, PageTypeOK
  <2>4. CASE Reload(p)
    BY <1>1, <2>4, LetGoInv DEF Reload
  <2> QED BY <1>5, <2>1, <2>2, <2>3, <2>4
<1>6. ASSUME UNCHANGED page, Advancing
      PROVE  PageInv'
  BY <1>1, <1>6, GatewayMovesInv DEF page
<1>7. ASSUME NEW r \in Requests, Disconnected(r)
      PROVE  PageInv'
  <2>1. Advancing
    BY <1>7, DisconnectAdvances, SameGateway DEF Disconnected
  <2>2. /\ leaving' = leaving \ {r} /\ r \notin sessions'
        /\ UNCHANGED <<asking, prompt, desk, confirmed, forsaken>>
    BY <1>7 DEF Disconnected, Disconnect, vars
  <2> QED BY <1>1, <2>1, <2>2, GatewayMovesInv
<1>8. ASSUME NEW r \in Requests, DisconnectLost(r)
      PROVE  PageInv'
  <2>1. /\ UNCHANGED <<vars, asking, prompt, desk, confirmed>>
        /\ leaving' = leaving \ {r} /\ forsaken' = forsaken \cup {r}
    BY <1>8 DEF DisconnectLost
  <2>2. IInv' /\ PromptsShown' /\ StoreConfirmed' /\ \A q \in Requests : Confirmed(q)'
    BY <2>1, StillInv DEF PageInv, PromptsShown
  <2>3. OnePlace' /\ \A p \in Pages : OneThing(p)'
    BY <2>1 DEF PageInv, OnePlace, OneThing, Busy, vars
  <2>4. OpeningHavePages'
    BY <2>1 DEF PageInv, OpeningHavePages, Followed, vars
  <2> QED BY <1>1, <2>2, <2>3, <2>4 DEF PageInv
<1>9. CASE GatewayEnds \/ UNCHANGED pageVars
  BY <1>1, <1>6, <1>9, EndAdvances, SameGateway DEF GatewayEnds, pageVars
<1>10. ASSUME NEW r \in Requests, Serve(r)
      PROVE  PageInv'
  BY <1>1, <1>6, <1>10, ServeAdvances DEF Serve
<1>11. ASSUME NEW p \in Pages, NEW r \in Requests, CallFrom(p, r)
      PROVE  PageInv'
  BY <1>1, <1>6, <1>11, CallAdvances DEF CallFrom
<1> QED
  BY <1>2, <1>3, <1>4, <1>5, <1>7, <1>8, <1>9, <1>10, <1>11 DEF PageNext, PageStep

LEMMA PageInvariance == PageSpec => []PageInv
<1> QED BY PageInitInv, PageNextInv, PTL DEF PageSpec

(***************************************************************************)
(* The theorems about the pages.                                           *)
(***************************************************************************)

\* Under any number of pages the gateway behaves as Gateway says, whatever they ask for, cancel,
\* lose or send late; so what is proved of Gateway holds here, its contract included.
THEOREM PagesImplementGateway == PageSpec => Spec
<1>1. PageInv /\ [PageNext]_pageVars => [Next]_vars
  BY PagesUseGateway DEF PageInv
<1>2. PageInit => Init
  BY DEF PageInit
<1> QED BY <1>1, <1>2, PageInvariance, PTL DEF PageSpec, Spec

\* HostKeyDialog and createSshOpener: a key is stored for a host, or carries a registered
\* session, only if a user confirmed that key in a dialog about that host.
THEOREM TrustIsConfirmed == PageSpec => []TrustedWereConfirmed
<1>1. PageInv => TrustedWereConfirmed
  BY NoKeyAssumption DEF PageInv, PageTypeOK, TypeOK, StoreConfirmed, Confirmed, Chosen,
                         TrustedWereConfirmed
<1> QED BY <1>1, PageInvariance, PTL

\* handleDisconnect and the App's state: a session is on a page, asked for by one or about to be
\* disconnected, unless the page or the request was lost.
THEOREM SessionsAreFollowed == PageSpec => []SessionsHavePages
<1>1. PageInv => SessionsHavePages
  BY DEF PageInv, PageTypeOK, TypeOK, OpeningHavePages, Followed, SessionsHavePages
<1> QED BY <1>1, PageInvariance, PTL

\* POST /api/disconnect ends the session of the desktop that was left and of no other: while a
\* page shows a desktop, only the end of the gateway ends its session.
THEOREM DesktopsKeepTheirs == PageSpec => DesktopsKeepSessions
<1> DEFINE Stays(p) == desk[p] \in sessions /\ desk'[p] = desk[p] /\ desk[p] \notin sessions'
                         => GatewayEnds
<1>1. ASSUME PageInv, [PageNext]_pageVars, NEW p \in Pages
      PROVE  Stays(p)
  <2>1. ASSUME sessions \subseteq sessions'
        PROVE  Stays(p)
    BY <2>1
  <2>2. ASSUME NEW q \in Pages, PageStep(q)
        PROVE  sessions \subseteq sessions'
    BY <2>2 DEF PageStep, Submit, Confirm, Attempt, Connect, CallFrom, UnknownSession, Call,
                CallAsUser, Deliver, FetchFails, CancelPrompt, Leave, Reload, vars
  <2>3. ASSUME NEW r \in Requests, Serve(r)
        PROVE  sessions \subseteq sessions'
    BY <2>3 DEF Serve, VerifyAccept, VerifyReject, ConnectFails, Ready, ReadySaveFails, DetectOs,
                Register, ProbeThrows, ElevateFails, ElevateReady, CallReturns, CallThrows, Drop
  <2>4. ASSUME NEW r \in Requests, Disconnected(r)
        PROVE  Stays(p)
    <3>1. desk[p] # r \/ desk[p] = NoSession
      BY <1>1, <2>4 DEF PageInv, OnePlace, Disconnected
    <3>2. sessions \ {r} \subseteq sessions'
      BY <2>4 DEF Disconnected, Disconnect, vars
    <3>3. NoSession \notin sessions
      BY <1>1, NoSessionAssumption DEF PageInv, PageTypeOK, TypeOK
    <3> QED BY <3>1, <3>2, <3>3
  <2>5. ASSUME NEW r \in Requests, DisconnectLost(r)
        PROVE  sessions \subseteq sessions'
    BY <2>5 DEF DisconnectLost, vars
  <2>6. CASE UNCHANGED pageVars
    BY <2>6 DEF pageVars, vars
  <2> QED BY <1>1, <2>1, <2>2, <2>3, <2>4, <2>5, <2>6 DEF PageNext
<1>2. PageInv /\ [PageNext]_pageVars => [\A p \in Pages : Stays(p)]_pageVars
  BY <1>1
<1> QED BY <1>2, PageInvariance, PTL DEF PageSpec, DesktopsKeepSessions
=============================================================================
