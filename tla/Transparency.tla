---------------------------- MODULE Transparency ----------------------------
(***************************************************************************)
(* The transparency log of one session (packages/core/src/transparency):   *)
(* withTransparency wraps each executor of the session - the session's own *)
(* and that of a transient session of another user - and records a command *)
(* when its execution has ended, however it ended.  Several requests run   *)
(* commands of one session at a time, so executions overlap.               *)
(***************************************************************************)
EXTENDS Integers, Sequences, FiniteSets

CONSTANTS
  Calls,       \* executions of a command, each on the wrapped executor of one user
  Listeners,   \* functions passed to subscribe
  Nobody,      \* no listener
  MaxThrows    \* bound on the records at which a listener throws

ASSUME NobodyAssumption == Nobody \notin Listeners
ASSUME MaxThrowsAssumption == MaxThrows \in Nat

VARIABLES
  exec,        \* what became of each call, as its caller is told
  startedAt,   \* when a call started
  clock,       \* Date.now(), a counter of starts and ends
  log,         \* TransparencyLog.entries and nextId, and what came of the notifications:
               \* the ids each listener was called with, and who threw at which
  listening,   \* TransparencyLog.listeners
  ahead,       \* their order: <<k, l>> if k was added before l
  since        \* how many records there were when a listener was added

vars == <<exec, startedAt, clock, log, listening, ahead, since>>

entries == log.entries

Outcomes == {"ended", "threw"}
Record == [id : Nat, call : Calls, startedAt : Nat, endedAt : Nat, outcome : Outcomes]
Log == [entries : Seq(Record), nextId : Nat, heard : [Listeners -> Seq(Nat)],
        threw : SUBSET (Nat \X Listeners)]

TypeOK ==
  /\ exec \in [Calls -> {"idle", "running"} \cup Outcomes]
  /\ startedAt \in [Calls -> Nat]
  /\ clock \in Nat
  /\ log \in Log
  /\ listening \subseteq Listeners
  /\ ahead \subseteq Listeners \X Listeners
  /\ since \in [Listeners -> Nat]

Init ==
  /\ exec = [c \in Calls |-> "idle"]
  /\ startedAt = [c \in Calls |-> 0]
  /\ clock = 1
  /\ log = [entries |-> <<>>, nextId |-> 1, heard |-> [l \in Listeners |-> <<>>], threw |-> {}]
  /\ listening = {}
  /\ ahead = {}
  /\ since = [l \in Listeners |-> 0]

----------------------------------------------------------------------------
\* exec of the wrapped executor takes the time and passes the command on.
Start(c) ==
  /\ exec[c] = "idle"
  /\ exec' = [exec EXCEPT ![c] = "running"]
  /\ startedAt' = [startedAt EXCEPT ![c] = clock]
  /\ clock' = clock + 1
  /\ UNCHANGED <<log, listening, ahead, since>>

\* What withTransparency records of a call.
Entry(c, outcome, id, at) ==
  [id |-> id, call |-> c, startedAt |-> startedAt[c], endedAt |-> at, outcome |-> outcome]

\* The listeners that are called when thrower throws: the loop ends with it.
Called(thrower) ==
  IF thrower = Nobody THEN listening
  ELSE {thrower} \cup {l \in listening : <<l, thrower>> \in ahead}

\* Who may throw when a record is announced.
Throwers(lg) ==
  {Nobody} \cup {l \in listening : Cardinality(lg.threw) < MaxThrows}

\* Calls the listeners with an id, until one throws.
Announce(lg, id, thrower) ==
  [l \in Listeners |-> IF l \in Called(thrower) THEN Append(lg.heard[l], id) ELSE lg.heard[l]]

Thrown(lg, id, thrower) ==
  IF thrower = Nobody THEN lg.threw ELSE lg.threw \cup {<<id, thrower>>}

\* Mutants: newest first; only commands that ended are announced.
recordFirst(lg, entry, thrower) ==
  [entries |-> <<entry>> \o lg.entries, nextId |-> lg.nextId + 1,
   heard |-> Announce(lg, entry.id, thrower), threw |-> Thrown(lg, entry.id, thrower)]
recordQuietly(lg, entry, thrower) ==
  [entries |-> Append(lg.entries, entry), nextId |-> lg.nextId + 1,
   heard |-> IF entry.outcome = "threw" THEN lg.heard ELSE Announce(lg, entry.id, thrower),
   threw |-> Thrown(lg, entry.id, thrower)]

\* TransparencyLog.record: the log after it appended an entry and called the listeners in
\* turn.  A listener that throws makes record throw as well: the others are not called,
\* the entry stays.
record(lg, entry, thrower) ==
  [entries |-> Append(lg.entries, entry), nextId |-> lg.nextId + 1,
   heard |-> Announce(lg, entry.id, thrower), threw |-> Thrown(lg, entry.id, thrower)]

\* The command ended, with an exit code or by a signal (or its channel closed).  If a
\* listener throws at its record, the catch of withTransparency records the call once more,
\* as one that threw - at which a listener may throw again - and the caller gets the error.
Return(c) ==
  /\ exec[c] = "running"
  /\ \/ /\ log' = record(log, Entry(c, "ended", log.nextId, clock), Nobody)
        /\ exec' = [exec EXCEPT ![c] = "ended"]
        /\ clock' = clock + 1
     \/ \E thrower \in Throwers(log) \ {Nobody} :
          /\ LET first == record(log, Entry(c, "ended", log.nextId, clock), thrower)
             IN  \E second \in Throwers(first) :
                   log' = record(first, Entry(c, "threw", first.nextId, clock + 1), second)
          /\ exec' = [exec EXCEPT ![c] = "threw"]
          /\ clock' = clock + 2
  /\ UNCHANGED <<startedAt, listening, ahead, since>>

\* Mutant: a command the transport refused is not recorded.
ThrowUnrecorded(c) ==
  /\ exec[c] = "running"
  /\ exec' = [exec EXCEPT ![c] = "threw"]
  /\ clock' = clock + 1
  /\ UNCHANGED <<startedAt, log, listening, ahead, since>>

\* The transport refused it: recorded all the same, and an error is passed on - that of the
\* transport, or that of a listener.
Throw(c) ==
  /\ exec[c] = "running"
  /\ exec' = [exec EXCEPT ![c] = "threw"]
  /\ \E thrower \in Throwers(log) :
       log' = record(log, Entry(c, "threw", log.nextId, clock), thrower)
  /\ clock' = clock + 1
  /\ UNCHANGED <<startedAt, listening, ahead, since>>

subscribe(l) ==
  /\ l \notin listening
  /\ listening' = listening \cup {l}
  /\ ahead' = ahead \cup (listening \X {l})
  /\ since' = [since EXCEPT ![l] = Len(entries)]
  /\ log' = [log EXCEPT !.heard[l] = <<>>]
  /\ UNCHANGED <<exec, startedAt, clock>>

\* The function subscribe returned is called.
unsubscribe(l) ==
  /\ l \in listening
  /\ listening' = listening \ {l}
  /\ ahead' = {p \in ahead : p[1] # l /\ p[2] # l}
  /\ since' = [since EXCEPT ![l] = 0]
  /\ log' = [log EXCEPT !.heard[l] = <<>>]
  /\ UNCHANGED <<exec, startedAt, clock>>

Next ==
  \/ \E c \in Calls : Start(c) \/ Return(c) \/ Throw(c)
  \/ \E l \in Listeners : subscribe(l) \/ unsubscribe(l)

Spec == Init /\ [][Next]_vars

----------------------------------------------------------------------------
RecordsOf(c) == {i \in DOMAIN entries : entries[i].call = c}
ThrewAt(i) == \E l \in Listeners : <<i, l>> \in log.threw

\* The single execution point: a call that ended is in the log, whatever ran beside it and
\* whatever the listeners did, and the last record of it says how it ended for its caller.
\* It has a second record, right before that one, only if a listener threw at it: it says
\* that the command ended though the caller was told that it failed.  A call still running
\* has none.
CallsAreRecorded ==
  \A c \in Calls :
    /\ exec[c] \in Outcomes <=> RecordsOf(c) # {}
    /\ \A i \in RecordsOf(c) :
         \/ entries[i].outcome = exec[c] /\ \A j \in RecordsOf(c) : j <= i
         \/ /\ entries[i].outcome = "ended" /\ exec[c] = "threw" /\ ThrewAt(i)
            /\ RecordsOf(c) = {i, i + 1}

\* Ids are unique and say the position: a reader that saw id n has seen exactly n records.
IdsArePositions ==
  /\ \A i \in DOMAIN entries : entries[i].id = i
  /\ log.nextId = Len(entries) + 1

\* Commands that did not overlap are listed in the order they ran.
NonOverlappingInOrder ==
  \A i, j \in DOMAIN entries : entries[i].endedAt < entries[j].startedAt => i < j

Hears(l, i) == \E n \in DOMAIN log.heard[l] : log.heard[l][n] = i

\* A listener is called with records made since it subscribed, each once, in order; it
\* misses one only if a listener added before it - that heard the record, and may be gone
\* since - threw.  The listener added first misses nothing.
MissedOnlyBehindThrower ==
  \A l \in listening :
    /\ \A n \in DOMAIN log.heard[l] : log.heard[l][n] \in since[l] + 1..Len(entries)
    /\ \A m, n \in DOMAIN log.heard[l] : m < n => log.heard[l][m] < log.heard[l][n]
    /\ \A i \in since[l] + 1..Len(entries) :
         \/ Hears(l, i)
         \/ \E k \in Listeners \ {l} :
              /\ <<i, k>> \in log.threw
              /\ k \in listening /\ since[k] < i => Hears(k, i) /\ <<k, l>> \in ahead

----------------------------------------------------------------------------
(* What makes them hold, step by step.                                     *)

\* Records carry past times, in the order in which executions ended.
Timeline(lg, now) ==
  /\ \A i \in DOMAIN lg.entries :
       lg.entries[i].startedAt < lg.entries[i].endedAt /\ lg.entries[i].endedAt < now
  /\ \A i, j \in DOMAIN lg.entries : i < j => lg.entries[i].endedAt < lg.entries[j].endedAt

\* Two listeners were added one before the other.
Ordered ==
  /\ ahead \subseteq listening \X listening
  /\ \A k, l \in listening : k = l \/ <<k, l>> \in ahead \/ <<l, k>> \in ahead

IInv ==
  /\ TypeOK /\ Timeline(log, clock) /\ CallsAreRecorded /\ IdsArePositions /\ Ordered
  /\ \A c \in Calls : exec[c] = "running" => startedAt[c] < clock
  /\ \A l \in listening : since[l] <= Len(entries)
=============================================================================
