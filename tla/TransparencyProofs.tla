------------------------- MODULE TransparencyProofs -------------------------
(***************************************************************************)
(* Theorems about the transparency log, for any set of overlapping calls   *)
(* and any listeners, whichever of them throw, and about the Command       *)
(* history app that reads it.                                              *)
(***************************************************************************)
EXTENDS CommandHistory, TLAPS

(***************************************************************************)
(* One call of record.                                                     *)
(***************************************************************************)

LEMMA EntryType ==
  ASSUME TypeOK, NEW c \in Calls, NEW outcome \in Outcomes, NEW id \in Nat, NEW at \in Nat
  PROVE  Entry(c, outcome, id, at) \in Record
BY DEF TypeOK, Entry, Record

LEMMA RecordTypes ==
  ASSUME NEW lg \in Log, NEW i \in DOMAIN lg.entries
  PROVE  lg.entries[i] \in Record
<1>1. lg.entries \in Seq(Record)
  BY DEF Log
<1> QED BY <1>1

\* The new record goes at the end and the others stay where they are.
LEMMA Appended ==
  ASSUME NEW lg \in Log, NEW e \in Record, NEW x
  PROVE  LET after == record(lg, e, x)
         IN  /\ after.entries \in Seq(Record)
             /\ Len(lg.entries) \in Nat /\ DOMAIN lg.entries = 1..Len(lg.entries)
             /\ Len(after.entries) = Len(lg.entries) + 1
             /\ DOMAIN after.entries = 1..Len(lg.entries) + 1
             /\ \A i \in DOMAIN lg.entries : after.entries[i] = lg.entries[i]
             /\ after.entries[Len(lg.entries) + 1] = e
             /\ after.nextId = lg.nextId + 1
             /\ lg.threw \subseteq after.threw
<1>1. lg.entries \in Seq(Record)
  BY DEF Log
<1>2. /\ record(lg, e, x).entries = Append(lg.entries, e)
      /\ record(lg, e, x).nextId = lg.nextId + 1
      /\ record(lg, e, x).threw = Thrown(lg, e.id, x)
  BY DEF record
<1>3. lg.threw \subseteq Thrown(lg, e.id, x)
  BY DEF Thrown
<1> QED BY <1>1, <1>2, <1>3

\* Who is called hears the id after what was heard before; the others hear nothing.
LEMMA Announced ==
  ASSUME NEW lg \in Log, NEW e \in Record, NEW x, NEW l \in Listeners
  PROVE  /\ lg.heard[l] \in Seq(Nat) /\ e.id \in Nat
         /\ record(lg, e, x).heard[l] =
              IF l \in Called(x) THEN Append(lg.heard[l], e.id) ELSE lg.heard[l]
BY DEF Log, record, Announce, Record

LEMMA RecordType ==
  ASSUME NEW lg \in Log, NEW e \in Record, NEW x \in Listeners \cup {Nobody}
  PROVE  record(lg, e, x) \in Log
<1>1. record(lg, e, x).entries \in Seq(Record) /\ e.id \in Nat
  BY Appended DEF Record
<1>2. lg.nextId + 1 \in Nat
  BY DEF Log
<1>3. Announce(lg, e.id, x) \in [Listeners -> Seq(Nat)]
  <2>1. \A l \in Listeners : lg.heard[l] \in Seq(Nat) /\ Append(lg.heard[l], e.id) \in Seq(Nat)
    BY <1>1 DEF Log
  <2> QED BY <2>1 DEF Announce
<1>4. Thrown(lg, e.id, x) \in SUBSET (Nat \X Listeners)
  BY <1>1 DEF Thrown, Log
<1> QED BY <1>1, <1>2, <1>3, <1>4 DEF record, Log

LEMMA ThrowersType ==
  ASSUME TypeOK, NEW lg, NEW x \in Throwers(lg)
  PROVE  x \in Listeners \cup {Nobody}
BY DEF Throwers, TypeOK

(***************************************************************************)
(* Returning and throwing: the log takes one more record of the call, or   *)
(* two of which a listener threw at the first.                             *)
(***************************************************************************)

Once(c, outcome, x) ==
  /\ x \in Throwers(log)
  /\ log' = record(log, Entry(c, outcome, log.nextId, clock), x)
  /\ clock' = clock + 1

Twice(c, first, x, y) ==
  /\ x \in Throwers(log) \ {Nobody}
  /\ first = record(log, Entry(c, "ended", log.nextId, clock), x)
  /\ y \in Throwers(first)
  /\ log' = record(first, Entry(c, "threw", first.nextId, clock + 1), y)
  /\ clock' = clock + 2

Ends(c, outcome) ==
  /\ exec[c] = "running" /\ exec' = [exec EXCEPT ![c] = outcome]
  /\ UNCHANGED <<startedAt, listening, ahead, since>>
  /\ \/ \E x : Once(c, outcome, x)
     \/ outcome = "threw" /\ \E first, x, y : Twice(c, first, x, y)

LEMMA EndsOf ==
  ASSUME NEW c \in Calls, Return(c) \/ Throw(c)
  PROVE  \E outcome \in Outcomes : Ends(c, outcome)
<1>1. CASE Throw(c)
  BY <1>1 DEF Throw, Ends, Once, Outcomes
<1>2. CASE Return(c)
  <2>1. CASE /\ log' = record(log, Entry(c, "ended", log.nextId, clock), Nobody)
             /\ exec' = [exec EXCEPT ![c] = "ended"]
             /\ clock' = clock + 1
    <3>1. Nobody \in Throwers(log)
      BY DEF Throwers
    <3> QED BY <1>2, <2>1, <3>1 DEF Return, Ends, Once, Outcomes
  <2>2. ASSUME NEW x \in Throwers(log) \ {Nobody},
               LET first == record(log, Entry(c, "ended", log.nextId, clock), x)
               IN  \E second \in Throwers(first) :
                     log' = record(first, Entry(c, "threw", first.nextId, clock + 1), second),
               exec' = [exec EXCEPT ![c] = "threw"],
               clock' = clock + 2
        PROVE  Ends(c, "threw")
    <3>1. \E first, y : Twice(c, first, x, y)
      BY <2>2 DEF Twice
    <3> QED BY <1>2, <2>2, <3>1 DEF Return, Ends
  <2> QED BY <1>2, <2>1, <2>2 DEF Return, Outcomes
<1> QED BY <1>1, <1>2

\* The two records of a call at whose first a listener threw.
LEMMA TwiceTypes ==
  ASSUME TypeOK, NEW c \in Calls, NEW first, NEW x, NEW y, Twice(c, first, x, y)
  PROVE  /\ Entry(c, "ended", log.nextId, clock) \in Record
         /\ first \in Log /\ first.nextId = log.nextId + 1
         /\ Entry(c, "threw", first.nextId, clock + 1) \in Record
         /\ x \in Listeners /\ y \in Listeners \cup {Nobody}
<1>1. log \in Log /\ log.nextId \in Nat /\ clock \in Nat /\ clock + 1 \in Nat
  BY DEF TypeOK, Log
<1>2. Entry(c, "ended", log.nextId, clock) \in Record
  BY <1>1, EntryType DEF Outcomes
<1>3. x \in Listeners /\ y \in Listeners \cup {Nobody}
  BY ThrowersType DEF Twice
<1>4. first \in Log /\ first.nextId = log.nextId + 1
  BY <1>1, <1>2, <1>3, RecordType, Appended DEF Twice
<1>5. first.nextId \in Nat
  BY <1>4 DEF Log
<1>6. Entry(c, "threw", first.nextId, clock + 1) \in Record
  BY <1>1, <1>5, EntryType DEF Outcomes
<1> QED BY <1>2, <1>3, <1>4, <1>6

LEMMA OnceTypes ==
  ASSUME TypeOK, NEW c \in Calls, NEW outcome \in Outcomes, NEW x, Once(c, outcome, x)
  PROVE  /\ log \in Log /\ Entry(c, outcome, log.nextId, clock) \in Record
         /\ x \in Listeners \cup {Nobody}
<1>1. log \in Log /\ log.nextId \in Nat /\ clock \in Nat
  BY DEF TypeOK, Log
<1> QED BY <1>1, EntryType, ThrowersType DEF Once

LEMMA TypeInit == Init => TypeOK
BY DEF Init, TypeOK, Log

LEMMA TypeNext == TypeOK /\ [Next]_vars => TypeOK'
<1> SUFFICES ASSUME TypeOK, [Next]_vars
             PROVE  TypeOK'
  OBVIOUS
<1>1. ASSUME NEW c \in Calls, Start(c)
      PROVE  TypeOK'
  BY <1>1 DEF TypeOK, Start
<1>2. ASSUME NEW c \in Calls, NEW outcome \in Outcomes, Ends(c, outcome)
      PROVE  TypeOK'
  <2>1. log' \in Log /\ clock' \in Nat
    <3>1. ASSUME NEW x, Once(c, outcome, x)
          PROVE  log' \in Log /\ clock' \in Nat
      <4>1. log' \in Log
        BY <3>1, OnceTypes, RecordType DEF Once
      <4> QED BY <3>1, <4>1 DEF Once, TypeOK
    <3>2. ASSUME NEW first, NEW x, NEW y, Twice(c, first, x, y)
          PROVE  log' \in Log /\ clock' \in Nat
      <4>1. log' \in Log
        BY <3>2, TwiceTypes, RecordType DEF Twice
      <4> QED BY <3>2, <4>1 DEF Twice, TypeOK
    <3> QED BY <1>2, <3>1, <3>2 DEF Ends
  <2>2. exec' \in [Calls -> {"idle", "running"} \cup Outcomes]
    BY <1>2 DEF Ends, TypeOK
  <2> QED BY <1>2, <2>1, <2>2 DEF Ends, TypeOK
<1>3. ASSUME NEW l \in Listeners, subscribe(l) \/ unsubscribe(l)
      PROVE  TypeOK'
  <2>1. log' \in Log
    <3>1. log.heard \in [Listeners -> Seq(Nat)] /\ <<>> \in Seq(Nat)
      BY DEF TypeOK, Log
    <3>2. log' = [log EXCEPT !.heard = [@ EXCEPT ![l] = <<>>]]
      BY <1>3 DEF subscribe, unsubscribe
    <3>3. [log.heard EXCEPT ![l] = <<>>] \in [Listeners -> Seq(Nat)]
      BY <3>1
    <3> QED BY <3>2, <3>3 DEF TypeOK, Log
  <2>2. Len(entries) \in Nat
    BY DEF TypeOK, Log, entries
  <2>3. since' \in [Listeners -> Nat] /\ listening' \subseteq Listeners
    BY <1>3, <2>2 DEF subscribe, unsubscribe, TypeOK
  <2>4. ahead' \subseteq Listeners \X Listeners
    BY <1>3 DEF subscribe, unsubscribe, TypeOK
  <2> QED BY <1>3, <2>1, <2>3, <2>4 DEF subscribe, unsubscribe, TypeOK
<1>4. CASE UNCHANGED vars
  BY <1>4 DEF vars, TypeOK
<1> QED
  BY <1>1, <1>2, <1>3, <1>4, EndsOf DEF Next

\* The variables of the log keep their types.
THEOREM TypeCorrect == Spec => []TypeOK
BY TypeInit, TypeNext, PTL DEF Spec

(***************************************************************************)
(* Recording.                                                              *)
(***************************************************************************)

IdsOf(lg) ==
  /\ \A i \in DOMAIN lg.entries : lg.entries[i].id = i
  /\ lg.nextId = Len(lg.entries) + 1

LEMMA RecordTimes ==
  ASSUME NEW lg \in Log, NEW e \in Record, NEW x, NEW now \in Nat,
         Timeline(lg, now), e.startedAt < now, e.endedAt = now
  PROVE  Timeline(record(lg, e, x), now + 1)
<1> DEFINE after == record(lg, e, x)
           n == Len(lg.entries) + 1
<1>1. /\ n \in Nat /\ DOMAIN lg.entries = 1..n - 1 /\ DOMAIN after.entries = 1..n
      /\ \A i \in DOMAIN lg.entries : after.entries[i] = lg.entries[i]
      /\ after.entries[n] = e
  BY Appended
<1>2. \A i \in DOMAIN lg.entries : lg.entries[i].startedAt \in Nat /\ lg.entries[i].endedAt \in Nat
  BY RecordTypes DEF Record
<1> HIDE DEF after, n
<1>3. \A i \in DOMAIN after.entries :
        after.entries[i].startedAt < after.entries[i].endedAt /\ after.entries[i].endedAt < now + 1
  BY <1>1, <1>2 DEF Timeline
<1>4. ASSUME NEW i \in DOMAIN after.entries, NEW j \in DOMAIN after.entries, i < j
      PROVE  after.entries[i].endedAt < after.entries[j].endedAt
  BY <1>1, <1>2, <1>4 DEF Timeline
<1>5. Timeline(after, now + 1)
  BY <1>3, <1>4 DEF Timeline
<1> QED BY <1>5 DEF after

LEMMA RecordIds ==
  ASSUME NEW lg \in Log, NEW e \in Record, NEW x, IdsOf(lg), e.id = lg.nextId
  PROVE  IdsOf(record(lg, e, x))
BY Appended DEF IdsOf

\* What an end does to the log.
LEMMA EndsLog ==
  ASSUME IInv, NEW c \in Calls, NEW outcome \in Outcomes, Ends(c, outcome)
  PROVE  LET n == Len(entries)
             m == Len(entries')
         IN  /\ n \in Nat /\ DOMAIN entries = 1..n /\ DOMAIN entries' = 1..m
             /\ \A i \in DOMAIN entries : entries'[i] = entries[i]
             /\ log.threw \subseteq log'.threw
             /\ \/ m = n + 1 /\ entries'[m].call = c /\ entries'[m].outcome = outcome
                \/ /\ m = n + 2 /\ entries'[n + 1].call = c /\ entries'[m].call = c
                   /\ entries'[n + 1].outcome = "ended" /\ entries'[m].outcome = "threw"
                   /\ outcome = "threw"
                   /\ \E l \in Listeners : <<n + 1, l>> \in log'.threw
             /\ Timeline(log, clock)' /\ IdsArePositions'
             /\ clock \in Nat /\ clock' \in Nat /\ clock < clock'
<1> DEFINE n == Len(entries)
<1>1. /\ TypeOK /\ log \in Log /\ IdsOf(log) /\ Timeline(log, clock) /\ entries = log.entries
      /\ clock \in Nat /\ startedAt[c] < clock /\ startedAt[c] \in Nat
      /\ log.nextId = n + 1 /\ n \in Nat /\ DOMAIN entries = 1..n
  BY DEF IInv, TypeOK, Log, IdsOf, IdsArePositions, entries, Ends
<1>2. IdsArePositions' <=> IdsOf(log')
  BY DEF IdsOf, IdsArePositions, entries
<1>3. ASSUME NEW x, Once(c, outcome, x)
      PROVE  /\ DOMAIN entries' = 1..n + 1 /\ Len(entries') = n + 1
             /\ \A i \in DOMAIN entries : entries'[i] = entries[i]
             /\ entries'[n + 1].call = c /\ entries'[n + 1].outcome = outcome
             /\ log.threw \subseteq log'.threw
             /\ Timeline(log', clock') /\ IdsOf(log')
             /\ clock' = clock + 1
  <2> DEFINE e == Entry(c, outcome, log.nextId, clock)
  <2>1. e \in Record /\ log' = record(log, e, x) /\ clock' = clock + 1
    BY <1>1, <1>3, OnceTypes DEF Once
  <2>2. /\ e.id = log.nextId /\ e.endedAt = clock /\ e.startedAt = startedAt[c]
        /\ e.call = c /\ e.outcome = outcome
    BY DEF Entry
  <2> HIDE DEF e
  <2>3. Timeline(log', clock') /\ IdsOf(log')
    BY <1>1, <2>1, <2>2, RecordTimes, RecordIds
  <2> QED BY <1>1, <2>1, <2>2, <2>3, Appended DEF entries
<1>4. ASSUME NEW first, NEW x, NEW y, Twice(c, first, x, y)
      PROVE  /\ DOMAIN entries' = 1..n + 2 /\ Len(entries') = n + 2
             /\ \A i \in DOMAIN entries : entries'[i] = entries[i]
             /\ entries'[n + 1].call = c /\ entries'[n + 1].outcome = "ended"
             /\ entries'[n + 2].call = c /\ entries'[n + 2].outcome = "threw"
             /\ log.threw \subseteq log'.threw
             /\ \E l \in Listeners : <<n + 1, l>> \in log'.threw
             /\ Timeline(log', clock') /\ IdsOf(log')
             /\ clock' = clock + 2
  <2> DEFINE e == Entry(c, "ended", log.nextId, clock)
             f == Entry(c, "threw", first.nextId, clock + 1)
  <2>1. /\ e \in Record /\ first = record(log, e, x) /\ first \in Log
        /\ f \in Record /\ log' = record(first, f, y) /\ clock' = clock + 2
        /\ x \in Listeners /\ x # Nobody
    BY <1>1, <1>4, TwiceTypes DEF Twice
  <2>2. /\ e.id = log.nextId /\ e.endedAt = clock /\ e.startedAt = startedAt[c]
        /\ e.call = c /\ e.outcome = "ended"
        /\ f.id = first.nextId /\ f.endedAt = clock + 1 /\ f.startedAt = startedAt[c]
        /\ f.call = c /\ f.outcome = "threw"
    BY DEF Entry
  <2> HIDE DEF e, f
  <2>3. Timeline(first, clock + 1) /\ IdsOf(first)
    BY <1>1, <2>1, <2>2, RecordTimes, RecordIds
  <2>4. Timeline(log', clock') /\ IdsOf(log')
    <3>1. clock + 1 \in Nat /\ startedAt[c] < clock + 1 /\ (clock + 1) + 1 = clock'
      BY <1>1, <2>1
    <3>2. Timeline(log', (clock + 1) + 1)
      BY <2>1, <2>2, <2>3, <3>1, RecordTimes
    <3> QED BY <2>1, <2>2, <2>3, <3>1, <3>2, RecordIds
  <2>5. /\ Len(first.entries) = n + 1 /\ DOMAIN first.entries = 1..n + 1
        /\ \A i \in 1..n : first.entries[i] = entries[i]
        /\ first.entries[n + 1] = e /\ log.threw \subseteq first.threw
    BY <1>1, <2>1, Appended DEF entries
  <2>6. /\ Len(entries') = n + 2 /\ DOMAIN entries' = 1..n + 2
        /\ \A i \in 1..n + 1 : entries'[i] = first.entries[i]
        /\ entries'[n + 2] = f /\ first.threw \subseteq log'.threw
    <3>1. /\ Len(entries') = (n + 1) + 1 /\ DOMAIN entries' = 1..(n + 1) + 1
          /\ \A i \in 1..n + 1 : entries'[i] = first.entries[i]
          /\ entries'[(n + 1) + 1] = f /\ first.threw \subseteq log'.threw
      BY <2>1, <2>5, Appended DEF entries
    <3>2. (n + 1) + 1 = n + 2
      BY <1>1
    <3> QED BY <3>1, <3>2
  <2>7. <<n + 1, x>> \in log'.threw
    <3>1. <<n + 1, x>> \in first.threw
      BY <1>1, <2>1, <2>2 DEF record, Thrown
    <3> QED BY <2>6, <3>1
  <2>8. /\ \A i \in 1..n : entries'[i] = entries[i]
        /\ entries'[n + 1] = e /\ entries'[n + 2] = f
        /\ log.threw \subseteq log'.threw
    BY <1>1, <2>5, <2>6
  <2>9. clock' = clock + 2 /\ \E l \in Listeners : <<n + 1, l>> \in log'.threw
    BY <2>1, <2>7
  <2> HIDE DEF n
  <2> QED BY <1>1, <2>2, <2>4, <2>6, <2>8, <2>9
<1>5. CASE \E x : Once(c, outcome, x)
  BY <1>1, <1>2, <1>3, <1>5
<1>6. CASE outcome = "threw" /\ \E first, x, y : Twice(c, first, x, y)
  <2>1. /\ DOMAIN entries' = 1..n + 2 /\ Len(entries') = n + 2
        /\ \A i \in DOMAIN entries : entries'[i] = entries[i]
        /\ entries'[n + 1].call = c /\ entries'[n + 1].outcome = "ended"
        /\ entries'[n + 2].call = c /\ entries'[n + 2].outcome = "threw"
        /\ log.threw \subseteq log'.threw
        /\ \E l \in Listeners : <<n + 1, l>> \in log'.threw
        /\ Timeline(log', clock') /\ IdsOf(log')
        /\ clock' = clock + 2
    BY <1>4, <1>6
  <2>2. Timeline(log, clock)' /\ clock' \in Nat /\ clock < clock'
    BY <1>1, <2>1
  <2> QED BY <1>1, <1>2, <1>6, <2>1, <2>2
<1> QED BY <1>5, <1>6 DEF Ends

LEMMA EndsRecords ==
  ASSUME IInv, NEW c \in Calls, NEW outcome \in Outcomes, Ends(c, outcome)
  PROVE  CallsAreRecorded'
<1> DEFINE n == Len(entries)
           m == Len(entries')
<1>1. /\ n \in Nat /\ DOMAIN entries = 1..n /\ DOMAIN entries' = 1..m
      /\ \A i \in DOMAIN entries : entries'[i] = entries[i]
      /\ log.threw \subseteq log'.threw
      /\ \/ m = n + 1 /\ entries'[m].call = c /\ entries'[m].outcome = outcome
         \/ /\ m = n + 2 /\ entries'[n + 1].call = c /\ entries'[m].call = c
            /\ entries'[n + 1].outcome = "ended" /\ entries'[m].outcome = "threw"
            /\ outcome = "threw"
            /\ \E l \in Listeners : <<n + 1, l>> \in log'.threw
  BY EndsLog
<1>2. /\ exec[c] \notin Outcomes /\ exec' = [exec EXCEPT ![c] = outcome]
      /\ exec \in [Calls -> {"idle", "running"} \cup Outcomes]
  BY DEF Ends, Outcomes, IInv, TypeOK
<1>3. RecordsOf(c) = {}
  BY <1>2 DEF IInv, CallsAreRecorded
<1> HIDE DEF n, m
<1>4. /\ m \in Nat /\ n <= m /\ DOMAIN entries \subseteq DOMAIN entries'
      /\ \A i \in DOMAIN entries' \ DOMAIN entries : entries'[i].call = c
  <2>1. m \in Nat /\ n <= m
    BY <1>1
  <2>2. ASSUME NEW i \in DOMAIN entries' \ DOMAIN entries
        PROVE  i = m \/ (m = n + 2 /\ i = n + 1)
    BY <1>1, <2>1
  <2> QED BY <1>1, <2>1, <2>2
<1>5. ASSUME NEW q \in Calls, q # c
      PROVE  /\ exec'[q] = exec[q] /\ RecordsOf(q)' = RecordsOf(q)
             /\ \A i \in RecordsOf(q) : entries'[i] = entries[i] /\ (ThrewAt(i) => ThrewAt(i)')
  <2>1. exec'[q] = exec[q]
    BY <1>2, <1>5
  <2>2. RecordsOf(q)' = RecordsOf(q)
    BY <1>1, <1>4, <1>5 DEF RecordsOf
  <2>3. \A i \in RecordsOf(q) : entries'[i] = entries[i]
    BY <1>1 DEF RecordsOf
  <2> QED BY <1>1, <2>1, <2>2, <2>3 DEF ThrewAt
<1>6. exec'[c] = outcome
  BY <1>2
<1>7. RecordsOf(c)' = DOMAIN entries' \ DOMAIN entries
  BY <1>1, <1>3, <1>4 DEF RecordsOf
<1>8. CASE m = n + 1
  <2>1. RecordsOf(c)' = {m} /\ entries'[m].outcome = outcome /\ m <= m
    BY <1>1, <1>4, <1>7, <1>8
  <2>2. /\ exec'[c] \in Outcomes <=> RecordsOf(c)' # {}
        /\ \A i \in RecordsOf(c)' :
             entries'[i].outcome = exec'[c] /\ \A j \in RecordsOf(c)' : j <= i
    BY <1>6, <2>1
  <2> QED BY <1>5, <2>2 DEF IInv, CallsAreRecorded
<1>9. CASE m = n + 2
  <2>1. /\ RecordsOf(c)' = {n + 1, n + 2} /\ outcome = "threw"
        /\ entries'[n + 1].outcome = "ended" /\ entries'[n + 2].outcome = "threw"
        /\ \E l \in Listeners : <<n + 1, l>> \in log'.threw
    <3>1. m # n + 1
      BY <1>1, <1>9
    <3>2. 1..m \ 1..n = {n + 1, n + 2}
      BY <1>1, <1>9
    <3> QED BY <1>1, <1>7, <1>9, <3>1, <3>2
  <2>2. n + 2 = (n + 1) + 1 /\ n + 1 <= n + 2 /\ n + 2 <= n + 2
    BY <1>1
  <2>3. ASSUME NEW i \in RecordsOf(c)'
        PROVE  \/ entries'[i].outcome = exec'[c] /\ \A j \in RecordsOf(c)' : j <= i
               \/ /\ entries'[i].outcome = "ended" /\ exec'[c] = "threw" /\ ThrewAt(i)'
                  /\ RecordsOf(c)' = {i, i + 1}
    <3>1. CASE i = n + 1
      <4>1. ThrewAt(i)'
        BY <2>1, <3>1 DEF ThrewAt
      <4>2. RecordsOf(c)' = {i, i + 1}
        BY <2>1, <2>2, <3>1
      <4> QED BY <1>6, <2>1, <3>1, <4>1, <4>2
    <3>2. CASE i = n + 2
      <4>1. entries'[i].outcome = exec'[c]
        BY <1>6, <2>1, <3>2
      <4>2. \A j \in RecordsOf(c)' : j <= i
        BY <2>1, <2>2, <3>2
      <4> QED BY <4>1, <4>2
    <3> QED BY <2>1, <2>3, <3>1, <3>2
  <2>4. exec'[c] \in Outcomes /\ RecordsOf(c)' # {}
    BY <1>6, <2>1
  <2> QED BY <1>5, <2>3, <2>4 DEF IInv, CallsAreRecorded
<1> QED BY <1>1, <1>8, <1>9

LEMMA InvNext == IInv /\ [Next]_vars => IInv'
<1> SUFFICES ASSUME IInv, [Next]_vars
             PROVE  IInv'
  OBVIOUS
<1>1. TypeOK /\ TypeOK' /\ entries = log.entries
  BY TypeNext DEF IInv, entries
<1>2. ASSUME NEW c \in Calls, NEW outcome \in Outcomes, Ends(c, outcome)
      PROVE  IInv'
  <2>1. /\ Timeline(log, clock)' /\ IdsArePositions' /\ CallsAreRecorded'
        /\ Len(entries) \in Nat /\ Len(entries') \in Nat /\ Len(entries) <= Len(entries')
        /\ clock \in Nat /\ clock' \in Nat /\ clock < clock'
    BY <1>2, EndsLog, EndsRecords
  <2>2. /\ listening' = listening /\ since' = since /\ ahead' = ahead /\ startedAt' = startedAt
        /\ exec' = [exec EXCEPT ![c] = outcome] /\ outcome # "running"
    BY <1>2 DEF Ends, Outcomes
  <2>3. \A q \in Calls : exec'[q] = "running" => startedAt'[q] < clock'
    BY <1>1, <2>1, <2>2 DEF IInv, TypeOK
  <2>4. \A l \in listening' : since'[l] <= Len(entries')
    BY <1>1, <2>1, <2>2 DEF IInv, TypeOK
  <2>5. Ordered'
    BY <2>2 DEF IInv, Ordered
  <2> QED BY <1>1, <2>1, <2>3, <2>4, <2>5 DEF IInv
<1>3. ASSUME NEW c \in Calls, Start(c)
      PROVE  IInv'
  <2>1. /\ exec[c] = "idle" /\ exec' = [exec EXCEPT ![c] = "running"]
        /\ startedAt' = [startedAt EXCEPT ![c] = clock] /\ clock' = clock + 1
        /\ UNCHANGED <<log, listening, ahead, since>> /\ clock \in Nat
        /\ exec \in [Calls -> {"idle", "running"} \cup Outcomes]
        /\ startedAt \in [Calls -> Nat]
    BY <1>1, <1>3 DEF Start, TypeOK
  <2>2. Timeline(log, clock)'
    <3>1. \A i \in DOMAIN log.entries : log.entries[i].endedAt \in Nat
      BY <1>1, RecordTypes DEF TypeOK, Record
    <3>2. Timeline(log, clock + 1)
      BY <2>1, <3>1 DEF IInv, Timeline
    <3> QED BY <2>1, <3>2
  <2>3. CallsAreRecorded'
    <3>1. entries' = entries /\ \A i : ThrewAt(i)' <=> ThrewAt(i)
      BY <2>1 DEF entries, ThrewAt
    <3>2. \A q \in Calls : RecordsOf(q)' = RecordsOf(q)
      BY <3>1 DEF RecordsOf
    <3>3. \A q \in Calls : /\ exec'[q] \in Outcomes <=> exec[q] \in Outcomes
                           /\ q # c => exec'[q] = exec[q]
      BY <2>1 DEF Outcomes
    <3>4. RecordsOf(c) = {}
      BY <2>1 DEF IInv, CallsAreRecorded, Outcomes
    <3> QED BY <3>1, <3>2, <3>3, <3>4 DEF IInv, CallsAreRecorded
  <2>4. IdsArePositions' /\ Ordered' /\ \A l \in listening' : since'[l] <= Len(entries')
    BY <2>1 DEF IInv, IdsArePositions, Ordered, entries
  <2>5. \A q \in Calls : exec'[q] = "running" => startedAt'[q] < clock'
    BY <2>1 DEF IInv
  <2> QED BY <1>1, <2>2, <2>3, <2>4, <2>5 DEF IInv
<1>4. ASSUME NEW l \in Listeners, subscribe(l) \/ unsubscribe(l)
      PROVE  IInv'
  <2>1. UNCHANGED <<exec, startedAt, clock>> /\ log' = [log EXCEPT !.heard[l] = <<>>]
    BY <1>4 DEF subscribe, unsubscribe
  <2>2. /\ log'.entries = log.entries /\ log'.nextId = log.nextId /\ log'.threw = log.threw
        /\ entries' = entries
    BY <1>1, <2>1 DEF entries, TypeOK, Log
  <2>3. Timeline(log, clock)' /\ IdsArePositions'
    BY <2>1, <2>2 DEF IInv, Timeline, IdsArePositions
  <2>4. CallsAreRecorded'
    BY <2>1, <2>2 DEF IInv, CallsAreRecorded, RecordsOf, ThrewAt
  <2>5. Ordered' /\ \A k \in listening' : since'[k] <= Len(entries')
    <3>1. Len(entries) \in Nat /\ since \in [Listeners -> Nat] /\ listening \subseteq Listeners
      BY <1>1 DEF TypeOK, Log
    <3>2. CASE subscribe(l)
      BY <2>2, <3>1, <3>2 DEF IInv, Ordered, subscribe
    <3>3. CASE unsubscribe(l)
      <4>1. \A k \in listening' : since'[k] <= Len(entries')
        BY <2>2, <3>1, <3>3 DEF IInv, unsubscribe
      <4>2. Ordered'
        <5>1. /\ listening' = listening \ {l}
              /\ ahead' = {p \in ahead : p[1] # l /\ p[2] # l}
          BY <3>3 DEF unsubscribe
        <5>2. ahead' \subseteq listening' \X listening'
          BY <5>1 DEF IInv, Ordered
        <5>3. ASSUME NEW j \in listening', NEW k \in listening', j # k
              PROVE  <<j, k>> \in ahead' \/ <<k, j>> \in ahead'
          BY <5>1, <5>3 DEF IInv, Ordered
        <5> QED BY <5>2, <5>3 DEF Ordered
      <4> QED BY <4>1, <4>2
    <3> QED BY <1>4, <3>2, <3>3
  <2>6. \A q \in Calls : exec'[q] = "running" => startedAt'[q] < clock'
    BY <2>1 DEF IInv
  <2> QED BY <1>1, <2>3, <2>4, <2>5, <2>6 DEF IInv
<1>5. CASE UNCHANGED vars
  <2>1. UNCHANGED <<exec, startedAt, clock, log, listening, ahead, since, entries>>
    BY <1>5 DEF vars, entries
  <2> QED BY <1>1, <2>1 DEF IInv, Timeline, CallsAreRecorded, RecordsOf, ThrewAt,
                            IdsArePositions, Ordered
<1> QED
  BY <1>2, <1>3, <1>4, <1>5, EndsOf DEF Next

LEMMA Invariance == Spec => []IInv
<1>1. ASSUME Init
      PROVE  IInv
  <2>1. entries = <<>> /\ DOMAIN entries = {} /\ Len(entries) = 0
    BY <1>1 DEF Init, entries
  <2>2. TypeOK /\ IdsArePositions /\ Ordered /\ Timeline(log, clock)
    BY <1>1, <2>1, TypeInit DEF Init, Timeline, IdsArePositions, Ordered, entries
  <2>3. CallsAreRecorded
    BY <1>1, <2>1 DEF Init, CallsAreRecorded, RecordsOf, Outcomes
  <2> QED BY <1>1, <2>2, <2>3 DEF Init, IInv
<1> QED BY <1>1, InvNext, PTL DEF Spec

\* A call that ended is in the log and a running one is not, however calls overlap and
\* whichever listener throws; it is there twice only if a listener threw at the first record.
THEOREM CallsRecorded == Spec => []CallsAreRecorded
BY Invariance, PTL DEF IInv

\* The id of a record is its position.
THEOREM Ids == Spec => []IdsArePositions
BY Invariance, PTL DEF IInv

\* Commands that did not overlap are listed in the order they ran.
THEOREM InOrder == Spec => []NonOverlappingInOrder
<1>1. IInv => NonOverlappingInOrder
  <2> SUFFICES ASSUME IInv, NEW i \in DOMAIN entries, NEW j \in DOMAIN entries,
                      entries[i].endedAt < entries[j].startedAt
               PROVE  i < j
    BY DEF NonOverlappingInOrder
  <2>1. /\ i \in Nat /\ j \in Nat /\ entries = log.entries
        /\ entries[i] \in Record /\ entries[j] \in Record
    BY RecordTypes DEF IInv, TypeOK, Log, entries
  <2>2. entries[i].endedAt < entries[j].endedAt
    BY <2>1 DEF IInv, Timeline, Record
  <2>3. ~(j < i) /\ j # i
    BY <2>1, <2>2 DEF IInv, Timeline, Record
  <2> QED BY <2>1, <2>3
<1> QED BY <1>1, Invariance, PTL

(***************************************************************************)
(* Listening.                                                              *)
(***************************************************************************)

HearsIn(lg, l, i) == \E n \in DOMAIN lg.heard[l] : lg.heard[l][n] = i

Notified(lg) ==
  \A l \in listening :
    /\ \A n \in DOMAIN lg.heard[l] : lg.heard[l][n] \in since[l] + 1..Len(lg.entries)
    /\ \A m, n \in DOMAIN lg.heard[l] : m < n => lg.heard[l][m] < lg.heard[l][n]
    /\ \A i \in since[l] + 1..Len(lg.entries) :
         \/ HearsIn(lg, l, i)
         \/ \E k \in Listeners \ {l} :
              /\ <<i, k>> \in lg.threw
              /\ k \in listening /\ since[k] < i => HearsIn(lg, k, i) /\ <<k, l>> \in ahead

LEMMA NotifiedLog == MissedOnlyBehindThrower <=> Notified(log)
BY DEF MissedOnlyBehindThrower, Notified, Hears, HearsIn, entries

\* One record is announced: the loop over the listeners may end at x.
LEMMA RecordNotifies ==
  ASSUME TypeOK, Ordered, NEW lg \in Log, NEW e \in Record, NEW x \in Throwers(lg),
         e.id = Len(lg.entries) + 1, Notified(lg),
         \A l \in listening : since[l] <= Len(lg.entries)
  PROVE  Notified(record(lg, e, x))
<1> DEFINE after == record(lg, e, x)
           n == Len(lg.entries)
<1>1. n \in Nat /\ Len(after.entries) = n + 1 /\ lg.threw \subseteq after.threw
  BY Appended
<1>2. x # Nobody => x \in listening /\ x \in Listeners /\ <<n + 1, x>> \in after.threw
  BY DEF Throwers, record, Thrown, TypeOK
<1>3. ASSUME NEW l \in listening
      PROVE  /\ l \in Listeners /\ since[l] \in Nat /\ since[l] <= n
             /\ lg.heard[l] \in Seq(Nat)
             /\ after.heard[l] = IF l \in Called(x) THEN Append(lg.heard[l], n + 1)
                                 ELSE lg.heard[l]
  BY Announced DEF TypeOK
<1>4. ASSUME NEW l \in Listeners
      PROVE  /\ lg.heard[l] \in Seq(Nat)
             /\ \A i : HearsIn(lg, l, i) => HearsIn(after, l, i)
             /\ l \in Called(x) => HearsIn(after, l, n + 1)
  <2>1. /\ lg.heard[l] \in Seq(Nat)
        /\ after.heard[l] = IF l \in Called(x) THEN Append(lg.heard[l], n + 1)
                            ELSE lg.heard[l]
        /\ n + 1 \in Nat
    BY <1>1, Announced
  <2>2. CASE l \in Called(x)
    <3>1. /\ Len(lg.heard[l]) + 1 \in DOMAIN after.heard[l]
          /\ after.heard[l][Len(lg.heard[l]) + 1] = n + 1
          /\ \A j \in DOMAIN lg.heard[l] :
               j \in DOMAIN after.heard[l] /\ after.heard[l][j] = lg.heard[l][j]
      <4> DEFINE h == lg.heard[l]
                 g == after.heard[l]
      <4>1. h \in Seq(Nat) /\ g = Append(h, n + 1) /\ n + 1 \in Nat
        BY <2>1, <2>2
      <4> HIDE DEF h, g, n
      <4>2. /\ Len(h) + 1 \in DOMAIN g /\ g[Len(h) + 1] = n + 1
            /\ \A j \in DOMAIN h : j \in DOMAIN g /\ g[j] = h[j]
        BY <4>1
      <4> QED BY <4>2 DEF h, g
    <3> QED BY <2>1, <3>1 DEF HearsIn
  <2>3. CASE l \notin Called(x)
    BY <2>1, <2>3 DEF HearsIn
  <2> QED BY <2>1, <2>2, <2>3
<1> HIDE DEF after, n
<1>5. ASSUME NEW l \in listening
      PROVE  /\ \A j \in DOMAIN after.heard[l] : after.heard[l][j] \in since[l] + 1..n + 1
             /\ \A i, j \in DOMAIN after.heard[l] : i < j => after.heard[l][i] < after.heard[l][j]
  <2>1. /\ \A j \in DOMAIN lg.heard[l] : lg.heard[l][j] \in since[l] + 1..n
        /\ \A i, j \in DOMAIN lg.heard[l] : i < j => lg.heard[l][i] < lg.heard[l][j]
    BY DEF Notified, n
  <2>2. CASE l \notin Called(x)
    <3>1. after.heard[l] = lg.heard[l]
      BY <1>3, <2>2
    <3>2. since[l] + 1..n \subseteq since[l] + 1..n + 1
      BY <1>1, <1>3
    <3> QED BY <2>1, <3>1, <3>2
  <2>3. CASE l \in Called(x)
    <3> DEFINE h == lg.heard[l]
               g == after.heard[l]
    <3>1. h \in Seq(Nat) /\ g = Append(h, n + 1) /\ n + 1 \in Nat
      <4>1. h \in Seq(Nat)
        BY <1>3
      <4>2. g = Append(h, n + 1)
        BY <1>3, <2>3
      <4>3. n + 1 \in Nat
        BY <1>1
      <4> QED BY <4>1, <4>2, <4>3
    <3> HIDE DEF h, g
    <3>2. /\ Len(h) \in Nat /\ DOMAIN h = 1..Len(h) /\ DOMAIN g = 1..Len(h) + 1
          /\ g[Len(h) + 1] = n + 1 /\ \A j \in DOMAIN h : g[j] = h[j]
      BY <3>1
    <3>3. /\ \A j \in DOMAIN h : h[j] \in since[l] + 1..n
          /\ \A i, j \in DOMAIN h : i < j => h[i] < h[j]
          /\ since[l] \in Nat /\ since[l] <= n
      BY <1>3, <2>1 DEF h
    <3>4. \A j \in DOMAIN g : g[j] \in since[l] + 1..n + 1
      BY <1>1, <3>2, <3>3
    <3>5. \A i, j \in DOMAIN g : i < j => g[i] < g[j]
      BY <1>1, <3>2, <3>3
    <3> QED BY <3>4, <3>5 DEF g
  <2> QED BY <2>2, <2>3
<1>6. ASSUME NEW l \in listening, NEW i \in since[l] + 1..n + 1
      PROVE  \/ HearsIn(after, l, i)
             \/ \E k \in Listeners \ {l} :
                  /\ <<i, k>> \in after.threw
                  /\ k \in listening /\ since[k] < i => HearsIn(after, k, i) /\ <<k, l>> \in ahead
  <2>1. CASE i \in since[l] + 1..n
    <3>1. \/ HearsIn(lg, l, i)
          \/ \E k \in Listeners \ {l} :
               /\ <<i, k>> \in lg.threw
               /\ k \in listening /\ since[k] < i => HearsIn(lg, k, i) /\ <<k, l>> \in ahead
      BY <2>1 DEF Notified, n
    <3> QED BY <1>1, <1>3, <1>4, <3>1
  <2>2. CASE i = n + 1 /\ l \in Called(x)
    BY <1>3, <1>4, <2>2
  <2>3. CASE i = n + 1 /\ l \notin Called(x)
    <3>1. x # Nobody /\ l # x /\ <<l, x>> \notin ahead
      BY <2>3 DEF Called
    <3>2. <<x, l>> \in ahead /\ x \in Listeners /\ <<n + 1, x>> \in after.threw
      BY <1>2, <3>1 DEF Ordered
    <3>3. HearsIn(after, x, n + 1)
      BY <1>4, <3>1, <3>2 DEF Called
    <3> QED BY <2>3, <3>1, <3>2, <3>3
  <2>4. i \in since[l] + 1..n \/ i = n + 1
    BY <1>1, <1>3
  <2> QED BY <2>1, <2>2, <2>3, <2>4
<1>7. Notified(after)
  BY <1>1, <1>5, <1>6 DEF Notified
<1> QED BY <1>7 DEF after

LEMMA HeardNext ==
  IInv /\ MissedOnlyBehindThrower /\ [Next]_vars => MissedOnlyBehindThrower'
<1> SUFFICES ASSUME IInv, MissedOnlyBehindThrower, [Next]_vars
             PROVE  MissedOnlyBehindThrower'
  OBVIOUS
<1>1. /\ TypeOK /\ Ordered /\ log \in Log /\ entries = log.entries /\ Notified(log)
      /\ log.nextId = Len(log.entries) + 1 /\ Len(log.entries) \in Nat
      /\ \A l \in listening : since[l] \in Nat /\ since[l] <= Len(log.entries)
      /\ listening \subseteq Listeners /\ since \in [Listeners -> Nat]
  BY NotifiedLog DEF IInv, TypeOK, Log, entries, IdsArePositions
<1>2. ASSUME NEW c \in Calls, NEW outcome \in Outcomes, Ends(c, outcome)
      PROVE  MissedOnlyBehindThrower'
  <2>1. ASSUME NEW x, Once(c, outcome, x)
        PROVE  Notified(log')
    <3> DEFINE e == Entry(c, outcome, log.nextId, clock)
    <3>1. e \in Record /\ x \in Throwers(log) /\ log' = record(log, e, x)
      BY <1>1, <2>1, OnceTypes DEF Once
    <3>2. e.id = Len(log.entries) + 1
      BY <1>1 DEF Entry
    <3> HIDE DEF e
    <3> QED BY <1>1, <3>1, <3>2, RecordNotifies
  <2>2. ASSUME NEW first, NEW x, NEW y, Twice(c, first, x, y)
        PROVE  Notified(log')
    <3> DEFINE e == Entry(c, "ended", log.nextId, clock)
               f == Entry(c, "threw", first.nextId, clock + 1)
    <3>1. /\ e \in Record /\ x \in Throwers(log) /\ first = record(log, e, x)
          /\ f \in Record /\ y \in Throwers(first) /\ log' = record(first, f, y)
          /\ first \in Log /\ first.nextId = log.nextId + 1
      BY <1>1, <2>2, TwiceTypes DEF Twice
    <3>2. e.id = log.nextId /\ f.id = first.nextId
      BY DEF Entry
    <3> HIDE DEF e, f
    <3>3. Notified(first) /\ Len(first.entries) = Len(log.entries) + 1
      BY <1>1, <3>1, <3>2, RecordNotifies, Appended
    <3>4. f.id = Len(first.entries) + 1 /\ \A l \in listening : since[l] <= Len(first.entries)
      BY <1>1, <3>1, <3>2, <3>3
    <3> QED BY <1>1, <3>1, <3>3, <3>4, RecordNotifies
  <2>3. Notified(log')
    BY <1>2, <2>1, <2>2 DEF Ends
  <2>4. UNCHANGED <<listening, since, ahead>>
    BY <1>2 DEF Ends
  <2>5. Notified(log)'
    BY <2>3, <2>4 DEF Notified
  <2> QED BY <2>5, NotifiedLog, PTL
<1>3. ASSUME NEW l \in Listeners, subscribe(l) \/ unsubscribe(l)
      PROVE  MissedOnlyBehindThrower'
  <2>1. /\ log'.entries = log.entries /\ log'.threw = log.threw /\ entries' = entries
        /\ log'.heard[l] = <<>>
        /\ \A k \in Listeners : k # l => log'.heard[k] = log.heard[k]
    <3>1. log' = [log EXCEPT !.heard[l] = <<>>]
      BY <1>3 DEF subscribe, unsubscribe
    <3> QED BY <1>1, <3>1 DEF Log, entries
  <2>2. /\ since'[l] = Len(log.entries) \/ l \notin listening'
        /\ \A k \in Listeners : k # l => since'[k] = since[k]
        /\ listening' \subseteq listening \cup {l} /\ listening \subseteq listening' \cup {l}
    BY <1>1, <1>3 DEF subscribe, unsubscribe
  <2>3. \A j, k \in Listeners : j # l /\ k # l /\ <<j, k>> \in ahead => <<j, k>> \in ahead'
    BY <1>3 DEF subscribe, unsubscribe
  <2>4. ASSUME NEW k \in listening'
        PROVE  /\ k \in Listeners
               /\ \A n \in DOMAIN log'.heard[k] :
                    log'.heard[k][n] \in since'[k] + 1..Len(log'.entries)
               /\ \A m, n \in DOMAIN log'.heard[k] :
                    m < n => log'.heard[k][m] < log'.heard[k][n]
    <3>1. CASE k = l
      BY <2>1, <3>1
    <3>2. CASE k # l
      <4>1. k \in listening /\ k \in Listeners
        BY <1>1, <2>2, <3>2
      <4> QED BY <1>1, <2>1, <2>2, <3>2, <4>1 DEF Notified
    <3> QED BY <3>1, <3>2
  <2>5. ASSUME NEW k \in listening', NEW i \in since'[k] + 1..Len(log'.entries)
        PROVE  \/ HearsIn(log', k, i)
               \/ \E j \in Listeners \ {k} :
                    /\ <<i, j>> \in log'.threw
                    /\ j \in listening' /\ since'[j] < i =>
                         HearsIn(log', j, i) /\ <<j, k>> \in ahead'
    <3>1. k # l /\ k \in listening /\ k \in Listeners /\ i \in since[k] + 1..Len(log.entries)
      BY <1>1, <2>1, <2>2, <2>5
    <3>2. CASE HearsIn(log, k, i)
      BY <2>1, <3>1, <3>2 DEF HearsIn
    <3>3. ASSUME NEW j \in Listeners \ {k}, <<i, j>> \in log.threw,
                 j \in listening /\ since[j] < i => HearsIn(log, j, i) /\ <<j, k>> \in ahead
          PROVE  /\ <<i, j>> \in log'.threw
                 /\ j \in listening' /\ since'[j] < i =>
                      HearsIn(log', j, i) /\ <<j, k>> \in ahead'
      <4>1. CASE j = l
        BY <1>1, <2>1, <2>2, <3>1, <3>3, <4>1
      <4>2. CASE j # l
        <5>1. j \in listening' /\ since'[j] < i => j \in listening /\ since[j] < i
          BY <2>2, <3>3, <4>2
        <5>2. HearsIn(log, j, i) => HearsIn(log', j, i)
          BY <2>1, <3>3, <4>2 DEF HearsIn
        <5> QED BY <2>1, <2>3, <3>1, <3>3, <4>2, <5>1, <5>2
      <4> QED BY <4>1, <4>2
    <3> QED BY <1>1, <3>1, <3>2, <3>3 DEF Notified
  <2>6. Notified(log)'
    BY <2>4, <2>5 DEF Notified, HearsIn
  <2> QED BY <2>6, NotifiedLog, PTL
<1>4. ASSUME NEW c \in Calls, Start(c)
      PROVE  MissedOnlyBehindThrower'
  <2>1. UNCHANGED <<log, listening, ahead, since, entries>>
    BY <1>4 DEF Start, entries
  <2> QED BY <2>1 DEF MissedOnlyBehindThrower, Hears
<1>5. CASE UNCHANGED vars
  <2>1. UNCHANGED <<log, listening, ahead, since, entries>>
    BY <1>5 DEF vars, entries
  <2> QED BY <2>1 DEF MissedOnlyBehindThrower, Hears
<1> QED
  BY <1>2, <1>3, <1>4, <1>5, EndsOf DEF Next

\* A listener hears records made since it subscribed, each once and in order, and misses one
\* only behind a listener that threw at it.
THEOREM MissedBehindThrower == Spec => []MissedOnlyBehindThrower
<1>1. Init => MissedOnlyBehindThrower
  BY DEF Init, MissedOnlyBehindThrower
<1> QED BY <1>1, HeardNext, Invariance, PTL DEF Spec

----------------------------------------------------------------------------
(* The app.                                                                *)

\* The log only gets longer.
LEMMA LogGrows ==
  ASSUME TypeOK, [Next]_vars
  PROVE  Len(entries) \in Nat /\ Len(entries') \in Nat /\ Len(entries) <= Len(entries')
<1>1. Len(entries) \in Nat /\ Len(entries') \in Nat /\ entries = log.entries
  BY TypeNext DEF TypeOK, Log, entries
<1>2. ASSUME NEW c \in Calls, NEW outcome \in Outcomes, Ends(c, outcome)
      PROVE  Len(entries) <= Len(entries')
  <2>1. ASSUME NEW x, Once(c, outcome, x)
        PROVE  Len(entries') = Len(entries) + 1
    BY <2>1, OnceTypes, Appended DEF Once, entries
  <2>2. ASSUME NEW first, NEW x, NEW y, Twice(c, first, x, y)
        PROVE  Len(entries') = Len(entries) + 2
    <3>1. log \in Log
      BY DEF TypeOK
    <3>2. Len(first.entries) = Len(entries) + 1
      BY <2>2, <3>1, TwiceTypes, Appended DEF Twice, entries
    <3>3. Len(entries') = Len(first.entries) + 1
      BY <2>2, TwiceTypes, Appended DEF Twice, entries
    <3> QED BY <1>1, <3>2, <3>3
  <2> QED BY <1>1, <1>2, <2>1, <2>2 DEF Ends
<1>3. CASE UNCHANGED entries
  BY <1>1, <1>3
<1>4. ASSUME NEW l \in Listeners, subscribe(l) \/ unsubscribe(l)
      PROVE  UNCHANGED entries
  BY <1>4 DEF subscribe, unsubscribe, entries, TypeOK, Log
<1>5. Len(entries) <= Len(entries')
  BY <1>1, <1>2, <1>3, <1>4, EndsOf DEF Next, Start, vars, entries
<1> QED BY <1>1, <1>5

LEMMA HistoryTypeInit == HistoryInit => HistoryTypeOK
<1> SUFFICES ASSUME HistoryInit
             PROVE  HistoryTypeOK
  OBVIOUS
<1>1. TypeOK /\ Len(entries) = 0
  BY TypeInit DEF HistoryInit, Init, entries
<1> QED BY <1>1, MaxTickAssumption DEF HistoryInit, HistoryTypeOK, Idle

LEMMA HistoryTypeNext == HistoryTypeOK /\ [HistoryNext]_allVars => HistoryTypeOK'
<1> SUFFICES ASSUME HistoryTypeOK, [HistoryNext]_allVars
             PROVE  HistoryTypeOK'
  OBVIOUS
<1>1. TypeOK /\ [Next]_vars
  BY DEF HistoryTypeOK, HistoryNext, allVars
<1>2. TypeOK' /\ Len(entries) \in Nat /\ Len(entries') \in Nat /\ Len(entries) <= Len(entries')
  BY <1>1, TypeNext, LogGrows
<1>3. CASE UNCHANGED historyVars
  BY <1>2, <1>3 DEF HistoryTypeOK, historyVars
<1>4. CASE HistoryStep /\ UNCHANGED vars
  <2>1. entries' = entries
    BY <1>4 DEF vars, entries
  <2>2. ASSUME NEW p \in Polls, Load(p) \/ Serve(p) \/ Fail(p) \/ Deliver(p)
        PROVE  HistoryTypeOK'
    <3> DEFINE Poll == [state : {"idle", "sent", "served", "failed"},
                        tick : 0..MaxTick, answer : 0..Len(entries)]
    <3>1. /\ poll \in [Polls -> Poll] /\ poll[p] \in Poll /\ tick \in 0..MaxTick
          /\ records \in 0..Len(entries) /\ 0 \in 0..MaxTick /\ 0 \in 0..Len(entries)
      BY <1>2, MaxTickAssumption DEF HistoryTypeOK
    <3>2. poll' \in [Polls -> Poll]
      <4>1. CASE Load(p)
        <5>1. [state |-> "sent", tick |-> tick, answer |-> 0] \in Poll
          BY <3>1
        <5> HIDE DEF Poll
        <5> QED BY <3>1, <4>1, <5>1 DEF Load
      <4>2. CASE Serve(p)
        <5>1. Len(entries) \in 0..Len(entries)
          BY <1>2
        <5>2. [poll[p] EXCEPT !.state = "served", !.answer = Len(entries)] \in Poll
          BY <3>1, <5>1
        <5>3. poll' = [poll EXCEPT ![p] = [poll[p] EXCEPT !.state = "served",
                                                          !.answer = Len(entries)]]
          BY <4>2 DEF Serve
        <5> HIDE DEF Poll
        <5> QED BY <3>1, <5>2, <5>3
      <4>3. CASE Fail(p) \/ Deliver(p)
        <5>1. Idle \in Poll
          BY <3>1 DEF Idle
        <5> HIDE DEF Poll
        <5> QED BY <3>1, <4>3, <5>1 DEF Fail, Deliver
      <4> QED BY <2>2, <4>1, <4>2, <4>3
    <3>3. poll[p].answer \in 0..Len(entries)
      BY <3>1
    <3>4. records' \in 0..Len(entries) /\ UNCHANGED <<open, tick>>
      <4> HIDE DEF Poll
      <4>1. CASE Load(p) \/ Serve(p) \/ Fail(p)
        BY <3>1, <4>1 DEF Load, Serve, Fail
      <4>2. CASE Deliver(p)
        BY <3>1, <3>3, <4>2 DEF Deliver
      <4> QED BY <2>2, <4>1, <4>2
    <3> QED BY <1>2, <2>1, <3>2, <3>4 DEF HistoryTypeOK
  <2>3. CASE Refresh \/ Close \/ Reopen
    <3>1. open' \in BOOLEAN
      BY <2>3 DEF HistoryTypeOK, Refresh, Close, Reopen
    <3>2. tick' \in 0..MaxTick
      BY <2>3, MaxTickAssumption DEF HistoryTypeOK, Refresh, Close, Reopen
    <3>3. poll' = poll /\ records' \in 0..Len(entries)
      BY <1>2, <2>3 DEF HistoryTypeOK, Refresh, Close, Reopen
    <3> QED BY <1>2, <2>1, <3>1, <3>2, <3>3 DEF HistoryTypeOK
  <2> QED BY <1>4, <2>2, <2>3 DEF HistoryStep
<1>5. CASE UNCHANGED allVars
  BY <1>2, <1>5 DEF HistoryTypeOK, historyVars, allVars
<1> QED BY <1>3, <1>4, <1>5 DEF HistoryNext

\* The app and the answers on their way never hold more records than the log: no record is
\* shown that was not made, whichever answers come late and whenever the window is closed.
THEOREM HistoryTypeCorrect == HistorySpec => []HistoryTypeOK
BY HistoryTypeInit, HistoryTypeNext, PTL DEF HistorySpec
=============================================================================
