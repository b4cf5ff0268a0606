----------------------------- MODULE FilesProofs -----------------------------
(***************************************************************************)
(* Theorems about the file manager, for any finite sets of directories and *)
(* of names and any number of listings, operations and requests            *)
(* outstanding.  What it does to names is in NamesProofs.                  *)
(***************************************************************************)
EXTENDS Spelling, NamesProofs

(***************************************************************************)
(* uniqueName.                                                             *)
(***************************************************************************)

LEMMA NumberedNames ==
  ASSUME NEW name \in Name
  PROVE  \A n \in Nat : /\ Append(name, n) \in Name
                        /\ \A m \in Nat : Append(name, n) = Append(name, m) => n = m
<1>1. ASSUME NEW n \in Nat
      PROVE  /\ Append(name, n) \in Name
             /\ Append(name, n)[Len(name) + 1] = n
  BY AppendProperties, n \in Bases \cup Nat DEF Name
<1> QED BY <1>1

\* There are more "(n)" up to Cardinality(existing) + 2 than names in existing.
LEMMA SomeFree ==
  ASSUME NEW name \in Name, NEW existing \in NameSets
  PROVE  \E n \in 2..Cardinality(existing) + 2 : Append(name, n) \notin existing
<1> DEFINE K == Cardinality(existing)
           numbered == [n \in 2..K + 2 |-> Append(name, n)]
<1>1. IsFiniteSet(existing) /\ K \in Nat
  <2>1. IsFiniteSet(existing)
    BY DEF NameSets
  <2> QED BY <2>1, FS_CardinalityType
<1> HIDE DEF K
<1>2. SUFFICES ASSUME \A n \in 2..K + 2 : Append(name, n) \in existing
               PROVE  FALSE
  BY DEF K
<1>3. numbered \in Injection(2..K + 2, existing)
  <2>1. numbered \in [2..K + 2 -> existing]
    BY <1>2
  <2>2. ASSUME NEW n \in 2..K + 2, NEW m \in 2..K + 2, numbered[n] = numbered[m]
        PROVE  n = m
    <3>1. n \in Nat /\ m \in Nat /\ Append(name, n) = Append(name, m)
      BY <1>1, <2>2
    <3> QED BY <3>1, NumberedNames
  <2> HIDE DEF numbered
  <2> QED BY <2>1, <2>2 DEF Injection, IsInjective
<1>4. Cardinality(2..K + 2) <= K
  <2> HIDE DEF numbered
  <2> QED BY <1>1, <1>3, FS_Injection DEF K
<1>5. Cardinality(2..K + 2) = K + 1
  BY <1>1, FS_Interval
<1> QED BY <1>1, <1>4, <1>5

\* A name given by "Keep both" is a name, and none of those there were.
THEOREM FreeName ==
  ASSUME NEW name \in Name, NEW existing \in NameSets
  PROVE  uniqueName(name, existing) \in Name \ existing
<1>1. CASE name \notin existing
  BY <1>1 DEF uniqueName
<1>2. CASE name \in existing
  <2> DEFINE free == {n \in 2..Cardinality(existing) + 2 : Append(name, n) \notin existing}
  <2>1. free \in SUBSET Nat /\ free # {}
    BY SomeFree
  <2>2. uniqueName(name, existing) = Append(name, CHOOSE n \in free : \A m \in free : n <= m)
    BY <1>2 DEF uniqueName
  <2> HIDE DEF free
  <2>3. (CHOOSE n \in free : \A m \in free : n <= m) \in free
    BY <2>1, Least
  <2>4. \A n \in free : n \in Nat /\ Append(name, n) \notin existing
    BY <2>1 DEF free
  <2> QED BY <2>2, <2>3, <2>4, NumberedNames
<1> QED BY <1>1, <1>2

(***************************************************************************)
(* The files.                                                              *)
(***************************************************************************)

\* What find lists of a directory is a finite set of names.
LEMMA NamesInType ==
  ASSUME FilesOK, NEW d
  PROVE  NamesIn(d) \in NameSets
<1> DEFINE there == {q \in DOMAIN fs : q[1] = d}
           named == [p \in there |-> p[2]]
<1>1. IsFiniteSet(there)
  BY FS_Subset DEF FilesOK
<1>2. named \in Surjection(there, NamesIn(d))
  BY DEF NamesIn, Surjection
<1>3. IsFiniteSet(NamesIn(d))
  <2> HIDE DEF there, named
  <2> QED BY <1>1, <1>2, FS_Surjection
<1>4. NamesIn(d) \subseteq Name
  BY DEF NamesIn, FilesOK, Path
<1> QED BY <1>3, <1>4 DEF NameSets

LEMMA AfterType ==
  ASSUME FilesOK, NEW c \in Command, c.cmd \in {"move", "copy"} => Exists(c.from), fs' = After(c)
  PROVE  FilesOK'
<1>1. c.to \in Path
  BY DEF Command
<1>2. CASE c.cmd = "remove"
  <2>1. DOMAIN fs' = DOMAIN fs \ {c.to} /\ \A p \in DOMAIN fs' : fs'[p] = fs[p]
    BY <1>2 DEF After
  <2>2. IsFiniteSet(DOMAIN fs')
    BY <2>1, FS_Subset DEF FilesOK
  <2> QED BY <2>1, <2>2 DEF FilesOK
<1>3. CASE c.cmd # "remove" /\ Skips(c)
  BY <1>3 DEF After, FilesOK
<1>4. CASE c.cmd # "remove" /\ ~Skips(c)
  <2> DEFINE kept == IF c.cmd = "move" THEN DOMAIN fs \ {c.from} ELSE DOMAIN fs
  <2>1. fs' = [p \in kept \cup {c.to} |-> IF p = c.to THEN Brought(c) ELSE fs[p]]
    BY <1>4 DEF After
  <2>2. kept \subseteq DOMAIN fs
    OBVIOUS
  <2> HIDE DEF kept
  <2>3. Brought(c) \in Content
    BY <1>4 DEF Brought, Command, Content, FilesOK, Exists
  <2>4. IsFiniteSet(kept)
    BY <2>2, FS_Subset DEF FilesOK
  <2>5. IsFiniteSet(kept \cup {c.to})
    BY <2>4, FS_AddElement
  <2> QED BY <1>1, <2>1, <2>2, <2>3, <2>5 DEF FilesOK
<1> QED BY <1>2, <1>3, <1>4

LEMMA NameOfBase == \A b \in Bases : <<b>> \in Name
<1> SUFFICES ASSUME NEW b \in Bases
             PROVE  <<b>> \in Name
  OBVIOUS
<1>1. b \in Bases \cup Nat
  OBVIOUS
<1> QED BY <1>1 DEF Name

LEMMA FilesInit == Init => FilesOK
<1> SUFFICES ASSUME Init
             PROVE  FilesOK
  OBVIOUS
<1> DEFINE Given == {<<b>> : b \in Bases}
           spelt == [b \in Bases |-> <<b>>]
<1>1. spelt \in Surjection(Bases, Given)
  BY DEF Surjection
<1>2. Given \subseteq Name
  BY NameOfBase
<1> HIDE DEF Given, spelt
<1>3. IsFiniteSet(Given)
  BY <1>1, FiniteAssumption, FS_Surjection
<1>4. IsFiniteSet(Dirs \X Given)
  BY <1>3, FiniteAssumption, FS_Product
<1>5. fs = [p \in Dirs \X Given |-> p]
  BY DEF Init, Given
<1> QED BY <1>2, <1>4, <1>5 DEF FilesOK, Path, Content

LEMMA PartlyType ==
  ASSUME FilesOK, NEW c \in Command, fs' = Partly(c)
  PROVE  FilesOK'
<1>1. CASE fs' = fs
  BY <1>1 DEF FilesOK
<1>2. CASE fs' = [p \in DOMAIN fs \cup {c.to} |-> IF p = c.to THEN <<"partial">> ELSE fs[p]]
  <2>1. c.to \in Path /\ <<"partial">> \in Content
    BY DEF Command, Content
  <2>2. IsFiniteSet(DOMAIN fs \cup {c.to})
    BY FS_AddElement DEF FilesOK
  <2> QED BY <1>2, <2>1, <2>2 DEF FilesOK
<1> QED BY <1>1, <1>2 DEF Partly

\* A request that is on its way is for a command.
LEMMA RequestType ==
  ASSUME TypeOK, NEW q \in Requests, req[q].state # "idle"
  PROVE  req[q] \in Request /\ req[q].op \in Ops /\ req[q].cmd \in Command
<1>1. req[q] \in Request
  BY DEF TypeOK, WorkOK, NoRequest
<1> QED BY <1>1 DEF Request

LEMMA FilesNext == TypeOK /\ [Next]_vars => FilesOK'
<1> SUFFICES ASSUME TypeOK, [Next]_vars
             PROVE  FilesOK'
  OBVIOUS
<1>1. CASE UNCHANGED fs
  BY <1>1 DEF TypeOK, FilesOK
<1>2. ASSUME NEW q \in Requests, Run(q) \/ RunUnheard(q)
      PROVE  FilesOK'
  <2> DEFINE c == req[q].cmd
  <2>1. c \in Command
    BY <1>2, RequestType DEF Run, RunUnheard
  <2>2. fs' = fs \/ fs' = Partly(c) \/ (CanRun(c) /\ fs' = After(c))
    BY <1>2 DEF Run, RunUnheard
  <2> HIDE DEF c
  <2>3. CASE CanRun(c) /\ fs' = After(c)
    BY <2>1, <2>3, AfterType DEF CanRun, TypeOK
  <2>4. CASE fs' = Partly(c)
    BY <2>1, <2>4, PartlyType DEF TypeOK
  <2> QED BY <1>1, <2>2, <2>3, <2>4
<1>3. CASE UserStep
  BY <1>1, <1>3 DEF UserStep, Navigate, Refresh, Reopen, Clip, Paste, OpenDialog, SubmitDialog,
                    PickUpload, ConfirmDelete, CancelDialog, KeepBoth, Replace, CancelConflict,
                    Retry, CancelElevation
<1>4. CASE AnswerStep
  BY <1>1, <1>2, <1>4 DEF AnswerStep, ServeListing, ShowListing, Answer, AnswerRetry, Lose,
                          UploadRead, UploadUnreadable
<1> QED BY <1>1, <1>3, <1>4 DEF Next, vars

(***************************************************************************)
(* The window.                                                             *)
(***************************************************************************)

LEMMA LoadType ==
  ASSUME ScreenOK, NEW d \in Dirs, Ask(d), path' \in Dirs, entries' \in {entries, {}},
         window' \in Windows
  PROVE  ScreenOK'
<1>1. {} \in NameSets
  BY FS_EmptySet DEF NameSets
<1>2. [state |-> "sent", dir |-> d, names |-> {}] \in Listing
  BY <1>1 DEF Listing
<1> QED BY <1>1, <1>2 DEF Ask, ScreenOK

LEMMA ScreenInit == Init => ScreenOK
<1> SUFFICES ASSUME Init
             PROVE  ScreenOK
  OBVIOUS
<1>1. {} \in NameSets
  BY FS_EmptySet DEF NameSets
<1>2. path \in Dirs /\ window \in Windows
  BY HomeAssumption, MaxWindowAssumption DEF Init, Windows
<1>3. Idle \in Listing /\ [state |-> "sent", dir |-> path, names |-> {}] \in Listing
  BY <1>1, <1>2 DEF Listing, Idle
<1> QED BY <1>1, <1>2, <1>3 DEF Init, ScreenOK

\* An answer told to the window reloads it, and otherwise leaves it as it is.
LEMMA AnswerLoads ==
  ASSUME NEW q \in Requests, Answer(q) \/ AnswerRetry(q)
  PROVE  \/ Load(path)
         \/ UNCHANGED screen /\ unseen' = Forget(q)
BY DEF Answer, AnswerRetry, Succeed, Dismiss

LEMMA ScreenNext == TypeOK /\ [Next]_vars => ScreenOK'
<1> SUFFICES ASSUME TypeOK, [Next]_vars
             PROVE  ScreenOK'
  OBVIOUS
<1>1. CASE UNCHANGED screen
  BY <1>1 DEF TypeOK, ScreenOK, screen
<1>2. ASSUME NEW d \in Dirs, Load(d)
      PROVE  ScreenOK'
  BY <1>2, LoadType DEF Load, TypeOK, ScreenOK
<1>3. CASE Reopen
  <2>1. window' \in Windows
    BY <1>3, MaxWindowAssumption DEF Reopen, Windows, TypeOK, ScreenOK
  <2> QED BY <1>3, <2>1, HomeAssumption, LoadType DEF Reopen, TypeOK
<1>4. ASSUME NEW l \in Lists, ServeListing(l)
      PROVE  ScreenOK'
  <2>1. NamesIn(list[l].dir) \in NameSets /\ list[l] \in Listing
    BY NamesInType DEF TypeOK, ScreenOK
  <2>2. [list[l] EXCEPT !.state = "served", !.names = NamesIn(list[l].dir)] \in Listing
    BY <2>1 DEF Listing
  <2>3. list' = [list EXCEPT ![l] = [list[l] EXCEPT !.state = "served",
                                                    !.names = NamesIn(list[l].dir)]]
    BY <1>4 DEF ServeListing
  <2> QED BY <1>4, <2>2, <2>3 DEF ServeListing, TypeOK, ScreenOK
<1>5. ASSUME NEW l \in Lists, ShowListing(l)
      PROVE  ScreenOK'
  <2>1. {} \in NameSets
    BY FS_EmptySet DEF NameSets
  <2>2. Idle \in Listing
    BY <2>1 DEF Listing, Idle
  <2>3. list[l].names \in NameSets
    BY DEF TypeOK, ScreenOK, Listing
  <2> QED BY <1>5, <2>2, <2>3 DEF ShowListing, TypeOK, ScreenOK
<1>6. ASSUME NEW q \in Requests, Answer(q) \/ AnswerRetry(q)
      PROVE  ScreenOK'
  <2>1. path \in Dirs
    BY DEF TypeOK, ScreenOK
  <2> QED BY <1>1, <1>2, <1>6, <2>1, AnswerLoads
<1>7. CASE Refresh \/ \E d \in Dirs : Navigate(d)
  BY <1>2, <1>7 DEF Refresh, Navigate, TypeOK, ScreenOK
<1>8. CASE UserStep
  BY <1>1, <1>3, <1>7, <1>8 DEF UserStep, Clip, Paste, OpenDialog, SubmitDialog, PickUpload,
             ConfirmDelete, CancelDialog, KeepBoth, Replace, CancelConflict, Retry, CancelElevation
<1>9. CASE AnswerStep
  BY <1>1, <1>4, <1>5, <1>6, <1>9 DEF AnswerStep, Run, RunUnheard, Lose, UploadRead,
                                     UploadUnreadable
<1> QED BY <1>1, <1>8, <1>9 DEF Next, vars

(***************************************************************************)
(* The choices of the user and the operations they become.                 *)
(***************************************************************************)

\* The commands of an intent are commands, the first removes nothing but what was agreed to,
\* and no later one removes.
LEMMA CommandsType ==
  ASSUME NEW i \in Intent, NEW name \in Name
  PROVE  /\ Commands(i, name) \in Seq(Command)
         /\ Len(Commands(i, name)) = 1 /\ Len(Commands(i, name)) <= 2
         /\ Len(Commands(i, name)) # 2 /\ Commands(i, name) # <<>>
         /\ Head(Commands(i, name)) = Commands(i, name)[1] /\ Commands(i, name)[1].cmd = i.cmd
<1>1. [cmd |-> i.cmd, from |-> i.from, to |-> <<i.dir, name>>] \in Command
  BY DEF Intent, Command, Path
<1> QED BY <1>1 DEF Commands

LEMMA ReplaceType ==
  ASSUME NEW i \in Intent
  PROVE  LET todo == ReplaceCommands(i)
         IN  /\ todo \in Seq(Command) /\ todo # <<>> /\ Len(todo) <= 2
             /\ Head(todo).cmd = "remove" => Head(todo).to = <<i.dir, i.name>>
             /\ Len(todo) = 2 => todo[2].cmd # "remove"
<1> DEFINE removal == [cmd |-> "remove", from |-> None, to |-> <<i.dir, i.name>>]
           rest == Commands(i, i.name)
<1>1. removal \in Command /\ i.name \in Name /\ i.cmd # "remove"
  BY DEF Intent, Command, Path
<1>2. /\ rest \in Seq(Command) /\ rest # <<>>
      /\ Len(rest) = 1 /\ Len(rest) <= 2 /\ Len(rest) # 2
      /\ Head(rest) = rest[1] /\ rest[1].cmd # "remove"
  BY <1>1, CommandsType
<1>3. CASE i.cmd = "write"
  <2>1. ReplaceCommands(i) = rest
    BY <1>3 DEF ReplaceCommands
  <2> HIDE DEF removal, rest
  <2>2. Head(rest).cmd # "remove"
    BY <1>2
  <2> QED BY <1>2, <2>1, <2>2
<1>4. CASE i.cmd # "write"
  <2>1. ReplaceCommands(i) = <<removal>> \o rest
    BY <1>4 DEF ReplaceCommands
  <2>2. removal.to = <<i.dir, i.name>>
    OBVIOUS
  <2> HIDE DEF removal, rest
  <2>3. /\ <<removal>> \o rest \in Seq(Command) /\ Len(<<removal>> \o rest) = 2
        /\ (<<removal>> \o rest)[1] = removal /\ (<<removal>> \o rest)[2] = rest[1]
        /\ Head(<<removal>> \o rest) = removal
    <3>1. <<removal>> \in Seq(Command) /\ Len(<<removal>>) = 1 /\ <<removal>>[1] = removal
      BY <1>1
    <3> DEFINE one == <<removal>>
    <3>2. one \in Seq(Command) /\ Len(one) = 1 /\ one[1] = removal
      BY <3>1
    <3> HIDE DEF one
    <3>3. /\ one \o rest \in Seq(Command) /\ Len(one \o rest) = 2
          /\ (one \o rest)[1] = removal /\ (one \o rest)[2] = rest[1]
      BY <1>2, <3>2, ConcatProperties
    <3>4. Head(one \o rest) = removal
      BY <3>3
    <3> QED BY <3>3, <3>4 DEF one
  <2> QED BY <1>2, <2>1, <2>2, <2>3
<1> QED BY <1>3, <1>4

\* What is known of one operation, of one request by the operations ops, and of them all.
Orderly(p) ==
  /\ p \in Operation
  /\ Len(p.todo) <= 2
  /\ p.state \in {"waiting", "asking"} <=> p.todo # <<>>
  /\ p.todo # <<>> /\ Head(p.todo).cmd = "remove" => Head(p.todo).to = p.agreed
  /\ Len(p.todo) = 2 => p.todo[2].cmd # "remove"

Owed(r, ops) ==
  r.state # "idle" =>
    /\ ops[r.op].state # "idle"
    /\ r.cmd.cmd = "remove" => r.cmd.to = ops[r.op].agreed

OpsAre(ops) == ops \in [Ops -> Operation] /\ \A o \in Ops : Orderly(ops[o])

ReqsAre(reqs, ops) ==
  reqs \in [Requests -> Request \cup {NoRequest}] /\ \A q \in Requests : Owed(reqs[q], ops)

\* Operations that have begun stay so, with what was agreed to.
Keeps(ops, others) ==
  \A o \in Ops : ops[o].state # "idle" => others[o].state # "idle" /\ others[o].agreed = ops[o].agreed

Working == OpsAre(op) /\ ReqsAre(req, op)

LEMMA WorkingIs == WorkOK /\ RemovalsAgreed <=> Working /\ unseen \subseteq Requests \cup {None}
BY DEF WorkOK, RemovalsAgreed, Working, OpsAre, ReqsAre, Orderly, Owed

LEMMA WorkingNext ==
  ASSUME Working', unseen' \subseteq Requests \cup {None}
  PROVE  WorkOK' /\ RemovalsAgreed'
BY DEF WorkOK, RemovalsAgreed, Working, OpsAre, ReqsAre, Orderly, Owed

\* One operation changes.
LEMMA OpChanges ==
  ASSUME NEW ops, OpsAre(ops), NEW o \in Ops, NEW new, Orderly(new),
         ops[o].state # "idle" => new.state # "idle" /\ new.agreed = ops[o].agreed
  PROVE  OpsAre([ops EXCEPT ![o] = new]) /\ Keeps(ops, [ops EXCEPT ![o] = new])
<1>1. ops \in [Ops -> Operation] /\ new \in Operation
  BY DEF OpsAre, Orderly
<1>2. ASSUME NEW k \in Ops
      PROVE  [ops EXCEPT ![o] = new][k] = IF k = o THEN new ELSE ops[k]
  BY <1>1
<1>3. [ops EXCEPT ![o] = new] \in [Ops -> Operation]
  BY <1>1
<1>4. \A k \in Ops : Orderly([ops EXCEPT ![o] = new][k])
  BY <1>2 DEF OpsAre
<1>5. Keeps(ops, [ops EXCEPT ![o] = new])
  BY <1>2 DEF Keeps
<1> QED BY <1>3, <1>4, <1>5 DEF OpsAre

\* The requests are still owed after that, and after one of them changes.
LEMMA StillOwed ==
  ASSUME NEW ops, NEW others, Keeps(ops, others), NEW reqs, ReqsAre(reqs, ops)
  PROVE  ReqsAre(reqs, others)
<1>1. ASSUME NEW q \in Requests
      PROVE  Owed(reqs[q], others)
  <2>1. reqs[q].state # "idle" => reqs[q].op \in Ops
    BY DEF ReqsAre, Request, NoRequest
  <2> QED BY <2>1 DEF ReqsAre, Owed, Keeps
<1> QED BY <1>1 DEF ReqsAre

LEMMA ReqChanges ==
  ASSUME NEW ops, NEW reqs, ReqsAre(reqs, ops), NEW q \in Requests,
         NEW new \in Request \cup {NoRequest}, Owed(new, ops)
  PROVE  ReqsAre([reqs EXCEPT ![q] = new], ops)
<1>1. reqs \in [Requests -> Request \cup {NoRequest}]
  BY DEF ReqsAre
<1>2. \A k \in Requests : [reqs EXCEPT ![q] = new][k] = IF k = q THEN new ELSE reqs[k]
  BY <1>1
<1>3. [reqs EXCEPT ![q] = new] \in [Requests -> Request \cup {NoRequest}]
  BY <1>1
<1> QED BY <1>2, <1>3 DEF ReqsAre

LEMMA NothingOwed == \A ops : Owed(NoRequest, ops)
BY DEF Owed, NoRequest

\* An operation that is not begun, or is over.
LEMMA WithoutCommands ==
  ASSUME NEW p \in Operation, NEW s \in {"idle", "done", "hung"}
  PROVE  LET new == [p EXCEPT !.state = s, !.todo = <<>>]
         IN  Orderly(new) /\ new.state = s /\ new.agreed = p.agreed
<1> DEFINE new == [p EXCEPT !.state = s, !.todo = <<>>]
<1>1. <<>> \in Seq(Command) /\ Len(<<>>) = 0
  OBVIOUS
<1>2. new \in Operation /\ new.state = s /\ new.agreed = p.agreed /\ new.todo = <<>>
  BY <1>1 DEF Operation
<1> HIDE DEF new
<1>3. Len(new.todo) <= 2 /\ Len(new.todo) # 2
  BY <1>1, <1>2
<1>4. new.state \notin {"waiting", "asking"}
  BY <1>2
<1>5. Orderly(new)
  BY <1>2, <1>3, <1>4 DEF Orderly
<1> QED BY <1>2, <1>5 DEF new

\* A request that is sent for the command an operation is at.
LEMMA SentIsOwed ==
  ASSUME NEW ops, OpsAre(ops), NEW o \in Ops, ops[o].todo # <<>>, NEW heard \in {"operation", "dialog"}
  PROVE  LET new == Sent(o, Head(ops[o].todo), heard)
         IN  new \in Request /\ Owed(new, ops)
<1> DEFINE c == Head(ops[o].todo)
           new == Sent(o, c, heard)
<1>1. Orderly(ops[o])
  BY DEF OpsAre
<1>2. ops[o].todo \in Seq(Command)
  BY <1>1 DEF Orderly, Operation
<1>3. c \in Command /\ (c.cmd = "remove" => c.to = ops[o].agreed) /\ ops[o].state # "idle"
  BY <1>1, <1>2 DEF Orderly
<1> HIDE DEF c
<1>4. new \in Request /\ Owed(new, ops)
  BY <1>3 DEF Sent, Request, Owed
<1> QED BY <1>4 DEF c

LEMMA IssueType ==
  ASSUME Working,
         NEW todo \in Seq(Command), NEW agreed \in Path \cup {None}, NEW w \in Windows,
         Issue(todo, agreed, w),
         todo # <<>>, Len(todo) <= 2,
         Head(todo).cmd = "remove" => Head(todo).to = agreed,
         Len(todo) = 2 => todo[2].cmd # "remove"
  PROVE  Working'
<1> DEFINE new == [state |-> "waiting", window |-> w, todo |-> todo, agreed |-> agreed]
<1>1. PICK o \in Ops, q \in Requests :
        /\ op[o].state = "idle"
        /\ op' = [op EXCEPT ![o] = new] /\ req' = [req EXCEPT ![q] = Sent(o, Head(todo), "operation")]
  BY DEF Issue
<1>2. Orderly(new) /\ new.todo = todo
  <2>1. new \in Operation /\ new.state = "waiting" /\ new.todo = todo /\ new.agreed = agreed
    BY DEF Operation
  <2> HIDE DEF new
  <2> QED BY <2>1 DEF Orderly
<1> HIDE DEF new
<1>3. OpsAre(op') /\ Keeps(op, op')
  BY <1>1, <1>2, OpChanges DEF Working
<1>4. op'[o].todo = todo
  BY <1>1, <1>2 DEF Working, OpsAre
<1>5. Sent(o, Head(todo), "operation") \in Request /\ Owed(Sent(o, Head(todo), "operation"), op')
  BY <1>3, <1>4, SentIsOwed
<1>6. ReqsAre(req, op')
  BY <1>3, StillOwed DEF Working
<1>7. ReqsAre(req', op')
  BY <1>1, <1>5, <1>6, ReqChanges
<1> QED BY <1>3, <1>7 DEF Working

LEMMA WithConflictType ==
  ASSUME Working, NEW i \in Intent, NEW names \in NameSets, NEW w \in Windows,
         conflict \in Question \cup {None},
         conflict # None => conflict.intent.name \in conflict.existing,
         withConflict(i, names, w)
  PROVE  /\ Working'
         /\ conflict' \in Question \cup {None}
         /\ conflict' # None => conflict'.intent.name \in conflict'.existing
<1>1. CASE i.name \notin names
  <2>1. i.name \in Name /\ i.cmd # "remove"
    BY DEF Intent
  <2> DEFINE todo == Commands(i, i.name)
  <2>2. /\ todo \in Seq(Command) /\ todo # <<>> /\ Len(todo) <= 2 /\ Len(todo) # 2
        /\ Head(todo).cmd # "remove"
    BY <2>1, CommandsType
  <2>3. Issue(todo, None, w) /\ conflict' = conflict
    BY <1>1 DEF withConflict
  <2> HIDE DEF todo
  <2>4. Working'
    BY <2>2, <2>3, IssueType
  <2> QED BY <2>3, <2>4
<1>2. CASE i.name \in names
  <2> DEFINE new == [intent |-> i, existing |-> names, window |-> w]
  <2>1. conflict' \in {new, conflict} /\ op' = op /\ req' = req
    BY <1>2 DEF withConflict, work
  <2>2. new \in Question /\ new.intent.name \in new.existing
    BY <1>2 DEF Question
  <2> HIDE DEF new
  <2> QED BY <2>1, <2>2 DEF Working
<1> QED BY <1>1, <1>2

LEMMA ChoicesInit == Init => ChoicesOK
BY DEF Init, ChoicesOK

LEMMA WorkingInit == Init => Working
<1> SUFFICES ASSUME Init
             PROVE  Working
  OBVIOUS
<1>1. Unused \in Operation /\ Unused.state = "idle" /\ Unused.todo = <<>>
  <2>1. <<>> \in Seq(Command) /\ 1 \in Windows
    BY MaxWindowAssumption DEF Windows
  <2> QED BY <2>1 DEF Unused, Operation
<1>2. Orderly(Unused)
  <2>1. Len(<<>>) = 0
    OBVIOUS
  <2> QED BY <1>1, <2>1 DEF Orderly
<1> QED BY <1>1, <1>2, NothingOwed DEF Init, Working, OpsAre, ReqsAre

LEMMA EndedType ==
  ASSUME OpsAre(op), NEW o \in Ops, NEW state \in {"done", "hung"}
  PROVE  OpsAre(Ended(o, state)) /\ Keeps(op, Ended(o, state))
<1> DEFINE new == [op[o] EXCEPT !.state = state, !.todo = <<>>]
<1>1. op[o] \in Operation
  BY DEF OpsAre
<1>2. Orderly(new) /\ new.state = state /\ new.agreed = op[o].agreed
  BY <1>1, WithoutCommands
<1>3. Ended(o, state) = [op EXCEPT ![o] = new]
  BY DEF Ended
<1>4. new.state # "idle"
  BY <1>2
<1> HIDE DEF new
<1>5. OpsAre([op EXCEPT ![o] = new]) /\ Keeps(op, [op EXCEPT ![o] = new])
  BY <1>2, <1>4, OpChanges
<1> QED BY <1>3, <1>5

LEMMA UserChoicesNext ==
  TypeOK /\ Working /\ UserStep => ChoicesOK' /\ Working'
<1> SUFFICES ASSUME TypeOK, Working, UserStep
             PROVE  ChoicesOK' /\ Working'
  OBVIOUS
<1>1. window \in Windows /\ path \in Dirs /\ entries \in NameSets /\ (\A name \in entries : name \in Name) /\ <<>> \in Name
  BY DEF TypeOK, ScreenOK, NameSets, Name
<1>2. None \notin Clipping /\ None \notin Dialog /\ None \notin Question
  BY NoneOfTheseAssumption
<1>3. (UNCHANGED <<op, req>>) => Working'
  BY DEF Working
<1>4. CASE Refresh \/ Reopen \/ \E d \in Dirs : Navigate(d)
  BY <1>3, <1>4 DEF Refresh, Reopen, Navigate, choices, TypeOK, ChoicesOK
<1>5. ASSUME NEW name \in entries, NEW cmd \in {"move", "copy"}, Clip(name, cmd)
      PROVE  ChoicesOK' /\ Working'
  <2>1. [from |-> <<path, name>>, cmd |-> cmd] \in Clipping
    BY <1>1 DEF Clipping, Path
  <2> QED BY <1>3, <1>5, <2>1 DEF Clip, work, TypeOK, ChoicesOK
<1>6. CASE Paste
  <2> DEFINE i == [cmd |-> clipboard.cmd, from |-> clipboard.from, dir |-> path,
                   name |-> clipboard.from[2]]
  <2>1. clipboard \in Clipping
    BY <1>6 DEF Paste, TypeOK, ChoicesOK
  <2>2. i \in Intent
    BY <1>1, <2>1 DEF Clipping, Intent, Path
  <2>3. withConflict(i, entries, window)
    BY <1>6 DEF Paste
  <2> HIDE DEF i
  <2>4. /\ Working'
        /\ conflict' \in Question \cup {None}
        /\ conflict' # None => conflict'.intent.name \in conflict'.existing
    BY <1>1, <2>2, <2>3, WithConflictType DEF TypeOK, ChoicesOK
  <2> QED BY <1>6, <2>1, <2>4 DEF Paste, TypeOK, ChoicesOK
<1>7. ASSUME NEW name \in Name, NEW kind \in {"newFile", "rename", "delete"}, OpenDialog(kind, name)
      PROVE  ChoicesOK' /\ Working'
  <2>1. [kind |-> kind, target |-> name] \in Dialog
    BY DEF Dialog
  <2> QED BY <1>3, <1>7, <2>1 DEF OpenDialog, work, TypeOK, ChoicesOK
<1>8. ASSUME NEW b \in Bases, SubmitDialog(<<b>>)
      PROVE  ChoicesOK' /\ Working'
  <2> DEFINE renames == dialog.kind = "rename"
             i == [cmd |-> IF renames THEN "move" ELSE "create",
                   from |-> IF renames THEN <<path, dialog.target>> ELSE None,
                   dir |-> path, name |-> <<b>>]
  <2>1. dialog \in Dialog /\ <<b>> \in Name
    BY <1>8, NameOfBase DEF SubmitDialog, InFront, TypeOK, ChoicesOK
  <2>2. <<path, dialog.target>> \in Path
    BY <1>1, <2>1 DEF Dialog, Path
  <2>3. i \in Intent
    BY <1>1, <2>1, <2>2 DEF Intent
  <2>4. dialog' = None /\ UNCHANGED <<plan, clipboard, upload>>
    BY <1>8 DEF SubmitDialog
  <2>5. CASE UNCHANGED <<work, conflict>>
    BY <1>3, <2>4, <2>5 DEF work, TypeOK, ChoicesOK
  <2>6. CASE withConflict(i, entries, window)
    <3> HIDE DEF i
    <3>1. /\ Working'
          /\ conflict' \in Question \cup {None}
          /\ conflict' # None => conflict'.intent.name \in conflict'.existing
      BY <1>1, <2>3, <2>6, WithConflictType DEF TypeOK, ChoicesOK
    <3> QED BY <2>4, <3>1 DEF TypeOK, ChoicesOK
  <2> QED BY <1>8, <2>5, <2>6 DEF SubmitDialog
<1>9. ASSUME NEW b \in Bases, PickUpload(<<b>>)
      PROVE  ChoicesOK' /\ Working'
  <2>1. [cmd |-> "write", from |-> None, dir |-> path, name |-> <<b>>] \in Intent
    BY <1>1, NameOfBase DEF Intent
  <2>2. upload' \in Question
    BY <1>1, <1>9, <2>1 DEF PickUpload, Question
  <2> QED BY <1>3, <1>9, <2>2 DEF PickUpload, work, TypeOK, ChoicesOK
<1>10. CASE ConfirmDelete
  <2> DEFINE target == <<path, dialog.target>>
             removal == [cmd |-> "remove", from |-> None, to |-> target]
             todo == <<removal>>
  <2>1. dialog \in Dialog
    BY <1>10 DEF ConfirmDelete, InFront, TypeOK, ChoicesOK
  <2>2. target \in Path
    BY <1>1, <2>1 DEF Dialog, Path
  <2>3. removal \in Command /\ removal.to = target
    BY <2>2 DEF Command
  <2>4. Issue(todo, target, window)
    BY <1>10 DEF ConfirmDelete
  <2> HIDE DEF target, removal
  <2>5. /\ todo \in Seq(Command) /\ todo # <<>> /\ Len(todo) <= 2 /\ Len(todo) # 2
        /\ Head(todo).to = target
    BY <2>3
  <2> HIDE DEF todo
  <2>6. Working'
    BY <2>2, <2>4, <2>5, <1>1, IssueType
  <2> QED BY <1>10, <2>6 DEF ConfirmDelete, TypeOK, ChoicesOK
<1>11. CASE CancelDialog
  BY <1>3, <1>11 DEF CancelDialog, work, TypeOK, ChoicesOK
<1>12. CASE KeepBoth
  <2> DEFINE name == uniqueName(conflict.intent.name, conflict.existing)
             todo == Commands(conflict.intent, name)
  <2>1. conflict \in Question
    BY <1>12 DEF KeepBoth, TypeOK, ChoicesOK
  <2>2. conflict.intent \in Intent /\ conflict.intent.name \in Name /\ conflict.existing \in NameSets
    BY <2>1 DEF Question, Intent
  <2>3. name \in Name /\ conflict.intent.cmd # "remove"
    BY <2>2, FreeName DEF Intent
  <2>4. Issue(todo, None, window)
    BY <1>12 DEF KeepBoth
  <2> HIDE DEF name
  <2>5. /\ todo \in Seq(Command) /\ todo # <<>> /\ Len(todo) <= 2 /\ Len(todo) # 2
        /\ Head(todo).cmd # "remove"
    BY <2>2, <2>3, CommandsType
  <2> HIDE DEF todo
  <2>6. Working'
    BY <2>4, <2>5, <1>1, IssueType
  <2> QED BY <1>12, <2>6 DEF KeepBoth, TypeOK, ChoicesOK
<1>13. CASE Replace
  <2> DEFINE todo == ReplaceCommands(conflict.intent)
             agreed == <<conflict.intent.dir, conflict.intent.name>>
  <2>1. conflict \in Question
    BY <1>13 DEF Replace, TypeOK, ChoicesOK
  <2>2. conflict.intent \in Intent
    BY <2>1 DEF Question
  <2>3. agreed \in Path
    BY <2>2 DEF Intent, Path
  <2>4. Issue(todo, agreed, window)
    BY <1>13 DEF Replace
  <2>5. /\ todo \in Seq(Command) /\ todo # <<>> /\ Len(todo) <= 2
        /\ Head(todo).cmd = "remove" => Head(todo).to = agreed
        /\ Len(todo) = 2 => todo[2].cmd # "remove"
    BY <2>2, ReplaceType
  <2> HIDE DEF todo, agreed
  <2>6. Working'
    BY <2>3, <2>4, <2>5, <1>1, IssueType
  <2> QED BY <1>13, <2>6 DEF Replace, TypeOK, ChoicesOK
<1>14. CASE CancelConflict
  BY <1>3, <1>14 DEF CancelConflict, work, TypeOK, ChoicesOK
<1>15. ASSUME NEW o \in Ops, Retry(o)
       PROVE  ChoicesOK' /\ Working'
  <2>1. PICK q \in Requests : req' = [req EXCEPT ![q] = Sent(o, Head(op[o].todo), "dialog")]
    BY <1>15 DEF Retry
  <2>2. op[o].todo # <<>>
    BY <1>15 DEF Retry, Asking, Working, OpsAre, Orderly
  <2>3. ReqsAre(req', op)
    BY <2>1, <2>2, SentIsOwed, ReqChanges DEF Working
  <2> QED BY <1>15, <2>3 DEF Retry, Working, choices, TypeOK, ChoicesOK
<1>16. ASSUME NEW o \in Ops, CancelElevation(o)
       PROVE  ChoicesOK' /\ Working'
  <2>1. op' = Ended(o, "done") /\ req' = req
    BY <1>16 DEF CancelElevation
  <2>2. OpsAre(op') /\ Keeps(op, op')
    BY <2>1, EndedType DEF Working
  <2> QED BY <1>16, <2>1, <2>2, StillOwed DEF CancelElevation, Working, choices, TypeOK, ChoicesOK
<1> QED BY <1>1, <1>4, <1>5, <1>6, <1>7, <1>8, <1>9, <1>10, <1>11, <1>12, <1>13, <1>14, <1>15, <1>16
     DEF UserStep

\* An operation whose command succeeded goes on with the next, or is over.
LEMMA GoOnType ==
  ASSUME Working, NEW o \in Ops, NEW q \in Requests, op[o].todo # <<>>, GoOn(o, q)
  PROVE  Working'
<1> DEFINE rest == Tail(op[o].todo)
           new == [op[o] EXCEPT !.state = "waiting", !.todo = rest]
<1>1. Orderly(op[o]) /\ op[o] \in Operation /\ op[o].todo \in Seq(Command)
  BY DEF Working, OpsAre, Operation
<1>2. CASE rest = <<>>
  <2>1. op' = Ended(o, "done") /\ req' = [req EXCEPT ![q] = NoRequest]
    BY <1>2 DEF GoOn
  <2>2. OpsAre(op') /\ Keeps(op, op')
    BY <2>1, EndedType DEF Working
  <2>3. ReqsAre(req, op')
    BY <2>2, StillOwed DEF Working
  <2> QED BY <2>1, <2>2, <2>3, NothingOwed, ReqChanges DEF Working
<1>3. CASE rest # <<>>
  <2>1. op' = [op EXCEPT ![o] = new] /\ req' = [req EXCEPT ![q] = Sent(o, Head(rest), "operation")]
    BY <1>3 DEF GoOn
  <2>2. /\ rest \in Seq(Command) /\ Len(rest) = Len(op[o].todo) - 1
        /\ \A j \in 1..Len(rest) : rest[j] = op[o].todo[j + 1]
    BY <1>1, HeadTailProperties
  <2> HIDE DEF rest
  <2>3. Len(rest) = 1 /\ Len(rest) <= 2 /\ Len(rest) # 2 /\ Len(op[o].todo) = 2
    <3> DEFINE m == Len(op[o].todo)
               n == Len(rest)
    <3>1. m <= 2 /\ m \in Nat
      BY <1>1, LenProperties DEF Orderly
    <3>2. n = m - 1 /\ n \in Nat \ {0}
      BY <1>3, <2>2, EmptySeq
    <3> HIDE DEF m, n
    <3>3. n = 1 /\ m = 2
      BY <3>1, <3>2
    <3> QED BY <3>3 DEF m, n
  <2>4. rest[1] = op[o].todo[2] /\ Head(rest) = rest[1]
    BY <2>2, <2>3
  <2>5. Head(rest).cmd # "remove"
    BY <1>1, <2>3, <2>4 DEF Orderly
  <2>6. /\ new \in Operation /\ new.todo = rest /\ new.state = "waiting"
        /\ new.agreed = op[o].agreed
    <3>1. new \in Operation
      BY <1>1, <2>2 DEF Operation
    <3> QED BY <1>1, <3>1 DEF Operation
  <2> HIDE DEF new
  <2>7. Orderly(new)
    BY <1>3, <2>3, <2>5, <2>6 DEF Orderly
  <2>8. OpsAre(op') /\ Keeps(op, op')
    BY <2>1, <2>6, <2>7, OpChanges DEF Working
  <2>9. op'[o].todo = rest
    BY <2>1, <2>6 DEF Working, OpsAre
  <2>10. Sent(o, Head(rest), "operation") \in Request /\ Owed(Sent(o, Head(rest), "operation"), op')
    BY <1>3, <2>8, <2>9, SentIsOwed
  <2>11. ReqsAre(req, op')
    BY <2>8, StillOwed DEF Working
  <2> QED BY <2>1, <2>8, <2>10, <2>11, ReqChanges DEF Working
<1> QED BY <1>2, <1>3

LEMMA AnswerChoicesNext ==
  TypeOK /\ Working /\ AnswerStep => ChoicesOK' /\ Working'
<1> SUFFICES ASSUME TypeOK, Working, AnswerStep
             PROVE  ChoicesOK' /\ Working'
  OBVIOUS
<1>1. None \notin Question
  BY NoneOfTheseAssumption
<1>2. (UNCHANGED <<op, req>>) => Working'
  BY DEF Working
<1>3. (UNCHANGED choices) => ChoicesOK'
  BY DEF TypeOK, ChoicesOK, choices
<1>4. ASSUME NEW l \in Lists, ServeListing(l) \/ ShowListing(l)
      PROVE  ChoicesOK' /\ Working'
  BY <1>2, <1>3, <1>4 DEF ServeListing, ShowListing, work
<1>5. /\ \A o \in Ops : op[o] \in Operation /\ Orderly(op[o])
      /\ \A q \in Requests : Owed(req[q], op)
  BY DEF Working, OpsAre, ReqsAre
\* A request is done with, and operations go on.
<1>6. ASSUME NEW q \in Requests, req' = [req EXCEPT ![q] = NoRequest], OpsAre(op'), Keeps(op, op')
      PROVE  Working'
  <2>1. ReqsAre(req, op')
    BY <1>6, StillOwed DEF Working
  <2> QED BY <1>6, <2>1, NothingOwed, ReqChanges DEF Working
<1>7. OpsAre(op) /\ Keeps(op, op)
  BY DEF Working, Keeps
<1>8. ASSUME NEW q \in Requests, Run(q)
      PROVE  ChoicesOK' /\ Working'
  <2>1. PICK answer \in {"ok", "failed", "denied"} :
          req' = [req EXCEPT ![q] = [req[q] EXCEPT !.state = "ran", !.answer = answer]]
    BY <1>8 DEF Run
  <2> DEFINE new == [req[q] EXCEPT !.state = "ran", !.answer = answer]
  <2>2. req[q] \in Request /\ req[q].state # "idle"
    BY <1>8, RequestType DEF Run
  <2>3. new \in Request /\ new.op = req[q].op /\ new.cmd = req[q].cmd
    <3>1. new \in Request
      BY <2>2 DEF Request
    <3> QED BY <2>2, <3>1 DEF Request
  <2> HIDE DEF new
  <2>4. req' = [req EXCEPT ![q] = new]
    BY <2>1 DEF new
  <2>5. Owed(new, op)
    BY <1>5, <2>2, <2>3 DEF Owed
  <2>6. ReqsAre(req', op)
    BY <2>3, <2>4, <2>5, ReqChanges DEF Working
  <2> QED BY <1>3, <1>8, <2>6 DEF Run, Working
<1>9. ASSUME NEW q \in Requests, RunUnheard(q)
      PROVE  ChoicesOK' /\ Working'
  BY <1>3, <1>6, <1>7, <1>9 DEF RunUnheard
<1>10. ASSUME NEW q \in Requests, NEW o \in Ops, op[o].state \in {"waiting", "asking"}, Succeed(o, q)
       PROVE  Working'
  BY <1>5, <1>10, GoOnType DEF Succeed, Orderly
<1>11. ASSUME NEW q \in Requests, Answer(q)
       PROVE  ChoicesOK' /\ Working'
  <2> DEFINE o == req[q].op
             w == op[o].window
  <2>1. o \in Ops /\ op[o].state = "waiting" /\ UNCHANGED choices
    BY <1>11, RequestType DEF Answer
  <2>2. CASE Succeed(o, q)
    BY <1>3, <1>10, <2>1, <2>2
  <2>3. CASE op' = Ended(o, "done") /\ Dismiss(q)
    <3>1. OpsAre(op') /\ Keeps(op, op')
      BY <1>7, <2>1, <2>3, EndedType
    <3> QED BY <1>3, <1>6, <2>1, <2>3, <3>1 DEF Dismiss
  <2>4. CASE /\ op' = [k \in Ops |-> IF k = o THEN [op[k] EXCEPT !.state = "asking"]
                                     ELSE IF Asking(k, w) THEN Ended(k, "hung")[k]
                                     ELSE op[k]]
             /\ Dismiss(q)
    <3> DEFINE asks == [op[o] EXCEPT !.state = "asking"]
    <3>1. Orderly(asks) /\ asks.state = "asking" /\ asks.agreed = op[o].agreed
      <4>1. /\ asks \in Operation /\ asks.state = "asking" /\ asks.agreed = op[o].agreed
            /\ asks.todo = op[o].todo
        BY <1>5, <2>1 DEF Operation
      <4> HIDE DEF asks
      <4> QED BY <1>5, <2>1, <4>1 DEF Orderly
    <3>2. op'[o] = asks
      BY <2>1, <2>4
    <3>3. ASSUME NEW k \in Ops \ {o}
          PROVE  /\ Orderly(op'[k])
                 /\ op[k].state # "idle" => op'[k].state # "idle" /\ op'[k].agreed = op[k].agreed
      <4>1. CASE Asking(k, w)
        <5>1. op'[k] = Ended(k, "hung")[k]
          BY <2>4, <3>3, <4>1
        <5>2. OpsAre(Ended(k, "hung")) /\ Keeps(op, Ended(k, "hung"))
          BY <1>7, EndedType
        <5> QED BY <5>1, <5>2 DEF OpsAre, Keeps
      <4>2. CASE ~Asking(k, w)
        <5>1. op'[k] = op[k]
          BY <2>4, <3>3, <4>2
        <5> QED BY <1>5, <5>1
      <4> QED BY <4>1, <4>2
    <3> HIDE DEF asks
    <3>4. \A k \in Ops : Orderly(op'[k])
      BY <3>1, <3>2, <3>3
    <3>5. OpsAre(op')
      <4>1. DOMAIN op' = Ops /\ op' = [k \in Ops |-> op'[k]]
        BY <2>4
      <4>2. \A k \in Ops : op'[k] \in Operation
        BY <3>4 DEF Orderly
      <4> QED BY <3>4, <4>1, <4>2 DEF OpsAre
    <3>6. Keeps(op, op')
      BY <3>1, <3>2, <3>3 DEF Keeps
    <3> QED BY <1>3, <1>6, <2>1, <2>4, <3>5, <3>6 DEF Dismiss
  <2> QED BY <1>11, <2>2, <2>3, <2>4 DEF Answer
<1>12. ASSUME NEW q \in Requests, AnswerRetry(q)
       PROVE  ChoicesOK' /\ Working'
  <2>1. CASE \E o \in Ops : op[o].state = "asking" /\ Succeed(o, q)
    BY <1>3, <1>10, <1>12, <2>1 DEF AnswerRetry
  <2>2. CASE Dismiss(q) /\ UNCHANGED op
    BY <1>3, <1>6, <1>7, <1>12, <2>2 DEF AnswerRetry, Dismiss
  <2> QED BY <1>12, <2>1, <2>2 DEF AnswerRetry, Asking
<1>13. ASSUME NEW q \in Requests, Lose(q)
       PROVE  ChoicesOK' /\ Working'
  <2> DEFINE new == IF req[q].state = "sent" THEN [req[q] EXCEPT !.heard = "nobody"] ELSE NoRequest
  <2>1. req[q] \in Request /\ req[q].op \in Ops
    BY <1>13, RequestType DEF Lose
  <2>2. req' = [req EXCEPT ![q] = new] /\ UNCHANGED choices
    BY <1>13 DEF Lose
  <2>3. OpsAre(op') /\ Keeps(op, op')
    <3>1. CASE \E state \in {"done", "hung"} : op' = Ended(req[q].op, state)
      BY <1>7, <2>1, <3>1, EndedType
    <3>2. CASE op' = op
      BY <1>7, <3>2
    <3> QED BY <1>13, <3>1, <3>2 DEF Lose
  <2>4. ReqsAre(req, op')
    BY <2>3, StillOwed DEF Working
  <2>5. new \in Request \cup {NoRequest} /\ Owed(new, op')
    <3>1. CASE req[q].state = "sent"
      <4> DEFINE silent == [req[q] EXCEPT !.heard = "nobody"]
      <4>1. silent \in Request /\ silent.op = req[q].op /\ silent.cmd = req[q].cmd
        <5>1. silent \in Request
          BY <2>1 DEF Request
        <5> QED BY <2>1, <5>1 DEF Request
      <4>2. Owed(req[q], op') /\ req[q].state # "idle"
        BY <2>4, <3>1 DEF ReqsAre
      <4>3. Owed(silent, op')
        <5> HIDE DEF silent
        <5> QED BY <4>1, <4>2 DEF Owed
      <4> QED BY <3>1, <4>1, <4>3
    <3>2. CASE req[q].state # "sent"
      BY <3>2, NothingOwed
    <3> QED BY <3>1, <3>2
  <2> HIDE DEF new
  <2>6. ReqsAre(req', op')
    BY <2>2, <2>4, <2>5, ReqChanges
  <2> QED BY <1>3, <2>2, <2>3, <2>6 DEF Working
<1>14. CASE UploadRead
  <2>1. upload \in Question
    BY <1>14 DEF UploadRead, TypeOK, ChoicesOK
  <2>2. upload.intent \in Intent /\ upload.existing \in NameSets /\ upload.window \in Windows
    BY <2>1 DEF Question
  <2>3. /\ Working'
        /\ conflict' \in Question \cup {None}
        /\ conflict' # None => conflict'.intent.name \in conflict'.existing
    BY <1>14, <2>2, WithConflictType DEF UploadRead, TypeOK, ChoicesOK
  <2> QED BY <1>14, <2>3 DEF UploadRead, TypeOK, ChoicesOK
<1>15. CASE UploadUnreadable
  BY <1>2, <1>15 DEF UploadUnreadable, work, TypeOK, ChoicesOK
<1> QED BY <1>4, <1>8, <1>9, <1>11, <1>12, <1>13, <1>14, <1>15 DEF AnswerStep

LEMMA ChoicesNext == TypeOK /\ Working /\ [Next]_vars => ChoicesOK' /\ Working'
<1>1. ASSUME TypeOK, Working, UNCHANGED vars
      PROVE  ChoicesOK' /\ Working'
  BY <1>1 DEF vars, choices, work, TypeOK, ChoicesOK, Working
<1> QED BY <1>1, UserChoicesNext, AnswerChoicesNext DEF Next

(***************************************************************************)
(* What the window has not been told of.                                   *)
(***************************************************************************)

\* A request is noted only once it has run, and until it is answered.
LEMMA UnseenNext ==
  TypeOK /\ UnseenIsAnswered /\ [Next]_vars =>
    unseen' \subseteq Requests \cup {None} /\ UnseenIsAnswered'
<1> SUFFICES ASSUME TypeOK, UnseenIsAnswered, [Next]_vars
             PROVE  unseen' \subseteq Requests \cup {None} /\ UnseenIsAnswered'
  OBVIOUS
<1>1. /\ unseen \subseteq Requests \cup {None} /\ None \notin Requests
      /\ req \in [Requests -> Request \cup {NoRequest}]
      /\ \A q \in unseen : q = None \/ req[q].state = "ran"
  BY NoneAssumption DEF TypeOK, WorkOK, UnseenIsAnswered
<1>2. ASSUME unseen' = {}
      PROVE  unseen' \subseteq Requests \cup {None} /\ UnseenIsAnswered'
  BY <1>2 DEF UnseenIsAnswered
\* One request, not one that has run and is noted, changes, and nothing is noted.
<1>3. ASSUME NEW q \in Requests, NEW new, req' = [req EXCEPT ![q] = new],
             unseen' = Forget(q) \/ (unseen' = unseen /\ req[q].state # "ran")
      PROVE  unseen' \subseteq Requests \cup {None} /\ UnseenIsAnswered'
  <2>1. unseen' \subseteq (unseen \ {q}) \cup {None}
    BY <1>1, <1>3 DEF Forget
  <2>2. \A k \in Requests \ {q} : req'[k] = req[k]
    BY <1>1, <1>3
  <2> QED BY <1>1, <2>1, <2>2 DEF UnseenIsAnswered
<1>4. ASSUME UNCHANGED <<req, unseen>>
      PROVE  unseen' \subseteq Requests \cup {None} /\ UnseenIsAnswered'
  BY <1>1, <1>4 DEF UnseenIsAnswered
<1>5. ASSUME NEW todo, NEW agreed, NEW w, Issue(todo, agreed, w)
      PROVE  unseen' \subseteq Requests \cup {None} /\ UnseenIsAnswered'
  <2>1. PICK q \in Requests :
          req[q].state = "idle" /\ \E new : req' = [req EXCEPT ![q] = new]
    BY <1>5 DEF Issue
  <2>2. unseen' = unseen /\ req[q].state # "ran"
    BY <1>5, <2>1 DEF Issue
  <2> QED BY <1>3, <2>1, <2>2
<1>6. ASSUME NEW i, NEW names, NEW w, withConflict(i, names, w)
      PROVE  unseen' \subseteq Requests \cup {None} /\ UnseenIsAnswered'
  BY <1>4, <1>5, <1>6 DEF withConflict, work
<1>7. ASSUME NEW q \in Requests, Run(q)
      PROVE  unseen' \subseteq Requests \cup {None} /\ UnseenIsAnswered'
  <2>1. unseen' \subseteq unseen \cup {q}
    BY <1>7 DEF Run, Note
  <2>2. req'[q].state = "ran"
    <3>1. req[q] \in Request
      BY <1>7, RequestType DEF Run
    <3>2. PICK answer \in {"ok", "failed", "denied"} :
            req' = [req EXCEPT ![q] = [req[q] EXCEPT !.state = "ran", !.answer = answer]]
      BY <1>7 DEF Run
    <3>3. [req[q] EXCEPT !.state = "ran", !.answer = answer].state = "ran"
      BY <3>1 DEF Request
    <3> QED BY <1>1, <3>2, <3>3
  <2>3. \A k \in Requests \ {q} : req'[k] = req[k]
    BY <1>1, <1>7 DEF Run
  <2> QED BY <1>1, <2>1, <2>2, <2>3 DEF UnseenIsAnswered
<1>8. ASSUME NEW q \in Requests, RunUnheard(q)
      PROVE  unseen' \subseteq Requests \cup {None} /\ UnseenIsAnswered'
  <2>1. unseen' \subseteq unseen \cup {None} /\ q \notin unseen
    BY <1>1, <1>8 DEF RunUnheard, Note
  <2>2. \A k \in Requests \ {q} : req'[k] = req[k]
    BY <1>1, <1>8 DEF RunUnheard
  <2> QED BY <1>1, <2>1, <2>2 DEF UnseenIsAnswered
<1>9. ASSUME NEW q \in Requests, Answer(q) \/ AnswerRetry(q)
      PROVE  unseen' \subseteq Requests \cup {None} /\ UnseenIsAnswered'
  <2>1. CASE Load(path)
    BY <1>2, <2>1 DEF Load, Ask
  <2>2. CASE unseen' = Forget(q)
    <3>1. \E new : req' = [req EXCEPT ![q] = new]
      BY <1>9 DEF Answer, AnswerRetry, Succeed, GoOn, Dismiss
    <3> QED BY <1>3, <2>2, <3>1
  <2> QED BY <1>9, <2>1, <2>2, AnswerLoads
<1>10. ASSUME NEW q \in Requests, Lose(q)
       PROVE  unseen' \subseteq Requests \cup {None} /\ UnseenIsAnswered'
  <2>1. unseen' = Forget(q) /\ \E new : req' = [req EXCEPT ![q] = new]
    BY <1>10 DEF Lose
  <2> QED BY <1>3, <2>1
<1>11. ASSUME NEW o \in Ops, Retry(o)
       PROVE  unseen' \subseteq Requests \cup {None} /\ UnseenIsAnswered'
  <2>1. PICK q \in Requests :
          req[q].state = "idle" /\ \E new : req' = [req EXCEPT ![q] = new]
    BY <1>11 DEF Retry
  <2>2. unseen' = unseen /\ req[q].state # "ran"
    BY <1>11, <2>1 DEF Retry
  <2> QED BY <1>3, <2>1, <2>2
<1>12. CASE Refresh \/ Reopen \/ \E d \in Dirs : Navigate(d)
  BY <1>2, <1>12 DEF Refresh, Reopen, Navigate, Load, Ask
<1>13. CASE Paste \/ \E b \in Bases : SubmitDialog(<<b>>)
  BY <1>4, <1>6, <1>13 DEF Paste, SubmitDialog, work
<1>14. CASE ConfirmDelete \/ KeepBoth \/ Replace
  BY <1>5, <1>14 DEF ConfirmDelete, KeepBoth, Replace
<1>15. CASE UploadRead
  BY <1>6, <1>15 DEF UploadRead
<1>16. CASE UNCHANGED vars
  BY <1>4, <1>16 DEF vars, work
<1>17. CASE UserStep
  BY <1>4, <1>11, <1>12, <1>13, <1>14, <1>17
     DEF UserStep, Clip, OpenDialog, PickUpload, CancelDialog, CancelConflict, CancelElevation, work
<1>18. CASE AnswerStep
  BY <1>4, <1>7, <1>8, <1>9, <1>10, <1>15, <1>18
     DEF AnswerStep, ServeListing, ShowListing, UploadUnreadable, work
<1> QED BY <1>16, <1>17, <1>18 DEF Next

\* Nothing is taken from what is noted but by a listing, and no change is left out.
LEMMA NotedNext ==
  ASSUME [Next]_vars
  PROVE  \/ \E d : Ask(d) /\ path' = d
         \/ unseen' # {}
         \/ unseen = {} /\ fs' = fs
<1> DEFINE Noted == \/ \E d : Ask(d) /\ path' = d
                    \/ unseen' # {}
                    \/ unseen = {} /\ fs' = fs
<1>1. CASE UNCHANGED <<fs, unseen>>
  BY <1>1
<1>2. ASSUME NEW i, NEW names, NEW w, withConflict(i, names, w)
      PROVE  unseen' = unseen
  BY <1>2 DEF withConflict, Issue, work
<1>3. ASSUME NEW q \in Requests, Run(q) \/ RunUnheard(q)
      PROVE  Noted
  BY <1>3 DEF Run, RunUnheard, Note
<1>4. ASSUME NEW q \in Requests, fs' = fs, unseen' = Forget(q)
      PROVE  Noted
  BY <1>4 DEF Forget
<1>5. ASSUME NEW q \in Requests, Answer(q) \/ AnswerRetry(q)
      PROVE  Noted
  <2>1. fs' = fs
    BY <1>5 DEF Answer, AnswerRetry
  <2> QED BY <1>4, <1>5, <2>1, AnswerLoads DEF Load
<1>6. ASSUME NEW q \in Requests, Lose(q)
      PROVE  Noted
  BY <1>4, <1>6 DEF Lose
<1>7. CASE Refresh \/ Reopen \/ \E d \in Dirs : Navigate(d)
  BY <1>7 DEF Refresh, Reopen, Navigate, Load
<1>8. CASE Paste \/ \E b \in Bases : SubmitDialog(<<b>>)
  BY <1>1, <1>2, <1>8 DEF Paste, SubmitDialog, work
<1>9. CASE UserStep
  BY <1>1, <1>7, <1>8, <1>9
     DEF UserStep, Clip, OpenDialog, PickUpload, ConfirmDelete, CancelDialog, KeepBoth, Replace,
         CancelConflict, Issue, Retry, CancelElevation, work
<1>10. CASE AnswerStep
  BY <1>1, <1>2, <1>3, <1>5, <1>6, <1>10
     DEF AnswerStep, ServeListing, ShowListing, UploadRead, UploadUnreadable, work
<1>11. CASE UNCHANGED vars
  BY <1>1, <1>11 DEF vars, work
<1> QED BY <1>9, <1>10, <1>11 DEF Next

(***************************************************************************)
(* The invariant.                                                          *)
(***************************************************************************)

LEMMA InitInv == Init => IInv
<1> SUFFICES ASSUME Init
             PROVE  IInv
  OBVIOUS
<1>1. unseen = {}
  BY DEF Init
<1>2. TypeOK /\ RemovalsAgreed
  BY <1>1, FilesInit, ScreenInit, ChoicesInit, WorkingInit, WorkingIs DEF TypeOK
<1>3. active # None /\ list[active].state = "sent" /\ list[active].dir = path
  BY NoneAssumption DEF Init
<1> QED BY <1>1, <1>2, <1>3 DEF IInv, ActiveIsOfPath, SettledIsTrue, UnseenIsAnswered

\* A listing that is asked for is that of the directory shown, and is not answered yet.
LEMMA AskedFor ==
  ASSUME TypeOK, NEW d, Ask(d)
  PROVE  active' # None /\ active' \in Lists /\ list'[active'].state = "sent" /\ list'[active'].dir = d
<1>1. list \in [Lists -> Listing] /\ None \notin Lists
  BY NoneAssumption DEF TypeOK, ScreenOK
<1>2. PICK l \in Lists :
        /\ active' = l
        /\ list' = [list EXCEPT ![l] = [state |-> "sent", dir |-> d, names |-> {}]]
  BY DEF Ask
<1> QED BY <1>1, <1>2

\* The listing asked for is of the directory shown.
LEMMA ActiveNext == IInv /\ [Next]_vars => ActiveIsOfPath'
<1> SUFFICES ASSUME IInv, [Next]_vars
             PROVE  ActiveIsOfPath'
  OBVIOUS
<1>1. /\ list \in [Lists -> Listing] /\ active \in Lists \cup {None}
      /\ ActiveIsOfPath /\ TypeOK
  BY DEF IInv, TypeOK, ScreenOK
<1>2. ASSUME Ask(path')
      PROVE  ActiveIsOfPath'
  BY <1>1, <1>2, AskedFor DEF ActiveIsOfPath
<1>3. CASE UNCHANGED screen
  BY <1>1, <1>3 DEF screen, ActiveIsOfPath
<1>4. CASE Refresh \/ Reopen \/ \E d \in Dirs : Navigate(d)
  BY <1>2, <1>4 DEF Refresh, Reopen, Navigate, Load
<1>5. ASSUME NEW l \in Lists, ServeListing(l)
      PROVE  ActiveIsOfPath'
  <2>1. /\ list'[l].state = "served" /\ list'[l].dir = list[l].dir
        /\ \A k \in Lists \ {l} : list'[k] = list[k]
        /\ active' = active /\ path' = path
    BY <1>1, <1>5 DEF ServeListing, Listing
  <2> QED BY <1>1, <2>1 DEF ActiveIsOfPath
<1>6. ASSUME NEW l \in Lists, ShowListing(l)
      PROVE  ActiveIsOfPath'
  BY <1>1, <1>6 DEF ShowListing, ActiveIsOfPath
<1>7. ASSUME NEW q \in Requests, Answer(q) \/ AnswerRetry(q)
      PROVE  ActiveIsOfPath'
  BY <1>2, <1>3, <1>7, AnswerLoads DEF Load
<1>8. CASE UserStep
  BY <1>3, <1>4, <1>8 DEF UserStep, Clip, Paste, OpenDialog, SubmitDialog, PickUpload,
             ConfirmDelete, CancelDialog, KeepBoth, Replace, CancelConflict, Retry, CancelElevation
<1>9. CASE AnswerStep
  BY <1>3, <1>5, <1>6, <1>7, <1>9 DEF AnswerStep, Run, RunUnheard, Lose, UploadRead,
                                     UploadUnreadable
<1> QED BY <1>3, <1>8, <1>9 DEF Next, vars

\* Of what the window has been told, the listing that is asked for, and then the window, is
\* true.
LEMMA SettledNext == IInv /\ [Next]_vars => SettledIsTrue'
<1> SUFFICES ASSUME IInv, [Next]_vars
             PROVE  SettledIsTrue'
  OBVIOUS
<1>1. /\ list \in [Lists -> Listing] /\ active \in Lists \cup {None} /\ None \notin Lists
      /\ ActiveIsOfPath /\ SettledIsTrue /\ TypeOK
  BY NoneAssumption DEF IInv, TypeOK, ScreenOK
\* A listing has been asked for and not served.
<1>2. ASSUME NEW d, Ask(d)
      PROVE  SettledIsTrue'
  BY <1>1, <1>2, AskedFor DEF SettledIsTrue
<1>3. SUFFICES ASSUME unseen' = {}, unseen = {}, fs' = fs
               PROVE  SettledIsTrue'
  BY <1>2, NotedNext DEF SettledIsTrue
<1>4. path' = path => NamesIn(path)' = NamesIn(path)
  BY <1>3 DEF NamesIn
<1>5. CASE UNCHANGED screen
  BY <1>1, <1>3, <1>4, <1>5 DEF screen, SettledIsTrue
<1>6. CASE Refresh \/ Reopen \/ \E d \in Dirs : Navigate(d)
  BY <1>2, <1>6 DEF Refresh, Reopen, Navigate, Load
<1>7. ASSUME NEW l \in Lists, ServeListing(l)
      PROVE  SettledIsTrue'
  <2>1. /\ list'[l].state = "served" /\ list'[l].names = NamesIn(list[l].dir)
        /\ \A k \in Lists \ {l} : list'[k] = list[k]
        /\ UNCHANGED <<path, entries, error, active>>
    BY <1>1, <1>7 DEF ServeListing, Listing
  <2>2. CASE active = l
    BY <1>1, <1>4, <2>1, <2>2 DEF SettledIsTrue, ActiveIsOfPath
  <2>3. CASE active # l
    BY <1>1, <1>3, <1>4, <2>1, <2>3 DEF SettledIsTrue
  <2> QED BY <2>2, <2>3
<1>8. ASSUME NEW l \in Lists, ShowListing(l)
      PROVE  SettledIsTrue'
  <2>1. path' = path
    BY <1>8 DEF ShowListing
  <2>2. CASE l # active
    BY <1>1, <1>3, <1>4, <1>8, <2>1, <2>2 DEF ShowListing, SettledIsTrue
  <2>3. CASE l = active
    BY <1>1, <1>3, <1>4, <1>8, <2>1, <2>3 DEF ShowListing, SettledIsTrue
  <2> QED BY <2>2, <2>3
<1>9. ASSUME NEW q \in Requests, Answer(q) \/ AnswerRetry(q)
      PROVE  SettledIsTrue'
  BY <1>2, <1>5, <1>9, AnswerLoads DEF Load
<1>10. CASE UserStep
  BY <1>5, <1>6, <1>10 DEF UserStep, Clip, Paste, OpenDialog, SubmitDialog, PickUpload,
             ConfirmDelete, CancelDialog, KeepBoth, Replace, CancelConflict, Retry, CancelElevation
<1>11. CASE AnswerStep
  BY <1>5, <1>7, <1>8, <1>9, <1>11 DEF AnswerStep, Run, RunUnheard, Lose, UploadRead,
                                      UploadUnreadable
<1> QED BY <1>5, <1>10, <1>11 DEF Next, vars

LEMMA Invariance == Spec => []IInv
<1>1. IInv /\ [Next]_vars => IInv'
  <2> SUFFICES ASSUME IInv, [Next]_vars
               PROVE  IInv'
    OBVIOUS
  <2>1. TypeOK /\ Working /\ UnseenIsAnswered
    BY WorkingIs DEF IInv, TypeOK
  <2>2. ChoicesOK' /\ Working'
    BY <2>1, ChoicesNext
  <2>3. unseen' \subseteq Requests \cup {None} /\ UnseenIsAnswered'
    BY <2>1, UnseenNext
  <2>4. WorkOK' /\ RemovalsAgreed'
    BY <2>2, <2>3, WorkingNext
  <2>5. FilesOK' /\ ScreenOK'
    BY <2>1, FilesNext, ScreenNext
  <2>6. TypeOK'
    BY <2>2, <2>4, <2>5 DEF TypeOK
  <2> QED BY <2>3, <2>4, <2>6, ActiveNext, SettledNext DEF IInv
<1> QED BY <1>1, InitInv, PTL DEF Spec

\* Each part of the file manager holds what it says it holds: no command is left without a
\* path to work on, no operation without its next command, no question that asks nothing, and
\* what "Keep both" names is again the name of a file.
THEOREM TypeCorrect == Spec => []TypeOK
BY Invariance, PTL DEF IInv

\* However listings, operations, retries and windows overtake each other, a window with no
\* answer on its way and no error shows the directory it names as it is on the host, but for
\* the changes it was not told of.
THEOREM QuietScreen == Spec => []QuietScreenIsTrue
<1>1. IInv => QuietScreenIsTrue
  <2> SUFFICES ASSUME IInv, Quiet, ~error, None \notin unseen
               PROVE  entries = NamesIn(path)
    BY DEF QuietScreenIsTrue
  <2>1. unseen = {}
    <3>1. \A q \in unseen : q \in Requests /\ req[q].state = "ran"
      BY DEF IInv, TypeOK, WorkOK, UnseenIsAnswered
    <3> QED BY <3>1 DEF Quiet
  <2> QED BY <2>1 DEF IInv, SettledIsTrue, Quiet
<1> QED BY <1>1, Invariance, PTL

\* A content that a command takes away is moved, agreed to be removed, or written over.
LEMMA CommandTakes ==
  ASSUME NEW c \in Command, NEW p \in DOMAIN fs, ~(p \in DOMAIN fs' /\ fs'[p] = fs[p]),
         fs' = Partly(c) \/ (CanRun(c) /\ fs' = After(c))
  PROVE  \/ c.cmd = "remove" /\ p = c.to
         \/ \E q \in DOMAIN fs' \ DOMAIN fs : fs'[q] = fs[p]
         \/ p \in DOMAIN fs' /\ fs'[p] \in {<<"uploaded">>, <<"partial">>}
<1>1. CASE fs' = Partly(c)
  BY <1>1 DEF Partly
<1>2. CASE CanRun(c) /\ fs' = After(c) /\ c.cmd = "remove"
  BY <1>2 DEF After
<1>3. CASE CanRun(c) /\ fs' = After(c) /\ c.cmd # "remove"
  <2>1. ~Skips(c)
    BY <1>3 DEF After
  <2> DEFINE kept == IF c.cmd = "move" THEN DOMAIN fs \ {c.from} ELSE DOMAIN fs
  <2>2. fs' = [q \in kept \cup {c.to} |-> IF q = c.to THEN Brought(c) ELSE fs[q]]
    BY <1>3, <2>1 DEF After
  <2>3. CASE c.cmd = "write"
    <3>1. Brought(c) = <<"uploaded">>
      BY <2>3 DEF Brought
    <3> QED BY <2>2, <2>3, <3>1
  <2>4. CASE c.cmd = "move"
    <3>1. c.to \notin DOMAIN fs /\ Brought(c) = fs[c.from]
      BY <2>1, <2>4 DEF Skips, Exists, Brought
    <3> QED BY <2>2, <2>4, <3>1
  <2>5. CASE c.cmd \in {"copy", "create"}
    <3>1. c.to \notin DOMAIN fs
      BY <2>1, <2>5 DEF Skips, Exists
    <3> QED BY <2>2, <2>5, <3>1
  <2> QED BY <1>3, <2>3, <2>4, <2>5 DEF Command
<1> QED BY <1>1, <1>2, <1>3

\* Whatever the user decides on names that are no longer those of the host, and however often
\* and late a command runs, a content is lost only by a request to remove what the user agreed
\* should go, or under an upload.
THEOREM NothingLost == Spec => NothingLostUnasked
<1> DEFINE Lost(p) ==
      ~(p \in DOMAIN fs' /\ fs'[p] = fs[p]) =>
        \/ \E q \in Requests : /\ req[q].state = "sent" /\ req'[q].state # "sent"
                               /\ p = op[req[q].op].agreed
        \/ \E q \in DOMAIN fs' \ DOMAIN fs : fs'[q] = fs[p]
        \/ p \in DOMAIN fs' /\ fs'[p] \in {<<"uploaded">>, <<"partial">>}
<1>1. ASSUME IInv, [Next]_vars
      PROVE  [\A p \in DOMAIN fs : Lost(p)]_vars
  <2>1. CASE UNCHANGED fs
    BY <2>1
  <2>2. ASSUME NEW q \in Requests, Run(q) \/ RunUnheard(q), fs' # fs, NEW p \in DOMAIN fs
        PROVE  Lost(p)
    <3> DEFINE c == req[q].cmd
    <3>1. req[q].state = "sent" /\ req'[q].state # "sent"
      <4>1. req[q].state = "sent" /\ req[q] \in Request /\ req \in [Requests -> Request \cup {NoRequest}]
        BY <1>1, <2>2, RequestType DEF IInv, TypeOK, WorkOK, Run, RunUnheard
      <4>2. CASE Run(q)
        <5>1. PICK answer \in {"ok", "failed", "denied"} :
                req' = [req EXCEPT ![q] = [req[q] EXCEPT !.state = "ran", !.answer = answer]]
          BY <4>2 DEF Run
        <5>2. [req[q] EXCEPT !.state = "ran", !.answer = answer].state = "ran"
          BY <4>1 DEF Request
        <5> QED BY <4>1, <5>1, <5>2
      <4>3. CASE RunUnheard(q)
        BY <4>1, <4>3 DEF RunUnheard, NoRequest
      <4> QED BY <2>2, <4>1, <4>2, <4>3
    <3>2. c \in Command /\ (c.cmd = "remove" => c.to = op[req[q].op].agreed)
      <4>1. c \in Command
        BY <1>1, <3>1, RequestType DEF IInv
      <4> QED BY <1>1, <3>1, <4>1 DEF IInv, RemovalsAgreed
    <3>3. fs' = Partly(c) \/ (CanRun(c) /\ fs' = After(c))
      BY <2>2 DEF Run, RunUnheard
    <3> HIDE DEF c
    <3> QED BY <3>1, <3>2, <3>3, CommandTakes
  <2>3. CASE UserStep
    BY <2>1, <2>3 DEF UserStep, Navigate, Refresh, Reopen, Clip, Paste, OpenDialog, SubmitDialog,
               PickUpload, ConfirmDelete, CancelDialog, KeepBoth, Replace, CancelConflict, Retry,
               CancelElevation
  <2>4. CASE AnswerStep
    BY <2>1, <2>2, <2>4 DEF AnswerStep, ServeListing, ShowListing, Answer, AnswerRetry, Lose,
                            UploadRead, UploadUnreadable
  <2> QED BY <1>1, <2>1, <2>3, <2>4 DEF Next, vars
<1> QED BY <1>1, Invariance, PTL DEF Spec, NothingLostUnasked

(***************************************************************************)
(* Names spelled out.                                                      *)
(***************************************************************************)

\* The short names of the properties are strings of their characters.
LEMMA NamesAreStrings ==
  ASSUME NEW chars, NEW C, chars \subseteq C, NEW n \in Nat
  PROVE  NamesOf(chars, n) \subseteq Seq(C)
<1>1. ASSUME NEW m \in 0..n PROVE [1..m -> chars] \subseteq Seq(C)
  OBVIOUS
<1> QED BY <1>1 DEF NamesOf, BoundedSeq, SeqOf

\* A command that changes the files of the host is the one meant, on the paths meant: for
\* names up to any length MaxName.
THEOREM ReachFiles == Spec => CommandsReachFiles
<1>1. MovesRead
  <2> DEFINE from == {"a", "'", "\\", " ", "$", ">"}
             to == {"'", "\\", " "}
  <2>1. NamesOf(from, MaxName) \subseteq Seq(from) /\ NamesOf(to, MaxName - 1) \subseteq Seq(from)
    <3>1. to \subseteq from
      OBVIOUS
    <3>2. MaxName \in Nat /\ MaxName - 1 \in Nat
      BY MaxNameAssumption
    <3> HIDE DEF from, to
    <3> QED BY <3>1, <3>2, NamesAreStrings
  <2> HIDE DEF from, to
  <2>2. \A x \in NamesOf(from, MaxName), y \in NamesOf(to, MaxName - 1) :
          Reads(FileCommand(<<"mv", "-n">>, <<x, y>>), <<<<"mv">>, <<"-n">>, x, y>>)
    BY <2>1, MovesAreRead
  <2> QED BY <2>2 DEF MovesRead, from, to
<1>2. WritesRead
  <2> DEFINE chars == {"a", "'", "\\", " ", "$", ">"}
             C == chars \cup {"b64"}
             text == <<"b64">>
  <2>1. NamesOf(chars, MaxName) \subseteq Seq(C) /\ text \in Seq(C)
    <3>1. chars \subseteq C /\ "b64" \in C
      OBVIOUS
    <3>2. MaxName \in Nat
      BY MaxNameAssumption
    <3> HIDE DEF chars, C
    <3> QED BY <3>1, <3>2, NamesAreStrings
  <2> HIDE DEF chars, C, text
  <2>2. \A x \in NamesOf(chars, MaxName) : Reads(WriteCommand(text, x), WriteWords(text, x))
    BY <2>1, WritesAreRead
  <2> QED BY <2>2 DEF WritesRead, WriteWords, chars, text
<1>3. [Next]_vars => [fs' # fs => MovesRead /\ WritesRead]_vars
  BY <1>1, <1>2
<1> QED BY <1>3, PTL DEF Spec, CommandsReachFiles
=============================================================================
