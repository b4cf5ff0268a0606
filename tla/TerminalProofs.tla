---------------------------- MODULE TerminalProofs ----------------------------
(***************************************************************************)
(* Theorems about the terminal, for any number of terminals and messages.  *)
(* A step is that of one terminal; what it does there is proved action by  *)
(* action, from what appending to and taking from a queue leaves in place. *)
(***************************************************************************)
EXTENDS Terminal, SequenceTheorems, TLAPS

----------------------------------------------------------------------------
(* Queues and messages.                                                    *)

LEMMA AppendLeaves ==
  ASSUME NEW S, NEW s \in Seq(S), NEW e \in S
  PROVE  /\ Append(s, e) \in Seq(S) /\ Append(s, e) # <<>>
         /\ Len(s) \in Nat /\ Len(Append(s, e)) = Len(s) + 1
         /\ Append(s, e)[Len(s) + 1] = e
         /\ \A i \in 1..Len(s) : Append(s, e)[i] = s[i]
         /\ s = <<>> <=> Len(s) = 0
BY AppendProperties, LenProperties, EmptySeq

LEMMA TailLeaves ==
  ASSUME NEW S, NEW s \in Seq(S), s # <<>>
  PROVE  /\ Tail(s) \in Seq(S) /\ Head(s) = s[1] /\ s[1] \in S
         /\ Len(s) \in Nat \ {0} /\ Len(Tail(s)) = Len(s) - 1
         /\ \A i \in 1..Len(s) - 1 : Tail(s)[i] = s[i + 1]
         /\ Tail(s) = <<>> <=> Len(s) = 1
<1>1. /\ Tail(s) \in Seq(S) /\ Len(Tail(s)) = Len(s) - 1
      /\ Len(s) \in Nat \ {0} /\ Head(s) = s[1]
  BY HeadTailProperties, EmptySeq
<1>2. \A i \in 1..Len(s) - 1 : Tail(s)[i] = s[i + 1]
  BY <1>1, HeadTailProperties
<1>3. Tail(s) = <<>> <=> Len(s) = 1
  <2>1. Tail(s) = <<>> <=> Len(Tail(s)) = 0
    BY <1>1, EmptySeq
  <2> QED BY <1>1, <2>1
<1>4. s[1] \in S
  BY <1>1, ElementOfSeq
<1> QED BY <1>1, <1>2, <1>3, <1>4

LEMMA MessageFields ==
  ASSUME NEW m \in Message
  PROVE  /\ m.type \in {"key", "cd", "resize", "close"}
         /\ m.type # "close" => m.n \in 1..MaxSent + 1
         /\ m.type = "resize" => m.size \in Sizes
         /\ m.type = "cd" => m.dir \in Dirs
BY DEF Message

LEMMA Constructed ==
  ASSUME NEW n \in 1..MaxSent + 1
  PROVE  /\ [n |-> n, type |-> "key"] \in Message
         /\ \A d \in Dirs : [n |-> n, type |-> "cd", dir |-> d] \in Message
         /\ \A s \in Sizes : [n |-> n, type |-> "resize", size |-> s] \in Message
         /\ [type |-> "close"] \in Message
BY DEF Message

----------------------------------------------------------------------------
(* The inductive invariant.                                                *)

Good(t) == Quiet(t) /\ Numbered(t) /\ Follows(t)

LEMMA TerminalInit == Init => IInv
<1> SUFFICES ASSUME Init
             PROVE  IInv
  OBVIOUS
<1>1. TypeOK
  BY MaxSentAssumption, EmptySeq DEF Init, TypeOK
<1>2. ASSUME NEW t \in Terminals
      PROVE  Good(t)
  BY EmptySeq DEF Init, Good, Quiet, Numbered, Follows, NoneAfter
<1> QED BY <1>1, <1>2 DEF IInv, Good

\* What a terminal is stays so while nothing of it changes.
LEMMA Untouched ==
  ASSUME NEW t \in Terminals, Good(t),
         client'[t] = client[t], socket'[t] = socket[t], shell'[t] = shell[t],
         up'[t] = up[t], sent'[t] = sent[t], fit'[t] = fit[t], want'[t] = want[t],
         size'[t] = size[t], dir'[t] = dir[t], got'[t] = got[t]
  PROVE  Good(t)'
<1>1. Quiet(t)'
  BY DEF Good, Quiet
<1>2. Numbered(t)'
  BY DEF Good, Numbered
<1>3. Follows(t)'
  BY DEF Good, Follows, NoneAfter
<1> QED BY <1>1, <1>2, <1>3 DEF Good

\* A message is sent on an open WebSocket: a resize with the size the window has now, a cd
\* with the directory asked for now.
LEMMA SendGood ==
  ASSUME TypeOK, NEW t \in Terminals, Good(t), NEW m \in Message,
         m.type # "close", m.n = sent[t] + 1, Send(t, m),
         client'[t] = "open", client[t] \in {"connecting", "open"},
         client[t] = "connecting" => socket[t] = "open",
         UNCHANGED <<socket, shell, size, dir, got>>,
         IF m.type = "resize" THEN fit'[t] = m.size ELSE fit'[t] = fit[t],
         IF m.type = "cd" THEN want'[t] = m.dir ELSE want'[t] = want[t]
  PROVE  /\ Good(t)'
         /\ up' \in [Terminals -> Seq(Message)]
         /\ sent' \in [Terminals -> 0..MaxSent + 1]
         /\ \A u \in Terminals : u # t => up'[u] = up[u] /\ sent'[u] = sent[u]
<1>1. /\ up[t] \in Seq(Message) /\ sent[t] \in Nat
      /\ up' \in [Terminals -> Seq(Message)] /\ up'[t] = Append(up[t], m)
      /\ sent' \in [Terminals -> 0..MaxSent + 1] /\ sent'[t] = sent[t] + 1
      /\ \A u \in Terminals : u # t => up'[u] = up[u] /\ sent'[u] = sent[u]
  BY AppendProperties, MessageFields, MaxSentAssumption DEF TypeOK, Send, Put
<1> DEFINE k == Len(up[t])
<1>2. /\ up'[t] # <<>> /\ k \in Nat /\ Len(up'[t]) = k + 1 /\ up'[t][k + 1] = m
      /\ \A i \in 1..k : up'[t][i] = up[t][i]
      /\ up[t] = <<>> <=> k = 0
  <2> DEFINE before == up[t]
             after == up'[t]
  <2>1. before \in Seq(Message) /\ after = Append(before, m)
    BY <1>1
  <2> HIDE DEF before, after
  <2>2. /\ after # <<>> /\ Len(before) \in Nat /\ Len(after) = Len(before) + 1
        /\ after[Len(before) + 1] = m
        /\ \A i \in 1..Len(before) : after[i] = before[i]
        /\ before = <<>> <=> Len(before) = 0
    BY <2>1, AppendLeaves
  <2> QED BY <2>2 DEF before, after
<1> HIDE DEF k
<1>3. Quiet(t)'
  BY DEF Good, Quiet
<1>4. \A i \in 1..k : up[t][i].type # "close"
  BY <1>2 DEF Good, Quiet, Numbered, k
<1>5. client[t] = "connecting" => up[t] = <<>> /\ got[t] = <<>>
  BY DEF Good, Quiet
<1>6. Numbered(t)'
  <2>1. \A i \in 1..Len(up'[t]) : up'[t][i].type # "close"
    BY <1>2, <1>4
  <2>2. \A i \in 1..Len(up'[t]) - 1 : up'[t][i + 1].n = up'[t][i].n + 1
    <3> SUFFICES ASSUME NEW i \in 1..k
                 PROVE  up'[t][i + 1].n = up'[t][i].n + 1
      BY <1>2
    <3>1. CASE i = k
      BY <3>1, <1>2, <1>4 DEF Good, Numbered, k
    <3>2. CASE i # k
      <4>1. i \in 1..k - 1 /\ i + 1 \in 1..k
        BY <3>2, <1>2
      <4>2. up[t][i + 1].n = up[t][i].n + 1
        BY <4>1, <1>4 DEF Good, Numbered, k
      <4> QED BY <4>1, <4>2, <1>2
    <3> QED BY <3>1, <3>2
  <2>3. up'[t][Len(up'[t])].n = sent'[t]
    BY <1>1, <1>2
  <2>4. /\ \A i \in 1..Len(got'[t]) : got'[t][i].type # "close"
        /\ \A i \in 1..Len(got'[t]) - 1 : got'[t][i + 1].n = got'[t][i].n + 1
    BY DEF Good, Numbered
  <2>5. shell'[t] = "open" /\ got'[t] # <<>> => up'[t][1].n = got'[t][Len(got'[t])].n + 1
    <3> SUFFICES ASSUME shell[t] = "open", got[t] # <<>>
                 PROVE  up'[t][1].n = got[t][Len(got[t])].n + 1
      OBVIOUS
    <3>1. CASE k = 0
      BY <3>1, <1>2, <1>5 DEF Good, Numbered
    <3>2. CASE k # 0
      BY <3>2, <1>2, <1>4 DEF Good, Numbered
    <3> QED BY <3>1, <3>2
  <2> QED BY <1>2, <2>1, <2>2, <2>3, <2>4, <2>5 DEF Numbered
<1>7. Follows(t)'
  <2>1. ASSUME NEW i \in 1..Len(up'[t]), NEW type, NoneAfter(t, i, type)'
        PROVE  i = k + 1 \/ (i \in 1..k /\ NoneAfter(t, i, type) /\ m.type # type)
    BY <2>1, <1>2 DEF NoneAfter, k
  <2>2. ASSUME NEW i \in 1..Len(up'[t]), up'[t][i].type = "resize", NoneAfter(t, i, "resize")'
        PROVE  up'[t][i].size = fit'[t]
    BY <2>1, <2>2, <1>2 DEF Good, Follows, k
  <2>3. ASSUME NEW i \in 1..Len(up'[t]), up'[t][i].type = "cd", NoneAfter(t, i, "cd")'
        PROVE  up'[t][i].dir = want'[t]
    BY <2>1, <2>3, <1>2 DEF Good, Follows, k
  <2>4. ASSUME NEW type, NoneAfter(t, 0, type)'
        PROVE  NoneAfter(t, 0, type) /\ m.type # type
    BY <2>4, <1>2 DEF NoneAfter, k
  <2> QED BY <2>2, <2>3, <2>4 DEF Good, Follows
<1> QED BY <1>1, <1>3, <1>6, <1>7 DEF Good

----------------------------------------------------------------------------
(* The browser's steps.                                                    *)

\* The terminals but t stay as they are.
Elsewhere(t) ==
  \A u \in Terminals \ {t} :
    /\ client'[u] = client[u] /\ socket'[u] = socket[u] /\ shell'[u] = shell[u]
    /\ up'[u] = up[u] /\ sent'[u] = sent[u] /\ fit'[u] = fit[u] /\ want'[u] = want[u]
    /\ size'[u] = size[u] /\ dir'[u] = dir[u] /\ got'[u] = got[u]

LEMMA OneTerminal ==
  ASSUME IInv, NEW t \in Terminals, TypeOK', Good(t)', Elsewhere(t)
  PROVE  IInv'
BY Untouched DEF IInv, Good, Elsewhere

\* Nothing was sent yet: the effect runs, or the window changes before the WebSocket is open.
LEMMA UnsentInv ==
  ASSUME IInv, NEW t \in Terminals,
         \/ \E d \in Dirs \cup {Home} : Mount(t, d)
         \/ client[t] = "connecting" /\ \E s \in Sizes : Resize(t, s)
         \/ client[t] = "connecting" /\ \E d \in Dirs : Retarget(t, d)
  PROVE  IInv'
<1> USE DEF IInv
<1> DEFINE NothingSent ==
             /\ TypeOK' /\ Elsewhere(t)
             /\ client[t] \in {"unmounted", "connecting"}
             /\ client'[t] = "connecting"
             /\ UNCHANGED <<socket, shell, up, sent, got>>
<1>1. NothingSent
  <2>1. ASSUME NEW d \in Dirs \cup {Home}, Mount(t, d)
        PROVE  NothingSent
    BY <2>1 DEF Mount, session, pty, TypeOK, Elsewhere
  <2>2. ASSUME client[t] = "connecting", NEW s \in Sizes, Resize(t, s)
        PROVE  NothingSent
    BY <2>2 DEF Resize, session, pty, TypeOK, Elsewhere
  <2>3. ASSUME client[t] = "connecting", NEW d \in Dirs, Retarget(t, d)
        PROVE  NothingSent
    BY <2>3 DEF Retarget, session, pty, TypeOK, Elsewhere
  <2> QED BY <2>1, <2>2, <2>3
<1>2. up[t] = <<>> /\ got[t] = <<>> /\ sent[t] = 0
  BY <1>1 DEF Quiet
<1>3. socket[t] = "closed" => shell[t] \notin {"opening", "open"}
  BY <1>1 DEF Quiet
<1>4. Good(t)'
  <2>1. Quiet(t)'
    BY <1>1, <1>2, <1>3 DEF Quiet
  <2>2. Numbered(t)'
    BY <1>1, <1>2, EmptySeq DEF Numbered
  <2>3. Follows(t)'
    BY <1>1, <1>2, EmptySeq DEF Follows
  <2> QED BY <2>1, <2>2, <2>3 DEF Good
<1> QED BY <1>1, <1>4, OneTerminal

LEMMA SendInv ==
  ASSUME IInv, NEW t \in Terminals,
         \/ OnOpen(t) \/ Key(t)
         \/ client[t] = "open" /\ \E s \in Sizes : Resize(t, s)
         \/ client[t] = "open" /\ \E d \in Dirs : Retarget(t, d)
  PROVE  IInv'
<1> USE DEF IInv
<1>0. Good(t)
  BY DEF Good
<1>1. /\ sent[t] + 1 \in 1..MaxSent + 1
      /\ fit[t] \in Sizes
  <2>1. client[t] = "connecting" => sent[t] = 0
    BY DEF Quiet
  <2>2. client[t] = "connecting" \/ sent[t] < MaxSent
    BY DEF OnOpen, Key, Resize, Retarget
  <2>3. sent[t] \in 0..MaxSent + 1 /\ fit[t] \in Sizes
    BY DEF TypeOK
  <2> QED BY <2>1, <2>2, <2>3, MaxSentAssumption
<1>2. CASE OnOpen(t)
  <2> DEFINE m == [n |-> sent[t] + 1, type |-> "resize", size |-> fit[t]]
  <2>1. /\ m \in Message /\ m.type = "resize" /\ m.n = sent[t] + 1 /\ m.size = fit[t]
        /\ Send(t, m)
    BY <1>1, <1>2, Constructed DEF OnOpen
  <2> HIDE DEF m
  <2>2. /\ client'[t] = "open" /\ client[t] = "connecting" /\ socket[t] = "open"
        /\ client' \in [Terminals -> {"unmounted", "connecting", "open", "closed"}]
        /\ \A u \in Terminals \ {t} : client'[u] = client[u]
        /\ UNCHANGED <<registered, link, socket, shell, size, dir, got, fit, want, cwd>>
    BY <1>2 DEF OnOpen, session, pty, TypeOK
  <2>3. /\ Good(t)' /\ up' \in [Terminals -> Seq(Message)]
        /\ sent' \in [Terminals -> 0..MaxSent + 1]
        /\ \A u \in Terminals : u # t => up'[u] = up[u] /\ sent'[u] = sent[u]
    BY <1>0, <2>1, <2>2, SendGood
  <2>4. TypeOK' /\ Elsewhere(t)
    BY <2>2, <2>3 DEF TypeOK, Elsewhere
  <2> QED BY <2>3, <2>4, OneTerminal
<1>3. CASE Key(t)
  <2> DEFINE m == [n |-> sent[t] + 1, type |-> "key"]
  <2>1. /\ m \in Message /\ m.type = "key" /\ m.n = sent[t] + 1
        /\ Send(t, m)
    BY <1>1, <1>3, Constructed DEF Key
  <2> HIDE DEF m
  <2>2. /\ client[t] = "open"
        /\ UNCHANGED <<registered, link, client, socket, shell, size, dir, got, fit, want, cwd>>
    BY <1>3 DEF Key, session, pty
  <2>3. /\ Good(t)' /\ up' \in [Terminals -> Seq(Message)]
        /\ sent' \in [Terminals -> 0..MaxSent + 1]
        /\ \A u \in Terminals : u # t => up'[u] = up[u] /\ sent'[u] = sent[u]
    BY <1>0, <2>1, <2>2, SendGood
  <2>4. TypeOK' /\ Elsewhere(t)
    BY <2>2, <2>3 DEF TypeOK, Elsewhere
  <2> QED BY <2>3, <2>4, OneTerminal
<1>4. ASSUME client[t] = "open", NEW s \in Sizes, Resize(t, s)
      PROVE  IInv'
  <2> DEFINE m == [n |-> sent[t] + 1, type |-> "resize", size |-> s]
  <2>1. /\ m \in Message /\ m.type = "resize" /\ m.n = sent[t] + 1 /\ m.size = s
        /\ Send(t, m)
    BY <1>1, <1>4, Constructed DEF Resize
  <2> HIDE DEF m
  <2>2. /\ fit' \in [Terminals -> Sizes] /\ fit'[t] = s
        /\ \A u \in Terminals \ {t} : fit'[u] = fit[u]
        /\ UNCHANGED <<registered, link, client, socket, shell, size, dir, got, want, cwd>>
    BY <1>4 DEF Resize, session, pty, TypeOK
  <2>3. /\ Good(t)' /\ up' \in [Terminals -> Seq(Message)]
        /\ sent' \in [Terminals -> 0..MaxSent + 1]
        /\ \A u \in Terminals : u # t => up'[u] = up[u] /\ sent'[u] = sent[u]
    BY <1>0, <1>4, <2>1, <2>2, SendGood
  <2>4. TypeOK' /\ Elsewhere(t)
    BY <2>2, <2>3 DEF TypeOK, Elsewhere
  <2> QED BY <2>3, <2>4, OneTerminal
<1>5. ASSUME client[t] = "open", NEW d \in Dirs, Retarget(t, d)
      PROVE  IInv'
  <2> DEFINE m == [n |-> sent[t] + 1, type |-> "cd", dir |-> d]
  <2>1. /\ m \in Message /\ m.type = "cd" /\ m.n = sent[t] + 1 /\ m.dir = d
        /\ Send(t, m)
    BY <1>1, <1>5, Constructed DEF Retarget
  <2> HIDE DEF m
  <2>2. /\ want' \in [Terminals -> Dirs \cup {Home}] /\ want'[t] = d
        /\ \A u \in Terminals \ {t} : want'[u] = want[u]
        /\ UNCHANGED <<registered, link, client, socket, shell, size, dir, got, fit, cwd>>
    BY <1>5 DEF Retarget, session, pty, TypeOK
  <2>3. /\ Good(t)' /\ up' \in [Terminals -> Seq(Message)]
        /\ sent' \in [Terminals -> 0..MaxSent + 1]
        /\ \A u \in Terminals : u # t => up'[u] = up[u] /\ sent'[u] = sent[u]
    BY <1>0, <1>5, <2>1, <2>2, SendGood
  <2>4. TypeOK' /\ Elsewhere(t)
    BY <2>2, <2>3 DEF TypeOK, Elsewhere
  <2> QED BY <2>3, <2>4, OneTerminal
<1> QED BY <1>2, <1>3, <1>4, <1>5

\* The close is the last message.
LEMMA UnmountInv ==
  ASSUME IInv, NEW t \in Terminals, Unmount(t)
  PROVE  IInv'
<1> USE DEF IInv
<1> DEFINE m == [type |-> "close"]
           k == Len(up[t])
<1>1. m \in Message /\ m.type = "close"
  BY DEF Message
<1>2. /\ client[t] \in {"connecting", "open"} /\ client'[t] = "closed"
      /\ up'[t] = Append(up[t], m) /\ up[t] \in Seq(Message)
      /\ UNCHANGED <<registered, link, socket, shell, size, dir, got, sent, fit, want, cwd>>
  BY DEF Unmount, Put, session, pty, TypeOK
<1>3. TypeOK' /\ Elsewhere(t)
  <2>1. up' \in [Terminals -> Seq(Message)] /\ \A u \in Terminals \ {t} : up'[u] = up[u]
    BY <1>1, AppendProperties DEF TypeOK, Unmount, Put
  <2> QED BY <1>2, <2>1 DEF Unmount, TypeOK, Elsewhere
<1> HIDE DEF m
<1>4. /\ up'[t] # <<>> /\ k \in Nat /\ Len(up'[t]) = k + 1 /\ up'[t][k + 1] = m
      /\ \A i \in 1..k : up'[t][i] = up[t][i]
      /\ up[t] = <<>> <=> k = 0
  <2> DEFINE before == up[t]
             after == up'[t]
  <2>1. before \in Seq(Message) /\ after = Append(before, m)
    BY <1>2
  <2> HIDE DEF before, after
  <2>2. /\ after # <<>> /\ Len(before) \in Nat /\ Len(after) = Len(before) + 1
        /\ after[Len(before) + 1] = m
        /\ \A i \in 1..Len(before) : after[i] = before[i]
        /\ before = <<>> <=> Len(before) = 0
    BY <1>1, <2>1, AppendLeaves
  <2> QED BY <2>2 DEF before, after
<1>5. \A i \in 1..k : up[t][i].type # "close"
  BY <1>2, <1>4 DEF Numbered
<1>6. Quiet(t)'
  BY <1>2 DEF Quiet
<1> HIDE DEF k
<1>7. Numbered(t)'
  <2>1. \A i \in 1..Len(up'[t]) : up'[t][i].type = "close" => i = Len(up'[t])
    BY <1>4, <1>5
  <2>2. ASSUME NEW i \in 1..Len(up'[t]) - 1, up'[t][i + 1].type # "close"
        PROVE  up'[t][i + 1].n = up'[t][i].n + 1
    <3>1. i \in 1..k - 1 /\ i + 1 \in 1..k
      BY <2>2, <1>1, <1>4
    <3>2. up[t][i + 1].n = up[t][i].n + 1
      BY <3>1, <1>5 DEF Numbered, k
    <3> QED BY <3>1, <3>2, <1>4
  <2>3. up'[t][Len(up'[t])].type = "close"
    BY <1>1, <1>4
  <2>4. /\ \A i \in 1..Len(got'[t]) : got'[t][i].type # "close"
        /\ \A i \in 1..Len(got'[t]) - 1 : got'[t][i + 1].n = got'[t][i].n + 1
    BY <1>2 DEF Numbered
  <2>5. ASSUME shell'[t] = "open", got'[t] # <<>>, up'[t][1].type # "close"
        PROVE  up'[t][1].n = got'[t][Len(got'[t])].n + 1
    <3>1. k # 0
      BY <2>5, <1>1, <1>4
    <3> QED BY <2>5, <3>1, <1>2, <1>4, <1>5 DEF Numbered
  <2> QED BY <1>2, <1>4, <2>1, <2>2, <2>3, <2>4, <2>5 DEF Numbered
<1>8. Follows(t)'
  <2>1. ASSUME NEW i \in 1..Len(up'[t]), NEW type, NoneAfter(t, i, type)',
               up'[t][i].type # "close"
        PROVE  i \in 1..k /\ NoneAfter(t, i, type)
    <3>1. i \in 1..k
      BY <2>1, <1>1, <1>4
    <3>2. \A j \in i + 1..k : up[t][j].type # type
      BY <2>1, <3>1, <1>4 DEF NoneAfter
    <3> QED BY <3>1, <3>2 DEF NoneAfter, k
  <2>2. ASSUME NEW i \in 1..Len(up'[t]), up'[t][i].type = "resize", NoneAfter(t, i, "resize")'
        PROVE  up'[t][i].size = fit'[t]
    BY <2>1, <2>2, <1>2, <1>4 DEF Follows, k
  <2>3. ASSUME NEW i \in 1..Len(up'[t]), up'[t][i].type = "cd", NoneAfter(t, i, "cd")'
        PROVE  up'[t][i].dir = want'[t]
    BY <2>1, <2>3, <1>2, <1>4 DEF Follows, k
  <2>4. ASSUME NEW type, NoneAfter(t, 0, type)'
        PROVE  NoneAfter(t, 0, type)
    BY <2>4, <1>4 DEF NoneAfter, k
  <2> QED BY <2>2, <2>3, <2>4, <1>2 DEF Follows
<1> QED BY <1>3, <1>6, <1>7, <1>8, OneTerminal DEF Good

LEMMA OnCloseInv ==
  ASSUME IInv, NEW t \in Terminals, OnClose(t)
  PROVE  IInv'
<1> USE DEF IInv
<1>1. /\ TypeOK' /\ Elsewhere(t)
      /\ client[t] \in {"connecting", "open"} /\ client'[t] = "closed"
      /\ UNCHANGED <<socket, shell, size, dir, got, up, sent, fit, want>>
  BY DEF OnClose, session, pty, TypeOK, Elsewhere
<1>2. Quiet(t)'
  BY <1>1 DEF Quiet
<1>3. Numbered(t)'
  BY <1>1 DEF Numbered
<1>4. Follows(t)'
  BY <1>1 DEF Follows, NoneAfter
<1> QED BY <1>1, <1>2, <1>3, <1>4, OneTerminal DEF Good

----------------------------------------------------------------------------
(* The gateway's steps.                                                    *)

\* The upgrade, and the life of the shell: nothing is sent, received or asked for.
LEMMA ShellInv ==
  ASSUME IInv, NEW t \in Terminals,
         Upgrade(t) \/ ShellOpens(t) \/ ShellFails(t) \/ ShellEnds(t)
  PROVE  IInv'
<1> USE DEF IInv
<1>0. UNCHANGED <<client, up, sent, fit, want, got>>
  BY DEF Upgrade, ShellOpens, ShellFails, ShellEnds, browser
<1>1. CASE Upgrade(t)
  <2>1. TypeOK' /\ Elsewhere(t)
    BY <1>0, <1>1 DEF Upgrade, session, browser, TypeOK, Elsewhere
  <2>2. /\ client[t] # "unmounted" /\ socket[t] = "none" /\ shell[t] = "none"
        /\ size' = size /\ dir' = dir
        /\ \/ socket'[t] = "open" /\ shell'[t] = "opening"
           \/ socket'[t] = "closed" /\ shell'[t] = "none"
    BY <1>1 DEF Upgrade, TypeOK, Quiet
  <2>3. Quiet(t)'
    BY <1>0, <2>2 DEF Quiet
  <2>4. Numbered(t)'
    BY <1>0, <2>2 DEF Numbered
  <2>5. Follows(t)'
    BY <1>0, <2>2 DEF Follows, NoneAfter
  <2> QED BY <2>1, <2>3, <2>4, <2>5, OneTerminal DEF Good
<1>2. CASE ShellOpens(t)
  <2>1. TypeOK' /\ Elsewhere(t)
    BY <1>0, <1>2 DEF ShellOpens, session, browser, TypeOK, Elsewhere
  <2>2. /\ shell[t] = "opening" /\ shell'[t] = "open" /\ socket' = socket
        /\ got[t] = <<>>
    BY <1>2 DEF ShellOpens, TypeOK, Quiet
  <2>3. Quiet(t)'
    BY <1>0, <2>2 DEF Quiet
  <2>4. Numbered(t)'
    BY <1>0, <2>2 DEF Numbered
  <2>5. Follows(t)'
    BY <1>0, <2>2, EmptySeq DEF Follows, NoneAfter
  <2> QED BY <2>1, <2>3, <2>4, <2>5, OneTerminal DEF Good
<1>3. CASE ShellFails(t) \/ ShellEnds(t)
  <2>1. TypeOK' /\ Elsewhere(t)
    BY <1>0, <1>3 DEF ShellFails, ShellEnds, session, browser, TypeOK, Elsewhere
  <2>2. /\ shell[t] \in {"opening", "open"} /\ shell'[t] = "closed" /\ socket'[t] = "closed"
        /\ size' = size /\ dir' = dir
    BY <1>3 DEF ShellFails, ShellEnds, TypeOK
  <2>3. Quiet(t)'
    BY <1>0, <2>2 DEF Quiet
  <2>4. Numbered(t)'
    BY <1>0, <2>2 DEF Numbered
  <2>5. Follows(t)'
    BY <1>0, <2>2 DEF Follows, NoneAfter
  <2> QED BY <2>1, <2>3, <2>4, <2>5, OneTerminal DEF Good
<1> QED BY <1>1, <1>2, <1>3

\* A message is taken from the queue: what is left is numbered from the next, and what was
\* last of its kind on its way is what the shell now has.
LEMMA ReceiveInv ==
  ASSUME IInv, NEW t \in Terminals, Receive(t)
  PROVE  IInv'
<1> USE DEF IInv
<1> DEFINE m == up[t][1]
           k == Len(up'[t])
<1>1. /\ up[t] \in Seq(Message) /\ up[t] # <<>> /\ up'[t] = Tail(up[t])
      /\ got[t] \in Seq(Message)
      /\ UNCHANGED <<registered, link, client, sent, fit, want, cwd, socket, shell>>
  BY DEF Receive, session, browser, TypeOK
<1>2. /\ Tail(up[t]) \in Seq(Message) /\ Head(up[t]) = m /\ m \in Message
      /\ k \in Nat /\ Len(up[t]) = k + 1
      /\ \A i \in 1..k : up'[t][i] = up[t][i + 1]
      /\ up'[t] = <<>> <=> k = 0
  BY <1>1, TailLeaves
<1>3. /\ m.type \in {"key", "cd", "resize"}
      /\ m.type = "resize" => m.size \in Sizes
      /\ m.type = "cd" => m.dir \in Dirs
  BY <1>2, MessageFields DEF Receive
<1> DEFINE Taken ==
             /\ got'[t] = Append(got[t], m)
             /\ size'[t] = IF m.type = "resize" THEN m.size ELSE size[t]
             /\ dir'[t] = IF m.type = "cd" THEN m.dir ELSE dir[t]
<1>4. shell[t] = "open" => Taken
  BY <1>1, <1>2 DEF Receive, Handle, TypeOK
<1>5. shell[t] # "open" => UNCHANGED <<got, size, dir>>
  BY DEF Receive
<1>6. TypeOK' /\ Elsewhere(t)
  <2>1. up' \in [Terminals -> Seq(Message)] /\ \A u \in Terminals \ {t} : up'[u] = up[u]
    BY <1>1, <1>2 DEF Receive, TypeOK
  <2>2. CASE shell[t] = "open"
    <3>1. /\ got' = [got EXCEPT ![t] = Append(@, m)]
          /\ size' = IF m.type = "resize" THEN [size EXCEPT ![t] = m.size] ELSE size
          /\ dir' = IF m.type = "cd" THEN [dir EXCEPT ![t] = m.dir] ELSE dir
      BY <1>2, <2>2 DEF Receive, Handle
    <3> HIDE DEF m
    <3>2. Append(got[t], m) \in Seq(Message)
      BY <1>1, <1>2, AppendProperties
    <3>3. /\ got' \in [Terminals -> Seq(Message)]
          /\ size' \in [Terminals -> Sizes \cup {Size80x24}]
          /\ dir' \in [Terminals -> Dirs \cup {Home}]
          /\ \A u \in Terminals \ {t} : got'[u] = got[u] /\ size'[u] = size[u] /\ dir'[u] = dir[u]
      BY <1>3, <3>1, <3>2 DEF TypeOK
    <3> QED BY <1>1, <2>1, <3>3 DEF TypeOK, Elsewhere
  <2>3. CASE shell[t] # "open"
    BY <1>1, <1>5, <2>1, <2>3 DEF TypeOK, Elsewhere
  <2> QED BY <2>2, <2>3
<1> HIDE DEF m
<1>7. shell[t] = "open" => socket[t] = "open" /\ client[t] \in {"open", "closed"}
  BY <1>1 DEF Quiet, TypeOK
<1>8. Quiet(t)'
  <2>1. client[t] \in {"open", "closed"}
    BY <1>1 DEF Quiet, TypeOK
  <2> QED BY <2>1, <1>1, <1>5, <1>7 DEF Quiet
<1> HIDE DEF k
<1>9. /\ \A i \in 1..k : up'[t][i].type = "close" => i = k /\ client'[t] = "closed"
      /\ \A i \in 1..k - 1 : up'[t][i + 1].type # "close" => up'[t][i + 1].n = up'[t][i].n + 1
      /\ k # 0 /\ up'[t][k].type # "close" => up'[t][k].n = sent[t]
      /\ k # 0 /\ up'[t][1].type # "close" => up'[t][1].n = m.n + 1
      /\ k = 0 => m.n = sent[t]
  <2>1. ASSUME NEW i \in 1..k
        PROVE  /\ i + 1 \in 1..Len(up[t]) /\ i \in 1..Len(up[t]) - 1
               /\ up'[t][i] = up[t][i + 1]
    BY <1>2
  <2>2. \A i \in 1..k : up'[t][i].type = "close" => i = k /\ client'[t] = "closed"
    BY <2>1, <1>1, <1>2 DEF Numbered
  <2>3. ASSUME NEW i \in 1..k - 1, up'[t][i + 1].type # "close"
        PROVE  up'[t][i + 1].n = up'[t][i].n + 1
    <3>0. k \in Nat
      BY <1>2
    <3>1. i \in 1..k /\ i + 1 \in 1..k
      BY <3>0
    <3> QED BY <2>1, <2>3, <3>1 DEF Numbered
  <2>4. k # 0 /\ up'[t][k].type # "close" => up'[t][k].n = sent[t]
    BY <2>1, <1>1, <1>2 DEF Numbered
  <2>5. k # 0 /\ up'[t][1].type # "close" => up'[t][1].n = m.n + 1
    BY <2>1, <1>2 DEF Numbered, m
  <2>6. k = 0 => m.n = sent[t]
    BY <1>1, <1>2, <1>3 DEF Numbered, m
  <2> QED BY <2>2, <2>3, <2>4, <2>5, <2>6
<1>10. Numbered(t)'
  <2>1. CASE shell[t] # "open"
    BY <2>1, <1>1, <1>2, <1>5, <1>9 DEF Numbered, k
  <2>2. CASE shell[t] = "open"
    <3> DEFINE g == Len(got[t])
    <3>1. /\ got'[t] # <<>> /\ g \in Nat /\ Len(got'[t]) = g + 1 /\ got'[t][g + 1] = m
          /\ \A i \in 1..g : got'[t][i] = got[t][i]
          /\ got[t] = <<>> <=> g = 0
      <4> DEFINE before == got[t]
                 after == got'[t]
      <4>1. before \in Seq(Message) /\ after = Append(before, m) /\ m \in Message
        BY <1>1, <1>2, <1>4, <2>2
      <4> HIDE DEF before, after
      <4>2. /\ after # <<>> /\ Len(before) \in Nat /\ Len(after) = Len(before) + 1
            /\ after[Len(before) + 1] = m
            /\ \A i \in 1..Len(before) : after[i] = before[i]
            /\ before = <<>> <=> Len(before) = 0
        BY <4>1, AppendLeaves
      <4> QED BY <4>2 DEF before, after
    <3> HIDE DEF g
    <3>2. \A i \in 1..Len(got'[t]) : got'[t][i].type # "close"
      BY <1>3, <3>1 DEF Numbered, g
    <3>3. g # 0 => m.n = got[t][g].n + 1
      BY <2>2, <3>1, <1>1, <1>3 DEF Numbered, g, m
    <3>4. ASSUME NEW i \in 1..Len(got'[t]) - 1
          PROVE  got'[t][i + 1].n = got'[t][i].n + 1
      <4>1. CASE i = g
        BY <4>1, <3>1, <3>3
      <4>2. CASE i # g
        <5>1. i \in 1..g - 1 /\ i + 1 \in 1..g /\ i \in 1..g
          BY <4>2, <3>1
        <5> QED BY <5>1, <3>1 DEF Numbered, g
      <4> QED BY <4>1, <4>2
    <3> QED BY <1>1, <1>2, <1>9, <3>1, <3>2, <3>4 DEF Numbered, k
  <2> QED BY <2>1, <2>2
<1>11. Follows(t)'
  <2>1. ASSUME NEW i \in 1..k
        PROVE  i + 1 \in 1..Len(up[t]) /\ up'[t][i] = up[t][i + 1]
    BY <1>2
  <2>2. ASSUME NEW i \in 1..k, NEW type, NoneAfter(t, i, type)'
        PROVE  NoneAfter(t, i + 1, type)
    <3> SUFFICES ASSUME NEW j \in i + 2..k + 1
                 PROVE  up[t][j].type # type
      BY <1>2 DEF NoneAfter
    <3>1. j - 1 \in i + 1..k /\ j - 1 \in 1..k /\ (j - 1) + 1 = j
      BY <1>2
    <3> QED BY <3>1, <2>1, <2>2 DEF NoneAfter, k
  <2>3. ASSUME NEW type, NoneAfter(t, 0, type)'
        PROVE  NoneAfter(t, 1, type)
    <3> SUFFICES ASSUME NEW j \in 2..k + 1
                 PROVE  up[t][j].type # type
      BY <1>2 DEF NoneAfter
    <3>1. j - 1 \in 0 + 1..k /\ j - 1 \in 1..k /\ (j - 1) + 1 = j
      BY <1>2
    <3>2. up'[t][j - 1].type # type
      BY <3>1, <2>3 DEF NoneAfter, k
    <3> QED BY <3>1, <3>2, <2>1
  <2>4. ASSUME NEW i \in 1..k, up'[t][i].type = "resize", NoneAfter(t, i, "resize")'
        PROVE  up'[t][i].size = fit'[t]
    BY <2>1, <2>2, <2>4, <1>1 DEF Follows
  <2>5. ASSUME NEW i \in 1..k, up'[t][i].type = "cd", NoneAfter(t, i, "cd")'
        PROVE  up'[t][i].dir = want'[t]
    BY <2>1, <2>2, <2>5, <1>1 DEF Follows
  <2>6. ASSUME shell[t] = "open", NEW type, NoneAfter(t, 0, type)',
               \E i \in 1..Len(got'[t]) : got'[t][i].type = type
        PROVE  \/ m.type = type /\ 1 \in 1..Len(up[t]) /\ NoneAfter(t, 1, type)
               \/ /\ m.type # type /\ NoneAfter(t, 0, type)
                  /\ \E i \in 1..Len(got[t]) : got[t][i].type = type
    <3>1. CASE m.type = type
      BY <3>1, <2>3, <2>6, <1>2
    <3>2. CASE m.type # type
      <4>1. NoneAfter(t, 0, type)
        <5> SUFFICES ASSUME NEW j \in 1..k + 1
                     PROVE  up[t][j].type # type
          BY <1>2 DEF NoneAfter
        <5>1. CASE j = 1
          BY <3>2, <5>1 DEF m
        <5>2. CASE j # 1
          <6>1. NoneAfter(t, 1, type) /\ j \in 1 + 1..Len(up[t])
            BY <2>3, <2>6, <5>2, <1>2
          <6> QED BY <6>1 DEF NoneAfter
        <5> QED BY <5>1, <5>2
      <4>2. PICK i \in 1..Len(got'[t]) : got'[t][i].type = type
        BY <2>6
      <4>3. i \in 1..Len(got[t]) /\ got[t][i].type = type
        <5>1. got'[t] = Append(got[t], m)
          BY <2>6, <1>4
        <5>2. /\ Len(got[t]) \in Nat
              /\ Len(got'[t]) = Len(got[t]) + 1 /\ got'[t][Len(got[t]) + 1] = m
              /\ \A j \in 1..Len(got[t]) : got'[t][j] = got[t][j]
          BY <5>1, <1>1, <1>2, AppendLeaves
        <5> QED BY <4>2, <3>2, <5>2
      <4> QED BY <3>2, <4>1, <4>3
    <3> QED BY <3>1, <3>2
  <2>7. ASSUME shell[t] = "open", NoneAfter(t, 0, "resize")',
               \E i \in 1..Len(got'[t]) : got'[t][i].type = "resize"
        PROVE  size'[t] = fit'[t]
    <3>1. \/ m.type = "resize" /\ 1 \in 1..Len(up[t]) /\ NoneAfter(t, 1, "resize")
          \/ /\ m.type # "resize" /\ NoneAfter(t, 0, "resize")
             /\ \E i \in 1..Len(got[t]) : got[t][i].type = "resize"
      BY <2>6, <2>7
    <3>2. CASE m.type = "resize" /\ 1 \in 1..Len(up[t]) /\ NoneAfter(t, 1, "resize")
      BY <2>7, <3>2, <1>1, <1>4 DEF Follows, m
    <3>3. CASE /\ m.type # "resize" /\ NoneAfter(t, 0, "resize")
               /\ \E i \in 1..Len(got[t]) : got[t][i].type = "resize"
      BY <2>7, <3>3, <1>1, <1>4 DEF Follows
    <3> QED BY <3>1, <3>2, <3>3
  <2>8. ASSUME shell[t] = "open", NoneAfter(t, 0, "cd")',
               \E i \in 1..Len(got'[t]) : got'[t][i].type = "cd"
        PROVE  dir'[t] = want'[t]
    <3>1. \/ m.type = "cd" /\ 1 \in 1..Len(up[t]) /\ NoneAfter(t, 1, "cd")
          \/ /\ m.type # "cd" /\ NoneAfter(t, 0, "cd")
             /\ \E i \in 1..Len(got[t]) : got[t][i].type = "cd"
      BY <2>6, <2>8
    <3>2. CASE m.type = "cd" /\ 1 \in 1..Len(up[t]) /\ NoneAfter(t, 1, "cd")
      BY <2>8, <3>2, <1>1, <1>4 DEF Follows, m
    <3>3. CASE /\ m.type # "cd" /\ NoneAfter(t, 0, "cd")
               /\ \E i \in 1..Len(got[t]) : got[t][i].type = "cd"
      BY <2>8, <3>3, <1>1, <1>4 DEF Follows
    <3> QED BY <3>1, <3>2, <3>3
  <2> QED BY <2>4, <2>5, <2>7, <2>8, <1>1 DEF Follows, k
<1> QED BY <1>6, <1>8, <1>10, <1>11, OneTerminal DEF Good

\* Behind a close there is nothing.
LEMMA ReceiveCloseInv ==
  ASSUME IInv, NEW t \in Terminals, ReceiveClose(t)
  PROVE  IInv'
<1> USE DEF IInv
<1>1. /\ up[t] \in Seq(Message) /\ up[t] # <<>> /\ up'[t] = Tail(up[t])
      /\ Head(up[t]).type = "close"
      /\ socket'[t] = "closed" /\ shell'[t] # "open"
      /\ shell[t] # "open" => shell'[t] = shell[t]
      /\ shell[t] = "open" => shell'[t] = "closed"
      /\ UNCHANGED <<registered, link, client, sent, fit, want, cwd, size, dir, got>>
  BY DEF ReceiveClose, session, browser, TypeOK
<1>2. /\ Tail(up[t]) \in Seq(Message) /\ up[t][1].type = "close" /\ 1 \in 1..Len(up[t])
      /\ Tail(up[t]) = <<>> <=> Len(up[t]) = 1
  BY <1>1, TailLeaves
<1>3. client[t] = "closed" /\ up'[t] = <<>>
  BY <1>1, <1>2 DEF Numbered
<1>4. TypeOK' /\ Elsewhere(t)
  <2>1. up' \in [Terminals -> Seq(Message)] /\ \A u \in Terminals \ {t} : up'[u] = up[u]
    BY <1>1, <1>2 DEF ReceiveClose, TypeOK
  <2>2. /\ socket' \in [Terminals -> {"none", "open", "closed"}]
        /\ shell' \in [Terminals -> {"none", "opening", "open", "closed"}]
        /\ \A u \in Terminals \ {t} : socket'[u] = socket[u] /\ shell'[u] = shell[u]
    BY DEF ReceiveClose, TypeOK
  <2> QED BY <1>1, <2>1, <2>2 DEF TypeOK, Elsewhere
<1>5. Quiet(t)'
  BY <1>1, <1>3 DEF Quiet
<1>6. Numbered(t)'
  BY <1>1, <1>3, EmptySeq DEF Numbered
<1>7. Follows(t)'
  <2>1. Len(up'[t]) = 0 /\ shell'[t] # "open"
    BY <1>1, <1>3, EmptySeq
  <2> QED BY <2>1 DEF Follows
<1> QED BY <1>4, <1>5, <1>6, <1>7, OneTerminal DEF Good

----------------------------------------------------------------------------
LEMMA TerminalNext == IInv /\ [Next]_vars => IInv'
<1> SUFFICES ASSUME IInv, [Next]_vars
             PROVE  IInv'
  OBVIOUS
<1>1. ASSUME \/ UNCHANGED vars
             \/ Disconnect \/ Drop
      PROVE  IInv'
  <2>1. /\ UNCHANGED <<client, socket, shell, up, sent, fit, want, cwd, size, dir, got>>
        /\ registered' \in BOOLEAN /\ link' \in {"open", "closed"}
    BY <1>1 DEF vars, Disconnect, Drop, session, browser, pty, IInv, TypeOK
  <2>2. TypeOK'
    BY <2>1 DEF IInv, TypeOK
  <2>3. \A t \in Terminals : Good(t)'
    BY <2>1, Untouched DEF IInv, Good
  <2> QED BY <2>2, <2>3 DEF IInv, Good
<1>2. ASSUME NEW t \in Terminals, BrowserStep(t)
      PROVE  IInv'
  <2>1. ASSUME NEW s \in Sizes, Resize(t, s)
        PROVE  IInv'
    BY <2>1, UnsentInv, SendInv DEF Resize
  <2>2. ASSUME NEW d \in Dirs, Retarget(t, d)
        PROVE  IInv'
    BY <2>2, UnsentInv, SendInv DEF Retarget
  <2> QED BY <1>2, <2>1, <2>2, UnsentInv, SendInv, UnmountInv, OnCloseInv DEF BrowserStep
<1>3. ASSUME NEW t \in Terminals, GatewayStep(t)
      PROVE  IInv'
  BY <1>3, ShellInv, ReceiveInv, ReceiveCloseInv DEF GatewayStep
<1> QED BY <1>1, <1>2, <1>3 DEF Next

LEMMA TerminalInvariance == Spec => []IInv
<1> QED BY TerminalInit, TerminalNext, PTL DEF Spec

----------------------------------------------------------------------------
\* Type correctness of the terminals: queues hold messages only, and a terminal that has not
\* connected has numbered none.
THEOREM TypeCorrect == Spec => []TypeOK
<1>1. IInv => TypeOK
  BY DEF IInv
<1> QED BY <1>1, TerminalInvariance, PTL

\* The input of a shell has no gap (the bridge's 'message' listener, attached once the shell is
\* open): with any number of messages on their way, what the shell was given is a run of
\* consecutive messages.
THEOREM NoGapInInput == Spec => []InputInOrder
<1>1. IInv => InputInOrder
  BY DEF IInv, Numbered, InputInOrder
<1> QED BY <1>1, TerminalInvariance, PTL

\* The bridge closes the WebSocket with the shell and the shell with the WebSocket: a shell
\* without one is left only by a close that came before it was open, and nothing was typed in it.
THEOREM NoShellWithoutSocket == Spec => []ShellsHaveSockets
<1>1. IInv => ShellsHaveSockets
  BY DEF IInv, Quiet, ShellsHaveSockets
<1> QED BY <1>1, TerminalInvariance, PTL

\* resize and "Open in terminal", sent in the order of the keys, reach the shell to the last.
THEOREM ShellKeepsUp == Spec => []ShellFollowsWindow
<1>1. IInv => ShellFollowsWindow
  <2> SUFFICES ASSUME IInv, NEW t \in Terminals, shell[t] = "open", up[t] = <<>>
               PROVE  /\ (\E i \in DOMAIN got[t] : got[t][i].type = "resize") => size[t] = fit[t]
                      /\ (\E i \in DOMAIN got[t] : got[t][i].type = "cd") => dir[t] = want[t]
    BY DEF ShellFollowsWindow
  <2>1. DOMAIN got[t] = 1..Len(got[t])
    BY LenProperties DEF IInv, TypeOK
  <2>2. \A type : NoneAfter(t, 0, type)
    BY EmptySeq DEF NoneAfter
  <2> QED BY <2>1, <2>2 DEF IInv, Follows
<1> QED BY <1>1, TerminalInvariance, PTL
=============================================================================
