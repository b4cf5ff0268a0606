------------------------------ MODULE Terminal ------------------------------
(***************************************************************************)
(* The Terminal app (web), the WebSocket bridge (packages/server/terminal) *)
(* and the PTY it opens on a session.  A terminal is one mounted Terminal  *)
(* window: it has one WebSocket, and the gateway opens one shell for it.   *)
(*                                                                         *)
(* The WebSocket keeps order in each direction.  The bridge listens to it  *)
(* only once its shell is open; what arrives before that finds no          *)
(* listener and is lost, the end of the WebSocket as well.                 *)
(***************************************************************************)
EXTENDS Integers, Sequences

CONSTANTS
  Terminals,
  Sizes,        \* sizes the window can have (cols and rows)
  Size80x24,    \* the size the bridge opens a shell with
  Dirs,         \* directories of "Open in terminal"
  Home,         \* where a shell starts without one
  MaxSent       \* bound on the messages a terminal sends

ASSUME MaxSentAssumption == MaxSent \in Nat

VARIABLES
  registered,   \* the session is in the SessionManager
  link,         \* its SSH connection
  client,       \* the browser's end of each WebSocket
  socket,       \* the gateway's end
  shell,        \* the PTY the gateway opened for it
  up,           \* messages on their way to the gateway
  sent,         \* how many messages the browser has sent
  fit,          \* the size of the window
  want,         \* the directory the user last asked the terminal for
  cwd,          \* the directory in the URL of the WebSocket
  size,         \* the size of the PTY
  dir,          \* where the shell is
  got           \* the messages the shell was given

session == <<registered, link>>
browser == <<client, sent, fit, want, cwd>>
pty == <<shell, size, dir, got>>
vars == <<session, browser, socket, pty, up>>

Message == [n : 1..MaxSent + 1, type : {"key"}]
           \cup [n : 1..MaxSent + 1, type : {"cd"}, dir : Dirs]
           \cup [n : 1..MaxSent + 1, type : {"resize"}, size : Sizes]
           \cup [type : {"close"}]

TypeOK ==
  /\ registered \in BOOLEAN
  /\ link \in {"open", "closed"}
  /\ client \in [Terminals -> {"unmounted", "connecting", "open", "closed"}]
  /\ socket \in [Terminals -> {"none", "open", "closed"}]
  /\ shell \in [Terminals -> {"none", "opening", "open", "closed"}]
  /\ up \in [Terminals -> Seq(Message)]
  /\ sent \in [Terminals -> 0..MaxSent + 1]
  /\ fit \in [Terminals -> Sizes]
  /\ want \in [Terminals -> Dirs \cup {Home}]
  /\ cwd \in [Terminals -> Dirs \cup {Home}]
  /\ size \in [Terminals -> Sizes \cup {Size80x24}]
  /\ dir \in [Terminals -> Dirs \cup {Home}]
  /\ got \in [Terminals -> Seq(Message)]

Init ==
  /\ registered = TRUE
  /\ link = "open"
  /\ client = [t \in Terminals |-> "unmounted"]
  /\ socket = [t \in Terminals |-> "none"]
  /\ shell = [t \in Terminals |-> "none"]
  /\ up = [t \in Terminals |-> <<>>]
  /\ sent = [t \in Terminals |-> 0]
  /\ fit \in [Terminals -> Sizes]
  /\ want = [t \in Terminals |-> Home]
  /\ cwd = [t \in Terminals |-> Home]
  /\ size = [t \in Terminals |-> Size80x24]
  /\ dir = [t \in Terminals |-> Home]
  /\ got = [t \in Terminals |-> <<>>]

----------------------------------------------------------------------------
(* TerminalApp.                                                            *)

\* Mutant: a resize overtakes what is on its way.
PutUrgent(t, message) ==
  up' = [up EXCEPT ![t] = IF message.type = "resize" THEN <<message>> \o @
                          ELSE Append(@, message)]

\* The WebSocket's send, and its close when the window unmounts.
Put(t, message) == up' = [up EXCEPT ![t] = Append(@, message)]

Send(t, message) ==
  /\ sent' = [sent EXCEPT ![t] = message.n]
  /\ Put(t, message)

\* The effect opens the WebSocket, with the directory asked for in its URL.
Mount(t, d) ==
  /\ client[t] = "unmounted"
  /\ client' = [client EXCEPT ![t] = "connecting"]
  /\ want' = [want EXCEPT ![t] = d]
  /\ cwd' = [cwd EXCEPT ![t] = d]
  /\ UNCHANGED <<session, socket, pty, up, sent, fit>>

\* ws.onopen: the size of the window is the first message.
OnOpen(t) ==
  /\ client[t] = "connecting"
  /\ socket[t] = "open"
  /\ client' = [client EXCEPT ![t] = "open"]
  /\ Send(t, [n |-> sent[t] + 1, type |-> "resize", size |-> fit[t]])
  /\ UNCHANGED <<session, socket, pty, fit, want, cwd>>

\* term.onData.
Key(t) ==
  /\ client[t] = "open" /\ sent[t] < MaxSent
  /\ Send(t, [n |-> sent[t] + 1, type |-> "key"])
  /\ UNCHANGED <<session, socket, pty, client, fit, want, cwd>>

\* The ResizeObserver: the new size is sent if the WebSocket is open.
Resize(t, s) ==
  /\ client[t] \in {"connecting", "open"} /\ s # fit[t] /\ sent[t] < MaxSent
  /\ fit' = [fit EXCEPT ![t] = s]
  /\ IF client[t] = "open"
     THEN Send(t, [n |-> sent[t] + 1, type |-> "resize", size |-> s])
     ELSE UNCHANGED <<sent, up>>
  /\ UNCHANGED <<session, socket, pty, client, want, cwd>>

\* "Open in terminal" while the window exists: a cd, if the WebSocket is open.
Retarget(t, d) ==
  /\ client[t] \in {"connecting", "open"} /\ sent[t] < MaxSent
  /\ want' = [want EXCEPT ![t] = d]
  /\ IF client[t] = "open"
     THEN Send(t, [n |-> sent[t] + 1, type |-> "cd", dir |-> d])
     ELSE UNCHANGED <<sent, up>>
  /\ UNCHANGED <<session, socket, pty, client, fit, cwd>>

\* The window is closed or minimised: the effect's cleanup.
Unmount(t) ==
  /\ client[t] \in {"connecting", "open"}
  /\ client' = [client EXCEPT ![t] = "closed"]
  /\ Put(t, [type |-> "close"])
  /\ UNCHANGED <<session, socket, pty, sent, fit, want, cwd>>

\* ws.onclose: "[disconnected]".
OnClose(t) ==
  /\ client[t] \in {"connecting", "open"}
  /\ socket[t] = "closed"
  /\ client' = [client EXCEPT ![t] = "closed"]
  /\ UNCHANGED <<session, socket, pty, up, sent, fit, want, cwd>>

----------------------------------------------------------------------------
(* attachTerminal and bridge.                                              *)

\* The upgrade: an unknown session's socket is destroyed, else a shell is opened.
Upgrade(t) ==
  /\ client[t] # "unmounted" /\ socket[t] = "none"
  /\ IF registered
     THEN /\ socket' = [socket EXCEPT ![t] = "open"]
          /\ shell' = [shell EXCEPT ![t] = "opening"]
     ELSE socket' = [socket EXCEPT ![t] = "closed"] /\ UNCHANGED shell
  /\ UNCHANGED <<session, browser, up, size, dir, got>>

\* openPty(80, 24, cwd) resolved: cd is the first input, then the listeners are attached.
ShellOpens(t) ==
  /\ shell[t] = "opening" /\ link = "open"
  /\ shell' = [shell EXCEPT ![t] = "open"]
  /\ size' = [size EXCEPT ![t] = Size80x24]
  /\ dir' = [dir EXCEPT ![t] = cwd[t]]
  /\ UNCHANGED <<session, browser, socket, up, got>>

\* openPty rejected, or the shell ended: ws.close().
ShellFails(t) ==
  /\ shell[t] = "opening"
  /\ shell' = [shell EXCEPT ![t] = "closed"]
  /\ socket' = [socket EXCEPT ![t] = "closed"]
  /\ UNCHANGED <<session, browser, up, size, dir, got>>

\* Mutant: the WebSocket is not closed with the shell.
ShellEndsQuietly(t) ==
  /\ shell[t] = "open"
  /\ shell' = [shell EXCEPT ![t] = "closed"]
  /\ UNCHANGED <<session, browser, socket, up, size, dir, got>>

ShellEnds(t) ==
  /\ shell[t] = "open"
  /\ shell' = [shell EXCEPT ![t] = "closed"]
  /\ socket' = [socket EXCEPT ![t] = "closed"]
  /\ UNCHANGED <<session, browser, up, size, dir, got>>

\* Mutants: the PTY is resized once; the fields of a message are mixed up.
HandleFirstSize(t, m) ==
  /\ got' = [got EXCEPT ![t] = Append(@, m)]
  /\ size' = IF m.type = "resize" /\ size[t] = Size80x24
             THEN [size EXCEPT ![t] = m.size] ELSE size
  /\ dir' = IF m.type = "cd" THEN [dir EXCEPT ![t] = m.dir] ELSE dir
HandleMixed(t, m) ==
  /\ got' = [got EXCEPT ![t] = Append(@, m)]
  /\ dir' = IF m.type = "resize" THEN [dir EXCEPT ![t] = m.size] ELSE dir
  /\ UNCHANGED size

\* What the 'message' listener does with a message.
Handle(t, m) ==
  /\ got' = [got EXCEPT ![t] = Append(@, m)]
  /\ size' = IF m.type = "resize" THEN [size EXCEPT ![t] = m.size] ELSE size
  /\ dir' = IF m.type = "cd" THEN [dir EXCEPT ![t] = m.dir] ELSE dir

\* A message reaches the gateway: without a shell nobody listens.
Receive(t) ==
  /\ up[t] # <<>> /\ Head(up[t]).type # "close" /\ socket[t] # "none"
  /\ up' = [up EXCEPT ![t] = Tail(@)]
  /\ IF shell[t] = "open" THEN Handle(t, Head(up[t])) ELSE UNCHANGED <<got, size, dir>>
  /\ UNCHANGED <<session, browser, socket, shell>>

\* Mutant: the 'close' listener leaves the shell.
ReceiveCloseOnly(t) ==
  /\ up[t] # <<>> /\ Head(up[t]).type = "close" /\ socket[t] # "none"
  /\ up' = [up EXCEPT ![t] = Tail(@)]
  /\ socket' = [socket EXCEPT ![t] = "closed"]
  /\ UNCHANGED <<session, browser, shell, size, dir, got>>

\* The browser's close reaches the gateway: the 'close' listener, if there is one,
\* closes the shell.
ReceiveClose(t) ==
  /\ up[t] # <<>> /\ Head(up[t]).type = "close" /\ socket[t] # "none"
  /\ up' = [up EXCEPT ![t] = Tail(@)]
  /\ socket' = [socket EXCEPT ![t] = "closed"]
  /\ shell' = IF shell[t] = "open" THEN [shell EXCEPT ![t] = "closed"] ELSE shell
  /\ UNCHANGED <<session, browser, size, dir, got>>

----------------------------------------------------------------------------
(* The session under the terminals: disconnected, or lost.                 *)

Disconnect ==
  /\ registered
  /\ registered' = FALSE
  /\ link' = "closed"
  /\ UNCHANGED <<browser, socket, pty, up>>

Drop ==
  /\ link = "open"
  /\ link' = "closed"
  /\ UNCHANGED <<registered, browser, socket, pty, up>>

----------------------------------------------------------------------------
BrowserStep(t) ==
  \/ \E d \in Dirs \cup {Home} : Mount(t, d)
  \/ OnOpen(t) \/ Key(t) \/ Unmount(t) \/ OnClose(t)
  \/ \E s \in Sizes : Resize(t, s)
  \/ \E d \in Dirs : Retarget(t, d)

GatewayStep(t) ==
  Upgrade(t) \/ ShellOpens(t) \/ ShellFails(t) \/ ShellEnds(t) \/ Receive(t) \/ ReceiveClose(t)

Next ==
  \/ \E t \in Terminals : BrowserStep(t) \/ GatewayStep(t)
  \/ Disconnect
  \/ Drop

\* Messages are delivered and the SSH client settles a shell request; when the connection
\* is gone the channels on it close.  Users do nothing they have to, and a shell need not end.
Fairness ==
  \A t \in Terminals :
    /\ WF_vars(OnOpen(t)) /\ WF_vars(OnClose(t)) /\ WF_vars(Upgrade(t))
    /\ WF_vars(Receive(t)) /\ WF_vars(ReceiveClose(t))
    /\ WF_vars(ShellOpens(t) \/ ShellFails(t))
    /\ WF_vars(link = "closed" /\ ShellEnds(t))

Spec == Init /\ [][Next]_vars
FairSpec == Spec /\ Fairness

----------------------------------------------------------------------------
\* The shell gets what was typed in the order it was typed and with nothing missing in
\* between: what is lost is lost at the beginning, before the shell was open.
InputInOrder ==
  \A t \in Terminals : \A i \in 1..Len(got[t]) - 1 : got[t][i + 1].n = got[t][i].n + 1

\* A shell is open only for a WebSocket that was accepted on a session registered then, and
\* it outlives its WebSocket only if the close came before the shell was open.
ShellsHaveSockets ==
  \A t \in Terminals :
    shell[t] = "open" /\ socket[t] = "closed" => client[t] = "closed" /\ got[t] = <<>>

\* What the shell was given it follows to the last: with nothing on its way, a shell that
\* was ever resized has the size of the window, and one that was ever re-targeted is in
\* the directory asked for last - whatever was asked for, and lost, before it was open.
ShellFollowsWindow ==
  \A t \in Terminals :
    shell[t] = "open" /\ up[t] = <<>> =>
      /\ (\E i \in DOMAIN got[t] : got[t][i].type = "resize") => size[t] = fit[t]
      /\ (\E i \in DOMAIN got[t] : got[t][i].type = "cd") => dir[t] = want[t]

\* What makes these hold, terminal by terminal.  Nothing is sent before the WebSocket is open
\* and nothing given to a shell before it is; a shell whose WebSocket is gone gets nothing more.
Quiet(t) ==
  /\ client[t] = "unmounted" => socket[t] = "none"
  /\ client[t] \in {"unmounted", "connecting"} => sent[t] = 0 /\ up[t] = <<>> /\ got[t] = <<>>
  /\ socket[t] = "none" => shell[t] = "none"
  /\ shell[t] \in {"none", "opening"} => got[t] = <<>>
  /\ socket[t] = "closed" /\ shell[t] \in {"opening", "open"} =>
       client[t] = "closed" /\ up[t] = <<>> /\ got[t] = <<>>

\* The messages on their way are numbered without a gap up to the last one sent, and go on
\* where those the shell was given end; a close is the last of all.
Numbered(t) ==
  /\ \A i \in 1..Len(up[t]) :
       up[t][i].type = "close" => i = Len(up[t]) /\ client[t] = "closed"
  /\ \A i \in 1..Len(up[t]) - 1 :
       up[t][i + 1].type # "close" => up[t][i + 1].n = up[t][i].n + 1
  /\ up[t] # <<>> /\ up[t][Len(up[t])].type # "close" => up[t][Len(up[t])].n = sent[t]
  /\ \A i \in 1..Len(got[t]) : got[t][i].type # "close"
  /\ \A i \in 1..Len(got[t]) - 1 : got[t][i + 1].n = got[t][i].n + 1
  /\ shell[t] = "open" /\ got[t] # <<>> =>
       /\ up[t] # <<>> /\ up[t][1].type # "close" => up[t][1].n = got[t][Len(got[t])].n + 1
       /\ up[t] = <<>> /\ client[t] = "open" => sent[t] = got[t][Len(got[t])].n

\* The last resize on its way carries the size of the window, or else the shell has it, if it
\* was ever resized; the same for the directory.
NoneAfter(t, i, type) == \A j \in i + 1..Len(up[t]) : up[t][j].type # type

Follows(t) ==
  /\ \A i \in 1..Len(up[t]) :
       /\ up[t][i].type = "resize" /\ NoneAfter(t, i, "resize") => up[t][i].size = fit[t]
       /\ up[t][i].type = "cd" /\ NoneAfter(t, i, "cd") => up[t][i].dir = want[t]
  /\ shell[t] = "open" =>
       /\ NoneAfter(t, 0, "resize") /\ (\E i \in 1..Len(got[t]) : got[t][i].type = "resize")
            => size[t] = fit[t]
       /\ NoneAfter(t, 0, "cd") /\ (\E i \in 1..Len(got[t]) : got[t][i].type = "cd")
            => dir[t] = want[t]

IInv == TypeOK /\ \A t \in Terminals : Quiet(t) /\ Numbered(t) /\ Follows(t)

\* The end of the session reaches every terminal: no window stays connected.
SessionEndCloses ==
  \A t \in Terminals : link = "closed" ~> client[t] \in {"unmounted", "closed"}

\* "Real interactive terminal (PTY over SSH) with resizing": the PTY gets the window's size.
SizeReachesShell ==
  \A t \in Terminals :
    client[t] = "open" ~> size[t] = fit[t] \/ client[t] = "closed" \/ link = "closed"
=============================================================================
