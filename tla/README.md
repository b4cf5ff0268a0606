# A TLA+ model of DeskSSH

DeskSSH shows a remote Debian host as a desktop in the browser. A gateway (Node) holds the SSH
connections and answers JSON requests; a web application (React) draws windows whose contents
are those answers; a core library turns "list this directory" into a command and its output
into a value. This directory models the parts of it whose correctness depends on the *order*
in which things happen: requests and answers, connections that drop, dialogs, polls, messages.

Paths below are relative to `src/packages/`.

## 1. The parts of the system

| Part | State it keeps | Operations | Talks to | Modelled in |
|---|---|---|---|---|
| HTTP gateway and sessions: `server/src/gateway.ts`, `session-manager.ts`, `opener.ts`, `known-hosts.ts`, `elevate.ts` | `sessions` (id to session), the known-hosts map and its file, the locals of each handler between two awaits | connect with host key check, capability calls, calls as another user through a transient session, disconnect | SSH session, log, browser (HTTP) | `Gateway`, `SessionContract`, `GatewayProofs` |
| Login flow: `web/.../App.tsx`, `LoginForm.tsx`, `HostKeyDialog.tsx` | one page: the request it waits for, the key to confirm, the session of its desktop | connect, confirm or cancel the key, disconnect, reload | gateway | `Page`, `GatewayProofs` |
| SSH session: `core/src/session/ssh-session.ts` | one connection; open or closed | connect, exec, openPty, close | host | inside `Gateway` and `Terminal` |
| Transparency log: `core/src/transparency/log.ts` | records, next id, listeners | wrapped exec, record, list, subscribe | every command | `Transparency`, `TransparencyProofs` |
| Command history: `web/.../CommandHistoryApp.tsx` | records shown, refresh counter | poll every 3 s, refresh, close, open | gateway, log | `CommandHistory`, `TransparencyProofs` |
| Terminal: `server/src/terminal.ts`, `web/.../TerminalApp.tsx` | a WebSocket, a PTY | mount, key, resize, re-target, unmount | SSH session | `Terminal`, `TerminalProofs` |
| Elevation dialogs: `web/.../useElevation.tsx` | refs of one run, the open dialog, busy | run, apply, cancel | gateway | `Elevation`, `MonitorProofs` |
| System monitor: `web/.../MonitorApp.tsx` | metrics, processes, pending confirmation | poll every 2.5 s, refresh, signal, service action | elevation, gateway | `Monitor`, `MonitorProofs` |
| File manager: `web/.../FilesApp.tsx` | path, entries, clipboard, dialogs | navigate, refresh, cut/copy/paste, rename, new, delete, upload | elevation, gateway | `Files`, `FilesProofs`; its names in `Names`, `Spelling`, `NamesProofs` |
| Editors and viewers: `StallmanApp`, `DocumentsApp`, `ImageViewerApp`, `PdfViewerApp` | file shown, text, status | load, edit, save, unmount | desktop, gateway | `FileApps`, `FileAppsProofs` |
| Desktop and windows: `Desktop.tsx`, `useWindows.ts`, `Window.tsx`, `Taskbar.tsx` | windows, their order and places, the drag and resize refs; targets of the applications | open, focus, minimise, maximise, close, drag, resize | applications | `Windows`, `WindowsProofs`; targets in `FileApps` and `Terminal` |
| Debian adapter and contract: `core/src/adapters/debian.ts`, `shell.ts`, `contract/` | none | commands and parsers | host | file commands and listings in `Names`, `Spelling`; commands by effect in `Files`, `FileApps`, `Monitor` |
| OS detection, privilege probe, sudo wrapper: `adapters/os.ts`, `privilege/elevation.ts` | none | a few commands, a classification | host | one await each, in `Gateway` and `Elevation`; the probe's result in `Elevation`; the wrapper in `Names` |
| System information, settings, credits; static files, command line, harness; UI kit, translations | none that other steps depend on | | | not modelled |

What makes each of them hard, and what must hold in spite of it:

- **Gateway.** A connect is four awaits long (handshake, authentication, OS detection, home
  directory), and other requests, drops and restarts come in between. The trusted key is read
  before the first and written after the second. *A key is stored, and carries the session of
  a connect, only after the user was asked about it; a registered session's host is known; nothing is left open that nobody can close;
  every request is answered.*
- **Login flow.** The page knows of its sessions by memory alone; a request may be lost, the
  tab reloaded, the disconnect never delivered, and other pages do the same beside it. *A key
  is trusted only if it was confirmed in a dialog about that host; a session has somebody who
  can end it, or a page or a request was lost; no desktop loses its session to another page;
  the form becomes usable again.*
- **Log.** Commands of several requests overlap and are recorded when they end; a listener may
  throw in the middle of being told. *A call that ended is in the log, a second time only
  because a listener threw; commands that did not overlap are in order; a listener misses a
  record only behind one that threw.*
- **Terminal.** The gateway listens for messages only after the PTY is open; either side may
  close, and the session may end under both. *Input is not reordered or lost in the middle,
  shell and socket end together, the window learns that the session ended.*
- **Elevation.** One set of refs and one dialog for many runs; a retry reads the refs after
  its await. *A dialog always has an owner, "ok" is never said of a failure, every run ends.*
- **Monitor, history, files.** Answers overtake one another; the answer of an earlier question
  must not replace a later one. *What stays on the screen is what is on the host, but for
  changes the window is not told of.*
- **Files.** Names are checked against the screen, commands run on the host, and the two
  differ. A command may be asked for again, run late, or run without a word of it. *A file's
  content goes only from a path the user agreed to give up, or under an upload.* A name goes through path
  arithmetic, one or two shells, and a listing split at tabs and newlines. *Whatever its
  characters, the command reaches that file, and the listing shows that name.*
- **Editors.** The file shown, the file wanted and the file being saved are three different
  things while requests are out. *A text is never written over another file; the status line
  tells the truth.*
- **Windows.** Two handlers count the stacking order in two ways, and one event may call them
  twice. *The window used last is on top; an application has one window.*

`PROJECT.json` lists every such hazard at its line, with the properties that watch it.

## 2. The modules, and how they correspond to the code

**Gateway.** One *request* is one HTTP request, and also names the connection it opens
(`conn`) and the session it is granted. `pc` is the await its handler is at: for a connect
`handshake`, `auth`, `detectOs`, `readHome`; for a call `elevating` (a transient session is
being opened for another user) and `call`. `attempt` holds the opener's locals; `store` and
`disk` are the known-hosts map and file, `shown` the keys the user was asked about (the client
can only confirm one of these: `App.tsx` sends back the fingerprint it was shown). A host may
present any key at any time. `Crash` and `CrashWhileSaving` end the process between two
steps, or inside the write of the file. `Drop` is the loss of a connection, of which only
`SshSession` takes note. Request parsing and passwords are left out: a malformed request is
answered without touching state, and a wrong password is `ConnectFails`. A transient session
(`elevating`) is opened with `verifyHostKey: () => true`: `ElevateReady` takes any key, and
compares it with none.

**SessionContract** is what a client relies on, without connections, keys or awaits: requests
are granted or refused once, calls begin only on live sessions and are answered once, ended
sessions stay ended, a restart ends everything. `Gateway` implements it under the mapping
`PhaseOf`; the refinement is checked by TLC and proved.

**Page** extends `Gateway` with the browser's side. A page has the connect it waits for
(`asking`, the form's `busy`), the open host key dialog (`prompt`), and the session of its
desktop (`desk`). `Submit` and `Confirm` are connects of `Gateway` made by a page; `Deliver`
is the answer arriving. `leaving` are disconnects on their way: `handleDisconnect` waits for
none, so they arrive at any later time, or are lost (`DisconnectLost`). `FetchFails` and
`Reload` lose an answer the gateway may have acted on. `confirmed` and `forsaken` are history:
which keys a user confirmed for which host, and which requests were lost. The steps of
`Gateway` run beside the pages, restarts included. A page starts with `confirmed = shown`,
as an earlier page may have left the known-hosts file.

**Transparency** models `TransparencyLog` and `withTransparency`. A time is a counter of
starts and ends; a record keeps which call it is for and how it ended. `record` appends an
entry and calls the listeners in the order they were added (`ahead`), until one throws: then
the others are not called and `record` throws too. As it is called inside the `try` of
`exec`, `Return` with a listener that throws makes a second record of the call, as one that
failed, and fails it. `heard` and `threw` are history: who was called with which record, and
who threw at it.
**CommandHistory** extends it with the polling effect: `tick` is the run of the effect, and an
answer that belongs to an earlier run is ignored. `Close` is closing or minimising the window
(both unmount the application), `Reopen` is a new one, which shows nothing yet while the
questions of the old one are still out.

**Terminal** has the browser's end of the WebSocket, the gateway's end, the PTY and a queue of
messages between them. `Receive` drops a message that arrives before the PTY is open, as the
code does: its listener is attached only then. Shell output goes one way and decides nothing.

**Elevation** has one record for each `run(action)` and each retry, and the hook's refs as
`current`. Whether the action fails, is denied or throws is a free choice; so is what the
privilege probe finds out about the user, and `Dialog` is the code's choice of dialog for it.
**Monitor** extends it with the application whose actions it runs: confirmation, the action's
effect on the host (which may happen though the answer is an error or never comes), the
reload, and the polls. `Monitor` wraps each step of `Elevation` so that "ok" is said only of
an action that ran on the host.

**Files** has the host's files (`fs`), the directory shown and its names, the listings on
their way, the operations (`op`: the commands still to do, and the path the user agreed to
delete or replace) and the requests (`req`), each for one command of an operation. A name is a
base and the numbers `uniqueName` put after it. `mv -n`, `cp -n` and `touch` leave what is in
the way. `Run` lets a command be denied, fail and change nothing, or - in the plans with
`lose` - fail though it ran, or ran in part (`Partly`): a lost connection gives `exec` no exit
code, and `> path` empties the file before `base64` writes. Denied, an operation is *asking*:
the refs of `useElevation` hold it. `Retry` may be taken again and again, as Enter does not
look at `busy`; `CancelElevation` ends the operation whatever becomes of its retries;
`AnswerRetry` gives a success to the operation the refs hold by then. `Lose` is an answer that
does not come; the command then runs late or not at all (`RunUnheard`). `Reopen` is the window
closed or minimised, which unmounts FilesApp, and opened again: the answers of the old window
still carry its operations on, but reload nothing. `unseen` is history: the changes since the
window last asked for a listing, by the request whose answer will make it ask, or `None` if
none will. Which of the elevation dialogs is shown is in `Elevation`.

**Names** has the pure functions a name passes through: `joinPath`, `parentPath`, `baseName`,
`uniqueName`, `quote`, the command lines of the adapter, `withElevation`, and `parseListDir`
under `runParsed`. A string is a sequence of characters. `Shell` (how a POSIX shell splits a
line into words) and `FoundLine` (what `find -printf` prints) are external and are what the
functions are compared with, for all names up to `MaxName` of the characters that matter:
quote, backslash, blank, `$`, `>`, dot, slash, tab, newline. **Spelling** joins them to the
steps of `Files` where they are used: when files change, the command line was read as meant;
when names are put together, paths and free names are right; when a listing is shown, it has
the directory's names. What is said of the functions depends on no variable, so TLC evaluates
it once; the steps only say where the code relies on it.

**FileApps** is one of four applications, the desktop's target for it and its window. A text
is the file it came from and a version number. `Unmount` stands for close and minimise, which
both unmount the application. The image viewer refuses a name that is not an image's (`Images`)
without loading it. The editors share save and load; the PDF viewer has a second
await (parsing) whose document has to be destroyed.

**Windows** has the windows of `useWindows` with one coordinate for place and size, `topZ`,
the module's `windowSeq`, and as `grips` the drag and resize refs of `Window`, which live as
long as the component is shown. An action is one event, with all the handlers it bubbles to:
a pointer down on the title bar calls `focus` twice. `newer` is history: which window was used
after which. `NewDesktop` is a disconnect and another login on the same page.

## 3. The runs

| Run | Asks | Instance |
|---|---|---|
| `gateway` | host keys, sessions, connections stay consistent; `Gateway` implements `SessionContract` | 3 requests, 2 hosts, 2 keys, with symmetry |
| `page` | keys come from confirmations, sessions have pages, forms and requests settle | 2 pages, 3 requests, 1 host, 2 keys; liveness, no symmetry |
| `command_history` | the log and the application that polls it | 2 calls, 2 listeners of which one throws once, 2 polls, 1 refresh or reopening |
| `terminal` | input order, shells and sockets, session end | 1 terminal, 2 sizes, 2 directories, 3 messages |
| `elevation` | elevation dialogs under the monitor, and its list of processes | 2 runs, 2 retries at once, 1 poll at once, 2 reloads |
| `files` | the settled screen is true, nothing is lost unasked, names survive the way to the host and back | 2 directories, 1 name and its variants, 2 listings, 2 operations, 2 requests, 2 windows; names of up to 3 characters |
| `file_apps` | four applications with overlapping loads and saves | 2 files, 2 loads, 2 saves, 2 typed texts |
| `windows` | the stacking order is the order of use; one window for an application | 3 applications, 4 windows one after another |
| `terminal_size` | finding: the first size is lost | 1 terminal |
| `elevation_result` | finding: a run gets another's result | 2 runs, 2 retries |
| `files_replace` | finding: Replace removes its own source | 1 operation |
| `editor_unsaved` | finding: text typed while saving is not marked | the code editor |

Why the bounds are enough:

- *Gateway*: the longest conflict has three parties: a session, a call on it and a second
  connect (or disconnect) to the same host. Two keys tell "the known key" from "another".
  Requests are not reused, so three of them bound the history; the proofs remove the bound.
- *Page*: three requests are a connect that shows the key, the confirmed one, and a call or
  the other page's login. Two pages have desktops at once; a third is one of them reloaded
  while the requests of the earlier one are still running.
- *CommandHistory*: two commands overlap or do not; of two listeners one is before the other,
  and one throw (`MaxThrows`) gives a call its second record; two polls can overtake each other; one
  refresh, or one window opened again, makes an earlier and a later run of the effect
  (`MaxTick`).
- *Terminal*: terminals share only the session, so one is enough; three messages are what it
  takes to lose one, deliver one and have one on its way (`MaxSent`).
- *Elevation, Monitor*: the refs change owner with the second run; retries come back after
  they end, so `Retries` bounds how many overlap, not how many there are. `MaxTick` leaves
  every run its reload; a refresh fits in when a run fails. With one poll outstanding an
  answer can still outlive the effect that asked.
- *Files*: `Plans` lists which kinds of choice (paste, rename, upload, ...) one behaviour may
  combine, and which trouble may come in: commands denied (`elevate`), answers lost or commands
  done in part (`lose`), the window opened again (`reopen`), "Keep both" (`keepBoth`); the
  proofs hold for all of them together. `CanAct` allows a choice while an operation is left for
  it: any two operations of one plan overlap. Two requests (`Requests`) are a retry beside
  another, or beside the request of the other operation; they are used again once answered. A
  second window (`MaxWindow`) has an earlier one behind it. Conflicts are about one name, so one base name is enough. A name of
  three characters (`MaxName`) has one special character at each end, two in a row, or one in
  the middle; the functions read a string one character at a time.
- *FileApps*: two files make one that overtakes the other; `MaxVersion` 2 makes a text typed
  before and one typed after a save is sent.
- *Windows*: with three windows one goes between two others; `MaxZ` 6 is each of them used
  twice over; a fourth window (`MaxOpened`) is an application closed and opened again, or one
  of a second desktop. The proofs remove these bounds.

`CHECK_DEADLOCK FALSE` is in the runs where the user may stop with nothing on its way.

### Fairness

- `Gateway`, as used by `page`: opening a connection always settles (`readyTimeout`), and a
  command the host accepted ends or its connection drops. The second is an assumption about
  the host: the code sets no timeout on `exec`, and without it no request is sure to be
  answered. The first rests on the library: a connection that closes before 'ready' is taken to
  report an error, as on a 'close' alone `open` would settle nothing
  (`core/src/session/ssh-session.ts:87-89`).
- `Page`: an answer that exists arrives, unless the request is lost first; a disconnect is
  delivered or lost. No button has to be pressed, and no page has to be reloaded.
- `CommandHistory`, `Monitor`: intervals keep firing while the window is open; each request is
  answered or fails; a request made again and again succeeds again and again (strong fairness
  on that outcome).
- `Terminal`: sockets open, messages and closes are delivered, `openPty` settles, shells of a
  closed connection end.
- `Elevation`: requests are answered or fail, and the user does not leave a dialog open for
  ever. A retry that was sent is answered; the user may never press the button, or always.

## 4. What is proved

TLAPS checks the following for every value of the constants: every safety property of the
runs, invariant or action property, but for two about the strings of `Names`, and the type of
every variable. `PROJECT.json` lists the theorems. Each module states an inductive invariant
and proves that `Init` gives it and every action keeps it. `IInv` is that invariant below;
what is said of it is what the properties do not say themselves and do not hold without.

**GatewayProofs.** `IInv` is the types; `StoreVouched` and `Vouched(r)` (whatever key is
stored, was looked up, was sent back by the client or is under an open connection of a connect
request has been shown to the user for that host; of the host of a transient session, some key
has); and `Booked(r)` (what a request is waiting for determines
the state of its connection, its target and its answer). `KeysWereVerified` is not inductive
alone: a key enters `store` from the `presented` field of an attempt, which was compared to
`trust` or `known` two awaits earlier, so the invariant has to say where those came from. A transient
session has a target that was once registered, so its host is one whose key was verified; that
it runs on this key cannot be proved, as `elevate.ts` does not look. From
`IInv` follow `VerifiedKeys`, `RegisteredAreKnown`, `TransientsEnd` and `OnlyFailedLeak`;
`KnownHostsStay` is an action property, and `Refinement` maps every step to a step or a
stutter of `SessionContract`. Assumed: `NoKey` is not a key and `NoSession` not a request.

The second half is about `Page`. `PagesImplementGateway`: every step of pages and gateway
together is a step of `Gateway` or leaves its variables alone, so all of the above holds under
any number of pages. `PageInv` adds to `IInv` that the key in a dialog is one the gateway
has shown (`PromptsShown`), that what was stored, looked up or sent back was confirmed
(`StoreConfirmed`, `Confirmed(r)`), that a page waits, asks or shows a desktop and not two of
these (`OneThing`), that a request or a session is asked for by one page, on one desktop or
leaving (`OnePlace`), and that a connect being opened is waited for (`OpeningHavePages`).
`SessionsHavePages` needs the last one, as a session begins as a connect that somebody waited
for; that a disconnect takes the session from no other page is `OnePlace`. From `PageInv`
follow `TrustIsConfirmed` and `SessionsAreFollowed`; `DesktopsKeepTheirs` is an action
property. No assumption beyond the gateway's.

**TransparencyProofs.** `IInv` adds to the properties `Timeline` (records carry times that
have passed, in the order of their ends) and `Ordered` (of two listeners one was added before
the other). From it follow `CallsRecorded`, `Ids` and `InOrder`. `CallsAreRecorded` has to
survive a step that appends two records, of which the second says how the call ended for its
caller and the first has a thrower. `MissedOnlyBehindThrower`
is kept by every step beside `IInv`: when a record is announced, whoever is not called comes
after the thrower, and the thrower heard it. Assumed: `Nobody` is no
listener, `MaxThrows` is a natural number. `HistoryTypeCorrect`, about
`CommandHistory`: no answer, whenever it comes, has more records than the log, so what the
window shows is always a beginning of it. It rests on the log only growing. Assumed: `MaxTick`
is a natural number as well.

**TerminalProofs.** `IInv` is types, `Numbered` (the messages on their way are numbered on
from the last that arrived, up to the last that was sent), `Follows` (the last size on its way
is the window's, or else the shell has it; the same for the directory) and `Quiet` (what a
socket or shell not yet open, or gone, leaves alone). `InputInOrder` speaks of what has
arrived only; that the next message is the next number is known from the queue. `NoGapInInput`,
`NoShellWithoutSocket` and `ShellKeepsUp` hold for any number of terminals and of messages on
their way. Assumed: `MaxSent` is a natural number.

**MonitorProofs.** `IInv` (of `Elevation`) adds `Unanswered` (no promise is resolved before
its action ended) and `RetriesOfRuns` (what is retried is the action of a run). A retry
resolves whatever run the refs belong to when it comes back, so `OkIsReal` has to be kept by a
step of another run than the one it is about. `UsesDialogs` shows that each step of `Monitor`
is one of `Elevation` or leaves its variables alone: `OwnedDialogs`, `OkReal` and `ResultsStay`
hold in the monitor too. `MonitorInv` adds `OkTookEffect` ("ok" is said of what ran),
`FreshPolls` (an answer still to be shown is as fresh as the list has to be) and `ReloadsLeft`
(the bound leaves every run its reload), which make `FreshAfterAction` inductive. Assumed:
`NoRun` is not a run, and there are no more runs than `MaxTick`, the bound on reloads:
otherwise a reload the code makes could be missing from the model.

**FileAppsProofs.** `IInv` adds that wherever a text is on its way, it is with the file it
came from: in the window (`WindowMatches`), in an answer (`LoadsMatch`, which also says that
the load waited for is of the target), in a save (`SavesMatch`). `TextsStayHome`, `StatusTrue` and `NoDocumentStays` follow;
`TurnsOnlyToTarget` is an action property. They hold for any files, and any number of loads
and saves that overtake each other. Assumed: `None` is no file, load, window or text.

**FilesProofs.** `IInv` is types (which say, among others, that exactly the operations at work
have commands left), `ActiveIsOfPath` (the listing waited for is of the directory shown),
`SettledIsTrue` (while `unseen` is empty the answer waited for is true, and so is the window
when none is waited for), `UnseenIsAnswered` (a change the window is still to ask about has its
answer on its way) and `RemovalsAgreed` (only the first command of an operation removes, and
what the user agreed to; a request is for nothing else). `QuietScreenIsTrue` alone says nothing
of the answers on their way. `NothingLost` is an action property: commands that leave what is
in the way destroy nothing, and a removal - the first request, a retry, or one that runs when
its operation is over - is of the path that was agreed to, as `agreed` outlives the commands.
`FreeName`: of the numbers `uniqueName` tries, at
least one makes a free name, because there are more of them than names (pigeonhole), so the
loop of the code ends. Assumed: finitely many directories and base names, the home among the
directories, at least one window, and `None` is none of the things it is used beside. `ReachFiles` is the property of `Spelling`, from the
theorems of NamesProofs.

**NamesProofs** is about strings of any length and any characters, compared with the same
external `Shell` as in the runs. `PathParts`: a path put
together by `joinPath` is taken apart by `parentPath`, `baseName` and `parseStat` to the
directory and name it was made of; `KindKept`: "Keep both" keeps what makes a name hidden and
its extension. `ElevatedIsRead`, `MovesAreRead`, `WritesAreRead`: the shell, and under sudo
the second one, reads the commands as they were meant. A string is read by a recursive
function, and induction theorems are out of the prover's reach; `UpToAll` takes their
place: a set of numbers with 0 and every successor has all of them, because none is the least
one missing. With it `QuotedIsRead` goes through a quoted argument character by character:
after each, the shell is in the word it was in, longer by what was quoted so far.

Only model-checked:

- Liveness and `ENABLED`, out of the prover's reach: `HistoryCatchesUp`, `EffectsShown`,
  `RunsSettle`, `BusyEnds`, `SettlesAsContracted`, `SessionEndCloses`.
- `NamesCompose`, for names of up to `MaxName` characters: `PathParts` and `KindKept` are most
  of it, but that a spelled-out free name is free needs that different numbers are
  written differently, which the library says nothing of (`ToString`). `FreeName` proves it of
  numbers.
- `ListingsAreExact`: `Split` and the parsers, for names of up to `MaxName` characters.

## 5. Where the code and its words differ

The four findings have a run each (section 3). Others met while modelling, without a run:

- A connect that fails after 'ready' - the key cannot be saved, the OS not detected - leaves
  its SSH session open with no id (`server/src/opener.ts:92-98`), while
  `server/src/session-manager.ts:1` says "Each live SSH session is keyed by an opaque,
  unguessable id handed to the client". `OnlyFailedConnectsLeak` states that there is no other
  such session.
- Elevating as another user opens its session with `verifyHostKey: () => true`
  (`server/src/elevate.ts:35`): the host key is not checked, although `elevate.ts:4,29` calls
  the host "already trusted" and `server/src/opener.ts:5-7` says that a changed key is refused.
  The host may present another key by then, and the password goes to it. `KeysWereVerified`
  covers the keys stored and those of connects; of a transient session it says only that some
  key of the host was verified.
- A dropped session stays registered and every call on it fails; the page is not told
  (`core/src/session/ssh-session.ts:87-89` only sets a flag; FR-003).
- A reload of the page, or a lost answer or disconnect, leaves the session registered until
  the gateway ends (`web/src/App.tsx:10,47`). `SessionsHavePages` names these as the only ways.
- When saving the known-hosts file fails the key stays trusted in memory
  (`server/src/known-hosts.ts:41-47`), and the connect is answered with an error.
- Two first connects to one host may store two different confirmed keys one over the other:
  `known` is read before the await and used after it (`server/src/opener.ts:59,92`).
- `core/src/transparency/log.ts:42` says "in execution order"; records are in the order of
  *completion*. Commands that do not overlap are in both (`NonOverlappingInOrder`).
- A listener that throws makes `record` throw inside the `try` of `exec`
  (`core/src/transparency/log.ts:38,68-89`): a command that succeeded is recorded a second
  time, as an error, its caller is told that it failed, and the listeners added later miss
  the first record. `CallsAreRecorded` and `MissedOnlyBehindThrower` say exactly this much. No
  production code subscribes; `log.test.ts:35` does.
- A WebSocket closed before `openPty` resolves leaves its shell running
  (`server/src/terminal.ts:45-63`), and a re-target asked for while the socket is connecting
  is dropped (`web/.../TerminalApp.tsx:74`).
- A rejected request leaves the promise of `run` pending for ever
  (`web/.../useElevation.tsx:82-83`), so that the `catch` of its callers never runs; Enter in
  the dialog starts a second retry while one is out (`:143`). Root, denied all the same, is
  shown the notice for a user who can ask another account (`:94-95`).
- A newline in the name of a file makes the listing of its directory fail, or the name is cut
  off there (`core/src/adapters/debian.ts:72`): both are allowed by `ListingsAreExact`.
- The name dialog trims what was typed, so that leaving the name `"a "` as it is renames it,
  and accepts `.` and `..` (`FilesApp.tsx:222-223`). An upload writes over a file that
  appeared after the names were read (`:247`).
- A retry of a removal may run twice (Enter, `useElevation.tsx:142-144`) or after Escape ended
  its operation (`:67-77,103-111`), and then removes what came to that path since: after
  Replace that may be the file just moved there. `NothingLostUnasked` allows it by name: the
  path was agreed to, the content not. The success of a retry may also be given to another
  operation, which then goes on without its own command done.
- A command that failed though it ran, or in part (`core/src/session/ssh-session.ts:108-111`,
  `core/src/adapters/debian.ts:281,305-314`), a retry that ran once its operation was over, and
  an operation whose window was closed or minimised meanwhile (`Desktop.tsx:116-118`) change
  the directory without a reload: the window is out of date until the next listing.
  `QuietScreenIsTrue` exempts these by `None` in `unseen`, and nothing else. A window opened
  again starts at home, with nothing of the old one.
- Returning to the file shown while another loads leaves "loading" (`StallmanApp.tsx:28` and
  the viewers). After a failed load the document editor ignores edits (`DocumentsApp.tsx:55`).
- Two overlapping saves may leave the older text; minimising discards unsaved text (FR-071).
- An emptied file cannot be saved: an empty string is refused (`server/src/gateway.ts:77`).
- A pointer that is lost (`pointercancel`) leaves the drag ref behind, and the window follows
  the next pointer that passes over it (`web/.../Window.tsx:41-48`).

## 6. Not modelled

- New folder and download in the file manager, and directories as operands. `Reopen` is one
  step: the time the window is closed, and closing it with a dialog in front, are left out.
  Which dialog is on top is too: the name dialog and the delete confirmation wait for the
  others, the conflict and the elevation dialog are answered in either order.
- Listeners of the log that subscribe, unsubscribe or run commands from inside their call.
- Credentials and the key file of the login form: a wrong one is a connect that fails.
- What the other parsers compute: metrics, processes, services, users, `os-release`, the
  words that tell a refusal from another failure.
- Page rendering, zoom and paging of the PDF viewer; the editing widgets, which are one step.
- Closing the window of the system monitor: it ends the polling and leaves an action that runs
  without anybody to report to.
- Request validation beyond "answered without a change"; the body limit beyond "throws".
- System information (one request, shown once), settings and credits; static files, command
  line and the test harness; the UI kit and translations.
- The SSH protocol, `sudo`, and the host's file system beyond what section 2 says. Pids are
  not used again: the code has nothing to tell the old process from the new one by.

## 7. Plan

Done: `Gateway` with `SessionContract`, `Page` over it, `Transparency` with `CommandHistory`,
`Terminal`, `Elevation` with `Monitor`, `Files` with `Names` and `Spelling`, `FileApps`,
`Windows`; proofs of the safety properties of all of them (section 4).

Next, in this order:

1. *Proofs*: `ListingsAreExact` for names of any length, by `UpToAll` over `Split`.
2. *Composition*: the wrapped executors of `Gateway` with `Transparency` (every command of
   every session in one log), and `Elevation` refining an abstract "ask once, answer once".
3. *Service actions* as two commands, with the adapter's results (`ok`, `degraded`, `failed`).
4. *PDF pages*: rendering tasks that are cancelled when page or zoom changes.
5. *Classifications* as operators: `os-release`, the words of a refusal.
