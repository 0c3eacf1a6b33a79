# AI Dev Conductor in TLA+

AI Dev Conductor is a Go server that keeps terminal sessions (a shell behind a
PTY) and gives browsers access to them over WebSockets. This directory holds
TLA+ modules of its concurrent core, the TLC configurations that check them on
small instances, and TLAPS proofs for all instances. Paths below are relative to
the repository (`src/` in `PROJECT.json`).

## The system

| Component | State | Operations | Called by |
|---|---|---|---|
| Session manager `internal/session/manager.go` | `sessions` under `mu`, `stop` | Create, Get, List, Rename, Delete, CloseAll, flush, reapOnce, the three callbacks it gives a session | HTTP handlers, its own loops, `main` |
| Metadata store `internal/store/store.go` | one SQLite table, one connection | Upsert, SetStatus, SetName, SetActivity, SetSize, SetClientDisconnect, MarkAllDetached, Delete, List | manager |
| History `internal/session/history.go` | one file per session | open for append, read, remove | session, WebSocket handler, exec |
| Session `internal/session/session.go` | PTY, shell, `clients` under `mu`, `clientGoneAt`, `lastActivity`, `done` | NewSession, readPTY, waitProcess, AddClient, RemoveClient, WriteInput, Resize, Close | manager, WebSocket handler |
| WebSocket handler `internal/ws/handler.go` | connection, `Client` | HandleWebSocket, readPump, writePump | browser |
| Login limiter `internal/auth/ratelimit.go` | an entry per address under `mu` | Allowed, RecordFailure, Reset, cleanup | HandleLogin |
| Tokens `internal/auth/{auth,middleware}.go` | token to expiry under a lock | Add, Validate, cleanup | HandleLogin, RequireAuth |
| Image paste `internal/session/paste.go` | the clipboard of the server, image files | PasteImage | readPump |
| HTTP API `api/handlers.go` | none | login, list, create, rename, delete, exec, history | browser, scripts |
| Main `main.go` | none | boot, signal, shutdown | operating system |
| Terminal page `web/static/js/app.js` | current session, socket, reconnect timer and counter | connectToSession, disconnect, attemptReconnect, session CRUD, polling | user |

They interact by calls and callbacks. A handler calls the manager; the manager
starts a session, whose `waitProcess` goroutine calls `OnProcessExit` back into
the manager; AddClient and RemoveClient call `OnClientsAttach` and
`OnClientsEmpty`, which write to the store; the reaper reads the session's idle
clock and calls Delete; Delete and CloseAll call `Session.Close`, which closes
the channels that the connections' pumps wait on; the page sees its socket
close and reconnects. Output goes from `readPTY` to the history file and, through
a bounded channel for each client, to the `writePump` of each; input, sizes and
images come in through `readPump`, and `flushLoop` copies activity and size of
each session to its row.

What is hard here is between the locks. `Manager.mu` and `Session.mu` are held
for single map operations, and everything that follows from what was read under
them (the limit, the list of idle sessions, "I was the first client", "this
session was in the map") is acted on after unlocking, by several goroutines, in
memory and on disk, while shells exit and the process may be stopped or killed.
`PROJECT.json` lists these hazards line by line.

What makes each component correct:

- manager: each session is taken down once; the map, the rows and the files
  agree, or disagree in known and bounded ways; an exit is not missed; limits
  hold; nothing blocks for good;
- session and connections: a connection is registered exactly while it is
  served, the idle clock is right, a closed channel is not closed again;
- limiter: how many failures go unpunished, how far a lockout can be overrun,
  and that forgetting is harmless;
- tokens: good for as long as they were given, not longer and not shorter;
- output: each browser gets history and stream without a gap between them, in
  order, and a slow one costs the others nothing;
- metadata: what memory and row say of a session agrees, or will, and a
  restart finds what was last agreed on;
- image paste: the program gets the image that was meant, after what was typed
  before it and before what was typed after it;
- exec: a command reported as done is done, and its output is its own;
- page: it never gives up silently, and never talks to the wrong session.

## Modules

| Module | Models | Code |
|---|---|---|
| `MetaStore` | the status column of the table, as operators | `store.go` |
| `SessionManager` | the lives of all sessions: map, rows, history files, requests, reaper, exit hooks, shutdown, crash, restart | `manager.go`, `NewSession`, `waitProcess`, `main` |
| `SessionList` | List with its two reads, beside all that SessionManager does | `Manager.List` |
| `SessionRegistry` | what a reader of the session list is promised: the abstract specification of SessionManager with SessionList | |
| `SessionClients` | the connections of one session, its idle clock, Close | `session.go`, `handler.go` |
| `OutputStream` | output on its way to file, channels and browsers, the replay, the broadcast | `readPTY`, `history.go`, `HandleWebSocket`, `writePump` |
| `MetadataSync` | one session's name, activity, size and disconnect time, in memory and in its row | `manager.go`, `store.go` |
| `ImagePaste` | the messages of connections, the shared clipboard, the image files, what a program reads | `readPump`, `paste.go` |
| `ExecCommand` | exec requests and a user typing into one PTY, the way from the PTY to the history, the polling and the extraction of the output | `handlers.go`, `readPTY`, `WriteInput` |
| `LoginLimiter` | the throttling of one address, as actions | `ratelimit.go` |
| `AuthTokens` | the tokens, as operators | `middleware.go`, `auth.go` |
| `Login` | HandleLogin: the limiter, the password and the tokens composed | `handlers.go`, `middleware.go` |
| `TerminalClient` | sockets, timers and the reconnection of the page | `app.js` |
| `SessionManagerProofs`, `SessionClientsProofs`, `OutputStreamProofs`, `MetadataSyncProofs`, `ImagePasteProofs`, `ExecCommandProofs`, `LoginProofs`, `TerminalClientProofs` | the theorems about the module they are named after | |
| `MC...` | symmetry sets for TLC | |

The modules meet where one stands for another. `abandoned` in SessionManager is
IdleDuration as SessionClients makes it; Claim there, and the closing of the
session in OutputStream, MetadataSync and ImagePaste, is what SessionManager does
with a session; the session that `Get` finds may have been closed by then, in all
of them. Login is LoginLimiter with AuthTokens.

**SessionManager.** `phase` is how far `main` is; `sessions` is the key set of
the map, `rows` and `history` are what is on disk and survive `Halt`. A request
or the reaper is a worker with a program counter: `CheckLimit`, `Spawn`, `Hook`,
`Insert`, `UpsertRow` are the five sections of Create between which others can
come, `Claim`, `ListRows`, `CloseLive`, `RemoveRow`, `RemoveHistory` those of
Delete. `watch[i]` is how far the session's waitProcess goroutine is; its shell
may end from `Spawn` on, so also before the callback is there or the session is
in the map. That `OnProcessExit` is read without a lock is a choice of the
schedule: it is seen or not according to whether `Hook` has been taken.
`abandoned` stands for the sessions whose IdleDuration exceeds the timeout: that
clients come and go is left to SessionClients, which has one session and all of
its connections. Ids are never drawn again while anything of the old session is
left (`Fresh`): they are 32 random bits.

**SessionList.** List reads the rows and afterwards, under RLock, the map, and
merges them (`ReadRows`, `ReadMap`, `Merge`); anything may happen in between. What
it returns for one id depends on no other id, so that it is followed for one id at
a time, any of them. Without a store it lists the map alone, which is the merge
with no rows. `Entry` is what map and row make of each id at one moment: starting
(in the map, no row yet), running, ending (only the row still says running), dead,
detached or none. `was` is a history variable.

**SessionRegistry.** The life of an entry goes one way: it starts, is recorded,
ends, settles as dead or is cleared, or becomes detached with the next process and
is cleared then; an entry is also recorded late, when it has already ended (the
late Upsert that StrayOnlyFromUpsert is about). Only the end and the start of the
process move several entries. A reader asks for an entry and has his answer later:
it is what the entry was when he asked or what it is when he is told, with starting,
running and ending all shown as running. There is one exception, which the code
has too: an entry that was starting when the rows were read, and has ended when the
map is, is in neither and missing from the list. A browser that polls can so see a
session running, then missing, then dead; or running after its shell has gone, for
as long as the exit hook needs. A dead session it never sees running again.

**SessionClients.** `at[c]` follows a connection through HandleWebSocket and
readPump, `writer[c]` is its writePump, `done` the set of clients whose channel
is closed, `cut` that of broken connections. AddClient and RemoveClient are
split after the unlock and between the two stores that follow it. Times are
reduced to what IdleDuration distinguishes: none, recent, expired. `crashed`
is a panic in a goroutine that nobody recovers.

**OutputStream.** A chunk is the number of the Read that returned it. `reader`
is where readPTY is in its loop: it reads, files, sends. `Send` is the whole
broadcast, since it runs under `mu` and the channels are independent. `at[c]` is
how far HandleWebSocket is (AddClient, ReadHistory, the replay, the pumps);
`ch[c]` is the channel with `Capacity` places, `sent[c]` what was written to the
browser, which may be stalled or gone (`link`). Close is in its three parts, for
chunks are lost from the file between the first two.

**MetadataSync.** `creator`, `rename[r]`, `flusher[f]`, `conn[c]` and `deleted` are
the program counters of Create, Rename, the flushes of flushLoop and of CloseAll,
the connections with the callbacks of AddClient and RemoveClient, and Delete. Who
is first and who is last is decided under the Session's `mu`; the callbacks follow
after the unlock, in any order (`StoreClients`). Each has the accesses to
the Session and those to the row as separate steps, with the values between them
in `held`. A name is the request that gave it; activity and size are version
numbers. `solo`, `agreed`, `passed`, `early`, `crossed` and `start` are history
variables. `start` is what CloseAll finds, and of a value that flushLoop has loaded
and not stored by then, what flushLoop holds, since CloseAll does not wait for it
and it may be stored last.

**ImagePaste.** `inbox[c]` holds what the browser has sent and readPump has not
handled; a paste occupies readPump while the clipboard tool runs. `input[s]` is
what has been written to the PTY, and the program takes what is in the clipboard
when it reads the Ctrl+V. `Cut` is the end of readPump: the session was closed, the
browser has gone, or the read deadline has passed; what is unread is lost with it,
and a browser that comes back is another connection. Browser, tool and program are external: the tool takes
the clipboard or not, hangs or not, at any time, and a daemon of it goes on
serving the image. `home` is chosen at the start, so that the connections are
to one session or to two.

**ExecCommand.** `pc[e]` follows a request through HandleExecCommand: the seek,
the Enter, the command, the polling. Text is a sequence of pieces: the echoed
command line with its marker, the marker printed, an end of line, a prompt, an
output. `file[e]` is what its own handle can read; `printed` is on its way there.
The shell and the terminal are external: a shell at its prompt echoes a line when
it reads it, and what is typed while it is busy has been echoed by the terminal
before, so it shows twice (bash with readline does so). A command may print or
not, run for ever or be interrupted, and the shell may end; what is typed is not
read by the running command. There is no clock: a timeout may come at any time,
which is how 50 ms polls, slow shells and slow reads look to each other.
`said` and `alone` are auxiliary.

**LoginLimiter, AuthTokens, Login.** One entry, a discrete clock, overlapping
requests with the password check between `Allowed` and RecordFailure (`Fail`,
`FailLocked`) or Reset (`Succeed`), after which a token is added (`Grant`).
Limiter and tokens have their own locks and nothing in common, so that Reset and
Add are one step. A restart forgets both. `counted`, `late` and `granted` are
history variables; `counted` holds the failures of the last `Window` units, each
with its number in the window that counted it. `Lockout` is the doubling with
its cap as a table: 1, 2, 4, 8, 16 times the base.

**TerminalClient.** The page is single threaded: an action is a handler. A
socket that the page closes stays in `ready` as closing until its `onclose`
comes, and a timer stays in `fires` until it fires or is cleared. `reentered` is
a history variable.

Definitions with a comment "A mutant" are faulty versions of the definition
after them. No specification uses them: with one of them in place of the
original the corresponding property fails, which shows that the property depends
on that code.

## Runs

| Run | Configuration | Shows |
|---|---|---|
| manager | 2 ids, 2 requests, reaper, limit 1 | TypeOK, SoleCloser, LiveIsPersisted, DeadStaysDead, NoLateZombie, StrayOnlyFromUpsert, OrphanOnlyFromHalt |
| manager_limit | 3 ids, 2 requests, limit 1, no reaper | CapacityBound |
| manager_live | 1 id, 2 requests, reaper, a List | ImplementsRegistry, ReapsAbandoned, ExitIsNoticed, CallsReturn |
| clients | 2 connections | TypeOK, IdleWhenEmpty, RegisteredWhileServed, PanicNeedsClose, LeaversAreRemoved, CloseReachesClients, AbandonedIsTakenDown |
| login | 3 requests, 3 attempts, window 2, lockout 1, 2 tokens good for 2, clock up to 19 | TwoWindows, LateBound, LeaseKept, CleanupIsLate |
| stream | 2 connections, channels of 1, 3 chunks | OrderKept, LossNeedsFullChannel, OverlapBound, FiledFirst, OutputFlows |
| metadata | 2 renames, 2 connections, 1 change of activity and of size | NameSticks, FinalFlush, GoneKept, ActivityForward |
| paste | 2 connections, 2 sessions, 2 messages each | OwnImage, InOrder, InputArrives |
| exec | 2 requests, 1 keystroke, a lag of one step of the shell | DoneIsComplete, CleanResult |
| page | 2 sessions, 4 sockets and timers, 2 attempts | NeverStuck, OpensOnlyCurrent, SingleSocket |
| manager_zombie, clients_panic | smallest instances | a counterexample each, see below |

In the modules without a run of TypeOK of its own, TypeOK is the first conjunct
of an invariant (LateBound, OverlapBound, FinalFlush, OwnImage, DoneIsComplete,
NeverStuck).

**Bounds.** Two requests and the reaper are three claimants for a session, with
the exit hook and CloseAll five; every property of `manager` relates at most two
workers and one id, and a second id lets workers be about different sessions.
Ids are used again when nothing is left of them, so that runs are not limited to
two sessions in all. The limit needs one id more than it admits in overlap,
hence `manager_limit`, where an excess of two would be possible and does not
happen. Two connections are a last leaver and a first arrival; for more, the safety
properties are proved, as they are in every module. In exec, two requests and a keystroke are three typists;
the lag (`MaxLag`) says how much a shell may print before readPTY has read
earlier pieces, as a PTY's buffer does: with 0 one step of the shell, up to two
pieces, is on its way, and the requests still see the file at every point.
The clock of Login reaches past several lockouts, the cap (16 units) and the
retention after it, and past many lives of a token. A window longer than 16 times
the base, which keeps an idle entry for another reason, is reached by the proof of
CleanupIsLate only. The run of List has one id, since neither List nor the registry
relates an id to another one.
In the stream a channel of one place is full as soon as something is in it, so
three chunks show a loss before, in and after the overlap of replay and channel;
Capacity is a constant of the code (256) and every statement is in terms of it.
Metadata needs two values of each kind to tell an old one from a new one, and two
renames are the two writers that can disagree, Create being a third; with two
connections one can arrive while the departure of the other is still to be stored. Two messages
on each of two connections are an image with typing behind it, against another
image. `MaxTime`, `MaxChunks`, `MaxOutput`, `MaxResize`, `MaxSent` and the slots
of TerminalClient are bounds of the models only. Symmetry is used for safety alone.

**Deadlock** is checked for the manager, the metadata and the page. SessionClients
may end (a panic, or the session is over and nobody connects), the clock of
Login stops at its bound, and in the stream, the paste and the exec all may have been
said, so those runs do not check it.

**Fairness.** A Go goroutine that can run is eventually run, and a mutex passes
to who waits for it: weak fairness on the steps of a call that has begun, the
exit hooks, the reaper's ticks and the shutdown. Close kills the shell, so a
closed session's shell exits; otherwise a shell may run forever. Nobody is
obliged to send a request or a signal, to start the server, to connect or to
leave. In SessionClients time passes (`TimesOut`); in SessionManager it need not,
since the property speaks of sessions already timed out. In OutputStream the steps of readPTY, of
HandleWebSocket and of the pumps are fair, and a write to a browser that reads is
done; the browser may stop reading for good, and the shell need not print. In
ImagePaste readPump is fair while it reads, and so is the deadline of five seconds
(`ToolFails`), a timer of the Go runtime; the program is assumed to read its
input, and nothing is assumed of the clipboard tool. Reaping reads
`ReapsAbandoned` as leaving the set, be it by a client that comes back.

### What the code does otherwise than documented

- `manager_zombie`: NewSession starts waitProcess before Create has assigned
  OnProcessExit and inserted the session. A shell that fails at once is inserted
  after its exit and stays listed as running (docs/background-running.md:38 says
  it is removed). NoLateZombie shows that this is the only window.
- `clients_panic`: Close closes `Client.done`, and so does the RemoveClient of
  the readPump that Close has made fail. The second panics and ends the process,
  on any Delete, reap or CloseAll of a session with a client (background-running.md:95,97).
  PanicNeedsClose shows that arrivals and departures alone never do it.

Further points met while modelling, without a run of their own.

*Sessions.* The reaper's list is stale when it is used, and clientGoneAt is stored
after the unlock, so that an attached session can be reaped (reap_test.go:40), and so can one to
which a client attaches when the list has been made. A client whose Get came just
before Delete is registered with a closed session until its connection ends.
Nothing tells the clients that the shell has exited by itself
(background-running.md:37): no pump waits for SessionDone. Output that readPTY has
not read when the shell ends is lost with the PTY. Create writes its row after the
insertion; if the session is gone by then, its row is brought back as "running",
which store.go:18 reserves to live shells. StrayOnlyFromUpsert shows that there is
no other way to such a row while the store is open. `MAX_SESSIONS` (README.md:59)
can be exceeded; CapacityBound says by how much. A Create between CloseAll and the
end of srv.Shutdown leaves a shell that nothing closes, and a Delete after the
store is closed leaves its row (manager.go:246 says it always clears it). The
directory of pasted images of a session is not removed with it.

*Metadata.* Two renames at once, or a rename during Create, can leave one name in
memory and the other in the row, and the other is back after a restart; NameSticks
is about the names given alone. Rename of an id that nobody knows answers success
(manager.go:230-235: an UPDATE of no row is no error). A flush that overlaps with
another, or with Create, can set the activity in the row back (ActivityForward).
Create's Upsert overwrites the last_client_disconnect_at of a client that attached
before it, and a departure that is stored after the next arrival does the same: the
row then holds a time while a client is there, where manager.go:99 says that 0 marks
a session with a client (GoneKept has both conditions).

*Output.* A browser that reconnects gets the whole history below what its terminal
shows. The replay is written without a deadline: a browser that stalls in it keeps
its place in `clients`, and its channel fills. A chunk read when Close has closed
the file is sent but not filed. A character that a read has cut in two becomes
U+FFFD twice.

*Images.* All sessions of a server share its clipboard, so that a paste into one
can show up in another that is slower to read its Ctrl+V (OwnImage has the
condition). readPump renews its read deadline of 60 seconds only in the pongs that
it reads, and it reads nothing during a paste: seven to twelve pastes in a row, with a
tool that hangs for its five seconds each, end the connection and lose the keys
behind them (InputArrives has this as its condition). The page sends an image when
its FileReader has read it, so that keys typed in the meantime are sent before it;
InOrder is about the order of sending.

*Exec.* main.go:107 sets a WriteTimeout of 15 seconds for all responses, while
exec waits 30 seconds by default and 120 at most (handlers.go:173-179), and the
response to a longer command cannot be written. handlers.go:181 and :190 say that
concurrent execs cannot be confused and that only the command's own output is
seen. The end of a command is indeed never confused (DoneIsComplete); its output
is, with whatever an earlier command prints after the new line has been echoed,
and with the second echo of that line: CleanResult has the condition under which
it is not. And the Enter of handlers.go:203 does not clear what a user has typed,
it submits it.

*Logins.* ratelimit.go:10 speaks of a sliding window, which is a tumbling one;
TwoWindows gives the number of failures it can let pass. A restart forgets
lockouts and logins alike. A WebSocket asks for its token when it is opened, not
again when that expires. SESSION_TIMEOUT is documented (README.md) but not read
from the environment (config.go).

*The page.* Coming back in the page to a session whose old socket is still closing
makes that socket's `onclose` start a reconnection beside the new one
(SingleSocket has this as its condition). A poll of the session list waits for all
servers, and so does createSession before it connects.

## Proofs

Every invariant and every action property of the passing runs is a theorem, for
any sets of ids, requests, connections, sessions and slots, and any limits,
capacities, windows and bounds. What is assumed of the constants is in the
ASSUMEs of the modules: special values such as `NoId`, `None`, `Nobody` and `User`
are different from the others, numbers are natural numbers (the capacity, the
attempts, the base of the lockout and the lives of tokens not 0), and the
requests of the manager and of the limiter, and the slots of the page, are finite.
The bounds of the runs are thus bounds of the search for counterexamples and of
the liveness properties, not of the safety claims.

SessionManagerProofs. None of the properties is inductive alone, since it says
nothing of workers halfway through a call.

- `Typing`: TypeOK is inductive.
- `Ownership` adds to it `DownIsEmpty` (a process that is down has nothing in
  memory), `Publication` (an id drawn by a Create that has not inserted it is
  unknown to everybody else, and belongs to one Create), `Departure` (the exit
  hook's claim) and `Claiming` (SoleCloser). With it: `OneCloser` and
  `ExitNotMissed`.
- `Persistence` needs Ownership: who deletes or reports a row has taken the
  session out of the map, so that the rows of listed sessions are left alone.
  With it `LiveRows`, `DeadForGood`, `StrayOrigin` and `OrphanOrigin`.
- `RowsLag` (the row of a session that is listed, or whose exit is about to be
  reported, says running or is missing) with Ownership gives
  `RegistryImplemented`: every step of the manager, and every step of a List, is a
  step of SessionRegistry on `Entry` or leaves it alone.
  `OneEntry` is the common part, a change of one entry forwards; the start and the
  end of the process are the other two cases. `AnswerHolds` says that at any moment
  a List that took the map now would answer as promised.
- `Places` counts the sessions with the Creates that have passed the check: the
  invariant behind `Overshoot`, proved with the cardinality lemmas of the
  library.

SessionClientsProofs. `ClientsInv` is `ClockHasOwner` (until Close, a zero in
clientGoneAt or in the row has somebody attached, or somebody on the way to
overwrite it) and `Channels` (a client's channel is open from AddClient until its
own RemoveClient); it gives `ClockKept`, `ClientsAreServed` and
`PanicOnlyAfterClose`. `Stutter` isolates the steps that change nothing.

OutputStreamProofs. `StreamInv` has three parts. `LogInv`: the file holds the first
chunks, and all of them while it is open. `ConnInv`: nothing is sent before the
replay, which is a prefix of what was filed and stays at the front of what is
sent. `LiveInv`: what follows it increases, is not beyond the broadcast, and
repeats at most `Capacity` chunks of the replay besides the one that was filed and
not yet sent when the history was read. They give `InOrder`, `LittleTwice`
and `FileIsAhead`, and `LossStep`, that no step but the
broadcast makes a client lack a chunk, gives `OnlyFullLoses`.
The lemmas before them say what Append, a removal at the front and a range do to
increasing sequences.

MetadataSyncProofs. One invariant per property, each with a frame lemma that
disposes of the steps it does not depend on. `NameInv`: what a writer that has
been alone carries and has stored is its name (`NamesStick`). `GoneInv`: there is
no row before Create's, so that a first client which is there by then has stored too
early, and a departure that is still to be stored while somebody is there has been
met by the first (`ClientsDecide`).
`ActivityInv`: nobody carries an activity ahead of the Session's, and only an
overtaken flush carries one behind the row's (`ActivityGoesForward`). `FlushInv`: from
the start of CloseAll on, the Session, the flushes and then the row are not behind
`start` (`FlushIsFinal`).

ImagePasteProofs. `Ordered` puts what was read of a connection before what is typed
and unread, and that before what readPump has not handled (`OrderOfInput`).
`ClipboardInv` says that from the time the tool has taken the clipboard for an
image until the program has read the Ctrl+V, the image is there or was overtaken
(`NoOldImage`).

ExecCommandProofs. `CommandInv` follows a command through the input, the shell and
`Stream`, which is its file with what is on its way to it: it waits, runs
and ends, once (`OnlyOnce`), and what it has printed is in `Stream`, the output
before the marker and both after an echo that has its end of line (`Order`,
`Story`). `FirstIs`, `TrimIs`, `PieceOf`, `CutOut` and `WholeOutput` say what the
extraction finds in a text of that form; they give `DoneMeansEnded`. The steps that
belong to other typists are `Quiet`. `AloneInv` adds, for a command that nobody types
beside, what is around it in the text while it waits (`Waits`) and runs (`Runs`);
with it `OutputIsItsOwn`. The library's searches are Min and Max of a set of
positions, hence `Least`, which has them from the well-foundedness of the natural
numbers.

LoginProofs. `LeaseInv`: a token that is known has all of its time, and one that is
not was swept after it (`TokenLasts`). `LateInv`: during a lockout the passwords
verified and those that still can be leave out the request that began it
(`FewAreLate`). `WindowInv`: a failure that is remembered belongs to this window or to
the one before, whose first is too old to be remembered, and a window counts
each number once; so they are at most 2 (`MaxAttempts` - 1) - 1, by an injection
into the numbers (`FewUnpunished`). `ForgottenLate` follows from the ages of the remembered failures.
Of `Lockout` the proofs use only that it is a natural number, so that they do not
depend on the table.

TerminalClientProofs. `PageInv`: what is on the screen has a socket, a timer or a
prompt (`NeverGivesUp`); unless a session was reentered, one of them only, and no
closing socket is for the session on the screen (`OneSocket`,
`NoSocketToTheLeft`).

Only model-checked: liveness, for which the prover has no rule (ENABLED):
ReapsAbandoned, ExitIsNoticed, CallsReturn, LeaversAreRemoved, CloseReachesClients,
AbandonedIsTakenDown, OutputFlows and InputArrives; and the two counterexamples.

## Not modelled

- The truncation of an exec's output, the content of chunks and messages, the
  arguments of the clipboard tools, file names, configuration, markup, the message
  format: data on which no modelled decision depends.
- The session list of the page with its polls and activity dots, preferences,
  palette and touch keys: display, redrawn every five seconds.
- Which of three places of a request RequireAuth takes a token from, and the
  comparison of an API key: functions of the request without state.
- The 64-bit arithmetic of the lockout: with a base of whole seconds only some of more
  than seven hours are affected, after some twenty lockouts in a row, and TLC's
  integers have 32 bits.
- Errors of the store other than its being closed, which the code logs and
  ignores; and the memory model beyond what the order of steps shows.

## Plan

Done: all modules above with their runs; SessionRegistry as the abstract
specification of the manager; the proofs of all invariants, of all action
properties and of the refinement. Left, in order of importance:

1. An abstract specification of the output as a browser is promised it (a prefix
   of the shell's output, with repetitions and gaps only where allowed), and
   OutputStream shown to implement it.
2. SessionManager composed with the clients of its sessions, so that `abandoned`
   is IdleDuration.
3. The page's list of servers and its polls.
