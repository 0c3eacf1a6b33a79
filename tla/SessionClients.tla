--------------------------- MODULE SessionClients ---------------------------
(***************************************************************************)
(* The WebSocket clients of one session: AddClient, RemoveClient and Close *)
(* of internal/session/session.go, the handler and the two pumps of        *)
(* internal/ws/handler.go, and the reaper that decides by clientGoneAt     *)
(* whether anybody is attached.                                            *)
(*                                                                         *)
(* Session.mu protects only the set of clients: what AddClient and         *)
(* RemoveClient do after unlocking, to clientGoneAt, to the client's done  *)
(* channel and to the stored row, interleaves.                             *)
(***************************************************************************)
EXTENDS Naturals

CONSTANT Conns   \* connections; one that has ended is used again

VARIABLES
  listed,     \* whether the manager's map has the session
  shell,      \* its shell: "running" or "exited"
  clients,    \* Session.clients
  gone,       \* clientGoneAt: "zero", or a time, "recent" or "expired"
  closed,     \* whether Session.Close has run
  row,        \* the last_client_disconnect_at of its row, "absent" without one
  creating,   \* whether Create has still to write that row
  closing,    \* the Delete that has taken the session out of the map
  reaping,    \* whether reapOnce has the session on its list
  at,         \* per connection: its handler, then its readPump
  writer,     \* per connection: its writePump
  last,       \* the connections whose RemoveClient left no client
  done,       \* the connections whose Client.done is closed
  cut,        \* the connections that are closed, or lost
  crashed     \* a panic has ended the process

own  == <<listed, shell, closed, row, creating, closing, reaping>>
conn == <<at, writer, last, done, cut>>
vars == <<own, clients, gone, conn, crashed>>

Attaching == {"reset", "attach"}
Leaving   == {"signal", "stamp", "persist"}
Served    == Attaching \cup {"replay", "reading"}

Init ==
  /\ listed = TRUE /\ shell = "running" /\ closed = FALSE
  /\ row = "absent" /\ creating = TRUE
  /\ closing = "no" /\ reaping = FALSE
  /\ clients = {} /\ gone = "recent"
  /\ at = [c \in Conns |-> "off"] /\ writer = [c \in Conns |-> "off"]
  /\ last = {} /\ done = {} /\ cut = {}
  /\ crashed = FALSE

Runs == ~crashed /\ crashed' = FALSE

Goto(c, step) == at' = [at EXCEPT ![c] = step]

(* UPDATE ... SET last_client_disconnect_at: nothing without a row.        *)
SetClientDisconnect(t) == row' = IF row = "absent" THEN "absent" ELSE t

-----------------------------------------------------------------------------
(* HandleWebSocket.                                                        *)

Get(c) ==
  /\ at[c] = "off" /\ listed
  /\ Goto(c, "upgrade")
  /\ Runs /\ UNCHANGED <<own, clients, gone, writer, last, done, cut>>

UpgradeFails(c) ==
  /\ at[c] = "upgrade"
  /\ Goto(c, "off")
  /\ Runs /\ UNCHANGED <<own, clients, gone, writer, last, done, cut>>

(* AddClient under mu; the session may be closed by now. *)
Register(c) ==
  /\ at[c] = "upgrade"
  /\ Goto(c, IF clients = {} THEN "reset" ELSE "replay")
  /\ clients' = clients \cup {c}
  /\ Runs /\ UNCHANGED <<own, gone, writer, last, done, cut>>

ResetGone(c) ==
  /\ at[c] = "reset"
  /\ gone' = "zero"
  /\ Goto(c, "attach")
  /\ Runs /\ UNCHANGED <<own, clients, writer, last, done, cut>>

OnClientsAttach(c) ==
  /\ at[c] = "attach"
  /\ SetClientDisconnect("zero")
  /\ Goto(c, "replay")
  /\ Runs /\ UNCHANGED <<listed, shell, closed, creating, closing, reaping,
                         clients, gone, writer, last, done, cut>>

(* A mutant: HandleWebSocket gives up without RemoveClient. *)
GiveUp(c) ==
  /\ at[c] = "replay"
  /\ Goto(c, "off")
  /\ Runs /\ UNCHANGED <<own, clients, gone, writer, last, done, cut>>

(* The history is sent, and the pumps start. *)
Serve(c) ==
  /\ at[c] = "replay"
  /\ Goto(c, "reading")
  /\ writer' = [writer EXCEPT ![c] = "writing"]
  /\ Runs /\ UNCHANGED <<own, clients, gone, last, done, cut>>

-----------------------------------------------------------------------------
(* The pumps.                                                              *)

(* The browser closes the connection, or nothing of it is heard of for     *)
(* pongWait.                                                               *)
PeerLeaves(c) ==
  /\ at[c] \in Served /\ c \notin cut
  /\ cut' = cut \cup {c}
  /\ Runs /\ UNCHANGED <<own, clients, gone, at, writer, last, done>>

(* Mutants: the set is found empty before the client is out of it; and the *)
(* client stays in the set.                                                *)
ReadFailsLate(c) ==
  /\ at[c] = "reading" /\ c \in cut
  /\ clients' = clients \ {c}
  /\ last' = IF clients = {} THEN last \cup {c} ELSE last \ {c}
  /\ Goto(c, "signal")
  /\ Runs /\ UNCHANGED <<own, gone, writer, done, cut>>

ReadFailsOnly(c) ==
  /\ at[c] = "reading" /\ c \in cut
  /\ Goto(c, "signal")
  /\ Runs /\ UNCHANGED <<own, clients, gone, writer, last, done, cut>>

(* ReadMessage fails, and the deferred RemoveClient takes mu. *)
ReadFails(c) ==
  /\ at[c] = "reading" /\ c \in cut
  /\ clients' = clients \ {c}
  /\ last' = IF clients' = {} THEN last \cup {c} ELSE last \ {c}
  /\ Goto(c, "signal")
  /\ Runs /\ UNCHANGED <<own, gone, writer, done, cut>>

(* close(c.done): closing a closed channel panics, in a goroutine that     *)
(* nobody recovers.                                                        *)
CloseDone(c) ==
  /\ at[c] = "signal" /\ ~crashed
  /\ crashed' = (c \in done)
  /\ done' = done \cup {c}
  /\ Goto(c, IF c \in last THEN "stamp" ELSE "hangup")
  /\ UNCHANGED <<own, clients, gone, writer, last, cut>>

StampGone(c) ==
  /\ at[c] = "stamp"
  /\ gone' = "recent"
  /\ Goto(c, "persist")
  /\ Runs /\ UNCHANGED <<own, clients, writer, last, done, cut>>

OnClientsEmpty(c) ==
  /\ at[c] = "persist"
  /\ SetClientDisconnect("set")
  /\ Goto(c, "hangup")
  /\ Runs /\ UNCHANGED <<listed, shell, closed, creating, closing, reaping,
                         clients, gone, writer, last, done, cut>>

HangUp(c) ==
  /\ at[c] = "hangup"
  /\ cut' = cut \cup {c}
  /\ Goto(c, "ended")
  /\ Runs /\ UNCHANGED <<own, clients, gone, writer, last, done>>

(* Mutants: writePump closes done too; and it does not listen to done. *)
WriterCloses(c) ==
  /\ writer[c] = "writing" /\ c \in done \cup cut
  /\ writer' = [writer EXCEPT ![c] = "off"]
  /\ cut' = cut \cup {c} /\ done' = done \cup {c}
  /\ Runs /\ UNCHANGED <<own, clients, gone, at, last>>

WriterIgnoresDone(c) ==
  /\ writer[c] = "writing" /\ c \in cut
  /\ writer' = [writer EXCEPT ![c] = "off"]
  /\ Runs /\ UNCHANGED <<own, clients, gone, at, last, done, cut>>

(* writePump: told by done, or by a write or ping that fails. *)
WriterStops(c) ==
  /\ writer[c] = "writing" /\ c \in done \cup cut
  /\ writer' = [writer EXCEPT ![c] = "off"]
  /\ cut' = cut \cup {c}
  /\ Runs /\ UNCHANGED <<own, clients, gone, at, last, done>>

(* Both pumps are gone, and the name c is free for another connection. *)
Forget(c) ==
  /\ at[c] = "ended" /\ writer[c] = "off"
  /\ Goto(c, "off")
  /\ last' = last \ {c} /\ done' = done \ {c} /\ cut' = cut \ {c}
  /\ Runs /\ UNCHANGED <<own, clients, gone, writer>>

-----------------------------------------------------------------------------
(* The session's own life.                                                 *)

(* Create comes to its Upsert: "idle from birth", attached or not. *)
UpsertRow ==
  /\ creating /\ creating' = FALSE
  /\ row' = "set"
  /\ Runs /\ UNCHANGED <<listed, shell, closed, closing, reaping,
                         clients, gone, conn>>

TimesOut ==
  /\ gone = "recent" /\ gone' = "expired"
  /\ Runs /\ UNCHANGED <<own, clients, conn>>

(* A mutant: only sessions with clients are looked at. *)
ScanAttached ==
  /\ listed /\ gone = "expired" /\ ~reaping /\ clients # {}
  /\ reaping' = TRUE
  /\ Runs /\ UNCHANGED <<listed, shell, closed, row, creating, closing,
                         clients, gone, conn>>

(* reapOnce looks at IdleDuration, -1 when clientGoneAt is 0. *)
Scan ==
  /\ listed /\ gone = "expired" /\ ~reaping
  /\ reaping' = TRUE
  /\ Runs /\ UNCHANGED <<listed, shell, closed, row, creating, closing,
                         clients, gone, conn>>

(* A mutant: the session is looked up and left in the map. *)
LookUp(by) ==
  /\ listed
  /\ closing' = by
  /\ Runs /\ UNCHANGED <<listed, shell, closed, row, creating, clients, gone,
                         conn>>

(* Delete, by a request (CloseAll is as one to the clients) or the reaper: *)
(* whoever takes the session out of the map closes it ...                  *)
Claim(by) ==
  /\ listed /\ listed' = FALSE
  /\ closing' = by
  /\ Runs /\ UNCHANGED <<shell, closed, row, creating, clients, gone, conn>>

(* ... and who comes too late clears its row. *)
ClearRow ==
  /\ ~listed
  /\ row' = "absent"
  /\ Runs /\ UNCHANGED <<listed, shell, closed, creating, closing,
                         clients, gone, conn>>

Delete == (Claim("request") \/ ClearRow) /\ UNCHANGED reaping
Reap   == reaping /\ reaping' = FALSE /\ (Claim("reaper") \/ ClearRow)

(* Session.Close: each registered client is told, and all are forgotten. *)
Close ==
  /\ closing \in {"request", "reaper"} /\ ~closed /\ closed' = TRUE
  /\ done' = done \cup clients
  /\ clients' = {}
  /\ Runs /\ UNCHANGED <<listed, shell, row, creating, closing, reaping,
                         gone, at, writer, last, cut>>

DeleteRow ==
  /\ closed /\ closing \in {"request", "reaper"}
  /\ closing' = "over"
  /\ row' = "absent"
  /\ Runs /\ UNCHANGED <<listed, shell, closed, creating, reaping,
                         clients, gone, conn>>

(* The shell ends, killed by Close or not, and OnProcessExit unlists the   *)
(* session; the clients are not told.                                      *)
ShellExits ==
  /\ shell = "running" /\ shell' = "exited"
  /\ Runs /\ UNCHANGED <<listed, closed, row, creating, closing, reaping,
                         clients, gone, conn>>

Unlist ==
  /\ shell = "exited" /\ listed /\ listed' = FALSE
  /\ Runs /\ UNCHANGED <<shell, closed, row, creating, closing, reaping,
                         clients, gone, conn>>

-----------------------------------------------------------------------------
Handler(c) == \/ UpgradeFails(c) \/ Register(c) \/ ResetGone(c)
              \/ OnClientsAttach(c) \/ Serve(c)
Reader(c)  == \/ ReadFails(c) \/ CloseDone(c) \/ StampGone(c)
              \/ OnClientsEmpty(c) \/ HangUp(c)

Next ==
  \/ \E c \in Conns : \/ Get(c) \/ Handler(c) \/ Reader(c) \/ WriterStops(c)
                      \/ PeerLeaves(c) \/ Forget(c)
  \/ UpsertRow \/ TimesOut \/ Scan \/ Delete \/ Reap \/ Close \/ DeleteRow
  \/ ShellExits \/ Unlist

Spec == Init /\ [][Next]_vars

(* A goroutine that can run does run, and time passes; nobody has to       *)
(* connect, to leave or to delete, and a shell need not exit.              *)
Fairness ==
  /\ \A c \in Conns : /\ WF_vars(Handler(c)) /\ WF_vars(Reader(c))
                      /\ WF_vars(WriterStops(c)) /\ WF_vars(Forget(c))
  /\ WF_vars(UpsertRow) /\ WF_vars(TimesOut) /\ WF_vars(Scan) /\ WF_vars(Reap)
  /\ WF_vars(Close) /\ WF_vars(DeleteRow) /\ WF_vars(Unlist)

FairSpec == Spec /\ Fairness

-----------------------------------------------------------------------------
(* Properties.                                                             *)

(* Every variable has its type, and nobody has claimed a listed session.   *)
TypeOK ==
  /\ listed \in BOOLEAN /\ closed \in BOOLEAN /\ creating \in BOOLEAN
  /\ reaping \in BOOLEAN /\ crashed \in BOOLEAN
  /\ shell \in {"running", "exited"}
  /\ gone \in {"zero", "recent", "expired"}
  /\ row \in {"absent", "zero", "set"}
  /\ closing \in {"no", "request", "reaper", "over"}
  /\ closing = "no" \/ listed = FALSE
  /\ at \in [Conns -> {"off", "upgrade", "hangup", "ended"}
                        \cup Served \cup Leaving]
  /\ writer \in [Conns -> {"off", "writing"}]
  /\ clients \subseteq Conns /\ last \subseteq Conns
  /\ done \subseteq Conns /\ cut \subseteq Conns

(* The idle clock of a session is never lost: with nobody attached, and    *)
(* nobody between the lock and the two stores that follow it, clientGoneAt *)
(* and the row both hold the time of a departure, whatever the order in    *)
(* which clients came and went.                                            *)
IdleWhenEmpty ==
  ~closed /\ clients = {} /\ (\A c \in Conns : at[c] \notin Leaving)
    => gone # "zero" /\ row # "zero"

(* A connection is registered exactly while its handler and readPump are   *)
(* there to unregister it, unless Close has emptied the set.               *)
RegisteredWhileServed ==
  /\ \A c \in clients : at[c] \in Served
  /\ ~closed => \A c \in Conns : at[c] \in Served => c \in clients

(* Only Close makes RemoveClient panic: no order of arrivals and           *)
(* departures closes a client's channel twice.                             *)
PanicNeedsClose == crashed => closed

(* A connection that is lost stops being a client. *)
LeaversAreRemoved ==
  \A c \in Conns : c \in clients \cap cut ~> c \notin clients \/ crashed

(* A client whose channel was closed loses its connection. *)
CloseReachesClients ==
  \A c \in Conns : c \in done /\ writer[c] = "writing"
                     ~> writer[c] = "off" \/ crashed

(* A session to which nobody comes any more is taken down. *)
AbandonedIsTakenDown ==
  <>[](\A c \in Conns : at[c] = "off") => <>(~listed)

-----------------------------------------------------------------------------
(* What the documentation says and the code does not do.                   *)

(* docs/background-running.md:95: at a shutdown the clients are notified   *)
(* (and the process goes on to drain them).                                *)
CloseIsOrderly == ~crashed

=============================================================================
