--------------------------- MODULE SessionManager ---------------------------
(***************************************************************************)
(* The session manager of internal/session/manager.go: the map of live     *)
(* sessions, the persisted rows and history files, and the goroutines that *)
(* change them.  HTTP requests run Create and Delete, one goroutine per    *)
(* shell runs waitProcess, one runs reapLoop, and main runs the shutdown.  *)
(* Everything between two acquisitions of Manager.mu, or between two       *)
(* statements sent to the store, interleaves.                              *)
(*                                                                         *)
(* Names, activity and sizes (Rename, flush) do not appear: they touch     *)
(* columns no decision below reads.  What clients do to a session is       *)
(* reduced to the passing of its idle timeout; SessionClients has more.    *)
(***************************************************************************)
EXTENDS Naturals, FiniteSets, MetaStore

CONSTANTS
  Ids,          \* session ids (8 characters of a UUID: never drawn twice)
  NoId,
  Reqs,         \* HTTP requests that can be in progress at the same time
  Reaper,       \* the goroutine of reapLoop
  MaxSessions,  \* MAX_SESSIONS, 0 for no limit
  IdleTimeout   \* whether SESSION_IDLE_TIMEOUT is set, so that reapLoop runs

ASSUME IdsAssumption     == NoId \notin Ids
ASSUME WorkersAssumption == IsFiniteSet(Reqs) /\ Reaper \notin Reqs
ASSUME ConfigAssumption  == MaxSessions \in Nat /\ IdleTimeout \in BOOLEAN

Workers == Reqs \cup {Reaper}

VARIABLES
  phase,     \* how far main is: see Phases
  sessions,  \* the ids in Manager.sessions
  abandoned, \* those of them whose IdleDuration exceeds the timeout
  watch,     \* per id, how far its waitProcess goroutine is
  hooked,    \* the ids whose OnProcessExit has been assigned
  closed,    \* the ids on which Session.Close has run
  rows,      \* the store: see MetaStore
  history,   \* the ids that have a history file
  pc,        \* per worker, its next step in Create or Delete
  arg,       \* per worker, the id that call is about
  live,      \* the workers whose Delete took the session out of the map
  victims    \* what is left of reapOnce's list

mem  == <<sessions, abandoned, watch, hooked, closed>>
disk == <<rows, history>>
call == <<pc, arg, live, victims>>
vars == <<phase, mem, disk, call>>

-----------------------------------------------------------------------------
(* "closing" is CloseAll inside m.mu; metaStore is closed from "storeless". *)
Phases     == {"down", "up", "stopping", "closing", "unlocked", "storeless",
               "draining"}
Accepting  == phase \in {"up", "stopping", "closing", "unlocked", "storeless"}
StoreOpen  == phase \in {"up", "stopping", "closing", "unlocked"}
MuFree     == phase \notin {"down", "closing"}

CreateSteps == {"spawn", "hook", "insert", "upsert"}
DeleteSteps == {"list", "close", "row", "history"}

Holds(w, i, steps) == pc[w] \in steps /\ arg[w] = i

(* The caller of NewSession has not published the id yet. *)
Unpublished(i) == \E w \in Workers : Holds(w, i, {"hook", "insert"})

Fresh(i) == /\ watch[i] = "none" /\ rows[i] = NoRow /\ i \notin history
            /\ \A w \in Workers : arg[w] # i
            /\ i \notin victims

(* A mutant: the idle clock outlives the session. *)
TakeOutOnly(i) == sessions' = sessions \ {i} /\ UNCHANGED abandoned

TakeOut(i) == /\ sessions'  = sessions \ {i}
              /\ abandoned' = abandoned \ {i}

Return(w) == /\ pc'   = [pc EXCEPT ![w] = "idle"]
             /\ arg'  = [arg EXCEPT ![w] = NoId]
             /\ live' = live \ {w}

-----------------------------------------------------------------------------
Init ==
  /\ phase = "down"
  /\ sessions = {} /\ abandoned = {} /\ hooked = {} /\ closed = {}
  /\ victims = {} /\ live = {}
  /\ watch = [i \in Ids |-> "none"]
  /\ rows  = [i \in Ids |-> NoRow]
  /\ history = {}
  /\ pc  = [w \in Workers |-> "idle"]
  /\ arg = [w \in Workers |-> NoId]

(* NewManager: no live session, and no row may claim to be running. *)
Boot ==
  /\ phase = "down"
  /\ phase' = "up"
  /\ rows' = MarkAllDetached(rows)
  /\ UNCHANGED <<mem, history, call>>

(* The process ends: only the disk remains. *)
Halt ==
  /\ phase' = "down"
  /\ sessions' = {} /\ abandoned' = {} /\ hooked' = {} /\ closed' = {}
  /\ victims' = {} /\ live' = {}
  /\ watch' = [i \in Ids |-> "none"]
  /\ pc'  = [w \in Workers |-> "idle"]
  /\ arg' = [w \in Workers |-> NoId]
  /\ UNCHANGED disk

Crash == phase \notin {"down", "draining"} /\ Halt

-----------------------------------------------------------------------------
(* Create, one action per section that another goroutine can come between. *)

(* A mutant: off by one. *)
CheckLimitLoosely(w) ==
  /\ Accepting /\ pc[w] = "idle"
  /\ MaxSessions > 0 => MuFree /\ Cardinality(sessions) <= MaxSessions
  /\ pc' = [pc EXCEPT ![w] = "spawn"]
  /\ UNCHANGED <<phase, mem, disk, arg, live, victims>>

(* The limit is read under RLock, and the lock given back. *)
CheckLimit(w) ==
  /\ Accepting /\ pc[w] = "idle"
  /\ MaxSessions > 0 => MuFree /\ Cardinality(sessions) < MaxSessions
  /\ pc' = [pc EXCEPT ![w] = "spawn"]
  /\ UNCHANGED <<phase, mem, disk, arg, live, victims>>

(* NewSession: the shell runs, and waitProcess waits for it, from here on. *)
Spawn(w) ==
  /\ pc[w] = "spawn"
  /\ \E i \in Ids :
       /\ Fresh(i)
       /\ watch' = [watch EXCEPT ![i] = "wait"]
       /\ history' = history \cup {i}
       /\ arg' = [arg EXCEPT ![w] = i]
       /\ pc' = [pc EXCEPT ![w] = "hook"]
  /\ UNCHANGED <<phase, sessions, abandoned, hooked, closed, rows, live,
                 victims>>

(* No pty, or no history file: the shell, if any, is killed. *)
SpawnFails(w) ==
  /\ pc[w] = "spawn"
  /\ Return(w)
  /\ UNCHANGED <<phase, mem, disk, victims>>

Hook(w) ==
  /\ pc[w] = "hook"
  /\ hooked' = hooked \cup {arg[w]}
  /\ pc' = [pc EXCEPT ![w] = "insert"]
  /\ UNCHANGED <<phase, sessions, abandoned, watch, closed, disk, arg, live,
                 victims>>

Insert(w) ==
  /\ pc[w] = "insert" /\ MuFree
  /\ sessions' = sessions \cup {arg[w]}
  /\ pc' = [pc EXCEPT ![w] = "upsert"]
  /\ UNCHANGED <<phase, abandoned, watch, hooked, closed, disk, arg, live,
                 victims>>

UpsertRow(w) ==
  /\ pc[w] = "upsert"
  /\ rows' = IF StoreOpen THEN Upsert(rows, arg[w], "running") ELSE rows
  /\ Return(w)
  /\ UNCHANGED <<phase, mem, history, victims>>

-----------------------------------------------------------------------------
(* Delete, for a request or for the reaper. *)

(* A mutant: the session is looked up and left in the map. *)
LookUp(w, i) ==
  /\ pc[w] = "idle" /\ MuFree
  /\ live' = IF i \in sessions THEN live \cup {w} ELSE live
  /\ arg' = [arg EXCEPT ![w] = i]
  /\ pc' = [pc EXCEPT ![w] = "list"]
  /\ UNCHANGED <<phase, mem, disk>>

(* Takes the session out of the map: whoever does so is to close it. *)
Claim(w, i) ==
  /\ pc[w] = "idle" /\ MuFree
  /\ live' = IF i \in sessions THEN live \cup {w} ELSE live
  /\ TakeOut(i)
  /\ arg' = [arg EXCEPT ![w] = i]
  /\ pc' = [pc EXCEPT ![w] = "list"]
  /\ UNCHANGED <<phase, watch, hooked, closed, disk>>

RequestDelete(w, i) ==
  /\ Accepting
  /\ watch[i] # "none" \/ rows[i] # NoRow     \* ids a client can have heard of
  /\ ~Unpublished(i)
  /\ Claim(w, i)
  /\ UNCHANGED victims

(* Not in the map and not in the store: not found. *)
ListRows(w) ==
  /\ pc[w] = "list"
  /\ \/ /\ w \in live
        /\ pc' = [pc EXCEPT ![w] = "close"]
        /\ UNCHANGED <<arg, live>>
     \/ /\ w \notin live /\ StoreOpen /\ rows[arg[w]] # NoRow
        /\ pc' = [pc EXCEPT ![w] = "row"]
        /\ UNCHANGED <<arg, live>>
     \/ /\ w \notin live /\ (StoreOpen => rows[arg[w]] = NoRow)
        /\ Return(w)
  /\ UNCHANGED <<phase, mem, disk, victims>>

CloseLive(w) ==
  /\ pc[w] = "close"
  /\ closed' = closed \cup {arg[w]}
  /\ pc' = [pc EXCEPT ![w] = "row"]
  /\ UNCHANGED <<phase, sessions, abandoned, watch, hooked, disk, arg, live,
                 victims>>

(* A mutant: Delete returns when the row is gone. *)
RemoveRowOnly(w) ==
  /\ pc[w] = "row"
  /\ rows' = IF StoreOpen THEN DeleteRow(rows, arg[w]) ELSE rows
  /\ Return(w)
  /\ UNCHANGED <<phase, mem, history, victims>>

RemoveRow(w) ==
  /\ pc[w] = "row"
  /\ rows' = IF StoreOpen THEN DeleteRow(rows, arg[w]) ELSE rows
  /\ pc' = [pc EXCEPT ![w] = "history"]
  /\ UNCHANGED <<phase, mem, history, arg, live, victims>>

RemoveHistory(w) ==
  /\ pc[w] = "history"
  /\ history' = history \ {arg[w]}
  /\ Return(w)
  /\ UNCHANGED <<phase, mem, rows, victims>>

-----------------------------------------------------------------------------
(* reapLoop.  Once stop is closed a tick may still win the select, so a    *)
(* scan can start in any phase in which the process lives.                 *)

(* A mutant: the comparison with the timeout is the wrong way round. *)
ScanActive ==
  /\ IdleTimeout /\ MuFree /\ pc[Reaper] = "idle" /\ victims = {}
  /\ victims' = sessions \ abandoned
  /\ victims' # {}
  /\ UNCHANGED <<phase, mem, disk, pc, arg, live>>

Scan ==
  /\ IdleTimeout /\ MuFree /\ pc[Reaper] = "idle" /\ victims = {}
  /\ victims' = abandoned
  /\ victims' # {}
  /\ UNCHANGED <<phase, mem, disk, pc, arg, live>>

Reap(i) ==
  /\ i \in victims
  /\ Claim(Reaper, i)
  /\ victims' = victims \ {i}

-----------------------------------------------------------------------------
(* waitProcess, and the OnProcessExit that Create gave the session.        *)

(* The shell ends, by itself or killed by Close, and the hook is looked up *)
(* (by a read that nothing orders after the write in Hook).                *)
ShellExits(i) ==
  /\ watch[i] = "wait"
  /\ watch' = [watch EXCEPT ![i] = IF i \in hooked THEN "exited" ELSE "done"]
  /\ UNCHANGED <<phase, sessions, abandoned, hooked, closed, disk, call>>

(* Mutants: the hook reports every exit, of its own session or not; and it *)
(* forgets to take the session out of the map.                             *)
UnlistAnyway(i) ==
  /\ watch[i] = "exited" /\ MuFree
  /\ watch' = [watch EXCEPT ![i] = "report"]
  /\ TakeOut(i)
  /\ UNCHANGED <<phase, hooked, closed, disk, call>>

LeaveListed(i) ==
  /\ watch[i] = "exited" /\ MuFree
  /\ watch' = [watch EXCEPT ![i] = IF i \in sessions THEN "report" ELSE "done"]
  /\ UNCHANGED <<phase, sessions, abandoned, hooked, closed, disk, call>>

Unlist(i) ==
  /\ watch[i] = "exited" /\ MuFree
  /\ watch' = [watch EXCEPT ![i] = IF i \in sessions THEN "report" ELSE "done"]
  /\ TakeOut(i)
  /\ UNCHANGED <<phase, hooked, closed, disk, call>>

ReportDead(i) ==
  /\ watch[i] = "report"
  /\ rows' = IF StoreOpen THEN SetStatus(rows, i, "dead") ELSE rows
  /\ watch' = [watch EXCEPT ![i] = "done"]
  /\ UNCHANGED <<phase, sessions, abandoned, hooked, closed, history, call>>

-----------------------------------------------------------------------------
(* What the clock and the clients do to clientGoneAt.                      *)

SetAbandoned(a) ==
  /\ abandoned' = a
  /\ UNCHANGED <<phase, sessions, watch, hooked, closed, disk, call>>

TimesOut(i) ==
  IdleTimeout /\ i \in sessions \ abandoned /\ SetAbandoned(abandoned \cup {i})

ClientsAttach(i) == i \in abandoned /\ SetAbandoned(abandoned \ {i})

-----------------------------------------------------------------------------
(* main after SIGINT or SIGTERM.                                           *)

Goes(from, to) == phase = from /\ phase' = to

Terminate == Goes("up", "stopping") /\ UNCHANGED <<mem, disk, call>>

LockAll == Goes("stopping", "closing") /\ UNCHANGED <<mem, disk, call>>

(* A mutant: the row keeps its status. *)
CloseOneSilently(i) ==
  /\ phase = "closing" /\ i \in sessions
  /\ closed' = closed \cup {i}
  /\ TakeOut(i)
  /\ UNCHANGED <<phase, watch, hooked, disk, call>>

(* One round of CloseAll's loop. *)
CloseOne(i) ==
  /\ phase = "closing" /\ i \in sessions
  /\ closed' = closed \cup {i}
  /\ rows' = SetStatus(rows, i, "detached")
  /\ TakeOut(i)
  /\ UNCHANGED <<phase, watch, hooked, history, call>>

(* A mutant: with nothing to close, CloseAll returns with m.mu locked. *)
UnlockIfClosed ==
  /\ closed # {} /\ sessions = {} /\ Goes("closing", "unlocked")
  /\ UNCHANGED <<mem, disk, call>>

UnlockAll ==
  /\ sessions = {} /\ Goes("closing", "unlocked")
  /\ UNCHANGED <<mem, disk, call>>

CloseStore == Goes("unlocked", "storeless") /\ UNCHANGED <<mem, disk, call>>

(* srv.Shutdown: no new request; those in progress have 15 seconds. *)
Drain == Goes("storeless", "draining") /\ UNCHANGED <<mem, disk, call>>

Exit == phase = "draining" /\ Halt

-----------------------------------------------------------------------------
Creating(w) == \/ CheckLimit(w) \/ Spawn(w) \/ SpawnFails(w)
               \/ Hook(w) \/ Insert(w) \/ UpsertRow(w)

Deleting(w) == \/ ListRows(w) \/ CloseLive(w)
               \/ RemoveRow(w) \/ RemoveHistory(w)

Watching(i) == ShellExits(i) \/ Unlist(i) \/ ReportDead(i)

Shutdown == \/ LockAll \/ \E i \in Ids : CloseOne(i)
            \/ UnlockAll \/ CloseStore \/ Drain \/ Exit

Clients(i) == TimesOut(i) \/ ClientsAttach(i)

Next ==
  \/ Boot \/ Crash \/ Terminate \/ Shutdown
  \/ \E w \in Reqs : Creating(w) \/ \E i \in Ids : RequestDelete(w, i)
  \/ \E w \in Workers : Deleting(w)
  \/ Scan \/ \E i \in Ids : Reap(i)
  \/ \E i \in Ids : Watching(i) \/ Clients(i)

Spec == Init /\ [][Next]_vars

(* A goroutine that can run does run; a request that has begun goes on; a  *)
(* shell need not exit, unless Close killed it; nobody has to send a       *)
(* request, a signal, or to boot the server again.                         *)
Fairness ==
  /\ WF_vars(Shutdown)
  /\ \A w \in Reqs : WF_vars(pc[w] # "idle" /\ Creating(w))
  /\ \A w \in Workers : WF_vars(Deleting(w))
  /\ WF_vars(Scan) /\ \A i \in Ids : WF_vars(Reap(i))
  /\ \A i \in Ids : /\ WF_vars(i \in closed /\ ShellExits(i))
                    /\ WF_vars(Unlist(i)) /\ WF_vars(ReportDead(i))

FairSpec == Spec /\ Fairness

-----------------------------------------------------------------------------
(* Properties.                                                             *)

(* Every variable has its type, and a worker has an id exactly from the    *)
(* step that draws or receives it to the end of its call.                  *)
TypeOK ==
  /\ phase \in Phases
  /\ sessions \subseteq Ids /\ hooked \subseteq Ids /\ closed \subseteq Ids
  /\ watch \in [Ids -> {"none", "wait", "exited", "report", "done"}]
  /\ abandoned \subseteq sessions
  /\ rows \in [Ids -> Status \cup {NoRow}]
  /\ history \subseteq Ids /\ victims \subseteq Ids /\ live \subseteq Workers
  /\ pc \in [Workers -> {"idle"} \cup CreateSteps \cup DeleteSteps]
  /\ arg \in [Workers -> Ids \cup {NoId}]
  /\ \A w \in Workers : arg[w] = NoId <=> pc[w] \in {"idle", "spawn"}

(* MAX_SESSIONS, the cap on concurrent live sessions of README.md:59,      *)
(* is checked in one critical section and used in another: concurrent      *)
(* Creates can pass it together, but they overshoot it by at most the      *)
(* number of requests in progress less one.                                *)
CapacityBound ==
  MaxSessions > 0 =>
    Cardinality(sessions) + 1 <= MaxSessions + Cardinality(Reqs)

(* The calls that have taken i out of the map and have still to close it,  *)
(* and the exit hook that has and still has to report it.                  *)
Claimants(i) == {w \in live : Holds(w, i, {"list", "close"})}
Reporting(i) == watch[i] = "report"

(* Delete, the reaper, the exit hook and CloseAll compete for a session,   *)
(* and the map decides: one of them gets it, nobody else finds it there,   *)
(* and Session.Close runs at most once.                                    *)
SoleCloser ==
  \A i \in Ids :
    /\ \A v, w \in Claimants(i) : v = w
    /\ Claimants(i) # {} => i \notin sessions \cup closed /\ ~Reporting(i)
    /\ Reporting(i) => i \notin sessions \cup closed
    /\ i \in closed => i \notin sessions

(* A session in the map has a "running" row, except while the Create that  *)
(* put it there has not written it yet: no exit report, no Delete of an    *)
(* older state of it and no shutdown step touches the row of a session     *)
(* that stays in the map.                                                  *)
LiveIsPersisted ==
  StoreOpen => \A i \in sessions :
    rows[i] = "running" \/ \E w \in Reqs : Holds(w, i, {"upsert"})

(* A row reported dead is never brought back, by the Create still in       *)
(* progress, by the shutdown's "detached" or by the next boot.             *)
DeadStaysDead ==
  [][\A i \in Ids : rows[i] = "dead" => rows'[i] \in {"dead", NoRow}]_vars

(* The exit of a shell whose session is already listed is never missed: a  *)
(* session cannot turn into one that stays listed with no shell behind it. *)
Zombie(i) == i \in sessions /\ watch[i] = "done"
NoLateZombie ==
  [][\A i \in sessions : ~Zombie(i) => ~Zombie(i)']_vars

(* A row that says "running", no such session, and nobody about to correct *)
(* the row.                                                                *)
Stray(i) == /\ phase # "down" /\ rows[i] = "running" /\ i \notin sessions
            /\ \A w \in live : ~Holds(w, i, {"list", "close", "row"})
            /\ ~Reporting(i)

(* Such a row, whose status store.go:18 reserves to live shells, has one   *)
(* origin while the store is open: Create's Upsert, coming after the       *)
(* session has left the map again.  No exit, Delete, shutdown, crash or    *)
(* boot leaves one behind.                                                 *)
StrayOnlyFromUpsert ==
  [][\A i \in Ids : ~Stray(i) /\ Stray(i)' =>
       \/ phase \in {"storeless", "draining"}
       \/ \E w \in Reqs : Holds(w, i, {"upsert"})]_vars

(* A history file that no listing shows and no Delete will find.           *)
Orphan(i) == /\ i \in history /\ rows[i] = NoRow /\ i \notin sessions
             /\ \A w \in Workers :
                  ~Holds(w, i, CreateSteps \cup {"close", "row", "history"})
                  /\ (w \in live => ~Holds(w, i, {"list"}))

(* History files are orphaned only by the end of the process or by calls   *)
(* that find the store closed.                                             *)
OrphanOnlyFromHalt ==
  [][\A i \in Ids : ~Orphan(i) /\ Orphan(i)' =>
       ~StoreOpen \/ phase' = "down"]_vars

(* reapLoop gets to every session whose clients are gone for too long.     *)
ReapsAbandoned ==
  \A i \in Ids : i \in abandoned ~> i \notin abandoned

(* An exit noticed while the session is listed takes it off the list, and  *)
(* a closed session's shell is waited for.                                 *)
ExitIsNoticed ==
  \A i \in Ids : /\ watch[i] = "exited" /\ i \in sessions ~> i \notin sessions
                 /\ i \in closed ~> watch[i] \in {"none", "done"}

(* Whatever holds m.mu gives it back: every call returns, and the process  *)
(* that was told to stop does.                                             *)
CallsReturn ==
  /\ \A w \in Workers : pc[w] # "idle" ~> pc[w] = "idle"
  /\ phase = "stopping" ~> phase = "down"

-----------------------------------------------------------------------------
(* What the documentation says and the code does not do: the subject of a  *)
(* run that ends in a counterexample.                                      *)

(* docs/background-running.md:33-38: when its shell exits, a session is    *)
(* removed from the sessions map.                                          *)
ExitedAreRemoved == \A i \in Ids : Zombie(i) ~> ~Zombie(i)

=============================================================================
