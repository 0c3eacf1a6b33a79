---------------------------- MODULE MetadataSync ----------------------------
(***************************************************************************)
(* What is kept twice of one session: its name, its last activity and its  *)
(* size, in the Session and in its row, and the column that the clients    *)
(* coming and going write.  Create, Rename, the flushes and the clients    *)
(* write them without a lock over both copies, while the session may end,  *)
(* be deleted or lose its process.  A rename request stands for the name   *)
(* it brings, a version number for a time or a size.  A client that found  *)
(* the session just before it left the map is in SessionClients.           *)
(***************************************************************************)
EXTENDS Naturals

CONSTANTS
  Renames,     \* requests to rename the session
  Default,     \* the name that Create gave it
  Conns,       \* names for the WebSocket connections of a moment
  None,        \* no row, no name, nobody
  MaxOutput,   \* a bound: bursts of output ...
  MaxResize    \* ... and changes of size

Flushers == {"flushLoop", "CloseAll"}
Writers  == Renames \cup {Default}   \* of the name: Create is one of them

Rows == [name : Writers, activity : 0..MaxOutput, size : 0..MaxResize,
         gone : {"zero", "set"}]   \* a time or zero

ASSUME MetadataAssumption ==
  /\ Default \notin Renames \cup Flushers
  /\ None \notin Writers /\ None \notin Rows
  /\ MaxOutput \in Nat /\ MaxResize \in Nat

VARIABLES
  phase,     \* of the process: "up", "flush", "close", "closed" (the store
             \* too) or "down"
  creator,   \* how far Create is: "insert", "load", "upsert" or "done"
  listed,    \* whether the session is in the map
  name, activity, size,   \* the fields of the Session
  row,       \* its row, or None
  rename,    \* per request: "idle", "found", "store" or "ended"
  flusher,   \* per flush: "idle", "load", "activity", "size" or "store"
  held,      \* per writer: the values it has loaded and not yet stored
  conn,      \* per connection: "away", "arriving", "here" or "leaving"; the
             \* first to come and the last to go have a callback to run
  deleted,   \* how far Delete is: "no", "claimed" or "yes"
  solo,      \* history: the writer of the name that has been alone so far
  agreed,    \* history: the name that the last writer set, if it was alone
  passed,    \* history: the flushes that somebody else's store has overtaken
             \* since they have loaded the activity
  early,     \* history: the first client that is there stored before Create did
  crossed,   \* history: when the first client that is there came, a departure
             \* was still to be stored
  start      \* history: activity and size when CloseAll began, or what
             \* flushLoop then had in hand

memory == <<listed, name, activity, size>>
ghost  == <<solo, agreed, passed, early, crossed, start>>
vars   == <<phase, creator, memory, row, rename, flusher, held, conn, deleted,
            ghost>>

Zero == [activity |-> 0, size |-> 0]

Init ==
  /\ phase = "up" /\ creator = "insert"
  /\ listed = FALSE /\ name = Default /\ activity = 0 /\ size = 0
  /\ row = None /\ conn = [c \in Conns |-> "away"] /\ deleted = "no"
  /\ rename = [r \in Renames |-> "idle"]
  /\ flusher = [f \in Flushers |-> "idle"]
  /\ held = [w \in Flushers \cup {Default} |-> Zero]
  /\ solo = Default /\ agreed = None /\ passed = {}
  /\ early = FALSE /\ crossed = FALSE /\ start = Zero

Runs == phase # "down"
StoreOpen == phase \notin {"closed", "down"}

(* UPDATE ... SET column WHERE id: nothing without a row, or a store. *)
Update(column, value) ==
  row' = IF row # None /\ StoreOpen THEN [row EXCEPT ![column] = value] ELSE row

(* Who has loaded the activity and not stored it, or is between its two     *)
(* writes of the name.                                                     *)
Halfway == {f \in Flushers : flusher[f] = "activity"}
Naming == {r \in Renames : rename[r] \in {"found", "store"}}
            \cup {d \in {Default} : creator # "done"}

-----------------------------------------------------------------------------
(* Create, from the insertion on.                                          *)

Insert ==
  /\ Runs /\ creator = "insert"
  /\ listed' = TRUE /\ creator' = "load"
  /\ UNCHANGED <<phase, name, activity, size, row, rename, flusher, held,
                 conn, deleted, ghost>>

(* The arguments of Upsert, the name being the Session's. *)
LoadRow ==
  /\ Runs /\ creator = "load" /\ creator' = "upsert"
  /\ held' = [held EXCEPT ![Default] = [name |-> name, activity |-> activity]]
  /\ UNCHANGED <<phase, memory, row, rename, flusher, conn, deleted, ghost>>

Upsert ==
  /\ Runs /\ creator = "upsert" /\ creator' = "done"
  /\ row' = IF StoreOpen
            THEN [name |-> held[Default].name, size |-> 0,
                  activity |-> held[Default].activity, gone |-> "set"]
            ELSE row
  /\ held' = [held EXCEPT ![Default] = Zero]
  /\ agreed' = IF solo = Default /\ StoreOpen THEN Default ELSE agreed
  /\ passed' = passed \cup Halfway
  /\ UNCHANGED <<phase, memory, rename, flusher, conn, deleted, solo, early,
                 crossed, start>>

-----------------------------------------------------------------------------
(* Rename.                                                                 *)

Find(r) ==
  /\ Runs /\ rename[r] = "idle"
  /\ rename' = [rename EXCEPT ![r] = IF listed THEN "found" ELSE "store"]
  /\ solo' = IF Naming = {} THEN r ELSE None
  /\ agreed' = None
  /\ UNCHANGED <<phase, creator, memory, row, flusher, held, conn, deleted,
                 passed, early, crossed, start>>

(* A mutant: the name of a live session is not stored. *)
SetNameOnly(r) ==
  /\ Runs /\ rename[r] = "found"
  /\ name' = r
  /\ rename' = [rename EXCEPT ![r] = "ended"]
  /\ agreed' = IF solo = r THEN r ELSE agreed
  /\ UNCHANGED <<phase, creator, listed, activity, size, row, flusher, held,
                 conn, deleted, solo, passed, early, crossed, start>>

SetName(r) ==
  /\ Runs /\ rename[r] = "found"
  /\ name' = r
  /\ rename' = [rename EXCEPT ![r] = "store"]
  /\ UNCHANGED <<phase, creator, listed, activity, size, row, flusher, held,
                 conn, deleted, ghost>>

(* A mutant: an Upsert of what Rename knows of the session. *)
StoreNameUpserting(r) ==
  /\ Runs /\ rename[r] = "store"
  /\ row' = IF row # None /\ StoreOpen
            THEN [row EXCEPT !.name = r, !.activity = 0] ELSE row
  /\ rename' = [rename EXCEPT ![r] = "ended"]
  /\ agreed' = IF solo = r /\ StoreOpen THEN r ELSE agreed
  /\ UNCHANGED <<phase, creator, memory, flusher, held, conn, deleted, solo,
                 passed, early, crossed, start>>

(* The answer is success, whether there is a row or not. *)
StoreName(r) ==
  /\ Runs /\ rename[r] = "store"
  /\ Update("name", r)
  /\ rename' = [rename EXCEPT ![r] = "ended"]
  /\ agreed' = IF solo = r /\ StoreOpen THEN r ELSE agreed
  /\ UNCHANGED <<phase, creator, memory, flusher, held, conn, deleted, solo,
                 passed, early, crossed, start>>

-----------------------------------------------------------------------------
(* flush, by flushLoop or by CloseAll.                                     *)

(* A mutant: once stopped, nothing is flushed any more. *)
SnapshotUnlessStopped(f) ==
  /\ Runs /\ flusher[f] = "idle"
  /\ phase = "flush" \/ f = "flushLoop"
  /\ \/ listed /\ f = "flushLoop"
        /\ flusher' = [flusher EXCEPT ![f] = "load"] /\ UNCHANGED phase
     \/ f = "CloseAll" /\ phase' = "close" /\ UNCHANGED flusher
  /\ UNCHANGED <<creator, memory, row, rename, held, conn, deleted, ghost>>

Snapshot(f) ==
  /\ Runs /\ flusher[f] = "idle"
  /\ phase = "flush" \/ f = "flushLoop"
  /\ \/ listed /\ flusher' = [flusher EXCEPT ![f] = "load"] /\ UNCHANGED phase
     \/ ~listed /\ f = "CloseAll" /\ phase' = "close" /\ UNCHANGED flusher
  /\ UNCHANGED <<creator, memory, row, rename, held, conn, deleted, ghost>>

LoadActivity(f) ==
  /\ Runs /\ flusher[f] = "load"
  /\ held' = [held EXCEPT ![f].activity = activity]
  /\ flusher' = [flusher EXCEPT ![f] = "activity"]
  /\ UNCHANGED <<phase, creator, memory, row, rename, conn, deleted, ghost>>

(* A mutant: the full Upsert that the comment in flush warns of. *)
StoreActivityUpserting(f) ==
  /\ Runs /\ flusher[f] = "activity"
  /\ row' = IF row # None /\ StoreOpen
            THEN [row EXCEPT !.activity = held[f].activity, !.gone = "set"]
            ELSE row
  /\ held' = [held EXCEPT ![f] = Zero]
  /\ flusher' = [flusher EXCEPT ![f] = "size"]
  /\ passed' = (passed \cup Halfway) \ {f}
  /\ UNCHANGED <<phase, creator, memory, rename, conn, deleted, solo, agreed,
                 early, crossed, start>>

StoreActivity(f) ==
  /\ Runs /\ flusher[f] = "activity"
  /\ Update("activity", held[f].activity)
  /\ held' = [held EXCEPT ![f] = Zero]
  /\ flusher' = [flusher EXCEPT ![f] = "size"]
  /\ passed' = (passed \cup Halfway) \ {f}
  /\ UNCHANGED <<phase, creator, memory, rename, conn, deleted, solo, agreed,
                 early, crossed, start>>

LoadSize(f) ==
  /\ Runs /\ flusher[f] = "size"
  /\ held' = [held EXCEPT ![f].size = size]
  /\ flusher' = [flusher EXCEPT ![f] = "store"]
  /\ UNCHANGED <<phase, creator, memory, row, rename, conn, deleted, ghost>>

(* A size that is not known is not stored. *)
StoreSize(f) ==
  /\ Runs /\ flusher[f] = "store"
  /\ IF held[f].size > 0 THEN Update("size", held[f].size) ELSE UNCHANGED row
  /\ held' = [held EXCEPT ![f] = Zero]
  /\ flusher' = [flusher EXCEPT ![f] = "idle"]
  /\ phase' = IF f = "CloseAll" THEN "close" ELSE phase
  /\ UNCHANGED <<creator, memory, rename, conn, deleted, ghost>>

-----------------------------------------------------------------------------
(* The session itself: its output, its size, its clients, its end.         *)

Output ==
  /\ Runs /\ listed /\ activity < MaxOutput /\ activity' = activity + 1
  /\ UNCHANGED <<phase, creator, listed, name, size, row, rename, flusher, held,
                 conn, deleted, ghost>>

Resize ==
  /\ Runs /\ listed /\ size < MaxResize /\ size' = size + 1
  /\ UNCHANGED <<phase, creator, listed, name, activity, row, rename, flusher,
                 held, conn, deleted, ghost>>

(* Clients come and go under the Session's mu ... *)
Present == {c \in Conns : conn[c] \in {"arriving", "here"}}

Arrive(c) ==
  /\ Runs /\ listed /\ conn[c] = "away"
  /\ conn' = [conn EXCEPT ![c] = IF Present = {} THEN "arriving" ELSE "here"]
  /\ crossed' = IF Present = {} THEN \E d \in Conns : conn[d] = "leaving"
                ELSE crossed
  /\ UNCHANGED <<phase, creator, memory, row, rename, flusher, held, deleted,
                 solo, agreed, passed, early, start>>

Depart(c) ==
  /\ Runs /\ conn[c] = "here"
  /\ conn' = [conn EXCEPT ![c] = IF Present = {c} THEN "leaving" ELSE "away"]
  /\ early' = (early /\ Present # {c}) /\ crossed' = (crossed /\ Present # {c})
  /\ UNCHANGED <<phase, creator, memory, row, rename, flusher, held, deleted,
                 solo, agreed, passed, start>>

(* ... and the callbacks store it when the lock has been given back, in    *)
(* any order.                                                              *)
StoreClients(c) ==
  /\ Runs /\ conn[c] \in {"arriving", "leaving"}
  /\ Update("gone", IF conn[c] = "arriving" THEN "zero" ELSE "set")
  /\ conn' = [conn EXCEPT ![c] = IF @ = "arriving" THEN "here" ELSE "away"]
  /\ early' = IF conn[c] = "arriving" THEN creator # "done" ELSE early
  /\ UNCHANGED <<phase, creator, memory, rename, flusher, held, deleted, solo,
                 agreed, passed, crossed, start>>

(* The exit hook: the row stays. *)
Unlist ==
  /\ Runs /\ listed /\ listed' = FALSE
  /\ UNCHANGED <<phase, creator, name, activity, size, row, rename, flusher,
                 held, conn, deleted, ghost>>

(* Delete, which knows of the session from the map or from the rows.       *)
Claim ==
  /\ Runs /\ deleted = "no"
  /\ listed \/ (row # None /\ StoreOpen)
  /\ deleted' = "claimed" /\ listed' = FALSE
  /\ UNCHANGED <<phase, creator, name, activity, size, row, rename, flusher,
                 held, conn, ghost>>

DeleteRow ==
  /\ Runs /\ deleted = "claimed" /\ deleted' = "yes"
  /\ row' = IF StoreOpen THEN None ELSE row
  /\ UNCHANGED <<phase, creator, memory, rename, flusher, held, conn, ghost>>

-----------------------------------------------------------------------------
(* The process.                                                            *)

(* CloseAll stops the loops, without waiting for them, and flushes ...     *)
Terminate ==
  /\ phase = "up" /\ phase' = "flush"
  /\ start' = IF listed /\ creator = "done"
              THEN [activity |-> IF flusher["flushLoop"] = "activity"
                                 THEN held["flushLoop"].activity ELSE activity,
                    size |-> IF flusher["flushLoop"] = "store"
                             THEN held["flushLoop"].size ELSE size]
              ELSE Zero
  /\ UNCHANGED <<creator, memory, row, rename, flusher, held, conn, deleted,
                 solo, agreed, passed, early, crossed>>

(* ... closes the sessions, and main closes the store. *)
CloseSessions ==
  /\ phase = "close" /\ phase' = "closed" /\ listed' = FALSE
  /\ UNCHANGED <<creator, name, activity, size, row, rename, flusher, held,
                 conn, deleted, ghost>>

(* The end of the process, a crash or not: the row is what remains. *)
Halt ==
  /\ Runs /\ phase' = "down"
  /\ listed' = FALSE /\ creator' = "done"
  /\ name' = Default /\ activity' = 0 /\ size' = 0
  /\ rename' = [r \in Renames |->
                  IF rename[r] = "idle" THEN "idle" ELSE "ended"]
  /\ flusher' = [f \in Flushers |-> "idle"]
  /\ held' = [w \in Flushers \cup {Default} |-> Zero]
  /\ conn' = [c \in Conns |-> "away"]
  /\ deleted' = IF deleted = "claimed" THEN "no" ELSE deleted
  /\ start' = Zero /\ solo' = None /\ passed' = {}
  /\ early' = FALSE /\ crossed' = FALSE
  /\ UNCHANGED <<row, agreed>>

(* The next process finds the row and no session. *)
Boot ==
  /\ phase = "down" /\ phase' = "up"
  /\ UNCHANGED <<creator, memory, row, rename, flusher, held, conn, deleted,
                 ghost>>

Next ==
  \/ Insert \/ LoadRow \/ Upsert
  \/ \E r \in Renames : Find(r) \/ SetName(r) \/ StoreName(r)
  \/ \E f \in Flushers : \/ Snapshot(f) \/ LoadActivity(f) \/ StoreActivity(f)
                         \/ LoadSize(f) \/ StoreSize(f)
  \/ Output \/ Resize
  \/ \E c \in Conns : Arrive(c) \/ Depart(c) \/ StoreClients(c)
  \/ Unlist \/ Claim \/ DeleteRow
  \/ Terminate \/ CloseSessions \/ Halt \/ Boot

Spec == Init /\ [][Next]_vars

-----------------------------------------------------------------------------
(* Properties.                                                             *)

(* The name that List shows: the Session's, or else the row's. *)
Shown == IF listed THEN name ELSE IF row # None THEN row.name ELSE None

(* Every variable has its type. *)
TypeOK ==
  /\ phase \in {"up", "flush", "close", "closed", "down"}
  /\ creator \in {"insert", "load", "upsert", "done"}
  /\ listed \in BOOLEAN /\ name \in Writers
  /\ activity \in 0..MaxOutput /\ size \in 0..MaxResize
  /\ row \in Rows \cup {None}
  /\ rename \in [Renames -> {"idle", "found", "store", "ended"}]
  /\ flusher \in [Flushers -> {"idle", "load", "activity", "size", "store"}]
  /\ conn \in [Conns -> {"away", "arriving", "here", "leaving"}]
  /\ deleted \in {"no", "claimed", "yes"}
  /\ solo \in Writers \cup {None} /\ agreed \in Writers \cup {None}
  /\ early \in BOOLEAN /\ crossed \in BOOLEAN

(* A name that was given while nobody else gave one is the name that is    *)
(* shown from then on, whatever flushes, crashes and restarts come after   *)
(* it, until somebody renames the session again.                           *)
NameSticks == agreed # None /\ Shown # None => Shown = agreed

(* The activity in a row goes back only when a flush stores what it had    *)
(* loaded before another flush, or Create, stored theirs.                  *)
ActivityForward ==
  [][row # None /\ row' # None /\ row'.activity < row.activity
       => \E f \in passed : StoreActivity(f)]_vars

(* When CloseAll has flushed, a session that is still there has in its row *)
(* the activity and the size that it had when CloseAll began, or later     *)
(* ones; if flushLoop was halfway then, CloseAll not having waited for it, *)
(* at least what flushLoop had in hand.  The types are checked with it.    *)
FinalFlush ==
  /\ TypeOK
  /\ phase = "close" /\ listed /\ row # None =>
       row.activity >= start.activity /\ row.size >= start.size

(* Only the clients decide what a row says of their coming and going.  It  *)
(* is a time when none is there and the last one has stored that, in       *)
(* whatever order the callbacks ran: the clock of a session that nobody is *)
(* attached to is never lost.  It is zero while one is there, unless the   *)
(* first of them met a departure not yet stored, or stored before Create.  *)
GoneKept ==
  listed /\ row # None =>
    /\ Present = {} /\ (\A c \in Conns : conn[c] # "leaving")
         => row.gone # "zero"
    /\ Present # {} /\ (\A c \in Conns : conn[c] # "arriving")
         /\ ~crossed /\ ~early => row.gone = "zero"

=============================================================================
