------------------------ MODULE SessionManagerProofs ------------------------
(***************************************************************************)
(* Theorems about SessionManager and SessionList, for every set of ids,    *)
(* every number of concurrent requests and every limit.                    *)
(***************************************************************************)
EXTENDS SessionList, FiniteSetTheorems, TLAPS

LEMMA NoIdIsNoId == ASSUME NEW i \in Ids PROVE i # NoId
BY IdsAssumption

(* The operators on the store keep a row per id.                           *)
LEMMA RowsType ==
  ASSUME NEW i \in Ids, NEW st \in Status, rows \in [Ids -> Status \cup {NoRow}]
  PROVE  /\ Upsert(rows, i, st) \in [Ids -> Status \cup {NoRow}]
         /\ SetStatus(rows, i, st) \in [Ids -> Status \cup {NoRow}]
         /\ MarkAllDetached(rows) \in [Ids -> Status \cup {NoRow}]
         /\ DeleteRow(rows, i) \in [Ids -> Status \cup {NoRow}]
BY DEF Upsert, SetStatus, MarkAllDetached, DeleteRow, Status, NoRow

(* Every variable keeps its type, and a call its id.                       *)
THEOREM Typing == Spec => []TypeOK
<1> USE DEF vars, mem, disk, call
<1>1. Init => TypeOK
  BY NoIdIsNoId DEF Init, TypeOK, Phases, NoRow, Status
<1>2. TypeOK /\ [Next]_vars => TypeOK'
  <2> SUFFICES ASSUME TypeOK, [Next]_vars PROVE TypeOK'
    OBVIOUS
  <2> USE DEF Phases, CreateSteps, DeleteSteps, Workers
  <2>a. ASSUME Boot PROVE TypeOK'
    BY <2>a, RowsType DEF Boot, TypeOK, MarkAllDetached, Status, NoRow
  <2>b. ASSUME Halt PROVE TypeOK'
    BY <2>b DEF Halt, TypeOK
  <2>c. ASSUME NEW w \in Reqs, Creating(w) PROVE TypeOK'
    <3> USE NoIdIsNoId
    <3>1. CASE CheckLimit(w)
      BY <3>1 DEF CheckLimit, TypeOK
    <3>2. CASE Spawn(w)
      BY <3>2 DEF Spawn, TypeOK
    <3>3. CASE SpawnFails(w)
      BY <3>3 DEF SpawnFails, Return, TypeOK
    <3>4. CASE Hook(w)
      BY <3>4 DEF Hook, TypeOK
    <3>5. CASE Insert(w)
      BY <3>5 DEF Insert, TypeOK
    <3>6. CASE UpsertRow(w)
      BY <3>6 DEF UpsertRow, Return, TypeOK, Upsert, Status
    <3> QED
      BY <2>c, <3>1, <3>2, <3>3, <3>4, <3>5, <3>6 DEF Creating
  <2>d. ASSUME NEW w \in Workers, NEW i \in Ids, Claim(w, i),
               victims' \subseteq victims
        PROVE  TypeOK'
    BY <2>d, NoIdIsNoId DEF Claim, TakeOut, TypeOK
  <2>e. ASSUME NEW w \in Workers, Deleting(w) PROVE TypeOK'
    <3> USE NoIdIsNoId
    <3>1. CASE ListRows(w)
      BY <3>1 DEF ListRows, Return, TypeOK
    <3>2. CASE CloseLive(w)
      BY <3>2 DEF CloseLive, TypeOK
    <3>3. CASE RemoveRow(w)
      BY <3>3 DEF RemoveRow, TypeOK, DeleteRow
    <3>4. CASE RemoveHistory(w)
      BY <3>4 DEF RemoveHistory, Return, TypeOK
    <3> QED
      BY <2>e, <3>1, <3>2, <3>3, <3>4 DEF Deleting
  <2>f. ASSUME Scan PROVE TypeOK'
    BY <2>f DEF Scan, TypeOK
  <2>g. ASSUME NEW i \in Ids, Watching(i) PROVE TypeOK'
    <3>1. CASE ShellExits(i)
      BY <3>1 DEF ShellExits, TypeOK
    <3>2. CASE Unlist(i)
      BY <3>2 DEF Unlist, TakeOut, TypeOK
    <3>3. CASE ReportDead(i)
      BY <3>3 DEF ReportDead, TypeOK, SetStatus, Status
    <3> QED
      BY <2>g, <3>1, <3>2, <3>3 DEF Watching
  <2>h. ASSUME NEW i \in Ids, Clients(i) PROVE TypeOK'
    BY <2>h DEF Clients, TimesOut, ClientsAttach, SetAbandoned, TypeOK
  <2>i. ASSUME NEW i \in Ids, CloseOne(i) PROVE TypeOK'
    BY <2>i DEF CloseOne, TakeOut, TypeOK, SetStatus, Status
  <2>j. ASSUME Terminate \/ LockAll \/ UnlockAll \/ CloseStore \/ Drain
        PROVE  TypeOK'
    BY <2>j DEF Terminate, LockAll, UnlockAll, CloseStore, Drain, Goes, TypeOK
  <2>k. CASE UNCHANGED vars
    BY <2>k DEF TypeOK
  <2> QED
    BY <2>a, <2>b, <2>c, <2>d, <2>e, <2>f, <2>g, <2>h, <2>i, <2>j, <2>k
    DEF Next, Crash, Exit, Shutdown, RequestDelete, Reap
<1>3. QED
  BY <1>1, <1>2, PTL DEF Spec


-----------------------------------------------------------------------------
(* Why no session has two closers and no row is written by two owners.     *)

Creators(i) == {w \in Workers : Holds(w, i, {"hook", "insert", "upsert"})}
Deleters(i) == {w \in Workers : Holds(w, i, DeleteSteps)}

(* Nothing of a process that is down runs.                                 *)
DownIsEmpty ==
  phase = "down" =>
    /\ sessions = {} /\ closed = {} /\ victims = {} /\ live = {}
    /\ \A w \in Workers : pc[w] = "idle"
    /\ \A i \in Ids : watch[i] = "none"

(* One Create holds an id from NewSession to Upsert, and until then the id *)
(* has no row; until Insert nobody else can have met it.                   *)
Publication ==
  \A i \in Ids :
    /\ \A v, w \in Creators(i) : v = w
    /\ Creators(i) # {} => rows[i] = NoRow
    /\ Unpublished(i) => /\ i \notin sessions \cup closed \cup victims
                         /\ Deleters(i) = {} /\ ~Reporting(i)
                         /\ watch[i] # "none"
    /\ \A w \in Workers : Holds(w, i, {"insert"}) => i \in hooked

(* An id that left the map does not come back.                             *)
Departure ==
  \A i \in Ids :
    /\ i \in sessions => watch[i] # "none" /\ i \in hooked
    /\ i \in closed => i \notin sessions /\ watch[i] # "none"
    /\ Deleters(i) # {} => i \notin sessions
    /\ Claimants(i) # {} => watch[i] # "none"
    /\ Reporting(i) => i \notin sessions \cup closed /\ Claimants(i) = {}

(* The calls that are to close a session are Deletes, and close it once.   *)
Claiming ==
  /\ \A w \in live : pc[w] \in DeleteSteps
  /\ pc[Reaper] \notin CreateSteps
  /\ \A w \in Workers : pc[w] = "close" => w \in live
  /\ \A i \in Ids : /\ \A v, w \in Claimants(i) : v = w
                    /\ Claimants(i) # {} => i \notin closed

Ownership == DownIsEmpty /\ Publication /\ Departure /\ Claiming

(* The rows of the sessions in the map.                                    *)
Persistence ==
  StoreOpen => \A i \in sessions : rows[i] = "running" \/ Creators(i) # {}


LEMMA OwnershipStep ==
  ASSUME TypeOK, TypeOK', Ownership, [Next]_vars
  PROVE  Ownership'
<1> USE WorkersAssumption, NoIdIsNoId
    DEF vars, mem, disk, call, Workers, CreateSteps, DeleteSteps, Holds,
        Unpublished, Creators, Deleters, Claimants, Reporting
<1> USE DEF TypeOK, Ownership, DownIsEmpty, Publication, Departure, Claiming
<1>a. CASE Boot
  BY <1>a DEF Boot, MarkAllDetached, NoRow
<1>b. CASE Halt
  BY <1>b DEF Halt
<1>c. ASSUME NEW w \in Reqs, CheckLimit(w) PROVE Ownership'
  BY <1>c DEF CheckLimit, Accepting
<1>d. ASSUME NEW w \in Reqs, Spawn(w) PROVE Ownership'
  BY <1>d DEF Spawn, Fresh
<1>e. ASSUME NEW w \in Reqs, SpawnFails(w) PROVE Ownership'
  BY <1>e DEF SpawnFails, Return
<1>f. ASSUME NEW w \in Reqs, Hook(w) PROVE Ownership'
  BY <1>f DEF Hook
<1>g. ASSUME NEW w \in Reqs, Insert(w) PROVE Ownership'
  BY <1>g DEF Insert
<1>h. ASSUME NEW w \in Reqs, UpsertRow(w) PROVE Ownership'
  BY <1>h DEF UpsertRow, Return, Upsert
<1>i. ASSUME NEW w \in Workers, NEW i \in Ids, Claim(w, i), ~Unpublished(i),
             victims' \subseteq victims, phase # "down"
      PROVE  Ownership'
  BY <1>i DEF Claim, TakeOut
<1>j. ASSUME NEW w \in Workers, ListRows(w) PROVE Ownership'
  BY <1>j DEF ListRows, Return
<1>k. ASSUME NEW w \in Workers, CloseLive(w) PROVE Ownership'
  BY <1>k DEF CloseLive
<1>l. ASSUME NEW w \in Workers, RemoveRow(w) PROVE Ownership'
  BY <1>l DEF RemoveRow, DeleteRow
<1>m. ASSUME NEW w \in Workers, RemoveHistory(w) PROVE Ownership'
  BY <1>m DEF RemoveHistory, Return
<1>n. CASE Scan
  BY <1>n DEF Scan, MuFree
<1>o. ASSUME NEW i \in Ids, ShellExits(i) PROVE Ownership'
  BY <1>o DEF ShellExits
<1>p. ASSUME NEW i \in Ids, Unlist(i) PROVE Ownership'
  BY <1>p DEF Unlist, TakeOut
<1>q. ASSUME NEW i \in Ids, ReportDead(i) PROVE Ownership'
  BY <1>q DEF ReportDead, SetStatus
<1>r. ASSUME NEW i \in Ids, Clients(i) PROVE Ownership'
  BY <1>r DEF Clients, TimesOut, ClientsAttach, SetAbandoned
<1>s. ASSUME NEW i \in Ids, CloseOne(i) PROVE Ownership'
  BY <1>s DEF CloseOne, TakeOut, SetStatus
<1>t. CASE Terminate \/ LockAll \/ UnlockAll \/ CloseStore \/ Drain
  BY <1>t DEF Terminate, LockAll, UnlockAll, CloseStore, Drain, Goes
<1>u. CASE UNCHANGED vars
  BY <1>u
<1>v. ASSUME NEW i \in Ids, Reap(i) PROVE Ownership'
  BY <1>i, <1>v DEF Reap, Claim, MuFree
<1>w. ASSUME NEW w \in Reqs, NEW i \in Ids, RequestDelete(w, i) PROVE Ownership'
  BY <1>i, <1>w DEF RequestDelete, Claim, MuFree
<1> QED
  BY <1>a, <1>b, <1>c, <1>d, <1>e, <1>f, <1>g, <1>h, <1>j, <1>k, <1>l, <1>m,
     <1>n, <1>o, <1>p, <1>q, <1>r, <1>s, <1>t, <1>u, <1>v, <1>w
  DEF Next, Crash, Exit, Shutdown, Creating, Deleting, Watching

LEMMA OwnershipInvariant == Spec => [](TypeOK /\ Ownership)
<1>1. Init => Ownership
  BY NoIdIsNoId
  DEF Init, Ownership, DownIsEmpty, Publication, Departure, Claiming, Workers,
      Holds, Unpublished, Creators, Deleters, Claimants, Reporting,
      CreateSteps, DeleteSteps
<1>2. TypeOK /\ TypeOK' /\ Ownership /\ [Next]_vars => Ownership'
  BY OwnershipStep
<1> QED
  BY <1>1, <1>2, Typing, PTL DEF Spec

(* At most one Delete, reaper, exit hook or CloseAll closes a session, and *)
(* none that has left the map comes back.                                  *)
THEOREM OneCloser == Spec => []SoleCloser
<1>1. TypeOK /\ Ownership => SoleCloser
  BY DEF TypeOK, Ownership, Publication, Departure, Claiming, SoleCloser,
         Deleters, Claimants, Reporting, Holds, DeleteSteps
<1> QED
  BY <1>1, OwnershipInvariant, PTL

(* A shell's exit is never missed once its session is listed.              *)
THEOREM ExitNotMissed == Spec => NoLateZombie
<1>1. TypeOK /\ Ownership /\ [Next]_vars
        => [\A i \in sessions : ~Zombie(i) => ~Zombie(i)']_vars
  <2> SUFFICES ASSUME TypeOK, Ownership, Next, NEW i \in sessions,
                      watch[i] # "done", watch'[i] = "done"
               PROVE  i \notin sessions'
    BY DEF Zombie, TypeOK
  <2> USE DEF TypeOK, Ownership, Departure, Reporting
  <2>1. CASE \E j \in Ids : Watching(j)
    BY <2>1 DEF Watching, ShellExits, Unlist, ReportDead, TakeOut
  <2>2. CASE \E w \in Reqs : Spawn(w)
    BY <2>2 DEF Spawn
  <2>3. CASE Halt
    BY <2>3 DEF Halt
  <2>4. CASE UNCHANGED watch
    BY <2>4
  <2> QED
    BY <2>1, <2>2, <2>3, <2>4
    DEF Next, Boot, Crash, Exit, Terminate, Shutdown, LockAll, CloseOne,
        UnlockAll, CloseStore, Drain, Creating, CheckLimit, SpawnFails, Hook,
        Insert, UpsertRow, RequestDelete, Reap, Claim, Deleting, ListRows,
        CloseLive, RemoveRow, RemoveHistory, Scan, Clients, TimesOut,
        ClientsAttach, SetAbandoned, mem, disk, call
<1> QED
  BY <1>1, OwnershipInvariant, PTL DEF Spec, NoLateZombie

(* Every step keeps the "running" row of a session that stays listed.      *)
LEMMA PersistenceStep ==
  ASSUME TypeOK, TypeOK', Ownership, Persistence, [Next]_vars
  PROVE  Persistence'
<1> USE DEF vars, mem, disk, call, TypeOK, Persistence, StoreOpen, Creators,
            Holds, Workers
<1>1. CASE UNCHANGED vars
  BY <1>1
<1>2. CASE Boot \/ Halt
  BY <1>2 DEF Boot, Halt, Ownership, DownIsEmpty
<1>3. ASSUME NEW w \in Reqs, Creating(w) PROVE Persistence'
  <2> USE DEF CreateSteps
  <2>1. CASE Insert(w)
    BY <2>1 DEF Insert
  <2>2. CASE UpsertRow(w)
    BY <2>2 DEF UpsertRow, Return, Upsert
  <2>3. CASE Spawn(w)
    BY <2>3 DEF Spawn, Fresh
  <2>4. CASE CheckLimit(w) \/ SpawnFails(w) \/ Hook(w)
    BY <2>4 DEF CheckLimit, SpawnFails, Hook, Return
  <2> QED
    BY <1>3, <2>1, <2>2, <2>3, <2>4 DEF Creating
<1>4. ASSUME NEW w \in Workers, NEW i \in Ids, Claim(w, i) PROVE Persistence'
  BY <1>4 DEF Claim, TakeOut
<1>5. ASSUME NEW w \in Workers, Deleting(w) PROVE Persistence'
  <2> USE DEF Ownership, Departure, Deleters, DeleteSteps
  <2>1. CASE RemoveRow(w)
    BY <2>1 DEF RemoveRow, DeleteRow
  <2>2. CASE ListRows(w) \/ CloseLive(w) \/ RemoveHistory(w)
    BY <2>2 DEF ListRows, CloseLive, RemoveHistory, Return
  <2> QED
    BY <1>5, <2>1, <2>2 DEF Deleting
<1>6. ASSUME NEW i \in Ids, Watching(i) PROVE Persistence'
  BY <1>6 DEF Watching, ShellExits, Unlist, ReportDead, TakeOut, SetStatus,
              Ownership, Departure, Reporting
<1>7. ASSUME NEW i \in Ids, CloseOne(i) PROVE Persistence'
  BY <1>7 DEF CloseOne, TakeOut, SetStatus
<1>8. CASE \/ Terminate \/ LockAll \/ UnlockAll \/ CloseStore \/ Drain \/ Scan
           \/ \E i \in Ids : Clients(i)
  BY <1>8 DEF Terminate, LockAll, UnlockAll, CloseStore, Drain, Goes, Scan,
              Clients, TimesOut, ClientsAttach, SetAbandoned
<1> QED
  BY <1>1, <1>2, <1>3, <1>4, <1>5, <1>6, <1>7, <1>8
  DEF Next, Crash, Exit, Shutdown, RequestDelete, Reap

LEMMA PersistenceInvariant == Spec => [](TypeOK /\ Ownership /\ Persistence)
<1>1. Init => Persistence
  BY DEF Init, Persistence, StoreOpen
<1>2. TypeOK /\ TypeOK' /\ Ownership /\ Persistence /\ [Next]_vars
        => Persistence'
  BY PersistenceStep
<1> QED
  BY <1>1, <1>2, OwnershipInvariant, PTL DEF Spec

(* The listing a client gets from the store is right about every session   *)
(* that lives, but for the moment in which its Create has yet to write it. *)
THEOREM LiveRows == Spec => []LiveIsPersisted
<1>1. TypeOK /\ Ownership /\ Persistence => LiveIsPersisted
  BY DEF TypeOK, Ownership, Publication, Claiming, Persistence, LiveIsPersisted,
         Creators, Unpublished, Holds, Workers, CreateSteps
<1> QED
  BY <1>1, PersistenceInvariant, PTL

(* No late Upsert, no shutdown and no boot revives a row reported dead.    *)
THEOREM DeadForGood == Spec => DeadStaysDead
<1>1. TypeOK /\ Ownership /\ Persistence /\ [Next]_vars
     => [\A i \in Ids : rows[i] = "dead" => rows'[i] \in {"dead", NoRow}]_vars
  <2> SUFFICES ASSUME TypeOK, Ownership, Persistence, Next,
                      NEW i \in Ids, rows[i] = "dead"
               PROVE  rows'[i] \in {"dead", NoRow}
    OBVIOUS
  <2> USE DEF TypeOK, Ownership, NoRow
  <2>1. CASE Boot
    BY <2>1 DEF Boot, MarkAllDetached
  <2>2. ASSUME NEW w \in Reqs, UpsertRow(w) PROVE rows'[i] = "dead"
    BY <2>2 DEF UpsertRow, Upsert, Publication, Creators, Holds, Workers
  <2>3. ASSUME NEW w \in Workers, RemoveRow(w)
        PROVE  rows'[i] \in {"dead", NoRow}
    BY <2>3 DEF RemoveRow, DeleteRow
  <2>4. ASSUME NEW j \in Ids, ReportDead(j) PROVE rows'[i] = "dead"
    BY <2>4 DEF ReportDead, SetStatus
  <2>5. ASSUME NEW j \in Ids, CloseOne(j) PROVE rows'[i] = "dead"
    <3>1. i # j
      BY <2>5 DEF CloseOne, Persistence, Publication, StoreOpen
    <3> QED
      BY <2>5, <3>1 DEF CloseOne, SetStatus
  <2>6. CASE UNCHANGED rows
    BY <2>6
  <2> QED
    BY <2>1, <2>2, <2>3, <2>4, <2>5, <2>6
    DEF Next, Crash, Exit, Halt, Terminate, Shutdown, LockAll, UnlockAll,
        CloseStore, Drain, Creating, CheckLimit, Spawn, SpawnFails, Hook,
        Insert, RequestDelete, Reap, Claim, Deleting, ListRows, CloseLive,
        RemoveHistory, Scan, Clients, TimesOut, ClientsAttach, SetAbandoned,
        Watching, ShellExits, Unlist, disk
<1> QED
  BY <1>1, PersistenceInvariant, PTL DEF Spec, DeadStaysDead

-----------------------------------------------------------------------------
(* How far MAX_SESSIONS can be overshot.                                   *)

(* The requests that have passed the limit and not yet used their place.   *)
Admitted == {w \in Reqs : pc[w] \in {"spawn", "hook", "insert"}}

Places ==
  /\ IsFiniteSet(sessions)
  /\ MaxSessions > 0 =>
       Cardinality(sessions) + Cardinality(Admitted) + 1
         <= MaxSessions + Cardinality(Reqs)

LEMMA AdmittedIsFinite ==
  /\ IsFiniteSet(Admitted)
  /\ Cardinality(Admitted) \in Nat /\ Cardinality(Reqs) \in Nat
  /\ Cardinality(Admitted) <= Cardinality(Reqs)
BY WorkersAssumption, FS_Subset, FS_CardinalityType DEF Admitted

(* A step that adds no session and admits nobody keeps the places.         *)
LEMMA PlacesShrink ==
  ASSUME Places, sessions' \subseteq sessions, Admitted' \subseteq Admitted
  PROVE  Places'
<1>1. /\ IsFiniteSet(sessions')
      /\ Cardinality(sessions) \in Nat /\ Cardinality(sessions') \in Nat
      /\ Cardinality(sessions') <= Cardinality(sessions)
  BY FS_Subset, FS_CardinalityType DEF Places
<1>2. /\ Cardinality(Admitted') \in Nat
      /\ Cardinality(Admitted') <= Cardinality(Admitted)
  BY AdmittedIsFinite, FS_Subset, FS_CardinalityType
<1> QED
  BY <1>1, <1>2, AdmittedIsFinite, ConfigAssumption DEF Places

LEMMA PlacesStep ==
  ASSUME TypeOK, Places, [Next]_vars
  PROVE  Places'
<1> USE DEF vars, mem, disk, call, TypeOK, Workers
<1>1. ASSUME NEW w \in Reqs, CheckLimit(w) PROVE Places'
  <2>1. /\ IsFiniteSet(sessions) /\ Cardinality(sessions) \in Nat
        /\ sessions' = sessions
    BY <1>1, FS_CardinalityType DEF CheckLimit, Places
  <2>2. MaxSessions > 0 => Cardinality(sessions) < MaxSessions
    BY <1>1 DEF CheckLimit
  <2>3. /\ Cardinality(Admitted') \in Nat
        /\ Cardinality(Admitted') <= Cardinality(Reqs)
    <3>1. Admitted' \subseteq Reqs
      BY DEF Admitted
    <3> QED
      BY <3>1, WorkersAssumption, FS_Subset, FS_CardinalityType
  <2> QED
    BY <2>1, <2>2, <2>3, AdmittedIsFinite, ConfigAssumption DEF Places
<1>2. ASSUME NEW w \in Reqs, Insert(w) PROVE Places'
  <2>1. /\ IsFiniteSet(sessions')
        /\ Cardinality(sessions) \in Nat /\ Cardinality(sessions') \in Nat
        /\ Cardinality(sessions') <= Cardinality(sessions) + 1
    <3>1. sessions' = sessions \cup {arg[w]} /\ IsFiniteSet(sessions)
      BY <1>2 DEF Insert, Places
    <3>2. /\ IsFiniteSet(sessions')
          /\ \/ Cardinality(sessions') = Cardinality(sessions)
             \/ Cardinality(sessions') = Cardinality(sessions) + 1
      BY <3>1, FS_AddElement
    <3> QED
      BY <3>1, <3>2, FS_CardinalityType
  <2>2. w \in Admitted /\ Admitted' = Admitted \ {w}
    BY <1>2 DEF Insert, Admitted
  <2>3. Cardinality(Admitted') = Cardinality(Admitted) - 1
    BY <2>2, AdmittedIsFinite, FS_RemoveElement
  <2> QED
    BY <2>1, <2>3, AdmittedIsFinite, ConfigAssumption DEF Places
<1>3. CASE Halt
  <2>1. sessions' = {} /\ Admitted' = {}
    BY <1>3 DEF Halt, Admitted
  <2> QED
    BY <2>1, PlacesShrink
<1>4. ASSUME NEW w \in Reqs, Spawn(w) \/ SpawnFails(w) \/ Hook(w) \/ UpsertRow(w)
      PROVE  Places'
  <2>1. sessions' = sessions /\ Admitted' \subseteq Admitted
    BY <1>4 DEF Spawn, SpawnFails, Hook, UpsertRow, Return, Admitted
  <2> QED
    BY <2>1, PlacesShrink
<1>5. ASSUME NEW w \in Workers, \/ Deleting(w) \/ \E i \in Ids : Claim(w, i)
      PROVE  Places'
  <2>1. sessions' \subseteq sessions /\ Admitted' \subseteq Admitted
    BY <1>5 DEF Deleting, ListRows, CloseLive, RemoveRow, RemoveHistory, Return,
                Claim, TakeOut, Admitted
  <2> QED
    BY <2>1, PlacesShrink
<1>6. ASSUME sessions' \subseteq sessions, UNCHANGED pc PROVE Places'
  BY <1>6, PlacesShrink DEF Admitted
<1> QED
  BY <1>1, <1>2, <1>3, <1>4, <1>5, <1>6
  DEF Next, Boot, Crash, Exit, Terminate, Shutdown, LockAll, CloseOne, UnlockAll,
      CloseStore, Drain, Creating, RequestDelete, Reap, Scan, Watching,
      ShellExits, Unlist, ReportDead, Clients, TimesOut, ClientsAttach,
      SetAbandoned, TakeOut

(* Concurrent Creates exceed the limit by less than their number.          *)
THEOREM Overshoot == Spec => []CapacityBound
<1>1. Init => Places
  <2> SUFFICES ASSUME Init PROVE Places
    OBVIOUS
  <2>1. sessions = {} /\ Admitted = {}
    BY DEF Init, Admitted, Workers
  <2> QED
    BY <2>1, FS_EmptySet, AdmittedIsFinite, ConfigAssumption DEF Places
<1>2. TypeOK /\ Places /\ [Next]_vars => Places'
  BY PlacesStep
<1>3. Places => CapacityBound
  BY AdmittedIsFinite, FS_CardinalityType, ConfigAssumption
  DEF Places, CapacityBound
<1> QED
  BY <1>1, <1>2, <1>3, Typing, PTL DEF Spec

-----------------------------------------------------------------------------
(* What a session leaves behind.                                           *)

(* While the store is open, only a late Upsert leaves a "running" row that *)
(* belongs to nobody.                                                      *)
THEOREM StrayOrigin == Spec => StrayOnlyFromUpsert
<1> DEFINE Origin(i) == \/ phase \in {"storeless", "draining"}
                        \/ \E w \in Reqs : Holds(w, i, {"upsert"})
<1>1. TypeOK /\ Ownership /\ [Next]_vars
        => [\A i \in Ids : ~Stray(i) /\ Stray(i)' => Origin(i)]_vars
  <2> SUFFICES ASSUME TypeOK, Ownership, Next,
                      NEW i \in Ids, ~Stray(i), Stray(i)', ~Origin(i)
               PROVE  FALSE
    OBVIOUS
  <2> USE DEF TypeOK, Stray, Holds, Reporting, Workers, mem, disk, call
  <2>1. ~Boot /\ ~Halt
    BY DEF Boot, MarkAllDetached, Halt
  <2>2. ASSUME NEW w \in Reqs, Creating(w) PROVE FALSE
    <3> USE NoIdIsNoId DEF CreateSteps, DeleteSteps
    <3>1. CASE UpsertRow(w)
      BY <2>2, <3>1 DEF UpsertRow, Return, Upsert
    <3>2. CASE Spawn(w)
      BY <3>2 DEF Spawn, Fresh
    <3>3. CASE \/ CheckLimit(w) \/ SpawnFails(w) \/ Hook(w) \/ Insert(w)
      BY <3>3 DEF CheckLimit, SpawnFails, Hook, Insert, Return, Ownership,
                  Claiming
    <3> QED
      BY <2>2, <3>1, <3>2, <3>3 DEF Creating
  <2>3. ASSUME NEW w \in Workers, NEW j \in Ids, Claim(w, j) PROVE FALSE
    BY <2>3 DEF Claim, TakeOut, Ownership, Claiming, DeleteSteps
  <2>4. ASSUME NEW w \in Workers, Deleting(w) PROVE FALSE
    <3>1. CASE RemoveRow(w)
      BY <3>1 DEF RemoveRow, DeleteRow, StoreOpen, Ownership, DownIsEmpty, NoRow,
                  Phases
    <3>2. CASE ListRows(w) \/ CloseLive(w) \/ RemoveHistory(w)
      BY <3>2 DEF ListRows, CloseLive, RemoveHistory, Return
    <3> QED
      BY <2>4, <3>1, <3>2 DEF Deleting
  <2>5. ASSUME NEW j \in Ids, Watching(j) PROVE FALSE
    BY <2>5 DEF Watching, ShellExits, Unlist, ReportDead, TakeOut, SetStatus,
                StoreOpen, Phases, NoRow
  <2>6. ASSUME NEW j \in Ids, CloseOne(j) PROVE FALSE
    BY <2>6 DEF CloseOne, TakeOut, SetStatus, NoRow
  <2>7. CASE \/ Terminate \/ LockAll \/ UnlockAll \/ CloseStore \/ Drain \/ Scan
             \/ \E j \in Ids : Clients(j)
    BY <2>7 DEF Terminate, LockAll, UnlockAll, CloseStore, Drain, Goes, Scan,
                Clients, TimesOut, ClientsAttach, SetAbandoned
  <2> QED
    BY <2>1, <2>2, <2>3, <2>4, <2>5, <2>6, <2>7
    DEF Next, Crash, Exit, Shutdown, RequestDelete, Reap
<1> QED
  BY <1>1, OwnershipInvariant, PTL DEF Spec, StrayOnlyFromUpsert

(* No Delete, exit or Create that goes its way leaves a history file that  *)
(* the listing does not show.                                              *)
THEOREM OrphanOrigin == Spec => OrphanOnlyFromHalt
<1>1. TypeOK /\ Ownership /\ Persistence /\ [Next]_vars
        => [\A i \in Ids : ~Orphan(i) /\ Orphan(i)' =>
              ~StoreOpen \/ phase' = "down"]_vars
  <2> SUFFICES ASSUME TypeOK, Ownership, Persistence, Next, StoreOpen,
                      phase' # "down",
                      NEW i \in Ids, ~Orphan(i), Orphan(i)'
               PROVE  FALSE
    OBVIOUS
  <2> USE DEF TypeOK, Orphan, Holds, Workers, CreateSteps, mem, disk, call
  <2>1. ~Boot /\ ~Halt
    BY DEF Boot, Halt, StoreOpen
  <2>2. ASSUME NEW w \in Reqs, Creating(w) PROVE FALSE
    <3> USE NoIdIsNoId, WorkersAssumption DEF DeleteSteps
    <3>1. CASE UpsertRow(w)
      BY <2>2, <3>1 DEF UpsertRow, Return, Upsert, NoRow
    <3>2. CASE Spawn(w)
      BY <3>2 DEF Spawn, Fresh
    <3>3. CASE \/ CheckLimit(w) \/ SpawnFails(w) \/ Hook(w) \/ Insert(w)
      BY <3>3 DEF CheckLimit, SpawnFails, Hook, Insert, Return
    <3> QED
      BY <2>2, <3>1, <3>2, <3>3 DEF Creating
  <2>3. ASSUME NEW w \in Workers, NEW j \in Ids, Claim(w, j) PROVE FALSE
    BY <2>3 DEF Claim, TakeOut, DeleteSteps
  <2>4. ASSUME NEW w \in Workers, Deleting(w) PROVE FALSE
    <3> USE NoIdIsNoId DEF DeleteSteps
    <3>1. CASE ListRows(w)
      BY <3>1 DEF ListRows, Return
    <3>2. CASE CloseLive(w) \/ RemoveRow(w)
      BY <3>2 DEF CloseLive, RemoveRow, DeleteRow
    <3>3. CASE RemoveHistory(w)
      BY <3>3 DEF RemoveHistory, Return
    <3> QED
      BY <2>4, <3>1, <3>2, <3>3 DEF Deleting
  <2>5. ASSUME NEW j \in Ids, Watching(j) PROVE FALSE
    BY <2>5 DEF Watching, ShellExits, Unlist, ReportDead, TakeOut, SetStatus,
                Persistence, Creators, NoRow
  <2>6. ASSUME NEW j \in Ids, CloseOne(j) PROVE FALSE
    BY <2>6 DEF CloseOne, TakeOut, SetStatus, Persistence, Creators, NoRow
  <2>7. CASE \/ Terminate \/ LockAll \/ UnlockAll \/ CloseStore \/ Drain \/ Scan
             \/ \E j \in Ids : Clients(j)
    BY <2>7 DEF Terminate, LockAll, UnlockAll, CloseStore, Drain, Goes, Scan,
                Clients, TimesOut, ClientsAttach, SetAbandoned
  <2> QED
    BY <2>1, <2>2, <2>3, <2>4, <2>5, <2>6, <2>7
    DEF Next, Crash, Exit, Shutdown, RequestDelete, Reap
<1> QED
  BY <1>1, PersistenceInvariant, PTL DEF Spec, OrphanOnlyFromHalt

-----------------------------------------------------------------------------
(* The manager implements the registry.                                    *)

(* A session that has just ended, or not, is not said to have ended yet.   *)
RowsLag ==
  \A i \in Ids :
    i \in sessions \/ Reporting(i) => rows[i] \in {"running", NoRow}

LEMMA RowsLagStep ==
  ASSUME TypeOK, TypeOK', Ownership, RowsLag, [Next]_vars
  PROVE  RowsLag'
<1> USE WorkersAssumption
    DEF vars, mem, disk, call, Workers, Holds, Unpublished, Creators,
        Reporting, TypeOK, Ownership, DownIsEmpty, Publication, Departure,
        RowsLag
<1>1. CASE Boot
  BY <1>1 DEF Boot, MarkAllDetached, NoRow
<1>2. CASE Halt
  BY <1>2 DEF Halt
<1>3. ASSUME NEW w \in Reqs, Creating(w) PROVE RowsLag'
  <2>1. CASE Insert(w)
    BY <2>1 DEF Insert
  <2>2. CASE UpsertRow(w)
    BY <2>2 DEF UpsertRow, Upsert, NoRow
  <2> QED
    BY <1>3, <2>1, <2>2 DEF Creating, CheckLimit, Spawn, SpawnFails, Hook, Return
<1>4. ASSUME NEW w \in Workers, NEW i \in Ids, Claim(w, i) PROVE RowsLag'
  BY <1>4 DEF Claim, TakeOut
<1>5. ASSUME NEW w \in Workers, Deleting(w) PROVE RowsLag'
  BY <1>5 DEF Deleting, ListRows, CloseLive, RemoveRow, RemoveHistory, Return,
              DeleteRow, NoRow
<1>6. ASSUME NEW i \in Ids, Watching(i) PROVE RowsLag'
  BY <1>6 DEF Watching, ShellExits, Unlist, ReportDead, TakeOut, SetStatus,
              NoRow
<1>7. ASSUME NEW i \in Ids, CloseOne(i) PROVE RowsLag'
  BY <1>7 DEF CloseOne, TakeOut, SetStatus, NoRow
<1>8. ASSUME NEW i \in Ids, Clients(i) PROVE RowsLag'
  BY <1>8 DEF Clients, TimesOut, ClientsAttach, SetAbandoned
<1>9. CASE Terminate \/ LockAll \/ UnlockAll \/ CloseStore \/ Drain \/ Scan
  BY <1>9 DEF Terminate, LockAll, UnlockAll, CloseStore, Drain, Scan, Goes
<1>10. CASE UNCHANGED vars
  BY <1>10
<1> QED
  BY <1>1, <1>2, <1>3, <1>4, <1>5, <1>6, <1>7, <1>8, <1>9, <1>10
  DEF Next, Crash, Exit, Shutdown, RequestDelete, Reap

LEMMA RowsLagInvariant == Spec => [](TypeOK /\ Ownership /\ RowsLag)
<1>1. Init => RowsLag
  BY DEF Init, RowsLag, Reporting
<1>2. TypeOK /\ TypeOK' /\ Ownership /\ RowsLag /\ [Next]_vars => RowsLag'
  BY RowsLagStep
<1> QED
  BY <1>1, <1>2, OwnershipInvariant, PTL DEF Spec

(* What a List remembers is right about the moment at which it read.       *)
Remembers ==
  /\ reading \in Ids \cup {NoId}
  /\ was \in Registry!Stages
  /\ row = CASE was \in {"running", "ending"} -> "running"
             [] was = "starting"              -> NoRow
             [] OTHER                         -> was

(* The stages that live are those of the sessions in the map.              *)
LEMMA Stage ==
  ASSUME TypeOK, NEW i \in Ids
  PROVE  /\ Entry[i] \in Registry!Stages
         /\ i \in sessions <=> Entry[i] \in {"starting", "running"}
BY DEF TypeOK, Entry, Registry!Stages, Status, NoRow

LEMMA ListIsManager == ListSpec => Spec
<1>1. ListInit => Init
  BY DEF ListInit
<1>2. [ListNext]_<<vars, list>> => [Next]_vars
  BY DEF ListNext, ManagerStep, ReadRows, ReadMap
<1> QED
  BY <1>1, <1>2, PTL DEF ListSpec, Spec

LEMMA ListInvariant == ListSpec => [](TypeOK /\ Ownership /\ RowsLag /\ Remembers)
<1>1. ListInit => Remembers
  BY DEF ListInit, Remembers, NoRow, Registry!Stages
<1>2. TypeOK /\ RowsLag /\ Remembers /\ [ListNext]_<<vars, list>> => Remembers'
  <2> SUFFICES ASSUME TypeOK, RowsLag, Remembers, [ListNext]_<<vars, list>>
               PROVE  Remembers'
    OBVIOUS
  <2>1. ASSUME NEW i \in Ids, ReadRows(i) PROVE Remembers'
    <3>1. CASE StoreOpen
      BY <2>1, <3>1, Stage
      DEF ReadRows, Remembers, RowsLag, Entry, TypeOK, Status, NoRow
    <3>2. CASE ~StoreOpen
      BY <2>1, <3>2 DEF ReadRows, Remembers, NoRow, Registry!Stages
    <3> QED
      BY <3>1, <3>2
  <2>2. CASE reading' = NoId /\ row' = NoRow /\ was' = NoRow
    BY <2>2 DEF Remembers, NoRow, Registry!Stages
  <2>3. CASE UNCHANGED list
    BY <2>3 DEF Remembers, list
  <2> QED
    BY <2>1, <2>2, <2>3 DEF ListNext, ManagerStep, ReadMap
<1> QED
  BY <1>1, <1>2, RowsLagInvariant, ListIsManager, PTL DEF ListSpec

Answer == IF reading = NoId THEN NoAnswer ELSE Merge

(* At every moment a List that took the map now would answer as promised.  *)
LEMMA AnswerHolds ==
  ASSUME TypeOK', Remembers'
  PROVE  Registry!Answers'
<1>1. CASE reading' = NoId
  BY <1>1, IdsAssumption DEF Registry!Answers, Registry!NoAnswer, NoAnswer
<1>2. CASE reading' \in Ids /\ reading' \in sessions'
  <2>1. Entry'[reading'] \in {"starting", "running"}
    BY <1>2 DEF Entry
  <2> QED
    BY <1>2, <2>1, NoIdIsNoId DEF Registry!Answers, Registry!Shows, Merge
<1>3. CASE reading' \in Ids /\ reading' \notin sessions'
  <2>1. Entry'[reading'] \notin {"starting", "running"}
    BY <1>3 DEF Entry, TypeOK, Status, NoRow
  <2> QED
    BY <1>3, <2>1, NoIdIsNoId
    DEF Registry!Answers, Registry!Shows, Remembers, Registry!Stages, Merge, NoRow
<1> QED
  BY <1>1, <1>2, <1>3 DEF Remembers

(* The stages through which an entry goes, one step at a time.             *)
Forward ==
  {<<"none", "starting">>, <<"starting", "running">>, <<"starting", "none">>,
   <<"running", "ending">>, <<"running", "detached">>, <<"ending", "dead">>,
   <<"ending", "none">>, <<"none", "ending">>, <<"dead", "none">>,
   <<"detached", "none">>}

(* A change of one entry, forwards, is a step of the registry.             *)
LEMMA OneEntry ==
  ASSUME NEW i \in Ids, UNCHANGED <<StoreOpen, list>>,
         \A j \in Ids \ {i} : Entry'[j] = Entry[j],
         <<Entry[i], Entry'[i]>> \in Forward \/ Entry'[i] = Entry[i]
  PROVE  Registry!Change \/ UNCHANGED <<Entry, StoreOpen, list>>
<1>1. Entry' = [Entry EXCEPT ![i] = Entry'[i]]
  BY DEF Entry
<1>2. CASE Entry'[i] = Entry[i]
  BY <1>1, <1>2 DEF Entry
<1>3. CASE <<Entry[i], Entry'[i]>> \in Forward
  <2>1. Registry!Moves(i, Entry[i], Entry'[i])
    BY <1>1 DEF Registry!Moves, Registry!reader, list
  <2> HIDE DEF Entry
  <2> QED
    BY <1>3, <2>1
    DEF Forward, Registry!Change, Registry!Start, Registry!Record, Registry!End,
        Registry!Settle, Registry!RecordLate, Registry!Clear
<1> QED
  BY <1>2, <1>3

(* The end of the process: what is left of the list is what the rows say.  *)
LEMMA HaltStops ==
  ASSUME TypeOK, RowsLag, Halt, reading' = NoId, was' = NoRow
  PROVE  Registry!Change
<1>1. Entry' = [i \in Ids |-> CASE Entry[i] = "starting" -> "none"
                                [] Entry[i] = "running"  -> "ending"
                                [] OTHER                 -> Entry[i]]
  BY DEF Halt, disk, TypeOK, RowsLag, Entry, Status, NoRow
<1>2. StoreOpen' = FALSE
  BY DEF Halt, StoreOpen
<1> QED
  BY <1>1, <1>2 DEF Registry!Change, Registry!Stop, NoRow

LEMMA ManagerIsRegistry ==
  ASSUME TypeOK, TypeOK', Ownership, RowsLag, ManagerStep
  PROVE  Registry!Change \/ UNCHANGED <<Entry, StoreOpen, list>>
<1> DEFINE Goal == Registry!Change \/ UNCHANGED <<Entry, StoreOpen, list>>
<1> USE DEF vars, mem, disk, call, NoRow, Status
<1>1. CASE Halt
  BY <1>1, HaltStops DEF ManagerStep, Halt
<1>2. ASSUME phase' # "down" PROVE UNCHANGED list
  BY <1>2 DEF ManagerStep
<1>3. ASSUME UNCHANGED <<sessions, rows, StoreOpen, list>> PROVE Goal
  BY <1>3 DEF Entry
<1>4. CASE Boot
  <2>1. Entry' = [i \in Ids |-> IF Entry[i] = "ending" THEN "detached"
                                                      ELSE Entry[i]]
    BY <1>4 DEF Boot, TypeOK, Ownership, DownIsEmpty, Entry, MarkAllDetached
  <2>2. StoreOpen' = TRUE /\ UNCHANGED list
    BY <1>4, <1>2 DEF Boot, StoreOpen
  <2> QED
    BY <2>1, <2>2 DEF Registry!Change, Registry!Boot, Registry!reader, list
<1>5. CASE CloseStore
  <2>1. StoreOpen /\ StoreOpen' = FALSE /\ UNCHANGED <<Entry, list>>
    BY <1>5, <1>2 DEF CloseStore, Goes, StoreOpen, Entry
  <2> QED
    BY <2>1 DEF Registry!Change, Registry!CloseStore, Registry!reader, list
<1>6. CASE Terminate \/ LockAll \/ UnlockAll \/ Drain
  <2>1. UNCHANGED <<sessions, rows, StoreOpen, list>>
    BY <1>6, <1>2
    DEF Terminate, LockAll, UnlockAll, Drain, Goes, StoreOpen
  <2> QED
    BY <1>3, <2>1
<1>7. ASSUME UNCHANGED phase, phase # "down" PROVE UNCHANGED <<StoreOpen, list>>
  BY <1>7, <1>2 DEF StoreOpen
<1>8. ASSUME NEW w \in Reqs, Insert(w) \/ UpsertRow(w) PROVE Goal
  <2> USE DEF TypeOK, Workers
  <2>1. arg[w] \in Ids /\ phase # "down"
    BY <1>8 DEF Insert, UpsertRow, Ownership, DownIsEmpty
  <2>2. rows[arg[w]] = NoRow
    BY <1>8, <2>1 DEF Insert, UpsertRow, Ownership, Publication, Creators, Holds
  <2>3. UNCHANGED <<StoreOpen, list>>
    BY <1>7, <1>8, <2>1 DEF Insert, UpsertRow
  <2>4. CASE Insert(w)
    <3>1. arg[w] \notin sessions
      BY <2>1, <2>4 DEF Insert, Ownership, Publication, Unpublished, Holds
    <3>2. /\ \A j \in Ids \ {arg[w]} : Entry'[j] = Entry[j]
          /\ Entry[arg[w]] = "none" /\ Entry'[arg[w]] = "starting"
      BY <2>1, <2>2, <2>4, <3>1 DEF Insert, Entry
    <3> QED
      BY <2>1, <2>3, <3>2, OneEntry DEF Forward
  <2>5. CASE UpsertRow(w)
    <3>1. /\ \A j \in Ids \ {arg[w]} : Entry'[j] = Entry[j]
          /\ \/ Entry[arg[w]] = "none" /\ Entry'[arg[w]] = "ending"
             \/ Entry[arg[w]] = "starting" /\ Entry'[arg[w]] = "running"
             \/ Entry'[arg[w]] = Entry[arg[w]]
      BY <2>1, <2>2, <2>5 DEF UpsertRow, Upsert, Entry
    <3> QED
      BY <2>1, <2>3, <3>1, OneEntry DEF Forward
  <2> QED
    BY <1>8, <2>4, <2>5
<1>9. ASSUME NEW i \in Ids, TakeOut(i), UNCHANGED rows,
             UNCHANGED phase, phase # "down"
      PROVE  Goal
  <2>1. /\ \A j \in Ids \ {i} : Entry'[j] = Entry[j]
        /\ \/ Entry[i] = "starting" /\ Entry'[i] = "none"
           \/ Entry[i] = "running" /\ Entry'[i] = "ending"
           \/ Entry'[i] = Entry[i]
    BY <1>9 DEF TakeOut, Entry, RowsLag, TypeOK
  <2> QED
    BY <1>7, <1>9, <2>1, OneEntry DEF Forward
<1>10. ASSUME NEW w \in Workers, RemoveRow(w) PROVE Goal
  <2>1. arg[w] \in Ids /\ arg[w] \notin sessions /\ phase # "down"
    BY <1>10 DEF RemoveRow, TypeOK, Ownership, Departure, DownIsEmpty, Deleters,
                 Holds, DeleteSteps
  <2>2. /\ \A j \in Ids \ {arg[w]} : Entry'[j] = Entry[j]
        /\ Entry[arg[w]] \in {"none", "ending", "dead", "detached"}
        /\ Entry'[arg[w]] \in {Entry[arg[w]], "none"}
    BY <1>10, <2>1 DEF RemoveRow, DeleteRow, TypeOK, Entry
  <2>3. UNCHANGED <<StoreOpen, list>>
    BY <1>7, <1>10, <2>1 DEF RemoveRow
  <2> QED
    BY <2>1, <2>2, <2>3, OneEntry DEF Forward
<1>11. ASSUME NEW i \in Ids, ReportDead(i) PROVE Goal
  <2>1. i \notin sessions /\ rows[i] \in {"running", NoRow} /\ phase # "down"
    BY <1>11 DEF ReportDead, TypeOK, Ownership, Departure, DownIsEmpty,
                 Reporting, RowsLag
  <2>2. /\ \A j \in Ids \ {i} : Entry'[j] = Entry[j]
        /\ \/ Entry[i] = "ending" /\ Entry'[i] = "dead"
           \/ Entry'[i] = Entry[i]
    BY <1>11, <2>1 DEF ReportDead, SetStatus, TypeOK, Entry
  <2>3. UNCHANGED <<StoreOpen, list>>
    BY <1>7, <1>11, <2>1 DEF ReportDead
  <2> QED
    BY <2>2, <2>3, OneEntry DEF Forward
<1>12. ASSUME NEW i \in Ids, CloseOne(i) PROVE Goal
  <2>1. /\ \A j \in Ids \ {i} : Entry'[j] = Entry[j]
        /\ \/ Entry[i] = "starting" /\ Entry'[i] = "none"
           \/ Entry[i] = "running" /\ Entry'[i] = "detached"
    BY <1>12 DEF CloseOne, TakeOut, SetStatus, TypeOK, Entry
  <2>2. UNCHANGED <<StoreOpen, list>>
    BY <1>7, <1>12 DEF CloseOne
  <2> QED
    BY <2>1, <2>2, OneEntry DEF Forward
<1>13. ASSUME UNCHANGED <<phase, sessions, rows>>, phase # "down" PROVE Goal
  BY <1>3, <1>7, <1>13
<1>14. ASSUME NEW w \in Workers, pc[w] # "idle" PROVE phase # "down"
  BY <1>14 DEF Ownership, DownIsEmpty
<1>15. ASSUME NEW i \in Ids, Watching(i) PROVE phase # "down"
  BY <1>15 DEF Ownership, DownIsEmpty, Watching, ShellExits, Unlist, ReportDead
<1>16. ASSUME NEW w \in Reqs, Creating(w) PROVE Goal
  <2>1. CASE Insert(w) \/ UpsertRow(w)
    BY <1>8, <2>1
  <2>2. CASE CheckLimit(w) \/ Spawn(w) \/ SpawnFails(w) \/ Hook(w)
    BY <2>2, <1>13, <1>14
    DEF CheckLimit, Accepting, Spawn, SpawnFails, Hook, Workers
  <2> QED
    BY <1>16, <2>1, <2>2 DEF Creating
<1>17. ASSUME NEW w \in Workers, Deleting(w) PROVE Goal
  BY <1>10, <1>13, <1>14, <1>17
  DEF Deleting, ListRows, CloseLive, RemoveRow, RemoveHistory
<1>18. ASSUME NEW w \in Workers, NEW i \in Ids, Claim(w, i) PROVE Goal
  BY <1>9, <1>18 DEF Claim, MuFree
<1>19. CASE Scan
  BY <1>13, <1>19 DEF Scan, MuFree
<1>20. ASSUME NEW i \in Ids, Watching(i) PROVE Goal
  BY <1>9, <1>11, <1>13, <1>15, <1>20 DEF Watching, ShellExits, Unlist
<1>21. ASSUME NEW i \in Ids, Clients(i) PROVE Goal
  <2>1. phase # "down"
    BY <1>21 DEF Clients, TimesOut, ClientsAttach, Ownership, DownIsEmpty, TypeOK
  <2> QED
    BY <1>13, <1>21, <2>1 DEF Clients, TimesOut, ClientsAttach, SetAbandoned
<1> QED
  BY <1>1, <1>4, <1>5, <1>6, <1>12, <1>16, <1>17, <1>18, <1>19, <1>20, <1>21
  DEF ManagerStep, Next, Crash, Exit, Shutdown, RequestDelete, Reap, Workers

LEMMA RegistryStep ==
  ASSUME TypeOK, TypeOK', Ownership, RowsLag, Remembers, Remembers',
         [ListNext]_<<vars, list>>
  PROVE  [Registry!Change /\ Registry!Answers']_<<Entry, StoreOpen, reading, was,
                                                 Answer>>
<1>1. Registry!Answers'
  BY AnswerHolds
<1>2. ASSUME UNCHANGED <<Entry, list>> PROVE Answer' = Answer
  <2>1. \A i \in Ids : i \in sessions' <=> i \in sessions
    <3> SUFFICES ASSUME NEW i \in Ids PROVE i \in sessions' <=> i \in sessions
      OBVIOUS
    <3>1. i \in sessions <=> Entry[i] \in {"starting", "running"}
      BY Stage
    <3>2. i \in sessions' <=> Entry'[i] \in {"starting", "running"}
      BY DEF TypeOK, Entry, Status, NoRow
    <3> QED
      BY <1>2, <3>1, <3>2
  <2> QED
    BY <1>2, <2>1 DEF Answer, Merge, list, Remembers
<1>3. CASE ManagerStep
  BY <1>1, <1>2, <1>3, ManagerIsRegistry DEF list
<1>4. ASSUME NEW i \in Ids, ReadRows(i) PROVE Registry!Change
  <2>1. UNCHANGED <<Entry, StoreOpen>>
    BY <1>4 DEF ReadRows, vars, mem, disk, Entry, StoreOpen
  <2> QED
    BY <1>4, <2>1 DEF ReadRows, Registry!Change, Registry!Ask, NoRow
<1>5. ASSUME NEW i \in Ids, ReadMap(i) PROVE Registry!Change
  <2>1. UNCHANGED <<Entry, StoreOpen>>
    BY <1>5 DEF ReadMap, vars, mem, disk, Entry, StoreOpen
  <2> QED
    BY <1>5, <2>1 DEF ReadMap, Registry!Change, Registry!Tell, NoRow
<1>6. CASE UNCHANGED <<vars, list>>
  <2>1. UNCHANGED <<Entry, StoreOpen>>
    BY <1>6 DEF vars, mem, disk, Entry, StoreOpen
  <2> QED
    BY <1>2, <1>6, <2>1 DEF list
<1> QED
  BY <1>1, <1>3, <1>4, <1>5, <1>6 DEF ListNext

(* Whoever ends a session, and in whatever order map and row change, its   *)
(* entry goes through the stages of a SessionRegistry; and a List, which   *)
(* reads the rows first and the map later, tells of an entry what it was   *)
(* or what it is, but for one that was starting and has ended in between.  *)
THEOREM RegistryImplemented == ListSpec => ImplementsRegistry
<1>1. ListInit => Registry!Init
  BY IdsAssumption
  DEF ListInit, Init, Entry, StoreOpen, Registry!Init, Registry!NoAnswer, NoAnswer,
      NoRow
<1>2. TypeOK /\ TypeOK' /\ Ownership /\ RowsLag /\ Remembers /\ Remembers'
        /\ [ListNext]_<<vars, list>>
        => [Registry!Change /\ Registry!Answers']_<<Entry, StoreOpen,
              <<reading, was>>, IF reading = NoId THEN NoAnswer ELSE Merge>>
  BY RegistryStep DEF Answer
<1> QED
  BY <1>1, <1>2, ListInvariant, PTL
  DEF ListSpec, ImplementsRegistry, Registry!Spec, Registry!reader

=============================================================================
