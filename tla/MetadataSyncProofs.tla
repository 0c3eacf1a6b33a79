------------------------- MODULE MetadataSyncProofs -------------------------
(***************************************************************************)
(* Theorems about MetadataSync, for any number of renames, connections,    *)
(* bursts of output and changes of size.                                   *)
(***************************************************************************)
EXTENDS MetadataSync, TLAPS

Values == [activity : 0..MaxOutput, size : 0..MaxResize]

(* What is on its way to the row.                                          *)
HeldOK ==
  /\ held \in [Flushers \cup {Default} ->
                 Values \cup [name : Writers, activity : 0..MaxOutput]]
  /\ \A f \in Flushers : held[f] \in Values
  /\ creator = "upsert" => held[Default] \in [name : Writers, activity : 0..MaxOutput]
  /\ start \in Values

Types == TypeOK /\ HeldOK

LEMMA Constants ==
  /\ None \notin Writers /\ None \notin Rows /\ Default \notin Flushers /\ Default \notin Renames
  /\ Default \in Writers /\ Renames \subseteq Writers
  /\ MaxOutput \in Nat /\ MaxResize \in Nat
BY MetadataAssumption DEF Writers

(* An UPDATE of one column leaves the others alone.                        *)
LEMMA UpdateOne ==
  ASSUME row \in Rows \cup {None}
  PROVE  /\ \A v \in Writers : Update("name", v) =>
              /\ row' \in Rows \cup {None} /\ (row' = None <=> row = None)
              /\ row # None =>
                   /\ row'.name = (IF StoreOpen THEN v ELSE row.name)
                   /\ row'.activity = row.activity
                   /\ row'.size = row.size /\ row'.gone = row.gone
         /\ \A v \in 0..MaxOutput : Update("activity", v) =>
              /\ row' \in Rows \cup {None} /\ (row' = None <=> row = None)
              /\ row # None =>
                   /\ row'.activity = (IF StoreOpen THEN v ELSE row.activity)
                   /\ row'.name = row.name
                   /\ row'.size = row.size /\ row'.gone = row.gone
         /\ \A v \in 0..MaxResize : Update("size", v) =>
              /\ row' \in Rows \cup {None} /\ (row' = None <=> row = None)
              /\ row # None =>
                   /\ row'.size = (IF StoreOpen THEN v ELSE row.size)
                   /\ row'.name = row.name
                   /\ row'.activity = row.activity /\ row'.gone = row.gone
         /\ \A v \in {"zero", "set"} : Update("gone", v) =>
              /\ row' \in Rows \cup {None} /\ (row' = None <=> row = None)
              /\ row # None =>
                   /\ row'.gone = (IF StoreOpen THEN v ELSE row.gone)
                   /\ row'.name = row.name
                   /\ row'.activity = row.activity /\ row'.size = row.size
BY Constants DEF Update, Rows

(* What a flush stores.                                                    *)
LEMMA FlushOne ==
  ASSUME Types, NEW f \in Flushers
  PROVE  /\ f # Default /\ held[f].activity \in 0..MaxOutput
         /\ held[f].size \in 0..MaxResize
         /\ StoreActivity(f) =>
              /\ row' = None <=> row = None
              /\ row # None =>
                   /\ row'.activity = (IF StoreOpen THEN held[f].activity
                                       ELSE row.activity)
                   /\ row'.name = row.name /\ row'.size = row.size
                   /\ row'.gone = row.gone
         /\ StoreSize(f) =>
              /\ row' = None <=> row = None
              /\ row # None =>
                   /\ row'.size = (IF StoreOpen /\ held[f].size > 0
                                   THEN held[f].size ELSE row.size)
                   /\ row'.name = row.name /\ row'.activity = row.activity
                   /\ row'.gone = row.gone
<1>1. /\ f # Default /\ held[f].activity \in 0..MaxOutput
      /\ held[f].size \in 0..MaxResize /\ row \in Rows \cup {None}
  BY Constants DEF Types, TypeOK, HeldOK, Values
<1>2. ASSUME StoreSize(f), ~(held[f].size > 0) PROVE row' = row
  BY <1>2 DEF StoreSize
<1> QED
  BY <1>1, <1>2, UpdateOne DEF StoreActivity, StoreSize

LEMMA TypesStep ==
  ASSUME Types, [Next]_vars
  PROVE  Types'
<1> USE Constants DEF Types, TypeOK, HeldOK, memory, ghost, Zero, Values
<1>a. CASE Insert
  BY <1>a DEF Insert
<1>1. CASE LoadRow
  BY <1>1 DEF LoadRow
<1>2. CASE Upsert
  <2>1. row' \in Rows \cup {None}
    BY <1>2 DEF Upsert, Rows
  <2> QED
    BY <1>2, <2>1 DEF Upsert
<1>3. ASSUME NEW r \in Renames, Find(r) PROVE Types'
  BY <1>3 DEF Find
<1>4. ASSUME NEW r \in Renames, SetName(r) PROVE Types'
  BY <1>4 DEF SetName
<1>5. ASSUME NEW r \in Renames, StoreName(r) PROVE Types'
  <2>1. row' \in Rows \cup {None}
    BY <1>5, UpdateOne DEF StoreName
  <2> QED
    BY <1>5, <2>1 DEF StoreName
<1>6. ASSUME NEW f \in Flushers, Snapshot(f) PROVE Types'
  BY <1>6 DEF Snapshot
<1>7. ASSUME NEW f \in Flushers, LoadActivity(f) PROVE Types'
  BY <1>7 DEF LoadActivity
<1>8. ASSUME NEW f \in Flushers, StoreActivity(f) PROVE Types'
  <2>1. row' \in Rows \cup {None}
    BY <1>8, UpdateOne DEF StoreActivity
  <2> QED
    BY <1>8, <2>1 DEF StoreActivity
<1>9. ASSUME NEW f \in Flushers, LoadSize(f) PROVE Types'
  BY <1>9 DEF LoadSize
<1>10. ASSUME NEW f \in Flushers, StoreSize(f) PROVE Types'
  <2>1. row' \in Rows \cup {None}
    BY <1>10, UpdateOne DEF StoreSize
  <2> QED
    BY <1>10, <2>1 DEF StoreSize
<1>11. ASSUME Output \/ Resize PROVE Types'
  BY <1>11 DEF Output, Resize
<1>f. ASSUME NEW c \in Conns, Arrive(c) \/ Depart(c) PROVE Types'
  <2>1. /\ conn' \in [Conns -> {"away", "arriving", "here", "leaving"}]
        /\ early' \in BOOLEAN /\ crossed' \in BOOLEAN
    BY <1>f DEF Arrive, Depart
  <2>2. HeldOK'
    BY <1>f DEF Arrive, Depart
  <2>3. UNCHANGED <<phase, creator, memory, row, rename, flusher, deleted, solo,
                    agreed>>
    BY <1>f DEF Arrive, Depart
  <2> HIDE DEF HeldOK
  <2> QED
    BY <2>1, <2>2, <2>3
<1>12. ASSUME NEW c \in Conns, StoreClients(c) PROVE Types'
  <2>1. row' \in Rows \cup {None}
    BY <1>12, UpdateOne DEF StoreClients
  <2>2. /\ conn' \in [Conns -> {"away", "arriving", "here", "leaving"}]
        /\ early' \in BOOLEAN
    BY <1>12 DEF StoreClients
  <2>3. HeldOK'
    BY <1>12 DEF StoreClients
  <2>4. UNCHANGED <<phase, creator, memory, rename, flusher, deleted, solo,
                    agreed, crossed>>
    BY <1>12 DEF StoreClients
  <2> HIDE DEF HeldOK
  <2> QED
    BY <2>1, <2>2, <2>3, <2>4
<1>b. CASE Unlist
  <2>1. listed' \in BOOLEAN
    BY <1>b DEF Unlist
  <2> QED
    BY <1>b, <2>1 DEF Unlist
<1>c. CASE Claim
  <2>1. listed' \in BOOLEAN /\ deleted' \in {"no", "claimed", "yes"}
    BY <1>c DEF Claim
  <2> QED
    BY <1>c, <2>1 DEF Claim
<1>13. CASE DeleteRow
  BY <1>13 DEF DeleteRow
<1>d. CASE Terminate
  <2>1. /\ held["flushLoop"].activity \in 0..MaxOutput
        /\ held["flushLoop"].size \in 0..MaxResize
    BY DEF Flushers
  <2>2. start' \in Values
    BY <1>d, <2>1 DEF Terminate
  <2>3. /\ phase' = "flush"
        /\ UNCHANGED <<creator, memory, row, rename, flusher, held, conn, deleted,
                       solo, agreed, early, crossed>>
    BY <1>d DEF Terminate
  <2> QED
    BY <2>2, <2>3
<1>e. CASE CloseSessions
  <2>1. listed' \in BOOLEAN /\ phase' \in {"up", "flush", "close", "closed", "down"}
    BY <1>e DEF CloseSessions
  <2>2. HeldOK'
    BY <1>e DEF CloseSessions
  <2>3. UNCHANGED <<creator, name, activity, size, row, rename, flusher, conn,
                    deleted, solo, agreed, early, crossed>>
    BY <1>e DEF CloseSessions
  <2> HIDE DEF HeldOK
  <2> QED
    BY <2>1, <2>2, <2>3
<1>14. CASE Boot
  BY <1>14 DEF Boot
<1>15. CASE Halt
  <2>1. listed' \in BOOLEAN /\ phase' \in {"up", "flush", "close", "closed", "down"}
    BY <1>15 DEF Halt
  <2>2. HeldOK'
    BY <1>15 DEF Halt
  <2>3. /\ creator' = "done" /\ name' = Default /\ activity' = 0 /\ size' = 0
        /\ solo' = None
        /\ UNCHANGED <<row, agreed>>
    BY <1>15 DEF Halt
  <2>4. /\ rename' \in [Renames -> {"idle", "found", "store", "ended"}]
        /\ flusher' \in [Flushers -> {"idle", "load", "activity", "size", "store"}]
        /\ conn' \in [Conns -> {"away", "arriving", "here", "leaving"}]
        /\ deleted' \in {"no", "claimed", "yes"}
        /\ early' \in BOOLEAN /\ crossed' \in BOOLEAN
    BY <1>15 DEF Halt
  <2> HIDE DEF HeldOK
  <2> QED
    BY <2>1, <2>2, <2>3, <2>4
<1>16. CASE UNCHANGED vars
  BY <1>16 DEF vars
<1> QED
  BY <1>a, <1>b, <1>c, <1>d, <1>e, <1>f, <1>1, <1>2, <1>3, <1>4, <1>5, <1>6, <1>7,
     <1>8, <1>9, <1>10, <1>11, <1>12, <1>13, <1>14, <1>15, <1>16 DEF Next

(* Every variable keeps its type.                                          *)
THEOREM Typing == Spec => []Types
<1>1. ASSUME Init PROVE Types
  <2>1. listed \in BOOLEAN /\ early \in BOOLEAN /\ crossed \in BOOLEAN
    BY <1>1 DEF Init
  <2>2. HeldOK
    BY <1>1, Constants DEF Init, HeldOK, Zero, Values
  <2>3. /\ row \in Rows \cup {None} /\ name \in Writers
        /\ activity \in 0..MaxOutput /\ size \in 0..MaxResize
        /\ solo \in Writers \cup {None} /\ agreed \in Writers \cup {None}
    BY <1>1, Constants DEF Init
  <2> QED
    BY <1>1, <2>1, <2>2, <2>3 DEF Init, Types, TypeOK
<1> QED
  BY <1>1, TypesStep, PTL DEF Spec

-----------------------------------------------------------------------------
(* The name.                                                               *)

(* While one writer alone is giving the name, what it has done so far is   *)
(* what the Session, and what Create carries to the row, say; when it has  *)
(* agreed with itself, nobody else is giving one.                          *)
NameInv ==
  /\ solo # None => Naming \subseteq {solo}
  /\ agreed # None => Naming = {}
  /\ agreed # None => /\ listed => name = agreed
                      /\ row # None => row.name = agreed
  /\ solo = Default /\ creator # "done" => name = Default
  /\ solo = Default /\ creator = "upsert" => held[Default].name = Default
  /\ \A r \in Renames : solo = r /\ rename[r] = "store" /\ listed => name = r

(* What the name does not depend on.                                       *)
LEMMA NameFrame ==
  ASSUME Types, NameInv,
         UNCHANGED <<solo, agreed, creator, name, rename>>,
         held'[Default] = held[Default], listed' => listed,
         row' # None => row # None /\ row'.name = row.name
  PROVE  NameInv'
BY DEF NameInv, Naming

LEMMA NameStep ==
  ASSUME Types, Types', NameInv, [Next]_vars
  PROVE  NameInv'
<1> USE Constants DEF Types, TypeOK, HeldOK, memory, ghost, NameInv, Naming
<1>1. CASE Insert
  BY <1>1 DEF Insert
<1>2. CASE LoadRow
  BY <1>2 DEF LoadRow
<1>3. CASE Upsert
  BY <1>3 DEF Upsert
<1>4. ASSUME NEW r \in Renames, Find(r) PROVE NameInv'
  BY <1>4 DEF Find
<1>5. ASSUME NEW r \in Renames, SetName(r) PROVE NameInv'
  BY <1>5 DEF SetName
<1>6. ASSUME NEW r \in Renames, StoreName(r) PROVE NameInv'
  BY <1>6, UpdateOne DEF StoreName
<1>7. ASSUME NEW f \in Flushers, Snapshot(f) PROVE NameInv'
  BY <1>7, NameFrame DEF Snapshot
<1>8. ASSUME NEW f \in Flushers, LoadActivity(f) PROVE NameInv'
  BY <1>8, NameFrame DEF LoadActivity
<1>9. ASSUME NEW f \in Flushers, StoreActivity(f) PROVE NameInv'
  BY <1>9, NameFrame, FlushOne DEF StoreActivity
<1>10. ASSUME NEW f \in Flushers, LoadSize(f) PROVE NameInv'
  BY <1>10, NameFrame DEF LoadSize
<1>11. ASSUME NEW f \in Flushers, StoreSize(f) PROVE NameInv'
  BY <1>11, NameFrame, FlushOne DEF StoreSize
<1>12. CASE Output \/ Resize
  BY <1>12, NameFrame DEF Output, Resize
<1>a. ASSUME NEW c \in Conns, Arrive(c) \/ Depart(c) PROVE NameInv'
  BY <1>a, NameFrame DEF Arrive, Depart
<1>13. ASSUME NEW c \in Conns, StoreClients(c) PROVE NameInv'
  BY <1>13, NameFrame, UpdateOne DEF StoreClients
<1>14. CASE Unlist \/ Claim \/ DeleteRow
  BY <1>14, NameFrame DEF Unlist, Claim, DeleteRow
<1>15. CASE Terminate \/ CloseSessions \/ Boot
  BY <1>15, NameFrame DEF Terminate, CloseSessions, Boot
<1>16. CASE Halt
  BY <1>16 DEF Halt
<1>17. CASE UNCHANGED vars
  BY <1>17, NameFrame DEF vars
<1> QED
  BY <1>a, <1>1, <1>2, <1>3, <1>4, <1>5, <1>6, <1>7, <1>8, <1>9, <1>10, <1>11,
     <1>12, <1>13, <1>14, <1>15, <1>16, <1>17 DEF Next

(* A name that was given while nobody else gave one stays the name that is *)
(* shown, whatever else writes to the row, until the next rename.          *)
THEOREM NamesStick == Spec => []NameSticks
<1>1. Init => NameInv
  BY Constants DEF Init, NameInv, Naming
<1>2. NameInv => NameSticks
  BY DEF NameInv, NameSticks, Shown
<1> QED
  BY <1>1, <1>2, NameStep, Typing, PTL DEF Spec

-----------------------------------------------------------------------------
(* The clients' column.                                                    *)

(* There is no row before Create has stored it, and what clients store     *)
(* then is lost: the first that is there has come early.  A session that   *)
(* is listed once the store is closed has no row.  A departure that is     *)
(* still to be stored while a client is there has been met by the first.   *)
GoneInv ==
  /\ creator # "done" => row = None
  /\ creator # "done" /\ Present # {}
       => early \/ \E c \in Conns : conn[c] = "arriving"
  /\ ~StoreOpen /\ listed => row = None
  /\ Present # {} /\ ~crossed => \A c \in Conns : conn[c] # "leaving"
  /\ GoneKept

(* What the clients' column does not depend on.                            *)
LEMMA GoneFrame ==
  ASSUME Types, Types', GoneInv,
         UNCHANGED <<creator, early, crossed, conn>>,
         listed' => listed, StoreOpen => StoreOpen' \/ ~listed',
         row' # None => row # None /\ row'.gone = row.gone
  PROVE  GoneInv'
BY DEF GoneInv, GoneKept, Present, Types, TypeOK

(* Who is there, before and after a client comes or goes.                  *)
LEMMA PresentMoves ==
  ASSUME Types, NEW c \in Conns
  PROVE  /\ Arrive(c) => Present' = Present \cup {c}
         /\ Depart(c) => Present' = Present \ {c} /\ c \in Present
         /\ StoreClients(c) => Present' = Present
         /\ conn[c] = "arriving" => c \in Present
         /\ \A d \in Conns \ {c} :
              Arrive(c) \/ Depart(c) \/ StoreClients(c) => conn'[d] = conn[d]
BY DEF Types, TypeOK, Present, Arrive, Depart, StoreClients

LEMMA GoneStep ==
  ASSUME Types, Types', GoneInv, [Next]_vars
  PROVE  GoneInv'
<1> USE DEF memory, ghost
<1>0. /\ conn \in [Conns -> {"away", "arriving", "here", "leaving"}]
      /\ listed \in BOOLEAN /\ early \in BOOLEAN /\ crossed \in BOOLEAN
      /\ row \in Rows \cup {None}
  BY DEF Types, TypeOK
<1>1. CASE Insert
  BY <1>1 DEF Insert, StoreOpen, GoneInv, GoneKept, Present
<1>2. CASE LoadRow
  BY <1>2 DEF LoadRow, StoreOpen, GoneInv, GoneKept, Present
<1>3. CASE Upsert
  <2>1. /\ creator' = "done" /\ row = None
        /\ UNCHANGED <<phase, listed, conn, early, crossed>>
        /\ row' # None => StoreOpen /\ row'.gone = "set"
    BY <1>3 DEF Upsert, GoneInv
  <2>2. UNCHANGED Present /\ (StoreOpen' <=> StoreOpen)
    BY <2>1 DEF Present, StoreOpen
  <2>3. Present # {} => early \/ \E c \in Conns : conn[c] = "arriving"
    BY <1>3 DEF Upsert, GoneInv
  <2> QED
    BY <2>1, <2>2, <2>3 DEF GoneInv, GoneKept
<1>4. ASSUME NEW r \in Renames, Find(r) \/ SetName(r) PROVE GoneInv'
  BY <1>4, GoneFrame DEF Find, SetName, StoreOpen
<1>5. ASSUME NEW r \in Renames, StoreName(r) PROVE GoneInv'
  BY <1>0, <1>5, GoneFrame, UpdateOne, Constants DEF StoreName, StoreOpen
<1>6. ASSUME NEW f \in Flushers, Snapshot(f) PROVE GoneInv'
  BY <1>6, GoneFrame DEF Snapshot, StoreOpen
<1>7. ASSUME NEW f \in Flushers, LoadActivity(f) \/ LoadSize(f) PROVE GoneInv'
  BY <1>7, GoneFrame DEF LoadActivity, LoadSize, StoreOpen
<1>8. ASSUME NEW f \in Flushers, StoreActivity(f) PROVE GoneInv'
  BY <1>8, GoneFrame, FlushOne DEF StoreActivity, StoreOpen
<1>9. ASSUME NEW f \in Flushers, StoreSize(f) PROVE GoneInv'
  BY <1>9, GoneFrame, FlushOne DEF StoreSize, StoreOpen
<1>10. CASE Output \/ Resize
  BY <1>10, GoneFrame DEF Output, Resize, StoreOpen
<1>11. ASSUME NEW c \in Conns, Arrive(c) PROVE GoneInv'
  <2>1. /\ UNCHANGED <<phase, creator, listed, row, early>>
        /\ Present' = Present \cup {c} /\ (StoreOpen' <=> StoreOpen)
    BY <1>11, PresentMoves DEF Arrive, StoreOpen
  <2>2. CASE Present = {}
    <3>1. conn'[c] = "arriving" /\ crossed' = \E d \in Conns : conn[d] = "leaving"
      BY <1>0, <1>11, <2>2 DEF Arrive
    <3>2. ~crossed' => \A d \in Conns : conn'[d] # "leaving"
      BY <1>11, <3>1, PresentMoves
    <3> QED
      BY <2>1, <3>1, <3>2 DEF GoneInv, GoneKept
  <2>3. CASE Present # {}
    <3>1. conn'[c] = "here" /\ conn[c] = "away" /\ UNCHANGED crossed
      BY <1>0, <1>11, <2>3 DEF Arrive
    <3>2. \A d \in Conns : /\ conn'[d] = "leaving" <=> conn[d] = "leaving"
                           /\ conn'[d] = "arriving" <=> conn[d] = "arriving"
      BY <1>11, <3>1, PresentMoves
    <3> QED
      BY <2>1, <2>3, <3>1, <3>2 DEF GoneInv, GoneKept
  <2> QED
    BY <2>2, <2>3
<1>12. ASSUME NEW c \in Conns, Depart(c) PROVE GoneInv'
  <2>1. /\ UNCHANGED <<phase, creator, listed, row>> /\ c \in Present
        /\ Present' = Present \ {c} /\ (StoreOpen' <=> StoreOpen)
        /\ conn[c] = "here"
    BY <1>12, PresentMoves DEF Depart, StoreOpen
  <2>2. CASE Present = {c}
    <3>1. conn'[c] = "leaving" /\ Present' = {}
      BY <1>0, <1>12, <2>1, <2>2 DEF Depart
    <3> QED
      BY <2>1, <3>1 DEF GoneInv, GoneKept
  <2>3. CASE Present # {c}
    <3>1. conn'[c] = "away" /\ Present' # {} /\ UNCHANGED <<early, crossed>>
      BY <1>0, <1>12, <2>1, <2>3 DEF Depart
    <3>2. \A d \in Conns : /\ conn'[d] = "leaving" <=> conn[d] = "leaving"
                           /\ conn'[d] = "arriving" <=> conn[d] = "arriving"
      BY <1>12, <2>1, <3>1, PresentMoves
    <3> QED
      BY <2>1, <3>1, <3>2 DEF GoneInv, GoneKept
  <2> QED
    BY <2>2, <2>3
<1>13. ASSUME NEW c \in Conns, StoreClients(c) PROVE GoneInv'
  <2>1. /\ UNCHANGED <<phase, creator, listed, crossed>>
        /\ Present' = Present /\ (StoreOpen' <=> StoreOpen)
    BY <1>13, PresentMoves DEF StoreClients, StoreOpen
  <2>2. CASE conn[c] = "arriving"
    <3>1. /\ conn'[c] = "here" /\ early' = (creator # "done") /\ c \in Present
          /\ row' = None <=> row = None
          /\ row # None /\ StoreOpen => row'.gone = "zero"
      BY <1>0, <1>13, <2>2, UpdateOne, PresentMoves DEF StoreClients
    <3>2. \A d \in Conns : conn'[d] = "leaving" => conn[d] = "leaving"
      BY <1>13, <3>1, PresentMoves
    <3> QED
      BY <2>1, <3>1, <3>2 DEF GoneInv, GoneKept
  <2>3. CASE conn[c] = "leaving"
    <3>1. /\ conn'[c] = "away" /\ UNCHANGED early
          /\ row' = None <=> row = None
          /\ row # None /\ StoreOpen => row'.gone = "set"
      BY <1>0, <1>13, <2>3, UpdateOne DEF StoreClients
    <3>2. \A d \in Conns : /\ conn'[d] = "leaving" => conn[d] = "leaving"
                           /\ conn'[d] = "arriving" <=> conn[d] = "arriving"
      BY <1>13, <2>3, <3>1, PresentMoves
    <3>3. Present = {} \/ crossed
      BY <2>3 DEF GoneInv
    <3> QED
      BY <2>1, <3>1, <3>2, <3>3 DEF GoneInv, GoneKept
  <2> QED
    BY <1>13, <2>2, <2>3 DEF StoreClients
<1>14. CASE Unlist \/ Claim \/ DeleteRow
  BY <1>14, GoneFrame DEF Unlist, Claim, DeleteRow, StoreOpen
<1>15. CASE Terminate \/ CloseSessions \/ Boot
  BY <1>15, GoneFrame DEF Terminate, CloseSessions, Boot, StoreOpen
<1>16. CASE Halt
  <2>1. creator' = "done" /\ listed' = FALSE /\ Present' = {}
    BY <1>16 DEF Halt, Present
  <2> QED
    BY <2>1 DEF GoneInv, GoneKept
<1>17. CASE UNCHANGED vars
  BY <1>17, GoneFrame DEF vars, StoreOpen
<1> QED
  BY <1>1, <1>2, <1>3, <1>4, <1>5, <1>6, <1>7, <1>8, <1>9, <1>10, <1>11,
     <1>12, <1>13, <1>14, <1>15, <1>16, <1>17 DEF Next

LEMMA GoneInvariant == Spec => []GoneInv
<1>1. Init => GoneInv
  BY Constants DEF Init, GoneInv, GoneKept, StoreOpen, Present
<1> QED
  BY <1>1, GoneStep, Typing, PTL DEF Spec

(* Though flushes, renames and Create write the same row, and arrivals and *)
(* departures store in any order, the clock of a session that nobody is    *)
(* attached to is in its row; and a client's presence is, unless its store *)
(* crossed a departure's or Create's.                                      *)
THEOREM ClientsDecide == Spec => []GoneKept
<1>1. GoneInv => GoneKept
  BY DEF GoneInv
<1> QED
  BY <1>1, GoneInvariant, PTL

-----------------------------------------------------------------------------
(* The activity.                                                           *)

(* The activity that a writer carries to the row is never ahead of the     *)
(* Session's, nor is the row's while there is a session to ask; and only a *)
(* flush that was overtaken carries one that is behind the row's.          *)
ActivityInv ==
  /\ \A f \in Flushers : flusher[f] = "activity" => held[f].activity <= activity
  /\ creator = "upsert" => held[Default].activity <= activity
  /\ row # None /\ listed => row.activity <= activity
  /\ row # None => \A f \in Flushers : flusher[f] # "idle" => row.activity <= activity
  /\ row # None => \A f \in Flushers \ passed :
       flusher[f] = "activity" => held[f].activity >= row.activity

(* What the activity in the row does not depend on.                        *)
LEMMA ActivityFrame ==
  ASSUME Types, Types', ActivityInv,
         activity' >= activity, listed' => listed, passed \subseteq passed',
         creator' = "upsert" => creator = "upsert" /\ held'[Default] = held[Default],
         \A f \in Flushers :
           /\ flusher'[f] # "idle" => flusher[f] # "idle" \/ listed
           /\ flusher'[f] = "activity" =>
                flusher[f] = "activity" /\ held'[f] = held[f],
         row' # None => row # None /\ row'.activity = row.activity
  PROVE  ActivityInv'
<1>1. activity \in Nat /\ activity' \in Nat
  BY Constants DEF Types, TypeOK
<1>2. row \in Rows \cup {None} /\ row' \in Rows \cup {None}
  BY DEF Types, TypeOK
<1>3. /\ row # None => row.activity \in Nat
      /\ creator = "upsert" => held[Default].activity \in Nat
      /\ \A f \in Flushers : held[f].activity \in Nat
  BY <1>2, Constants DEF Types, HeldOK, Values, Rows
<1> QED
  BY <1>1, <1>3 DEF ActivityInv

LEMMA ActivityStep ==
  ASSUME Types, Types', ActivityInv, GoneInv, [Next]_vars
  PROVE  ActivityInv'
<1> USE Constants DEF Types, TypeOK, HeldOK, memory, ghost
<1>1. CASE Insert
  BY <1>1 DEF Insert, ActivityInv, GoneInv
<1>2. CASE LoadRow
  BY <1>2 DEF LoadRow, ActivityInv, GoneInv
<1>3. CASE Upsert
  BY <1>3 DEF Upsert, ActivityInv, GoneInv, Halfway
<1>4. ASSUME NEW r \in Renames, Find(r) \/ SetName(r) PROVE ActivityInv'
  BY <1>4, ActivityFrame DEF Find, SetName
<1>5. ASSUME NEW r \in Renames, StoreName(r) PROVE ActivityInv'
  BY <1>5, ActivityFrame, UpdateOne DEF StoreName
<1>6. ASSUME NEW f \in Flushers, Snapshot(f) PROVE ActivityInv'
  BY <1>6, ActivityFrame DEF Snapshot
<1>7. ASSUME NEW f \in Flushers, LoadActivity(f) PROVE ActivityInv'
  BY <1>7, FlushOne DEF LoadActivity, ActivityInv
<1>8. ASSUME NEW f \in Flushers, StoreActivity(f) PROVE ActivityInv'
  <2>1. /\ row' = None <=> row = None
        /\ row # None => row'.activity \in {held[f].activity, row.activity}
        /\ f # Default /\ flusher[f] = "activity"
    BY <1>8, FlushOne DEF StoreActivity
  <2>2. /\ UNCHANGED <<creator, memory>> /\ passed' = (passed \cup Halfway) \ {f}
        /\ flusher'[f] = "size" /\ held'[Default] = held[Default]
        /\ \A g \in Flushers \ {f} : flusher'[g] = flusher[g] /\ held'[g] = held[g]
    BY <1>8, <2>1 DEF StoreActivity
  <2>3. \A g \in Flushers : flusher'[g] = "activity" => g \in passed'
    BY <2>2 DEF Halfway
  <2>4. row # None => row.activity \in Nat /\ held[f].activity \in Nat
    BY FlushOne DEF Rows
  <2>5. row' # None /\ (listed \/ \E g \in Flushers : flusher[g] # "idle")
          => row'.activity <= activity
    BY <2>1, <2>4 DEF ActivityInv
  <2> QED
    BY <2>1, <2>2, <2>3, <2>5 DEF ActivityInv
<1>9. ASSUME NEW f \in Flushers, LoadSize(f) PROVE ActivityInv'
  BY <1>9, ActivityFrame, FlushOne DEF LoadSize
<1>10. ASSUME NEW f \in Flushers, StoreSize(f) PROVE ActivityInv'
  <2>1. row' # None => row # None /\ row'.activity = row.activity
    BY <1>10, FlushOne
  <2>2. \A g \in Flushers : flusher'[g] # "idle" => flusher[g] # "idle" \/ listed
    BY <1>10 DEF StoreSize
  <2>3. \A g \in Flushers : flusher'[g] = "activity" =>
          flusher[g] = "activity" /\ held'[g] = held[g]
    BY <1>10 DEF StoreSize
  <2>4. /\ activity' >= activity /\ listed' = listed /\ passed' = passed
        /\ creator' = creator /\ held'[Default] = held[Default]
    BY <1>10, FlushOne DEF StoreSize
  <2> QED
    BY <2>1, <2>2, <2>3, <2>4, ActivityFrame
<1>11. CASE Output \/ Resize
  BY <1>11, ActivityFrame DEF Output, Resize
<1>a. ASSUME NEW c \in Conns, Arrive(c) \/ Depart(c) PROVE ActivityInv'
  <2>1. UNCHANGED <<phase, creator, memory, row, flusher, held, passed>>
    BY <1>a DEF Arrive, Depart
  <2> QED
    BY <2>1, ActivityFrame
<1>12. ASSUME NEW c \in Conns, StoreClients(c) PROVE ActivityInv'
  BY <1>12, ActivityFrame, UpdateOne DEF StoreClients
<1>13. CASE Unlist \/ Claim \/ DeleteRow
  BY <1>13, ActivityFrame DEF Unlist, Claim, DeleteRow
<1>14. CASE Terminate \/ CloseSessions \/ Boot
  BY <1>14, ActivityFrame DEF Terminate, CloseSessions, Boot
<1>15. CASE Halt
  BY <1>15 DEF Halt, ActivityInv
<1>16. CASE UNCHANGED vars
  BY <1>16, ActivityFrame DEF vars
<1> QED
  BY <1>a, <1>1, <1>2, <1>3, <1>4, <1>5, <1>6, <1>7, <1>8, <1>9, <1>10, <1>11, <1>12,
     <1>13, <1>14, <1>15, <1>16 DEF Next

LEMMA ActivityInvariant == Spec => []ActivityInv
<1>1. Init => ActivityInv
  BY Constants DEF Init, ActivityInv, Flushers
<1> QED
  BY <1>1, ActivityStep, GoneInvariant, Typing, PTL DEF Spec

(* However Create and two flushes interleave, a row's activity goes back   *)
(* only in a flush that another store has overtaken.                       *)
THEOREM ActivityGoesForward == Spec => ActivityForward
<1>2. Types /\ Types' /\ ActivityInv /\ GoneInv /\ [Next]_vars
       => [row # None /\ row' # None /\ row'.activity < row.activity
             => \E f \in passed : StoreActivity(f)]_vars
  <2> SUFFICES ASSUME Types, Types', ActivityInv, GoneInv, Next,
                      row # None, row' # None, row'.activity < row.activity
               PROVE  \E f \in passed : StoreActivity(f)
    OBVIOUS
  <2> USE Constants DEF ghost, memory
  <2>0. row \in Rows /\ row.activity \in Nat
    BY DEF Types, TypeOK, Rows
  <2>1. ASSUME row' = row PROVE FALSE
    BY <2>0, <2>1
  <2>2. ~Upsert
    BY DEF Upsert, GoneInv
  <2>3. ASSUME NEW r \in Renames, StoreName(r) PROVE FALSE
    BY <2>0, <2>3, UpdateOne DEF StoreName
  <2>4. ASSUME NEW f \in Flushers, StoreActivity(f), f \notin passed PROVE FALSE
    <3>1. flusher[f] = "activity"
      BY <2>4 DEF StoreActivity
    <3>2. held[f].activity >= row.activity /\ held[f].activity \in Nat
      BY <2>4, <3>1, FlushOne DEF ActivityInv
    <3>3. row'.activity \in {held[f].activity, row.activity}
      BY <2>4, FlushOne
    <3> QED
      BY <2>0, <3>2, <3>3
  <2>5. ASSUME NEW f \in Flushers, StoreSize(f) PROVE FALSE
    BY <2>0, <2>5, FlushOne
  <2>6. ASSUME NEW c \in Conns, StoreClients(c) PROVE FALSE
    BY <2>0, <2>6, UpdateOne DEF StoreClients
  <2>7. ~DeleteRow
    BY <2>1 DEF DeleteRow
  <2> QED
    BY <2>1, <2>2, <2>3, <2>4, <2>5, <2>6, <2>7
    DEF Next, Insert, LoadRow, Find, SetName, Snapshot, LoadActivity, LoadSize,
        Output, Resize, Arrive, Depart, Unlist, Claim, Terminate,
        CloseSessions, Halt, Boot
<1> QED
  BY <1>2, ActivityInvariant, GoneInvariant, Typing, PTL DEF Spec, ActivityForward

-----------------------------------------------------------------------------
(* The final flush.                                                        *)

(* From the start of CloseAll on, the Session's activity and size, what    *)
(* the flushes carry and, once CloseAll has stored it, what the row says   *)
(* are not behind what start says; Create is then done.  What a flush      *)
(* carries is never ahead of the Session.                                  *)
FlushInv ==
  /\ activity >= start.activity /\ size >= start.size
  /\ creator # "done" => start = Zero
  /\ phase \in {"up", "down"} => start = Zero
  /\ phase # "flush" => flusher["CloseAll"] = "idle"
  /\ \A f \in Flushers :
       /\ flusher[f] = "activity" => held[f].activity >= start.activity
       /\ flusher[f] = "store" =>
            held[f].size >= start.size /\ held[f].size <= size
  /\ row # None /\ phase = "flush" /\ flusher["CloseAll"] \in {"size", "store"}
       => row.activity >= start.activity
  /\ row # None /\ phase = "close" /\ listed
       => row.activity >= start.activity /\ row.size >= start.size

(* What the final flush does not depend on.                                *)
LEMMA FlushFrame ==
  ASSUME Types, Types', FlushInv,
         UNCHANGED <<start, flusher, phase>>,
         activity' >= activity, size' >= size, listed' => listed,
         creator' # "done" => creator # "done",
         \A f \in Flushers : held'[f] = held[f],
         row' # None => row # None /\ row'.activity = row.activity
                                  /\ row'.size = row.size
  PROVE  FlushInv'
<1>1. /\ activity \in Nat /\ activity' \in Nat /\ size \in Nat /\ size' \in Nat
      /\ start.activity \in Nat /\ start.size \in Nat
  BY Constants DEF Types, TypeOK, HeldOK, Values
<1>2. \A f \in Flushers : held[f].size \in Nat
  BY FlushOne, Constants
<1> QED
  BY <1>1, <1>2 DEF FlushInv, Zero

LEMMA FlushStep ==
  ASSUME Types, Types', FlushInv, GoneInv, ActivityInv, [Next]_vars
  PROVE  FlushInv'
<1> USE DEF memory, ghost
<1>0. /\ activity \in Nat /\ size \in Nat
      /\ start.activity \in Nat /\ start.size \in Nat
      /\ row # None => row.activity \in Nat /\ row.size \in Nat
      /\ \A f \in Flushers : f # Default
  BY Constants DEF Types, TypeOK, HeldOK, Values, Rows
<1>a. /\ flusher \in [Flushers -> {"idle", "load", "activity", "size", "store"}]
      /\ DOMAIN held = Flushers \cup {Default} /\ held = [w \in DOMAIN held |-> held[w]]
      /\ "CloseAll" \in Flushers
  BY DEF Types, TypeOK, HeldOK, Flushers
<1>1. CASE Insert
  BY <1>0, <1>1 DEF Insert, FlushInv, GoneInv
<1>2. CASE LoadRow
  BY <1>0, <1>2, <1>a, FlushFrame DEF LoadRow
<1>3. CASE Upsert
  <2>1. start' = Zero /\ creator' = "done" /\ held[Default].activity \in Nat
    BY <1>3, Constants DEF Upsert, FlushInv, Types, HeldOK
  <2>2. row' # None => row'.activity \in Nat /\ row'.size \in Nat
    BY <1>0, <1>3, <2>1, Constants DEF Upsert
  <2>3. \A f \in Flushers : held'[f] = held[f]
    BY <1>0, <1>3, <1>a DEF Upsert
  <2>4. UNCHANGED <<phase, memory, flusher>> /\ start = Zero
    BY <1>3 DEF Upsert, FlushInv
  <2> QED
    BY <1>0, <2>1, <2>2, <2>3, <2>4 DEF FlushInv, Zero
<1>4. ASSUME NEW r \in Renames, Find(r) \/ SetName(r) PROVE FlushInv'
  BY <1>0, <1>4, FlushFrame DEF Find, SetName
<1>5. ASSUME NEW r \in Renames, StoreName(r) PROVE FlushInv'
  BY <1>0, <1>5, FlushFrame, UpdateOne, Constants DEF StoreName, Types, TypeOK
<1>6. ASSUME NEW f \in Flushers, Snapshot(f) PROVE FlushInv'
  BY <1>0, <1>6, <1>a DEF Snapshot, FlushInv
<1>7. ASSUME NEW f \in Flushers, LoadActivity(f) PROVE FlushInv'
  BY <1>0, <1>7, <1>a DEF LoadActivity, FlushInv
<1>8. ASSUME NEW f \in Flushers, StoreActivity(f) PROVE FlushInv'
  <2>1. /\ row' = None <=> row = None
        /\ row # None => /\ row'.size = row.size
                         /\ row'.activity = IF StoreOpen THEN held[f].activity
                                            ELSE row.activity
    BY <1>8, FlushOne
  <2>2. held[f].activity >= start.activity
    BY <1>8 DEF StoreActivity, FlushInv
  <2> QED
    BY <1>0, <1>8, <1>a, <2>1, <2>2 DEF StoreActivity, FlushInv, StoreOpen
<1>9. ASSUME NEW f \in Flushers, LoadSize(f) PROVE FlushInv'
  BY <1>0, <1>9, <1>a DEF LoadSize, FlushInv
<1>10. ASSUME NEW f \in Flushers, StoreSize(f) PROVE FlushInv'
  <2>1. /\ row' = None <=> row = None
        /\ row # None => /\ row'.activity = row.activity
                         /\ row'.size = IF StoreOpen /\ held[f].size > 0
                                        THEN held[f].size ELSE row.size
    BY <1>10, FlushOne
  <2>2. held[f].size >= start.size /\ held[f].size \in Nat
    BY <1>10, FlushOne, Constants DEF StoreSize, FlushInv
  <2> QED
    BY <1>0, <1>10, <1>a, <2>1, <2>2 DEF StoreSize, FlushInv, StoreOpen
<1>11. CASE Output \/ Resize
  BY <1>0, <1>11, FlushFrame DEF Output, Resize
<1>b. ASSUME NEW c \in Conns, Arrive(c) \/ Depart(c) PROVE FlushInv'
  <2>1. UNCHANGED <<phase, creator, memory, row, flusher, held, start>>
    BY <1>b DEF Arrive, Depart
  <2> QED
    BY <1>0, <2>1, FlushFrame
<1>12. ASSUME NEW c \in Conns, StoreClients(c) PROVE FlushInv'
  BY <1>0, <1>12, FlushFrame, UpdateOne DEF StoreClients, Types, TypeOK
<1>13. CASE Unlist \/ Claim \/ DeleteRow
  BY <1>0, <1>13, FlushFrame DEF Unlist, Claim, DeleteRow
<1>14. CASE Terminate
  <2>1. /\ phase = "up" /\ phase' = "flush" /\ start' \in Values
        /\ UNCHANGED <<memory, flusher, held, row, creator>>
        /\ flusher["CloseAll"] = "idle"
    BY <1>14 DEF Terminate, FlushInv, Types, HeldOK
  <2>2. \A f \in Flushers : held[f].activity \in Nat /\ held[f].size \in Nat
    BY FlushOne, Constants
  <2>3. CASE start' = Zero
    BY <1>0, <2>1, <2>2, <2>3 DEF FlushInv, Zero, Flushers
  <2>4. CASE start' # Zero
    <3>1. creator = "done"
      BY <1>14, <2>4 DEF Terminate
    <3>2. start'.activity = IF flusher["flushLoop"] = "activity"
                            THEN held["flushLoop"].activity ELSE activity
      BY <1>14, <2>4 DEF Terminate
    <3>3. start'.size = IF flusher["flushLoop"] = "store"
                        THEN held["flushLoop"].size ELSE size
      BY <1>14, <2>4 DEF Terminate
    <3>4. /\ flusher["flushLoop"] = "activity" => held["flushLoop"].activity <= activity
          /\ flusher["flushLoop"] = "store" => held["flushLoop"].size <= size
      BY DEF FlushInv, ActivityInv, Flushers
    <3>5. activity >= start'.activity /\ size >= start'.size
      BY <1>0, <3>2, <3>3, <3>4
    <3> QED
      BY <1>0, <2>1, <2>2, <3>1, <3>2, <3>3, <3>4, <3>5 DEF FlushInv, Flushers
  <2> QED
    BY <2>3, <2>4
<1>15. CASE CloseSessions \/ Boot
  BY <1>0, <1>15 DEF CloseSessions, Boot, FlushInv
<1>16. CASE Halt
  BY <1>0, <1>16 DEF Halt, FlushInv, Zero, Flushers
<1>17. CASE UNCHANGED vars
  BY <1>0, <1>17, FlushFrame DEF vars
<1> QED
  BY <1>b, <1>1, <1>2, <1>3, <1>4, <1>5, <1>6, <1>7, <1>8, <1>9, <1>10, <1>11,
     <1>12, <1>13, <1>14, <1>15, <1>16, <1>17 DEF Next

(* Whatever happens while CloseAll flushes, it leaves in the row of a      *)
(* session nothing older than it has found, or than flushLoop had in hand  *)
(* when it was halfway.                                                    *)
THEOREM FlushIsFinal == Spec => []FinalFlush
<1>1. Init => FlushInv
  BY Constants DEF Init, FlushInv, Zero, Flushers
<1>2. Types /\ FlushInv => FinalFlush
  BY DEF Types, FlushInv, FinalFlush
<1> QED
  BY <1>1, <1>2, FlushStep, ActivityInvariant, GoneInvariant, Typing, PTL DEF Spec

=============================================================================
