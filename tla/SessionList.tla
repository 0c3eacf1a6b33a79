----------------------------- MODULE SessionList -----------------------------
(***************************************************************************)
(* Manager.List beside the manager: the rows are read first, the map       *)
(* afterwards under RLock, and whatever SessionManager does may come in    *)
(* between.  What List returns for one id depends on nothing about the     *)
(* others, so a List is followed for one id at a time.                     *)
(***************************************************************************)
EXTENDS SessionManager

NoAnswer == "nothing yet"

VARIABLES
  reading,  \* the id for which a List is between its two reads, or NoId
  row,      \* the row it has read
  was       \* history: the stage of the entry at that moment (see Entry)

list == <<reading, row, was>>

(* The entry of each id as map and row make it at one moment.              *)
Entry ==
  [i \in Ids |-> CASE i \in sessions -> IF rows[i] = NoRow THEN "starting"
                                                           ELSE "running"
                   [] i \notin sessions /\ rows[i] = "running" -> "ending"
                   [] OTHER -> rows[i]]

ListInit == Init /\ reading = NoId /\ row = NoRow /\ was = NoRow

(* store.List.  Without it List falls back on listLiveOnly, which is what  *)
(* becomes of the merge when there are no rows.                            *)
ReadRows(i) ==
  /\ Accepting /\ reading = NoId
  /\ reading' = i
  /\ row' = IF StoreOpen THEN rows[i] ELSE NoRow
  /\ was' = IF StoreOpen THEN Entry[i] ELSE NoRow
  /\ UNCHANGED vars

(* A mutant: live sessions without a row are left out. *)
MergeRows ==
  IF reading \in sessions /\ row # NoRow THEN "running" ELSE row

(* The merge of the row with the map: a session in the map is running,     *)
(* whatever its row says, and listed even without one.                     *)
Merge == IF reading \in sessions THEN "running" ELSE row

(* The map is read, and List returns Merge. *)
ReadMap(i) ==
  /\ reading = i /\ MuFree
  /\ reading' = NoId /\ row' = NoRow /\ was' = NoRow
  /\ UNCHANGED vars

(* The end of the process ends its Lists. *)
ManagerStep ==
  /\ Next
  /\ IF phase' = "down"
       THEN reading' = NoId /\ row' = NoRow /\ was' = NoRow
       ELSE UNCHANGED list

ListNext == ManagerStep \/ \E i \in Ids : ReadRows(i) \/ ReadMap(i)

ListSpec == ListInit /\ [][ListNext]_<<vars, list>>

ListFairSpec == ListSpec /\ Fairness

-----------------------------------------------------------------------------
Registry == INSTANCE SessionRegistry
            WITH entry  <- Entry, open <- StoreOpen,
                 answer <- IF reading = NoId THEN NoAnswer ELSE Merge

(* Manager with List is a SessionRegistry: an entry goes through its life  *)
(* forwards, whoever ends the session, and for every entry List returns    *)
(* what it was when the rows were read or what it is when the map is, but  *)
(* for a session that ends between the two and had no row at the first,    *)
(* which it may leave out.                                                 *)
ImplementsRegistry == Registry!Spec

=============================================================================
