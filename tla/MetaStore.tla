------------------------------ MODULE MetaStore ------------------------------
(***************************************************************************)
(* The sessions_meta table of internal/store/store.go, as operators on its *)
(* content: a function from session ids to the status of their row, or     *)
(* NoRow for an id that has none.  The one SQLite connection serializes    *)
(* statements, so each operator is one atomic step of its caller.          *)
(***************************************************************************)

Status == {"running", "detached", "dead"}
NoRow  == "none"

(* INSERT ... ON CONFLICT DO UPDATE: the only statement that creates a row. *)
Upsert(rows, i, st) == [rows EXCEPT ![i] = st]

(* UPDATE ... WHERE id = ?: touches the row only if there is one. *)
SetStatus(rows, i, st) ==
  IF rows[i] = NoRow THEN rows ELSE [rows EXCEPT ![i] = st]

(* A mutant: the same without its WHERE. *)
MarkEveryRow(rows) ==
  [i \in DOMAIN rows |-> IF rows[i] = NoRow THEN NoRow ELSE "detached"]

(* UPDATE ... WHERE status = 'running': what a fresh process owns is nothing. *)
MarkAllDetached(rows) ==
  [i \in DOMAIN rows |-> IF rows[i] = "running" THEN "detached" ELSE rows[i]]

DeleteRow(rows, i) == [rows EXCEPT ![i] = NoRow]

=============================================================================
