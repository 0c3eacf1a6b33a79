--------------------------- MODULE SessionRegistry ---------------------------
(***************************************************************************)
(* What the session list promises to those who read it.  An entry starts,  *)
(* is recorded, ends and is cleared, one entry at a time; only the end and *)
(* the start of the server change several together.  A reader does not see *)
(* the entries at one moment: he asks, and has his answer later.           *)
(***************************************************************************)
CONSTANTS Ids, NoId

(* A session lives while its entry is starting (no row yet) or running; it *)
(* is ending while only a row still says that it runs.                     *)
Stages == {"none", "starting", "running", "ending", "dead", "detached"}

NoAnswer == "nothing yet"

VARIABLES
  entry,    \* per id, the stage of its entry
  open,     \* whether the entries that do not live can be read
  reading,  \* the id whose entry a reader has asked for, or NoId
  was,      \* the stage of that entry when he asked, if he could read it
  answer    \* what he is told if he has his answer now

reader == <<reading, was>>

Shows(stage) == IF stage \in {"starting", "running", "ending"} THEN "running"
                                                               ELSE stage

(* The reader learns what the entry was or what it is.  One entry he may   *)
(* miss: one that was starting, and has ended since.                       *)
Answers ==
  IF reading \notin Ids THEN answer = NoAnswer
  ELSE \/ answer \in {Shows(was), Shows(entry[reading])}
       \/ /\ was = "starting" /\ entry[reading] \notin {"starting", "running"}
          /\ answer = "none"

Init ==
  /\ entry = [i \in Ids |-> "none"]
  /\ open = FALSE
  /\ reading = NoId /\ was = "none" /\ answer = NoAnswer

Moves(i, from, to) ==
  /\ entry[i] = from
  /\ entry' = [entry EXCEPT ![i] = to]
  /\ UNCHANGED <<open, reader>>

Start(i)  == Moves(i, "none", "starting")
Record(i) == Moves(i, "starting", "running")

(* Its shell exits, it is deleted or reaped, or the server shuts down. *)
End(i) == \/ Moves(i, "starting", "none")
          \/ \E to \in {"ending", "detached"} : Moves(i, "running", to)

Settle(i) == \E to \in {"dead", "none"} : Moves(i, "ending", to)

(* The row of a session that has already ended is written. *)
RecordLate(i) == Moves(i, "none", "ending")

Clear(i) == \E from \in {"dead", "detached"} : Moves(i, from, "none")

CloseStore == open /\ open' = FALSE /\ UNCHANGED <<entry, reader>>

(* The process ends, by itself or not; what has no row leaves nothing. *)
Stop ==
  /\ entry' = [i \in Ids |-> CASE entry[i] = "starting" -> "none"
                               [] entry[i] = "running"  -> "ending"
                               [] OTHER                 -> entry[i]]
  /\ open' = FALSE
  /\ reading' = NoId /\ was' = "none"

(* The server starts, and none of the old sessions runs. *)
Boot ==
  /\ entry' = [i \in Ids |-> IF entry[i] = "ending" THEN "detached"
                                                    ELSE entry[i]]
  /\ open' = TRUE
  /\ UNCHANGED reader

(* Without the store there is nothing to remember but what lives later on. *)
Ask(i) ==
  /\ reading = NoId /\ reading' = i
  /\ was' = IF open THEN entry[i] ELSE "none"
  /\ UNCHANGED <<entry, open>>

Tell(i) ==
  /\ reading = i /\ reading' = NoId /\ was' = "none"
  /\ UNCHANGED <<entry, open>>

Change ==
  \/ \E i \in Ids : \/ Start(i) \/ Record(i) \/ End(i) \/ Settle(i)
                    \/ RecordLate(i) \/ Clear(i) \/ Ask(i) \/ Tell(i)
  \/ CloseStore \/ Stop \/ Boot

Spec == Init /\ [][Change /\ Answers']_<<entry, open, reader, answer>>

=============================================================================
