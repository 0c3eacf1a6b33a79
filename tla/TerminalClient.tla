--------------------------- MODULE TerminalClient ---------------------------
(***************************************************************************)
(* The terminal page of web/static/js/app.js: one terminal, the WebSockets *)
(* it opens, and the reconnection.  The page is single threaded, so each   *)
(* handler is a step; but the events of a socket that the page closed, and *)
(* the timers it set, still come after it has gone on to something else.   *)
(***************************************************************************)
EXTENDS Naturals, FiniteSets

CONSTANTS
  Sessions,     \* pairs of a server and a session
  Nobody,       \* null: no session, no socket, no timer
  Slots,        \* a bound: the sockets, and the timers, that exist at once
  MaxAttempts   \* maxReconnectAttempts

ASSUME NobodyAssumption == Nobody \notin Sessions \cup Slots
ASSUME BoundsAssumption == MaxAttempts \in Nat \ {0} /\ IsFiniteSet(Slots)

VARIABLES
  removed,   \* the sessions whose server removeServer has taken off the list
  current,   \* currentServerId and currentSessionId
  manual,    \* manualDisconnect
  attempts,  \* reconnectAttempts
  ws,        \* this.ws
  to,        \* per socket: the session it was opened for, Nobody if unused
  ready,     \* per socket: its readyState, "closed" after onclose
  timer,     \* this.reconnectTimer
  fires,     \* per timer: the session it reopens, Nobody if unused
  prompts,   \* how many handlers wait for a key in the terminal to reconnect
  reentered  \* history: a session was chosen while a socket that the page had
             \* opened for it earlier was still closing

page == <<removed, current, manual, attempts, prompts, reentered>>
vars == <<page, ws, to, ready, timer, fires>>

Init ==
  /\ removed = {} /\ current = Nobody /\ manual = FALSE
  /\ attempts = 0 /\ prompts = 0
  /\ reentered = FALSE
  /\ ws = Nobody /\ timer = Nobody
  /\ to    = [k \in Slots |-> Nobody] /\ ready = [k \in Slots |-> "closed"]
  /\ fires = [k \in Slots |-> Nobody]

(* A mutant: which session is on the screen is not compared. *)
WantedAny(s) == ~manual

Wanted(s) == ~manual /\ current = s
Unused(k) == ready[k] = "closed"

-----------------------------------------------------------------------------
(* A mutant: disconnect forgets clearTimeout. *)
TimersKept == fires

(* disconnect, on the state that its callers go on to change.              *)
TimersLeft == [k \in Slots |-> IF k = timer THEN Nobody ELSE fires[k]]
ReadyLeft  == [k \in Slots |->
                 IF k = ws /\ ready[k] \in {"connecting", "open"}
                 THEN "closing" ELSE ready[k]]

(* openWebSocket, when the sockets are in the states r; a session without  *)
(* a server gets none.                                                     *)
OpenWebSocket(s, r) ==
  \/ /\ s \in removed
     /\ ready' = r
     /\ ws' = IF ws # Nobody /\ r[ws] = "closing" THEN Nobody ELSE ws
     /\ UNCHANGED to
  \/ /\ s \notin removed
     /\ \E k \in Slots : /\ Unused(k)
                         /\ ws' = k
                         /\ to' = [to EXCEPT ![k] = s]
                         /\ ready' = [r EXCEPT ![k] = "connecting"]

(* connectToSession: a click in the list, or createSession when its answer *)
(* comes, and that may be after the server was removed.                    *)
ConnectToSession(s) ==
  /\ current' = s /\ manual' = FALSE /\ attempts' = 0 /\ prompts' = 0
  /\ timer' = Nobody /\ fires' = TimersLeft
  /\ reentered' = (reentered \/ \E k \in Slots : ReadyLeft[k] = "closing"
                                               /\ to[k] = s)
  /\ OpenWebSocket(s, ReadyLeft)
  /\ UNCHANGED removed

Disconnect ==
  /\ current # Nobody
  /\ current' = Nobody /\ manual' = TRUE /\ prompts' = 0
  /\ timer' = Nobody /\ fires' = TimersLeft
  /\ ws' = Nobody /\ ready' = ReadyLeft
  /\ UNCHANGED <<attempts, reentered, to>>

(* When the server has answered, for the session on the screen. *)
DeleteSession == Disconnect /\ UNCHANGED removed

RemoveServer(s) ==
  /\ s \notin removed /\ removed' = removed \cup {s}
  /\ \/ current = s /\ Disconnect
     \/ current # s /\ UNCHANGED <<current, manual, prompts, timer, fires, ws,
                                   ready, attempts, reentered, to>>

-----------------------------------------------------------------------------
(* A mutant: no prompt after the last attempt. *)
AttemptSilently(s, n) ==
  \/ /\ n >= MaxAttempts /\ attempts' = n
     /\ UNCHANGED <<timer, fires, prompts>>
  \/ /\ n < MaxAttempts
     /\ attempts' = n + 1
     /\ \E t \in Slots : /\ fires[t] = Nobody
                         /\ fires' = [fires EXCEPT ![t] = s]
                         /\ timer' = t
     /\ UNCHANGED prompts

(* attemptReconnect, for a session that is wanted: a prompt or a timer.    *)
AttemptReconnect(s, n) ==
  \/ /\ n >= MaxAttempts
     /\ prompts' = prompts + 1 /\ attempts' = n
     /\ UNCHANGED <<timer, fires>>
  \/ /\ n < MaxAttempts
     /\ attempts' = n + 1
     /\ \E t \in Slots : /\ fires[t] = Nobody
                         /\ fires' = [fires EXCEPT ![t] = s]
                         /\ timer' = t
     /\ UNCHANGED prompts

OnOpen(k) ==
  /\ ready[k] = "connecting"
  /\ ready' = [ready EXCEPT ![k] = "open"]
  /\ attempts' = 0
  /\ UNCHANGED <<removed, current, manual, prompts, reentered, ws, to, timer,
                 fires>>

(* onclose: of a connection that failed or was lost, or of one that the    *)
(* page closed earlier.                                                    *)
OnClose(k) ==
  /\ ready[k] # "closed"
  /\ ready' = [ready EXCEPT ![k] = "closed"]
  /\ to' = [to EXCEPT ![k] = Nobody]
  /\ \/ ~Wanted(to[k]) /\ UNCHANGED <<attempts, prompts, timer, fires>>
     \/ Wanted(to[k]) /\ AttemptReconnect(to[k], attempts)
  /\ ws' = IF ws = k THEN Nobody ELSE ws  \* a closed socket is as good as none
  /\ UNCHANGED <<removed, current, manual, reentered>>

(* The timer of attemptReconnect. *)
Fire(t) ==
  /\ fires[t] # Nobody
  /\ fires' = [fires EXCEPT ![t] = Nobody]
  /\ timer' = IF timer = t THEN Nobody ELSE timer
  /\ \/ ~Wanted(fires[t]) /\ UNCHANGED <<ws, to, ready>>
     \/ Wanted(fires[t]) /\ OpenWebSocket(fires[t], ready)
  /\ UNCHANGED page

(* A key in a terminal that shows the prompt runs each of its handlers. *)
KeyAtPrompt ==
  /\ prompts > 0
  /\ \E T \in SUBSET {t \in Slots : fires[t] = Nobody} :
       /\ Cardinality(T) = prompts
       /\ fires' = [t \in Slots |-> IF t \in T THEN current ELSE fires[t]]
       /\ timer' \in T
  /\ attempts' = 1 /\ prompts' = 0
  /\ UNCHANGED <<removed, current, manual, reentered, ws, to, ready>>

Next ==
  \/ \E s \in Sessions : ConnectToSession(s)
  \/ DeleteSession \/ \E s \in Sessions : RemoveServer(s)
  \/ \E k \in Slots : OnOpen(k) \/ OnClose(k) \/ Fire(k)
  \/ KeyAtPrompt

Spec == Init /\ [][Next]_vars

-----------------------------------------------------------------------------
(* Properties.                                                             *)

Alive(k) == ready[k] \in {"connecting", "open"}

(* Every variable has its type, and the attempts never exceed their bound. *)
TypeOK ==
  /\ removed \subseteq Sessions
  /\ current \in Sessions \cup {Nobody} /\ manual \in BOOLEAN
  /\ reentered \in BOOLEAN
  /\ attempts \in 0..MaxAttempts /\ prompts \in Nat
  /\ ws \in Slots \cup {Nobody} /\ timer \in Slots \cup {Nobody}
  /\ to \in [Slots -> Sessions \cup {Nobody}]
  /\ fires \in [Slots -> Sessions \cup {Nobody}]
  /\ ready \in [Slots -> {"connecting", "open", "closing", "closed"}]
  /\ \A k \in Slots : to[k] = Nobody <=> ready[k] = "closed"

(* The page never gives up on the session it shows without saying so: a    *)
(* socket is there or on its way, or a timer, or the prompt.  Only the     *)
(* answer to a createSession that comes after its server was removed       *)
(* leaves a terminal with nothing behind it.  The types are checked with   *)
(* it.                                                                     *)
NeverStuck ==
  /\ TypeOK
  /\ current \in Sessions \ removed =>
       \/ \E k \in Slots : Alive(k) /\ to[k] = current
       \/ \E t \in Slots : fires[t] = current
       \/ prompts > 0

(* A timer or a late event never opens a socket to a session that the user *)
(* has left.                                                               *)
OpensOnlyCurrent ==
  [][\A k \in Slots : ready[k] = "closed" /\ ready'[k] # "closed"
       => to'[k] = current' /\ ~manual']_vars

(* As long as nobody comes back to a session whose old socket is still     *)
(* closing, the page has one socket, the one that disconnect will close,   *)
(* and it belongs to the terminal on the screen.                           *)
SingleSocket ==
  ~reentered => /\ \A k \in Slots : Alive(k) => k = ws /\ to[k] = current
                /\ \A t \in Slots : fires[t] # Nobody => t = timer

=============================================================================
