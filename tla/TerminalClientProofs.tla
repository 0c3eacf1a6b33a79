------------------------ MODULE TerminalClientProofs ------------------------
(***************************************************************************)
(* Theorems about TerminalClient, for all sessions, any number of attempts *)
(* and any finite number of sockets and timers at once.                    *)
(***************************************************************************)
EXTENDS TerminalClient, FiniteSetTheorems, TLAPS

LEMMA NobodyIsNobody ==
  /\ \A s \in Sessions : s # Nobody
  /\ \A k \in Slots : k # Nobody
BY NobodyAssumption

(* Opening a socket, as far as the types are concerned.                    *)
LEMMA OpenKeepsTypes ==
  ASSUME TypeOK, NEW s \in Sessions,
         NEW r \in [Slots -> {"connecting", "open", "closing", "closed"}],
         \A k \in Slots : r[k] = "closed" <=> ready[k] = "closed",
         OpenWebSocket(s, r)
  PROVE  /\ ws' \in Slots \cup {Nobody}
         /\ to' \in [Slots -> Sessions \cup {Nobody}]
         /\ ready' \in [Slots -> {"connecting", "open", "closing", "closed"}]
         /\ \A k \in Slots : to'[k] = Nobody <=> ready'[k] = "closed"
<1>1. CASE s \in removed
  BY <1>1 DEF OpenWebSocket, TypeOK
<1>2. CASE s \notin removed
  BY <1>2, NobodyIsNobody DEF OpenWebSocket, TypeOK, Unused
<1> QED
  BY <1>1, <1>2

LEMMA LeftTypes ==
  ASSUME TypeOK
  PROVE  /\ TimersLeft \in [Slots -> Sessions \cup {Nobody}]
         /\ ReadyLeft \in [Slots -> {"connecting", "open", "closing", "closed"}]
         /\ \A k \in Slots : ReadyLeft[k] = "closed" <=> ready[k] = "closed"
BY DEF TypeOK, TimersLeft, ReadyLeft

LEMMA ReconnectKeepsTypes ==
  ASSUME TypeOK, NEW s \in Sessions, AttemptReconnect(s, attempts)
  PROVE  /\ attempts' \in 0..MaxAttempts /\ prompts' \in Nat
         /\ timer' \in Slots \cup {Nobody}
         /\ fires' \in [Slots -> Sessions \cup {Nobody}]
BY BoundsAssumption DEF AttemptReconnect, TypeOK

(* Every variable keeps its type, and the attempts stay within their       *)
(* bound.                                                                  *)
THEOREM Typing == Spec => []TypeOK
<1>1. ASSUME Init PROVE TypeOK
  <2>1. manual \in BOOLEAN /\ reentered \in BOOLEAN
    BY <1>1 DEF Init
  <2>2. /\ removed \subseteq Sessions /\ current \in Sessions \cup {Nobody}
        /\ attempts \in 0..MaxAttempts /\ prompts \in Nat
    BY <1>1, BoundsAssumption DEF Init
  <2>3. /\ ws \in Slots \cup {Nobody} /\ timer \in Slots \cup {Nobody}
        /\ to \in [Slots -> Sessions \cup {Nobody}]
        /\ fires \in [Slots -> Sessions \cup {Nobody}]
    BY <1>1 DEF Init
  <2>4. /\ ready \in [Slots -> {"connecting", "open", "closing", "closed"}]
        /\ \A k \in Slots : to[k] = Nobody <=> ready[k] = "closed"
    BY <1>1 DEF Init
  <2> QED
    BY <2>1, <2>2, <2>3, <2>4 DEF TypeOK
<1>2. TypeOK /\ [Next]_vars => TypeOK'
  <2> SUFFICES ASSUME TypeOK, [Next]_vars PROVE TypeOK'
    OBVIOUS
  <2>1. ASSUME NEW s \in Sessions, ConnectToSession(s) PROVE TypeOK'
    <3>1. /\ ws' \in Slots \cup {Nobody}
          /\ to' \in [Slots -> Sessions \cup {Nobody}]
          /\ ready' \in [Slots -> {"connecting", "open", "closing", "closed"}]
          /\ \A k \in Slots : to'[k] = Nobody <=> ready'[k] = "closed"
      BY <2>1, LeftTypes, OpenKeepsTypes DEF ConnectToSession
    <3>2. reentered' \in BOOLEAN /\ manual' \in BOOLEAN
      BY <2>1 DEF ConnectToSession, TypeOK
    <3>3. /\ current' \in Sessions \cup {Nobody} /\ removed' \subseteq Sessions
          /\ attempts' \in 0..MaxAttempts /\ prompts' \in Nat
          /\ timer' \in Slots \cup {Nobody}
          /\ fires' \in [Slots -> Sessions \cup {Nobody}]
      BY <2>1, LeftTypes, BoundsAssumption DEF ConnectToSession, TypeOK
    <3> QED
      BY <3>1, <3>2, <3>3 DEF TypeOK
  <2>2. ASSUME Disconnect, removed' \subseteq Sessions PROVE TypeOK'
    BY <2>2, LeftTypes DEF Disconnect, TypeOK
  <2>3. ASSUME NEW s \in Sessions, RemoveServer(s), current # s PROVE TypeOK'
    BY <2>3 DEF RemoveServer, TypeOK
  <2>4. ASSUME NEW k \in Slots, OnOpen(k) PROVE TypeOK'
    BY <2>4, BoundsAssumption DEF OnOpen, TypeOK
  <2>5. ASSUME NEW k \in Slots, OnClose(k) PROVE TypeOK'
    <3>1. to[k] \in Sessions
      BY <2>5 DEF OnClose, TypeOK
    <3>2. /\ attempts' \in 0..MaxAttempts /\ prompts' \in Nat
          /\ timer' \in Slots \cup {Nobody}
          /\ fires' \in [Slots -> Sessions \cup {Nobody}]
      BY <2>5, <3>1, ReconnectKeepsTypes DEF OnClose, TypeOK
    <3> QED
      BY <2>5, <3>2, NobodyIsNobody DEF OnClose, TypeOK
  <2>6. ASSUME NEW t \in Slots, Fire(t) PROVE TypeOK'
    <3>1. fires[t] \in Sessions
      BY <2>6 DEF Fire, TypeOK
    <3>2. /\ ws' \in Slots \cup {Nobody}
          /\ to' \in [Slots -> Sessions \cup {Nobody}]
          /\ ready' \in [Slots -> {"connecting", "open", "closing", "closed"}]
          /\ \A k \in Slots : to'[k] = Nobody <=> ready'[k] = "closed"
      BY <2>6, <3>1, OpenKeepsTypes DEF Fire, TypeOK
    <3> QED
      BY <2>6, <3>2 DEF Fire, TypeOK, page
  <2>7. CASE KeyAtPrompt
    BY <2>7, BoundsAssumption DEF KeyAtPrompt, TypeOK
  <2>8. CASE UNCHANGED vars
    BY <2>8 DEF vars, page, TypeOK
  <2> QED
    BY <2>1, <2>2, <2>3, <2>4, <2>5, <2>6, <2>7, <2>8
    DEF Next, DeleteSession, RemoveServer, TypeOK
<1> QED
  BY <1>1, <1>2, PTL DEF Spec

-----------------------------------------------------------------------------
(* What is behind the terminal on the screen.                              *)

(* disconnect, which alone sets manual, leaves no session on the screen.   *)
Shown == current # Nobody => ~manual

(* Unless a session was reentered, at most one of three is there at a      *)
(* time, and for the session on the screen: a socket, a timer, a prompt;   *)
(* and a socket that is closing is not the screen's.                       *)
OneAtATime ==
  ~reentered =>
    /\ \A k \in Slots : Alive(k) =>
         /\ k = ws /\ to[k] = current /\ prompts = 0
         /\ \A t \in Slots : fires[t] = Nobody
    /\ \A t \in Slots : fires[t] # Nobody => t = timer /\ prompts = 0
    /\ prompts <= 1
    /\ \A k \in Slots : ready[k] = "closing" => to[k] # current

PageInv == TypeOK /\ Shown /\ NeverStuck /\ OneAtATime

LEMMA ShownStep ==
  ASSUME TypeOK, Shown, [Next]_vars
  PROVE  Shown'
<1> USE DEF Shown, TypeOK
<1>1. ASSUME NEW s \in Sessions, ConnectToSession(s) PROVE Shown'
  BY <1>1 DEF ConnectToSession
<1>2. CASE Disconnect
  BY <1>2 DEF Disconnect
<1>3. ASSUME UNCHANGED <<current, manual>> PROVE Shown'
  BY <1>3
<1> QED
  BY <1>1, <1>2, <1>3
  DEF Next, DeleteSession, RemoveServer, OnOpen, OnClose, Fire, KeyAtPrompt,
      page, vars

(* A socket that fails leaves a timer or the prompt, a timer a socket, and *)
(* the prompt a timer; the rest leaves what is behind the screen alone.    *)
LEMMA NeverStuckStep ==
  ASSUME TypeOK, TypeOK', Shown, NeverStuck, [Next]_vars
  PROVE  NeverStuck'
<1> SUFFICES ASSUME current' \in Sessions \ removed'
             PROVE  \/ \E k \in Slots : Alive(k)' /\ to'[k] = current'
                    \/ \E t \in Slots : fires'[t] = current'
                    \/ prompts' > 0
  BY DEF NeverStuck
<1> USE NobodyIsNobody DEF Alive
<1>1. ASSUME NEW s \in Sessions, ConnectToSession(s)
      PROVE  \E k \in Slots : Alive(k)' /\ to'[k] = current'
  BY <1>1 DEF ConnectToSession, OpenWebSocket, TypeOK
<1>2. ~Disconnect
  BY DEF Disconnect, NobodyAssumption
<1> SUFFICES ASSUME \A s \in Sessions : ~ConnectToSession(s)
             PROVE  \/ \E k \in Slots : Alive(k)' /\ to'[k] = current'
                    \/ \E t \in Slots : fires'[t] = current'
                    \/ prompts' > 0
  BY <1>1
<1>3. current' = current /\ removed \subseteq removed'
  BY <1>2 DEF Next, DeleteSession, RemoveServer, OnOpen, OnClose, Fire,
     KeyAtPrompt, page, vars
<1>4. /\ current \in Sessions \ removed /\ current # Nobody /\ ~manual
      /\ \/ \E k \in Slots : Alive(k) /\ to[k] = current
         \/ \E t \in Slots : fires[t] = current
         \/ prompts > 0
  BY <1>3 DEF NeverStuck, Shown
<1>5. ASSUME NEW s \in Sessions, RemoveServer(s)
      PROVE  UNCHANGED <<ready, to, fires, prompts>>
  BY <1>5, <1>2 DEF RemoveServer
<1>6. ASSUME NEW k \in Slots, OnOpen(k)
      PROVE  UNCHANGED <<to, fires, prompts>> /\ \A j \in Slots : Alive(j) => Alive(j)'
  BY <1>6 DEF OnOpen, TypeOK
<1>7. ASSUME NEW k \in Slots, OnClose(k)
      PROVE  \/ \E j \in Slots : Alive(j)' /\ to'[j] = current
             \/ \E t \in Slots : fires'[t] = current
             \/ prompts' > 0
  <2>1. CASE Wanted(to[k])
    <3>1. to[k] = current /\ AttemptReconnect(current, attempts)
      BY <1>7, <2>1 DEF OnClose, Wanted
    <3> QED
      BY <3>1 DEF AttemptReconnect, TypeOK
  <2>2. CASE ~Wanted(to[k])
    <3>1. to[k] # current /\ UNCHANGED <<fires, prompts>>
      BY <1>7, <2>2, <1>4 DEF OnClose, Wanted
    <3>2. \A j \in Slots : Alive(j) /\ to[j] = current
            => Alive(j)' /\ to'[j] = current
      BY <1>7, <3>1 DEF OnClose, TypeOK
    <3> QED
      BY <3>1, <3>2, <1>4
  <2> QED
    BY <2>1, <2>2
<1>8. ASSUME NEW t \in Slots, Fire(t)
      PROVE  \/ \E j \in Slots : Alive(j)' /\ to'[j] = current
             \/ \E u \in Slots : fires'[u] = current
             \/ prompts' > 0
  <2>1. CASE fires[t] = current
    <3>1. OpenWebSocket(current, ready)
      BY <1>8, <2>1, <1>4 DEF Fire, Wanted
    <3> QED
      BY <3>1, <1>4 DEF OpenWebSocket, TypeOK
  <2>2. CASE fires[t] # current
    <3>1. UNCHANGED <<ready, to, prompts>>
      BY <1>8, <2>2 DEF Fire, Wanted, page
    <3>2. \A u \in Slots : fires[u] = current => fires'[u] = current
      BY <1>8, <2>2 DEF Fire, TypeOK
    <3> QED
      BY <3>1, <3>2, <1>4
  <2> QED
    BY <2>1, <2>2
<1>9. CASE KeyAtPrompt
  BY <1>9 DEF KeyAtPrompt, TypeOK
<1>10. CASE UNCHANGED vars
  BY <1>10, <1>3, <1>4 DEF vars, page
<1> QED
  BY <1>2, <1>3, <1>4, <1>5, <1>6, <1>7, <1>8, <1>9, <1>10
  DEF Next, DeleteSession

(* The prompt of one handler makes one timer.                              *)
LEMMA OneTimer ==
  ASSUME TypeOK, KeyAtPrompt, prompts <= 1,
         \A t \in Slots : fires[t] = Nobody
  PROVE  \A t \in Slots : fires'[t] # Nobody => t = timer'
<1>1. PICK T \in SUBSET {t \in Slots : fires[t] = Nobody} :
        /\ Cardinality(T) = prompts
        /\ fires' = [t \in Slots |-> IF t \in T THEN current ELSE fires[t]]
        /\ timer' \in T
  BY DEF KeyAtPrompt
<1>2. prompts = 1
  BY DEF KeyAtPrompt, TypeOK
<1>3. IsFiniteSet(T)
  BY BoundsAssumption, FS_Subset
<1>4. PICK x : T = {x}
  BY <1>1, <1>2, <1>3, FS_Singleton
<1> QED
  BY <1>1, <1>4

LEMMA OneAtATimeStep ==
  ASSUME TypeOK, TypeOK', Shown, OneAtATime, [Next]_vars
  PROVE  OneAtATime'
<1> SUFFICES ASSUME ~reentered' PROVE OneAtATime'
  BY DEF OneAtATime
<1>0. ~reentered
  BY DEF Next, DeleteSession, RemoveServer, OnOpen, OnClose, Fire, KeyAtPrompt,
     ConnectToSession, Disconnect, page, vars
<1> USE <1>0, NobodyIsNobody DEF OneAtATime, Alive
<1>1. ASSUME NEW s \in Sessions, ConnectToSession(s) PROVE OneAtATime'
  <2>1. /\ \A t \in Slots : fires'[t] = Nobody
        /\ prompts' = 0 /\ current' = s
    BY <1>1 DEF ConnectToSession, TimersLeft, TypeOK
  <2>2. \A k \in Slots : ReadyLeft[k] \in {"closing", "closed"}
                          /\ (ReadyLeft[k] = "closing" => to[k] # s)
    BY <1>1 DEF ConnectToSession, ReadyLeft, TypeOK
  <2>3. CASE s \in removed
    <3>1. ready' = ReadyLeft /\ to' = to
      BY <1>1, <2>3 DEF ConnectToSession, OpenWebSocket
    <3> QED
      BY <2>1, <2>2, <3>1
  <2>4. CASE s \notin removed
    <3>1. PICK k \in Slots : /\ Unused(k) /\ ws' = k
                             /\ to' = [to EXCEPT ![k] = s]
                             /\ ready' = [ReadyLeft EXCEPT ![k] = "connecting"]
      BY <1>1, <2>4 DEF ConnectToSession, OpenWebSocket
    <3>2. \A j \in Slots : j # k => ready'[j] = ReadyLeft[j] /\ to'[j] = to[j]
      BY <3>1, LeftTypes DEF TypeOK
    <3>3. ready'[k] = "connecting" /\ to'[k] = s
      BY <3>1, LeftTypes DEF TypeOK
    <3> QED
      BY <2>1, <2>2, <3>1, <3>2, <3>3
  <2> QED
    BY <2>3, <2>4
<1>2. CASE Disconnect
  <2>1. /\ \A t \in Slots : fires'[t] = Nobody
        /\ prompts' = 0 /\ current' = Nobody /\ to' = to
    BY <1>2 DEF Disconnect, TimersLeft, TypeOK
  <2>2. \A k \in Slots : ready'[k] \in {"closing", "closed"}
    BY <1>2 DEF Disconnect, ReadyLeft, TypeOK
  <2>3. \A k \in Slots : ready'[k] = "closing" => to[k] # Nobody
    BY <1>2 DEF Disconnect, ReadyLeft, TypeOK
  <2> QED
    BY <2>1, <2>2, <2>3
<1>3. ASSUME NEW s \in Sessions, RemoveServer(s), ~Disconnect PROVE OneAtATime'
  BY <1>3 DEF RemoveServer
<1>4. ASSUME NEW k \in Slots, OnOpen(k) PROVE OneAtATime'
  BY <1>4 DEF OnOpen, TypeOK
<1>5. ASSUME NEW k \in Slots, OnClose(k) PROVE OneAtATime'
  <2>1. CASE Wanted(to[k])
    <3>1. to[k] = current /\ AttemptReconnect(current, attempts)
      BY <1>5, <2>1 DEF OnClose, Wanted
    <3>2. k = ws /\ prompts = 0 /\ \A t \in Slots : fires[t] = Nobody
      BY <1>5, <3>1 DEF OnClose, TypeOK
    <3>3. /\ \A j \in Slots : ~Alive(j)'
          /\ \A j \in Slots : ready'[j] = "closing" => ready[j] = "closing"
                                                     /\ to'[j] = to[j]
      BY <1>5, <3>2 DEF OnClose, TypeOK
    <3>4. \/ prompts' = 1 /\ fires' = fires
          \/ prompts' = 0 /\ \A t \in Slots : fires'[t] # Nobody => t = timer'
      BY <3>1, <3>2 DEF AttemptReconnect, TypeOK
    <3>5. current' = current
      BY <1>5 DEF OnClose
    <3> QED
      BY <3>2, <3>3, <3>4, <3>5
  <2>2. CASE ~Wanted(to[k])
    <3>1. \A j \in Slots : j # k => ready'[j] = ready[j] /\ to'[j] = to[j]
      BY <1>5 DEF OnClose, TypeOK
    <3>2. ready'[k] = "closed" /\ (ws = k \/ ws' = ws)
      BY <1>5 DEF OnClose, TypeOK
    <3>3. UNCHANGED <<current, prompts, timer, fires>>
      BY <1>5, <2>2 DEF OnClose
    <3> QED
      BY <3>1, <3>2, <3>3
  <2> QED
    BY <2>1, <2>2
<1>6. ASSUME NEW t \in Slots, Fire(t) PROVE OneAtATime'
  <2>1. /\ t = timer /\ prompts = 0 /\ \A k \in Slots : ~Alive(k)
        /\ \A u \in Slots : u # t => fires[u] = Nobody
    BY <1>6 DEF Fire
  <2>2. /\ \A u \in Slots : fires'[u] = Nobody
        /\ prompts' = 0 /\ current' = current
    BY <1>6, <2>1 DEF Fire, page, TypeOK
  <2>3. CASE UNCHANGED <<to, ready>>
    BY <2>1, <2>2, <2>3
  <2>4. CASE ~UNCHANGED <<to, ready>>
    <3>1. fires[t] = current /\ OpenWebSocket(current, ready)
      BY <1>6, <2>4 DEF Fire, Wanted
    <3>2. PICK k \in Slots : /\ ws' = k
                             /\ to' = [to EXCEPT ![k] = current]
                             /\ ready' = [ready EXCEPT ![k] = "connecting"]
      BY <2>4, <3>1 DEF OpenWebSocket
    <3>3. /\ ready'[k] = "connecting" /\ to'[k] = current
          /\ \A j \in Slots : j # k => ready'[j] = ready[j] /\ to'[j] = to[j]
      BY <3>2 DEF TypeOK
    <3> QED
      BY <2>1, <2>2, <3>2, <3>3
  <2> QED
    BY <2>3, <2>4
<1>7. CASE KeyAtPrompt
  <2>1. /\ UNCHANGED <<ready, to, current>> /\ prompts' = 0
        /\ \A k \in Slots : ~Alive(k)
        /\ \A t \in Slots : fires[t] = Nobody
    BY <1>7 DEF KeyAtPrompt, TypeOK
  <2> QED
    BY <1>7, <2>1, OneTimer
<1>8. CASE UNCHANGED vars
  BY <1>8 DEF vars, page
<1> QED
  BY <1>1, <1>2, <1>3, <1>4, <1>5, <1>6, <1>7, <1>8 DEF Next, DeleteSession

LEMMA PageInvariant == Spec => []PageInv
<1>1. Init /\ TypeOK => PageInv
  BY NobodyAssumption DEF Init, PageInv, Shown, NeverStuck, OneAtATime, Alive
<1>2. PageInv /\ TypeOK' /\ [Next]_vars => PageInv'
  BY ShownStep, NeverStuckStep, OneAtATimeStep DEF PageInv
<1> QED
  BY <1>1, <1>2, Typing, PTL DEF Spec

(* However sockets fail and timers fire, the page that shows a session has *)
(* a socket, a timer or the prompt for it.                                 *)
THEOREM NeverGivesUp == Spec => []NeverStuck
<1>1. PageInv => NeverStuck
  BY DEF PageInv
<1> QED
  BY <1>1, PageInvariant, PTL

(* One socket, and it is the one on the screen, until a session is chosen  *)
(* again while its old socket is still closing.                            *)
THEOREM OneSocket == Spec => []SingleSocket
<1>1. PageInv => SingleSocket
  BY DEF PageInv, OneAtATime, SingleSocket
<1> QED
  BY <1>1, PageInvariant, PTL

(* Whatever fires late, no socket is opened to a session that was left.    *)
THEOREM NoSocketToTheLeft == Spec => OpensOnlyCurrent
<1>1. TypeOK /\ [Next]_vars
       => [\A k \in Slots : ready[k] = "closed" /\ ready'[k] # "closed"
             => to'[k] = current' /\ ~manual']_vars
  <2> SUFFICES ASSUME TypeOK, Next,
                      NEW k \in Slots, ready[k] = "closed", ready'[k] # "closed"
               PROVE  to'[k] = current' /\ ~manual'
    OBVIOUS
  <2>1. ASSUME NEW s \in Sessions, ConnectToSession(s)
        PROVE  to'[k] = current' /\ ~manual'
    <3>1. current' = s /\ ~manual' /\ OpenWebSocket(s, ReadyLeft)
      BY <2>1 DEF ConnectToSession
    <3> QED
      BY <3>1, LeftTypes DEF OpenWebSocket, TypeOK
  <2>2. ASSUME Disconnect PROVE FALSE
    BY <2>2, LeftTypes DEF Disconnect
  <2>3. ASSUME NEW s \in Sessions, RemoveServer(s), ~Disconnect PROVE FALSE
    BY <2>3 DEF RemoveServer
  <2>4. ASSUME NEW j \in Slots, OnOpen(j) PROVE FALSE
    BY <2>4 DEF OnOpen, TypeOK
  <2>5. ASSUME NEW j \in Slots, OnClose(j) PROVE FALSE
    BY <2>5 DEF OnClose, TypeOK
  <2>6. ASSUME NEW t \in Slots, Fire(t) PROVE to'[k] = current' /\ ~manual'
    BY <2>6 DEF Fire, Wanted, OpenWebSocket, page, TypeOK
  <2>7. ~KeyAtPrompt
    BY DEF KeyAtPrompt
  <2> QED
    BY <2>1, <2>2, <2>3, <2>4, <2>5, <2>6, <2>7 DEF Next, DeleteSession
<1> QED
  BY <1>1, Typing, PTL DEF Spec, OpensOnlyCurrent

=============================================================================
