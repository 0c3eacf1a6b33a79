------------------------ MODULE SessionClientsProofs ------------------------
(***************************************************************************)
(* Theorems about SessionClients, for every set of connections.            *)
(***************************************************************************)
EXTENDS SessionClients, TLAPS

LEMMA Stutter ==
  UNCHANGED vars =>
    /\ listed' = listed /\ shell' = shell /\ clients' = clients /\ gone' = gone
    /\ closed' = closed /\ row' = row /\ creating' = creating
    /\ closing' = closing /\ reaping' = reaping /\ at' = at /\ writer' = writer
    /\ last' = last /\ done' = done /\ cut' = cut /\ crashed' = crashed
BY Zenon DEF vars, own, conn

(* Every variable keeps its type.                                          *)
THEOREM Typing == Spec => []TypeOK
<1> USE DEF TypeOK, Served, Attaching, Leaving
<1>1. Init => TypeOK
  BY DEF Init
<1>2. TypeOK /\ [Next]_vars => TypeOK'
  <2> SUFFICES ASSUME TypeOK, [Next]_vars PROVE TypeOK'
    OBVIOUS
  <2> USE DEF vars, own, conn, Runs, Goto, SetClientDisconnect
  <2>1. ASSUME NEW c \in Conns, Handler(c) PROVE TypeOK'
    <3>1. CASE UpgradeFails(c)
      BY <3>1 DEF UpgradeFails
    <3>2. CASE Register(c)
      BY <3>2 DEF Register
    <3>3. CASE ResetGone(c)
      BY <3>3 DEF ResetGone
    <3>4. CASE OnClientsAttach(c)
      BY <3>4 DEF OnClientsAttach
    <3>5. CASE Serve(c)
      BY <3>5 DEF Serve
    <3> QED
      BY <2>1, <3>1, <3>2, <3>3, <3>4, <3>5 DEF Handler
  <2>2. ASSUME NEW c \in Conns, Reader(c) PROVE TypeOK'
    <3>1. CASE ReadFails(c)
      BY <3>1 DEF ReadFails
    <3>2. CASE CloseDone(c)
      BY <3>2 DEF CloseDone
    <3>3. CASE StampGone(c)
      BY <3>3 DEF StampGone
    <3>4. CASE OnClientsEmpty(c)
      BY <3>4 DEF OnClientsEmpty
    <3>5. CASE HangUp(c)
      BY <3>5 DEF HangUp
    <3> QED
      BY <2>2, <3>1, <3>2, <3>3, <3>4, <3>5 DEF Reader
  <2>3. ASSUME NEW c \in Conns, Get(c) PROVE TypeOK'
    BY <2>3 DEF Get
  <2>4. ASSUME NEW c \in Conns, WriterStops(c) PROVE TypeOK'
    BY <2>4 DEF WriterStops
  <2>5. ASSUME NEW c \in Conns, PeerLeaves(c) PROVE TypeOK'
    BY <2>5 DEF PeerLeaves
  <2>6. ASSUME NEW c \in Conns, Forget(c) PROVE TypeOK'
    BY <2>6 DEF Forget
  <2>7. CASE UpsertRow
    BY <2>7 DEF UpsertRow
  <2>8. CASE TimesOut
    BY <2>8 DEF TimesOut
  <2>9. CASE Scan
    BY <2>9 DEF Scan
  <2>10. CASE Delete
    BY <2>10 DEF Delete, Claim, ClearRow
  <2>11. CASE Reap
    BY <2>11 DEF Reap, Claim, ClearRow
  <2>12. CASE Close
    BY <2>12 DEF Close
  <2>13. CASE DeleteRow
    BY <2>13 DEF DeleteRow
  <2>14. CASE ShellExits
    BY <2>14 DEF ShellExits
  <2>15. CASE Unlist
    BY <2>15 DEF Unlist
  <2>16. CASE UNCHANGED vars
    <3> HIDE DEF vars, own, conn, Runs, Goto, Served, Attaching, Leaving, TypeOK
    <3>1. /\ listed' = listed /\ closed' = closed /\ creating' = creating
          /\ reaping' = reaping /\ crashed' = crashed /\ shell' = shell
          /\ gone' = gone /\ row' = row /\ closing' = closing
          /\ at' = at /\ writer' = writer /\ clients' = clients /\ last' = last
          /\ done' = done /\ cut' = cut
      BY <2>16, Stutter
    <3> QED
      BY <3>1 DEF TypeOK
  <2> QED
    BY <2>1, <2>2, <2>3, <2>4, <2>5, <2>6, <2>7, <2>8, <2>9,
       <2>10, <2>11, <2>12, <2>13, <2>14, <2>15, <2>16
    DEF Next
<1> QED
  BY <1>1, <1>2, PTL DEF Spec

-----------------------------------------------------------------------------
(* Who will set the idle clock.                                            *)

(* Until Close, a 0 in clientGoneAt, or in the row, has somebody who is    *)
(* attached or who is on the way to overwrite it.                          *)
ClockHasOwner ==
  ~closed =>
    /\ gone = "zero" =>
         clients # {} \/ \E c \in Conns : at[c] = "stamp"
                                          \/ (at[c] = "signal" /\ c \in last)
    /\ row = "zero" =>
         clients # {} \/ \E c \in Conns : at[c] \in {"stamp", "persist"}
                                          \/ (at[c] = "signal" /\ c \in last)

(* A connection's channel is open until its own RemoveClient closes it,    *)
(* unless Close did; and it is a client from AddClient to RemoveClient.    *)
Channels ==
  /\ \A c \in clients : at[c] \in Served
  /\ ~closed =>
       \A c \in Conns :
         /\ at[c] \in Served => c \in clients
         /\ at[c] \in Served \cup {"signal", "off", "upgrade"} => c \notin done
  /\ PanicNeedsClose

ClientsInv == ClockHasOwner /\ Channels

LEMMA ClientsStep ==
  ASSUME TypeOK, TypeOK', ClientsInv, [Next]_vars
  PROVE  ClientsInv'
<1> USE DEF TypeOK, ClientsInv, ClockHasOwner, Channels, PanicNeedsClose,
            Served, Attaching, Leaving, vars, own, conn, Runs, Goto
<1>1. ASSUME NEW c \in Conns, Get(c) PROVE ClientsInv'
  BY <1>1 DEF Get
<1>2. ASSUME NEW c \in Conns, Handler(c) PROVE ClientsInv'
  <2>1. CASE UpgradeFails(c)
    BY <2>1 DEF UpgradeFails
  <2>2. CASE Register(c)
    BY <2>2 DEF Register
  <2>3. CASE ResetGone(c)
    BY <2>3 DEF ResetGone
  <2>4. CASE OnClientsAttach(c)
    BY <2>4 DEF OnClientsAttach, SetClientDisconnect
  <2>5. CASE Serve(c)
    BY <2>5 DEF Serve
  <2> QED
    BY <1>2, <2>1, <2>2, <2>3, <2>4, <2>5 DEF Handler
<1>3. ASSUME NEW c \in Conns, Reader(c) PROVE ClientsInv'
  <2>1. CASE ReadFails(c)
    BY <2>1 DEF ReadFails
  <2>2. CASE CloseDone(c)
    BY <2>2 DEF CloseDone
  <2>3. CASE StampGone(c)
    BY <2>3 DEF StampGone
  <2>4. CASE OnClientsEmpty(c)
    BY <2>4 DEF OnClientsEmpty, SetClientDisconnect
  <2>5. CASE HangUp(c)
    BY <2>5 DEF HangUp
  <2> QED
    BY <1>3, <2>1, <2>2, <2>3, <2>4, <2>5 DEF Reader
<1>4. ASSUME NEW c \in Conns, WriterStops(c) \/ PeerLeaves(c) PROVE ClientsInv'
  BY <1>4 DEF WriterStops, PeerLeaves
<1>5. ASSUME NEW c \in Conns, Forget(c) PROVE ClientsInv'
  BY <1>5 DEF Forget
<1>6. CASE UpsertRow \/ TimesOut \/ Scan \/ Delete \/ Reap
  BY <1>6 DEF UpsertRow, TimesOut, Scan, Delete, Reap, Claim, ClearRow
<1>7. CASE Close \/ DeleteRow \/ ShellExits \/ Unlist
  BY <1>7 DEF Close, DeleteRow, ShellExits, Unlist
<1>8. CASE UNCHANGED vars
  <2> HIDE DEF vars
  <2> QED
    BY <1>8, Stutter, Zenon
<1> QED
  BY <1>1, <1>2, <1>3, <1>4, <1>5, <1>6, <1>7, <1>8 DEF Next

LEMMA ClientsInvariant == Spec => [](TypeOK /\ ClientsInv)
<1>1. Init => ClientsInv
  BY DEF Init, ClientsInv, ClockHasOwner, Channels, PanicNeedsClose, Served,
         Attaching
<1>2. TypeOK /\ TypeOK' /\ ClientsInv /\ [Next]_vars => ClientsInv'
  BY ClientsStep
<1> QED
  BY <1>1, <1>2, Typing, PTL DEF Spec

(* No order of arrivals and departures stops the idle clock of a session   *)
(* to which nobody is attached.                                            *)
THEOREM ClockKept == Spec => []IdleWhenEmpty
<1>1. ClientsInv => IdleWhenEmpty
  BY DEF ClientsInv, ClockHasOwner, IdleWhenEmpty, Leaving
<1> QED
  BY <1>1, ClientsInvariant, PTL

(* Every client has the goroutine that will remove it.                     *)
THEOREM ClientsAreServed == Spec => []RegisteredWhileServed
<1>1. ClientsInv => RegisteredWhileServed
  BY DEF ClientsInv, Channels, RegisteredWhileServed
<1> QED
  BY <1>1, ClientsInvariant, PTL

(* The server cannot panic in RemoveClient while no session is closed.     *)
THEOREM PanicOnlyAfterClose == Spec => []PanicNeedsClose
<1>1. ClientsInv => PanicNeedsClose
  BY DEF ClientsInv, Channels
<1> QED
  BY <1>1, ClientsInvariant, PTL

=============================================================================
