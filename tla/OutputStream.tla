---------------------------- MODULE OutputStream ----------------------------
(***************************************************************************)
(* The output of one session on its way to the browsers: readPTY files     *)
(* each chunk and sends it to the clients' channels without waiting, a new *)
(* connection gets the history first, and its writePump what is in its     *)
(* channel.  A chunk is the number of the Read that returned it.           *)
(***************************************************************************)
EXTENDS Naturals, FiniteSets, SequencesExt

CONSTANTS
  Conns,      \* names for the WebSocket connections of a moment
  Capacity,   \* of a client's channel, 256 in the code
  MaxChunks   \* a bound: the shell prints no more

ASSUME StreamAssumption ==
  Capacity \in Nat \ {0} /\ MaxChunks \in Nat

VARIABLES
  pty,       \* "open", or "closed" by waitProcess or Close
  reader,    \* readPTY: "read", "file", "send" or "ended"
  taken,     \* how many chunks readPTY has read; the last is in its hands
  history,   \* the content of the session's log file
  closing,   \* how far Session.Close is
  clients,   \* s.clients
  done,      \* the clients whose done channel is closed
  ch,        \* per client: its channel
  at,        \* per connection: how far HandleWebSocket is
  replay,    \* per connection: the history that ReadHistory returned
  writer,    \* per connection: its writePump, "off" or "writing"
  link,      \* per connection: "up", "stalled" when the browser has stopped
             \* reading, or "down"
  sent       \* per connection: the chunks written to it

source == <<pty, reader, taken, history>>
conn   == <<clients, done, at, replay, writer, link, sent>>
vars   == <<source, closing, ch, conn>>

Init ==
  /\ pty = "open" /\ reader = "read" /\ taken = 0
  /\ history = <<>> /\ closing = "no"
  /\ clients = {} /\ done = {}
  /\ ch     = [c \in Conns |-> <<>>]
  /\ at     = [c \in Conns |-> "off"]
  /\ replay = [c \in Conns |-> <<>>]
  /\ writer = [c \in Conns |-> "off"]
  /\ link   = [c \in Conns |-> "up"]
  /\ sent   = [c \in Conns |-> <<>>]

-----------------------------------------------------------------------------
(* The shell and readPTY.                                                  *)

(* A mutant: the clients are served before the file. *)
ThenSendFirst(step) == CASE step = "read" -> "send" [] step = "send" -> "file"
                         [] step = "file" -> "read"

(* The order of the statements in the loop of readPTY. *)
Then(step) == CASE step = "read" -> "file" [] step = "file" -> "send"
                [] step = "send" -> "read"

(* What the shell has printed and readPTY not read is lost with the PTY.   *)
ShellExits ==
  /\ pty = "open" /\ pty' = "closed"
  /\ UNCHANGED <<reader, taken, history, closing, ch, conn>>

Read ==
  /\ reader = "read" /\ pty = "open" /\ taken < MaxChunks
  /\ taken' = taken + 1 /\ reader' = Then("read")
  /\ UNCHANGED <<pty, history, closing, ch, conn>>

ReadFails ==
  /\ reader = "read" /\ pty = "closed" /\ reader' = "ended"
  /\ UNCHANGED <<pty, taken, history, closing, ch, conn>>

Filing == closing \in {"no", "pty"}

(* The write to a file that Close has closed fails, and nobody looks.      *)
File ==
  /\ reader = "file" /\ reader' = Then("file")
  /\ history' = IF Filing THEN Append(history, taken) ELSE history
  /\ UNCHANGED <<pty, taken, closing, ch, conn>>

(* Mutants: no default branch, so that the send waits; and a channel given *)
(* up for full too early.                                                  *)
SendBlocking ==
  /\ reader = "send" /\ reader' = Then("send")
  /\ \A c \in clients : Len(ch[c]) < Capacity
  /\ ch' = [c \in Conns |-> IF c \in clients THEN Append(ch[c], taken)
                            ELSE ch[c]]
  /\ UNCHANGED <<pty, taken, history, closing, conn>>

SendEarlyFull ==
  /\ reader = "send" /\ reader' = Then("send")
  /\ ch' = [c \in Conns |-> IF c \in clients /\ Len(ch[c]) < Capacity - 1
                            THEN Append(ch[c], taken) ELSE ch[c]]
  /\ UNCHANGED <<pty, taken, history, closing, conn>>

(* The broadcast, under mu.  A writePump that empties its channel during   *)
(* it does so as if before or after: the sends are independent.            *)
Send ==
  /\ reader = "send" /\ reader' = Then("send")
  /\ ch' = [c \in Conns |-> IF c \in clients /\ Len(ch[c]) < Capacity
                            THEN Append(ch[c], taken) ELSE ch[c]]
  /\ UNCHANGED <<pty, taken, history, closing, conn>>

-----------------------------------------------------------------------------
(* Session.Close; that Delete then removes the file is in SessionManager.  *)

ClosePTY ==
  /\ closing = "no" /\ closing' = "pty" /\ pty' = "closed"
  /\ UNCHANGED <<reader, taken, history, ch, conn>>

CloseFile ==
  /\ closing = "pty" /\ closing' = "file"
  /\ UNCHANGED <<source, ch, conn>>

DropClients ==
  /\ closing = "file" /\ closing' = "done"
  /\ done' = done \cup clients /\ clients' = {}
  /\ UNCHANGED <<source, ch, at, replay, writer, link, sent>>

-----------------------------------------------------------------------------
(* HandleWebSocket and the pumps.                                          *)

(* A mutant: writePump is started with the registration. *)
RegisterServed(c) ==
  /\ at[c] = "off"
  /\ at' = [at EXCEPT ![c] = "registered"]
  /\ clients' = clients \cup {c} /\ writer' = [writer EXCEPT ![c] = "writing"]
  /\ UNCHANGED <<source, closing, ch, done, replay, link, sent>>

(* AddClient, on the session that Get found, perhaps before it was closed. *)
Register(c) ==
  /\ at[c] = "off"
  /\ at' = [at EXCEPT ![c] = "registered"]
  /\ clients' = clients \cup {c}
  /\ UNCHANGED <<source, closing, ch, done, replay, writer, link, sent>>

(* A mutant: writePump is started before the history is sent. *)
ReadHistoryServed(c) ==
  /\ at[c] = "registered"
  /\ at' = [at EXCEPT ![c] = "loaded"]
  /\ replay' = [replay EXCEPT ![c] = history]
  /\ writer' = [writer EXCEPT ![c] = "writing"]
  /\ UNCHANGED <<source, closing, ch, clients, done, link, sent>>

ReadHistory(c) ==
  /\ at[c] = "registered"
  /\ at' = [at EXCEPT ![c] = "loaded"]
  /\ replay' = [replay EXCEPT ![c] = history]
  /\ UNCHANGED <<source, closing, ch, clients, done, writer, link, sent>>

(* The history is written, without a deadline and without a look at the    *)
(* error, and the pumps start.                                             *)
Replay(c) ==
  /\ at[c] = "loaded" /\ link[c] # "stalled"
  /\ at' = [at EXCEPT ![c] = "served"]
  /\ sent' = [sent EXCEPT ![c] = @ \o replay[c]]
  /\ writer' = [writer EXCEPT ![c] = "writing"]
  /\ UNCHANGED <<source, closing, ch, clients, done, replay, link>>

(* writePump; a write that fails is in WriterStops.                        *)
Write(c) ==
  /\ writer[c] = "writing" /\ ch[c] # <<>> /\ link[c] = "up"
  /\ ch' = [ch EXCEPT ![c] = Tail(@)]
  /\ sent' = [sent EXCEPT ![c] = Append(@, Head(ch[c]))]
  /\ UNCHANGED <<source, closing, clients, done, at, replay, writer, link>>

(* Told by done, which select may prefer to what is in the channel, or by  *)
(* a write or ping that takes longer than writeWait.                       *)
WriterStops(c) ==
  /\ writer[c] = "writing" /\ (c \in done \/ link[c] = "stalled")
  /\ writer' = [writer EXCEPT ![c] = "off"]
  /\ link' = [link EXCEPT ![c] = "down"]
  /\ UNCHANGED <<source, closing, ch, clients, done, at, replay, sent>>

(* The browser goes away or is not heard of for too long, or it stops      *)
(* reading and stays.                                                      *)
Disturb(c) ==
  /\ at[c] # "off"
  /\ \/ link[c] # "down" /\ link' = [link EXCEPT ![c] = "down"]
     \/ link[c] = "up" /\ link' = [link EXCEPT ![c] = "stalled"]
  /\ UNCHANGED <<source, closing, ch, clients, done, at, replay, writer, sent>>

(* On a connection that is down both pumps end, readPump with RemoveClient *)
(* (after DropClients, with the panic of SessionClients), and the name c   *)
(* is free for another one.                                                *)
Leave(c) ==
  /\ at[c] = "served" /\ link[c] = "down" /\ c \notin done
  /\ clients' = clients \ {c}
  /\ at' = [at EXCEPT ![c] = "off"] /\ writer' = [writer EXCEPT ![c] = "off"]
  /\ link' = [link EXCEPT ![c] = "up"] /\ ch' = [ch EXCEPT ![c] = <<>>]
  /\ replay' = [replay EXCEPT ![c] = <<>>] /\ sent' = [sent EXCEPT ![c] = <<>>]
  /\ UNCHANGED <<source, closing, done>>

-----------------------------------------------------------------------------
Close == CloseFile \/ DropClients

Next ==
  \/ Read \/ ReadFails \/ File \/ Send
  \/ ShellExits \/ ClosePTY \/ Close
  \/ \E c \in Conns : \/ Register(c) \/ ReadHistory(c) \/ Replay(c) \/ Write(c)
                      \/ WriterStops(c) \/ Disturb(c) \/ Leave(c)

Spec == Init /\ [][Next]_vars

(* A goroutine that can run does; a write that can be done is.             *)
Fairness ==
  /\ WF_vars(ReadFails \/ File \/ Send) /\ WF_vars(Close)
  /\ \A c \in Conns : /\ WF_vars(ReadHistory(c)) /\ WF_vars(Replay(c))
                      /\ WF_vars(Write(c)) /\ WF_vars(WriterStops(c))

FairSpec == Spec /\ Fairness

-----------------------------------------------------------------------------
(* Properties.                                                             *)

Chunks == 1..MaxChunks
IsIncreasing(s) == \A i, j \in DOMAIN s : i < j => s[i] < s[j]

(* What a connection got or will get beyond its replay. *)
Live(c) == IF at[c] = "served"
           THEN SubSeq(sent[c], Len(replay[c]) + 1, Len(sent[c])) \o ch[c]
           ELSE ch[c]

(* The chunks that readPTY has been through with. *)
Passed == IF reader \in {"read", "ended"} THEN taken ELSE taken - 1

(* Every variable has its type, and no channel holds more than it can.     *)
TypeOK ==
  /\ taken \in 0..MaxChunks
  /\ pty \in {"open", "closed"}
  /\ reader \in {"read", "file", "send", "ended"}
  /\ closing \in {"no", "pty", "file", "done"}
  /\ history \in Seq(Chunks)
  /\ clients \subseteq Conns /\ done \subseteq Conns
  /\ link \in [Conns -> {"up", "stalled", "down"}]
  /\ at \in [Conns -> {"off", "registered", "loaded", "served"}]
  /\ writer \in [Conns -> {"off", "writing"}]
  /\ replay \in [Conns -> Seq(Chunks)] /\ sent \in [Conns -> Seq(Chunks)]
  /\ ch \in [Conns -> Seq(Chunks)]
  /\ \A c \in Conns : Len(ch[c]) <= Capacity

(* A browser gets the history first, and then chunks in the order in which *)
(* the shell printed them and none of them twice, whatever it missed.      *)
OrderKept ==
  \A c \in Conns : /\ at[c] = "served" => IsPrefix(replay[c], sent[c])
                   /\ IsIncreasing(Live(c))

(* The chunks that readPTY is through with, and that a client with its     *)
(* replay in hand neither has nor has coming.                              *)
Lacks(c) == IF c \in clients /\ at[c] # "registered"
            THEN (1..Passed) \ (Range(replay[c]) \cup Range(Live(c)))
            ELSE {}

(* Nothing falls between the history and the stream, nor out of a channel: *)
(* a client comes to lack a chunk only at the broadcast of that chunk, and *)
(* only if its channel is full at that moment.  A client that has just     *)
(* read the history lacks none.                                            *)
LossNeedsFullChannel ==
  [][Filing' => \A c \in Conns : \A k \in Lacks(c)' \ Lacks(c) :
       reader = "send" /\ k = taken /\ Len(ch[c]) = Capacity]_vars

(* Registering before reading the history repeats the chunks that came in  *)
(* between: as many as the channel holds, and the one that was filed but   *)
(* not yet sent when the history was read.  The types are checked with it. *)
OverlapBound ==
  TypeOK /\ \A c \in Conns :
    Cardinality(Range(replay[c]) \cap Range(Live(c))) <= Capacity + 1

(* What any browser has been sent is in the replay of whoever connects     *)
(* later, a browser that comes back included, until Close has closed the   *)
(* file.                                                                   *)
FiledFirst ==
  Filing => \A c \in Conns : Range(sent[c] \o ch[c]) \subseteq Range(history)

(* What is in the channel of a client reaches it, unless its browser stops *)
(* reading or the client or the session is over; and readPTY is never held *)
(* up for good, whatever the browsers do: one that does not read costs     *)
(* neither the history nor the others anything.                            *)
OutputFlows ==
  /\ \A c \in Conns : []<>(ch[c] = <<>> \/ c \in done \/ link[c] # "up")
  /\ []<>(reader \in {"read", "ended"})

=============================================================================
