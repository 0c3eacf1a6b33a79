----------------------------- MODULE ImagePaste -----------------------------
(***************************************************************************)
(* Images pasted into a terminal: readPump and Session.PasteImage.  A      *)
(* connection's messages are handled one after the other, each until it is *)
(* done; but the clipboard is one for the server, all of its sessions and  *)
(* connections, and the program in the terminal looks at it only when it   *)
(* reads the Ctrl+V.  An image stands for the message that brought it.     *)
(***************************************************************************)
EXTENDS Naturals, Sequences, SequencesExt

CONSTANTS
  Conns,      \* connections
  Sessions,   \* the sessions that they may be attached to
  None,       \* no image
  MaxSent     \* a bound: messages per connection

Images == Conns \X (1..MaxSent)

ASSUME PasteAssumption == MaxSent \in Nat /\ None \notin Images

VARIABLES
  home,       \* per connection: its session
  open,       \* per session: whether its PTY is open
  link,       \* per connection: whether readPump still reads from it
  sent,       \* per connection: how many messages the browser has sent
  inbox,      \* per connection: the number and kind of each that is not handled
              \* yet; readPump is at the first
  pump,       \* per connection: "idle", "tool": it runs, "owned": it has
              \* taken the clipboard, or "save"
  clipboard,  \* the image in it, or None
  files,      \* the images saved below the data directory
  input,      \* per session: what is typed and not read, with its message
  seen,       \* per connection: the last message the program has read of
  got,        \* per image: the one that the program took for it, or None
  overtaken   \* history: the images that others replaced in the clipboard

tty  == <<input, seen, got>>
disk == <<clipboard, files, overtaken>>
vars == <<home, open, link, sent, inbox, pump, disk, tty>>

Init ==
  /\ home \in [Conns -> Sessions]
  /\ open = [s \in Sessions |-> TRUE] /\ link = [c \in Conns |-> TRUE]
  /\ sent = [c \in Conns |-> 0] /\ inbox = [c \in Conns |-> <<>>]
  /\ pump = [c \in Conns |-> "idle"]
  /\ clipboard = None /\ files = {} /\ overtaken = {}
  /\ input = [s \in Sessions |-> <<>>]
  /\ seen = [c \in Conns |-> 0] /\ got = [i \in Images |-> None]

(* The message that readPump of c is at. *)
Current(c) == <<c, Head(inbox[c])[1]>>
At(c, kind) == inbox[c] # <<>> /\ Head(inbox[c])[2] = kind

Send(c, kind) ==
  /\ link[c] /\ sent[c] < MaxSent
  /\ sent' = [sent EXCEPT ![c] = @ + 1]
  /\ inbox' = [inbox EXCEPT ![c] = Append(@, <<sent[c] + 1, kind>>)]
  /\ UNCHANGED <<home, open, link, pump, disk, tty>>

(* WriteInput, for the message with number n; a closed PTY takes nothing. *)
WriteInput(c, what, n) ==
  /\ input' = IF open[home[c]]
              THEN [input EXCEPT ![home[c]] = Append(@, <<what, c, n>>)]
              ELSE input
  /\ UNCHANGED <<seen, got>>

(* Its end: readPump goes on to the next one. *)
Handled(c) ==
  /\ pump' = [pump EXCEPT ![c] = "idle"]
  /\ inbox' = [inbox EXCEPT ![c] = Tail(@)]
  /\ UNCHANGED <<home, open, link, sent>>

Becomes(c, from, to) ==
  /\ pump[c] \in from
  /\ pump' = [pump EXCEPT ![c] = to]
  /\ UNCHANGED <<home, open, link, sent, inbox>>

-----------------------------------------------------------------------------
(* A mutant: images are pasted beside the loop that reads the messages.    *)
KeyBeside(c) ==
  \E k \in DOMAIN inbox[c] :
    /\ inbox[c][k][2] = "key" /\ (k = 1 \/ pump[c] # "idle")
    /\ WriteInput(c, "key", inbox[c][k][1])
    /\ inbox' = [inbox EXCEPT ![c] = RemoveAt(@, k)]
    /\ UNCHANGED <<home, open, link, sent, pump, disk>>

Key(c) ==
  /\ pump[c] = "idle" /\ At(c, "key")
  /\ WriteInput(c, "key", Current(c)[2]) /\ Handled(c)
  /\ UNCHANGED disk

(* copyImageToClipboard: without a display or a tool it fails at once.     *)
StartTool(c) ==
  /\ At(c, "image") /\ UNCHANGED <<disk, tty>>
  /\ Becomes(c, {"idle"}, "tool") \/ Becomes(c, {"idle"}, "save")

(* The tool: a process of its own. *)
TakeClipboard(c) ==
  /\ Becomes(c, {"tool"}, "owned")
  /\ clipboard' = Current(c)
  /\ overtaken' = overtaken \cup ({clipboard} \ {None})
  /\ UNCHANGED <<files, tty>>

(* A mutant: waiting for the tool's daemon to exit, without a deadline. *)
ToolFailsByItself(c) == Becomes(c, {"tool"}, "save") /\ UNCHANGED <<disk, tty>>

(* Or it fails, or is killed after five seconds; what it has put into the  *)
(* clipboard stays there, since a daemon of it serves the selection.       *)
ToolFails(c) ==
  /\ Becomes(c, {"tool", "owned"}, "save") /\ UNCHANGED <<disk, tty>>

(* A mutant: Ctrl+V, when the tool has only been started. *)
CtrlVEarly(c) ==
  /\ pump[c] \in {"tool", "owned"}
  /\ WriteInput(c, "ctrlV", Current(c)[2]) /\ Handled(c)
  /\ UNCHANGED disk

(* When it has exited. *)
CtrlV(c) ==
  /\ pump[c] = "owned"
  /\ WriteInput(c, "ctrlV", Current(c)[2]) /\ Handled(c)
  /\ UNCHANGED disk

(* saveImageFile, and then its path is typed; or it fails. *)
SaveImageFile(c) ==
  /\ pump[c] = "save"
  /\ files' = files \cup {Current(c)}
  /\ WriteInput(c, "path", Current(c)[2]) /\ Handled(c)
  /\ UNCHANGED <<clipboard, overtaken>>

SaveFails(c) == pump[c] = "save" /\ Handled(c) /\ UNCHANGED <<disk, tty>>

-----------------------------------------------------------------------------
(* The program: for a Ctrl+V it takes what is in the clipboard by then,    *)
(* for a path what is in the file.                                         *)
ReadFile(image) == IF image \in files THEN image ELSE None

Read(s) ==
  /\ input[s] # <<>>
  /\ input' = [input EXCEPT ![s] = Tail(@)]
  /\ LET i == <<Head(input[s])[2], Head(input[s])[3]>> IN
     /\ seen' = [seen EXCEPT ![i[1]] = i[2]]
     /\ got' = [got EXCEPT ![i] = CASE Head(input[s])[1] = "ctrlV" -> clipboard
                                    [] Head(input[s])[1] = "path"  -> ReadFile(i)
                                    [] OTHER -> @]
  /\ UNCHANGED <<home, open, link, sent, inbox, pump, disk>>

(* Session.Close, of a session that somebody has been attached to.  The    *)
(* files stay.                                                             *)
Close(s) ==
  /\ open[s] /\ \E c \in Conns : home[c] = s
  /\ open' = [open EXCEPT ![s] = FALSE]
  /\ input' = [input EXCEPT ![s] = <<>>]
  /\ UNCHANGED <<home, link, sent, inbox, pump, disk, seen, got>>

(* A read fails and readPump ends, with what it has not read: the session  *)
(* was closed, the browser has gone, or sixty seconds have passed since    *)
(* the last pong that readPump has read, which it does not while it        *)
(* pastes.                                                                 *)
Cut(c) ==
  /\ link[c] /\ pump[c] = "idle"
  /\ link' = [link EXCEPT ![c] = FALSE]
  /\ inbox' = [inbox EXCEPT ![c] = <<>>]
  /\ UNCHANGED <<home, open, sent, pump, disk, tty>>

ReadPump(c) ==
  Key(c) \/ StartTool(c) \/ SaveImageFile(c) \/ SaveFails(c)

Next ==
  \/ \E c \in Conns : \/ \E kind \in {"key", "image"} : Send(c, kind)
                      \/ ReadPump(c)
                      \/ TakeClipboard(c) \/ CtrlV(c) \/ ToolFails(c)
                      \/ Cut(c)
  \/ \E s \in Sessions : Read(s) \/ Close(s)

(* readPump runs on, and the five seconds come to their end; the program   *)
(* reads.  Of the tool itself nothing is assumed.                          *)
Fairness ==
  /\ \A c \in Conns : WF_vars(ReadPump(c)) /\ WF_vars(ToolFails(c))
  /\ \A s \in Sessions : WF_vars(Read(s))

Spec == Init /\ [][Next]_vars /\ Fairness

-----------------------------------------------------------------------------
(* Properties.                                                             *)

(* Every variable has its type, and a message is at hand while one is      *)
(* being handled.                                                          *)
TypeOK ==
  /\ home \in [Conns -> Sessions] /\ open \in [Sessions -> BOOLEAN]
  /\ link \in [Conns -> BOOLEAN]
  /\ sent \in [Conns -> 0..MaxSent] /\ seen \in [Conns -> 0..MaxSent]
  /\ inbox \in [Conns -> Seq((1..MaxSent) \X {"key", "image"})]
  /\ pump \in [Conns -> {"idle", "tool", "owned", "save"}]
  /\ \A c \in Conns : pump[c] # "idle" => At(c, "image")
  /\ clipboard \in Images \cup {None}
  /\ files \subseteq Images /\ overtaken \subseteq Images
  /\ input \in [Sessions -> Seq({"key", "ctrlV", "path"} \X Conns \X (1..MaxSent))]
  /\ got \in [Images -> Images \cup {None}]

(* The image that a program takes is the one that was pasted for it, or    *)
(* that one has been replaced in the clipboard by a later paste, into this *)
(* session or another; it is never an older one.  What is pasted as a path *)
(* is its own.  The types are checked with it.                             *)
OwnImage ==
  TypeOK /\ \A i \in Images : got[i] \in {i, None} \/ i \in overtaken

(* What the page sends on one connection reaches the program in the order  *)
(* in which it was sent: Enter does not overtake the image.                *)
InOrder == [][\A c \in Conns : seen'[c] >= seen[c]]_vars

(* What is typed and pasted, and be it behind an image, is dealt with in   *)
(* the end, whatever becomes of the images and of the tool, unless the     *)
(* connection is cut meanwhile; and what of it was typed into the terminal *)
(* is read then, unless the session is closed.                             *)
InputArrives ==
  \A c \in Conns :
    sent[c] > 0 ~> \/ /\ inbox[c] = <<>> \/ ~link[c]
                      /\ input[home[c]] = <<>>
                   \/ ~open[home[c]]

=============================================================================
