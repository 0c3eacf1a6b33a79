----------------------------- MODULE ExecCommand -----------------------------
(***************************************************************************)
(* The exec endpoint of api/handlers.go: a request types its command and   *)
(* "; echo <marker>" into the session's PTY and follows the history file   *)
(* until the marker shows that the command has ended.  Requests, and the   *)
(* user of a terminal, type into the same PTY; the terminal and the shell  *)
(* answer in their own time, and readPTY brings what they print to the     *)
(* file in pieces of any size.                                             *)
(*                                                                         *)
(* The text is cut into the pieces that matter: lines typed, the marker as *)
(* echoed and as printed, ends of line, outputs.  A piece of the file that *)
(* ends inside a marker holds no marker, as if it ended before it.  Any    *)
(* time may pass between two steps: there is no clock, and a timeout comes *)
(* when it will.  An output is returned whole (maxExecOutput is left out). *)
(***************************************************************************)
EXTENDS Naturals, Sequences, SequencesExt

CONSTANTS
  Execs,         \* requests to the endpoint, and the commands they carry
  User,          \* typing at a terminal, and what is typed without an Enter
  Enter,         \* the end of a line
  Timeouts,      \* the timeouts a request may ask for, in some unit of time
  WriteTimeout,  \* http.Server.WriteTimeout, in the same unit
  MaxKeys,       \* bound: how often the user touches the keyboard
  MaxLag         \* bound: pieces printed before readPTY must have read some

ASSUME TypistsAssumption == User \notin Execs /\ Enter \notin Execs \cup {User}
ASSUME ClockAssumption   == /\ Timeouts \subseteq Nat \ {0}
                            /\ WriteTimeout \in Nat
ASSUME BoundsAssumption  == MaxKeys \in Nat /\ MaxLag \in Nat

VARIABLES
  pc,       \* per request, its next step
  timeout,  \* per request, its timeout
  file,     \* per request, the history past the offset to which it seeked
  output,   \* per request, the output in its response when it is done
  input,    \* what is typed and not yet read by the shell
  shell,    \* "prompt", "busy" or "gone"
  todo,     \* what a busy shell has still to print
  printed,  \* what came out of the PTY and is not yet in the history
  keys,     \* what is left of MaxKeys
  said,     \* what the commands and the marker's echoes have printed, and
  alone     \* the requests whose command met a prompt and no other typing:
            \* auxiliary variables, read by the properties only

request == <<pc, timeout, file, output>>
pty     == <<input, shell, todo, printed>>
vars    == <<request, pty, keys, said, alone>>

-----------------------------------------------------------------------------
(* What the PTY shows.                                                     *)

EndOfLine == <<"end of line", Enter>>
Prompt    == <<"prompt", Enter>>
Echoed(e) == <<"; echo marker", e>>
Marker(e) == <<"marker", e>>
Output(x) == <<"output", x>>

Pieces == {EndOfLine, Prompt} \cup {Output(User)}
            \cup UNION {{Echoed(e), Marker(e), Output(e)} : e \in Execs}

(* Where the bytes of the marker stand, and where "echo " comes before.    *)
Mentions(e) == {Echoed(e), Marker(e)}
Commands(e) == {Echoed(e)}

FirstIn(s, from, P) == SelectInSubSeq(s, from, Len(s), LAMBDA x : x \in P)

(* bytes.TrimRight(out, "\r\n") *)
TrimRight(s) == SubSeq(s, 1, SelectLastInSeq(s, LAMBDA x : x # EndOfLine))

(* A mutant: the echoed line is left in.                                   *)
FromTheStart(buf, e) == 1

(* The line after the first echo of the command, or the start.             *)
ContentStart(buf, e) ==
  LET echo == FirstIn(buf, 1, Commands(e))
  IN  IF echo = 0 THEN 1 ELSE FirstIn(buf, echo, {EndOfLine}) + 1

(* A mutant: the echo of the command taken for its end.                    *)
MarkAnywhere(buf, e) == FirstIn(buf, 1, Mentions(e))

(* The first mark in the content that is not part of a command.            *)
MarkAt(buf, e) ==
  FirstIn(buf, ContentStart(buf, e), Mentions(e) \ Commands(e))

(* The output once there is such a mark.                                   *)
ExtractExecOutput(buf, e) ==
  LET from == ContentStart(buf, e)
      mark == MarkAt(buf, e)
  IN  TrimRight(SubSeq(buf, from, mark - 1))

-----------------------------------------------------------------------------
Init ==
  /\ pc      = [e \in Execs |-> "idle"]
  /\ timeout \in [Execs -> Timeouts]
  /\ file    = [e \in Execs |-> <<>>]
  /\ output  = [e \in Execs |-> <<>>]
  /\ input = <<>> /\ shell = "prompt" /\ todo = <<>> /\ printed = <<Prompt>>
  /\ keys = MaxKeys /\ said = {} /\ alone = {}

Goes(e, from, to) == pc[e] = from /\ pc' = [pc EXCEPT ![e] = to]

Opened(e) == pc[e] \in {"clear", "write", "poll"}

Polling == {e \in Execs : pc[e] = "poll"}

(* Session.WriteInput.  A busy shell leaves the echo to the terminal; at   *)
(* the prompt the shell does it when it reads the line.  What is typed     *)
(* without an Enter is echoed too, but nothing looks for it.               *)
Echo(x) == CASE x = User -> <<>>
             [] x = Enter -> <<EndOfLine>>
             [] OTHER -> <<Echoed(x), EndOfLine>>

Show(pieces) ==
  /\ printed' = printed \o pieces
  /\ pieces = <<>> \/ Len(printed) <= MaxLag

Type(x) ==
  /\ input' = Append(input, x)
  /\ Show(IF shell = "busy" THEN Echo(x) ELSE <<>>)
  /\ UNCHANGED <<shell, todo>>

(* The PTY of a shell that is gone may still be open, and take the text.   *)
WriteInput(x) == IF shell = "gone" THEN UNCHANGED pty ELSE Type(x)

-----------------------------------------------------------------------------
(* HandleExecCommand                                                       *)

(* A live session, a well formed request; the file is seeked to its end.   *)
Seek(e) ==
  /\ Goes(e, "idle", "clear") /\ shell # "gone"
  /\ file' = [file EXCEPT ![e] = <<>>]
  /\ UNCHANGED <<timeout, output, pty, keys, said, alone>>

Clear(e) ==
  /\ Goes(e, "clear", "write")
  /\ WriteInput(Enter)
  /\ alone' = alone \ Polling
  /\ UNCHANGED <<timeout, file, output, keys, said>>

Write(e) ==
  /\ Goes(e, "write", "poll")
  /\ WriteInput(e)
  /\ alone' = (alone \ Polling) \cup
       IF shell = "prompt" /\ ToSet(input) \subseteq {Enter} THEN {e} ELSE {}
  /\ UNCHANGED <<timeout, file, output, keys, said>>

(* The history cannot be opened or the PTY not be written.                 *)
Fail(e) ==
  /\ shell = "gone" /\ pc[e] \in {"idle", "clear", "write"}
  /\ pc'   = [pc EXCEPT ![e] = "failed"]
  /\ file' = [file EXCEPT ![e] = <<>>]
  /\ UNCHANGED <<timeout, output, pty, keys, said, alone>>

(* The response, at time t of the request; it is lost once the server's    *)
(* deadline to write it is over.                                           *)
Respond(e, how, out, t) ==
  /\ pc' = [pc EXCEPT ![e] = IF t < WriteTimeout THEN how ELSE "lost"]
  /\ output' = [output EXCEPT ![e] = out]
  /\ file'   = [file EXCEPT ![e] = <<>>]
  /\ UNCHANGED <<timeout, pty, keys, said, alone>>

(* A round of pollExecOutput that finds the marker.                        *)
Done(e) ==
  /\ pc[e] = "poll" /\ MarkAt(file[e], e) # 0
  /\ \E t \in 0 .. timeout[e] :
       Respond(e, "done", ExtractExecOutput(file[e], e), t)

(* ctx.Done after a round that has not found it, while the file may have   *)
(* grown.  Of the output, what that round has read, nothing is kept here.  *)
Expire(e) ==
  /\ pc[e] = "poll"
  /\ Respond(e, "timed out", <<>>, timeout[e])

-----------------------------------------------------------------------------
(* The user, through the readPump of a terminal.                           *)

Press(x) ==
  /\ keys > 0 /\ keys' = keys - 1
  /\ WriteInput(x)
  /\ alone' = alone \ Polling
  /\ UNCHANGED <<request, said>>

(* Ctrl-C: the line or the command is given up, and what was typed ahead.  *)
Interrupt ==
  /\ keys > 0 /\ keys' = keys - 1
  /\ shell # "gone"
  /\ input' = <<>> /\ todo' = <<>> /\ shell' = "busy"
  /\ Show(<<EndOfLine>>)
  /\ alone' = alone \ Polling
  /\ UNCHANGED <<request, said>>

-----------------------------------------------------------------------------
(* The shell.  Its commands do not read what is typed while they run.      *)

(* What a line makes it print.  A command that has been typed behind some  *)
(* text is another command, but the marker's echo still follows it.        *)
Work(line) ==
  LET x == Last(line)
      command == IF Len(line) > 1 THEN User ELSE x
  IN  (IF command = Enter THEN <<>> ELSE <<Output(command)>>)
        \o (IF x = Enter THEN <<>> ELSE <<Marker(x)>>)

ReadLine ==
  LET end == SelectInSeq(input, LAMBDA x : x # User)
  IN  /\ shell = "prompt" /\ end # 0
      /\ Show(Echo(input[end]))
      /\ todo'    = Work(SubSeq(input, 1, end))
      /\ input'   = SubSeq(input, end + 1, Len(input))
      /\ shell'   = "busy"
      /\ UNCHANGED <<request, keys, said, alone>>

(* A command prints or does not; the echo of the marker does.              *)
Run ==
  /\ shell = "busy" /\ todo # <<>>
  /\ todo' = Tail(todo)
  /\ \/ Show(<<Head(todo)>>) /\ said' = said \cup {Head(todo)}
     \/ /\ \A e \in Execs : Head(todo) # Marker(e)
        /\ UNCHANGED <<printed, said>>
  /\ UNCHANGED <<request, input, shell, keys, alone>>

ShowPrompt ==
  /\ shell = "busy" /\ todo = <<>>
  /\ shell' = "prompt"
  /\ Show(<<Prompt>>)
  /\ UNCHANGED <<request, input, todo, keys, said, alone>>

(* It exits, or is killed by Session.Close.                                *)
End ==
  /\ shell # "gone"
  /\ shell' = "gone" /\ todo' = <<>> /\ input' = <<>>
  /\ UNCHANGED <<request, printed, keys, said, alone>>

(* readPTY: a chunk of what has been printed is appended to the history.   *)
ReadPTY ==
  \E n \in 1 .. Len(printed) :
    /\ printed' = SubSeq(printed, n + 1, Len(printed))
    /\ file' = [e \in Execs |-> IF Opened(e) THEN file[e] \o SubSeq(printed, 1, n)
                                           ELSE <<>>]
    /\ UNCHANGED <<pc, timeout, output, input, shell, todo, keys, said, alone>>

-----------------------------------------------------------------------------
Handler(e) == \/ Seek(e) \/ Clear(e) \/ Write(e) \/ Fail(e)
              \/ Done(e) \/ Expire(e)

Next ==
  \/ \E e \in Execs : Handler(e)
  \/ \E x \in {User, Enter} : Press(x)
  \/ Interrupt \/ ReadLine \/ Run \/ ShowPrompt \/ End \/ ReadPTY

Spec == Init /\ [][Next]_vars

-----------------------------------------------------------------------------
(* Properties.                                                             *)

Returned == {"done", "timed out", "lost"}

(* Every variable has its type, and no file outlives its request.          *)
TypeOK ==
  /\ pc \in [Execs -> {"idle", "clear", "write", "poll", "failed"} \cup Returned]
  /\ timeout \in [Execs -> Timeouts]
  /\ file \in [Execs -> Seq(Pieces)]
  /\ \A e \in Execs : Opened(e) \/ file[e] = <<>>
  /\ output \in [Execs -> Seq(Pieces)]
  /\ input \in Seq(Execs \cup {User, Enter})
  /\ shell \in {"prompt", "busy", "gone"}
  /\ todo \in Seq(Pieces) /\ printed \in Seq(Pieces)
  /\ keys \in 0 .. MaxKeys
  /\ said \subseteq Pieces /\ alone \subseteq Execs

Once(s, x) == \A i, j \in DOMAIN s : s[i] = x /\ s[j] = x => i = j

Said(e) == IF Output(e) \in said THEN <<Output(e)>> ELSE <<>>

(* A response that reports the command as done (handlers.go:273-279) comes *)
(* after the shell has printed the marker, whoever else's echoes and       *)
(* markers stand around it, and holds all that the command has printed,    *)
(* once.  The types are checked with it.                                   *)
DoneIsComplete ==
  TypeOK /\ \A e \in Execs : pc[e] = "done" =>
    /\ Marker(e) \in said
    /\ Output(e) \in said <=> Contains(output[e], Output(e))
    /\ Once(output[e], Output(e))

(* The output is the command's own (handlers.go:190) if it was typed at a  *)
(* prompt and nobody typed before its end: neither the prompt nor the      *)
(* echo, nor what an earlier command left to be filed, is in it.           *)
CleanResult ==
  \A e \in alone : pc[e] = "done" => output[e] = Said(e)

=============================================================================
