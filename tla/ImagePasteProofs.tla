-------------------------- MODULE ImagePasteProofs --------------------------
(***************************************************************************)
(* Proofs about ImagePaste, for any number of connections, sessions and    *)
(* messages: an image is never taken for an older one, and what is typed   *)
(* and pasted on one connection keeps its order.                           *)
(***************************************************************************)
EXTENDS ImagePaste, SequenceTheorems, TLAPS

Messages == (1..MaxSent) \X {"key", "image"}
Typed    == {"key", "ctrlV", "path"} \X Conns \X (1..MaxSent)

LEMMA Bound == MaxSent \in Nat /\ None \notin Images
BY PasteAssumption

-----------------------------------------------------------------------------
(* The two ends of a queue.                                                *)

LEMMA HeadStays ==
  \A s \in Seq(Messages), m \in Messages :
    s # <<>> => Append(s, m) # <<>> /\ Head(Append(s, m)) = Head(s)
<1> SUFFICES ASSUME NEW s \in Seq(Messages), NEW m \in Messages, s # <<>>
             PROVE  Append(s, m) # <<>> /\ Head(Append(s, m)) = Head(s)
  OBVIOUS
<1>1. Len(s) \in Nat \ {0} /\ Head(s) = s[1]
  BY EmptySeq, LenProperties, HeadTailProperties
<1>2. /\ Append(s, m) \in Seq(Messages) /\ Len(Append(s, m)) = Len(s) + 1
      /\ Append(s, m)[1] = s[1]
  BY <1>1, AppendProperties
<1> QED
  BY <1>1, <1>2, EmptySeq, HeadTailProperties

LEMMA AppendIs ==
  ASSUME NEW S, NEW s \in Seq(S), NEW x \in S
  PROVE  /\ Append(s, x) \in Seq(S) /\ Len(s) \in Nat
         /\ Len(Append(s, x)) = Len(s) + 1
         /\ \A k \in 1..Len(s) : Append(s, x)[k] = s[k]
         /\ Append(s, x)[Len(s) + 1] = x
BY AppendProperties, LenProperties

LEMMA TailIs ==
  ASSUME NEW S, NEW s \in Seq(S), s # <<>>
  PROVE  /\ Tail(s) \in Seq(S) /\ Head(s) \in S /\ Head(s) = s[1]
         /\ Len(s) \in Nat \ {0} /\ Len(Tail(s)) = Len(s) - 1
         /\ 1 \in 1..Len(s)
         /\ \A k \in 1..Len(s) : s[k] \in S
         /\ \A k \in 1..Len(Tail(s)) : k + 1 \in 1..Len(s) /\ Tail(s)[k] = s[k + 1]
<1>1. /\ Tail(s) \in Seq(S) /\ Head(s) \in S /\ Head(s) = s[1]
      /\ Len(Tail(s)) = Len(s) - 1
      /\ \A k \in 1..Len(Tail(s)) : Tail(s)[k] = s[k + 1]
  BY HeadTailProperties
<1>2. Len(s) \in Nat \ {0} /\ \A k \in 1..Len(s) : s[k] \in S
  BY EmptySeq, LenProperties, ElementOfSeq
<1> QED
  BY <1>1, <1>2

-----------------------------------------------------------------------------
(* Types.                                                                  *)

LEMMA TypesStep ==
  ASSUME TypeOK, [Next]_vars
  PROVE  TypeOK'
<1> USE Bound DEF TypeOK, disk, tty
<1>0. /\ 0..MaxSent \subseteq Nat
      /\ inbox \in [Conns -> Seq(Messages)] /\ input \in [Sessions -> Seq(Typed)]
  BY DEF Messages, Typed
<1>1. ASSUME NEW c \in Conns, At(c, "key") \/ At(c, "image")
      PROVE  /\ Tail(inbox[c]) \in Seq(Messages) /\ Current(c) \in Images
             /\ Current(c)[1] = c /\ Current(c)[2] \in 1..MaxSent
  <2>1. inbox[c] \in Seq(Messages) /\ inbox[c] # <<>>
    BY <1>1, <1>0 DEF At
  <2>2. Tail(inbox[c]) \in Seq(Messages) /\ Head(inbox[c]) \in Messages
    BY <2>1, TailIs
  <2> QED
    BY <2>2 DEF Messages, Current, Images
<1>2. ASSUME NEW c \in Conns, NEW what \in {"key", "ctrlV", "path"},
             WriteInput(c, what, Current(c)[2]), Current(c)[2] \in 1..MaxSent
      PROVE  input' \in [Sessions -> Seq(Typed)]
  <2>1. <<what, c, Current(c)[2]>> \in Typed
    BY <1>2 DEF Typed
  <2>2. input[home[c]] \in Seq(Typed) /\ home[c] \in Sessions
    BY <1>0
  <2>3. Append(input[home[c]], <<what, c, Current(c)[2]>>) \in Seq(Typed)
    BY <2>1, <2>2, AppendIs
  <2> QED
    BY <2>3, <1>2, <1>0 DEF WriteInput
<1>3. ASSUME NEW c \in Conns, Handled(c), At(c, "key") \/ At(c, "image")
      PROVE  /\ inbox' \in [Conns -> Seq(Messages)]
             /\ pump' \in [Conns -> {"idle", "tool", "owned", "save"}]
             /\ \A d \in Conns : pump'[d] # "idle" => At(d, "image")'
  <2>1. inbox' \in [Conns -> Seq(Messages)]
    BY <1>1, <1>3, <1>0 DEF Handled
  <2> QED
    BY <2>1, <1>3 DEF Handled, At
<1>4. ASSUME NEW c \in Conns, NEW kind \in {"key", "image"}, Send(c, kind)
      PROVE  TypeOK'
  <2>1. sent[c] + 1 \in 1..MaxSent /\ sent' \in [Conns -> 0..MaxSent]
    BY <1>4, <1>0 DEF Send
  <2>2. inbox[c] \in Seq(Messages) /\ <<sent[c] + 1, kind>> \in Messages
    BY <2>1, <1>0 DEF Messages
  <2> DEFINE m == <<sent[c] + 1, kind>>
  <2>6. inbox'[c] = Append(inbox[c], m)
    BY <1>4 DEF Send
  <2>7. inbox[c] \in Seq(Messages) /\ m \in Messages
    BY <2>2
  <2> HIDE DEF m
  <2>3. /\ inbox'[c] \in Seq(Messages)
        /\ inbox[c] # <<>> => inbox'[c] # <<>> /\ Head(inbox'[c]) = Head(inbox[c])
    <3>1. Append(inbox[c], m) \in Seq(Messages)
      BY <2>7, AppendIs, Zenon
    <3>2. ASSUME inbox[c] # <<>>
          PROVE  Append(inbox[c], m) # <<>> /\ Head(Append(inbox[c], m)) = Head(inbox[c])
      BY <2>7, <3>2, HeadStays, Zenon
    <3> QED
      BY <3>1, <3>2, <2>6, Zenon
  <2>4. inbox' \in [Conns -> Seq(Messages)]
    BY <2>3, <1>0, <1>4 DEF Send
  <2>5. \A d \in Conns : pump'[d] # "idle" => At(d, "image")'
    BY <2>3, <1>4 DEF Send, At
  <2> QED
    BY <2>1, <2>4, <2>5, <1>4 DEF Send, Messages
<1>5. ASSUME NEW c \in Conns, Key(c) PROVE TypeOK'
  BY <1>5, <1>1, <1>2, <1>3 DEF Key, Handled, WriteInput, Messages, Typed
<1>6. ASSUME NEW c \in Conns, StartTool(c) PROVE TypeOK'
  BY <1>6 DEF StartTool, Becomes, At
<1>7. ASSUME NEW c \in Conns, TakeClipboard(c) PROVE TypeOK'
  <2>1. At(c, "image") /\ Current(c) \in Images
    BY <1>7, <1>1 DEF TakeClipboard, Becomes
  <2>2. overtaken' \subseteq Images
    BY <1>7 DEF TakeClipboard
  <2> QED
    BY <2>1, <2>2, <1>7 DEF TakeClipboard, Becomes, At
<1>8. ASSUME NEW c \in Conns, ToolFails(c) PROVE TypeOK'
  BY <1>8 DEF ToolFails, Becomes, At
<1>9. ASSUME NEW c \in Conns, CtrlV(c) PROVE TypeOK'
  BY <1>9, <1>1, <1>2, <1>3 DEF CtrlV, Handled, WriteInput, Messages, Typed
<1>10. ASSUME NEW c \in Conns, SaveImageFile(c) PROVE TypeOK'
  <2>1. At(c, "image") /\ Current(c) \in Images
    BY <1>10, <1>1 DEF SaveImageFile
  <2> QED
    BY <2>1, <1>10, <1>1, <1>2, <1>3
    DEF SaveImageFile, Handled, WriteInput, Messages, Typed
<1>11. ASSUME NEW c \in Conns, SaveFails(c) PROVE TypeOK'
  BY <1>11, <1>1, <1>3 DEF SaveFails, Handled, Messages
<1>12. ASSUME NEW c \in Conns, Cut(c) PROVE TypeOK'
  <2>1. <<>> \in Seq(Messages)
    BY EmptySeq
  <2> QED
    BY <2>1, <1>0, <1>12 DEF Cut, At, Messages
<1>13. ASSUME NEW s \in Sessions, Read(s) PROVE TypeOK'
  <2> DEFINE e == Head(input[s])
             i == <<e[2], e[3]>>
  <2>1. input[s] \in Seq(Typed) /\ input[s] # <<>>
    BY <1>13, <1>0 DEF Read
  <2>2. e \in Typed /\ Tail(input[s]) \in Seq(Typed)
    BY <2>1, TailIs
  <2>3. e[2] \in Conns /\ e[3] \in 1..MaxSent /\ i \in Images
    BY <2>2 DEF Typed, Images
  <2>4. input' \in [Sessions -> Seq(Typed)]
    BY <2>2, <1>0, <1>13 DEF Read
  <2>5. seen' \in [Conns -> 0..MaxSent]
    <3>1. seen \in [Conns -> 0..MaxSent] /\ seen' = [seen EXCEPT ![e[2]] = e[3]]
      BY <1>13 DEF Read
    <3>2. e[3] \in 0..MaxSent
      BY <2>3
    <3> HIDE DEF e, TypeOK
    <3> QED
      BY <3>1, <3>2
  <2>6. ReadFile(i) \in Images \cup {None}
    BY <2>3 DEF ReadFile
  <2>7. got' \in [Images -> Images \cup {None}]
    BY <2>6, <2>3, <1>13 DEF Read
  <2> QED
    BY <2>4, <2>5, <2>7, <1>13 DEF Read, At, Typed
<1>14. ASSUME NEW s \in Sessions, Close(s) PROVE TypeOK'
  <2>1. <<>> \in Seq(Typed)
    BY EmptySeq
  <2> QED
    BY <2>1, <1>0, <1>14 DEF Close, At, Typed
<1>15. ASSUME UNCHANGED vars PROVE TypeOK'
  BY <1>15 DEF vars, At
<1> QED
  BY <1>4, <1>5, <1>6, <1>7, <1>8, <1>9, <1>10, <1>11, <1>12, <1>13, <1>14, <1>15
  DEF Next, ReadPump

(* Every variable keeps its type, and readPump has a message at hand while *)
(* a tool runs or a file is saved.                                         *)
THEOREM Typing == Spec => []TypeOK
<1>1. ASSUME Init PROVE TypeOK
  BY <1>1, Bound, EmptySeq DEF Init, TypeOK, disk, tty, At
<1> QED
  BY <1>1, TypesStep, PTL DEF Spec

-----------------------------------------------------------------------------
(* The order of a connection: what the program has read of it comes before *)
(* what is typed and not read, and that before what readPump has not       *)
(* handled; each of the two queues is in the order of sending.             *)
Inboxes ==
  \A c \in Conns : \A k \in 1..Len(inbox[c]) :
    /\ seen[c] < inbox[c][k][1] /\ inbox[c][k][1] <= sent[c]
    /\ \A j \in 1..Len(inbox[c]) : j < k => inbox[c][j][1] < inbox[c][k][1]

(* The entry k of session s, of message n of connection c. *)
Placed(s, k, c, n) ==
  /\ home[c] = s /\ seen[c] < n /\ n <= sent[c]
  /\ \A j \in 1..Len(inbox[c]) : n < inbox[c][j][1]
  /\ \A j \in 1..Len(input[s]) : j < k /\ input[s][j][2] = c => input[s][j][3] < n

Inputs ==
  \A s \in Sessions : \A k \in 1..Len(input[s]) :
    Placed(s, k, input[s][k][2], input[s][k][3])

Ordered == Inboxes /\ Inputs /\ \A c \in Conns : seen[c] <= sent[c]

(* The elements of the queues. *)
LEMMA Elements ==
  ASSUME TypeOK
  PROVE  /\ \A c \in Conns : /\ inbox[c] \in Seq(Messages) /\ Len(inbox[c]) \in Nat
                             /\ sent[c] \in Nat /\ seen[c] \in Nat
                             /\ home[c] \in Sessions
                             /\ \A k \in 1..Len(inbox[c]) : inbox[c][k][1] \in Nat
         /\ \A s \in Sessions : /\ input[s] \in Seq(Typed) /\ Len(input[s]) \in Nat
                                /\ \A k \in 1..Len(input[s]) :
                                     input[s][k][2] \in Conns /\ input[s][k][3] \in Nat
<1>0. 1..MaxSent \subseteq Nat /\ 0..MaxSent \subseteq Nat
  BY Bound
<1>1. ASSUME NEW c \in Conns
      PROVE  /\ inbox[c] \in Seq(Messages) /\ Len(inbox[c]) \in Nat
             /\ sent[c] \in Nat /\ seen[c] \in Nat /\ home[c] \in Sessions
             /\ \A k \in 1..Len(inbox[c]) : inbox[c][k][1] \in Nat
  <2>1. /\ inbox[c] \in Seq(Messages)
        /\ sent[c] \in Nat /\ seen[c] \in Nat /\ home[c] \in Sessions
    BY <1>0 DEF TypeOK, Messages
  <2>2. Len(inbox[c]) \in Nat /\ \A k \in 1..Len(inbox[c]) : inbox[c][k] \in Messages
    BY <2>1, LenProperties, ElementOfSeq
  <2> QED
    BY <2>1, <2>2, <1>0 DEF Messages
<1>2. ASSUME NEW s \in Sessions
      PROVE  /\ input[s] \in Seq(Typed) /\ Len(input[s]) \in Nat
             /\ \A k \in 1..Len(input[s]) :
                  input[s][k][2] \in Conns /\ input[s][k][3] \in Nat
  <2>1. input[s] \in Seq(Typed)
    BY DEF TypeOK, Typed
  <2>2. Len(input[s]) \in Nat /\ \A k \in 1..Len(input[s]) : input[s][k] \in Typed
    BY <2>1, LenProperties, ElementOfSeq
  <2> QED
    BY <2>1, <2>2, <1>0 DEF Typed
<1> QED
  BY <1>1, <1>2

(* A new message is the last of all. *)
LEMMA SendOrdered ==
  ASSUME TypeOK, Ordered, NEW c \in Conns, NEW kind \in {"key", "image"}, Send(c, kind)
  PROVE  Ordered'
<1> DEFINE m == <<sent[c] + 1, kind>>
<1>1. /\ inbox' = [inbox EXCEPT ![c] = Append(@, m)]
      /\ sent' = [sent EXCEPT ![c] = @ + 1]
      /\ UNCHANGED <<home, input, seen>> /\ sent[c] + 1 \in 1..MaxSent
  BY Bound, Elements DEF Send, tty, disk
<1>2. m \in Messages /\ m[1] = sent[c] + 1
  BY <1>1 DEF Messages
<1> HIDE DEF m
<1>3. /\ Len(inbox'[c]) = Len(inbox[c]) + 1
      /\ \A k \in 1..Len(inbox[c]) : inbox'[c][k] = inbox[c][k]
      /\ inbox'[c][Len(inbox[c]) + 1] = m
      /\ \A d \in Conns \ {c} : inbox'[d] = inbox[d]
  <2>1. inbox'[c] = Append(inbox[c], m) /\ \A d \in Conns \ {c} : inbox'[d] = inbox[d]
    BY <1>1 DEF TypeOK
  <2> QED
    BY <2>1, <1>2, Elements, AppendIs
<1>4. \A d \in Conns : sent'[d] = IF d = c THEN sent[d] + 1 ELSE sent[d]
  BY <1>1 DEF TypeOK
<1>5. \A k \in 1..Len(inbox'[c]) :
        /\ k \in 1..Len(inbox[c]) \/ k = Len(inbox[c]) + 1
        /\ k \in 1..Len(inbox[c]) => inbox'[c][k] = inbox[c][k]
        /\ k = Len(inbox[c]) + 1 => inbox'[c][k][1] = sent[c] + 1
  BY <1>2, <1>3, Elements
<1>6. Inboxes'
  <2> SUFFICES ASSUME NEW d \in Conns, NEW k \in 1..Len(inbox'[d])
               PROVE  /\ seen[d] < inbox'[d][k][1] /\ inbox'[d][k][1] <= sent'[d]
                      /\ \A j \in 1..Len(inbox'[d]) :
                           j < k => inbox'[d][j][1] < inbox'[d][k][1]
    BY <1>1 DEF Inboxes
  <2>1. CASE d # c
    BY <2>1, <1>3, <1>4 DEF Ordered, Inboxes
  <2>2. CASE d = c /\ k \in 1..Len(inbox[c])
    <3>1. \A j \in 1..Len(inbox'[c]) : j < k => j \in 1..Len(inbox[c])
      BY <2>2, Elements
    <3>2. /\ seen[c] < inbox[c][k][1] /\ inbox[c][k][1] <= sent[c]
          /\ \A j \in 1..Len(inbox[c]) : j < k => inbox[c][j][1] < inbox[c][k][1]
      BY <2>2 DEF Ordered, Inboxes
    <3>3. /\ inbox'[c][k] = inbox[c][k]
          /\ \A j \in 1..Len(inbox'[c]) : j < k => inbox'[c][j] = inbox[c][j]
      BY <2>2, <3>1, <1>3
    <3>4. sent'[c] = sent[c] + 1 /\ sent[c] \in Nat /\ inbox[c][k][1] \in Nat
      BY <1>4, <2>2, Elements
    <3>5. inbox[c][k][1] <= sent[c] + 1
      BY <3>2, <3>4
    <3> QED
      BY <3>1, <3>2, <3>3, <3>4, <3>5, <2>2
  <2>3. CASE d = c /\ k = Len(inbox[c]) + 1
    <3>1. \A j \in 1..Len(inbox'[c]) : j < k => j \in 1..Len(inbox[c])
      BY <2>3, <1>3, Elements
    <3>2. \A j \in 1..Len(inbox[c]) : inbox[c][j][1] <= sent[c] /\ inbox[c][j][1] \in Nat
      BY Elements DEF Ordered, Inboxes
    <3>3. \A j \in 1..Len(inbox[c]) : inbox'[c][j][1] < sent[c] + 1
      <4> SUFFICES ASSUME NEW j \in 1..Len(inbox[c])
                   PROVE  inbox'[c][j][1] < sent[c] + 1
        OBVIOUS
      <4>1. inbox'[c][j] = inbox[c][j]
        BY <1>3
      <4>2. PICK m1 \in Nat : m1 = inbox[c][j][1]
        BY <3>2
      <4>3. m1 <= sent[c] /\ sent[c] \in Nat
        BY <3>2, <4>2, Elements
      <4>4. m1 < sent[c] + 1
        BY <4>3
      <4> QED
        BY <4>1, <4>2, <4>4
    <3>4. seen[c] < sent[c] + 1
      BY Elements DEF Ordered
    <3>5. inbox'[c][k][1] = sent[c] + 1 /\ sent'[c] = sent[c] + 1 /\ sent[c] \in Nat
      BY <2>3, <1>2, <1>3, <1>4, Elements
    <3> QED
      BY <3>1, <3>3, <3>4, <3>5, <2>3
  <2> QED
    BY <2>1, <2>2, <2>3, <1>5
<1>7. Inputs'
  <2> SUFFICES ASSUME NEW s \in Sessions, NEW k \in 1..Len(input[s])
               PROVE  Placed(s, k, input[s][k][2], input[s][k][3])'
    BY <1>1 DEF Inputs
  <2>1. /\ Placed(s, k, input[s][k][2], input[s][k][3])
        /\ input[s][k][2] \in Conns /\ input[s][k][3] \in Nat
    BY Elements DEF Ordered, Inputs
  <2>2. \A d \in Conns : sent[d] <= sent'[d]
    <3> SUFFICES ASSUME NEW d \in Conns PROVE sent[d] <= sent'[d]
      OBVIOUS
    <3>1. sent[d] \in Nat
      BY Elements
    <3> QED
      BY <3>1, <1>4
  <2>3. \A d \in Conns, n \in Nat :
          n <= sent[d] /\ (\A j \in 1..Len(inbox[d]) : n < inbox[d][j][1])
            => \A j \in 1..Len(inbox'[d]) : n < inbox'[d][j][1]
    <3> SUFFICES ASSUME NEW d \in Conns, NEW n \in Nat, n <= sent[d],
                        \A j \in 1..Len(inbox[d]) : n < inbox[d][j][1],
                        NEW j \in 1..Len(inbox'[d])
                 PROVE  n < inbox'[d][j][1]
      OBVIOUS
    <3>1. CASE d # c
      BY <3>1, <1>3
    <3>2. CASE d = c /\ j \in 1..Len(inbox[c])
      BY <3>2, <1>5
    <3>3. CASE d = c /\ j = Len(inbox[c]) + 1
      <4>1. sent[c] \in Nat /\ inbox'[c][j][1] = sent[c] + 1
        BY <3>3, <1>5, Elements
      <4> QED
        BY <4>1, <3>3
    <3> QED
      BY <3>1, <3>2, <3>3, <1>5
  <2>4. \A d \in Conns : sent[d] \in Nat /\ sent'[d] \in Nat
    BY <1>4, Elements
  <2> DEFINE d == input[s][k][2]
             q == input[s][k][3]
  <2>5. /\ home[d] = s /\ seen[d] < q /\ q <= sent[d]
        /\ \A j \in 1..Len(inbox[d]) : q < inbox[d][j][1]
        /\ \A j \in 1..Len(input[s]) : j < k /\ input[s][j][2] = d => input[s][j][3] < q
    BY <2>1 DEF Placed
  <2>6. d \in Conns /\ q \in Nat
    BY <2>1
  <2> HIDE DEF d, q
  <2>7. q <= sent'[d]
    BY <2>2, <2>4, <2>5, <2>6
  <2>8. \A j \in 1..Len(inbox'[d]) : q < inbox'[d][j][1]
    BY <2>3, <2>5, <2>6
  <2>9. /\ home'[d] = s /\ seen'[d] < q /\ q <= sent'[d]
        /\ \A j \in 1..Len(inbox'[d]) : q < inbox'[d][j][1]
        /\ \A j \in 1..Len(input'[s]) : j < k /\ input'[s][j][2] = d => input'[s][j][3] < q
    BY <2>5, <2>7, <2>8, <1>1
  <2>10. input'[s][k][2] = d /\ input'[s][k][3] = q
    BY <1>1 DEF d, q
  <2> QED
    BY <2>9, <2>10 DEF Placed
<1> QED
  BY <1>1, <1>4, <1>6, <1>7, Elements DEF Ordered

(* The first message leaves the inbox, and may be typed. *)
LEMMA HandledOrdered ==
  ASSUME TypeOK, Ordered, NEW c \in Conns, inbox[c] # <<>>, Handled(c),
         NEW what \in {"key", "ctrlV", "path"},
         WriteInput(c, what, Current(c)[2]) \/ UNCHANGED tty
  PROVE  Ordered'
<1> DEFINE n == Current(c)[2]
           e == <<what, c, n>>
           h == home[c]
<1>1. /\ inbox' = [inbox EXCEPT ![c] = Tail(@)]
      /\ UNCHANGED <<home, sent, seen>>
      /\ \/ input' = input
         \/ input' = [input EXCEPT ![h] = Append(@, e)]
  BY DEF Handled, WriteInput, tty
<1>2. /\ n = inbox[c][1][1] /\ n \in Nat /\ e \in Typed /\ e[2] = c /\ e[3] = n
      /\ Len(inbox[c]) \in Nat \ {0} /\ 1 \in 1..Len(inbox[c])
      /\ Len(inbox'[c]) = Len(inbox[c]) - 1
      /\ \A k \in 1..Len(inbox'[c]) :
           k + 1 \in 1..Len(inbox[c]) /\ inbox'[c][k] = inbox[c][k + 1]
  <2>1. inbox[c] \in Seq(Messages) /\ inbox'[c] = Tail(inbox[c])
    BY <1>1, Elements DEF TypeOK
  <2>2. /\ Head(inbox[c]) \in Messages /\ Head(inbox[c]) = inbox[c][1]
        /\ Len(inbox[c]) \in Nat \ {0} /\ 1 \in 1..Len(inbox[c])
        /\ Len(inbox'[c]) = Len(inbox[c]) - 1
        /\ \A k \in 1..Len(inbox'[c]) :
             k + 1 \in 1..Len(inbox[c]) /\ inbox'[c][k] = inbox[c][k + 1]
    BY <2>1, TailIs
  <2>3. n = inbox[c][1][1] /\ n \in 1..MaxSent
    BY <2>2 DEF Current, Messages
  <2> QED
    BY <2>2, <2>3, Bound DEF Typed
<1>3. \A d \in Conns \ {c} : inbox'[d] = inbox[d]
  BY <1>1 DEF TypeOK
<1> HIDE DEF n, e
<1>4. n <= sent[c] /\ seen[c] < n
  BY <1>2 DEF Ordered, Inboxes
<1>5. \A k \in 1..Len(inbox'[c]) : n < inbox'[c][k][1]
  <2> SUFFICES ASSUME NEW k \in 1..Len(inbox'[c])
               PROVE  n < inbox'[c][k][1]
    OBVIOUS
  <2>1. k + 1 \in 1..Len(inbox[c]) /\ 1 \in 1..Len(inbox[c]) /\ 1 < k + 1
    BY <1>2
  <2>2. inbox[c][1][1] < inbox[c][k + 1][1]
    BY <2>1 DEF Ordered, Inboxes
  <2> QED
    BY <2>2, <1>2
<1>6. Inboxes'
  <2> SUFFICES ASSUME NEW d \in Conns, NEW k \in 1..Len(inbox'[d])
               PROVE  /\ seen[d] < inbox'[d][k][1] /\ inbox'[d][k][1] <= sent[d]
                      /\ \A j \in 1..Len(inbox'[d]) :
                           j < k => inbox'[d][j][1] < inbox'[d][k][1]
    BY <1>1 DEF Inboxes
  <2>1. CASE d # c
    <3>1. inbox'[d] = inbox[d]
      BY <2>1, <1>3
    <3> QED
      BY <3>1 DEF Ordered, Inboxes
  <2>2. CASE d = c
    <3>1. /\ k + 1 \in 1..Len(inbox[c]) /\ inbox'[c][k] = inbox[c][k + 1]
          /\ \A j \in 1..Len(inbox'[c]) :
               /\ j + 1 \in 1..Len(inbox[c]) /\ inbox'[c][j] = inbox[c][j + 1]
               /\ j < k => j + 1 < k + 1
      BY <2>2, <1>2
    <3>2. /\ seen[c] < inbox[c][k + 1][1] /\ inbox[c][k + 1][1] <= sent[c]
          /\ \A j \in 1..Len(inbox[c]) :
               j < k + 1 => inbox[c][j][1] < inbox[c][k + 1][1]
      BY <3>1 DEF Ordered, Inboxes
    <3> QED
      BY <3>1, <3>2, <2>2
  <2> QED
    BY <2>1, <2>2
<1>7. \A s \in Sessions : \A k \in 1..Len(input[s]) :
        LET d == input[s][k][2] IN \A j \in 1..Len(inbox'[d]) : input[s][k][3] < inbox'[d][j][1]
  <2> SUFFICES ASSUME NEW s \in Sessions, NEW k \in 1..Len(input[s]),
                      NEW j \in 1..Len(inbox'[input[s][k][2]])
               PROVE  input[s][k][3] < inbox'[input[s][k][2]][j][1]
    OBVIOUS
  <2>1. /\ input[s][k][2] \in Conns
        /\ \A i \in 1..Len(inbox[input[s][k][2]]) :
             input[s][k][3] < inbox[input[s][k][2]][i][1]
    BY Elements DEF Ordered, Inputs, Placed
  <2>2. CASE input[s][k][2] = c
    <3>1. j + 1 \in 1..Len(inbox[c]) /\ inbox'[c][j] = inbox[c][j + 1]
      BY <2>2, <1>2
    <3> QED
      BY <2>1, <2>2, <3>1
  <2>3. CASE input[s][k][2] # c
    BY <2>1, <2>3, <1>3
  <2> QED
    BY <2>2, <2>3
<1>8. CASE input' = input
  <2>1. Inputs'
    BY <1>1, <1>7, <1>8 DEF Ordered, Inputs, Placed
  <2> QED
    BY <2>1, <1>1, <1>6 DEF Ordered
<1>9. CASE input' = [input EXCEPT ![h] = Append(@, e)]
  <2>1. /\ input'[h] = Append(input[h], e) /\ h \in Sessions
        /\ \A s \in Sessions \ {h} : input'[s] = input[s]
    BY <1>9 DEF TypeOK
  <2>2. /\ Len(input'[h]) = Len(input[h]) + 1 /\ Len(input[h]) \in Nat
        /\ \A k \in 1..Len(input[h]) : input'[h][k] = input[h][k]
        /\ input'[h][Len(input[h]) + 1] = e
    BY <2>1, <1>2, Elements, AppendIs
  <2>3. \A k \in 1..Len(input'[h]) :
          k \in 1..Len(input[h]) \/ k = Len(input[h]) + 1
    BY <2>2
  <2>4. \A k \in 1..Len(input[h]) : input[h][k][2] = c => input[h][k][3] < n
    <3>1. 1 \in 1..Len(inbox[c]) /\ n = inbox[c][1][1]
      BY <1>2
    <3>2. \A k \in 1..Len(input[h]) :
            \A j \in 1..Len(inbox[input[h][k][2]]) :
              input[h][k][3] < inbox[input[h][k][2]][j][1]
      BY <2>1 DEF Ordered, Inputs, Placed
    <3> HIDE DEF h, n
    <3> QED
      BY <3>1, <3>2
  <2>5. Inputs'
    <3> SUFFICES ASSUME NEW s \in Sessions, NEW k \in 1..Len(input'[s])
                 PROVE  Placed(s, k, input[s][k][2], input[s][k][3])'
      BY DEF Inputs
    <3>1. CASE s # h
      <4>1. input'[s] = input[s]
        BY <2>1, <3>1
      <4> QED
        BY <4>1, <1>1, <1>7 DEF Ordered, Inputs, Placed
    <3>2. CASE s = h /\ k \in 1..Len(input[h])
      <4>1. \A j \in 1..Len(input'[h]) : j < k => j \in 1..Len(input[h])
        BY <3>2, <2>2
      <4>2. input'[h][k] = input[h][k] /\ \A j \in 1..Len(input'[h]) : j < k => input'[h][j] = input[h][j]
        BY <4>1, <2>2, <3>2
      <4> DEFINE d == input[h][k][2]
                 q == input[h][k][3]
      <4>3. /\ home[d] = h /\ seen[d] < q /\ q <= sent[d]
            /\ \A j \in 1..Len(input[h]) : j < k /\ input[h][j][2] = d => input[h][j][3] < q
        BY <2>1, <3>2 DEF Ordered, Inputs, Placed
      <4>4. \A j \in 1..Len(inbox'[d]) : q < inbox'[d][j][1]
        BY <1>7, <2>1, <3>2
      <4>5. input'[h][k][2] = d /\ input'[h][k][3] = q
        BY <4>2
      <4> HIDE DEF d, q
      <4>6. \A j \in 1..Len(input'[h]) :
              j < k /\ input'[h][j][2] = d => input'[h][j][3] < q
        BY <4>1, <4>2, <4>3
      <4>7. home'[d] = h /\ seen'[d] < q /\ q <= sent'[d]
        BY <4>3, <1>1
      <4> QED
        BY <4>4, <4>5, <4>6, <4>7, <3>2 DEF Placed
    <3>3. CASE s = h /\ k = Len(input[h]) + 1
      <4>1. \A j \in 1..Len(input'[h]) : j < k => j \in 1..Len(input[h])
        BY <3>3, <2>2
      <4>2. input'[h][k][2] = c /\ input'[h][k][3] = n
        BY <3>3, <2>2, <1>2
      <4>4. \A j \in 1..Len(input'[h]) :
              j < k /\ input'[h][j][2] = c => input'[h][j][3] < n
        BY <4>1, <2>2, <2>4
      <4>3. home'[c] = h /\ seen'[c] < n /\ n <= sent'[c]
        BY <1>1, <1>4
      <4> QED
        BY <4>2, <4>3, <4>4, <1>5, <3>3 DEF Placed
    <3> QED
      BY <3>1, <3>2, <3>3, <2>3
  <2> QED
    BY <2>5, <1>1, <1>6 DEF Ordered
<1> QED
  BY <1>1, <1>8, <1>9

(* The program reads the first entry: it is seen from then on. *)
LEMMA ReadOrdered ==
  ASSUME TypeOK, Ordered, NEW s \in Sessions, Read(s)
  PROVE  Ordered' /\ \A c \in Conns : seen'[c] >= seen[c]
<1> DEFINE c == input[s][1][2]
           n == input[s][1][3]
<1>1. /\ UNCHANGED <<home, sent, inbox>> /\ input[s] # <<>>
      /\ input' = [input EXCEPT ![s] = Tail(@)]
      /\ seen' = [seen EXCEPT ![c] = n]
  <2>1. Head(input[s]) = input[s][1] /\ input[s] # <<>>
    BY TailIs, Elements DEF Read
  <2> QED
    BY <2>1 DEF Read
<1>2. /\ Len(input[s]) \in Nat \ {0} /\ 1 \in 1..Len(input[s])
      /\ Len(input'[s]) = Len(input[s]) - 1
      /\ \A k \in 1..Len(input'[s]) :
           k + 1 \in 1..Len(input[s]) /\ input'[s][k] = input[s][k + 1]
  <2>1. input[s] \in Seq(Typed) /\ input'[s] = Tail(input[s])
    BY <1>1, Elements DEF TypeOK
  <2> QED
    BY <2>1, <1>1, TailIs
<1>3. \A r \in Sessions \ {s} : input'[r] = input[r]
  BY <1>1 DEF TypeOK
<1>4. Placed(s, 1, c, n) /\ c \in Conns /\ n \in Nat
  BY <1>2, Elements DEF Ordered, Inputs
<1> HIDE DEF c, n
<1>5. \A d \in Conns : seen'[d] = IF d = c THEN n ELSE seen[d]
  BY <1>1 DEF TypeOK
<1>6. /\ home[c] = s /\ seen[c] < n /\ n <= sent[c]
      /\ \A j \in 1..Len(inbox[c]) : n < inbox[c][j][1]
  BY <1>4 DEF Placed
<1>7. Inboxes'
  <2> SUFFICES ASSUME NEW d \in Conns, NEW k \in 1..Len(inbox[d])
               PROVE  /\ seen'[d] < inbox[d][k][1] /\ inbox[d][k][1] <= sent[d]
                      /\ \A j \in 1..Len(inbox[d]) :
                           j < k => inbox[d][j][1] < inbox[d][k][1]
    BY <1>1 DEF Inboxes
  <2> QED
    BY <1>5, <1>6 DEF Ordered, Inboxes
<1>8. Inputs'
  <2> SUFFICES ASSUME NEW r \in Sessions, NEW k \in 1..Len(input'[r])
               PROVE  Placed(r, k, input[r][k][2], input[r][k][3])'
    BY DEF Inputs
  <2>1. CASE r # s
    <3> DEFINE d == input[r][k][2]
               q == input[r][k][3]
    <3>1. input'[r] = input[r] /\ k \in 1..Len(input[r])
      BY <2>1, <1>3
    <3>2. /\ home[d] = r /\ seen[d] < q /\ q <= sent[d]
          /\ \A j \in 1..Len(inbox[d]) : q < inbox[d][j][1]
          /\ \A j \in 1..Len(input[r]) : j < k /\ input[r][j][2] = d => input[r][j][3] < q
      BY <3>1 DEF Ordered, Inputs, Placed
    <3>3. d \in Conns /\ d # c
      BY <3>1, <3>2, <1>6, <2>1, Elements
    <3>4. input'[r][k][2] = d /\ input'[r][k][3] = q /\ seen'[d] = seen[d]
      BY <3>1, <3>3, <1>5
    <3> HIDE DEF d, q
    <3> QED
      BY <3>1, <3>2, <3>4, <1>1 DEF Placed
  <2>2. CASE r = s
    <3> DEFINE d == input[s][k + 1][2]
               q == input[s][k + 1][3]
    <3>1. /\ k + 1 \in 1..Len(input[s]) /\ input'[s][k] = input[s][k + 1]
          /\ 1 < k + 1
      BY <2>2, <1>2
    <3>2. /\ home[d] = s /\ seen[d] < q /\ q <= sent[d]
          /\ \A j \in 1..Len(inbox[d]) : q < inbox[d][j][1]
          /\ \A j \in 1..Len(input[s]) :
               j < k + 1 /\ input[s][j][2] = d => input[s][j][3] < q
      BY <3>1 DEF Ordered, Inputs, Placed
    <3>3. d \in Conns /\ q \in Nat
      BY <3>1, Elements
    <3>4. input'[s][k][2] = d /\ input'[s][k][3] = q
      BY <3>1
    <3>5. c = d => n < q
      BY <3>1, <3>2, <1>2 DEF c, n
    <3> HIDE DEF d, q
    <3>6. seen'[d] < q
      BY <3>2, <3>3, <3>5, <1>5
    <3>7. \A j \in 1..Len(input'[s]) : j < k /\ input'[s][j][2] = d => input'[s][j][3] < q
      <4> SUFFICES ASSUME NEW j \in 1..Len(input'[s]), j < k, input'[s][j][2] = d
                   PROVE  input'[s][j][3] < q
        OBVIOUS
      <4>1. j + 1 \in 1..Len(input[s]) /\ input'[s][j] = input[s][j + 1] /\ j + 1 < k + 1
        BY <1>2, <2>2
      <4> QED
        BY <4>1, <3>2
    <3> QED
      BY <3>2, <3>4, <3>6, <3>7, <2>2, <1>1 DEF Placed
  <2> QED
    BY <2>1, <2>2
<1>9. \A d \in Conns : seen'[d] <= sent'[d] /\ seen'[d] >= seen[d]
  BY <1>1, <1>4, <1>5, <1>6, Elements DEF Ordered
<1> QED
  BY <1>7, <1>8, <1>9 DEF Ordered

LEMMA OrderedStep ==
  ASSUME TypeOK, Ordered, [Next]_vars
  PROVE  Ordered' /\ \A c \in Conns : seen'[c] >= seen[c]
<1>1. ASSUME NEW c \in Conns, Key(c) \/ CtrlV(c) \/ SaveImageFile(c) \/ SaveFails(c)
      PROVE  Ordered' /\ UNCHANGED seen
  <2>1. At(c, "key") \/ At(c, "image")
    BY <1>1 DEF TypeOK, Key, CtrlV, SaveImageFile, SaveFails
  <2>2. inbox[c] # <<>> /\ Handled(c)
    BY <2>1, <1>1 DEF At, Key, CtrlV, SaveImageFile, SaveFails
  <2>3. \/ \E what \in {"key", "ctrlV", "path"} : WriteInput(c, what, Current(c)[2])
        \/ UNCHANGED tty
    BY <1>1 DEF Key, CtrlV, SaveImageFile, SaveFails
  <2>4. UNCHANGED seen
    BY <2>3 DEF WriteInput, tty
  <2>5. Ordered'
    BY <2>2, <2>3, HandledOrdered
  <2> QED
    BY <2>4, <2>5
<1>2. ASSUME UNCHANGED <<home, sent, inbox, input, seen>>
      PROVE  Ordered' /\ UNCHANGED seen
  BY <1>2 DEF Ordered, Inboxes, Inputs, Placed
<1>3. ASSUME NEW c \in Conns, NEW kind \in {"key", "image"}, Send(c, kind)
      PROVE  Ordered' /\ UNCHANGED seen
  <2>1. UNCHANGED seen
    BY <1>3 DEF Send, tty
  <2> QED
    BY <2>1, <1>3, SendOrdered
<1>4. ASSUME NEW c \in Conns, StartTool(c) \/ TakeClipboard(c) \/ ToolFails(c)
      PROVE  Ordered' /\ UNCHANGED seen
  <2>1. UNCHANGED <<home, sent, inbox, input, seen>>
    BY <1>4 DEF StartTool, TakeClipboard, ToolFails, Becomes, tty
  <2> QED
    BY <2>1, <1>2
<1>5. ASSUME NEW c \in Conns, Cut(c)
      PROVE  Ordered' /\ UNCHANGED seen
  <2>1. /\ UNCHANGED <<home, sent, input, seen>>
        /\ \A d \in Conns : inbox'[d] = inbox[d] \/ inbox'[d] = <<>>
    BY <1>5 DEF Cut, tty, TypeOK
  <2>2. Len(<<>>) = 0
    BY EmptySeq
  <2>3. \A d \in Conns : \A k \in 1..Len(inbox'[d]) :
          inbox'[d] = inbox[d] /\ k \in 1..Len(inbox[d])
    BY <2>1, <2>2
  <2>4. Inboxes'
    BY <2>1, <2>3 DEF Ordered, Inboxes
  <2>5. Inputs'
    <3> SUFFICES ASSUME NEW s \in Sessions, NEW k \in 1..Len(input[s])
                 PROVE  Placed(s, k, input[s][k][2], input[s][k][3])'
      BY <2>1 DEF Inputs
    <3>1. Placed(s, k, input[s][k][2], input[s][k][3]) /\ input[s][k][2] \in Conns
      BY Elements DEF Ordered, Inputs
    <3> QED
      BY <3>1, <2>1, <2>3 DEF Placed
  <2> QED
    BY <2>1, <2>4, <2>5 DEF Ordered
<1>6. ASSUME NEW s \in Sessions, Close(s)
      PROVE  Ordered' /\ UNCHANGED seen
  <2>1. /\ UNCHANGED <<home, sent, inbox, seen>>
        /\ \A r \in Sessions : input'[r] = input[r] \/ input'[r] = <<>>
    BY <1>6 DEF Close, TypeOK
  <2>2. Len(<<>>) = 0
    BY EmptySeq
  <2>3. \A r \in Sessions : \A k \in 1..Len(input'[r]) :
          input'[r] = input[r] /\ k \in 1..Len(input[r])
    BY <2>1, <2>2
  <2>4. Inputs'
    <3> SUFFICES ASSUME NEW r \in Sessions, NEW k \in 1..Len(input'[r])
                 PROVE  Placed(r, k, input[r][k][2], input[r][k][3])'
      BY DEF Inputs
    <3>1. input'[r] = input[r] /\ k \in 1..Len(input[r])
      BY <2>3
    <3>2. Placed(r, k, input[r][k][2], input[r][k][3])
      BY <3>1 DEF Ordered, Inputs
    <3> QED
      BY <3>1, <3>2, <2>1 DEF Placed
  <2> QED
    BY <2>1, <2>4 DEF Ordered, Inboxes
<1>7. ASSUME UNCHANGED seen PROVE \A c \in Conns : seen'[c] >= seen[c]
  BY <1>7, Elements
<1> QED
  BY <1>1, <1>2, <1>3, <1>4, <1>5, <1>6, <1>7, ReadOrdered DEF Next, ReadPump, vars, tty

(* Inboxes and inputs are in the order of sending, and behind one another. *)
LEMMA Queues == Spec => [](TypeOK /\ Ordered)
<1>1. ASSUME Init PROVE Ordered
  <2>1. \A c \in Conns : inbox[c] = <<>> /\ seen[c] = 0 /\ sent[c] = 0
    BY <1>1 DEF Init
  <2>2. \A s \in Sessions : input[s] = <<>>
    BY <1>1 DEF Init
  <2>3. Len(<<>>) = 0
    BY EmptySeq
  <2> QED
    BY <2>1, <2>2, <2>3 DEF Ordered, Inboxes, Inputs
<1>2. TypeOK /\ Ordered /\ [Next]_vars => Ordered'
  BY OrderedStep
<1> QED
  BY <1>1, <1>2, Typing, PTL DEF Spec

(* What is typed and pasted on one connection reaches the program in the   *)
(* order in which it was sent.                                             *)
THEOREM OrderOfInput == Spec => InOrder
<1>1. TypeOK /\ Ordered /\ [Next]_vars => [\A c \in Conns : seen'[c] >= seen[c]]_vars
  BY OrderedStep
<1> QED
  BY <1>1, Queues, PTL DEF Spec, InOrder

-----------------------------------------------------------------------------
(* The clipboard holds the image, or another has replaced it, from the     *)
(* time at which the tool has taken the clipboard for it until the program *)
(* has read the Ctrl+V.                                                    *)
Pasted(i) == i = clipboard \/ i \in overtaken

Owned == \A c \in Conns : pump[c] = "owned" => Pasted(Current(c))

ToPaste ==
  \A s \in Sessions : \A k \in 1..Len(input[s]) :
    input[s][k][1] = "ctrlV" => Pasted(<<input[s][k][2], input[s][k][3]>>)

Taken == \A i \in Images : got[i] \in {i, None} \/ i \in overtaken

ClipboardInv == Owned /\ ToPaste /\ Taken

LEMMA ClipboardFrame ==
  ASSUME ClipboardInv, UNCHANGED <<clipboard, overtaken, pump, inbox, got>>,
         \A s \in Sessions : input'[s] \in {input[s], <<>>}
  PROVE  ClipboardInv'
<1>1. Len(<<>>) = 0
  BY EmptySeq
<1>2. \A s \in Sessions : \A k \in 1..Len(input'[s]) :
        input'[s] = input[s] /\ k \in 1..Len(input[s])
  BY <1>1
<1>3. ToPaste'
  BY <1>2 DEF ClipboardInv, ToPaste, Pasted
<1> QED
  BY <1>3 DEF ClipboardInv, Owned, Taken, Pasted, Current

(* A new entry is pasted when it is a Ctrl+V. *)
LEMMA ClipboardTyped ==
  ASSUME TypeOK, ClipboardInv, NEW c \in Conns, Handled(c),
         At(c, "key") \/ At(c, "image"),
         NEW what \in {"key", "ctrlV", "path"}, UNCHANGED <<clipboard, overtaken>>,
         what = "ctrlV" => pump[c] = "owned",
         WriteInput(c, what, Current(c)[2]) \/ UNCHANGED tty
  PROVE  ClipboardInv'
<1> DEFINE i == Current(c)
           e == <<what, c, i[2]>>
           h == home[c]
<1>1. /\ i[1] = c /\ i[2] \in 1..MaxSent /\ i = <<c, i[2]>> /\ e \in Typed
  <2>1. inbox[c] \in Seq(Messages) /\ inbox[c] # <<>>
    BY Elements DEF At
  <2>2. Head(inbox[c]) \in Messages
    BY <2>1, TailIs
  <2> QED
    BY <2>2 DEF Current, Messages, Typed
<1>2. what = "ctrlV" => Pasted(<<c, i[2]>>)
  BY <1>1 DEF ClipboardInv, Owned
<1>3. /\ e[1] = what /\ e[2] = c /\ e[3] = i[2]
      /\ input' = input \/ input' = [input EXCEPT ![h] = Append(@, e)]
      /\ UNCHANGED got
  BY DEF WriteInput, tty
<1> HIDE DEF i, e
<1>4. ToPaste'
  <2>1. CASE input' = input
    BY <2>1 DEF ClipboardInv, ToPaste, Pasted
  <2>2. CASE input' = [input EXCEPT ![h] = Append(@, e)]
    <3>1. /\ input'[h] = Append(input[h], e) /\ h \in Sessions
          /\ \A s \in Sessions \ {h} : input'[s] = input[s]
      BY <2>2 DEF TypeOK
    <3>2. /\ Len(input'[h]) = Len(input[h]) + 1 /\ Len(input[h]) \in Nat
          /\ \A k \in 1..Len(input[h]) : input'[h][k] = input[h][k]
          /\ input'[h][Len(input[h]) + 1] = e
      BY <3>1, <1>1, Elements, AppendIs
    <3>3. \A k \in 1..Len(input'[h]) :
            k \in 1..Len(input[h]) \/ k = Len(input[h]) + 1
      BY <3>2
    <3>4. \A k \in 1..Len(input'[h]) :
            input'[h][k][1] = "ctrlV" => Pasted(<<input'[h][k][2], input'[h][k][3]>>)
      BY <3>1, <3>2, <3>3, <1>2, <1>3 DEF ClipboardInv, ToPaste
    <3> QED
      BY <3>1, <3>4 DEF ClipboardInv, ToPaste, Pasted
  <2> QED
    BY <2>1, <2>2, <1>3
<1>5. Owned'
  <2>1. \A d \in Conns : pump'[d] = "owned" =>
          d # c /\ pump[d] = "owned" /\ inbox'[d] = inbox[d]
    BY DEF Handled, TypeOK
  <2> QED
    BY <2>1 DEF ClipboardInv, Owned, Pasted, Current
<1>6. Taken'
  BY <1>3 DEF ClipboardInv, Taken
<1> QED
  BY <1>4, <1>5, <1>6 DEF ClipboardInv

LEMMA ClipboardStep ==
  ASSUME TypeOK, ClipboardInv, [Next]_vars
  PROVE  ClipboardInv'
<1>1. ASSUME NEW c \in Conns, Key(c) \/ SaveImageFile(c) \/ SaveFails(c) \/ CtrlV(c)
      PROVE  ClipboardInv'
  <2>1. At(c, "key") \/ At(c, "image")
    BY <1>1 DEF TypeOK, Key, CtrlV, SaveImageFile, SaveFails
  <2>2. Handled(c) /\ UNCHANGED <<clipboard, overtaken>>
    BY <1>1 DEF Key, CtrlV, SaveImageFile, SaveFails, disk
  <2>3. \E what \in {"key", "ctrlV", "path"} :
          /\ what = "ctrlV" => pump[c] = "owned"
          /\ WriteInput(c, what, Current(c)[2]) \/ UNCHANGED tty
    BY <1>1 DEF Key, CtrlV, SaveImageFile, SaveFails
  <2> QED
    BY <2>1, <2>2, <2>3, ClipboardTyped
<1>2. ASSUME NEW c \in Conns, NEW kind \in {"key", "image"}, Send(c, kind)
      PROVE  ClipboardInv'
  <2> DEFINE m == <<sent[c] + 1, kind>>
  <2>1. /\ inbox' = [inbox EXCEPT ![c] = Append(@, m)]
        /\ UNCHANGED <<clipboard, overtaken, pump, input, got>>
        /\ sent[c] + 1 \in 1..MaxSent
    BY <1>2, Bound, Elements DEF Send, disk, tty
  <2>2. m \in Messages
    BY <2>1 DEF Messages
  <2> HIDE DEF m
  <2>3. \A d \in Conns : pump[d] = "owned" =>
          /\ inbox[d] \in Seq(Messages) /\ inbox[d] # <<>>
          /\ inbox'[d] = inbox[d] \/ inbox'[d] = Append(inbox[d], m)
    BY <2>1, Elements DEF TypeOK, At
  <2>4. \A d \in Conns : pump[d] = "owned" => Head(inbox'[d]) = Head(inbox[d])
    BY <2>2, <2>3, HeadStays, Zenon
  <2> QED
    BY <2>1, <2>4 DEF ClipboardInv, Owned, ToPaste, Taken, Pasted, Current
<1>3. ASSUME NEW c \in Conns, StartTool(c) \/ ToolFails(c)
      PROVE  ClipboardInv'
  <2>1. /\ UNCHANGED <<clipboard, overtaken, inbox, input, got>>
        /\ \A d \in Conns : pump'[d] = "owned" => pump[d] = "owned"
    BY <1>3 DEF StartTool, ToolFails, Becomes, disk, tty, TypeOK
  <2> QED
    BY <2>1 DEF ClipboardInv, Owned, ToPaste, Taken, Pasted, Current
<1>4. ASSUME NEW c \in Conns, TakeClipboard(c)
      PROVE  ClipboardInv'
  <2>1. /\ clipboard' = Current(c) /\ UNCHANGED <<inbox, input, got>>
        /\ overtaken' = overtaken \cup ({clipboard} \ {None})
        /\ \A d \in Conns : pump'[d] = "owned" => d = c \/ pump[d] = "owned"
    BY <1>4 DEF TakeClipboard, Becomes, tty, TypeOK
  <2>2. \A i \in Images : Pasted(i) => i \in overtaken'
    BY <2>1, Bound DEF Pasted
  <2>3. \A d \in Conns : pump[d] = "owned" => Current(d) \in Images
    <3> SUFFICES ASSUME NEW d \in Conns, pump[d] = "owned"
                 PROVE  Current(d) \in Images
      OBVIOUS
    <3>1. inbox[d] \in Seq(Messages) /\ inbox[d] # <<>>
      BY Elements DEF TypeOK, At
    <3>2. Head(inbox[d]) \in Messages
      BY <3>1, TailIs
    <3> QED
      BY <3>2 DEF Current, Messages, Images
  <2>4. Owned'
    BY <2>1, <2>2, <2>3 DEF ClipboardInv, Owned, Pasted, Current
  <2>5. \A s \in Sessions : \A k \in 1..Len(input[s]) :
          <<input[s][k][2], input[s][k][3]>> \in Images
    <3> SUFFICES ASSUME NEW s \in Sessions, NEW k \in 1..Len(input[s])
                 PROVE  <<input[s][k][2], input[s][k][3]>> \in Images
      OBVIOUS
    <3>1. input[s][k] \in Typed
      BY Elements, ElementOfSeq
    <3> QED
      BY <3>1 DEF Typed, Images
  <2>6. ToPaste'
    BY <2>1, <2>2, <2>5 DEF ClipboardInv, ToPaste, Pasted
  <2>7. Taken'
    BY <2>1 DEF ClipboardInv, Taken
  <2> QED
    BY <2>4, <2>6, <2>7 DEF ClipboardInv
<1>5. ASSUME NEW c \in Conns, Cut(c)
      PROVE  ClipboardInv'
  <2>1. /\ UNCHANGED <<clipboard, overtaken, pump, input, got>>
        /\ \A d \in Conns : pump[d] = "owned" => inbox'[d] = inbox[d]
    BY <1>5 DEF Cut, disk, tty, TypeOK
  <2> QED
    BY <2>1 DEF ClipboardInv, Owned, ToPaste, Taken, Pasted, Current
<1>6. ASSUME NEW s \in Sessions, Read(s)
      PROVE  ClipboardInv'
  <2> DEFINE e == input[s][1]
             i == <<e[2], e[3]>>
  <2>1. input[s] \in Seq(Typed) /\ input[s] # <<>>
    BY <1>6, Elements DEF Read
  <2>2. /\ Head(input[s]) = e /\ e \in Typed /\ 1 \in 1..Len(input[s])
        /\ Len(input[s]) \in Nat /\ Tail(input[s]) \in Seq(Typed)
        /\ \A k \in 1..Len(Tail(input[s])) :
             k + 1 \in 1..Len(input[s]) /\ Tail(input[s])[k] = input[s][k + 1]
    BY <2>1, TailIs
  <2>3. /\ UNCHANGED <<clipboard, overtaken, pump, inbox>>
        /\ input'[s] = Tail(input[s])
        /\ \A r \in Sessions \ {s} : input'[r] = input[r]
        /\ \A j \in Images : got'[j] # got[j] => j = i
        /\ e[1] = "ctrlV" => got'[i] = clipboard
        /\ e[1] = "path" => got'[i] \in {i, None}
        /\ e[1] = "key" => got' = got
    BY <1>6, <2>2 DEF Read, disk, TypeOK, ReadFile, Typed, Images
  <2>4. ToPaste'
    <3> SUFFICES ASSUME NEW r \in Sessions, NEW k \in 1..Len(input'[r]),
                        input'[r][k][1] = "ctrlV"
                 PROVE  Pasted(<<input'[r][k][2], input'[r][k][3]>>)
      BY <2>3 DEF ToPaste, Pasted
    <3>1. CASE r = s
      <4>1. k + 1 \in 1..Len(input[s]) /\ input'[r][k] = input[s][k + 1]
        BY <3>1, <2>2, <2>3
      <4> QED
        BY <4>1 DEF ClipboardInv, ToPaste
    <3>2. CASE r # s
      BY <3>2, <2>3 DEF ClipboardInv, ToPaste
    <3> QED
      BY <3>1, <3>2
  <2>5. Owned'
    BY <2>3 DEF ClipboardInv, Owned, Pasted, Current
  <2>6. e[1] = "ctrlV" => Pasted(i)
    BY <2>2 DEF ClipboardInv, ToPaste
  <2>7. e[1] \in {"key", "ctrlV", "path"}
    BY <2>2 DEF Typed
  <2>8. Taken'
    BY <2>3, <2>6, <2>7 DEF ClipboardInv, Taken, Pasted
  <2> QED
    BY <2>4, <2>5, <2>8 DEF ClipboardInv
<1>7. ASSUME NEW s \in Sessions, Close(s)
      PROVE  ClipboardInv'
  <2>1. /\ UNCHANGED <<clipboard, overtaken, pump, inbox, got>>
        /\ \A r \in Sessions : input'[r] \in {input[r], <<>>}
    BY <1>7 DEF Close, disk, TypeOK
  <2> QED
    BY <2>1, ClipboardFrame
<1>8. ASSUME UNCHANGED vars PROVE ClipboardInv'
  BY <1>8, ClipboardFrame DEF vars, disk, tty
<1> QED
  BY <1>1, <1>2, <1>3, <1>4, <1>5, <1>6, <1>7, <1>8 DEF Next, ReadPump

(* The image that a program takes is the one that was pasted for it, or    *)
(* that one has been replaced by a later paste.                            *)
THEOREM NoOldImage == Spec => []OwnImage
<1>1. ASSUME Init PROVE ClipboardInv
  <2>1. Len(<<>>) = 0
    BY EmptySeq
  <2> QED
    BY <2>1, <1>1 DEF Init, ClipboardInv, Owned, ToPaste, Taken
<1>2. TypeOK /\ ClipboardInv /\ [Next]_vars => ClipboardInv'
  BY ClipboardStep
<1>3. TypeOK /\ ClipboardInv => OwnImage
  BY DEF ClipboardInv, Taken, OwnImage
<1> QED
  BY <1>1, <1>2, <1>3, Typing, PTL DEF Spec

=============================================================================
