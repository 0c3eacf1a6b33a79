------------------------- MODULE OutputStreamProofs -------------------------
(***************************************************************************)
(* Theorems about OutputStream, for any connections, any capacity of their *)
(* channels and any number of chunks.                                      *)
(***************************************************************************)
EXTENDS OutputStream, FiniteSetTheorems, SequenceTheorems, TLAPS

LEMMA Bounds == Capacity \in Nat \ {0} /\ MaxChunks \in Nat /\ Chunks \subseteq Nat \ {0}
BY StreamAssumption DEF Chunks

LEMMA Loop ==
  Then("read") = "file" /\ Then("file") = "send" /\ Then("send") = "read"
BY DEF Then

-----------------------------------------------------------------------------
(* Sequences, and how many elements they have.                             *)

LEMMA RangeElements ==
  ASSUME NEW S, NEW s \in Seq(S)
  PROVE  Range(s) = {s[i] : i \in 1..Len(s)} /\ DOMAIN s = 1..Len(s)
BY RangeEquality, LenProperties

(* A sequence has at most as many elements as places, and as many when it  *)
(* is increasing.                                                          *)
LEMMA RangeSize ==
  ASSUME NEW s \in Seq(Nat)
  PROVE  /\ IsFiniteSet(Range(s)) /\ Cardinality(Range(s)) \in Nat
         /\ Cardinality(Range(s)) <= Len(s)
         /\ IsIncreasing(s) => Cardinality(Range(s)) = Len(s)
<1>1. Len(s) \in Nat /\ s \in [1..Len(s) -> Nat] /\ Range(s) = {s[i] : i \in 1..Len(s)}
  BY LenProperties, RangeElements
<1>2. IsFiniteSet(1..Len(s)) /\ Cardinality(1..Len(s)) = Len(s)
  <2>1. Len(s) \in Int /\ 1 \in Int
    BY <1>1
  <2>2. Cardinality(1..Len(s)) = IF 1 > Len(s) THEN 0 ELSE Len(s) - 1 + 1
    BY <2>1, FS_Interval, Zenon
  <2>3. IsFiniteSet(1..Len(s))
    BY <2>1, FS_Interval, Zenon
  <2> QED
    BY <1>1, <2>2, <2>3
<1>3. s \in Surjection(1..Len(s), Range(s))
  BY <1>1 DEF Surjection
<1>4. IsIncreasing(s) => s \in Injection(1..Len(s), Range(s))
  <2>1. ASSUME IsIncreasing(s), NEW i \in 1..Len(s), NEW j \in 1..Len(s), s[i] = s[j]
        PROVE  i = j
    BY <1>1, <2>1 DEF IsIncreasing
  <2> QED
    BY <1>1, <1>3, <2>1 DEF Injection, IsInjective, Surjection
<1> QED
  BY <1>2, <1>3, <1>4, FS_Surjection, FS_CardinalityType

LEMMA AppendElements ==
  ASSUME NEW s \in Seq(Chunks), NEW x \in Chunks
  PROVE  /\ Append(s, x) \in Seq(Chunks) /\ Len(Append(s, x)) = Len(s) + 1
         /\ \A i \in 1..Len(s) : Append(s, x)[i] = s[i]
         /\ Append(s, x)[Len(s) + 1] = x
         /\ Range(Append(s, x)) = Range(s) \cup {x}
<1>1. /\ Append(s, x) \in Seq(Chunks) /\ Len(Append(s, x)) = Len(s) + 1
      /\ \A i \in 1..Len(s) : Append(s, x)[i] = s[i]
      /\ Append(s, x)[Len(s) + 1] = x
  BY AppendProperties
<1>2. Len(s) \in Nat
  BY LenProperties
<1>3. Range(s) = {s[i] : i \in 1..Len(s)}
  BY RangeElements
<1>4. Range(Append(s, x)) = {Append(s, x)[i] : i \in 1..Len(s) + 1}
  BY <1>1, RangeElements
<1>5. 1..Len(s) + 1 = 1..Len(s) \cup {Len(s) + 1}
  BY <1>2
<1> QED
  BY <1>1, <1>3, <1>4, <1>5

LEMMA AppendIncreasing ==
  ASSUME NEW s \in Seq(Chunks), NEW x \in Chunks,
         IsIncreasing(s), \A i \in DOMAIN s : s[i] < x
  PROVE  IsIncreasing(Append(s, x))
<1>1. Len(s) \in Nat /\ DOMAIN s = 1..Len(s) /\ DOMAIN Append(s, x) = 1..(Len(s) + 1)
  BY AppendElements, RangeElements
<1> QED
  BY <1>1, AppendElements, Bounds DEF IsIncreasing

LEMMA TailElements ==
  ASSUME NEW s \in Seq(Chunks), s # <<>>
  PROVE  /\ Tail(s) \in Seq(Chunks) /\ Head(s) = s[1] /\ Head(s) \in Chunks
         /\ Len(s) \in Nat \ {0} /\ Len(Tail(s)) = Len(s) - 1
         /\ \A i \in 1..Len(s) - 1 : Tail(s)[i] = s[i + 1]
         /\ Range(Tail(s)) \subseteq Range(s)
<1>1. /\ Tail(s) \in Seq(Chunks) /\ Head(s) = s[1] /\ Head(s) \in Chunks
      /\ Len(s) \in Nat \ {0} /\ Len(Tail(s)) = Len(s) - 1
      /\ \A i \in 1..Len(s) - 1 : Tail(s)[i] = s[i + 1]
  BY HeadTailProperties, EmptySeq, LenProperties
<1>2. Range(s) = {s[i] : i \in 1..Len(s)}
  BY RangeElements
<1>3. Range(Tail(s)) = {Tail(s)[i] : i \in 1..Len(s) - 1}
  BY <1>1, RangeElements
<1> QED
  BY <1>1, <1>2, <1>3

(* What is left of s without its first r elements, and then t.             *)
LEMMA RestThen ==
  \A s, t \in Seq(Chunks), r \in Nat : r <= Len(s) =>
    LET u == SubSeq(s, r + 1, Len(s)) \o t
    IN  /\ u \in Seq(Chunks) /\ Len(u) = Len(s) - r + Len(t)
        /\ \A i \in 1..Len(s) - r : u[i] = s[i + r]
        /\ \A i \in 1..Len(t) : u[Len(s) - r + i] = t[i]
<1> SUFFICES
      ASSUME NEW s \in Seq(Chunks), NEW t \in Seq(Chunks), NEW r \in Nat, r <= Len(s)
      PROVE  LET u == SubSeq(s, r + 1, Len(s)) \o t
             IN  /\ u \in Seq(Chunks) /\ Len(u) = Len(s) - r + Len(t)
                 /\ \A i \in 1..Len(s) - r : u[i] = s[i + r]
                 /\ \A i \in 1..Len(t) : u[Len(s) - r + i] = t[i]
  BY Zenon
<1> DEFINE u == SubSeq(s, r + 1, Len(s)) \o t
<1> HIDE DEF u
<1>1. PICK m \in Nat : m = Len(s)
  BY LenProperties
<1>2. PICK n \in Nat : n = Len(t)
  BY LenProperties
<1>0. r <= m
  BY <1>1
<1>3. PICK k \in Nat : k = m - r
  BY <1>0
<1>4. PICK v : v = SubSeq(s, r + 1, m)
  OBVIOUS
<1>5. v \in Seq(Chunks) /\ Len(v) = k /\ \A i \in 1..k : v[i] = s[i + r]
  <2>1. \A i \in r + 1..m : s[i] \in Chunks
    BY <1>0, <1>1, ElementOfSeq
  <2>2. r + 1 \in Int /\ m \in Int
    OBVIOUS
  <2>3. /\ v \in Seq(Chunks) /\ Len(v) = IF r + 1 <= m THEN m - (r + 1) + 1 ELSE 0
        /\ \A i \in 1..m - (r + 1) + 1 : v[i] = s[r + 1 + i - 1]
    BY <1>4, <2>1, <2>2, SubSeqProperties
  <2>4. m - (r + 1) + 1 = k /\ (~(r + 1 <= m) => k = 0)
    BY <1>0, <1>3
  <2>5. \A i \in 1..k : r + 1 + i - 1 = i + r
    OBVIOUS
  <2> QED
    BY <2>3, <2>4, <2>5
<1>6. /\ u \in Seq(Chunks) /\ Len(u) = k + n
      /\ \A i \in 1..k + n : u[i] = IF i <= k THEN v[i] ELSE t[i - k]
  <2>1. u = v \o t
    BY <1>1, <1>4 DEF u
  <2>2. /\ v \o t \in Seq(Chunks) /\ Len(v \o t) = Len(v) + Len(t)
        /\ \A i \in 1..Len(v) + Len(t) : (v \o t)[i] =
             IF i <= Len(v) THEN v[i] ELSE t[i - Len(v)]
    BY <1>5, ConcatProperties
  <2> QED
    BY <1>2, <1>5, <2>1, <2>2
<1>7. \A i \in 1..k : i \in 1..k + n /\ i <= k
  OBVIOUS
<1>8. \A i \in 1..n : k + i \in 1..k + n /\ ~(k + i <= k) /\ k + i - k = i
  OBVIOUS
<1>9. \A i \in 1..k : u[i] = s[i + r]
  BY <1>5, <1>6, <1>7
<1>10. ASSUME NEW i \in 1..n PROVE u[k + i] = t[i]
  <2>1. PICK j \in 1..k + n : j = k + i /\ ~(j <= k) /\ j - k = i
    BY <1>8
  <2>2. u[j] = t[j - k]
    BY <1>6, <2>1
  <2> QED
    BY <2>1, <2>2
<1>11. Len(s) - r = k
  BY <1>1, <1>3
<1> QED
  BY <1>2, <1>6, <1>9, <1>10, <1>11 DEF u

(* To take the first element of t to the end of s changes nothing of it.   *)
LEMMA RestThenMove ==
  \A s, t \in Seq(Chunks), r \in Nat : r <= Len(s) /\ t # <<>> =>
    SubSeq(Append(s, Head(t)), r + 1, Len(Append(s, Head(t)))) \o Tail(t)
      = SubSeq(s, r + 1, Len(s)) \o t
<1> SUFFICES
      ASSUME NEW s \in Seq(Chunks), NEW t \in Seq(Chunks), NEW r \in Nat,
             r <= Len(s), t # <<>>
      PROVE  SubSeq(Append(s, Head(t)), r + 1, Len(Append(s, Head(t)))) \o Tail(t)
               = SubSeq(s, r + 1, Len(s)) \o t
  BY Zenon
<1> DEFINE a == Append(s, Head(t))
           z == Tail(t)
           u == SubSeq(a, r + 1, Len(a)) \o z
           v == SubSeq(s, r + 1, Len(s)) \o t
<1> HIDE DEF a, z, u, v
<1>1. PICK m \in Nat : m = Len(s)
  BY LenProperties
<1>2. r <= m
  BY <1>1
<1>3. PICK k \in Nat : k = m - r
  BY <1>2
<1>4. PICK n \in Nat : n = Len(z) /\ n + 1 = Len(t)
  <2>1. Len(t) \in Nat \ {0} /\ Len(z) = Len(t) - 1
    BY TailElements DEF z
  <2>2. Len(z) \in Nat /\ Len(z) + 1 = Len(t)
    BY <2>1
  <2> QED
    BY <2>2
<1>5. /\ a \in Seq(Chunks) /\ Len(a) = m + 1 /\ a[m + 1] = t[1]
      /\ \A i \in 1..m : a[i] = s[i]
  BY <1>1, TailElements, AppendElements DEF a
<1>6. z \in Seq(Chunks) /\ \A i \in 1..n : z[i] = t[i + 1]
  BY <1>4, TailElements DEF z
<1>7. r <= Len(a)
  BY <1>2, <1>5
<1>8. /\ u \in Seq(Chunks) /\ Len(u) = Len(a) - r + Len(z)
      /\ \A i \in 1..Len(a) - r : u[i] = a[i + r]
      /\ \A i \in 1..Len(z) : u[Len(a) - r + i] = z[i]
  BY <1>5, <1>6, <1>7, RestThen, Zenon DEF u
<1>9. /\ v \in Seq(Chunks) /\ Len(v) = Len(s) - r + Len(t)
      /\ \A i \in 1..Len(s) - r : v[i] = s[i + r]
      /\ \A i \in 1..Len(t) : v[Len(s) - r + i] = t[i]
  BY RestThen, Zenon DEF v
<1>10. /\ Len(a) - r = k + 1 /\ Len(s) - r = k /\ Len(u) = k + 1 + n
       /\ Len(v) = k + 1 + n
  <2>1. Len(s) - r = k
    BY <1>1, <1>3
  <2>2. m + 1 - r = k + 1
    BY <1>3
  <2>3. Len(a) - r = k + 1
    BY <1>5, <2>2
  <2>4. Len(u) = k + 1 + n
    BY <1>4, <1>8, <2>3
  <2>5. Len(v) = k + (n + 1)
    BY <1>4, <1>9, <2>1
  <2>6. k + (n + 1) = k + 1 + n
    OBVIOUS
  <2> QED
    BY <2>1, <2>3, <2>4, <2>5, <2>6
<1>11. /\ \A i \in 1..k + 1 : u[i] = a[i + r]
       /\ \A i \in 1..n : u[k + 1 + i] = z[i]
       /\ \A i \in 1..k : v[i] = s[i + r]
       /\ \A i \in 1..n + 1 : v[k + i] = t[i]
  BY <1>4, <1>8, <1>9, <1>10
<1>12. ASSUME NEW i \in 1..k + 1 + n PROVE u[i] = v[i]
  <2>1. CASE i <= k
    <3>1. i \in 1..k + 1 /\ i \in 1..k /\ i + r \in 1..m
      BY <1>3, <2>1
    <3> QED
      BY <1>5, <1>11, <3>1
  <2>2. CASE i = k + 1
    <3>1. u[i] = a[i + r] /\ i + r = m + 1
      BY <1>3, <1>11, <2>2
    <3>2. v[k + 1] = t[1]
      BY <1>11
    <3> QED
      BY <1>5, <2>2, <3>1, <3>2
  <2>3. CASE i > k + 1
    <3>1. PICK j \in 1..n : k + 1 + j = i
      <4>1. i - (k + 1) \in 1..n /\ k + 1 + (i - (k + 1)) = i
        BY <2>3
      <4> QED
        BY <4>1
    <3>2. u[i] = z[j] /\ z[j] = t[j + 1]
      BY <1>6, <1>11, <3>1
    <3>3. PICK l \in 1..n + 1 : l = j + 1 /\ k + l = i
      BY <3>1
    <3>4. v[k + l] = t[l]
      BY <1>11
    <3> QED
      BY <3>2, <3>3, <3>4
  <2> QED
    BY <2>1, <2>2, <2>3
<1>13. u = v
  BY <1>8, <1>9, <1>10, <1>12, SeqEqual
<1> QED
  BY <1>13 DEF a, z, u, v

LEMMA Grouping ==
  \A s, t, u \in Seq(Chunks) : (s \o t) \o u = s \o (t \o u)
BY ConcatAssociative

(* What is appended to t is appended to the whole.                         *)
LEMMA RestThenAppend ==
  \A s, t \in Seq(Chunks), r \in Nat, x \in Chunks : r <= Len(s) =>
    SubSeq(s, r + 1, Len(s)) \o Append(t, x)
      = Append(SubSeq(s, r + 1, Len(s)) \o t, x)
<1> SUFFICES
      ASSUME NEW s \in Seq(Chunks), NEW t \in Seq(Chunks), NEW r \in Nat,
             NEW x \in Chunks, r <= Len(s)
      PROVE  SubSeq(s, r + 1, Len(s)) \o Append(t, x)
               = Append(SubSeq(s, r + 1, Len(s)) \o t, x)
  BY Zenon
<1> DEFINE v == SubSeq(s, r + 1, Len(s))
<1>1. v \in Seq(Chunks)
  BY LenProperties, ElementOfSeq, SubSeqProperties
<1> HIDE DEF v
<1>2. <<x>> \in Seq(Chunks) /\ v \o t \in Seq(Chunks)
  BY <1>1, ConcatProperties
<1>3. Append(t, x) = t \o <<x>> /\ Append(v \o t, x) = (v \o t) \o <<x>>
  BY <1>2, AppendIsConcat
<1>4. (v \o t) \o <<x>> = v \o (t \o <<x>>)
  <2>1. <<x>> \in Seq(Chunks)
    BY <1>2
  <2> QED
    BY <1>1, <2>1, Grouping, Zenon
<1> QED
  BY <1>3, <1>4 DEF v

-----------------------------------------------------------------------------
(* Types, and the chunk that readPTY has in its hands.                     *)

Types == TypeOK /\ (reader \in {"file", "send"} => taken \in Chunks)

LEMMA TypesStep ==
  ASSUME Types, [Next]_vars
  PROVE  Types'
<1> USE Bounds, Loop DEF Types, TypeOK, source, conn
<1>0. /\ 0..MaxChunks \subseteq Nat /\ Chunks = 1..MaxChunks
      /\ \A c \in Conns : Len(ch[c]) \in Nat
  BY LenProperties DEF Chunks
<1>1. CASE Read
  BY <1>0, <1>1 DEF Read
<1>2. CASE ReadFails
  BY <1>2 DEF ReadFails
<1>3. CASE File
  <2>1. history' \in Seq(Chunks)
    BY <1>3, AppendElements DEF File
  <2> QED
    BY <1>3, <2>1 DEF File
<1>4. CASE Send
  <2>1. \A c \in Conns : ch'[c] \in Seq(Chunks) /\ Len(ch'[c]) <= Capacity
    <3> SUFFICES ASSUME NEW c \in Conns
                 PROVE  ch'[c] \in Seq(Chunks) /\ Len(ch'[c]) <= Capacity
      OBVIOUS
    <3>1. ch[c] \in Seq(Chunks) /\ taken \in Chunks
      BY <1>4 DEF Send
    <3>2. /\ Append(ch[c], taken) \in Seq(Chunks)
          /\ Len(Append(ch[c], taken)) = Len(ch[c]) + 1
      BY <3>1, AppendElements
    <3>3. ch'[c] = IF c \in clients /\ Len(ch[c]) < Capacity
                   THEN Append(ch[c], taken) ELSE ch[c]
      BY <1>4 DEF Send
    <3>4. Len(ch[c]) \in Nat /\ Len(ch[c]) <= Capacity
      BY <1>0
    <3> HIDE DEF Types, TypeOK
    <3>5. CASE c \in clients /\ Len(ch[c]) < Capacity
      BY <3>2, <3>3, <3>4, <3>5
    <3>6. CASE ~(c \in clients /\ Len(ch[c]) < Capacity)
      BY <3>1, <3>3, <3>4, <3>6
    <3> QED
      BY <3>5, <3>6
  <2>2. ch' \in [Conns -> Seq(Chunks)]
    BY <1>4, <2>1 DEF Send
  <2> QED
    BY <1>4, <2>1, <2>2 DEF Send
<1>5. CASE ShellExits \/ ClosePTY \/ Close
  BY <1>5 DEF ShellExits, ClosePTY, Close, CloseFile, DropClients
<1>6. ASSUME NEW c \in Conns, Register(c) PROVE Types'
  BY <1>6 DEF Register
<1>7. ASSUME NEW c \in Conns, ReadHistory(c) PROVE Types'
  BY <1>7 DEF ReadHistory
<1>8. ASSUME NEW c \in Conns, Replay(c) PROVE Types'
  <2>1. sent[c] \o replay[c] \in Seq(Chunks)
    BY ConcatProperties
  <2> QED
    BY <1>8, <2>1 DEF Replay
<1>9. ASSUME NEW c \in Conns, Write(c) PROVE Types'
  <2>1. /\ Tail(ch[c]) \in Seq(Chunks) /\ Append(sent[c], Head(ch[c])) \in Seq(Chunks)
        /\ Len(Tail(ch[c])) <= Capacity
    BY <1>0, <1>9, TailElements, AppendElements DEF Write
  <2> QED
    BY <1>9, <2>1 DEF Write
<1>10. ASSUME NEW c \in Conns, WriterStops(c) PROVE Types'
  BY <1>10 DEF WriterStops
<1>11. ASSUME NEW c \in Conns, Disturb(c) PROVE Types'
  BY <1>11 DEF Disturb
<1>12. ASSUME NEW c \in Conns, Leave(c) PROVE Types'
  BY <1>12, EmptySeq DEF Leave
<1>13. CASE UNCHANGED vars
  BY <1>13 DEF vars
<1> QED
  BY <1>1, <1>2, <1>3, <1>4, <1>5, <1>6, <1>7, <1>8, <1>9, <1>10, <1>11, <1>12,
     <1>13 DEF Next

(* Every variable keeps its type, and no channel grows beyond its          *)
(* capacity.                                                               *)
THEOREM Typing == Spec => []Types
<1>1. ASSUME Init PROVE Types
  BY <1>1, Bounds, EmptySeq DEF Init, Types, TypeOK
<1> QED
  BY <1>1, TypesStep, PTL DEF Spec

-----------------------------------------------------------------------------
(* The file, and how far each connection is.                               *)

(* The chunks that readPTY has tried to file. *)
Filed == IF reader = "file" THEN taken - 1 ELSE taken

(* The file holds the first chunks, and all of them while it is open.      *)
LogInv ==
  /\ Len(history) <= Filed
  /\ Filing => Len(history) = Filed
  /\ \A i \in 1..Len(history) : history[i] = i

LEMMA Counting ==
  ASSUME Types
  PROVE  /\ taken \in Nat /\ Filed \in Nat /\ Passed \in Nat
         /\ Passed <= Filed /\ Filed <= taken /\ Passed <= taken
         /\ Len(history) \in Nat
         /\ reader \in {"file", "send"} => Passed = taken - 1
         /\ reader \notin {"file", "send"} => Passed = taken
BY Bounds, LenProperties DEF Types, TypeOK, Filed, Passed

LEMMA CountingStep ==
  ASSUME Types, Types', [Next]_vars
  PROVE  /\ Passed <= Passed' /\ Filed <= Filed'
         /\ Send => Passed' = taken
         /\ File => Filed' = taken
         /\ ~File => Filed' = Filed
         /\ ~Send => Passed' = Passed
<1> USE Loop DEF Filed, Passed
<1>0. taken \in Nat
  BY Counting
<1>1. CASE Read
  BY <1>0, <1>1 DEF Read, File, Send
<1>2. CASE ReadFails
  BY <1>0, <1>2 DEF ReadFails, File, Send
<1>3. CASE File
  BY <1>0, <1>3 DEF File, Send
<1>4. CASE Send
  BY <1>0, <1>4 DEF File, Send
<1>5. CASE UNCHANGED <<taken, reader>>
  BY <1>0, <1>5 DEF File, Send
<1> QED
  BY <1>1, <1>2, <1>3, <1>4, <1>5
  DEF Next, ShellExits, ClosePTY, Close, CloseFile, DropClients, Register,
      ReadHistory, Replay, Write, WriterStops, Disturb, Leave, source, conn, vars

LEMMA LogStep ==
  ASSUME Types, Types', LogInv, [Next]_vars
  PROVE  LogInv' /\ (Filing' => Filing)
<1>0. /\ Len(history) \in Nat /\ history \in Seq(Chunks) /\ taken \in Nat
      /\ DOMAIN history = 1..Len(history) /\ Filed \in Nat /\ Filed <= Filed'
      /\ Filed' \in Nat
  BY Counting, CountingStep, RangeElements DEF Types, TypeOK
<1>1. Filing' => Filing
  BY DEF Next, Read, ReadFails, File, Send, ShellExits, ClosePTY, Close, CloseFile,
         DropClients, Register, ReadHistory, Replay, Write, WriterStops, Disturb,
         Leave, source, conn, vars, Filing
<1>2. CASE File
  <2>1. taken \in Chunks /\ Filed = taken - 1 /\ Filed' = taken
    BY <1>2, CountingStep DEF File, Types, Filed
  <2>2. CASE Filing
    <3>1. history' = Append(history, taken) /\ Len(history) = taken - 1
      BY <1>2, <2>1, <2>2 DEF File, LogInv
    <3>2. /\ Len(history') = taken /\ history'[taken] = taken
          /\ \A i \in 1..taken - 1 : history'[i] = history[i]
      BY <1>0, <2>1, <3>1, AppendElements
    <3> QED
      BY <1>0, <1>1, <2>1, <3>1, <3>2 DEF LogInv
  <2>3. CASE ~Filing
    <3>1. history' = history /\ ~Filing'
      BY <1>1, <1>2, <2>3 DEF File
    <3>2. Len(history) <= Filed /\ \A i \in 1..Len(history) : history[i] = i
      BY DEF LogInv
    <3>3. Len(history) <= Filed'
      BY <1>0, <3>2
    <3> QED
      BY <1>1, <2>3, <3>1, <3>2, <3>3 DEF LogInv
  <2> QED
    BY <2>2, <2>3
<1>3. CASE ~File
  <2>1. history' = history /\ Filed' = Filed
    BY <1>3, CountingStep
    DEF Next, Read, ReadFails, Send, ShellExits, ClosePTY, Close, CloseFile,
        DropClients, Register, ReadHistory, Replay, Write, WriterStops, Disturb,
        Leave, source, conn, vars
  <2> QED
    BY <1>0, <1>1, <2>1 DEF LogInv
<1> QED
  BY <1>2, <1>3

(* A connection is sent nothing before its replay, which is a part of the  *)
(* file and comes first.                                                   *)
ConnInv ==
  \A c \in Conns :
    /\ at[c] = "off" => ch[c] = <<>> /\ c \notin clients
    /\ at[c] # "served" => sent[c] = <<>> /\ writer[c] = "off"
    /\ at[c] \in {"off", "registered"} => replay[c] = <<>>
    /\ at[c] = "served" => /\ Len(replay[c]) <= Len(sent[c])
                           /\ \A i \in 1..Len(replay[c]) : sent[c][i] = replay[c][i]
    /\ Len(replay[c]) <= Filed
    /\ \A i \in 1..Len(replay[c]) : replay[c][i] = i

LEMMA ConnStep ==
  ASSUME Types, Types', LogInv, ConnInv, [Next]_vars
  PROVE  ConnInv'
<1>0. /\ Filed \in Nat /\ Filed' \in Nat /\ Filed <= Filed' /\ Len(<<>>) = 0
      /\ \A c \in Conns : Len(replay[c]) \in Nat /\ Len(sent[c]) \in Nat
      /\ at \in [Conns -> {"off", "registered", "loaded", "served"}]
      /\ DOMAIN ch = Conns /\ DOMAIN replay = Conns /\ DOMAIN sent = Conns
      /\ writer \in [Conns -> {"off", "writing"}]
  BY Counting, CountingStep, LenProperties, EmptySeq DEF Types, TypeOK
<1>1. CASE \/ Read \/ ReadFails \/ File \/ ShellExits \/ ClosePTY \/ CloseFile
           \/ UNCHANGED vars
  BY <1>0, <1>1 DEF Read, ReadFails, File, ShellExits, ClosePTY, CloseFile, source,
     conn, vars, ConnInv
<1>2. CASE Send
  BY <1>0, <1>2 DEF Send, conn, ConnInv
<1>3. CASE DropClients
  BY <1>0, <1>3 DEF DropClients, ConnInv
<1>4. ASSUME NEW c \in Conns, Register(c) PROVE ConnInv'
  BY <1>0, <1>4 DEF Register, ConnInv
<1>5. ASSUME NEW c \in Conns, ReadHistory(c) PROVE ConnInv'
  BY <1>0, <1>5 DEF ReadHistory, ConnInv, LogInv
<1>6. ASSUME NEW c \in Conns, Replay(c) PROVE ConnInv'
  <2>1. sent'[c] = replay[c]
    <3>1. sent[c] = <<>> /\ replay[c] \in Seq(Chunks)
      BY <1>6 DEF Replay, ConnInv, Types, TypeOK
    <3>2. sent'[c] = <<>> \o replay[c]
      BY <1>0, <1>6, <3>1 DEF Replay
    <3> QED
      BY <3>1, <3>2, ConcatEmptySeq
  <2> QED
    BY <1>0, <1>6, <2>1 DEF Replay, ConnInv
<1>7. ASSUME NEW c \in Conns, Write(c) PROVE ConnInv'
  <2>1. at[c] = "served"
    BY <1>0, <1>7 DEF Write, ConnInv
  <2>2. /\ Len(sent'[c]) = Len(sent[c]) + 1
        /\ \A i \in 1..Len(sent[c]) : sent'[c][i] = sent[c][i]
    BY <1>0, <1>7, TailElements, AppendElements DEF Write, Types, TypeOK
  <2> QED
    BY <1>0, <1>7, <2>1, <2>2 DEF Write, ConnInv
<1>8. ASSUME NEW c \in Conns, WriterStops(c) PROVE ConnInv'
  BY <1>0, <1>8 DEF WriterStops, ConnInv
<1>9. ASSUME NEW c \in Conns, Disturb(c) PROVE ConnInv'
  BY <1>0, <1>9 DEF Disturb, ConnInv
<1>10. ASSUME NEW c \in Conns, Leave(c) PROVE ConnInv'
  BY <1>0, <1>10 DEF Leave, ConnInv
<1> QED
  BY <1>1, <1>2, <1>3, <1>4, <1>5, <1>6, <1>7, <1>8, <1>9, <1>10 DEF Next, Close

-----------------------------------------------------------------------------
(* What a connection gets beyond its replay.                               *)

LEMMA LiveElements ==
  ASSUME Types, ConnInv, NEW c \in Conns
  PROVE  /\ at[c] # "served" => Live(c) = ch[c]
         /\ at[c] = "served" =>
              \E n \in Nat :
                /\ n = Len(sent[c]) - Len(replay[c])
                /\ Live(c) \in Seq(Chunks) /\ Len(Live(c)) = n + Len(ch[c])
                /\ \A i \in 1..n : Live(c)[i] = sent[c][i + Len(replay[c])]
                /\ \A i \in 1..Len(ch[c]) : Live(c)[n + i] = ch[c][i]
<1>1. CASE at[c] # "served"
  BY <1>1 DEF Live
<1>2. CASE at[c] = "served"
  <2>1. /\ sent[c] \in Seq(Chunks) /\ ch[c] \in Seq(Chunks)
        /\ Len(replay[c]) \in Nat /\ Len(sent[c]) \in Nat
        /\ Len(replay[c]) <= Len(sent[c])
    BY <1>2, LenProperties DEF Types, TypeOK, ConnInv
  <2> DEFINE u == SubSeq(sent[c], Len(replay[c]) + 1, Len(sent[c])) \o ch[c]
  <2>2. Live(c) = u
    BY <1>2 DEF Live
  <2>3. Len(sent[c]) - Len(replay[c]) \in Nat
    BY <2>1
  <2>4. /\ u \in Seq(Chunks) /\ Len(u) = Len(sent[c]) - Len(replay[c]) + Len(ch[c])
        /\ \A i \in 1..Len(sent[c]) - Len(replay[c]) : u[i] = sent[c][i + Len(replay[c])]
        /\ \A i \in 1..Len(ch[c]) : u[Len(sent[c]) - Len(replay[c]) + i] = ch[c][i]
    BY <2>1, RestThen, Zenon
  <2> HIDE DEF u
  <2> QED
    BY <1>2, <2>2, <2>3, <2>4
<1> QED
  BY <1>1, <1>2

LEMMA LiveIsSeq ==
  ASSUME Types, ConnInv, NEW c \in Conns
  PROVE  /\ Live(c) \in Seq(Chunks) /\ Len(Live(c)) \in Nat
         /\ Range(ch[c]) \subseteq Range(Live(c))
<1>1. ch[c] \in Seq(Chunks) /\ Len(ch[c]) \in Nat
  BY LenProperties DEF Types, TypeOK
<1>2. Live(c) \in Seq(Chunks)
  BY <1>1, LiveElements
<1>3. Len(Live(c)) \in Nat
  BY <1>2, LenProperties
<1>4. \A i \in 1..Len(ch[c]) : \E j \in 1..Len(Live(c)) : Live(c)[j] = ch[c][i]
  BY <1>1, LiveElements
<1> QED
  BY <1>1, <1>2, <1>3, <1>4, RangeElements

(* It is not changed but by the broadcast, which appends to it, and by the *)
(* end of the connection.                                                  *)
LEMMA LiveStep ==
  ASSUME Types, Types', ConnInv, ConnInv', [Next]_vars, NEW c \in Conns
  PROVE  /\ \/ Live(c)' = Live(c)
            \/ Send /\ Live(c)' = Append(Live(c), taken)
            \/ Leave(c) /\ Live(c)' = <<>>
         /\ Send /\ c \in clients /\ Len(ch[c]) < Capacity
              => Live(c)' = Append(Live(c), taken)
<1>0. /\ at \in [Conns -> {"off", "registered", "loaded", "served"}]
      /\ DOMAIN ch = Conns /\ DOMAIN replay = Conns /\ DOMAIN sent = Conns
      /\ ch[c] \in Seq(Chunks) /\ sent[c] \in Seq(Chunks) /\ replay[c] \in Seq(Chunks)
      /\ Len(replay[c]) \in Nat
      /\ at[c] = "served" => Len(replay[c]) <= Len(sent[c])
  BY LenProperties DEF Types, TypeOK, ConnInv
<1>1. ASSUME /\ (at'[c] = "served") <=> (at[c] = "served")
             /\ sent'[c] = sent[c] /\ replay'[c] = replay[c] /\ ch'[c] = ch[c]
      PROVE  Live(c)' = Live(c)
  BY <1>1 DEF Live
<1>2. ASSUME \/ Read \/ ReadFails \/ File \/ ShellExits \/ ClosePTY \/ CloseFile
             \/ DropClients \/ UNCHANGED vars
      PROVE  Live(c)' = Live(c)
  BY <1>1, <1>2 DEF Read, ReadFails, File, ShellExits, ClosePTY, CloseFile,
     DropClients, source, conn, vars
<1>3. ASSUME Send
      PROVE  IF c \in clients /\ Len(ch[c]) < Capacity
             THEN Live(c)' = Append(Live(c), taken) ELSE Live(c)' = Live(c)
  <2>1. UNCHANGED <<at, sent, replay>> /\ taken \in Chunks
    BY <1>3 DEF Send, conn, Types
  <2>2. CASE c \in clients /\ Len(ch[c]) < Capacity
    <3>1. ch'[c] = Append(ch[c], taken)
      BY <1>3, <2>2 DEF Send
    <3>2. CASE at[c] = "served"
      <4>1. Live(c) = SubSeq(sent[c], Len(replay[c]) + 1, Len(sent[c])) \o ch[c]
        BY <3>2 DEF Live
      <4>2. Live(c)' = SubSeq(sent[c], Len(replay[c]) + 1, Len(sent[c]))
                         \o Append(ch[c], taken)
        BY <2>1, <3>1, <3>2 DEF Live
      <4>3. SubSeq(sent[c], Len(replay[c]) + 1, Len(sent[c])) \o Append(ch[c], taken)
              = Append(SubSeq(sent[c], Len(replay[c]) + 1, Len(sent[c])) \o ch[c], taken)
        BY <1>0, <2>1, <3>2, RestThenAppend, Zenon
      <4> QED
        BY <2>2, <4>1, <4>2, <4>3
    <3>3. CASE at[c] # "served"
      BY <2>1, <2>2, <3>1, <3>3 DEF Live
    <3> QED
      BY <3>2, <3>3
  <2>3. CASE ~(c \in clients /\ Len(ch[c]) < Capacity)
    <3>1. ch'[c] = ch[c]
      BY <1>3, <2>3 DEF Send
    <3> QED
      BY <1>1, <2>1, <2>3, <3>1
  <2> QED
    BY <2>2, <2>3
<1>4. ASSUME NEW d \in Conns,
             Register(d) \/ ReadHistory(d) \/ WriterStops(d) \/ Disturb(d)
      PROVE  Live(c)' = Live(c)
  <2>1. (at'[c] = "served") <=> (at[c] = "served")
    BY <1>0, <1>4 DEF Register, ReadHistory, WriterStops, Disturb
  <2>2. sent'[c] = sent[c] /\ ch'[c] = ch[c] /\ (at'[c] = "served" => replay'[c] = replay[c])
    BY <1>0, <1>4 DEF Register, ReadHistory, WriterStops, Disturb
  <2> QED
    BY <2>1, <2>2 DEF Live
<1>5. ASSUME NEW d \in Conns, Replay(d) PROVE Live(c)' = Live(c)
  <2>1. CASE d # c
    BY <1>0, <1>1, <1>5, <2>1 DEF Replay
  <2>2. CASE d = c
    <3>1. sent[c] = <<>> /\ at[c] # "served" /\ at'[c] = "served"
      BY <1>0, <1>5, <2>2 DEF Replay, ConnInv
    <3>2. sent'[c] = replay[c] /\ replay'[c] = replay[c] /\ ch'[c] = ch[c]
      BY <1>0, <1>5, <2>2, <3>1, ConcatEmptySeq DEF Replay
    <3>3. SubSeq(replay[c], Len(replay[c]) + 1, Len(replay[c])) = <<>>
      BY <1>0, SubSeqEmpty
    <3>4. Live(c)' = <<>> \o ch[c]
      BY <3>1, <3>2, <3>3 DEF Live
    <3>5. <<>> \o ch[c] = ch[c]
      BY <1>0, ConcatEmptySeq
    <3> QED
      BY <3>1, <3>4, <3>5 DEF Live
  <2> QED
    BY <2>1, <2>2
<1>6. ASSUME NEW d \in Conns, Write(d) PROVE Live(c)' = Live(c)
  <2>1. CASE d # c
    BY <1>0, <1>1, <1>6, <2>1 DEF Write
  <2>2. CASE d = c
    <3>1. at[c] = "served" /\ at'[c] = "served" /\ replay'[c] = replay[c] /\ ch[c] # <<>>
      BY <1>6, <2>2 DEF Write, ConnInv
    <3>2. sent'[c] = Append(sent[c], Head(ch[c])) /\ ch'[c] = Tail(ch[c])
      BY <1>0, <1>6, <2>2 DEF Write
    <3>3. Live(c)' = SubSeq(Append(sent[c], Head(ch[c])), Len(replay[c]) + 1,
                            Len(Append(sent[c], Head(ch[c])))) \o Tail(ch[c])
      BY <3>1, <3>2 DEF Live
    <3>4. Live(c) = SubSeq(sent[c], Len(replay[c]) + 1, Len(sent[c])) \o ch[c]
      BY <3>1 DEF Live
    <3>5. SubSeq(Append(sent[c], Head(ch[c])), Len(replay[c]) + 1,
                 Len(Append(sent[c], Head(ch[c])))) \o Tail(ch[c])
            = SubSeq(sent[c], Len(replay[c]) + 1, Len(sent[c])) \o ch[c]
      BY <1>0, <3>1, RestThenMove, Zenon
    <3> QED
      BY <3>3, <3>4, <3>5
  <2> QED
    BY <2>1, <2>2
<1>7. ASSUME NEW d \in Conns, Leave(d)
      PROVE  Live(c)' = Live(c) \/ (Leave(c) /\ Live(c)' = <<>>)
  <2>1. CASE d # c
    BY <1>0, <1>1, <1>7, <2>1 DEF Leave
  <2>2. CASE d = c
    BY <1>0, <1>7, <2>2 DEF Leave, Live
  <2> QED
    BY <2>1, <2>2
<1>8. CASE Send
  BY <1>3, <1>8
<1>9. CASE ~Send
  BY <1>2, <1>4, <1>5, <1>6, <1>7, <1>9 DEF Next, Close
<1> QED
  BY <1>8, <1>9

LEMMA ChannelIncreasing ==
  ASSUME Types, ConnInv, NEW c \in Conns, IsIncreasing(Live(c))
  PROVE  IsIncreasing(ch[c])
<1>1. CASE at[c] # "served"
  BY <1>1 DEF Live
<1>2. CASE at[c] = "served"
  <2>1. PICK n \in Nat : /\ Live(c) \in Seq(Chunks) /\ Len(Live(c)) = n + Len(ch[c])
                        /\ \A i \in 1..Len(ch[c]) : Live(c)[n + i] = ch[c][i]
    BY <1>2, LiveElements
  <2>2. PICK m \in Nat : m = Len(ch[c]) /\ DOMAIN ch[c] = 1..m
    BY LenProperties DEF Types, TypeOK
  <2>3. DOMAIN Live(c) = 1..n + m
    BY <2>1, <2>2, RangeElements
  <2>4. ASSUME NEW i \in 1..m, NEW j \in 1..m, i < j PROVE ch[c][i] < ch[c][j]
    <3>1. n + i \in 1..n + m /\ n + j \in 1..n + m /\ n + i < n + j
      BY <2>4
    <3>2. Live(c)[n + i] < Live(c)[n + j]
      BY <2>3, <3>1 DEF IsIncreasing
    <3>3. Live(c)[n + i] = ch[c][i] /\ Live(c)[n + j] = ch[c][j]
      BY <2>1, <2>2
    <3> QED
      BY <3>2, <3>3
  <2> QED
    BY <2>2, <2>4 DEF IsIncreasing
<1> QED
  BY <1>1, <1>2

(* The replay is read once.                                                *)
LEMMA ReplayStep ==
  ASSUME Types, [Next]_vars, NEW c \in Conns
  PROVE  \/ replay'[c] = replay[c] /\ (at[c] = "registered" => at'[c] = "registered")
         \/ /\ ReadHistory(c) /\ replay'[c] = history
            /\ UNCHANGED <<ch, reader, taken, history, closing>>
         \/ Leave(c) /\ replay'[c] = <<>>
<1>0. /\ DOMAIN replay = Conns /\ DOMAIN at = Conns
      /\ replay = [d \in Conns |-> replay[d]] /\ at = [d \in Conns |-> at[d]]
  BY DEF Types, TypeOK
<1>1. ASSUME NEW d \in Conns, ReadHistory(d) \/ Leave(d)
      PROVE  \/ replay'[c] = replay[c] /\ at'[c] = at[c]
             \/ /\ ReadHistory(c) /\ replay'[c] = history
                /\ UNCHANGED <<ch, reader, taken, history, closing>>
             \/ Leave(c) /\ replay'[c] = <<>>
  BY <1>0, <1>1 DEF ReadHistory, Leave, source
<1>2. ASSUME NEW d \in Conns,
             Register(d) \/ Replay(d) \/ Write(d) \/ WriterStops(d) \/ Disturb(d)
      PROVE  replay'[c] = replay[c] /\ (at[c] = "registered" => at'[c] = "registered")
  BY <1>0, <1>2 DEF Register, Replay, Write, WriterStops, Disturb
<1> QED
  BY <1>1, <1>2 DEF Next, Close, Read, ReadFails, File, Send, ShellExits, ClosePTY,
     CloseFile, DropClients, conn, vars

-----------------------------------------------------------------------------
(* The order of the chunks, and the overlap.                               *)

(* What is repeated, but for the one chunk that was filed and not yet sent *)
(* when the history was read.                                              *)
Repeated(c) == {x \in Range(Live(c)) : x < Len(replay[c])}

LiveInv ==
  \A c \in Conns : /\ IsIncreasing(Live(c))
                   /\ \A x \in Range(Live(c)) : x <= Passed
                   /\ Cardinality(Repeated(c)) <= Capacity

StreamInv == LogInv /\ ConnInv /\ LiveInv

LEMMA LiveInvStep ==
  ASSUME Types, Types', StreamInv, ConnInv', [Next]_vars
  PROVE  LiveInv'
<1> SUFFICES ASSUME NEW c \in Conns
             PROVE  /\ IsIncreasing(Live(c)')
                    /\ \A x \in Range(Live(c)') : x <= Passed'
                    /\ Cardinality(Repeated(c)') <= Capacity
  BY DEF LiveInv, IsIncreasing
<1>0. /\ ConnInv /\ IsIncreasing(Live(c)) /\ \A x \in Range(Live(c)) : x <= Passed
      /\ Cardinality(Repeated(c)) <= Capacity
  BY DEF StreamInv, LiveInv
<1>1. /\ Live(c) \in Seq(Chunks) /\ Range(Live(c)) = {Live(c)[i] : i \in DOMAIN Live(c)}
      /\ Range(Live(c)) \subseteq Nat
  <2>1. Live(c) \in Seq(Chunks)
    BY <1>0, LiveIsSeq
  <2>2. Range(Live(c)) \in SUBSET Chunks
    BY <2>1, RangeOfSeq
  <2> QED
    BY <2>1, <2>2, Bounds DEF Range
<1>a. /\ Passed \in Nat /\ Passed' \in Nat /\ Passed <= Passed' /\ taken \in Nat
      /\ Len(replay[c]) \in Nat /\ Len(replay[c]) <= Filed /\ Filed \in Nat
  <2>1. Passed \in Nat /\ Passed <= Passed' /\ taken \in Nat /\ Filed \in Nat
    BY Counting, CountingStep
  <2>2. Passed' \in Nat
    <3>1. /\ taken' \in 0..MaxChunks /\ MaxChunks \in Nat
          /\ reader' \in {"read", "file", "send", "ended"}
          /\ reader' \in {"file", "send"} => taken' \in 1..MaxChunks
      BY Bounds DEF Types, TypeOK, Chunks
    <3>2. CASE reader' \in {"file", "send"}
      <4>0. taken' \in 1..MaxChunks
        BY <3>1, <3>2
      <4>1. taken' - 1 \in Nat
        <5>1. \A n \in 1..MaxChunks : n - 1 \in Nat
          BY <3>1
        <5> QED
          BY <4>0, <5>1
      <4>2. Passed' = taken' - 1
        BY <3>2 DEF Passed
      <4> QED
        BY <4>1, <4>2
    <3>3. CASE reader' \in {"read", "ended"}
      BY <3>1, <3>3 DEF Passed
    <3> QED
      BY <3>1, <3>2, <3>3
  <2>3. Len(replay[c]) \in Nat /\ Len(replay[c]) <= Filed
    BY <1>0, LenProperties DEF Types, TypeOK, ConnInv
  <2> QED
    BY <2>1, <2>2, <2>3
<1>b. \A x \in Range(Live(c)) : x \in Nat /\ x <= Passed
  BY <1>0, <1>1
<1>2. CASE Live(c)' = <<>>
  <2>1. Range(<<>>) = {} /\ IsIncreasing(<<>>)
    BY DEF Range, IsIncreasing
  <2>2. Repeated(c)' = {}
    BY <1>2, <2>1 DEF Repeated
  <2> QED
    BY <1>2, <2>1, <2>2, FS_EmptySet, Bounds
<1>3. CASE Live(c)' = Live(c)
  <2>1. \A x \in Range(Live(c)) : x <= Passed'
    BY <1>a, <1>b
  <2>2. CASE replay'[c] = replay[c]
    BY <1>0, <1>3, <2>1, <2>2 DEF Repeated
  <2>3. CASE ReadHistory(c)
    <3>1. Live(c) = ch[c] /\ ch[c] \in Seq(Nat) /\ Len(ch[c]) <= Capacity
      BY <2>3, SeqMonotonic, Bounds DEF ReadHistory, Live, Types, TypeOK
    <3>2. /\ IsFiniteSet(Range(ch[c])) /\ Cardinality(Range(ch[c])) \in Nat
          /\ Cardinality(Range(ch[c])) <= Len(ch[c]) /\ Len(ch[c]) \in Nat
      BY <3>1, RangeSize, LenProperties
    <3>3. Repeated(c)' \in SUBSET Range(ch[c])
      BY <1>3, <3>1 DEF Repeated
    <3>4. /\ Cardinality(Repeated(c)') <= Cardinality(Range(ch[c]))
          /\ Cardinality(Repeated(c)') \in Nat
      BY <3>2, <3>3, FS_Subset, FS_CardinalityType
    <3>5. Cardinality(Repeated(c)') <= Capacity
      BY <3>1, <3>2, <3>4, Bounds
    <3> QED
      BY <1>0, <1>3, <2>1, <3>5
  <2>4. CASE replay'[c] = <<>>
    <3>1. Repeated(c)' = {}
      <4>1. Len(replay'[c]) = 0
        BY <2>4, EmptySeq
      <4>2. \A x \in Range(Live(c)) : ~(x < 0)
        BY <1>b
      <4> QED
        BY <1>3, <4>1, <4>2 DEF Repeated
    <3> QED
      BY <1>0, <1>3, <2>1, <3>1, FS_EmptySet, Bounds
  <2> QED
    BY <2>2, <2>3, <2>4, ReplayStep
<1>4. CASE Send /\ Live(c)' = Append(Live(c), taken)
  <2>1. /\ taken \in Chunks /\ Passed = taken - 1 /\ Passed' = taken /\ Filed = taken
        /\ replay'[c] = replay[c]
    BY <1>4, Counting, CountingStep DEF Send, Types, conn, Filed
  <2>2. Range(Live(c)') = Range(Live(c)) \cup {taken}
    BY <1>1, <1>4, <2>1, AppendElements
  <2>3. \A x \in Range(Live(c)) : x < taken
    BY <1>a, <1>b, <2>1
  <2>4. IsIncreasing(Live(c)')
    <3>1. \A i \in DOMAIN Live(c) : Live(c)[i] < taken
      BY <1>1, <2>3
    <3> QED
      BY <1>0, <1>1, <1>4, <2>1, <3>1, AppendIncreasing
  <2>5. \A x \in Range(Live(c)') : x <= Passed'
    BY <1>a, <2>1, <2>2, <2>3, <1>b
  <2>6. Repeated(c)' = Repeated(c)
    <3>1. ~(taken < Len(replay[c]))
      BY <1>a, <2>1
    <3> QED
      BY <2>1, <2>2, <3>1 DEF Repeated
  <2> QED
    BY <1>0, <2>4, <2>5, <2>6
<1> QED
  BY <1>0, <1>2, <1>3, <1>4, LiveStep

LEMMA StreamInvariant == Spec => []StreamInv
<1>1. Init /\ Types => StreamInv
  <2> SUFFICES ASSUME Init, Types PROVE StreamInv
    OBVIOUS
  <2>1. /\ history = <<>> /\ taken = 0 /\ Filed = 0 /\ Len(<<>>) = 0
        /\ \A c \in Conns : /\ at[c] = "off" /\ ch[c] = <<>> /\ c \notin clients
                            /\ sent[c] = <<>> /\ replay[c] = <<>> /\ writer[c] = "off"
    BY EmptySeq DEF Init, Filed
  <2>2. LogInv /\ ConnInv
    BY <2>1 DEF LogInv, ConnInv
  <2>3. \A c \in Conns : Live(c) = <<>>
    BY <2>1 DEF Live
  <2>4. Range(<<>>) = {} /\ IsIncreasing(<<>>)
    BY DEF Range, IsIncreasing
  <2>5. \A c \in Conns : Repeated(c) = {}
    BY <2>3, <2>4 DEF Repeated
  <2> QED
    BY <2>2, <2>3, <2>4, <2>5, FS_EmptySet, Bounds DEF StreamInv, LiveInv
<1>2. StreamInv /\ Types /\ Types' /\ [Next]_vars => StreamInv'
  BY LogStep, ConnStep, LiveInvStep DEF StreamInv
<1> QED
  BY <1>1, <1>2, Typing, PTL DEF Spec

-----------------------------------------------------------------------------
(* What a client lacks.                                                    *)

LEMMA LossStep ==
  ASSUME Types, Types', StreamInv, StreamInv', [Next]_vars, Filing',
         NEW c \in Conns, NEW k \in Lacks(c)', k \notin Lacks(c)
  PROVE  reader = "send" /\ k = taken /\ Len(ch[c]) = Capacity
<1>0. /\ Filing /\ ConnInv /\ ConnInv'
      /\ Passed \in Nat /\ Passed <= Filed /\ Filed \in Nat
  BY LogStep, Counting DEF StreamInv
<1>1. /\ c \in clients' /\ at'[c] # "registered" /\ k \in 1..Passed'
      /\ k \notin Range(replay'[c]) /\ k \notin Range(Live(c)')
  BY DEF Lacks
<1>2. c \in clients /\ ~Leave(c)
  <2>1. at'[c] # "off"
    BY <1>0, <1>1 DEF ConnInv
  <2>2. ~Leave(c)
    BY <1>0, <2>1 DEF Leave, Types, TypeOK
  <2>3. ASSUME NEW d \in Conns, Register(d) PROVE c # d
    BY <1>0, <1>1, <2>3 DEF Register, Types, TypeOK
  <2> QED
    BY <1>1, <2>2, <2>3
    DEF Next, Read, ReadFails, File, Send, ShellExits, ClosePTY, Close, CloseFile,
        DropClients, Register, ReadHistory, Replay, Write, WriterStops, Disturb,
        Leave, source, conn, vars
<1>3. ~ReadHistory(c)
  <2> SUFFICES ASSUME ReadHistory(c) PROVE FALSE
    OBVIOUS
  <2>1. replay'[c] = history /\ Passed' = Passed
    BY <1>0 DEF ReadHistory, Types, TypeOK, source, Passed
  <2>2. /\ Len(history) = Filed /\ history \in Seq(Chunks)
        /\ \A i \in 1..Filed : history[i] = i
    BY <1>0 DEF StreamInv, LogInv, Types, TypeOK
  <2>3. Range(history) = {history[i] : i \in 1..Filed}
    BY <2>2, RangeElements
  <2>4. k \in 1..Filed
    BY <1>0, <1>1, <2>1
  <2> QED
    BY <1>1, <2>1, <2>2, <2>3, <2>4
<1>4. replay'[c] = replay[c] /\ at[c] # "registered"
  BY <1>0, <1>1, <1>2, <1>3, ReplayStep
<1>5. k \notin 1..Passed \/ k \in Range(Live(c))
  BY <1>1, <1>2, <1>4 DEF Lacks
<1>6. /\ Live(c) \in Seq(Chunks)
      /\ \/ Live(c)' = Live(c)
         \/ Send /\ Live(c)' = Append(Live(c), taken)
  BY <1>0, <1>2, LiveIsSeq, LiveStep
<1>7. Range(Live(c)) \subseteq Range(Live(c)')
  <2>1. CASE Live(c)' = Append(Live(c), taken) /\ Send
    <3>1. taken \in Chunks
      BY <2>1 DEF Send, Types
    <3>2. Range(Live(c)') = Range(Live(c)) \cup {taken}
      BY <1>6, <2>1, <3>1, AppendElements
    <3> QED
      BY <3>2
  <2> QED
    BY <1>6, <2>1
<1>8. Send /\ k \notin 1..Passed
  BY <1>1, <1>5, <1>7, CountingStep
<1>9. /\ taken \in Chunks /\ taken \in Nat \ {0}
      /\ Passed = taken - 1 /\ Passed' = taken /\ reader = "send"
  BY <1>8, Counting, CountingStep, Bounds DEF Send, Types
<1>10. k = taken
  BY <1>1, <1>8, <1>9
<1>11. ~(Len(ch[c]) < Capacity)
  <2>1. ASSUME Live(c)' = Append(Live(c), taken) PROVE FALSE
    BY <1>1, <1>6, <1>9, <1>10, <2>1, AppendElements
  <2> QED
    BY <1>0, <1>2, <1>8, <2>1, LiveStep
<1>12. Len(ch[c]) \in Nat /\ Len(ch[c]) <= Capacity
  BY LenProperties DEF Types, TypeOK
<1> QED
  BY <1>9, <1>10, <1>11, <1>12, Bounds

-----------------------------------------------------------------------------
(* What the invariant is for.                                              *)

(* The history first, and then chunks in the order in which the shell      *)
(* printed them, none of them twice, on every connection.                  *)
THEOREM InOrder == Spec => []OrderKept
<1>1. ASSUME Types, StreamInv, NEW c \in Conns, at[c] = "served"
      PROVE  IsPrefix(replay[c], sent[c])
  <2>1. /\ replay[c] \in Seq(Chunks) /\ sent[c] \in Seq(Chunks)
        /\ Len(replay[c]) <= Len(sent[c])
        /\ \A i \in 1..Len(replay[c]) : sent[c][i] = replay[c][i]
    BY <1>1 DEF Types, TypeOK, StreamInv, ConnInv
  <2>2. PICK r \in Nat : r = Len(replay[c])
    BY <2>1, LenProperties
  <2>3. PICK m \in Nat : m = Len(sent[c])
    BY <2>1, LenProperties
  <2>4. r <= m
    BY <2>1, <2>2, <2>3
  <2>5. /\ \A i \in 1..r : replay[c][i] \in Chunks
        /\ \A i \in 1..r : sent[c][i] \in Chunks
    BY <2>1, <2>2, ElementOfSeq
  <2>6. /\ SubSeq(replay[c], 1, r) \in Seq(Chunks)
        /\ Len(SubSeq(replay[c], 1, r)) = IF 1 <= r THEN r - 1 + 1 ELSE 0
        /\ \A i \in 1..r - 1 + 1 : SubSeq(replay[c], 1, r)[i] = replay[c][1 + i - 1]
    BY <2>5, SubSeqProperties
  <2>7. /\ SubSeq(sent[c], 1, r) \in Seq(Chunks)
        /\ Len(SubSeq(sent[c], 1, r)) = IF 1 <= r THEN r - 1 + 1 ELSE 0
        /\ \A i \in 1..r - 1 + 1 : SubSeq(sent[c], 1, r)[i] = sent[c][1 + i - 1]
    BY <2>5, SubSeqProperties
  <2>8. /\ (IF 1 <= r THEN r - 1 + 1 ELSE 0) = r /\ r - 1 + 1 = r
        /\ \A i \in 1..r : 1 + i - 1 = i
    OBVIOUS
  <2>9. \A i \in 1..r : SubSeq(replay[c], 1, r)[i] = SubSeq(sent[c], 1, r)[i]
    BY <2>1, <2>2, <2>6, <2>7, <2>8
  <2>10. SubSeq(replay[c], 1, r) = SubSeq(sent[c], 1, r)
    BY <2>6, <2>7, <2>8, <2>9, SeqEqual
  <2> QED
    BY <2>1, <2>2, <2>10 DEF IsPrefix
<1>2. Types /\ StreamInv => OrderKept
  BY <1>1 DEF OrderKept, StreamInv, LiveInv
<1> QED
  BY <1>2, StreamInvariant, Typing, PTL

(* A client comes to lack a chunk only when that is sent and its channel   *)
(* is full, whoever connects between the filing and the broadcast of one.  *)
THEOREM OnlyFullLoses == Spec => LossNeedsFullChannel
<1>1. Types /\ Types' /\ StreamInv /\ StreamInv' /\ [Next]_vars
      => [Filing' => \A c \in Conns : \A k \in Lacks(c)' \ Lacks(c) :
            reader = "send" /\ k = taken /\ Len(ch[c]) = Capacity]_vars
  BY LossStep
<1> QED
  BY <1>1, StreamInvariant, Typing, PTL DEF Spec, LossNeedsFullChannel

(* A connection gets no more chunks twice than its channel holds and one.  *)
THEOREM LittleTwice == Spec => []OverlapBound
<1>1. ASSUME Types, StreamInv, NEW c \in Conns
      PROVE  Cardinality(Range(replay[c]) \cap Range(Live(c))) <= Capacity + 1
  <2>1. /\ ConnInv /\ replay[c] \in Seq(Chunks) /\ Len(replay[c]) \in Nat
        /\ \A i \in 1..Len(replay[c]) : replay[c][i] = i
        /\ Cardinality(Repeated(c)) <= Capacity
    BY <1>1, LenProperties DEF Types, TypeOK, StreamInv, LiveInv, ConnInv
  <2>2. \A x \in Range(replay[c]) : x \in Nat /\ x <= Len(replay[c])
    BY <2>1, RangeElements
  <2>3. Range(replay[c]) \cap Range(Live(c)) \in SUBSET (Repeated(c) \cup {Len(replay[c])})
    BY <2>1, <2>2 DEF Repeated
  <2>4. IsFiniteSet(Repeated(c))
    <3>1. Live(c) \in Seq(Nat)
      BY <1>1, <2>1, LiveIsSeq, SeqMonotonic, Bounds
    <3> QED
      BY <3>1, RangeSize, FS_Subset DEF Repeated
  <2>5. /\ IsFiniteSet(Repeated(c) \cup {Len(replay[c])})
        /\ Cardinality(Repeated(c)) \in Nat
        /\ Cardinality(Repeated(c) \cup {Len(replay[c])}) \in
             {Cardinality(Repeated(c)), Cardinality(Repeated(c)) + 1}
    BY <2>4, FS_AddElement, FS_CardinalityType
  <2>6. /\ Cardinality(Range(replay[c]) \cap Range(Live(c)))
             <= Cardinality(Repeated(c) \cup {Len(replay[c])})
        /\ Cardinality(Range(replay[c]) \cap Range(Live(c))) \in Nat
    BY <2>3, <2>5, FS_Subset, FS_CardinalityType
  <2> QED
    BY <2>1, <2>5, <2>6, Bounds
<1>2. Types /\ StreamInv => OverlapBound
  BY <1>1 DEF OverlapBound, Types
<1> QED
  BY <1>2, StreamInvariant, Typing, PTL

(* What any browser has been sent, or will be from its channel, is in the  *)
(* file that the next connection is sent.                                  *)
THEOREM FileIsAhead == Spec => []FiledFirst
<1>1. ASSUME Types, StreamInv, Filing, NEW c \in Conns
      PROVE  Range(sent[c] \o ch[c]) \subseteq Range(history)
  <2>1. /\ ConnInv /\ history \in Seq(Chunks) /\ Len(history) = Filed
        /\ \A i \in 1..Len(history) : history[i] = i
        /\ sent[c] \in Seq(Chunks) /\ ch[c] \in Seq(Chunks)
        /\ Passed \in Nat /\ Filed \in Nat /\ Passed <= Filed
    BY <1>1, Counting DEF Types, TypeOK, StreamInv, LogInv
  <2>2. \A x \in 1..Filed : x \in Range(history)
    BY <2>1, RangeElements
  <2>3. Live(c) \in Seq(Chunks) /\ Range(ch[c]) \subseteq Range(Live(c))
    BY <1>1, <2>1, LiveIsSeq
  <2>4. \A x \in Range(Live(c)) : x \in 1..Filed
    <3>1. Range(Live(c)) \in SUBSET Nat /\ 0 \notin Range(Live(c))
      BY <2>3, RangeOfSeq, Bounds
    <3>2. \A x \in Range(Live(c)) : x <= Passed
      BY <1>1 DEF StreamInv, LiveInv
    <3> QED
      BY <2>1, <3>1, <3>2
  <2>5. ASSUME NEW i \in 1..Len(sent[c]) PROVE sent[c][i] \in Range(history)
    <3>1. at[c] = "served"
      BY <2>1, EmptySeq DEF ConnInv
    <3>2. PICK r \in Nat : r = Len(replay[c]) /\ replay[c] \in Seq(Chunks)
      BY <1>1, LenProperties DEF Types, TypeOK
    <3>3. PICK m \in Nat : m = Len(sent[c])
      BY <2>1, LenProperties
    <3>4. i \in Nat /\ i >= 1 /\ i <= m
      BY <3>3
    <3>5. CASE i <= r
      <4>1. i \in 1..r
        BY <3>4, <3>5
      <4>2. r <= Filed
        BY <2>1, <3>2 DEF ConnInv
      <4>3. i \in 1..Filed
        BY <2>1, <3>4, <3>5, <4>2
      <4>4. sent[c][i] = replay[c][i] /\ replay[c][i] = i
        BY <2>1, <3>1, <3>2, <4>1 DEF ConnInv
      <4> QED
        BY <2>2, <4>3, <4>4
    <3>6. CASE ~(i <= r)
      <4>1. PICK n \in Nat : /\ n = Len(sent[c]) - Len(replay[c])
                            /\ Len(Live(c)) = n + Len(ch[c])
                            /\ \A j \in 1..n : Live(c)[j] = sent[c][j + Len(replay[c])]
        BY <1>1, <2>1, <3>1, LiveElements
      <4>2. n = m - r
        BY <3>2, <3>3, <4>1
      <4>3. PICK j \in 1..n : j + r = i
        <5>1. i - r \in 1..n /\ i - r + r = i
          BY <3>4, <3>6, <4>2
        <5> QED
          BY <5>1
      <4>4. Live(c)[j] = sent[c][i]
        BY <3>2, <4>1, <4>3
      <4>5. PICK l \in Nat : l = Len(ch[c])
        BY <2>1, LenProperties
      <4>6. j \in 1..Len(Live(c))
        <5>1. j \in 1..n + l
          BY <4>3
        <5>2. Len(Live(c)) = n + l
          BY <4>1, <4>5
        <5> QED
          BY <5>1, <5>2
      <4>7. sent[c][i] \in Range(Live(c))
        BY <2>3, <4>4, <4>6, RangeElements
      <4> QED
        BY <2>2, <2>4, <4>7
    <3> QED
      BY <3>5, <3>6
  <2>6. Range(sent[c]) \subseteq Range(history)
    BY <2>1, <2>5, RangeElements
  <2>7. Range(ch[c]) \subseteq Range(history)
    BY <2>2, <2>3, <2>4
  <2>8. Range(sent[c] \o ch[c]) = Range(sent[c]) \cup Range(ch[c])
    BY <2>1, RangeConcatenation
  <2> QED
    BY <2>6, <2>7, <2>8
<1>2. Types /\ StreamInv => FiledFirst
  BY <1>1 DEF FiledFirst
<1> QED
  BY <1>2, StreamInvariant, Typing, PTL

=============================================================================
