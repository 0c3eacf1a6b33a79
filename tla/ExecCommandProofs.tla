------------------------- MODULE ExecCommandProofs -------------------------
(***************************************************************************)
(* Proofs about ExecCommand, for any number of requests and keystrokes: a  *)
(* command that is reported as done has ended, its output is all there,    *)
(* and when nobody typed beside it there is nothing else.                  *)
(***************************************************************************)
EXTENDS ExecCommand, Integers, SequenceTheorems, WellFoundedInduction, TLAPS

-----------------------------------------------------------------------------
(* The first and the last of some positions.                               *)

LEMMA Least ==
  \A T \in SUBSET Nat : T # {} => \E m \in T : \A k \in T : m <= k
<1> SUFFICES ASSUME NEW T \in SUBSET Nat, T # {}
             PROVE  \E m \in T : \A k \in T : m <= k
  OBVIOUS
<1>1. IsWellFoundedOn({p \in Nat \X Nat : p[1] < p[2]}, Nat)
  BY NatLessThanWellFounded DEF OpToRel
<1>2. PICK R : R = {p \in Nat \X Nat : p[1] < p[2]}
  OBVIOUS
<1>3. IsWellFoundedOn(R, Nat) /\ T \subseteq Nat /\ T # {}
  BY <1>1, <1>2
<1>4. PICK m \in T : \A k \in T : ~(<<k, m>> \in R)
  BY <1>3, WFMin
<1>5. \A a, b \in Nat : b < a => <<b, a>> \in R
  BY <1>2
<1>6. ASSUME NEW k \in T PROVE m <= k
  <2>1. m \in Nat /\ k \in Nat
    OBVIOUS
  <2>2. ~(k < m)
    BY <1>4, <1>5, <2>1
  <2> QED
    BY <2>1, <2>2
<1> QED
  BY <1>6

LEMMA MinIs ==
  \A T \in SUBSET Nat : T # {} => Min(T) \in T /\ \A k \in T : Min(T) <= k
BY Least DEF Min

LEMMA MaxIs ==
  \A n \in Nat : \A T \in SUBSET (1..n) :
    T # {} => Max(T) \in T /\ \A k \in T : Max(T) >= k
<1> SUFFICES ASSUME NEW n \in Nat, NEW T \in SUBSET (1..n), T # {}
             PROVE  \E m \in T : \A k \in T : m >= k
  BY DEF Max
<1>1. PICK U : U = {n - k : k \in T}
  OBVIOUS
<1>0. \A k \in 1..n : n - k \in Nat
  OBVIOUS
<1>2. U \in SUBSET Nat /\ U # {}
  <2>1. \A k \in T : n - k \in Nat
    BY <1>0
  <2>2. U # {}
    BY <1>1
  <2> QED
    BY <1>1, <2>1, <2>2
<1>3. PICK u \in U : \A k \in U : u <= k
  BY <1>2, Least
<1>4. PICK m \in T : u = n - m
  BY <1>1
<1>5. ASSUME NEW k \in T PROVE m >= k
  <2>1. n - k \in U
    BY <1>1
  <2>2. n - m <= n - k
    BY <2>1, <1>3, <1>4
  <2> QED
    BY <2>2
<1> QED
  BY <1>5

-----------------------------------------------------------------------------
(* Pieces.                                                                 *)

LEMMA PieceTypes ==
  /\ EndOfLine \in Pieces /\ Prompt \in Pieces /\ Output(User) \in Pieces
  /\ \A e \in Execs : Echoed(e) \in Pieces /\ Marker(e) \in Pieces /\ Output(e) \in Pieces
BY DEF Pieces

(* What is of one command is not of another, nor of the terminal.          *)
LEMMA Distinct ==
  \A e \in Execs :
    /\ Echoed(e) # EndOfLine /\ Marker(e) # EndOfLine /\ Output(e) # EndOfLine
    /\ Echoed(e) # Prompt /\ Marker(e) # Prompt /\ Output(e) # Prompt
    /\ Echoed(e) # Marker(e) /\ Echoed(e) # Output(e) /\ Marker(e) # Output(e)
    /\ Output(User) \notin {Echoed(e), Marker(e), Output(e)}
    /\ \A d \in Execs \ {e} :
         {Echoed(d), Marker(d), Output(d)} \cap {Echoed(e), Marker(e), Output(e)} = {}
<1> USE TypistsAssumption DEF Echoed, Marker, Output, EndOfLine, Prompt
<1> QED
  OBVIOUS

-----------------------------------------------------------------------------
(* Sequences.                                                              *)

LEMMA ConcatIs ==
  ASSUME NEW S, NEW s \in Seq(S), NEW p \in Seq(S)
  PROVE  /\ s \o p \in Seq(S) /\ Len(s) \in Nat /\ Len(p) \in Nat
         /\ Len(s \o p) = Len(s) + Len(p)
         /\ \A k \in 1..Len(s) : k \in 1..Len(s \o p) /\ (s \o p)[k] = s[k]
         /\ \A q \in 1..Len(p) :
              Len(s) + q \in 1..Len(s \o p) /\ (s \o p)[Len(s) + q] = p[q]
         /\ \A k \in 1..Len(s \o p) :
              k \in 1..Len(s) \/ \E q \in 1..Len(p) : k = Len(s) + q
<1>1. /\ s \o p \in Seq(S) /\ Len(s) \in Nat /\ Len(p) \in Nat
      /\ Len(s \o p) = Len(s) + Len(p)
  BY ConcatProperties, LenProperties
<1>2. \A k \in 1..(Len(s) + Len(p)) :
        (s \o p)[k] = IF k <= Len(s) THEN s[k] ELSE p[k - Len(s)]
  BY ConcatProperties
<1>3. PICK m \in Nat, n \in Nat : m = Len(s) /\ n = Len(p)
  BY <1>1
<1>4. ASSUME NEW k \in 1..m PROVE k \in 1..(m + n) /\ (s \o p)[k] = s[k]
  BY <1>2, <1>3
<1>5. ASSUME NEW q \in 1..n PROVE m + q \in 1..(m + n) /\ (s \o p)[m + q] = p[q]
  <2>1. m + q \in 1..(m + n) /\ ~(m + q <= m) /\ m + q - m = q
    OBVIOUS
  <2> QED
    BY <2>1, <1>2, <1>3
<1>6. ASSUME NEW k \in 1..(m + n)
      PROVE  k \in 1..m \/ \E q \in 1..n : k = m + q
  <2>1. k \in 1..m \/ (k - m \in 1..n /\ k = m + (k - m))
    OBVIOUS
  <2> QED
    BY <2>1
<1> QED
  BY <1>1, <1>3, <1>4, <1>5, <1>6

LEMMA ConcatContains ==
  \A s, p \in Seq(Pieces) : \A x :
    Contains(s \o p, x) <=> Contains(s, x) \/ Contains(p, x)
<1> SUFFICES ASSUME NEW s \in Seq(Pieces), NEW p \in Seq(Pieces), NEW x
             PROVE  Contains(s \o p, x) <=> Contains(s, x) \/ Contains(p, x)
  OBVIOUS
<1>1. Contains(s \o p, x) => Contains(s, x) \/ Contains(p, x)
  BY ConcatIs DEF Contains
<1>2. Contains(s, x) => Contains(s \o p, x)
  BY ConcatIs DEF Contains
<1>3. ASSUME Contains(p, x) PROVE Contains(s \o p, x)
  <2>1. PICK q \in 1..Len(p) : p[q] = x
    BY <1>3 DEF Contains
  <2>2. Len(s) + q \in 1..Len(s \o p) /\ (s \o p)[Len(s) + q] = x
    BY <2>1, ConcatIs
  <2> QED
    BY <2>2 DEF Contains
<1> QED
  BY <1>1, <1>2, <1>3

LEMMA ContainsFew ==
  /\ \A x : ~Contains(<<>>, x)
  /\ \A a, x : Contains(<<a>>, x) <=> x = a
  /\ \A a, b, x : Contains(<<a, b>>, x) <=> x = a \/ x = b
<1>1. ASSUME NEW x PROVE ~Contains(<<>>, x)
  <2>1. \A i : i \notin 1..Len(<<>>)
    OBVIOUS
  <2> QED
    BY <2>1 DEF Contains
<1>2. ASSUME NEW a, NEW x PROVE Contains(<<a>>, x) <=> x = a
  BY DEF Contains
<1>3. ASSUME NEW a, NEW b, NEW x PROVE Contains(<<a, b>>, x) <=> x = a \/ x = b
  BY DEF Contains
<1> QED
  BY <1>1, <1>2, <1>3

(* What is appended in parts.                                              *)
LEMMA Associates ==
  \A x, y, z \in Seq(Pieces) : (x \o y) \o z = x \o (y \o z)
<1> TAKE x, y, z \in Seq(Pieces)
<1> QED
  BY ConcatAssociative

(* A sequence, cut in two.                                                 *)
LEMMA CutInTwo ==
  \A s \in Seq(Pieces), n \in Nat : n <= Len(s) =>
    /\ SubSeq(s, 1, n) \in Seq(Pieces) /\ SubSeq(s, n + 1, Len(s)) \in Seq(Pieces)
    /\ SubSeq(s, 1, n) \o SubSeq(s, n + 1, Len(s)) = s
<1> SUFFICES ASSUME NEW s \in Seq(Pieces), NEW n \in Nat, n <= Len(s)
             PROVE  /\ SubSeq(s, 1, n) \in Seq(Pieces)
                    /\ SubSeq(s, n + 1, Len(s)) \in Seq(Pieces)
                    /\ SubSeq(s, 1, n) \o SubSeq(s, n + 1, Len(s)) = s
  OBVIOUS
<1>1. PICK m \in Nat : m = Len(s)
  BY LenProperties
<1>2. /\ 1 \in 1..(m + 1) /\ n \in (1 - 1)..m /\ m \in n..m
      /\ \A k \in 1..n : k \in 1..m
      /\ \A k \in (n + 1)..m : k \in 1..m
  BY <1>1
<1>3. \A k \in 1..m : s[k] \in Pieces
  BY <1>1, ElementOfSeq
<1>4. SubSeq(s, 1, n) \o SubSeq(s, n + 1, m) = SubSeq(s, 1, m)
  BY <1>1, <1>2, ConcatAdjacentSubSeq
<1>5. SubSeq(s, 1, m) = s
  BY <1>1, SubSeqFull
<1>6. SubSeq(s, 1, n) \in Seq(Pieces) /\ SubSeq(s, n + 1, m) \in Seq(Pieces)
  BY <1>2, <1>3, SubSeqProperties
<1> QED
  BY <1>1, <1>4, <1>5, <1>6

-----------------------------------------------------------------------------
(* What the helpers of the model do.                                       *)

Typists == Execs \cup {User, Enter}

(* What a busy shell can have in hand. *)
TodoForms == {<<>>, <<Output(User)>>} \cup
  UNION {{<<Marker(e)>>, <<Output(User), Marker(e)>>, <<Output(e), Marker(e)>>} : e \in Execs}

LEMMA Pairs ==
  \A a, b \in Pieces : /\ <<a>> \in Seq(Pieces) /\ <<a, b>> \in Seq(Pieces)
                      /\ <<a>> \o <<>> = <<a>> /\ <<a>> \o <<b>> = <<a, b>>
<1> SUFFICES ASSUME NEW a \in Pieces, NEW b \in Pieces
             PROVE  /\ <<a>> \in Seq(Pieces) /\ <<a, b>> \in Seq(Pieces)
                    /\ <<a>> \o <<>> = <<a>> /\ <<a>> \o <<b>> = <<a, b>>
  OBVIOUS
<1>1. <<a>> \in Seq(Pieces) /\ <<b>> \in Seq(Pieces) /\ <<a, b>> \in Seq(Pieces)
  OBVIOUS
<1>2. <<a>> \o <<>> = <<a>>
  BY <1>1, ConcatEmptySeq
<1>3. /\ <<a>> \o <<b>> \in Seq(Pieces) /\ Len(<<a>> \o <<b>>) = 2
      /\ (<<a>> \o <<b>>)[1] = a /\ (<<a>> \o <<b>>)[2] = b
  <2>1. Len(<<a>>) = 1 /\ Len(<<b>>) = 1 /\ <<a>>[1] = a /\ <<b>>[1] = b
    OBVIOUS
  <2> QED
    BY <1>1, <2>1, ConcatProperties
<1>4. Len(<<a, b>>) = 2 /\ <<a, b>>[1] = a /\ <<a, b>>[2] = b
  OBVIOUS
<1>5. \A k \in 1..2 : k = 1 \/ k = 2
  OBVIOUS
<1>6. <<a>> \o <<b>> = <<a, b>>
  BY <1>1, <1>3, <1>4, <1>5, SeqEqual
<1> QED
  BY <1>1, <1>2, <1>6

LEMMA FormsType == TodoForms \subseteq Seq(Pieces)
<1>1. \A a, b \in Pieces : <<>> \in Seq(Pieces) /\ <<a>> \in Seq(Pieces) /\ <<a, b>> \in Seq(Pieces)
  OBVIOUS
<1> SUFFICES ASSUME NEW w \in TodoForms PROVE w \in Seq(Pieces)
  OBVIOUS
<1>2. \/ w \in {<<>>, <<Output(User)>>}
      \/ \E e \in Execs : w \in {<<Marker(e)>>, <<Output(User), Marker(e)>>, <<Output(e), Marker(e)>>}
  BY DEF TodoForms
<1> QED
  BY <1>1, <1>2, PieceTypes

LEMMA EchoIs ==
  /\ Echo(User) = <<>> /\ Echo(Enter) = <<EndOfLine>>
  /\ \A e \in Execs : Echo(e) = <<Echoed(e), EndOfLine>>
  /\ \A x \in Typists : Echo(x) \in Seq(Pieces)
<1>1. /\ Echo(User) = <<>> /\ Echo(Enter) = <<EndOfLine>>
      /\ \A e \in Execs : Echo(e) = <<Echoed(e), EndOfLine>>
  BY TypistsAssumption DEF Echo
<1>2. \A a, b \in Pieces : <<>> \in Seq(Pieces) /\ <<a>> \in Seq(Pieces) /\ <<a, b>> \in Seq(Pieces)
  OBVIOUS
<1> QED
  BY <1>1, <1>2, PieceTypes DEF Typists

LEMMA WorkIs ==
  ASSUME NEW s \in Seq(Typists), NEW n \in 1..Len(s), s[n] # User
  PROVE  LET w == Work(SubSeq(s, 1, n)) IN
         /\ w \in TodoForms
         /\ s[n] = Enter => w \in {<<>>, <<Output(User)>>}
         /\ s[n] # Enter => w \in {<<Output(User), Marker(s[n])>>, <<Output(s[n]), Marker(s[n])>>}
         /\ n = 1 /\ s[n] = Enter => w = <<>>
         /\ n = 1 /\ s[n] # Enter => w = <<Output(s[n]), Marker(s[n])>>
<1> DEFINE line == SubSeq(s, 1, n)
           x == s[n]
<1>1. PICK m \in Nat : m = Len(s)
  BY LenProperties
<1>2. n \in Nat /\ n >= 1 /\ n <= m
  BY <1>1
<1>3. \A k \in 1..n : s[k] \in Typists
  <2>1. \A k \in 1..n : k \in 1..Len(s)
    BY <1>1, <1>2
  <2> QED
    BY <2>1, ElementOfSeq
<1>4. Len(line) = n /\ line[n] = x
  <2>1. Len(line) = n /\ \A i \in 1..(n - 1 + 1) : line[i] = s[1 + i - 1]
    BY <1>2, <1>3, SubSeqProperties
  <2> QED
    BY <2>1, <1>2
<1>5. x \in Execs \/ x = Enter
  BY <1>2, <1>3 DEF Typists
<1>6. Last(line) = x
  BY <1>4 DEF Last
<1>7. Work(line) = (IF (IF n > 1 THEN User ELSE x) = Enter THEN <<>>
                      ELSE <<Output(IF n > 1 THEN User ELSE x)>>)
                    \o (IF x = Enter THEN <<>> ELSE <<Marker(x)>>)
  BY <1>4, <1>6 DEF Work
<1>8. User # Enter /\ Enter \notin Execs /\ User \notin Execs
  BY TypistsAssumption
<1>9. \A a, b \in Pieces : <<a>> \o <<>> = <<a>> /\ <<a>> \o <<b>> = <<a, b>>
  BY Pairs
<1>10. <<>> \o <<>> = <<>>
  OBVIOUS
<1> HIDE DEF line, x
<1>11. CASE x = Enter /\ n = 1
  <2>1. Work(line) = <<>>
    BY <1>7, <1>10, <1>11
  <2> QED
    BY <2>1, <1>11 DEF TodoForms, line, x
<1>12. CASE x = Enter /\ n # 1
  <2>1. Work(line) = <<Output(User)>>
    BY <1>2, <1>7, <1>8, <1>9, <1>12, PieceTypes
  <2> QED
    BY <2>1, <1>12 DEF TodoForms, line, x
<1>13. CASE x \in Execs /\ n = 1
  <2>1. Work(line) = <<Output(x), Marker(x)>>
    BY <1>7, <1>8, <1>9, <1>13, PieceTypes
  <2>2. x # Enter
    BY <1>8, <1>13
  <2> QED
    BY <2>1, <2>2, <1>13 DEF TodoForms, line, x
<1>14. CASE x \in Execs /\ n # 1
  <2>1. Work(line) = <<Output(User), Marker(x)>>
    BY <1>2, <1>7, <1>8, <1>9, <1>14, PieceTypes
  <2>2. x # Enter
    BY <1>8, <1>14
  <2> QED
    BY <2>1, <2>2, <1>14 DEF TodoForms, line, x
<1> QED
  BY <1>5, <1>11, <1>12, <1>13, <1>14

(* What follows a place of a sequence. *)
LEMMA RestIs ==
  ASSUME NEW S, NEW s \in Seq(S), NEW n \in 1..Len(s)
  PROVE  LET r == SubSeq(s, n + 1, Len(s)) IN
         /\ r \in Seq(S) /\ Len(s) \in Nat /\ Len(r) = Len(s) - n
         /\ \A k \in 1..Len(r) : n + k \in 1..Len(s) /\ r[k] = s[n + k]
<1>1. PICK m \in Nat : m = Len(s)
  BY LenProperties
<1>2. \A k \in (n + 1)..m : s[k] \in S
  <2>1. \A k \in (n + 1)..m : k \in 1..m
    BY <1>1
  <2> QED
    BY <2>1, <1>1, ElementOfSeq
<1>3. /\ SubSeq(s, n + 1, m) \in Seq(S)
      /\ Len(SubSeq(s, n + 1, m)) = IF n + 1 <= m THEN m - (n + 1) + 1 ELSE 0
      /\ \A k \in 1..(m - (n + 1) + 1) : SubSeq(s, n + 1, m)[k] = s[n + 1 + k - 1]
  BY <1>1, <1>2, SubSeqProperties
<1>4. Len(SubSeq(s, n + 1, m)) = m - n
  BY <1>1, <1>3
<1>5. ASSUME NEW k \in 1..(m - n)
      PROVE  n + k \in 1..m /\ SubSeq(s, n + 1, m)[k] = s[n + k]
  <2>1. k \in 1..(m - (n + 1) + 1) /\ n + k \in 1..m /\ n + 1 + k - 1 = n + k
    BY <1>1
  <2> QED
    BY <2>1, <1>3
<1> QED
  BY <1>1, <1>3, <1>4, <1>5

(* What a shell has in hand, piece by piece. *)
LEMMA TodoEnds ==
  ASSUME NEW w \in TodoForms, w # <<>>
  PROVE  /\ Head(w) \in Pieces /\ Tail(w) \in TodoForms
         /\ Contains(w, Head(w)) /\ \A x : Contains(Tail(w), x) => Contains(w, x)
         /\ \A e \in Execs :
              /\ Contains(w, Marker(e)) =>
                   \/ Head(w) = Marker(e) /\ Tail(w) = <<>>
                   \/ Head(w) \in {Output(User), Output(e)} /\ Tail(w) = <<Marker(e)>>
              /\ Contains(w, Output(e)) => Contains(w, Marker(e)) /\ Head(w) = Output(e)
              /\ Head(w) # Echoed(e) /\ ~Contains(Tail(w), Output(e))
<1>0. ASSUME NEW a
      PROVE  /\ Head(<<a>>) = a /\ Tail(<<a>>) = <<>>
             /\ \A x : (Contains(<<a>>, x) <=> x = a) /\ ~Contains(<<>>, x)
  BY DEF Contains
<1>1. ASSUME NEW a, NEW b
      PROVE  /\ Head(<<a, b>>) = a /\ Tail(<<a, b>>) = <<b>>
             /\ \A x : (Contains(<<a, b>>, x) <=> x = a \/ x = b) /\ (Contains(<<b>>, x) <=> x = b)
  BY DEF Contains
<1>2. CASE w = <<Output(User)>>
  <2>1. /\ Head(w) = Output(User) /\ Tail(w) = <<>>
        /\ \A x : (Contains(w, x) <=> x = Output(User)) /\ ~Contains(Tail(w), x)
    BY <1>0, <1>2
  <2>2. Output(User) \in Pieces /\ <<>> \in TodoForms
    BY PieceTypes DEF TodoForms
  <2> QED
    BY <2>1, <2>2, Distinct
<1>3. ASSUME NEW d \in Execs, w = <<Marker(d)>>
      PROVE  /\ Head(w) \in Pieces /\ Tail(w) \in TodoForms
             /\ Contains(w, Head(w)) /\ \A x : Contains(Tail(w), x) => Contains(w, x)
             /\ \A e \in Execs :
                  /\ Contains(w, Marker(e)) =>
                       \/ Head(w) = Marker(e) /\ Tail(w) = <<>>
                       \/ Head(w) \in {Output(User), Output(e)} /\ Tail(w) = <<Marker(e)>>
                  /\ Contains(w, Output(e)) => Contains(w, Marker(e)) /\ Head(w) = Output(e)
                  /\ Head(w) # Echoed(e) /\ ~Contains(Tail(w), Output(e))
  <2>1. /\ Head(w) = Marker(d) /\ Tail(w) = <<>>
        /\ \A x : (Contains(w, x) <=> x = Marker(d)) /\ ~Contains(Tail(w), x)
    BY <1>0, <1>3
  <2>2. Marker(d) \in Pieces /\ <<>> \in TodoForms
    BY PieceTypes DEF TodoForms
  <2>3. ASSUME NEW e \in Execs
        PROVE  /\ Contains(w, Marker(e)) => e = d
               /\ ~Contains(w, Output(e)) /\ Head(w) # Echoed(e)
    BY <2>1, Distinct
  <2> QED
    BY <2>1, <2>2, <2>3
<1>4. ASSUME NEW d \in Execs, NEW o \in {Output(User), Output(d)}, w = <<o, Marker(d)>>
      PROVE  /\ Head(w) \in Pieces /\ Tail(w) \in TodoForms
             /\ Contains(w, Head(w)) /\ \A x : Contains(Tail(w), x) => Contains(w, x)
             /\ \A e \in Execs :
                  /\ Contains(w, Marker(e)) =>
                       \/ Head(w) = Marker(e) /\ Tail(w) = <<>>
                       \/ Head(w) \in {Output(User), Output(e)} /\ Tail(w) = <<Marker(e)>>
                  /\ Contains(w, Output(e)) => Contains(w, Marker(e)) /\ Head(w) = Output(e)
                  /\ Head(w) # Echoed(e) /\ ~Contains(Tail(w), Output(e))
  <2>1. /\ Head(w) = o /\ Tail(w) = <<Marker(d)>>
        /\ \A x : (Contains(w, x) <=> x = o \/ x = Marker(d)) /\ (Contains(Tail(w), x) <=> x = Marker(d))
    BY <1>1, <1>4
  <2>2. o \in Pieces /\ <<Marker(d)>> \in TodoForms
    BY PieceTypes DEF TodoForms
  <2>3. ASSUME NEW e \in Execs
        PROVE  /\ Contains(w, Marker(e)) => e = d
               /\ Contains(w, Output(e)) => e = d /\ o = Output(d)
               /\ o # Echoed(e) /\ Output(e) # Marker(d)
    BY <2>1, Distinct
  <2> QED
    BY <2>1, <2>2, <2>3
<1> QED
  BY <1>2, <1>3, <1>4 DEF TodoForms

(* The first piece of some kind in the rest of a sequence, or 0. *)
LEMMA FirstIs ==
  ASSUME NEW s \in Seq(Pieces), NEW from \in Nat \ {0}, NEW P
  PROVE  LET f == FirstIn(s, from, P) IN
         /\ f = 0 => \A k \in from..Len(s) : s[k] \notin P
         /\ f # 0 => /\ f \in from..Len(s) /\ f \in 1..Len(s) /\ s[f] \in P
                    /\ \A k \in from..Len(s) : k < f => s[k] \notin P
<1>1. PICK m \in Nat : m = Len(s)
  BY LenProperties
<1>2. PICK I : I = {i \in from..m : s[i] \in P}
  OBVIOUS
<1>3. FirstIn(s, from, P) = IF I # {} THEN Min(I) ELSE 0
  BY <1>1, <1>2 DEF FirstIn, SelectInSubSeq
<1>4. I \in SUBSET Nat
  BY <1>2
<1>5. I # {} => Min(I) \in I /\ \A k \in I : Min(I) <= k
  BY <1>4, MinIs
<1>6. CASE I = {}
  BY <1>1, <1>2, <1>3, <1>6
<1>7. CASE I # {}
  <2>1. PICK f \in Nat : f = FirstIn(s, from, P) /\ f \in I /\ \A k \in I : f <= k
    BY <1>3, <1>4, <1>5, <1>7
  <2>2. f \in from..m /\ s[f] \in P /\ f # 0 /\ f \in 1..m
    BY <1>2, <2>1
  <2>3. ASSUME NEW k \in from..m, k < f PROVE s[k] \notin P
    <3>1. ~(f <= k)
      BY <2>1, <2>3
    <3> QED
      BY <3>1, <2>1, <1>2
  <2> QED
    BY <1>1, <2>1, <2>2, <2>3
<1> QED
  BY <1>6, <1>7

(* The tail end that is trimmed holds nothing but ends of line. *)
LEMMA TrimIs ==
  ASSUME NEW s \in Seq(Pieces)
  PROVE  \E n \in 0..Len(s) :
           /\ TrimRight(s) = SubSeq(s, 1, n)
           /\ n # 0 => s[n] # EndOfLine
           /\ \A k \in 1..Len(s) : k > n => s[k] = EndOfLine
<1>1. PICK m \in Nat : m = Len(s)
  BY LenProperties
<1>2. PICK I : I = {i \in 1..m : s[i] # EndOfLine}
  OBVIOUS
<1>3. SelectLastInSeq(s, LAMBDA x : x # EndOfLine) = IF I # {} THEN Max(I) ELSE 0
  BY <1>1, <1>2 DEF SelectLastInSeq
<1>4. I \in SUBSET (1..m)
  BY <1>2
<1>5. I # {} => Max(I) \in I /\ \A k \in I : Max(I) >= k
  BY <1>4, MaxIs
<1>6. PICK n : n = SelectLastInSeq(s, LAMBDA x : x # EndOfLine)
  OBVIOUS
<1>7. TrimRight(s) = SubSeq(s, 1, n)
  BY <1>6 DEF TrimRight
<1>8. CASE I = {}
  <2>1. n = 0 /\ \A k \in 1..m : s[k] = EndOfLine
    BY <1>2, <1>3, <1>6, <1>8
  <2>2. 0 \in 0..m
    OBVIOUS
  <2> QED
    BY <1>1, <1>7, <2>1, <2>2
<1>9. CASE I # {}
  <2>1. n \in 1..m /\ s[n] # EndOfLine /\ \A k \in I : n >= k
    BY <1>2, <1>3, <1>5, <1>6, <1>9
  <2>2. ASSUME NEW k \in 1..m, k > n PROVE s[k] = EndOfLine
    <3>1. ~(n >= k)
      BY <2>1, <2>2
    <3> QED
      BY <3>1, <2>1, <1>2
  <2>3. n \in 0..m
    BY <2>1
  <2> QED
    BY <1>1, <1>7, <2>1, <2>2, <2>3
<1> QED
  BY <1>8, <1>9

(* A piece of a sequence, and what is in it. *)
LEMMA PieceOf ==
  ASSUME NEW s \in Seq(Pieces), NEW a \in Nat \ {0}, NEW b \in Nat, b <= Len(s)
  PROVE  LET r == SubSeq(s, a, b) IN
         /\ r \in Seq(Pieces)
         /\ a <= b => Len(r) = b - a + 1
         /\ b < a => r = <<>>
         /\ \A k \in 1..Len(r) : a + k - 1 \in a..b /\ r[k] = s[a + k - 1]
         /\ \A k \in a..b : k - a + 1 \in 1..Len(r) /\ r[k - a + 1] = s[k]
<1>1. PICK m \in Nat : m = Len(s)
  BY LenProperties
<1>2. \A k \in a..b : s[k] \in Pieces
  <2>1. \A k \in a..b : k \in 1..m
    BY <1>1
  <2> QED
    BY <2>1, <1>1, ElementOfSeq
<1>3. /\ SubSeq(s, a, b) \in Seq(Pieces)
      /\ Len(SubSeq(s, a, b)) = IF a <= b THEN b - a + 1 ELSE 0
      /\ \A k \in 1..(b - a + 1) : SubSeq(s, a, b)[k] = s[a + k - 1]
  BY <1>2, SubSeqProperties
<1>4. PICK r \in Seq(Pieces) : r = SubSeq(s, a, b)
  BY <1>3
<1>5. CASE b < a
  <2>1. Len(r) = 0 /\ ~(a <= b) /\ \A k : k \notin a..b
    BY <1>3, <1>4, <1>5
  <2>2. r = <<>>
    BY <2>1, EmptySeq
  <2>3. \A k : k \notin 1..Len(r)
    BY <2>1
  <2> QED
    BY <1>4, <1>5, <2>1, <2>2, <2>3
<1>6. CASE a <= b
  <2>1. PICK n \in Nat : n = Len(r) /\ n = b - a + 1
    BY <1>3, <1>4, <1>6
  <2>2. ASSUME NEW k \in 1..n PROVE a + k - 1 \in a..b /\ r[k] = s[a + k - 1]
    BY <2>1, <1>3, <1>4
  <2>3. ASSUME NEW k \in a..b PROVE k - a + 1 \in 1..n /\ r[k - a + 1] = s[k]
    <3>1. k - a + 1 \in 1..n /\ k - a + 1 \in 1..(b - a + 1) /\ a + (k - a + 1) - 1 = k
      BY <2>1
    <3> QED
      BY <3>1, <1>3, <1>4
  <2>4. ~(b < a)
    BY <1>6
  <2> QED
    BY <1>4, <2>1, <2>2, <2>3, <2>4
<1> QED
  BY <1>5, <1>6

(* The output of a request is cut from its file. *)
LEMMA ExtractType ==
  \A s \in Seq(Pieces) : \A e : ExtractExecOutput(s, e) \in Seq(Pieces)
<1> SUFFICES ASSUME NEW s \in Seq(Pieces), NEW e
             PROVE  ExtractExecOutput(s, e) \in Seq(Pieces)
  OBVIOUS
<1>0. PICK m \in Nat : m = Len(s)
  BY LenProperties
<1>1. PICK from \in Nat \ {0} : from = ContentStart(s, e)
  <2>1. PICK f : f = FirstIn(s, 1, Commands(e))
    OBVIOUS
  <2>2. f = 0 \/ f \in Nat \ {0}
    BY <2>1, FirstIs, <1>0
  <2>3. CASE f = 0
    BY <2>1, <2>3 DEF ContentStart
  <2>4. CASE f \in Nat \ {0}
    <3>1. PICK g : g = FirstIn(s, f, {EndOfLine})
      OBVIOUS
    <3>2. g \in Nat
      BY <3>1, <2>4, FirstIs, <1>0
    <3>3. ContentStart(s, e) = g + 1 /\ g + 1 \in Nat \ {0}
      BY <2>1, <2>4, <3>1, <3>2 DEF ContentStart
    <3> QED
      BY <3>3
  <2> QED
    BY <2>2, <2>3, <2>4
<1>2. PICK mark : mark = MarkAt(s, e)
  OBVIOUS
<1>3. mark = 0 \/ mark \in 1..m
  <2>1. mark = FirstIn(s, from, Mentions(e) \ Commands(e))
    BY <1>1, <1>2 DEF MarkAt
  <2> QED
    BY <2>1, <1>0, FirstIs
<1>4. PICK r : r = SubSeq(s, from, mark - 1)
  OBVIOUS
<1>5. r \in Seq(Pieces)
  <2>1. CASE mark = 0
    <3>1. /\ \A k : k \notin from..(mark - 1)
          /\ mark - 1 \in Int /\ from \in Int
      BY <2>1
    <3> QED
      BY <3>1, <1>4, SubSeqProperties
  <2>2. CASE mark \in 1..m
    <3>1. mark - 1 \in Nat /\ mark - 1 <= m
      BY <2>2
    <3> QED
      BY <3>1, <1>0, <1>4, PieceOf
  <2> QED
    BY <1>3, <2>1, <2>2
<1>6. PICK n \in 0..Len(r) : TrimRight(r) = SubSeq(r, 1, n)
  BY <1>5, TrimIs
<1>7. TrimRight(r) \in Seq(Pieces)
  <2>1. n \in Nat /\ n <= Len(r)
    BY <1>5, <1>6, LenProperties
  <2> QED
    BY <2>1, <1>5, <1>6, CutInTwo
<1>8. ExtractExecOutput(s, e) = TrimRight(r)
  BY <1>1, <1>2, <1>4 DEF ExtractExecOutput
<1> QED
  BY <1>7, <1>8

(* A line ends with its first Enter or command.                            *)
LEMMA LineEnd ==
  ASSUME NEW s \in Seq(Typists)
  PROVE  LET end == SelectInSeq(s, LAMBDA x : x # User) IN
         end # 0 => /\ end \in 1..Len(s) /\ s[end] # User
                    /\ \A k \in 1..Len(s) : k < end => s[k] = User
<1>0. PICK m \in Nat : m = Len(s)
  BY LenProperties
<1>1. PICK I : I = {i \in 1..m : s[i] # User}
  OBVIOUS
<1>2. PICK end : end = SelectInSeq(s, LAMBDA x : x # User)
  OBVIOUS
<1>3. end = IF I # {} THEN Min(I) ELSE 0
  BY <1>0, <1>1, <1>2 DEF SelectInSeq
<1>4. I \in SUBSET Nat
  BY <1>1
<1>5. ASSUME end # 0
      PROVE  end \in I /\ \A k \in I : end <= k
  BY <1>3, <1>4, <1>5, MinIs
<1>6. ASSUME end # 0, NEW k \in 1..m, k < end PROVE s[k] = User
  <2>0. end \in I /\ \A j \in I : end <= j
    BY <1>5, <1>6
  <2>2. end \in Nat /\ k \in Nat
    BY <2>0, <1>4
  <2>1. ~(end <= k)
    BY <2>2, <1>6
  <2> QED
    BY <2>0, <2>1, <1>1
<1> QED
  BY <1>0, <1>1, <1>2, <1>5, <1>6

-----------------------------------------------------------------------------
(* Types.                                                                  *)

Types == /\ TypeOK /\ todo \in TodoForms
         /\ shell # "busy" => todo = <<>>

LEMMA TypingText ==
  ASSUME Types, NEW x \in Typists, WriteInput(x)
  PROVE  /\ UNCHANGED <<shell, todo>>
         /\ \/ shell = "gone" /\ UNCHANGED <<input, printed>>
            \/ /\ shell # "gone" /\ input' = Append(input, x)
               /\ shell = "prompt" => printed' = printed
               /\ shell = "busy" => printed' = printed \o Echo(x)
         /\ input' \in Seq(Typists) /\ printed' \in Seq(Pieces)
<1>1. printed \in Seq(Pieces) /\ input \in Seq(Typists) /\ Echo(x) \in Seq(Pieces)
  BY EchoIs DEF Types, TypeOK, Typists
<1>2. printed \o <<>> = printed /\ printed \o Echo(x) \in Seq(Pieces)
  BY <1>1, ConcatEmptySeq, ConcatProperties
<1>3. Append(input, x) \in Seq(Typists)
  BY <1>1, AppendProperties
<1>4. CASE shell = "gone"
  BY <1>1, <1>4 DEF WriteInput, pty
<1>5. CASE shell # "gone"
  <2>1. /\ input' = Append(input, x) /\ UNCHANGED <<shell, todo>>
        /\ printed' = printed \o (IF shell = "busy" THEN Echo(x) ELSE <<>>)
    BY <1>5 DEF WriteInput, Type, Show
  <2> QED
    BY <2>1, <1>2, <1>3, <1>5
<1> QED
  BY <1>4, <1>5

LEMMA ReadingLine ==
  ASSUME Types, ReadLine
  PROVE  \E n \in 1..Len(input) :
           /\ input[n] # User /\ \A k \in 1..Len(input) : k < n => input[k] = User
           /\ shell = "prompt" /\ shell' = "busy"
           /\ printed' = printed \o Echo(input[n])
           /\ todo' = Work(SubSeq(input, 1, n))
           /\ input' = SubSeq(input, n + 1, Len(input))
           /\ UNCHANGED <<request, keys, said, alone>>
<1> DEFINE end == SelectInSeq(input, LAMBDA x : x # User)
<1>1. input \in Seq(Typists)
  BY DEF Types, TypeOK, Typists
<1>2. /\ end # 0 /\ shell = "prompt" /\ shell' = "busy"
      /\ printed' = printed \o Echo(input[end])
      /\ todo' = Work(SubSeq(input, 1, end))
      /\ input' = SubSeq(input, end + 1, Len(input))
      /\ UNCHANGED <<request, keys, said, alone>>
  BY DEF ReadLine, Show
<1>3. /\ end \in 1..Len(input) /\ input[end] # User
      /\ \A k \in 1..Len(input) : k < end => input[k] = User
  BY <1>1, <1>2, LineEnd
<1> HIDE DEF end
<1> QED
  BY <1>2, <1>3

LEMMA TypesStep ==
  ASSUME Types, [Next]_vars
  PROVE  Types'
<1> USE DEF request
<1>1. /\ input \in Seq(Typists) /\ printed \in Seq(Pieces) /\ todo \in Seq(Pieces)
      /\ \A e \in Execs : e \in Typists /\ file[e] \in Seq(Pieces)
      /\ User \in Typists /\ Enter \in Typists /\ <<>> \in Seq(Pieces)
      /\ <<>> \in TodoForms /\ <<>> \in Seq(Typists)
  BY EmptySeq DEF Types, TypeOK, Typists, TodoForms
<1>2. ASSUME NEW p \in Seq(Pieces) PROVE printed \o p \in Seq(Pieces)
  BY <1>1, <1>2, ConcatProperties
<1>3. ASSUME UNCHANGED <<pc, timeout, file, output, said>>,
             input' \in Seq(Typists), printed' \in Seq(Pieces), keys' \in 0..MaxKeys,
             shell' \in {"prompt", "busy", "gone"}, alone' \subseteq Execs,
             todo' \in TodoForms, shell' # "busy" => todo' = <<>>
      PROVE  Types'
  <2>1. todo' \in Seq(Pieces)
    BY <1>3, FormsType
  <2> QED
    BY <1>3, <2>1 DEF Types, TypeOK, Typists, Opened
<1>4. ASSUME NEW e \in Execs, Seek(e) \/ Fail(e) PROVE Types'
  <2>1. /\ UNCHANGED <<timeout, output, input, shell, todo, printed, keys, said, alone>>
        /\ pc' \in [Execs -> {"idle", "clear", "write", "poll", "failed"} \cup Returned]
        /\ file' = [file EXCEPT ![e] = <<>>]
        /\ \A d \in Execs \ {e} : pc'[d] = pc[d]
    BY <1>4 DEF Seek, Fail, Goes, pty, Types, TypeOK
  <2>2. file' \in [Execs -> Seq(Pieces)]
    BY <2>1, <1>1 DEF Types, TypeOK
  <2>3. \A d \in Execs : Opened(d)' \/ file'[d] = <<>>
    BY <2>1 DEF Types, TypeOK, Opened
  <2> QED
    BY <2>1, <2>2, <2>3 DEF Types, TypeOK
<1>5. ASSUME NEW e \in Execs, Clear(e) \/ Write(e) PROVE Types'
  <2>1. WriteInput(Enter) \/ WriteInput(e)
    BY <1>5 DEF Clear, Write
  <2>2. /\ UNCHANGED <<shell, todo>>
        /\ input' \in Seq(Typists) /\ printed' \in Seq(Pieces)
    BY <2>1, <1>1, TypingText
  <2>3. /\ UNCHANGED <<timeout, file, output, keys, said>> /\ alone' \subseteq Execs
        /\ pc' \in [Execs -> {"idle", "clear", "write", "poll", "failed"} \cup Returned]
        /\ \A d \in Execs : Opened(d) => Opened(d)'
    BY <1>5 DEF Clear, Write, Goes, Types, TypeOK, Opened
  <2> QED
    BY <2>2, <2>3 DEF Types, TypeOK, Typists
<1>6. ASSUME NEW e \in Execs, Done(e) \/ Expire(e) PROVE Types'
  <2>1. PICK how \in Returned, out \in Seq(Pieces) : \E t : Respond(e, how, out, t)
    <3>1. CASE Expire(e)
      BY <3>1, <1>1 DEF Expire, Returned
    <3>2. CASE Done(e)
      <4>1. PICK t : Respond(e, "done", ExtractExecOutput(file[e], e), t)
        BY <3>2 DEF Done
      <4> QED
        BY <4>1, <1>1, ExtractType DEF Returned
    <3> QED
      BY <3>1, <3>2, <1>6
  <2>2. /\ UNCHANGED <<timeout, input, shell, todo, printed, keys, said, alone>>
        /\ file' = [file EXCEPT ![e] = <<>>] /\ output' = [output EXCEPT ![e] = out]
        /\ pc' \in [Execs -> {"idle", "clear", "write", "poll", "failed"} \cup Returned]
        /\ \A d \in Execs \ {e} : pc'[d] = pc[d]
    <3>1. PICK t : Respond(e, how, out, t)
      BY <2>1
    <3>2. PICK p \in Returned : pc' = [pc EXCEPT ![e] = p]
      BY <3>1 DEF Respond, Returned
    <3>3. /\ pc' \in [Execs -> {"idle", "clear", "write", "poll", "failed"} \cup Returned]
          /\ \A d \in Execs \ {e} : pc'[d] = pc[d]
      BY <3>2 DEF Types, TypeOK
    <3> QED
      BY <3>1, <3>3 DEF Respond, pty
  <2>3. file' \in [Execs -> Seq(Pieces)] /\ output' \in [Execs -> Seq(Pieces)]
    BY <2>1, <2>2, <1>1 DEF Types, TypeOK
  <2>4. \A d \in Execs : Opened(d)' \/ file'[d] = <<>>
    BY <2>2 DEF Types, TypeOK, Opened
  <2> QED
    BY <2>2, <2>3, <2>4 DEF Types, TypeOK
<1>7. ASSUME NEW x \in {User, Enter}, Press(x) PROVE Types'
  <2>1. /\ UNCHANGED <<shell, todo>>
        /\ input' \in Seq(Typists) /\ printed' \in Seq(Pieces)
    BY <1>7, <1>1, TypingText DEF Press
  <2>2. keys' \in 0..MaxKeys
    BY <1>7, BoundsAssumption DEF Press, Types, TypeOK
  <2> QED
    BY <2>1, <2>2, <1>3, <1>7 DEF Press, Types, TypeOK
<1>8. ASSUME Interrupt PROVE Types'
  <2>1. keys' \in 0..MaxKeys
    BY <1>8, BoundsAssumption DEF Interrupt, Types, TypeOK
  <2>2. <<EndOfLine>> \in Seq(Pieces)
    BY PieceTypes, Pairs
  <2>3. printed' \in Seq(Pieces)
    BY <2>2, <1>2, <1>8 DEF Interrupt, Show
  <2> QED
    BY <2>1, <2>3, <1>1, <1>3, <1>8 DEF Interrupt, Types, TypeOK
<1>9. ASSUME ReadLine PROVE Types'
  <2>1. PICK n \in 1..Len(input) :
           /\ input[n] # User /\ shell' = "busy"
           /\ printed' = printed \o Echo(input[n])
           /\ todo' = Work(SubSeq(input, 1, n))
           /\ input' = SubSeq(input, n + 1, Len(input))
           /\ UNCHANGED <<request, keys, said, alone>>
    BY <1>9, ReadingLine
  <2>2. todo' \in TodoForms
    BY <2>1, <1>1, WorkIs
  <2>3. printed' \in Seq(Pieces)
    BY <2>1, <1>1, <1>2, ElementOfSeq, EchoIs
  <2>4. input' \in Seq(Typists)
    BY <2>1, <1>1, RestIs
  <2> QED
    BY <2>1, <2>2, <2>3, <2>4, <1>3 DEF Types, TypeOK
<1>10. ASSUME Run PROVE Types'
  <2>1. /\ todo # <<>> /\ todo' = Tail(todo) /\ shell = "busy"
        /\ UNCHANGED <<request, input, shell, keys, alone>>
        /\ \/ printed' = printed \o <<Head(todo)>> /\ said' = said \cup {Head(todo)}
           \/ UNCHANGED <<printed, said>>
    BY <1>10 DEF Run, Show
  <2>2. Head(todo) \in Pieces /\ Tail(todo) \in TodoForms
    BY <2>1, TodoEnds DEF Types
  <2>3. printed' \in Seq(Pieces) /\ said' \subseteq Pieces
    BY <2>1, <2>2, <1>1, <1>2, Pairs DEF Types, TypeOK
  <2>4. todo' \in Seq(Pieces)
    BY <2>1, <2>2, FormsType
  <2> QED
    BY <2>1, <2>2, <2>3, <2>4 DEF Types, TypeOK, Opened
<1>11. ASSUME ShowPrompt PROVE Types'
  <2>1. <<Prompt>> \in Seq(Pieces)
    BY PieceTypes, Pairs
  <2>2. printed' \in Seq(Pieces)
    BY <2>1, <1>2, <1>11 DEF ShowPrompt, Show
  <2> QED
    BY <2>2, <1>1, <1>3, <1>11 DEF ShowPrompt, Types, TypeOK
<1>12. ASSUME End PROVE Types'
  BY <1>1, <1>3, <1>12 DEF End, Types, TypeOK
<1>13. ASSUME ReadPTY PROVE Types'
  <2>1. PICK n \in 1..Len(printed) :
          /\ printed' = SubSeq(printed, n + 1, Len(printed))
          /\ file' = [e \in Execs |-> IF Opened(e) THEN file[e] \o SubSeq(printed, 1, n)
                                                 ELSE <<>>]
          /\ UNCHANGED <<pc, timeout, output, input, shell, todo, keys, said, alone>>
    BY <1>13 DEF ReadPTY
  <2>2. n \in Nat /\ n <= Len(printed)
    BY <1>1, LenProperties
  <2>3. SubSeq(printed, 1, n) \in Seq(Pieces) /\ printed' \in Seq(Pieces)
    BY <2>1, <2>2, <1>1, CutInTwo
  <2>4. \A e \in Execs : file'[e] \in Seq(Pieces)
    BY <2>1, <2>3, <1>1, ConcatProperties
  <2>5. file' \in [Execs -> Seq(Pieces)] /\ \A e \in Execs : Opened(e)' \/ file'[e] = <<>>
    BY <2>1, <2>4 DEF Opened
  <2> QED
    BY <2>1, <2>3, <2>5 DEF Types, TypeOK
<1>14. ASSUME UNCHANGED vars PROVE Types'
  BY <1>14 DEF vars, pty, Types, TypeOK, Opened
<1> QED
  BY <1>4, <1>5, <1>6, <1>7, <1>8, <1>9, <1>10, <1>11, <1>12, <1>13, <1>14
  DEF Next, Handler

(* Every variable keeps its type, and a shell has in hand at most one      *)
(* output and one marker, and only while it is busy.                       *)
THEOREM Typing == Spec => []Types
<1>1. ASSUME Init PROVE Types
  <2>1. <<Prompt>> \in Seq(Pieces) /\ <<>> \in Seq(Pieces) /\ MaxKeys \in 0..MaxKeys
    BY PieceTypes, Pairs, EmptySeq, BoundsAssumption
  <2> QED
    BY <1>1, <2>1, EmptySeq DEF Init, Types, TypeOK, TodoForms
<1> QED
  BY <1>1, TypesStep, PTL DEF Spec


-----------------------------------------------------------------------------
(* What comes out of the PTY about one command.                            *)

Mine(e) == {Echoed(e), Output(e), Marker(e)}

(* What a request that follows its file has seen and will see. *)
Stream(e) == file[e] \o printed

Running(e) == Contains(todo, Marker(e))

(* An echo is followed by the end of its line; the command's output and    *)
(* its marker come once, in this order, and after an echo.                 *)
Order(e, s) ==
  /\ \A i \in 1..Len(s) : s[i] = Echoed(e) => i + 1 \in 1..Len(s) /\ s[i + 1] = EndOfLine
  /\ Once(s, Output(e)) /\ Once(s, Marker(e))
  /\ \A i, j \in 1..Len(s) : s[i] = Output(e) /\ s[j] = Marker(e) => i < j
  /\ \A i \in 1..Len(s) : s[i] \in {Output(e), Marker(e)} =>
       \E j \in 1..Len(s) : j < i /\ s[j] = Echoed(e)

(* The order is kept by text that has nothing of the command, by its echo, *)
(* and by its output and its marker when their time has come.              *)
LEMMA OrderGrows ==
  ASSUME NEW e \in Execs, NEW s \in Seq(Pieces), NEW p \in Seq(Pieces), Order(e, s),
         \A k \in 1..Len(p) : p[k] = Echoed(e) => k + 1 \in 1..Len(p) /\ p[k + 1] = EndOfLine,
         \A k \in 1..Len(p) : p[k] \in {Output(e), Marker(e)} =>
           /\ Len(p) = 1 /\ Contains(s, Echoed(e))
           /\ ~Contains(s, p[k]) /\ ~Contains(s, Marker(e))
  PROVE  Order(e, s \o p)
<1>1. PICK t \in Seq(Pieces), m \in Nat, n \in Nat : t = s \o p /\ m = Len(s) /\ n = Len(p)
  BY ConcatIs
<1>2. /\ Len(t) = m + n
      /\ \A k \in 1..m : k \in 1..(m + n) /\ t[k] = s[k]
      /\ \A q \in 1..n : m + q \in 1..(m + n) /\ t[m + q] = p[q]
      /\ \A k \in 1..(m + n) : k \in 1..m \/ \E q \in 1..n : k = m + q
  BY <1>1, ConcatIs
<1>3. ASSUME NEW i \in 1..(m + n), t[i] = Echoed(e)
      PROVE  i + 1 \in 1..(m + n) /\ t[i + 1] = EndOfLine
  <2>1. CASE i \in 1..m
    <3>1. i + 1 \in 1..m /\ s[i + 1] = EndOfLine
      BY <1>1, <1>2, <1>3, <2>1 DEF Order
    <3> QED
      BY <3>1, <1>2
  <2>2. ASSUME NEW q \in 1..n, i = m + q PROVE i + 1 \in 1..(m + n) /\ t[i + 1] = EndOfLine
    <3>1. q + 1 \in 1..n /\ p[q + 1] = EndOfLine
      BY <1>1, <1>2, <1>3, <2>2
    <3>2. i + 1 = m + (q + 1)
      BY <2>2
    <3> QED
      BY <3>1, <3>2, <1>2
  <2> QED
    BY <2>1, <2>2, <1>2
<1>4. ASSUME NEW i \in 1..(m + n), t[i] \in {Output(e), Marker(e)}
      PROVE  \/ i \in 1..m /\ s[i] = t[i]
             \/ /\ n = 1 /\ i = m + 1 /\ Contains(s, Echoed(e))
                /\ ~Contains(s, t[i]) /\ ~Contains(s, Marker(e))
  <2>1. ASSUME NEW q \in 1..n, i = m + q
        PROVE  /\ n = 1 /\ i = m + 1 /\ Contains(s, Echoed(e))
               /\ ~Contains(s, t[i]) /\ ~Contains(s, Marker(e))
    <3>1. /\ n = 1 /\ Contains(s, Echoed(e))
          /\ ~Contains(s, t[i]) /\ ~Contains(s, Marker(e))
      BY <1>1, <1>2, <1>4, <2>1
    <3>2. i = m + 1
      BY <3>1, <2>1
    <3> QED
      BY <3>1, <3>2
  <2> QED
    BY <2>1, <1>2
<1>5. ASSUME NEW x \in {Output(e), Marker(e)} PROVE Once(t, x)
  <2>0. DOMAIN s = 1..m /\ DOMAIN t = 1..(m + n)
    BY <1>1, <1>2, LenProperties
  <2>1. SUFFICES ASSUME NEW i \in 1..(m + n), NEW j \in 1..(m + n), t[i] = x, t[j] = x
                 PROVE  i = j
    BY <2>0 DEF Once
  <2>2. \/ i \in 1..m /\ s[i] = x
        \/ i = m + 1 /\ \A k \in 1..m : s[k] # x
    BY <1>1, <1>4, <2>1 DEF Contains
  <2>3. \/ j \in 1..m /\ s[j] = x
        \/ j = m + 1 /\ \A k \in 1..m : s[k] # x
    BY <1>1, <1>4, <2>1 DEF Contains
  <2>4. \A a, b \in 1..m : s[a] = x /\ s[b] = x => a = b
    <3>1. Once(s, x)
      BY DEF Order
    <3> QED
      BY <2>0, <3>1 DEF Once
  <2> QED
    BY <2>2, <2>3, <2>4
<1>6. ASSUME NEW i \in 1..(m + n), NEW j \in 1..(m + n), t[i] = Output(e), t[j] = Marker(e)
      PROVE  i < j
  <2>1. \/ i \in 1..m /\ s[i] = Output(e)
        \/ i = m + 1 /\ n = 1 /\ \A k \in 1..m : s[k] # Marker(e)
    BY <1>1, <1>4, <1>6 DEF Contains
  <2>2. \/ j \in 1..m /\ s[j] = Marker(e)
        \/ j = m + 1 /\ n = 1
    BY <1>1, <1>4, <1>6 DEF Contains
  <2>3. \A a, b \in 1..m : s[a] = Output(e) /\ s[b] = Marker(e) => a < b
    BY <1>1 DEF Order
  <2>4. i # j
    BY <1>6, Distinct
  <2> QED
    BY <2>1, <2>2, <2>3, <2>4
<1>7. ASSUME NEW i \in 1..(m + n), t[i] \in {Output(e), Marker(e)}
      PROVE  \E j \in 1..(m + n) : j < i /\ t[j] = Echoed(e)
  <2>1. CASE i \in 1..m /\ s[i] = t[i]
    <3>1. PICK j \in 1..m : j < i /\ s[j] = Echoed(e)
      BY <1>1, <1>7, <2>1 DEF Order
    <3> QED
      BY <3>1, <1>2
  <2>2. CASE i = m + 1 /\ Contains(s, Echoed(e))
    <3>1. PICK j \in 1..m : s[j] = Echoed(e)
      BY <1>1, <2>2 DEF Contains
    <3>2. j < i
      BY <2>2
    <3> QED
      BY <3>1, <3>2, <1>2
  <2> QED
    BY <2>1, <2>2, <1>4, <1>7
<1> QED
  BY <1>1, <1>2, <1>3, <1>5, <1>6, <1>7 DEF Order

(* Where the file of a request is cut when it holds the marker: after the  *)
(* line of the first echo, and before the marker.                          *)
LEMMA CutOut ==
  ASSUME NEW e \in Execs, NEW f \in Seq(Pieces), NEW p \in Seq(Pieces),
         Order(e, f \o p), MarkAt(f, e) # 0
  PROVE  \E k, mark \in 1..Len(f) :
           /\ f[k] = Echoed(e) /\ \A i \in 1..Len(f) : i < k => f[i] # Echoed(e)
           /\ k + 2 <= mark /\ f[k + 1] = EndOfLine /\ f[mark] = Marker(e)
           /\ ExtractExecOutput(f, e) = TrimRight(SubSeq(f, k + 2, mark - 1))
<1>1. PICK s \in Seq(Pieces), m \in Nat, n \in Nat : s = f \o p /\ m = Len(f) /\ n = Len(s)
  BY ConcatIs, LenProperties
<1>2. m <= n /\ \A i \in 1..m : i \in 1..n /\ s[i] = f[i]
  <2>1. n = m + Len(p) /\ Len(p) \in Nat
    BY <1>1, ConcatIs
  <2> QED
    BY <2>1, <1>1, ConcatIs
<1>3. Mentions(e) \ Commands(e) = {Marker(e)} /\ Commands(e) = {Echoed(e)}
  BY Distinct DEF Mentions, Commands
<1>4. PICK from, mark, k : from = ContentStart(f, e) /\ mark = MarkAt(f, e)
                           /\ k = FirstIn(f, 1, {Echoed(e)})
  OBVIOUS
<1>5. mark = FirstIn(f, from, {Marker(e)}) /\ mark # 0
  BY <1>3, <1>4 DEF MarkAt
<1>6. k = 0 => \A i \in 1..m : f[i] # Echoed(e)
  BY <1>1, <1>4, FirstIs
<1>7. k # 0 => k \in 1..m /\ f[k] = Echoed(e) /\ \A i \in 1..m : i < k => f[i] # Echoed(e)
  <2>1. 1 \in Nat \ {0}
    OBVIOUS
  <2>2. k # 0 => /\ k \in 1..Len(f) /\ f[k] \in {Echoed(e)}
                 /\ \A i \in 1..Len(f) : i < k => f[i] \notin {Echoed(e)}
    BY <2>1, <1>4, FirstIs
  <2> QED
    BY <2>2, <1>1
<1>8. from = IF k = 0 THEN 1 ELSE FirstIn(f, k, {EndOfLine}) + 1
  BY <1>3, <1>4 DEF ContentStart
<1>9. from \in Nat \ {0}
  <2>1. CASE k = 0
    BY <2>1, <1>8
  <2>2. CASE k # 0
    <3>1. FirstIn(f, k, {EndOfLine}) \in Nat
      BY <2>2, <1>1, <1>7, FirstIs
    <3> QED
      BY <3>1, <2>2, <1>8
  <2> QED
    BY <2>1, <2>2
<1>10. mark \in from..m /\ mark \in 1..m /\ f[mark] = Marker(e)
  BY <1>1, <1>5, <1>9, FirstIs
<1>11. PICK j \in 1..n : j < mark /\ s[j] = Echoed(e)
  BY <1>1, <1>2, <1>10 DEF Order
<1>12. j \in 1..m /\ f[j] = Echoed(e)
  <2>1. j \in 1..m
    BY <1>10, <1>11
  <2> QED
    BY <2>1, <1>2, <1>11
<1>13. k # 0 /\ k <= j
  <2>1. k # 0
    BY <1>6, <1>12
  <2>2. ~(j < k)
    BY <2>1, <1>7, <1>12
  <2> QED
    BY <2>1, <2>2, <1>7, <1>12
<1>14. k + 1 \in 1..n /\ s[k + 1] = EndOfLine
  BY <1>1, <1>2, <1>7, <1>13 DEF Order
<1>15. k + 1 \in 1..m /\ f[k + 1] = EndOfLine /\ k + 2 <= mark
  <2>1. k + 1 <= mark /\ k + 1 \in 1..m
    BY <1>7, <1>10, <1>11, <1>13
  <2>2. f[k + 1] = EndOfLine
    BY <2>1, <1>2, <1>14
  <2>3. k + 1 # mark
    BY <2>2, <1>10, Distinct
  <2> QED
    BY <2>1, <2>2, <2>3, <1>7, <1>10, <1>13
<1>16. from = k + 2
  <2>1. PICK g : g = FirstIn(f, k, {EndOfLine})
    OBVIOUS
  <2>2. g # 0
    <3>1. k + 1 \in k..m
      BY <1>7, <1>13, <1>15
    <3> QED
      BY <3>1, <2>1, <1>1, <1>7, <1>13, <1>15, FirstIs
  <2>3. g \in k..m /\ f[g] = EndOfLine /\ \A i \in k..m : i < g => f[i] # EndOfLine
    <3>1. k \in Nat \ {0}
      BY <1>7, <1>13
    <3>2. /\ g \in k..Len(f) /\ f[g] \in {EndOfLine}
          /\ \A i \in k..Len(f) : i < g => f[i] \notin {EndOfLine}
      BY <2>1, <2>2, <3>1, FirstIs
    <3> QED
      BY <3>2, <1>1
  <2>4. g # k
    BY <2>3, <1>7, <1>13, Distinct
  <2>5. ~(k + 1 < g)
    <3>1. k + 1 \in k..m
      BY <1>7, <1>13, <1>15
    <3> QED
      BY <3>1, <2>3, <1>15
  <2>6. g = k + 1
    BY <2>3, <2>4, <2>5, <1>7, <1>13
  <2> QED
    BY <2>1, <2>6, <1>7, <1>8, <1>13
<1>17. ExtractExecOutput(f, e) = TrimRight(SubSeq(f, k + 2, mark - 1))
  BY <1>4, <1>16 DEF ExtractExecOutput
<1> QED
  BY <1>1, <1>7, <1>10, <1>13, <1>15, <1>17

(* What the response holds: all of the output there is, and once.          *)
LEMMA WholeOutput ==
  ASSUME NEW e \in Execs, NEW f \in Seq(Pieces), NEW p \in Seq(Pieces),
         Order(e, f \o p), MarkAt(f, e) # 0
  PROVE  /\ Contains(f \o p, Marker(e))
         /\ Contains(f \o p, Output(e)) <=> Contains(ExtractExecOutput(f, e), Output(e))
         /\ Once(ExtractExecOutput(f, e), Output(e))
<1>1. PICK s \in Seq(Pieces), m \in Nat, n \in Nat : s = f \o p /\ m = Len(f) /\ n = Len(s)
  BY ConcatIs, LenProperties
<1>2. \A i \in 1..m : i \in 1..n /\ s[i] = f[i]
  BY <1>1, ConcatIs
<1>3. PICK k \in 1..m, mark \in 1..m :
           /\ f[k] = Echoed(e) /\ \A i \in 1..m : i < k => f[i] # Echoed(e)
           /\ k + 2 <= mark /\ f[k + 1] = EndOfLine /\ f[mark] = Marker(e)
           /\ ExtractExecOutput(f, e) = TrimRight(SubSeq(f, k + 2, mark - 1))
  BY <1>1, CutOut
<1>4. PICK a \in Nat, b \in Nat : a = k + 2 /\ b = mark - 1
  BY <1>3
<1>5. PICK r : r = SubSeq(f, a, b)
  OBVIOUS
<1>6. /\ r \in Seq(Pieces)
      /\ \A i \in 1..Len(r) : a + i - 1 \in a..b /\ r[i] = f[a + i - 1]
      /\ \A i \in a..b : i - a + 1 \in 1..Len(r) /\ r[i - a + 1] = f[i]
  <2>1. a \in Nat \ {0} /\ b <= Len(f)
    BY <1>1, <1>3, <1>4
  <2> QED
    BY <2>1, <1>1, <1>4, <1>5, PieceOf
<1>7. PICK c \in 0..Len(r) : /\ TrimRight(r) = SubSeq(r, 1, c)
                             /\ \A i \in 1..Len(r) : i > c => r[i] = EndOfLine
  BY <1>6, TrimIs
<1>8. PICK l \in Nat : l = Len(r)
  BY <1>6, LenProperties
<1>9. PICK out : out = ExtractExecOutput(f, e) /\ out = SubSeq(r, 1, c)
  BY <1>3, <1>4, <1>5, <1>7
<1>10. /\ out \in Seq(Pieces) /\ Len(out) = c
       /\ \A i \in 1..c : i \in 1..l /\ out[i] = r[i]
  <2>1. c \in Nat /\ c <= Len(r) /\ 1 \in Nat \ {0}
    BY <1>7, <1>8
  <2>2. /\ out \in Seq(Pieces) /\ (1 <= c => Len(out) = c - 1 + 1) /\ (c < 1 => out = <<>>)
        /\ \A i \in 1..Len(out) : 1 + i - 1 \in 1..c /\ out[i] = r[1 + i - 1]
    BY <2>1, <1>6, <1>9, PieceOf
  <2>3. Len(out) = c
    BY <2>1, <2>2
  <2>4. ASSUME NEW i \in 1..c PROVE i \in 1..l /\ out[i] = r[i]
    <3>1. 1 + i - 1 = i /\ i \in 1..l
      BY <2>1, <1>8
    <3> QED
      BY <3>1, <2>2, <2>3
  <2> QED
    BY <2>2, <2>3, <2>4
<1>11. ASSUME NEW i \in 1..c, out[i] = Output(e)
       PROVE  a + i - 1 \in 1..n /\ s[a + i - 1] = Output(e)
  <2>1. i \in 1..l /\ r[i] = Output(e)
    BY <1>10, <1>11
  <2>2. a + i - 1 \in a..b /\ f[a + i - 1] = Output(e)
    BY <2>1, <1>6, <1>8
  <2>3. a + i - 1 \in 1..m
    BY <2>2, <1>3, <1>4
  <2> QED
    BY <2>2, <2>3, <1>2
<1>12. ASSUME NEW i \in 1..n, s[i] = Output(e) PROVE Contains(out, Output(e))
  <2>1. i < mark
    <3>1. mark \in 1..n /\ s[mark] = Marker(e)
      BY <1>2, <1>3
    <3> QED
      BY <3>1, <1>1, <1>12 DEF Order
  <2>2. i \in 1..m /\ f[i] = Output(e)
    <3>1. i \in 1..m
      BY <2>1
    <3> QED
      BY <3>1, <1>2, <1>12
  <2>3. PICK j \in 1..n : j < i /\ s[j] = Echoed(e)
    BY <1>1, <1>12 DEF Order
  <2>4. j \in 1..m /\ f[j] = Echoed(e)
    <3>1. j \in 1..m
      BY <2>2, <2>3
    <3> QED
      BY <3>1, <1>2, <2>3
  <2>5. k < i
    <3>1. ~(j < k)
      BY <1>3, <2>4
    <3> QED
      BY <3>1, <2>2, <2>3, <2>4
  <2>6. i # k + 1
    BY <2>2, <1>3, Distinct
  <2>7. i \in a..b
    BY <2>1, <2>2, <2>5, <2>6, <1>4
  <2>8. PICK q \in 1..l : q = i - a + 1 /\ r[q] = Output(e)
    BY <2>2, <2>7, <1>6, <1>8
  <2>9. q \in 1..c
    <3>1. ~(q > c)
      BY <2>8, <1>7, <1>8, Distinct
    <3> QED
      BY <3>1, <2>8, <1>7
  <2>10. out[q] = Output(e)
    BY <2>8, <2>9, <1>10
  <2> QED
    BY <2>9, <2>10, <1>10 DEF Contains
<1>13. Once(out, Output(e))
  <2>1. DOMAIN out = 1..c /\ DOMAIN s = 1..n
    BY <1>1, <1>10, LenProperties
  <2>2. \A i, j \in 1..n : s[i] = Output(e) /\ s[j] = Output(e) => i = j
    BY <2>1, <1>1 DEF Order, Once
  <2>3. ASSUME NEW i \in 1..c, NEW j \in 1..c, out[i] = Output(e), out[j] = Output(e)
        PROVE  i = j
    <3>1. a + i - 1 = a + j - 1
      BY <2>2, <2>3, <1>11
    <3> QED
      BY <3>1
  <2> QED
    BY <2>1, <2>3 DEF Once
<1>14. Contains(out, Output(e)) => Contains(s, Output(e))
  BY <1>1, <1>10, <1>11 DEF Contains
<1>15. Contains(s, Output(e)) => Contains(out, Output(e))
  BY <1>1, <1>12 DEF Contains
<1>16. Contains(s, Marker(e))
  BY <1>1, <1>2, <1>3 DEF Contains
<1> QED
  BY <1>1, <1>9, <1>13, <1>14, <1>15, <1>16

-----------------------------------------------------------------------------
(* The life of a command.                                                  *)

(* Before it is typed there is nothing of it anywhere. *)
Unborn(e) == pc[e] \in {"idle", "clear", "write", "failed"} =>
  /\ ~Contains(input, e) /\ ~Running(e)
  /\ \A x \in Mine(e) : x \notin said /\ ~Contains(Stream(e), x)

(* It is typed, waits to be read, runs and ends, one after the other. *)
OnlyOnce(e) ==
  /\ Once(input, e)
  /\ Contains(input, e) => ~Running(e) /\ \A x \in Mine(e) : x \notin said
  /\ Running(e) => Marker(e) \notin said
  /\ Contains(todo, Output(e)) => Output(e) \notin said

(* What it has printed is in the file, or on its way there. *)
Story(e) == pc[e] = "poll" =>
  /\ Order(e, Stream(e))
  /\ Running(e) => Contains(Stream(e), Echoed(e))
  /\ Output(e) \in said <=> Contains(Stream(e), Output(e))
  /\ Marker(e) \in said <=> Contains(Stream(e), Marker(e))

Ended(e) == pc[e] = "done" =>
  /\ Marker(e) \in said
  /\ Output(e) \in said <=> Contains(output[e], Output(e))
  /\ Once(output[e], Output(e))

CommandInv(e) == Unborn(e) /\ OnlyOnce(e) /\ Story(e) /\ Ended(e)

ExecInv == Types /\ \A e \in Execs : CommandInv(e)

(* Steps that do nothing to a command but forget it. *)
Quiet(e) ==
  /\ \/ pc'[e] = pc[e]
     \/ pc[e] \in {"idle", "clear", "write"} /\ pc'[e] \in {"clear", "write", "failed"}
     \/ pc[e] = "poll" /\ pc'[e] \in {"timed out", "lost"}
  /\ pc[e] = "done" => output'[e] = output[e]
  /\ Contains(input', e) => Contains(input, e)
  /\ Once(input, e) => Once(input', e)
  /\ Contains(todo', Marker(e)) => Contains(todo, Marker(e))
  /\ Contains(todo', Output(e)) => Contains(todo, Output(e))
  /\ \A x \in Mine(e) : x \in said' <=> x \in said
  /\ pc[e] # "poll" => \A x \in Mine(e) : Contains(Stream(e)', x) => Contains(Stream(e), x)
  /\ pc'[e] = "poll" =>
       \E p \in Seq(Pieces) : /\ Stream(e)' = Stream(e) \o p
                              /\ \A x \in Mine(e) : ~Contains(p, x)

LEMMA QuietKeeps ==
  ASSUME Types, NEW e \in Execs, CommandInv(e), Quiet(e)
  PROVE  CommandInv(e)'
<1>1. Stream(e) \in Seq(Pieces)
  BY ConcatProperties DEF Stream, Types, TypeOK
<1>2. Mine(e)' = Mine(e) /\ Echoed(e) \in Mine(e) /\ Output(e) \in Mine(e) /\ Marker(e) \in Mine(e)
  BY DEF Mine, Echoed, Output, Marker
<1>3. Unborn(e)'
  BY <1>2 DEF CommandInv, Unborn, Quiet, Running
<1>4. OnlyOnce(e)'
  BY <1>2 DEF CommandInv, OnlyOnce, Quiet, Running
<1>5. Ended(e)'
  BY <1>2 DEF CommandInv, Ended, Quiet
<1>6. ASSUME pc'[e] = "poll" PROVE Story(e)'
  <2>1. PICK p \in Seq(Pieces) : /\ Stream(e)' = Stream(e) \o p
                                 /\ \A x \in Mine(e) : ~Contains(p, x)
    BY <1>6 DEF Quiet
  <2>2. pc[e] = "poll" /\ Story(e)
    BY <1>6 DEF Quiet, CommandInv
  <2>3. \A k \in 1..Len(p) : p[k] \notin Mine(e)
    BY <2>1 DEF Contains
  <2>4. Order(e, Stream(e) \o p)
    BY <1>1, <1>2, <2>2, <2>3, OrderGrows DEF Story
  <2>5. \A x \in Mine(e) : Contains(Stream(e) \o p, x) <=> Contains(Stream(e), x)
    BY <1>1, <2>1, ConcatContains
  <2>6. PICK t : t = Stream(e)' /\ Order(e, t)
                 /\ \A x \in Mine(e) : Contains(t, x) <=> Contains(Stream(e), x)
    BY <2>1, <2>4, <2>5
  <2>7. Order(e, Stream(e))'
    BY <2>6 DEF Order, Echoed, Output, Marker
  <2> QED
    BY <1>2, <2>2, <2>6, <2>7 DEF Story, Quiet, Running
<1>7. Story(e)'
  BY <1>6 DEF Story
<1> QED
  BY <1>3, <1>4, <1>5, <1>7 DEF CommandInv

(* Typing adds one to what waits to be read; reading takes from its front. *)
LEMMA TypedOnce ==
  ASSUME NEW s \in Seq(Typists), NEW x \in Typists
  PROVE  /\ \A e : Contains(Append(s, x), e) <=> Contains(s, e) \/ x = e
         /\ \A e : Once(s, e) /\ (x = e => ~Contains(s, e)) => Once(Append(s, x), e)
<1>1. PICK t \in Seq(Typists), n \in Nat : t = Append(s, x) /\ n = Len(s)
  BY AppendProperties, LenProperties
<1>2. /\ Len(t) = n + 1 /\ DOMAIN t = 1..(n + 1) /\ DOMAIN s = 1..n
      /\ t[n + 1] = x /\ \A i \in 1..n : t[i] = s[i]
  BY <1>1, AppendProperties, LenProperties
<1>3. \A i \in 1..(n + 1) : i \in 1..n \/ i = n + 1
  OBVIOUS
<1>4. n + 1 \in 1..(n + 1) /\ \A i \in 1..n : i \in 1..(n + 1)
  OBVIOUS
<1>5. ASSUME NEW e PROVE Contains(t, e) <=> Contains(s, e) \/ x = e
  BY <1>1, <1>2, <1>3, <1>4 DEF Contains
<1>6. ASSUME NEW e, Once(s, e), x = e => ~Contains(s, e) PROVE Once(t, e)
  <2>1. x = e => \A i \in 1..n : s[i] # e
    BY <1>1, <1>6 DEF Contains
  <2> QED
    BY <2>1, <1>2, <1>3, <1>6 DEF Once
<1> QED
  BY <1>1, <1>5, <1>6

LEMMA ReadOnce ==
  ASSUME NEW s \in Seq(Typists), NEW n \in 1..Len(s)
  PROVE  LET r == SubSeq(s, n + 1, Len(s)) IN
         \A e : /\ Contains(r, e) => Contains(s, e)
                /\ Once(s, e) => Once(r, e)
                /\ Once(s, e) /\ s[n] = e => ~Contains(r, e)
<1>1. PICK r \in Seq(Typists), m \in Nat, l \in Nat :
        r = SubSeq(s, n + 1, Len(s)) /\ m = Len(s) /\ l = Len(r)
  BY RestIs, LenProperties
<1>2. /\ DOMAIN r = 1..l /\ DOMAIN s = 1..m
      /\ \A k \in 1..l : n + k \in 1..m /\ r[k] = s[n + k]
  BY <1>1, RestIs, LenProperties
<1>3. ASSUME NEW e PROVE Contains(r, e) => Contains(s, e)
  BY <1>1, <1>2 DEF Contains
<1>4. ASSUME NEW e, Once(s, e) PROVE Once(r, e)
  <2>1. ASSUME NEW i \in 1..l, NEW j \in 1..l, r[i] = e, r[j] = e PROVE i = j
    <3>1. n + i = n + j
      BY <2>1, <1>2, <1>4 DEF Once
    <3> QED
      BY <3>1
  <2> QED
    BY <2>1, <1>2 DEF Once
<1>5. ASSUME NEW e, Once(s, e), s[n] = e PROVE ~Contains(r, e)
  <2>1. ASSUME NEW i \in 1..l PROVE r[i] # e
    <3>1. n + i # n /\ n \in 1..m
      BY <1>1
    <3> QED
      BY <3>1, <1>2, <1>5 DEF Once
  <2> QED
    BY <2>1, <1>1 DEF Contains
<1> QED
  BY <1>1, <1>3, <1>4, <1>5

(* What is printed comes at the end of what a request follows. *)
LEMMA StreamGrows ==
  ASSUME Types, NEW e \in Execs, NEW p \in Seq(Pieces)
  PROVE  /\ Stream(e) \in Seq(Pieces) /\ file[e] \o (printed \o p) = Stream(e) \o p
         /\ \A x : Contains(Stream(e), x) <=> Contains(file[e], x) \/ Contains(printed, x)
<1>1. file[e] \in Seq(Pieces) /\ printed \in Seq(Pieces)
  BY DEF Types, TypeOK
<1>2. Stream(e) \in Seq(Pieces)
  BY <1>1, ConcatProperties DEF Stream
<1>3. file[e] \o (printed \o p) = Stream(e) \o p
  <2>1. \A a, b, c \in Seq(Pieces) : (a \o b) \o c = a \o (b \o c)
    BY Associates
  <2> QED
    BY <2>1, <1>1 DEF Stream
<1>4. \A x : Contains(Stream(e), x) <=> Contains(file[e], x) \/ Contains(printed, x)
  BY <1>1, ConcatContains DEF Stream
<1> QED
  BY <1>2, <1>3, <1>4

(* Steps that print nothing of a command and leave its file alone. *)
LEMMA OtherText ==
  ASSUME Types, NEW e \in Execs, NEW p \in Seq(Pieces), file'[e] = file[e],
         printed' = printed \o p, \A x \in Mine(e) : ~Contains(p, x)
  PROVE  /\ \A x \in Mine(e) : Contains(Stream(e)', x) => Contains(Stream(e), x)
         /\ \E q \in Seq(Pieces) : /\ Stream(e)' = Stream(e) \o q
                                   /\ \A x \in Mine(e) : ~Contains(q, x)
<1>1. Stream(e)' = Stream(e) \o p /\ Stream(e) \in Seq(Pieces)
  BY StreamGrows DEF Stream
<1>2. \A x : Contains(Stream(e) \o p, x) <=> Contains(Stream(e), x) \/ Contains(p, x)
  BY <1>1, ConcatContains
<1>3. PICK t : t = Stream(e)' /\ \A x : Contains(t, x) <=> Contains(Stream(e), x) \/ Contains(p, x)
  BY <1>1, <1>2
<1>4. \A x \in Mine(e) : Contains(t, x) => Contains(Stream(e), x)
  BY <1>3
<1> QED
  BY <1>1, <1>3, <1>4

(* Nobody's typing and nobody's step but the command's own are noticed.    *)
LEMMA TypedBesides ==
  ASSUME Types, NEW e \in Execs, NEW x \in Typists, x # e, WriteInput(x), file'[e] = file[e]
  PROVE  /\ UNCHANGED <<shell, todo>>
         /\ Contains(input', e) => Contains(input, e)
         /\ Once(input, e) => Once(input', e)
         /\ \A y \in Mine(e) : Contains(Stream(e)', y) => Contains(Stream(e), y)
         /\ \E p \in Seq(Pieces) : /\ Stream(e)' = Stream(e) \o p
                                   /\ \A y \in Mine(e) : ~Contains(p, y)
<1>1. /\ UNCHANGED <<shell, todo>>
      /\ \/ UNCHANGED <<input, printed>>
         \/ /\ input' = Append(input, x)
            /\ printed' = printed \/ printed' = printed \o Echo(x)
  BY TypingText DEF Types, TypeOK
<1>2. input \in Seq(Typists) /\ printed \in Seq(Pieces)
  BY DEF Types, TypeOK, Typists
<1>3. /\ Contains(input', e) => Contains(input, e)
      /\ Once(input, e) => Once(input', e)
  <2>1. /\ Contains(Append(input, x), e) => Contains(input, e)
        /\ Once(input, e) => Once(Append(input, x), e)
    BY <1>2, TypedOnce
  <2>2. CASE input' = input
    BY <2>2
  <2>3. CASE input' = Append(input, x)
    BY <2>1, <2>3
  <2> QED
    BY <2>2, <2>3, <1>1
<1>4. PICK p \in Seq(Pieces) : printed' = printed \o p /\ (p = <<>> \/ p = Echo(x))
  <2>1. printed \o <<>> = printed /\ <<>> \in Seq(Pieces) /\ Echo(x) \in Seq(Pieces)
    BY <1>2, ConcatEmptySeq, EchoIs, EmptySeq
  <2> QED
    BY <2>1, <1>1
<1>5. \A y \in Mine(e) : ~Contains(Echo(x), y)
  <2>1. Echo(x) = <<>> \/ Echo(x) = <<EndOfLine>>
        \/ (x \in Execs /\ Echo(x) = <<Echoed(x), EndOfLine>>)
    BY EchoIs DEF Typists
  <2>3. EndOfLine \notin Mine(e) /\ (x \in Execs => Echoed(x) \notin Mine(e))
    BY Distinct DEF Mine
  <2>4. ASSUME NEW y \in Mine(e) PROVE ~Contains(Echo(x), y)
    <3>1. y # EndOfLine /\ (x \in Execs => y # Echoed(x))
      BY <2>3
    <3>2. CASE Echo(x) = <<>>
      BY <3>2, ContainsFew
    <3>3. CASE Echo(x) = <<EndOfLine>>
      BY <3>1, <3>3, ContainsFew
    <3>4. CASE x \in Execs /\ Echo(x) = <<Echoed(x), EndOfLine>>
      BY <3>1, <3>4, ContainsFew
    <3> QED
      BY <2>1, <3>2, <3>3, <3>4
  <2> QED
    BY <2>4
<1>6. \A y \in Mine(e) : ~Contains(p, y)
  <2>1. \A y : ~Contains(<<>>, y)
    BY DEF Contains
  <2> QED
    BY <2>1, <1>4, <1>5
<1>7. /\ \A y \in Mine(e) : Contains(Stream(e)', y) => Contains(Stream(e), y)
      /\ \E q \in Seq(Pieces) : /\ Stream(e)' = Stream(e) \o q
                                /\ \A y \in Mine(e) : ~Contains(q, y)
  BY <1>4, <1>6, OtherText
<1> QED
  BY <1>1, <1>3, <1>7

(* A request that only moves on, or is forgotten. *)
LEMMA OthersMove ==
  ASSUME Types, NEW e \in Execs, UNCHANGED <<pty, said>>,
         \/ pc'[e] = pc[e] /\ file'[e] = file[e] /\ output'[e] = output[e]
         \/ pc[e] = "idle" /\ pc'[e] = "clear" /\ file'[e] = <<>>
         \/ pc[e] \in {"idle", "clear", "write"} /\ pc'[e] = "failed" /\ file'[e] = <<>>
         \/ pc[e] = "poll" /\ pc'[e] \in {"timed out", "lost"}
  PROVE  Quiet(e)
<1>1. /\ input' = input /\ todo' = todo /\ printed' = printed /\ said' = said
      /\ file[e] \in Seq(Pieces) /\ printed \in Seq(Pieces)
  BY DEF pty, Types, TypeOK
<1>2. printed \o <<>> = printed /\ <<>> \in Seq(Pieces) /\ \A x : ~Contains(<<>>, x)
  <2>1. printed \o <<>> = printed /\ <<>> \in Seq(Pieces)
    BY <1>1, ConcatEmptySeq, EmptySeq
  <2>2. \A x : ~Contains(<<>>, x)
    BY ContainsFew
  <2> QED
    BY <2>1, <2>2
<1>3. ASSUME file'[e] = file[e]
      PROVE  /\ \A x \in Mine(e) : Contains(Stream(e)', x) => Contains(Stream(e), x)
             /\ \E q \in Seq(Pieces) : /\ Stream(e)' = Stream(e) \o q
                                       /\ \A x \in Mine(e) : ~Contains(q, x)
  BY <1>1, <1>2, <1>3, OtherText
<1>4. ASSUME file'[e] = <<>>
      PROVE  \A x \in Mine(e) : Contains(Stream(e)', x) => Contains(Stream(e), x)
  <2>1. Stream(e)' = <<>> \o printed
    BY <1>1, <1>4 DEF Stream
  <2>2. \A x : Contains(<<>> \o printed, x) <=> Contains(printed, x)
    BY <1>1, <1>2, ConcatContains
  <2>3. \A x : Contains(printed, x) => Contains(Stream(e), x)
    BY <1>2, StreamGrows
  <2>4. PICK t : t = Stream(e)' /\ \A x : Contains(t, x) => Contains(Stream(e), x)
    BY <2>1, <2>2, <2>3
  <2> QED
    BY <2>4
<1>5. CASE pc'[e] = pc[e] /\ file'[e] = file[e] /\ output'[e] = output[e]
  BY <1>1, <1>3, <1>5 DEF Quiet
<1>6. CASE /\ \/ pc[e] = "idle" /\ pc'[e] = "clear"
              \/ pc[e] \in {"idle", "clear", "write"} /\ pc'[e] = "failed"
           /\ file'[e] = <<>>
  BY <1>1, <1>4, <1>6 DEF Quiet
<1>7. CASE pc[e] = "poll" /\ pc'[e] \in {"timed out", "lost"}
  BY <1>1, <1>7 DEF Quiet
<1> QED
  BY <1>5, <1>6, <1>7

(* The steps that make a command's life. *)

LEMMA TypingIt ==
  ASSUME Types, NEW e \in Execs, CommandInv(e), Write(e)
  PROVE  CommandInv(e)'
<1>1. /\ pc[e] = "write" /\ pc'[e] = "poll" /\ file' = file /\ said' = said /\ WriteInput(e)
  BY DEF Write, Goes, Types, TypeOK
<1>2. /\ ~Contains(input, e) /\ ~Running(e)
      /\ \A x \in Mine(e) : x \notin said /\ ~Contains(Stream(e), x)
      /\ Once(input, e)
  BY <1>1 DEF CommandInv, Unborn, OnlyOnce
<1>3. /\ UNCHANGED <<shell, todo>>
      /\ \/ UNCHANGED <<input, printed>>
         \/ /\ input' = Append(input, e)
            /\ printed' = printed \/ printed' = printed \o Echo(e)
  BY <1>1, TypingText DEF Types, TypeOK, Typists
<1>4. Once(input', e)
  <2>1. input \in Seq(Typists) /\ e \in Typists
    BY DEF Types, TypeOK, Typists
  <2>2. Once(Append(input, e), e)
    BY <2>1, <1>2, TypedOnce
  <2>3. CASE input' = input
    BY <2>3, <1>2
  <2>4. CASE input' = Append(input, e)
    BY <2>2, <2>4
  <2> QED
    BY <2>3, <2>4, <1>3
<1>5. Output(e) \in Mine(e) /\ Marker(e) \in Mine(e) /\ Echoed(e) \in Mine(e) /\ Mine(e)' = Mine(e)
  BY DEF Mine, Echoed, Output, Marker
<1>6. Stream(e) \in Seq(Pieces) /\ file[e] \in Seq(Pieces) /\ printed \in Seq(Pieces)
  BY StreamGrows, EmptySeq DEF Types, TypeOK
<1>7. PICK p \in Seq(Pieces) :
        /\ p = <<>> \/ p = <<Echoed(e), EndOfLine>>
        /\ Stream(e)' = Stream(e) \o p
  <2>1. <<Echoed(e), EndOfLine>> \in Seq(Pieces) /\ <<>> \in Seq(Pieces)
    BY PieceTypes, Pairs, EmptySeq
  <2>2. Echo(e) = <<Echoed(e), EndOfLine>> /\ Stream(e) \o <<>> = Stream(e)
    BY EchoIs, <1>6, ConcatEmptySeq
  <2>3. file[e] \o (printed \o <<Echoed(e), EndOfLine>>) = Stream(e) \o <<Echoed(e), EndOfLine>>
    BY <2>1, StreamGrows
  <2>4. CASE printed' = printed
    <3>1. Stream(e)' = Stream(e) \o <<>>
      BY <1>1, <2>2, <2>4 DEF Stream
    <3> QED
      BY <3>1, <2>1
  <2>5. CASE printed' = printed \o Echo(e)
    <3>1. Stream(e)' = Stream(e) \o <<Echoed(e), EndOfLine>>
      BY <1>1, <2>2, <2>3, <2>5 DEF Stream
    <3> QED
      BY <3>1, <2>1
  <2> QED
    BY <2>4, <2>5, <1>3
<1>8. Order(e, Stream(e))
  <2>1. \A i \in 1..Len(Stream(e)) : Stream(e)[i] \notin Mine(e)
    BY <1>2 DEF Contains
  <2>2. DOMAIN Stream(e) = 1..Len(Stream(e))
    BY <1>6, LenProperties
  <2>3. Once(Stream(e), Output(e)) /\ Once(Stream(e), Marker(e))
    BY <2>1, <2>2, <1>5 DEF Once
  <2> QED
    BY <2>1, <2>3, <1>5 DEF Order
<1>9. p # <<>> => Len(p) = 2 /\ p[1] = Echoed(e) /\ p[2] = EndOfLine
  BY <1>7
<1>10. Order(e, Stream(e) \o p)
  <2>1. \A k \in 1..Len(p) : k = 1 \/ k = 2
    BY <1>7, <1>9
  <2>2. \A k \in 1..Len(p) : p[k] = Echoed(e) => k + 1 \in 1..Len(p) /\ p[k + 1] = EndOfLine
    BY <2>1, <1>7, <1>9, Distinct
  <2>3. \A k \in 1..Len(p) : p[k] \notin {Output(e), Marker(e)}
    BY <2>1, <1>7, <1>9, Distinct
  <2> QED
    BY <2>2, <2>3, <1>6, <1>8, OrderGrows
<1>11. ~Contains(p, Output(e)) /\ ~Contains(p, Marker(e))
  BY <1>7, ContainsFew, Distinct
<1>12. ~Contains(Stream(e) \o p, Output(e)) /\ ~Contains(Stream(e) \o p, Marker(e))
  BY <1>2, <1>5, <1>6, <1>11, ConcatContains
<1>13. Order(e, Stream(e))' /\ ~Contains(Stream(e), Output(e))' /\ ~Contains(Stream(e), Marker(e))'
  <2>1. PICK t : t = Stream(e)' /\ Order(e, t) /\ ~Contains(t, Output(e)) /\ ~Contains(t, Marker(e))
    BY <1>7, <1>10, <1>12
  <2> QED
    BY <2>1 DEF Order, Echoed, Output, Marker
<1>14. Story(e)'
  BY <1>1, <1>2, <1>3, <1>5, <1>13 DEF Story, Running
<1>15. OnlyOnce(e)'
  BY <1>1, <1>2, <1>3, <1>4, <1>5 DEF OnlyOnce, Running
<1> QED
  BY <1>1, <1>14, <1>15 DEF CommandInv, Unborn, Ended

LEMMA ReadingIt ==
  ASSUME Types, NEW e \in Execs, CommandInv(e), NEW n \in 1..Len(input), input[n] = e,
         shell = "prompt", printed' = printed \o Echo(e),
         todo' = Work(SubSeq(input, 1, n)), input' = SubSeq(input, n + 1, Len(input)),
         UNCHANGED <<request, said>>
  PROVE  CommandInv(e)'
<1>1. /\ input \in Seq(Typists) /\ e # Enter /\ e # User
      /\ pc' = pc /\ file' = file /\ output' = output /\ said' = said
  BY TypistsAssumption DEF Types, TypeOK, Typists, request
<1>2. Contains(input, e) /\ Once(input, e)
  BY DEF Contains, CommandInv, OnlyOnce
<1>3. /\ ~Running(e) /\ \A x \in Mine(e) : x \notin said
      /\ pc[e] \notin {"idle", "clear", "write", "failed"}
  BY <1>2 DEF CommandInv, OnlyOnce, Unborn
<1>4. Output(e) \in Mine(e) /\ Marker(e) \in Mine(e) /\ Echoed(e) \in Mine(e) /\ Mine(e)' = Mine(e)
  BY DEF Mine, Echoed, Output, Marker
<1>5. pc[e] # "done"
  BY <1>3, <1>4 DEF CommandInv, Ended
<1>6. ~Contains(input', e) /\ Once(input', e)
  <2>1. PICK r : r = SubSeq(input, n + 1, Len(input))
    OBVIOUS
  <2>2. ~Contains(r, e) /\ Once(r, e)
    BY <2>1, <1>1, <1>2, ReadOnce
  <2> QED
    BY <2>1, <2>2
<1>7. OnlyOnce(e)'
  BY <1>1, <1>3, <1>4, <1>6 DEF OnlyOnce
<1>8. ASSUME pc[e] = "poll" PROVE Story(e)'
  <2>1. /\ Order(e, Stream(e))
        /\ ~Contains(Stream(e), Output(e)) /\ ~Contains(Stream(e), Marker(e))
    BY <1>3, <1>4, <1>8 DEF CommandInv, Story
  <2>2. PICK p \in Seq(Pieces) : p = <<Echoed(e), EndOfLine>>
    BY PieceTypes, Pairs
  <2>3. Stream(e) \in Seq(Pieces) /\ Stream(e)' = Stream(e) \o p
    <3>1. file[e] \o (printed \o p) = Stream(e) \o p /\ Stream(e) \in Seq(Pieces)
      BY StreamGrows
    <3> QED
      BY <3>1, <2>2, <1>1, EchoIs DEF Stream
  <2>4. Order(e, Stream(e) \o p)
    <3>1. Len(p) = 2 /\ p[1] = Echoed(e) /\ p[2] = EndOfLine /\ \A k \in 1..2 : k = 1 \/ k = 2
      BY <2>2
    <3>2. \A k \in 1..Len(p) : p[k] = Echoed(e) => k + 1 \in 1..Len(p) /\ p[k + 1] = EndOfLine
      BY <3>1, Distinct
    <3>3. \A k \in 1..Len(p) : p[k] \notin {Output(e), Marker(e)}
      BY <3>1, Distinct
    <3> QED
      BY <3>2, <3>3, <2>1, <2>3, OrderGrows
  <2>5. \A x : Contains(p, x) <=> x = Echoed(e) \/ x = EndOfLine
    BY <2>2, ContainsFew
  <2>6. /\ Contains(Stream(e) \o p, Echoed(e))
        /\ ~Contains(Stream(e) \o p, Output(e)) /\ ~Contains(Stream(e) \o p, Marker(e))
    BY <2>1, <2>3, <2>5, ConcatContains, Distinct
  <2>7. PICK t : t = Stream(e)' /\ Order(e, t) /\ Contains(t, Echoed(e))
                 /\ ~Contains(t, Output(e)) /\ ~Contains(t, Marker(e))
    BY <2>3, <2>4, <2>6
  <2>8. Order(e, Stream(e))' /\ Contains(Stream(e), Echoed(e))'
        /\ ~Contains(Stream(e), Output(e))' /\ ~Contains(Stream(e), Marker(e))'
    BY <2>7 DEF Order, Echoed, Output, Marker
  <2> QED
    BY <2>8, <1>1, <1>3, <1>4 DEF Story
<1> QED
  BY <1>1, <1>3, <1>5, <1>7, <1>8 DEF CommandInv, Unborn, Ended, Story

LEMMA PrintingIt ==
  ASSUME Types, NEW e \in Execs, CommandInv(e), todo # <<>>, Head(todo) \in Mine(e),
         todo' = Tail(todo), printed' = printed \o <<Head(todo)>>,
         said' = said \cup {Head(todo)}, UNCHANGED <<request, input>>
  PROVE  CommandInv(e)'
<1>1. /\ pc' = pc /\ file' = file /\ output' = output /\ input' = input
      /\ todo \in TodoForms
  BY DEF Types, TypeOK, request
<1>2. PICK x : x = Head(todo)
  OBVIOUS
<1>3. /\ x \in Pieces /\ Contains(todo, x) /\ x \in {Output(e), Marker(e)}
      /\ ~Contains(Tail(todo), Output(e))
      /\ \A y : Contains(Tail(todo), y) => Contains(todo, y)
  BY <1>1, <1>2, TodoEnds DEF Mine
<1>4. Running(e) /\ x \notin said
  <2>1. Running(e)
    BY <1>1, <1>2, <1>3, TodoEnds DEF Running
  <2> QED
    BY <2>1, <1>3 DEF CommandInv, OnlyOnce
<1>5. Marker(e) \notin said /\ ~Contains(input, e) /\ Once(input, e)
      /\ pc[e] \notin {"idle", "clear", "write", "failed", "done"}
  BY <1>4 DEF CommandInv, OnlyOnce, Unborn, Ended
<1>6. Output(e) # Marker(e) /\ Echoed(e) \notin {Output(e), Marker(e)}
  BY Distinct
<1>7. CASE x = Marker(e)
  <2>1. Tail(todo) = <<>>
    <3>1. Marker(e) \notin {Output(User), Output(e)}
      BY Distinct
    <3> QED
      BY <3>1, <1>1, <1>2, <1>3, <1>7, TodoEnds
  <2>2. ~Contains(todo', Marker(e)) /\ ~Contains(todo', Output(e))
    <3>1. \A w : w = <<>> => \A y : ~Contains(w, y)
      BY ContainsFew
    <3>2. todo' = <<>>
      BY <2>1
    <3> QED
      BY <3>1, <3>2
  <2>3. OnlyOnce(e)'
    BY <2>2, <1>1, <1>5 DEF OnlyOnce, Running, Marker, Output
  <2>4. ASSUME pc[e] = "poll" PROVE Story(e)'
    <3>1. /\ Order(e, Stream(e)) /\ Contains(Stream(e), Echoed(e))
          /\ Output(e) \in said <=> Contains(Stream(e), Output(e))
          /\ ~Contains(Stream(e), Marker(e))
      BY <1>4, <1>5, <2>4 DEF CommandInv, Story
    <3>2. PICK p \in Seq(Pieces) : p = <<Marker(e)>>
      BY PieceTypes, Pairs
    <3>3. Stream(e) \in Seq(Pieces) /\ Stream(e)' = Stream(e) \o p
      <4>1. file[e] \o (printed \o p) = Stream(e) \o p /\ Stream(e) \in Seq(Pieces)
        BY StreamGrows
      <4> QED
        BY <4>1, <3>2, <1>1, <1>2, <1>7 DEF Stream
    <3>4. Order(e, Stream(e) \o p)
      <4>1. Len(p) = 1 /\ \A k \in 1..Len(p) : p[k] = Marker(e)
        BY <3>2
      <4> QED
        BY <4>1, <3>1, <3>3, <1>6, OrderGrows
    <3>5. \A y : Contains(p, y) <=> y = Marker(e)
      BY <3>2, ContainsFew
    <3>6. \A y : Contains(Stream(e) \o p, y) <=> Contains(Stream(e), y) \/ y = Marker(e)
      BY <3>3, <3>5, ConcatContains
    <3>7. PICK t : /\ t = Stream(e)' /\ Order(e, t)
                   /\ \A y : Contains(t, y) <=> Contains(Stream(e), y) \/ y = Marker(e)
      BY <3>3, <3>4, <3>6
    <3> QED
      BY <3>1, <3>7, <1>2, <1>6, <1>7 DEF Story, Running, Order, Echoed, Output, Marker
  <2> QED
    BY <2>3, <2>4, <1>1, <1>5 DEF CommandInv, Unborn, Ended, Story
<1>8. CASE x = Output(e)
  <2>1. /\ ~Contains(todo', Output(e)) /\ (Contains(todo', Marker(e)) => Contains(todo, Marker(e)))
        /\ Marker(e) \notin said'
    BY <1>2, <1>3, <1>5, <1>6, <1>8
  <2>3. OnlyOnce(e)'
    BY <2>1, <1>1, <1>5 DEF OnlyOnce, Running, Marker, Output
  <2>4. ASSUME pc[e] = "poll" PROVE Story(e)'
    <3>1. /\ Order(e, Stream(e)) /\ Contains(Stream(e), Echoed(e))
          /\ ~Contains(Stream(e), Output(e)) /\ ~Contains(Stream(e), Marker(e))
      BY <1>4, <1>5, <1>8, <2>4 DEF CommandInv, Story
    <3>2. PICK p \in Seq(Pieces) : p = <<Output(e)>>
      BY PieceTypes, Pairs
    <3>3. Stream(e) \in Seq(Pieces) /\ Stream(e)' = Stream(e) \o p
      <4>1. file[e] \o (printed \o p) = Stream(e) \o p /\ Stream(e) \in Seq(Pieces)
        BY StreamGrows
      <4> QED
        BY <4>1, <3>2, <1>1, <1>2, <1>8 DEF Stream
    <3>4. Order(e, Stream(e) \o p)
      <4>1. Len(p) = 1 /\ \A k \in 1..Len(p) : p[k] = Output(e)
        BY <3>2
      <4> QED
        BY <4>1, <3>1, <3>3, <1>6, OrderGrows
    <3>5. \A y : Contains(p, y) <=> y = Output(e)
      BY <3>2, ContainsFew
    <3>6. \A y : Contains(Stream(e) \o p, y) <=> Contains(Stream(e), y) \/ y = Output(e)
      BY <3>3, <3>5, ConcatContains
    <3>7. PICK t : /\ t = Stream(e)' /\ Order(e, t)
                   /\ \A y : Contains(t, y) <=> Contains(Stream(e), y) \/ y = Output(e)
      BY <3>3, <3>4, <3>6
    <3> QED
      BY <3>1, <3>7, <2>1, <1>2, <1>6, <1>8 DEF Story, Running, Order, Echoed, Output, Marker
  <2> QED
    BY <2>3, <2>4, <1>1, <1>5 DEF CommandInv, Unborn, Ended, Story
<1> QED
  BY <1>3, <1>7, <1>8

LEMMA AnsweringIt ==
  ASSUME Types, NEW e \in Execs, CommandInv(e), Done(e)
  PROVE  CommandInv(e)'
<1>1. PICK t : Respond(e, "done", ExtractExecOutput(file[e], e), t)
  BY DEF Done
<1>2. /\ pc[e] = "poll" /\ MarkAt(file[e], e) # 0
      /\ pc'[e] \in {"done", "lost"} /\ UNCHANGED <<pty, said>>
      /\ output'[e] = ExtractExecOutput(file[e], e)
  BY <1>1 DEF Done, Respond, Types, TypeOK
<1>3. file[e] \in Seq(Pieces) /\ printed \in Seq(Pieces)
  BY DEF Types, TypeOK
<1>4. /\ Order(e, file[e] \o printed)
      /\ Output(e) \in said <=> Contains(file[e] \o printed, Output(e))
      /\ Marker(e) \in said <=> Contains(file[e] \o printed, Marker(e))
  BY <1>2 DEF CommandInv, Story, Stream
<1>5. /\ Contains(file[e] \o printed, Marker(e))
      /\ Contains(file[e] \o printed, Output(e)) <=> Contains(ExtractExecOutput(file[e], e), Output(e))
      /\ Once(ExtractExecOutput(file[e], e), Output(e))
  BY <1>2, <1>3, <1>4, WholeOutput
<1>6. Ended(e)'
  BY <1>2, <1>4, <1>5 DEF Ended, Marker, Output
<1>7. OnlyOnce(e)'
  BY <1>2 DEF CommandInv, OnlyOnce, Running, pty, Marker, Output, Mine, Echoed
<1> QED
  BY <1>2, <1>6, <1>7 DEF CommandInv, Unborn, Story

(* Every step, as a command sees it. *)
LEMMA CommandStep ==
  ASSUME Types, [Next]_vars, NEW e \in Execs, CommandInv(e)
  PROVE  CommandInv(e)'
<1> USE DEF request
<1>1. /\ e \in Typists /\ User \in Typists /\ Enter \in Typists /\ e # User /\ e # Enter
      /\ Execs \subseteq Typists
      /\ input \in Seq(Typists) /\ printed \in Seq(Pieces) /\ file[e] \in Seq(Pieces)
      /\ todo \in TodoForms
  BY TypistsAssumption DEF Typists, Types, TypeOK
<1>2. ASSUME NEW d \in Execs, Seek(d) \/ Fail(d) PROVE Quiet(e)
  <2>1. /\ UNCHANGED <<pty, said>> /\ output' = output
        /\ file' = [file EXCEPT ![d] = <<>>]
        /\ \/ pc[d] = "idle" /\ pc' = [pc EXCEPT ![d] = "clear"]
           \/ pc[d] \in {"idle", "clear", "write"} /\ pc' = [pc EXCEPT ![d] = "failed"]
    BY <1>2 DEF Seek, Fail, Goes
  <2>2. \/ pc'[e] = pc[e] /\ file'[e] = file[e] /\ output'[e] = output[e]
        \/ pc[e] = "idle" /\ pc'[e] = "clear" /\ file'[e] = <<>>
        \/ pc[e] \in {"idle", "clear", "write"} /\ pc'[e] = "failed" /\ file'[e] = <<>>
    BY <2>1 DEF Types, TypeOK
  <2> QED
    BY <2>1, <2>2, OthersMove
<1>3. ASSUME NEW d \in Execs, Done(d) \/ Expire(d), d # e PROVE Quiet(e)
  <2>1. PICK how, out, t : Respond(d, how, out, t)
    BY <1>3 DEF Done, Expire
  <2>2. /\ UNCHANGED <<pty, said>>
        /\ pc'[e] = pc[e] /\ file'[e] = file[e] /\ output'[e] = output[e]
    BY <2>1, <1>3 DEF Respond, Types, TypeOK
  <2> QED
    BY <2>2, OthersMove
<1>4. ASSUME Expire(e) PROVE Quiet(e)
  <2>1. /\ UNCHANGED <<pty, said>>
        /\ pc[e] = "poll" /\ pc'[e] \in {"timed out", "lost"}
    BY <1>4 DEF Expire, Respond, Types, TypeOK
  <2> QED
    BY <2>1, OthersMove
<1>5. ASSUME NEW x \in Typists, x # e, WriteInput(x), UNCHANGED <<file, output, said>>,
             \/ pc'[e] = pc[e]
             \/ pc[e] = "clear" /\ pc'[e] = "write"
      PROVE  Quiet(e)
  <2>1. /\ UNCHANGED <<shell, todo>>
        /\ Contains(input', e) => Contains(input, e)
        /\ Once(input, e) => Once(input', e)
        /\ \A y \in Mine(e) : Contains(Stream(e)', y) => Contains(Stream(e), y)
        /\ \E p \in Seq(Pieces) : /\ Stream(e)' = Stream(e) \o p
                                  /\ \A y \in Mine(e) : ~Contains(p, y)
    BY <1>5, TypedBesides
  <2> QED
    BY <2>1, <1>5 DEF Quiet
<1>6. ASSUME NEW d \in Execs, Clear(d) PROVE Quiet(e)
  <2>1. /\ WriteInput(Enter) /\ UNCHANGED <<file, output, said>>
        /\ pc'[e] = pc[e] \/ (pc[e] = "clear" /\ pc'[e] = "write")
    BY <1>6 DEF Clear, Goes, Types, TypeOK
  <2> QED
    BY <2>1, <1>1, <1>5
<1>7. ASSUME NEW d \in Execs, Write(d), d # e PROVE Quiet(e)
  <2>1. /\ WriteInput(d) /\ UNCHANGED <<file, output, said>> /\ pc'[e] = pc[e]
    BY <1>7 DEF Write, Goes, Types, TypeOK
  <2> QED
    BY <2>1, <1>1, <1>5, <1>7
<1>8. ASSUME NEW x \in {User, Enter}, Press(x) PROVE Quiet(e)
  <2>1. /\ WriteInput(x) /\ UNCHANGED <<file, output, said>> /\ pc'[e] = pc[e]
    BY <1>8 DEF Press
  <2> QED
    BY <2>1, <1>1, <1>5, <1>8
<1>9. ASSUME NEW p \in Seq(Pieces), printed' = printed \o p, \A y \in Mine(e) : ~Contains(p, y),
             UNCHANGED request, \A y \in Mine(e) : y \in said' <=> y \in said,
             Contains(input', e) => Contains(input, e),
             Once(input, e) => Once(input', e),
             \A y \in Mine(e) : Contains(todo', y) => Contains(todo, y)
      PROVE  Quiet(e)
  <2>1. /\ \A x \in Mine(e) : Contains(Stream(e)', x) => Contains(Stream(e), x)
        /\ \E q \in Seq(Pieces) : /\ Stream(e)' = Stream(e) \o q
                                  /\ \A x \in Mine(e) : ~Contains(q, x)
    BY <1>9, OtherText
  <2>2. Marker(e) \in Mine(e) /\ Output(e) \in Mine(e)
    BY DEF Mine
  <2> QED
    BY <2>1, <2>2, <1>9 DEF Quiet
<1>10. /\ \A y : ~Contains(<<>>, y)
       /\ \A y \in Mine(e) : ~Contains(<<EndOfLine>>, y) /\ ~Contains(<<Prompt>>, y)
       /\ <<EndOfLine>> \in Seq(Pieces) /\ <<Prompt>> \in Seq(Pieces) /\ <<>> \in Seq(Pieces)
       /\ printed \o <<>> = printed
       /\ Once(<<>>, e)
  <2>1. EndOfLine \notin Mine(e) /\ Prompt \notin Mine(e)
    BY Distinct DEF Mine
  <2>2. printed \o <<>> = printed
    BY <1>1, ConcatEmptySeq
  <2>3. Once(<<>>, e)
    BY DEF Once
  <2> QED
    BY <2>1, <2>2, <2>3, ContainsFew, Pairs, PieceTypes, EmptySeq
<1>11. ASSUME Interrupt PROVE Quiet(e)
  <2>1. /\ printed' = printed \o <<EndOfLine>> /\ UNCHANGED <<request, said>>
        /\ input' = <<>> /\ todo' = <<>>
    BY <1>11 DEF Interrupt, Show
  <2> QED
    BY <2>1, <1>9, <1>10
<1>12. ASSUME ShowPrompt PROVE Quiet(e)
  <2>1. /\ printed' = printed \o <<Prompt>> /\ UNCHANGED <<request, said, input, todo>>
    BY <1>12 DEF ShowPrompt, Show
  <2> QED
    BY <2>1, <1>9, <1>10
<1>13. ASSUME End PROVE Quiet(e)
  <2>1. /\ printed' = printed \o <<>> /\ UNCHANGED <<request, said>>
        /\ input' = <<>> /\ todo' = <<>>
    BY <1>13, <1>10 DEF End
  <2> QED
    BY <2>1, <1>9, <1>10
<1>14. ASSUME ReadLine PROVE CommandInv(e)'
  <2>1. PICK n \in 1..Len(input) :
           /\ input[n] # User
           /\ shell = "prompt" /\ shell' = "busy"
           /\ printed' = printed \o Echo(input[n])
           /\ todo' = Work(SubSeq(input, 1, n))
           /\ input' = SubSeq(input, n + 1, Len(input))
           /\ UNCHANGED <<request, keys, said, alone>>
    BY <1>14, ReadingLine
  <2>2. CASE input[n] = e
    BY <2>1, <2>2, ReadingIt
  <2>3. CASE input[n] # e
    <3>1. PICK x \in Typists : x = input[n] /\ (x = Enter \/ x \in Execs \ {e})
      <4>1. input[n] \in Typists
        BY <1>1, ElementOfSeq
      <4> QED
        BY <4>1, <2>1, <2>3 DEF Typists
    <3>2. \A y \in Mine(e) : ~Contains(Echo(x), y)
      <4>1. CASE x = Enter
        BY <4>1, <1>10, EchoIs
      <4>2. CASE x \in Execs \ {e}
        <5>1. Echo(x) = <<Echoed(x), EndOfLine>> /\ Echoed(x) \notin Mine(e) /\ EndOfLine \notin Mine(e)
          BY <4>2, EchoIs, Distinct DEF Mine
        <5> QED
          BY <5>1, ContainsFew
      <4> QED
        BY <4>1, <4>2, <3>1
    <3>3. \A y \in Mine(e) : ~Contains(todo', y)
      <4>1. PICK w : w = todo'
        OBVIOUS
      <4>2. CASE x = Enter
        <5>1. w = <<>> \/ w = <<Output(User)>>
          BY <4>1, <4>2, <2>1, <3>1, <1>1, WorkIs
        <5>2. Output(User) \notin Mine(e)
          BY Distinct DEF Mine
        <5> QED
          BY <4>1, <5>1, <5>2, ContainsFew
      <4>3. CASE x \in Execs \ {e}
        <5>1. x # Enter
          BY <4>3, TypistsAssumption
        <5>2. w = <<Output(User), Marker(x)>> \/ w = <<Output(x), Marker(x)>>
          BY <4>1, <5>1, <2>1, <3>1, <1>1, WorkIs
        <5>3. Output(User) \notin Mine(e) /\ Output(x) \notin Mine(e) /\ Marker(x) \notin Mine(e)
          BY <4>3, Distinct DEF Mine
        <5> QED
          BY <4>1, <5>2, <5>3, ContainsFew
      <4> QED
        BY <4>2, <4>3, <3>1
    <3>4. /\ Contains(input', e) => Contains(input, e)
          /\ Once(input, e) => Once(input', e)
      <4>1. PICK r : r = SubSeq(input, n + 1, Len(input))
        OBVIOUS
      <4>2. (Contains(r, e) => Contains(input, e)) /\ (Once(input, e) => Once(r, e))
        BY <4>1, <1>1, ReadOnce
      <4> QED
        BY <4>1, <4>2, <2>1
    <3>5. Echo(x) \in Seq(Pieces)
      BY EchoIs
    <3>6. Quiet(e)
      BY <2>1, <3>1, <3>2, <3>3, <3>4, <3>5, <1>9
    <3> QED
      BY <3>6, QuietKeeps
  <2> QED
    BY <2>2, <2>3
<1>15. ASSUME Run PROVE CommandInv(e)'
  <2>1. /\ todo # <<>> /\ todo' = Tail(todo) /\ UNCHANGED <<request, input>>
        /\ \/ printed' = printed \o <<Head(todo)>> /\ said' = said \cup {Head(todo)}
           \/ UNCHANGED <<printed, said>>
    BY <1>15 DEF Run, Show
  <2>2. \A y : Contains(todo', y) => Contains(todo, y)
    <3>1. \A y : Contains(Tail(todo), y) => Contains(todo, y)
      BY <2>1, <1>1, TodoEnds
    <3>2. PICK w : w = Tail(todo)
      OBVIOUS
    <3>3. todo' = w
      BY <2>1, <3>2
    <3> QED
      BY <3>1, <3>2, <3>3
  <2>3. PICK x : x = Head(todo) /\ x \in Pieces
    BY <2>1, <1>1, TodoEnds
  <2>4. CASE UNCHANGED <<printed, said>>
    <3>1. Quiet(e)
      BY <2>1, <2>2, <2>4, <1>9, <1>10
    <3> QED
      BY <3>1, QuietKeeps
  <2>5. CASE printed' = printed \o <<x>> /\ said' = said \cup {x} /\ x \notin Mine(e)
    <3>1. <<x>> \in Seq(Pieces) /\ \A y \in Mine(e) : ~Contains(<<x>>, y)
      BY <2>3, <2>5, Pairs, ContainsFew
    <3>2. Quiet(e)
      BY <2>1, <2>2, <2>5, <3>1, <1>9
    <3> QED
      BY <3>2, QuietKeeps
  <2>6. CASE printed' = printed \o <<x>> /\ said' = said \cup {x} /\ x \in Mine(e)
    BY <2>1, <2>3, <2>6, PrintingIt
  <2> QED
    BY <2>1, <2>3, <2>4, <2>5, <2>6
<1>16. ASSUME ReadPTY PROVE Quiet(e)
  <2>1. PICK n \in 1..Len(printed) :
          /\ printed' = SubSeq(printed, n + 1, Len(printed))
          /\ file' = [d \in Execs |-> IF Opened(d) THEN file[d] \o SubSeq(printed, 1, n)
                                                 ELSE <<>>]
          /\ UNCHANGED <<pc, timeout, output, input, shell, todo, keys, said, alone>>
    BY <1>16 DEF ReadPTY
  <2>2. PICK a, b : a = SubSeq(printed, 1, n) /\ b = SubSeq(printed, n + 1, Len(printed))
    OBVIOUS
  <2>3. a \in Seq(Pieces) /\ b \in Seq(Pieces) /\ a \o b = printed
    <3>1. n \in Nat /\ n <= Len(printed)
      BY <1>1, LenProperties
    <3> QED
      BY <2>2, <3>1, <1>1, CutInTwo
  <2>4. printed' = b /\ file'[e] = IF Opened(e) THEN file[e] \o a ELSE <<>>
    BY <2>1, <2>2
  <2>5. CASE Opened(e)
    <3>1. \A x, y, z \in Seq(Pieces) : (x \o y) \o z = x \o (y \o z)
      BY Associates
    <3>2. (file[e] \o a) \o b = Stream(e)
      BY <3>1, <2>3, <1>1 DEF Stream
    <3>3. Stream(e) \o <<>> = Stream(e)
      BY <1>1, StreamGrows, ConcatEmptySeq, EmptySeq
    <3>4. Stream(e)' = Stream(e) \o <<>>
      BY <2>4, <2>5, <3>2, <3>3 DEF Stream
    <3>5. PICK t : t = Stream(e)' /\ t = Stream(e) /\ t = Stream(e) \o <<>>
      BY <3>3, <3>4
    <3>6. /\ \A y \in Mine(e) : Contains(Stream(e)', y) => Contains(Stream(e), y)
          /\ \E p \in Seq(Pieces) : /\ Stream(e)' = Stream(e) \o p
                                    /\ \A y \in Mine(e) : ~Contains(p, y)
      BY <3>5, <1>10
    <3> QED
      BY <3>6, <2>1 DEF Quiet
  <2>6. CASE ~Opened(e)
    <3>1. Stream(e)' = <<>> \o b /\ pc[e] # "poll"
      BY <2>4, <2>6 DEF Stream, Opened
    <3>2. \A y : Contains(<<>> \o b, y) => Contains(printed, y)
      BY <2>3, <1>10, ConcatContains
    <3>3. \A y : Contains(printed, y) => Contains(Stream(e), y)
      BY <1>10, StreamGrows
    <3>4. PICK t : t = Stream(e)' /\ \A y : Contains(t, y) => Contains(Stream(e), y)
      BY <3>1, <3>2, <3>3
    <3>5. \A y \in Mine(e) : Contains(Stream(e)', y) => Contains(Stream(e), y)
      BY <3>4
    <3> QED
      BY <3>1, <3>5, <2>1 DEF Quiet
  <2> QED
    BY <2>5, <2>6
<1>17. ASSUME UNCHANGED vars PROVE Quiet(e)
  BY <1>17, OthersMove DEF vars
<1> QED
  BY <1>2, <1>3, <1>4, <1>6, <1>7, <1>8, <1>11, <1>12, <1>13, <1>14, <1>15, <1>16, <1>17,
     QuietKeeps, TypingIt, AnsweringIt DEF Next, Handler

(* Every command lives as CommandInv says. *)
LEMMA CommandsLive == Spec => []ExecInv
<1>1. ASSUME Init PROVE \A e \in Execs : CommandInv(e)
  <2>1. SUFFICES ASSUME NEW e \in Execs PROVE CommandInv(e)
    OBVIOUS
  <2>2. /\ pc[e] = "idle" /\ file[e] = <<>> /\ input = <<>> /\ todo = <<>>
        /\ printed = <<Prompt>> /\ said = {}
    BY <1>1 DEF Init
  <2>3. \A x \in Mine(e) : ~Contains(<<>> \o <<Prompt>>, x)
    <3>1. <<>> \in Seq(Pieces) /\ <<Prompt>> \in Seq(Pieces) /\ Prompt \notin Mine(e)
      BY EmptySeq, Pairs, PieceTypes, Distinct DEF Mine
    <3> QED
      BY <3>1, ConcatContains, ContainsFew
  <2>4. Once(<<>>, e) /\ \A x : ~Contains(<<>>, x)
    BY ContainsFew DEF Once
  <2> QED
    BY <2>2, <2>3, <2>4 DEF CommandInv, Unborn, OnlyOnce, Story, Ended, Stream, Running
<1>2. ASSUME ExecInv, [Next]_vars PROVE ExecInv'
  <2>1. Types'
    BY <1>2, TypesStep DEF ExecInv
  <2>2. ASSUME NEW e \in Execs PROVE CommandInv(e)'
    BY <1>2, CommandStep DEF ExecInv
  <2> QED
    BY <2>1, <2>2 DEF ExecInv
<1>3. ASSUME Types, Init PROVE ExecInv
  BY <1>1, <1>3 DEF ExecInv
<1> QED
  BY <1>2, <1>3, Typing, PTL DEF Spec

(* A response that reports the command as done comes after the shell has   *)
(* printed the marker, whoever else types into the same PTY, and holds all *)
(* that the command has printed, once (handlers.go:273-279).               *)
THEOREM DoneMeansEnded == Spec => []DoneIsComplete
<1>1. ExecInv => DoneIsComplete
  BY DEF ExecInv, CommandInv, Ended, Types, DoneIsComplete
<1> QED
  BY <1>1, CommandsLive, PTL

-----------------------------------------------------------------------------
(* A command nobody types beside.                                          *)

(* Nothing but Enters is typed before it, and it has not been read.        *)
Waits(e, s, typed, hand) ==
  /\ Contains(typed, e)
  /\ \A i \in 1..Len(typed) : typed[i] = Enter \/ (typed[i] = e /\ i = Len(typed))
  /\ hand = <<>> /\ ~Contains(s, Echoed(e))

(* Read at place k: from then to its marker there is nothing but its own.  *)
Runs(e, k, s, typed, hand, state, has) ==
  /\ s[k] = Echoed(e) /\ \A i \in 1..Len(s) : i < k => s[i] # Echoed(e)
  /\ \A i \in 1..Len(s) : i >= k + 2 =>
       \/ s[i] \in {Output(e), Marker(e)}
       \/ \E j \in 1..Len(s) : j < i /\ s[j] = Marker(e)
  /\ typed = <<>>
  /\ \A x : Contains(hand, x) => x \in {Output(e), Marker(e)}
  /\ state = "gone" \/ Marker(e) \in has \/ Contains(hand, Marker(e))

Clean(e, s, typed, hand, state, has) ==
  \/ Waits(e, s, typed, hand)
  \/ state = "gone" /\ ~Contains(s, Echoed(e))
  \/ \E k \in 1..Len(s) : Runs(e, k, s, typed, hand, state, has)

AloneInv(e) == e \in alone =>
  /\ pc[e] \in {"poll"} \cup Returned
  /\ pc[e] = "poll" => Clean(e, Stream(e), input, todo, shell, said)
  /\ pc[e] = "done" => output[e] = Said(e)

(* What is read from the front of the input. *)
LEMMA FrontRead ==
  ASSUME NEW e \in Execs, NEW s \in Seq(Pieces), NEW t \in Seq(Typists),
         Waits(e, s, t, <<>>), NEW n \in 1..Len(t), t[n] # User,
         \A k \in 1..Len(t) : k < n => t[k] = User
  PROVE  /\ n = 1
         /\ \/ t[1] = Enter /\ Waits(e, s \o <<EndOfLine>>, SubSeq(t, 2, Len(t)), <<>>)
            \/ t[1] = e /\ SubSeq(t, 2, Len(t)) = <<>>
<1>1. PICK m \in Nat : m = Len(t)
  BY LenProperties
<1>2. User # Enter /\ User # e /\ e # Enter
  BY TypistsAssumption
<1>3. \A i \in 1..m : t[i] = Enter \/ (t[i] = e /\ i = m)
  BY <1>1 DEF Waits
<1>4. n = 1
  <2>1. 1 \in 1..m /\ (n = 1 \/ 1 < n)
    BY <1>1
  <2>2. t[1] # User
    BY <2>1, <1>2, <1>3
  <2> QED
    BY <2>1, <2>2, <1>1
<1>5. PICK r : r = SubSeq(t, 2, Len(t))
  OBVIOUS
<1>6. /\ r \in Seq(Typists) /\ Len(r) = m - 1
      /\ \A k \in 1..(m - 1) : 1 + k \in 1..m /\ r[k] = t[1 + k]
  <2>1. 1 \in 1..Len(t) /\ r = SubSeq(t, 1 + 1, Len(t))
    BY <1>4, <1>5
  <2>2. /\ r \in Seq(Typists) /\ Len(r) = Len(t) - 1
        /\ \A k \in 1..Len(r) : 1 + k \in 1..Len(t) /\ r[k] = t[1 + k]
    BY <2>1, RestIs
  <2> QED
    BY <2>2, <1>1
<1>7. CASE t[1] = e
  <2>1. m = 1
    BY <1>1, <1>2, <1>3, <1>4, <1>7
  <2>2. r = <<>>
    BY <2>1, <1>6, EmptySeq
  <2> QED
    BY <2>2, <1>4, <1>5, <1>7
<1>8. CASE t[1] = Enter
  <2>1. PICK q \in 1..m : t[q] = e
    BY <1>1 DEF Waits, Contains
  <2>2. q = m /\ q # 1
    BY <2>1, <1>2, <1>3, <1>8
  <2>3. m - 1 \in 1..(m - 1) /\ r[m - 1] = e
    <3>1. m - 1 \in 1..(m - 1) /\ 1 + (m - 1) = m
      BY <2>2
    <3>2. r[m - 1] = t[1 + (m - 1)]
      BY <3>1, <1>6
    <3> QED
      BY <3>1, <3>2, <2>1, <2>2
  <2>4. Contains(r, e)
    BY <2>3, <1>6 DEF Contains
  <2>5. ASSUME NEW i \in 1..(m - 1) PROVE r[i] = Enter \/ (r[i] = e /\ i = m - 1)
    <3>1. 1 + i \in 1..m /\ r[i] = t[1 + i]
      BY <1>6
    <3>2. 1 + i = m => i = m - 1
      OBVIOUS
    <3> QED
      BY <3>1, <3>2, <1>3
  <2>6. ~Contains(s \o <<EndOfLine>>, Echoed(e))
    <3>1. <<EndOfLine>> \in Seq(Pieces)
      BY PieceTypes, Pairs
    <3>2. ~Contains(<<EndOfLine>>, Echoed(e)) /\ ~Contains(s, Echoed(e))
      BY ContainsFew, Distinct DEF Waits
    <3> QED
      BY <3>1, <3>2, ConcatContains
  <2>7. Waits(e, s \o <<EndOfLine>>, r, <<>>)
    BY <2>4, <2>5, <2>6, <1>6 DEF Waits
  <2> QED
    BY <2>7, <1>4, <1>5, <1>8
<1> QED
  BY <1>1, <1>3, <1>4, <1>7, <1>8

(* It is read, and nothing else is left to be read. *)
LEMMA RunsFirst ==
  ASSUME NEW e \in Execs, NEW s \in Seq(Pieces), ~Contains(s, Echoed(e)),
         NEW state, NEW has
  PROVE  Clean(e, s \o <<Echoed(e), EndOfLine>>, <<>>, <<Output(e), Marker(e)>>, state, has)
<1>1. PICK p \in Seq(Pieces), m \in Nat : p = <<Echoed(e), EndOfLine>> /\ m = Len(s)
  BY PieceTypes, Pairs, LenProperties
<1>2. Len(p) = 2 /\ p[1] = Echoed(e) /\ p[2] = EndOfLine
  BY <1>1
<1>3. PICK t \in Seq(Pieces) :
        /\ t = s \o p /\ Len(t) = m + 2
        /\ \A k \in 1..m : k \in 1..(m + 2) /\ t[k] = s[k]
        /\ \A q \in 1..2 : m + q \in 1..(m + 2) /\ t[m + q] = p[q]
  <2>1. PICK t \in Seq(Pieces) : t = s \o p
    BY ConcatIs
  <2>2. /\ Len(t) = Len(s) + Len(p)
        /\ \A k \in 1..Len(s) : k \in 1..Len(t) /\ t[k] = s[k]
        /\ \A q \in 1..Len(p) : Len(s) + q \in 1..Len(t) /\ t[Len(s) + q] = p[q]
    BY <2>1, ConcatIs
  <2> QED
    BY <2>1, <2>2, <1>1, <1>2
<1>4. m + 1 \in 1..(m + 2) /\ t[m + 1] = Echoed(e)
  BY <1>2, <1>3
<1>5. ASSUME NEW i \in 1..(m + 2), i < m + 1 PROVE t[i] # Echoed(e)
  <2>1. i \in 1..m
    BY <1>5
  <2> QED
    BY <2>1, <1>1, <1>3 DEF Contains
<1>6. \A i \in 1..(m + 2) : ~(i >= m + 1 + 2)
  OBVIOUS
<1>7. \A x : Contains(<<Output(e), Marker(e)>>, x) <=> x \in {Output(e), Marker(e)}
  BY ContainsFew
<1>8. Runs(e, m + 1, t, <<>>, <<Output(e), Marker(e)>>, state, has)
  BY <1>3, <1>4, <1>5, <1>6, <1>7 DEF Runs
<1> QED
  BY <1>1, <1>3, <1>4, <1>8 DEF Clean

(* It prints; or the prompt comes after it. *)
LEMMA RunsOn ==
  ASSUME NEW e \in Execs, NEW s \in Seq(Pieces), NEW k \in 1..Len(s), NEW x \in Pieces,
         NEW typed, NEW hand, NEW left, NEW state, NEW now, NEW has, NEW had,
         Runs(e, k, s, typed, hand, state, had),
         x \in {Output(e), Marker(e)} \/ Contains(s, Marker(e)),
         \A y : Contains(left, y) => Contains(hand, y),
         now = "gone" \/ Marker(e) \in has \/ Contains(left, Marker(e))
  PROVE  Clean(e, s \o <<x>>, typed, left, now, has)
<1>1. PICK p \in Seq(Pieces), m \in Nat : p = <<x>> /\ m = Len(s)
  BY Pairs, LenProperties
<1>2. Len(p) = 1 /\ p[1] = x
  BY <1>1
<1>3. PICK t \in Seq(Pieces) :
        /\ t = s \o p /\ Len(t) = m + 1
        /\ \A i \in 1..m : i \in 1..(m + 1) /\ t[i] = s[i]
        /\ \A q \in 1..1 : m + q \in 1..(m + 1) /\ t[m + q] = p[q]
  <2>1. PICK t \in Seq(Pieces) : t = s \o p
    BY ConcatIs
  <2>2. /\ Len(t) = Len(s) + Len(p)
        /\ \A i \in 1..Len(s) : i \in 1..Len(t) /\ t[i] = s[i]
        /\ \A q \in 1..Len(p) : Len(s) + q \in 1..Len(t) /\ t[Len(s) + q] = p[q]
    BY <2>1, ConcatIs
  <2> QED
    BY <2>1, <2>2, <1>1, <1>2
<1>4. t[m + 1] = x /\ \A i \in 1..(m + 1) : i \in 1..m \/ i = m + 1
  <2>1. 1 \in 1..1
    OBVIOUS
  <2> QED
    BY <2>1, <1>2, <1>3
<1>5. k \in 1..(m + 1) /\ t[k] = Echoed(e)
  BY <1>1, <1>3 DEF Runs
<1>6. ASSUME NEW i \in 1..(m + 1), i < k PROVE t[i] # Echoed(e)
  <2>1. i \in 1..m
    BY <1>1, <1>6
  <2> QED
    BY <2>1, <1>1, <1>3, <1>6 DEF Runs
<1>7. ASSUME NEW i \in 1..(m + 1), i >= k + 2
      PROVE  \/ t[i] \in {Output(e), Marker(e)}
             \/ \E j \in 1..(m + 1) : j < i /\ t[j] = Marker(e)
  <2>1. CASE i \in 1..m
    <3>1. s[i] \in {Output(e), Marker(e)} \/ \E j \in 1..m : j < i /\ s[j] = Marker(e)
      BY <2>1, <1>1, <1>7 DEF Runs
    <3> QED
      BY <3>1, <2>1, <1>3
  <2>2. CASE i = m + 1
    <3>1. CASE x \in {Output(e), Marker(e)}
      BY <3>1, <2>2, <1>4
    <3>2. CASE Contains(s, Marker(e))
      <4>1. PICK j \in 1..m : s[j] = Marker(e)
        BY <3>2, <1>1 DEF Contains
      <4>2. j \in 1..(m + 1) /\ j < i /\ t[j] = Marker(e)
        BY <4>1, <2>2, <1>3
      <4> QED
        BY <4>2
    <3> QED
      BY <3>1, <3>2
  <2> QED
    BY <2>1, <2>2, <1>4
<1>8. typed = <<>> /\ \A y : Contains(left, y) => y \in {Output(e), Marker(e)}
  BY DEF Runs
<1>9. Runs(e, k, t, typed, left, now, has)
  BY <1>3, <1>5, <1>6, <1>7, <1>8 DEF Runs
<1> QED
  BY <1>1, <1>3, <1>5, <1>9 DEF Clean

(* The response then holds the output of the command and nothing else.     *)
LEMMA NothingElse ==
  ASSUME NEW e \in Execs, NEW f \in Seq(Pieces), NEW p \in Seq(Pieces),
         Order(e, f \o p), MarkAt(f, e) # 0,
         NEW typed, NEW hand, NEW state, NEW has, Clean(e, f \o p, typed, hand, state, has)
  PROVE  ExtractExecOutput(f, e) \in {<<>>, <<Output(e)>>}
<1>1. PICK s \in Seq(Pieces), m \in Nat, n \in Nat : s = f \o p /\ m = Len(f) /\ n = Len(s)
  BY ConcatIs, LenProperties
<1>2. \A i \in 1..m : i \in 1..n /\ s[i] = f[i]
  BY <1>1, ConcatIs
<1>3. PICK k \in 1..m, mark \in 1..m :
           /\ f[k] = Echoed(e) /\ \A i \in 1..m : i < k => f[i] # Echoed(e)
           /\ k + 2 <= mark /\ f[k + 1] = EndOfLine /\ f[mark] = Marker(e)
           /\ ExtractExecOutput(f, e) = TrimRight(SubSeq(f, k + 2, mark - 1))
  BY <1>1, CutOut
<1>4. Contains(s, Echoed(e))
  BY <1>1, <1>2, <1>3 DEF Contains
<1>5. PICK l \in 1..n : Runs(e, l, s, typed, hand, state, has)
  BY <1>1, <1>4 DEF Clean, Waits
<1>6. l = k
  <2>1. ~(k < l)
    BY <1>1, <1>2, <1>3, <1>5 DEF Runs
  <2>2. ~(l < k)
    <3>1. l < k => l \in 1..m
      BY <1>3
    <3> QED
      BY <3>1, <1>1, <1>2, <1>3, <1>5 DEF Runs
  <2> QED
    BY <2>1, <2>2
<1>7. ASSUME NEW i \in (k + 2)..(mark - 1) PROVE f[i] = Output(e)
  <2>1. i \in 1..m /\ i \in 1..n /\ s[i] = f[i] /\ i < mark /\ i >= k + 2
    <3>1. i \in 1..m /\ i < mark /\ i >= k + 2
      BY <1>3, <1>7
    <3> QED
      BY <3>1, <1>2
  <2>2. ASSUME NEW j \in 1..n, s[j] = Marker(e) PROVE j = mark
    <3>1. mark \in 1..n /\ s[mark] = Marker(e) /\ DOMAIN s = 1..n
      BY <1>1, <1>2, <1>3, LenProperties
    <3>2. Once(s, Marker(e))
      BY <1>1 DEF Order
    <3> QED
      BY <3>1, <3>2, <2>2 DEF Once
  <2>3. ~ \E j \in 1..n : j < i /\ s[j] = Marker(e)
    BY <2>1, <2>2
  <2>4. s[i] \in {Output(e), Marker(e)}
    BY <2>1, <2>3, <1>1, <1>5, <1>6 DEF Runs
  <2>5. s[i] # Marker(e)
    BY <2>1, <2>2
  <2> QED
    BY <2>1, <2>4, <2>5
<1>8. PICK a \in Nat, b \in Nat : a = k + 2 /\ b = mark - 1
  BY <1>3
<1>9. PICK r : r = SubSeq(f, a, b)
  OBVIOUS
<1>10. r \in Seq(Pieces) /\ \A i \in 1..Len(r) : r[i] = Output(e)
  <2>1. a \in Nat \ {0} /\ b <= Len(f)
    BY <1>1, <1>3, <1>8
  <2>2. r \in Seq(Pieces) /\ \A i \in 1..Len(r) : a + i - 1 \in a..b /\ r[i] = f[a + i - 1]
    BY <2>1, <1>1, <1>8, <1>9, PieceOf
  <2> QED
    BY <2>2, <1>7, <1>8
<1>11. PICK c \in 0..Len(r) : TrimRight(r) = SubSeq(r, 1, c)
  BY <1>10, TrimIs
<1>12. PICK out : out = ExtractExecOutput(f, e) /\ out = SubSeq(r, 1, c)
  BY <1>3, <1>8, <1>9, <1>11
<1>13. out \in Seq(Pieces) /\ \A i \in 1..Len(out) : out[i] = Output(e)
  <2>1. c \in Nat /\ c <= Len(r) /\ 1 \in Nat \ {0}
    BY <1>10, <1>11, LenProperties
  <2>2. out \in Seq(Pieces) /\ \A i \in 1..Len(out) : 1 + i - 1 \in 1..c /\ out[i] = r[1 + i - 1]
    BY <2>1, <1>10, <1>12, PieceOf
  <2>3. \A j \in 1..c : j \in 1..Len(r)
    BY <1>10, <2>1, LenProperties
  <2> QED
    BY <2>2, <2>3, <1>10
<1>14. Once(out, Output(e))
  BY <1>12, WholeOutput
<1>15. PICK q \in Nat : q = Len(out) /\ DOMAIN out = 1..q
  BY <1>13, LenProperties
<1>16. q = 0 \/ q = 1
  <2>1. SUFFICES ASSUME q >= 2 PROVE FALSE
    OBVIOUS
  <2>2. 1 \in 1..q /\ 2 \in 1..q
    BY <2>1
  <2> QED
    BY <2>2, <1>13, <1>14, <1>15 DEF Once
<1>17. CASE q = 0
  BY <1>12, <1>13, <1>15, <1>17, EmptySeq
<1>18. CASE q = 1
  <2>1. <<Output(e)>> \in Seq(Pieces) /\ Len(<<Output(e)>>) = 1 /\ <<Output(e)>>[1] = Output(e)
    BY Pairs, PieceTypes
  <2>2. out[1] = Output(e) /\ \A i \in 1..1 : i = 1
    BY <1>13, <1>15, <1>18
  <2>3. out = <<Output(e)>>
    BY <2>1, <2>2, <1>13, <1>15, <1>18, SeqEqual
  <2> QED
    BY <2>3, <1>12
<1> QED
  BY <1>16, <1>17, <1>18

LEMMA AloneStep ==
  ASSUME Types, NEW e \in Execs, CommandInv(e), AloneInv(e), [Next]_vars
  PROVE  AloneInv(e)'
<1> USE DEF request, pty
<1>1. /\ e \in Typists /\ e # User /\ e # Enter
      /\ input \in Seq(Typists) /\ printed \in Seq(Pieces) /\ file[e] \in Seq(Pieces)
      /\ Stream(e) \in Seq(Pieces) /\ todo \in TodoForms
      /\ "poll" \notin Returned /\ "clear" \notin Returned /\ "write" \notin Returned
      /\ "idle" \notin Returned
  BY TypistsAssumption, StreamGrows, EmptySeq DEF Typists, Types, TypeOK, Returned
<1>2. Echoed(e)' = Echoed(e) /\ Output(e)' = Output(e) /\ Marker(e)' = Marker(e)
  BY DEF Echoed, Output, Marker
(* Requests that are answered, or have not typed their command at a prompt. *)
<1>3. ASSUME Output(e) \in said' <=> Output(e) \in said,
             e \in alone' => /\ e \in alone /\ pc[e] # "poll"
                             /\ pc'[e] = pc[e] /\ output'[e] = output[e]
      PROVE  AloneInv(e)'
  BY <1>2, <1>3 DEF AloneInv, Said
(* Steps of others. *)
<1>4. ASSUME UNCHANGED <<pty, said>>, alone' = alone,
             pc'[e] = pc[e], file'[e] = file[e], output'[e] = output[e]
      PROVE  AloneInv(e)'
  <2>1. Stream(e)' = Stream(e)
    BY <1>4 DEF Stream
  <2>2. Clean(e, Stream(e), input, todo, shell, said)' <=> Clean(e, Stream(e), input, todo, shell, said)
    BY <2>1, <1>4
  <2> QED
    BY <2>2, <1>2, <1>4 DEF AloneInv, Said
<1>5. ASSUME NEW d \in Execs, Seek(d) \/ Fail(d) \/ ((Done(d) \/ Expire(d)) /\ d # e)
      PROVE  AloneInv(e)'
  <2>1. PICK how, out, t : Seek(d) \/ Fail(d) \/ (Respond(d, how, out, t) /\ d # e)
    BY <1>5 DEF Done, Expire
  <2>2. UNCHANGED <<pty, said>> /\ alone' = alone
    BY <2>1 DEF Seek, Fail, Respond
  <2>3. CASE d # e
    <3>1. pc'[e] = pc[e] /\ file'[e] = file[e] /\ output'[e] = output[e]
      BY <2>1, <2>3 DEF Seek, Fail, Goes, Respond, Types, TypeOK
    <3> QED
      BY <3>1, <2>2, <1>4
  <2>4. CASE d = e
    <3>1. pc[e] \in {"idle", "clear", "write"}
      BY <2>1, <2>4 DEF Seek, Fail, Goes
    <3>2. e \notin alone
      BY <3>1, <1>1 DEF AloneInv
    <3> QED
      BY <3>2, <2>2, <1>3
  <2> QED
    BY <2>3, <2>4
<1>6. ASSUME Expire(e) PROVE AloneInv(e)'
  BY <1>6 DEF Expire, Respond, AloneInv, Types, TypeOK, Returned
<1>7. ASSUME Done(e) PROVE AloneInv(e)'
  <2>1. PICK t : Respond(e, "done", ExtractExecOutput(file[e], e), t)
    BY <1>7 DEF Done
  <2>2. /\ pc[e] = "poll" /\ MarkAt(file[e], e) # 0
        /\ pc'[e] \in {"done", "lost"} /\ said' = said /\ alone' = alone
        /\ output'[e] = ExtractExecOutput(file[e], e)
    BY <2>1, <1>7 DEF Done, Respond, Types, TypeOK
  <2>3. ASSUME e \in alone PROVE output'[e] = Said(e)
    <3>1. /\ Clean(e, Stream(e), input, todo, shell, said)
          /\ Order(e, Stream(e)) /\ (Output(e) \in said <=> Contains(Stream(e), Output(e)))
      BY <2>2, <2>3 DEF AloneInv, CommandInv, Story
    <3>2. ExtractExecOutput(file[e], e) \in {<<>>, <<Output(e)>>}
      BY <3>1, <2>2, <1>1, NothingElse DEF Stream
    <3>3. Contains(Stream(e), Output(e)) <=> Contains(ExtractExecOutput(file[e], e), Output(e))
      BY <3>1, <2>2, <1>1, WholeOutput DEF Stream
    <3> QED
      BY <3>1, <3>2, <3>3, <2>2, ContainsFew DEF Said
  <2>4. Said(e)' = Said(e)
    BY <2>2, <1>2 DEF Said
  <2> QED
    BY <2>2, <2>3, <2>4, <1>1 DEF AloneInv, Returned
<1>8. ASSUME NEW d \in Execs, Clear(d) PROVE AloneInv(e)'
  <2>1. said' = said /\ output' = output /\ alone' = alone \ Polling
        /\ (d = e => pc[e] = "clear") /\ (d # e => pc'[e] = pc[e])
    BY <1>8 DEF Clear, Goes, Types, TypeOK
  <2> QED
    BY <2>1, <1>1, <1>3 DEF AloneInv, Polling
<1>9. ASSUME NEW d \in Execs, Write(d), d # e PROVE AloneInv(e)'
  <2>1. said' = said /\ output' = output /\ pc'[e] = pc[e]
        /\ alone' \subseteq (alone \ Polling) \cup {d}
    BY <1>9 DEF Write, Goes, Types, TypeOK
  <2> QED
    BY <2>1, <1>3, <1>9 DEF Polling
<1>10. ASSUME NEW x \in {User, Enter}, Press(x) PROVE AloneInv(e)'
  BY <1>3, <1>10 DEF Press, Polling
<1>11. ASSUME Interrupt PROVE AloneInv(e)'
  BY <1>3, <1>11 DEF Interrupt, Polling
<1>12. ASSUME Write(e) PROVE AloneInv(e)'
  <2>1. /\ pc[e] = "write" /\ pc'[e] = "poll" /\ file' = file /\ said' = said
        /\ WriteInput(e)
        /\ alone' = (alone \ Polling) \cup
             IF shell = "prompt" /\ ToSet(input) \subseteq {Enter} THEN {e} ELSE {}
    BY <1>12 DEF Write, Goes, Types, TypeOK
  <2>2. e \notin alone
    BY <2>1, <1>1 DEF AloneInv
  <2>3. ASSUME shell = "prompt", ToSet(input) \subseteq {Enter}
        PROVE  Clean(e, Stream(e), input, todo, shell, said)'
    <3>1. input' = Append(input, e) /\ printed' = printed /\ todo' = todo /\ todo = <<>>
      BY <2>1, <2>3, <1>1, TypingText DEF Types
    <3>2. Stream(e)' = Stream(e) /\ ~Contains(Stream(e), Echoed(e))
      BY <2>1, <3>1 DEF Stream, CommandInv, Unborn, Mine
    <3>3. PICK t \in Seq(Typists), n \in Nat : t = Append(input, e) /\ n = Len(input)
      BY <1>1, AppendProperties, LenProperties
    <3>4. Len(t) = n + 1 /\ t[n + 1] = e /\ \A i \in 1..n : t[i] = input[i]
      BY <1>1, <3>3, AppendProperties
    <3>5. \A i \in 1..n : t[i] = Enter
      <4>1. \A i \in 1..n : input[i] \in ToSet(input)
        BY <1>1, <3>3, LenProperties DEF ToSet
      <4> QED
        BY <4>1, <3>4, <2>3
    <3>6. \A i \in 1..(n + 1) : i \in 1..n \/ i = n + 1
      OBVIOUS
    <3>7. Contains(t, e)
      <4>1. n + 1 \in 1..Len(t)
        BY <3>4
      <4> QED
        BY <4>1, <3>4 DEF Contains
    <3>8. Waits(e, Stream(e), t, <<>>)
      BY <3>2, <3>4, <3>5, <3>6, <3>7 DEF Waits
    <3>9. Clean(e, Stream(e), t, <<>>, shell', said')
      BY <3>8 DEF Clean
    <3> QED
      BY <3>1, <3>2, <3>3, <3>9
  <2> QED
    BY <2>1, <2>2, <2>3, <1>1 DEF AloneInv
(* Steps of the shell, while the request follows them. *)
<1>13. ASSUME e \in alone => Clean(e, Stream(e), input, todo, shell, said)',
              UNCHANGED <<request, alone>>, pc[e] = "poll"
       PROVE  AloneInv(e)'
  BY <1>1, <1>13 DEF AloneInv
<1>14. ASSUME NEW p \in Seq(Pieces), printed' = printed \o p, file' = file
       PROVE  Stream(e)' = Stream(e) \o p
  BY <1>14, StreamGrows DEF Stream
<1>15. ASSUME ReadLine PROVE AloneInv(e)'
  <2>1. PICK n \in 1..Len(input) :
           /\ input[n] # User /\ \A k \in 1..Len(input) : k < n => input[k] = User
           /\ shell = "prompt" /\ shell' = "busy"
           /\ printed' = printed \o Echo(input[n])
           /\ todo' = Work(SubSeq(input, 1, n))
           /\ input' = SubSeq(input, n + 1, Len(input))
           /\ UNCHANGED <<request, keys, said, alone>>
    BY <1>15, ReadingLine
  <2>2. CASE pc[e] # "poll"
    BY <2>1, <2>2, <1>3
  <2>3. ASSUME pc[e] = "poll", e \in alone
        PROVE  Clean(e, Stream(e), input, todo, shell, said)'
    <3>1. Len(input) # 0 /\ input # <<>>
      <4>1. \A k : k \in 1..Len(input) => Len(input) # 0
        BY <1>1, LenProperties
      <4> QED
        BY <4>1
    <3>2. Waits(e, Stream(e), input, todo) /\ todo = <<>>
      BY <2>1, <2>3, <3>1 DEF AloneInv, Clean, Runs, Waits
    <3>3. /\ n = 1
          /\ \/ /\ input[1] = Enter
                /\ Waits(e, Stream(e) \o <<EndOfLine>>, SubSeq(input, 2, Len(input)), <<>>)
             \/ input[1] = e /\ SubSeq(input, 2, Len(input)) = <<>>
      <4>1. PICK s \in Seq(Pieces), t \in Seq(Typists) :
              s = Stream(e) /\ t = input /\ Waits(e, s, t, <<>>)
        BY <3>2, <1>1
      <4>2. n \in 1..Len(t) /\ t[n] # User /\ \A k \in 1..Len(t) : k < n => t[k] = User
        BY <4>1, <2>1
      <4>3. /\ n = 1
            /\ \/ t[1] = Enter /\ Waits(e, s \o <<EndOfLine>>, SubSeq(t, 2, Len(t)), <<>>)
               \/ t[1] = e /\ SubSeq(t, 2, Len(t)) = <<>>
        BY <4>1, <4>2, FrontRead
      <4> QED
        BY <4>1, <4>3
    <3>4. input' = SubSeq(input, 2, Len(input))
      BY <2>1, <3>3
    <3>5. CASE input[1] = Enter
      <4>1. todo' = <<>>
        BY <2>1, <3>3, <3>5, <1>1, WorkIs
      <4>2. Stream(e)' = Stream(e) \o <<EndOfLine>>
        <5>1. <<EndOfLine>> \in Seq(Pieces) /\ printed' = printed \o <<EndOfLine>>
          BY <2>1, <3>3, <3>5, EchoIs, Pairs, PieceTypes
        <5> QED
          BY <5>1, <2>1, <1>14
      <4>3. PICK s, t : s = Stream(e)' /\ t = input' /\ Waits(e, s, t, <<>>)
        BY <3>3, <3>4, <3>5, <4>2, <1>1
      <4> QED
        BY <4>1, <4>3 DEF Clean
    <3>6. CASE input[1] = e /\ SubSeq(input, 2, Len(input)) = <<>>
      <4>1. todo' = <<Output(e), Marker(e)>>
        BY <2>1, <3>3, <3>6, <1>1, WorkIs
      <4>2. Stream(e)' = Stream(e) \o <<Echoed(e), EndOfLine>>
        <5>1. <<Echoed(e), EndOfLine>> \in Seq(Pieces) /\ printed' = printed \o <<Echoed(e), EndOfLine>>
          BY <2>1, <3>3, <3>6, EchoIs, Pairs, PieceTypes
        <5> QED
          BY <5>1, <2>1, <1>14
      <4>3. ~Contains(Stream(e), Echoed(e))
        BY <3>2 DEF Waits
      <4>4. Clean(e, Stream(e) \o <<Echoed(e), EndOfLine>>, <<>>, <<Output(e), Marker(e)>>, shell', said')
        BY <4>3, <1>1, RunsFirst
      <4> QED
        BY <4>1, <4>2, <4>4, <3>4, <3>6
    <3> QED
      BY <3>3, <3>5, <3>6
  <2> QED
    BY <2>1, <2>2, <2>3, <1>13
<1>16. ASSUME Run PROVE AloneInv(e)'
  <2>1. /\ todo # <<>> /\ todo' = Tail(todo) /\ shell = "busy" /\ shell' = shell
        /\ UNCHANGED <<request, input, alone>>
        /\ \/ printed' = printed \o <<Head(todo)>> /\ said' = said \cup {Head(todo)}
           \/ UNCHANGED <<printed, said>> /\ Head(todo) # Marker(e)
    BY <1>16 DEF Run, Show
  <2>2. PICK x, w : x = Head(todo) /\ w = Tail(todo)
    OBVIOUS
  <2>3. /\ x \in Pieces /\ Contains(todo, x) /\ w \in TodoForms
        /\ \A y : Contains(w, y) => Contains(todo, y)
        /\ Contains(todo, Marker(e)) =>
             \/ x = Marker(e) /\ w = <<>>
             \/ x \in {Output(User), Output(e)} /\ w = <<Marker(e)>>
        /\ Contains(todo, Output(e)) => Contains(todo, Marker(e))
    BY <2>1, <2>2, <1>1, TodoEnds
  <2>4. CASE pc[e] # "poll"
    <3>1. ASSUME e \in alone, pc[e] = "done"
          PROVE  Said(e)' = Said(e)
      <4>1. Marker(e) \in said
        BY <3>1 DEF CommandInv, Ended
      <4>2. x # Output(e)
        BY <2>3, <4>1 DEF CommandInv, OnlyOnce, Running
      <4> QED
        BY <2>1, <2>2, <4>2, <1>2 DEF Said
    <3> QED
      BY <2>1, <2>4, <3>1 DEF AloneInv
  <2>5. ASSUME pc[e] = "poll", e \in alone
        PROVE  Clean(e, Stream(e), input, todo, shell, said)'
    <3>1. PICK k \in 1..Len(Stream(e)) : Runs(e, k, Stream(e), input, todo, shell, said)
      BY <2>1, <2>5 DEF AloneInv, Clean, Waits
    <3>2. x \in {Output(e), Marker(e)}
      BY <2>3, <3>1 DEF Runs
    <3>3. Marker(e) \in said' \/ Contains(w, Marker(e))
      <4>1. Contains(todo, Marker(e))
        BY <3>2, <2>3
      <4>2. CASE x = Marker(e)
        BY <4>2, <2>1, <2>2
      <4>3. CASE w = <<Marker(e)>>
        BY <4>3, ContainsFew
      <4> QED
        BY <4>1, <4>2, <4>3, <2>3
    <3>4. CASE printed' = printed \o <<x>>
      <4>1. Stream(e)' = Stream(e) \o <<x>>
        <5>1. <<x>> \in Seq(Pieces)
          BY <2>3, Pairs
        <5> QED
          BY <5>1, <3>4, <2>1, <1>14
      <4>2. Clean(e, Stream(e) \o <<x>>, input, w, shell', said')
        BY <2>3, <3>1, <3>2, <3>3, <1>1, RunsOn
      <4> QED
        BY <4>1, <4>2, <2>1, <2>2
    <3>5. CASE printed' = printed
      <4>1. Stream(e)' = Stream(e)
        BY <3>5, <2>1 DEF Stream
      <4>2. Runs(e, k, Stream(e), input, w, shell', said')
        BY <2>3, <3>1, <3>3 DEF Runs
      <4>3. Clean(e, Stream(e), input, w, shell', said')
        BY <4>2 DEF Clean
      <4> QED
        BY <4>1, <4>3, <2>1, <2>2
    <3> QED
      BY <3>4, <3>5, <2>1, <2>2
  <2> QED
    BY <2>1, <2>4, <2>5, <1>13
<1>17. ASSUME ShowPrompt PROVE AloneInv(e)'
  <2>1. /\ shell = "busy" /\ todo = <<>> /\ printed' = printed \o <<Prompt>>
        /\ shell' = "prompt" /\ UNCHANGED <<request, said, input, todo, alone>>
    BY <1>17 DEF ShowPrompt, Show
  <2>2. CASE pc[e] # "poll"
    BY <2>1, <2>2, <1>3
  <2>3. ASSUME pc[e] = "poll", e \in alone
        PROVE  Clean(e, Stream(e), input, todo, shell, said)'
    <3>1. <<Prompt>> \in Seq(Pieces) /\ Prompt \in Pieces
      BY Pairs, PieceTypes
    <3>2. Stream(e)' = Stream(e) \o <<Prompt>>
      BY <3>1, <2>1, <1>14
    <3>3. Clean(e, Stream(e) \o <<Prompt>>, input, <<>>, shell', said)
      <4>1. CASE Waits(e, Stream(e), input, todo)
        <5>1. ~Contains(Stream(e) \o <<Prompt>>, Echoed(e))
          <6>1. ~Contains(<<Prompt>>, Echoed(e))
            BY ContainsFew, Distinct
          <6>2. ~Contains(Stream(e), Echoed(e))
            BY <4>1 DEF Waits
          <6> QED
            BY <6>1, <6>2, <3>1, <1>1, ConcatContains
        <5> QED
          BY <5>1, <4>1 DEF Waits, Clean
      <4>2. ASSUME NEW k \in 1..Len(Stream(e)), Runs(e, k, Stream(e), input, todo, shell, said)
            PROVE  Clean(e, Stream(e) \o <<Prompt>>, input, <<>>, shell', said)
        <5>1. \A y : ~Contains(<<>>, y) /\ ~Contains(todo, y)
          BY <2>1, ContainsFew
        <5>2. Marker(e) \in said
          BY <4>2, <5>1, <2>1 DEF Runs
        <5>3. Contains(Stream(e), Marker(e))
          BY <5>2, <2>3 DEF CommandInv, Story
        <5> QED
          BY <4>2, <5>1, <5>2, <5>3, <3>1, <1>1, RunsOn
      <4> QED
        BY <4>1, <4>2, <2>1, <2>3 DEF AloneInv, Clean
    <3> QED
      BY <3>2, <3>3, <2>1
  <2> QED
    BY <2>1, <2>2, <2>3, <1>13
<1>18. ASSUME End PROVE AloneInv(e)'
  <2>1. /\ shell' = "gone" /\ todo' = <<>> /\ input' = <<>>
        /\ UNCHANGED <<request, printed, keys, said, alone>>
    BY <1>18 DEF End
  <2>2. CASE pc[e] # "poll"
    BY <2>1, <2>2, <1>3
  <2>3. ASSUME pc[e] = "poll", e \in alone
        PROVE  Clean(e, Stream(e), input, todo, shell, said)'
    <3>1. Stream(e)' = Stream(e)
      BY <2>1 DEF Stream
    <3>2. Clean(e, Stream(e), <<>>, <<>>, "gone", said)
      <4>1. CASE ~Contains(Stream(e), Echoed(e))
        BY <4>1 DEF Clean
      <4>2. ASSUME NEW k \in 1..Len(Stream(e)), Runs(e, k, Stream(e), input, todo, shell, said)
            PROVE  Clean(e, Stream(e), <<>>, <<>>, "gone", said)
        <5>1. \A y : ~Contains(<<>>, y)
          BY ContainsFew
        <5>2. Runs(e, k, Stream(e), <<>>, <<>>, "gone", said)
          BY <4>2, <5>1 DEF Runs
        <5> QED
          BY <5>2 DEF Clean
      <4> QED
        BY <4>1, <4>2, <2>3 DEF AloneInv, Clean, Waits
    <3> QED
      BY <3>1, <3>2, <2>1
  <2> QED
    BY <2>1, <2>2, <2>3, <1>13
<1>19. ASSUME ReadPTY PROVE AloneInv(e)'
  <2>1. PICK n \in 1..Len(printed) :
          /\ printed' = SubSeq(printed, n + 1, Len(printed))
          /\ file' = [d \in Execs |-> IF Opened(d) THEN file[d] \o SubSeq(printed, 1, n)
                                                 ELSE <<>>]
          /\ UNCHANGED <<pc, timeout, output, input, shell, todo, keys, said, alone>>
    BY <1>19 DEF ReadPTY
  <2>2. CASE pc[e] # "poll"
    BY <2>1, <2>2, <1>3
  <2>3. CASE pc[e] = "poll"
    <3>1. PICK a, b : a = SubSeq(printed, 1, n) /\ b = SubSeq(printed, n + 1, Len(printed))
      OBVIOUS
    <3>2. a \in Seq(Pieces) /\ b \in Seq(Pieces) /\ a \o b = printed
      <4>1. n \in Nat /\ n <= Len(printed)
        BY <1>1, LenProperties
      <4> QED
        BY <3>1, <4>1, <1>1, CutInTwo
    <3>3. printed' = b /\ file'[e] = file[e] \o a
      BY <2>1, <2>3, <3>1 DEF Opened
    <3>4. \A x, y, z \in Seq(Pieces) : (x \o y) \o z = x \o (y \o z)
      BY Associates
    <3>5. (file[e] \o a) \o b = Stream(e)
      <4>1. file[e] \in Seq(Pieces) /\ a \in Seq(Pieces) /\ b \in Seq(Pieces)
        BY <3>2, <1>1
      <4>2. (file[e] \o a) \o b = file[e] \o (a \o b)
        BY <4>1, <3>4, Zenon
      <4> QED
        BY <4>2, <3>2 DEF Stream
    <3>6. Stream(e)' = Stream(e)
      BY <3>3, <3>5 DEF Stream
    <3>7. Clean(e, Stream(e), input, todo, shell, said)' <=> Clean(e, Stream(e), input, todo, shell, said)
      BY <3>6, <2>1
    <3> QED
      BY <3>7, <2>1, <2>3, <1>1 DEF AloneInv
  <2> QED
    BY <2>2, <2>3
<1>20. ASSUME UNCHANGED vars PROVE AloneInv(e)'
  BY <1>4, <1>20 DEF vars
<1> QED
  BY <1>5, <1>6, <1>7, <1>8, <1>9, <1>10, <1>11, <1>12, <1>15, <1>16, <1>17, <1>18, <1>19, <1>20
  DEF Next, Handler

(* A command typed at a prompt, beside which nobody types before its end,  *)
(* is answered with its own output and nothing else: no prompt, no echo,   *)
(* nothing an earlier command has left to be filed (handlers.go:190).      *)
THEOREM OutputIsItsOwn == Spec => []CleanResult
<1> DEFINE CleanInv == ExecInv /\ \A e \in Execs : AloneInv(e)
<1>1. ASSUME Init, ExecInv PROVE CleanInv
  BY <1>1 DEF Init, AloneInv
<1>2. ASSUME CleanInv, [Next]_vars, ExecInv' PROVE CleanInv'
  <2>1. ASSUME NEW e \in Execs PROVE AloneInv(e)'
    <3>1. Types /\ CommandInv(e) /\ AloneInv(e)
      BY <1>2 DEF ExecInv
    <3> QED
      BY <3>1, <1>2, AloneStep
  <2> QED
    BY <2>1, <1>2
<1>3. CleanInv => CleanResult
  BY DEF CleanResult, AloneInv, ExecInv, Types, TypeOK
<1> HIDE DEF CleanInv
<1> QED
  BY <1>1, <1>2, <1>3, CommandsLive, PTL DEF Spec
=============================================================================
