---------------------------- MODULE LoginProofs ----------------------------
(***************************************************************************)
(* Proofs about Login and its limiter, for any number of requests, tokens  *)
(* and attempts, and any window, lockout and time: what goes unpunished,   *)
(* what a lockout lets through, when an address is forgotten, and how long *)
(* a token is good.                                                        *)
(***************************************************************************)
EXTENDS Login, FiniteSetTheorems, TLAPS

LEMMA Config ==
  /\ MaxAttempts \in Nat \ {0} /\ Window \in Nat /\ BaseLockout \in Nat \ {0}
  /\ MaxTime \in Nat \ {0} /\ IsFiniteSet(Reqs) /\ SessionTimeout \in Nat \ {0}
BY ConfigAssumption, TokensAssumption

(* Of the length of a lockout the proofs use only this. *)
LEMMA Lockouts == \A n \in Nat : Lockout(n) \in Nat
BY Config DEF Lockout

-----------------------------------------------------------------------------
(* Types.                                                                  *)

Types == /\ TypeOK
         /\ expiry \in [Tokens -> Nat] /\ granted \in [Tokens -> Nat]

LEMMA TypesStep ==
  ASSUME Types, [LoginNext]_loginVars
  PROVE  Types'
<1> USE Config DEF Types, TypeOK, Answer
<1>0. now \in Nat /\ lastSeen \in Nat /\ windowStart \in Nat /\ failures \in Nat
  OBVIOUS
<1>a. ASSUME NoEntry, now' \in 1..MaxTime, late' \in Nat,
             counted' \subseteq (1..now') \X (1..(MaxAttempts - 1)),
             pc' \in [Reqs -> {"idle", "verify"}]
      PROVE  TypeOK'
  <2>1. known' \in BOOLEAN
    BY <1>a DEF NoEntry
  <2>2. /\ failures' = 0 /\ windowStart' = 0 /\ lockedUntil' = 0
        /\ level' = 0 /\ lastSeen' = 0
    BY <1>a DEF NoEntry
  <2>3. 0 \in 0..now' /\ 0 \in 0..(MaxAttempts - 1)
    BY <1>a
  <2>4. (failures' > 0 <=> windowStart' > 0)
    BY <2>2
  <2> QED
    BY <2>1, <2>2, <2>3, <2>4, <1>a
<1>1. ASSUME NEW r \in Reqs, UNCHANGED tokens,
             Allowed(r) \/ BadRequest(r) \/ FailLocked(r)
      PROVE  Types'
  <2>1. /\ UNCHANGED <<now, known, failures, windowStart, lockedUntil, level, counted>>
        /\ lastSeen' \in {lastSeen, now} /\ late' \in {late, late + 1}
        /\ pc' \in [Reqs -> {"idle", "verify"}]
    BY <1>1 DEF Allowed, BadRequest, FailLocked, entry
  <2>2. lastSeen' \in 0..now /\ late' \in Nat
    BY <2>1
  <2>3. ~known => lastSeen' = 0
    <3>1. FailLocked(r) => lockedUntil # 0
      BY <1>0 DEF FailLocked, Locked
    <3>2. Allowed(r) \/ BadRequest(r) => lastSeen' = lastSeen
      BY DEF Allowed, BadRequest, entry
    <3> QED
      BY <3>1, <3>2, <1>1
  <2> QED
    BY <1>1, <2>1, <2>2, <2>3 DEF tokens
<1>2. ASSUME NEW r \in Reqs, Fail(r), UNCHANGED tokens
      PROVE  Types'
  <2> DEFINE fresh == windowStart = 0 \/ now - windowStart > Window
             count == IF fresh THEN 1 ELSE failures + 1
  <2>1. /\ known' = TRUE /\ lastSeen' = now /\ late' = 0 /\ UNCHANGED now
        /\ pc' \in [Reqs -> {"idle", "verify"}]
        /\ expiry' = expiry /\ granted' = granted
    BY <1>2 DEF Fail, tokens
  <2>2. count \in Nat /\ count >= 1
    BY <1>0
  <2>3. CASE /\ count < MaxAttempts
             /\ failures' = count
             /\ windowStart' = IF fresh THEN now ELSE windowStart
             /\ counted' = counted \cup {<<now, count>>}
             /\ UNCHANGED <<lockedUntil, level>>
    <3>1. count \in 1..(MaxAttempts - 1) /\ now \in 1..now
      BY <2>2, <2>3, <1>0
    <3>2. windowStart' \in 1..now
      BY <2>3, <1>0
    <3> HIDE DEF count, fresh
    <3>3. counted' \subseteq (1..now) \X (1..(MaxAttempts - 1))
      BY <2>3, <3>1
    <3>4. failures' \in 1..(MaxAttempts - 1) /\ lockedUntil' \in Nat /\ level' \in Nat
      BY <2>3, <3>1
    <3> QED
      BY <2>1, <3>2, <3>3, <3>4, <1>0
  <2>4. CASE /\ level' = level + 1
             /\ lockedUntil' = now + Lockout(level + 1)
             /\ failures' = 0 /\ windowStart' = 0 /\ counted' = {}
    <3>1. level' \in Nat /\ lockedUntil' \in Nat
      BY <2>4, Lockouts, <1>0
    <3> QED
      BY <2>1, <2>4, <3>1, <1>0
  <2> QED
    BY <2>3, <2>4, <1>2 DEF Fail
<1>3. ASSUME NEW r \in Reqs, Succeed(r)
      PROVE  TypeOK'
  BY <1>3, <1>a DEF Succeed
<1>4. ASSUME NEW r \in Reqs, NoToken(r)
      PROVE  Types'
  BY <1>3, <1>4 DEF NoToken, tokens
<1>5. ASSUME NEW r \in Reqs, NEW t \in Tokens, Grant(r, t)
      PROVE  Types'
  <2>1. now + SessionTimeout \in Nat
    BY <1>0
  <2> QED
    BY <1>3, <1>5, <2>1, <1>0 DEF Grant, T!Add
<1>6. ASSUME Cleanup, UNCHANGED tokens
      PROVE  Types'
  BY <1>6, <1>a DEF Cleanup, tokens
<1>7. ASSUME Tick, UNCHANGED tokens
      PROVE  Types'
  <2>1. now' \in 1..MaxTime /\ 1..now \subseteq 1..now' /\ 0..now \subseteq 0..now'
    BY <1>7, <1>0 DEF Tick
  <2>2. counted' \subseteq (1..now') \X (1..(MaxAttempts - 1))
    BY <1>7, <2>1 DEF Tick
  <2> QED
    BY <1>7, <2>1, <2>2 DEF Tick, entry, tokens
<1>8. ASSUME CleanupTokens
      PROVE  Types'
  BY <1>8 DEF CleanupTokens, T!Sweep, vars, entry
<1>9. ASSUME Restart
      PROVE  Types'
  BY <1>9, <1>a DEF Restart, T!NoTokens
<1>10. ASSUME UNCHANGED loginVars
       PROVE  Types'
  BY <1>10 DEF loginVars, vars, entry, tokens
<1> QED
  BY <1>1, <1>2, <1>4, <1>5, <1>6, <1>7, <1>8, <1>9, <1>10 DEF LoginNext

(* Every variable keeps its type, and the window and the lockout exclude   *)
(* each other.                                                             *)
THEOREM Typing == LoginSpec => []Types
<1>1. ASSUME LoginInit PROVE Types
  <2>0. known \in BOOLEAN
    BY <1>1 DEF LoginInit, Init
  <2>1. now \in 1..MaxTime
    <3>1. now = 1
      BY <1>1 DEF LoginInit, Init
    <3> QED
      BY <3>1, Config
  <2>2. /\ failures = 0 /\ windowStart = 0 /\ lockedUntil = 0 /\ level = 0
        /\ lastSeen = 0 /\ late = 0 /\ counted = {}
        /\ pc \in [Reqs -> {"idle", "verify"}]
        /\ expiry \in [Tokens -> Nat] /\ granted \in [Tokens -> Nat]
    BY <1>1 DEF LoginInit, Init
  <2>3. 0 \in 0..now /\ 0 \in 0..(MaxAttempts - 1)
    BY <2>1, Config
  <2> QED
    BY <2>0, <2>1, <2>2, <2>3 DEF Types, TypeOK
<1> QED
  BY <1>1, TypesStep, PTL DEF LoginSpec

-----------------------------------------------------------------------------
(* Tokens.                                                                 *)

(* A token that is known has the whole of its time, and one that is not    *)
(* any more was swept when that was over.                                  *)
LeaseInv ==
  \A t \in Tokens :
    /\ granted[t] = 0 => expiry[t] = 0
    /\ expiry[t] # 0 => expiry[t] = granted[t] + SessionTimeout
    /\ granted[t] # 0 /\ expiry[t] = 0 => now - granted[t] >= SessionTimeout

LEMMA LeaseStep ==
  ASSUME Types, LeaseInv, [LoginNext]_loginVars
  PROVE  LeaseInv'
<1>0. /\ now \in Nat \ {0} /\ SessionTimeout \in Nat \ {0}
      /\ \A t \in Tokens : expiry[t] \in Nat /\ granted[t] \in Nat
  BY Config DEF Types, TypeOK
<1>1. ASSUME UNCHANGED tokens, now' \in Nat, now' >= now
      PROVE  LeaseInv'
  BY <1>1, <1>0 DEF tokens, LeaseInv
<1>2. ASSUME NEW r \in Reqs, NEW t \in Tokens, Grant(r, t)
      PROVE  LeaseInv'
  <2>1. /\ UNCHANGED now
        /\ \A u \in Tokens :
             /\ expiry'[u] = IF u = t THEN now + SessionTimeout ELSE expiry[u]
             /\ granted'[u] = IF u = t THEN now ELSE granted[u]
    BY <1>2 DEF Grant, Succeed, T!Add, Types
  <2> QED
    BY <2>1, <1>0 DEF LeaseInv
<1>3. ASSUME CleanupTokens
      PROVE  LeaseInv'
  <2>1. /\ UNCHANGED <<now, granted>>
        /\ \A u \in Tokens :
             expiry'[u] = IF now > expiry[u] THEN 0 ELSE expiry[u]
    BY <1>3 DEF CleanupTokens, T!Sweep, vars
  <2> QED
    BY <2>1, <1>0 DEF LeaseInv
<1>4. ASSUME Restart
      PROVE  LeaseInv'
  BY <1>4 DEF Restart, T!NoTokens, LeaseInv
<1>5. ASSUME UNCHANGED now PROVE now' \in Nat /\ now' >= now
  BY <1>5, <1>0
<1>6. ASSUME Tick PROVE now' \in Nat /\ now' >= now
  BY <1>6, <1>0 DEF Tick
<1>7. ASSUME NEW r \in Reqs,
             Allowed(r) \/ BadRequest(r) \/ FailLocked(r) \/ Fail(r) \/ NoToken(r)
      PROVE  UNCHANGED now
  BY <1>7 DEF Allowed, BadRequest, FailLocked, Fail, NoToken, Succeed
<1>8. Cleanup => UNCHANGED now
  BY DEF Cleanup
<1>9. ASSUME UNCHANGED loginVars PROVE UNCHANGED tokens /\ UNCHANGED now
  BY <1>9 DEF loginVars, vars
<1> QED
  BY <1>1, <1>2, <1>3, <1>4, <1>5, <1>6, <1>7, <1>8, <1>9 DEF LoginNext, NoToken

(* A token is good for exactly the time that it was given for, whatever    *)
(* the rounds of cleanup do.                                               *)
THEOREM TokenLasts == LoginSpec => []LeaseKept
<1>1. ASSUME LoginInit PROVE LeaseInv
  BY <1>1 DEF LoginInit, LeaseInv
<1>2. Types /\ LeaseInv /\ [LoginNext]_loginVars => LeaseInv'
  BY LeaseStep
<1>3. ASSUME Types, LeaseInv PROVE LeaseKept
  <2>1. /\ now \in Nat \ {0} /\ SessionTimeout \in Nat \ {0}
        /\ \A t \in Tokens : expiry[t] \in Nat /\ granted[t] \in Nat
    BY <1>3, Config DEF Types, TypeOK
  <2> QED
    BY <2>1, <1>3 DEF LeaseKept, LeaseInv, T!Valid, T!Known
<1> QED
  BY <1>1, <1>2, <1>3, Typing, PTL DEF LoginSpec

-----------------------------------------------------------------------------
(* A lockout lets through who was let in before it.                        *)

Verifying == {r \in Reqs : pc[r] = "verify"}

(* Those that have been tried and those that still can be, during the      *)
(* lockout, leave out the request whose failure began it.                  *)
LateInv == Locked => late + Cardinality(Verifying) + 1 <= Cardinality(Reqs)

LEMMA Fewer ==
  ASSUME NEW r \in Reqs, Types, pc[r] = "verify", Answer(r)
  PROVE  /\ Verifying' = Verifying \ {r}
         /\ Cardinality(Verifying) \in Nat /\ Cardinality(Verifying') \in Nat
         /\ Cardinality(Reqs) \in Nat
         /\ Cardinality(Verifying') + 1 = Cardinality(Verifying)
         /\ Cardinality(Verifying') + 1 <= Cardinality(Reqs)
<1>1. Verifying' = Verifying \ {r} /\ r \in Verifying /\ Verifying \in SUBSET Reqs
  BY DEF Verifying, Answer, Types, TypeOK
<1>2. IsFiniteSet(Verifying) /\ Cardinality(Verifying) <= Cardinality(Reqs)
  BY <1>1, Config, FS_Subset
<1>3. /\ IsFiniteSet(Verifying \ {r})
      /\ Cardinality(Verifying \ {r}) = Cardinality(Verifying) - 1
  BY <1>1, <1>2, FS_RemoveElement
<1>4. /\ Cardinality(Verifying) \in Nat /\ Cardinality(Reqs) \in Nat
      /\ Cardinality(Verifying \ {r}) \in Nat
  BY <1>2, <1>3, Config, FS_CardinalityType
<1> QED
  BY <1>1, <1>2, <1>3, <1>4

LEMMA LateStep ==
  ASSUME Types, LateInv, [LoginNext]_loginVars
  PROVE  LateInv'
<1>0. now \in Nat \ {0} /\ lockedUntil \in Nat /\ late \in Nat
  BY Config DEF Types, TypeOK
<1>1. ASSUME UNCHANGED pc PROVE Verifying' = Verifying
  BY <1>1 DEF Verifying
<1>2. ASSUME NoEntry, UNCHANGED now \/ now' \in Nat
      PROVE  LateInv'
  BY <1>2, <1>0 DEF NoEntry, LateInv, Locked
<1>3. ASSUME NEW r \in Reqs, Allowed(r)
      PROVE  LateInv'
  BY <1>3 DEF Allowed, entry, LateInv, Locked
<1>4. ASSUME NEW r \in Reqs, BadRequest(r)
      PROVE  LateInv'
  <2>1. Cardinality(Verifying') + 1 = Cardinality(Verifying)
    BY <1>4, Fewer DEF BadRequest
  <2>2. Cardinality(Verifying) \in Nat /\ Cardinality(Verifying') \in Nat /\ Cardinality(Reqs) \in Nat
    BY <1>4, Fewer DEF BadRequest
  <2>3. UNCHANGED <<now, lockedUntil, late>>
    BY <1>4 DEF BadRequest, entry
  <2> QED
    BY <2>1, <2>2, <2>3, <1>0 DEF LateInv, Locked
<1>5. ASSUME NEW r \in Reqs, FailLocked(r)
      PROVE  LateInv'
  <2>1. Cardinality(Verifying') + 1 = Cardinality(Verifying)
    BY <1>5, Fewer DEF FailLocked
  <2>2. Cardinality(Verifying) \in Nat /\ Cardinality(Verifying') \in Nat /\ Cardinality(Reqs) \in Nat
    BY <1>5, Fewer DEF FailLocked
  <2>3. UNCHANGED <<now, lockedUntil>> /\ late' = late + 1 /\ Locked
    BY <1>5 DEF FailLocked
  <2> QED
    BY <2>1, <2>2, <2>3, <1>0 DEF LateInv, Locked
<1>6. ASSUME NEW r \in Reqs, Fail(r)
      PROVE  LateInv'
  <2>1. /\ Cardinality(Verifying') + 1 <= Cardinality(Reqs)
        /\ Cardinality(Verifying') \in Nat /\ Cardinality(Reqs) \in Nat
    BY <1>6, Fewer DEF Fail
  <2>2. late' = 0
    BY <1>6 DEF Fail
  <2> QED
    BY <2>1, <2>2 DEF LateInv
<1>7. ASSUME NEW r \in Reqs, Succeed(r)
      PROVE  LateInv'
  BY <1>2, <1>7 DEF Succeed
<1>8. ASSUME Cleanup
      PROVE  LateInv'
  BY <1>2, <1>8 DEF Cleanup
<1>9. ASSUME Tick
      PROVE  LateInv'
  <2>1. Locked' => Locked
    BY <1>9, <1>0 DEF Tick, entry, Locked
  <2>2. Verifying' = Verifying /\ late' = late
    BY <1>1, <1>9 DEF Tick
  <2> QED
    BY <2>1, <2>2 DEF LateInv
<1>10. ASSUME UNCHANGED vars
       PROVE  LateInv'
  BY <1>1, <1>10 DEF vars, entry, LateInv, Locked
<1>11. ASSUME Restart
       PROVE  LateInv'
  BY <1>2, <1>11 DEF Restart
<1> QED
  BY <1>3, <1>4, <1>5, <1>6, <1>7, <1>8, <1>9, <1>10, <1>11
  DEF LoginNext, NoToken, Grant, CleanupTokens, loginVars

(* The passwords that are tried during a lockout are fewer than the        *)
(* requests that can be under way at the same time.                        *)
THEOREM FewAreLate == LoginSpec => []LateBound
<1>1. ASSUME LoginInit PROVE LateInv
  BY <1>1 DEF LoginInit, Init, LateInv, Locked
<1>2. Types /\ LateInv /\ [LoginNext]_loginVars => LateInv'
  BY LateStep
<1>3. ASSUME Types, LateInv PROVE LateBound
  <2>1. Verifying \in SUBSET Reqs
    BY DEF Verifying
  <2>2. Cardinality(Verifying) \in Nat /\ Cardinality(Reqs) \in Nat
    BY <2>1, Config, FS_Subset, FS_CardinalityType
  <2>3. late \in Nat
    BY <1>3 DEF Types, TypeOK
  <2> QED
    BY <1>3, <2>2, <2>3 DEF LateBound, LateInv, Types
<1> QED
  BY <1>1, <1>2, <1>3, Typing, PTL DEF LoginSpec

-----------------------------------------------------------------------------
(* Failures.  Those from before the start of the window are of the window  *)
(* before it, and the first of that one is too long ago to be remembered;  *)
(* each of the two windows counts a failure of a number once.              *)

New(f) == f[1] >= windowStart

Remembered(f) == now - f[1] <= Window /\ f[1] <= lastSeen

InWindow(f) == /\ f[2] <= failures /\ f[1] - windowStart <= Window
               /\ f[2] = 1 => f[1] = windowStart

WindowInv ==
  /\ windowStart = 0 => counted = {}
  /\ \A f \in counted : Remembered(f) /\ (New(f) => InWindow(f)) /\ (~New(f) => f[2] # 1)
  /\ \A f, g \in counted : f[2] = g[2] /\ (New(f) <=> New(g)) => f = g

LEMMA Numbers ==
  ASSUME Types
  PROVE  /\ now \in Nat \ {0} /\ lastSeen \in Nat /\ lastSeen <= now
         /\ windowStart \in Nat /\ windowStart <= now
         /\ failures \in Nat /\ Window \in Nat /\ MaxAttempts \in Nat \ {0}
         /\ \A f \in counted : /\ f = <<f[1], f[2]>>
                               /\ f[1] \in Nat \ {0} /\ f[1] <= now
                               /\ f[2] \in Nat \ {0} /\ f[2] <= MaxAttempts - 1
<1>1. /\ now \in Nat \ {0} /\ lastSeen \in Nat /\ lastSeen <= now
      /\ windowStart \in Nat /\ windowStart <= now /\ failures \in Nat
  BY Config DEF Types, TypeOK
<1>2. ASSUME NEW f \in counted
      PROVE  /\ f = <<f[1], f[2]>>
             /\ f[1] \in Nat \ {0} /\ f[1] <= now
             /\ f[2] \in Nat \ {0} /\ f[2] <= MaxAttempts - 1
  <2>1. f \in (1..now) \X (1..(MaxAttempts - 1))
    BY DEF Types, TypeOK
  <2>2. f = <<f[1], f[2]>> /\ f[1] \in 1..now /\ f[2] \in 1..(MaxAttempts - 1)
    BY <2>1
  <2> QED
    BY <2>2, <1>1, Config
<1> QED
  BY <1>1, <1>2, Config

(* A failure that starts a window: all that is remembered is of the window *)
(* before, and without its first.                                          *)
LEMMA FreshFailure ==
  ASSUME Types, WindowInv, windowStart = 0 \/ now - windowStart > Window,
         windowStart' = now, failures' = 1, lastSeen' = now, now' = now,
         counted' = counted \cup {<<now, 1>>}
  PROVE  WindowInv'
<1>1. \A f \in counted : New(f) /\ f[1] < now /\ f[2] # 1
  <2> SUFFICES ASSUME NEW f \in counted
               PROVE  New(f) /\ f[1] < now /\ f[2] # 1
    OBVIOUS
  <2>1. windowStart # 0
    BY DEF WindowInv
  <2>2. now - windowStart > Window /\ now - f[1] <= Window
    BY <2>1 DEF WindowInv, Remembered
  <2>3. New(f)
    BY <2>2, Numbers DEF New
  <2>4. f[1] - windowStart <= Window /\ (f[2] = 1 => f[1] = windowStart)
    BY <2>3 DEF WindowInv, InWindow
  <2> QED
    BY <2>2, <2>3, <2>4, Numbers
<1>2. \A f \in counted : ~New(f)' /\ Remembered(f)'
  BY <1>1, Numbers DEF New, Remembered, WindowInv
<1>3. /\ New(<<now, 1>>)' /\ Remembered(<<now, 1>>)' /\ InWindow(<<now, 1>>)'
  BY Numbers DEF New, Remembered, InWindow
<1>4. windowStart' # 0
  BY Numbers
<1>5. \A f, g \in counted : f[2] = g[2] => f = g
  BY <1>1 DEF WindowInv
<1> QED
  BY <1>1, <1>2, <1>3, <1>4, <1>5 DEF WindowInv

(* One more in the same window. *)
LEMMA NextFailure ==
  ASSUME Types, WindowInv, windowStart # 0, now - windowStart <= Window,
         windowStart' = windowStart, failures' = failures + 1,
         lastSeen' = now, now' = now,
         counted' = counted \cup {<<now, failures + 1>>}
  PROVE  WindowInv'
<1>1. \A f \in counted : (New(f)' <=> New(f)) /\ Remembered(f)'
  BY Numbers DEF New, Remembered, WindowInv
<1>2. \A f \in counted : New(f) => InWindow(f)' /\ f[2] # failures + 1
  BY Numbers DEF WindowInv, InWindow
<1>3. failures > 0
  BY Numbers DEF Types, TypeOK
<1>4. PICK e : e = <<now, failures + 1>>
  OBVIOUS
<1>5. e[1] >= windowStart' /\ now' - e[1] <= Window /\ e[1] <= lastSeen'
  BY <1>4, Numbers
<1>6. e[2] <= failures' /\ e[1] - windowStart' <= Window /\ e[2] # 1
  BY <1>3, <1>4, Numbers
<1>7. \A f \in counted' : Remembered(f)' /\ (New(f)' => InWindow(f)') /\ (~New(f)' => f[2] # 1)
  <2>1. ASSUME NEW f \in counted
        PROVE  Remembered(f)' /\ (New(f)' => InWindow(f)') /\ (~New(f)' => f[2] # 1)
    BY <1>1, <1>2 DEF WindowInv
  <2>2. Remembered(e)' /\ InWindow(e)' /\ New(e)'
    BY <1>5, <1>6 DEF Remembered, InWindow, New
  <2> QED
    BY <2>1, <2>2, <1>4
<1>8. \A f, g \in counted' : f[2] = g[2] /\ (New(f)' <=> New(g)') => f = g
  <2>1. \A f \in counted : ~(f[2] = e[2] /\ New(f)')
    BY <1>1, <1>2, <1>4
  <2>2. \A f \in counted' : f \in counted \/ f = e
    BY <1>4
  <2>3. New(e)'
    BY <1>5 DEF New
  <2>4. \A f, g \in counted : f[2] = g[2] /\ (New(f)' <=> New(g)') => f = g
    BY <1>1 DEF WindowInv
  <2> QED
    BY <2>1, <2>2, <2>3, <2>4
<1> QED
  BY <1>7, <1>8 DEF WindowInv

LEMMA WindowStep ==
  ASSUME Types, WindowInv, [LoginNext]_loginVars
  PROVE  WindowInv'
<1>1. ASSUME counted' = {}
      PROVE  WindowInv'
  BY <1>1 DEF WindowInv
<1>2. ASSUME UNCHANGED <<now, counted, windowStart, failures>>, lastSeen' \in {lastSeen, now}
      PROVE  WindowInv'
  <2>1. \A f \in counted : Remembered(f) => Remembered(f)'
    BY <1>2, Numbers DEF Remembered
  <2>2. \A f \in counted : (New(f)' <=> New(f)) /\ (InWindow(f)' <=> InWindow(f))
    BY <1>2 DEF New, InWindow
  <2> QED
    BY <2>1, <2>2, <1>2 DEF WindowInv
<1>3. ASSUME NEW r \in Reqs, Allowed(r) \/ BadRequest(r) \/ FailLocked(r)
      PROVE  WindowInv'
  BY <1>2, <1>3 DEF Allowed, BadRequest, FailLocked, entry
<1>4. ASSUME NEW r \in Reqs, Fail(r)
      PROVE  WindowInv'
  <2> DEFINE fresh == windowStart = 0 \/ now - windowStart > Window
             count == IF fresh THEN 1 ELSE failures + 1
  <2>1. /\ UNCHANGED now /\ lastSeen' = now
        /\ \/ counted' = {}
           \/ /\ failures' = count
              /\ windowStart' = IF fresh THEN now ELSE windowStart
              /\ counted' = counted \cup {<<now, count>>}
    BY <1>4 DEF Fail
  <2>2. CASE counted' # {} /\ fresh
    BY <2>1, <2>2, FreshFailure
  <2>3. CASE counted' # {} /\ ~fresh
    <3>1. windowStart # 0 /\ now - windowStart <= Window
      BY <2>3, Numbers
    <3>2. /\ windowStart' = windowStart /\ failures' = failures + 1
          /\ counted' = counted \cup {<<now, failures + 1>>}
      BY <2>1, <2>3
    <3> HIDE DEF fresh, count
    <3> QED
      BY <3>1, <3>2, <2>1, NextFailure
  <2> QED
    BY <2>2, <2>3, <1>1
<1>5. ASSUME Tick
      PROVE  WindowInv'
  <2>1. /\ UNCHANGED <<windowStart, failures, lastSeen>>
        /\ counted' = {f \in counted : now' - f[1] <= Window}
    BY <1>5 DEF Tick, entry
  <2>2. \A f \in counted' : f \in counted /\ now' - f[1] <= Window
    BY <2>1
  <2>3. \A f \in counted : (New(f)' <=> New(f)) /\ (InWindow(f)' <=> InWindow(f))
    BY <2>1 DEF New, InWindow
  <2>4. \A f \in counted' : Remembered(f)'
    BY <2>1, <2>2 DEF Remembered, WindowInv
  <2> QED
    BY <2>1, <2>2, <2>3, <2>4 DEF WindowInv
<1>6. ASSUME CleanupTokens \/ UNCHANGED loginVars
      PROVE  WindowInv'
  BY <1>2, <1>6 DEF CleanupTokens, loginVars, vars, entry
<1>7. ASSUME NEW r \in Reqs, NEW t \in Tokens, Grant(r, t)
      PROVE  WindowInv'
  BY <1>1, <1>7 DEF Grant, Succeed
<1>8. ASSUME NEW r \in Reqs, NoToken(r)
      PROVE  WindowInv'
  BY <1>1, <1>8 DEF NoToken, Succeed
<1>9. ASSUME Restart
      PROVE  WindowInv'
  BY <1>1, <1>9 DEF Restart
<1>10. ASSUME Cleanup
       PROVE  WindowInv'
  <2>1. /\ UNCHANGED <<now, counted>> /\ NoEntry /\ now - lastSeen > Window
    BY <1>10, Numbers, Config DEF Cleanup, MaxLockout
  <2>2. counted = {}
    BY <2>1, Numbers DEF WindowInv, Remembered
  <2> QED
    BY <2>1, <2>2, <1>1
<1> QED
  BY <1>3, <1>4, <1>5, <1>6, <1>7, <1>8, <1>9, <1>10 DEF LoginNext

(* The failures of the last Window units, and the windows they are in.     *)
LEMMA Windows == LoginSpec => [](Types /\ WindowInv)
<1>1. ASSUME LoginInit PROVE WindowInv
  BY <1>1 DEF LoginInit, Init, WindowInv
<1>2. Types /\ WindowInv /\ [LoginNext]_loginVars => WindowInv'
  BY WindowStep
<1> QED
  BY <1>1, <1>2, Typing, PTL DEF LoginSpec

(* What any Window units see unpunished is at most one window, and of the  *)
(* one before it all but its first failure: each failure has a place of    *)
(* its own among the numbers from 1 to that bound.                         *)
LEMMA Unpunished ==
  ASSUME Types, WindowInv
  PROVE  TwoWindows
<1>1. CASE MaxAttempts = 1
  <2>1. counted = {}
    BY <1>1, Numbers
  <2> QED
    BY <1>1, <2>1, FS_EmptySet DEF TwoWindows
<1>2. CASE MaxAttempts # 1
  <2> DEFINE b == (MaxAttempts - 2) + (MaxAttempts - 1)
             place == [f \in counted |-> IF New(f) THEN f[2] ELSE MaxAttempts - 2 + f[2]]
  <2>0. b \in Nat \ {0} /\ MaxAttempts - 2 \in Nat
    BY <1>2, Numbers
  <2>1. \A f \in counted : /\ place[f] \in 1..b
                           /\ New(f) => place[f] = f[2] /\ f[2] <= MaxAttempts - 1
                           /\ ~New(f) => /\ place[f] = MaxAttempts - 2 + f[2]
                                         /\ place[f] > MaxAttempts - 1
    <3> SUFFICES ASSUME NEW f \in counted
                 PROVE  /\ place[f] \in 1..b
                        /\ New(f) => place[f] = f[2] /\ f[2] <= MaxAttempts - 1
                        /\ ~New(f) => /\ place[f] = MaxAttempts - 2 + f[2]
                                      /\ place[f] > MaxAttempts - 1
      OBVIOUS
    <3>1. f[2] \in Nat \ {0} /\ f[2] <= MaxAttempts - 1 /\ (~New(f) => f[2] # 1)
      BY Numbers DEF WindowInv
    <3>2. CASE New(f)
      BY <3>1, <3>2, <2>0, Numbers
    <3>3. CASE ~New(f)
      BY <3>1, <3>3, <2>0, Numbers
    <3> QED
      BY <3>2, <3>3
  <2>2. \A f, g \in counted : place[f] = place[g] => f = g
    <3> SUFFICES ASSUME NEW f \in counted, NEW g \in counted, place[f] = place[g]
                 PROVE  f = g
      OBVIOUS
    <3>1. New(f) <=> New(g)
      BY <2>1, Numbers
    <3>2. f[2] = g[2]
      BY <3>1, <2>1, Numbers
    <3> QED
      BY <3>1, <3>2 DEF WindowInv
  <2>3. place \in [counted -> 1..b]
    BY <2>1
  <2> HIDE DEF place
  <2>4. place \in Injection(counted, 1..b)
    BY <2>2, <2>3 DEF Injection, IsInjective
  <2>5. IsFiniteSet(1..b) /\ Cardinality(1..b) = b
    BY <2>0, FS_Interval
  <2>6. Cardinality(counted) <= b
    BY <2>4, <2>5, FS_Injection
  <2> QED
    BY <2>6, <1>2 DEF TwoWindows
<1> QED
  BY <1>1, <1>2

(* Of the failures in any Window units no more go unpunished than fit into *)
(* one window and, but for its first, into the one before it, however the  *)
(* requests overlap.                                                       *)
THEOREM FewUnpunished == LoginSpec => []TwoWindows
<1>1. Types /\ WindowInv => TwoWindows
  BY Unpunished
<1> QED
  BY <1>1, Windows, PTL

(* Forgetting an idle address restarts no count and lifts no lockout.      *)
THEOREM ForgottenLate == LoginSpec => CleanupIsLate
<1>1. Types /\ WindowInv /\ [LoginNext]_loginVars
        => [Cleanup => counted = {} /\ ~Locked]_vars
  <2> SUFFICES ASSUME Types, WindowInv, Cleanup
               PROVE  counted = {} /\ ~Locked
    OBVIOUS
  <2>1. now > lockedUntil /\ now - lastSeen > Window
    BY Numbers, Config DEF Cleanup, MaxLockout
  <2>2. lockedUntil \in Nat
    BY DEF Types, TypeOK
  <2>3. ~Locked
    BY <2>1, <2>2, Numbers DEF Locked
  <2>4. counted = {}
    BY <2>1, Numbers DEF WindowInv, Remembered
  <2> QED
    BY <2>3, <2>4
<1> QED
  BY <1>1, Windows, PTL DEF LoginSpec, CleanupIsLate

=============================================================================
