---------------------------- MODULE LoginLimiter ----------------------------
(***************************************************************************)
(* The throttling of logins for one client address: RateLimiter of         *)
(* internal/auth/ratelimit.go, as HandleLogin of internal/api/handlers.go  *)
(* calls it.  RateLimiter.mu makes each call atomic, but a request asks    *)
(* Allowed in one call and reports its failure in another, so requests     *)
(* overlap.  Time is counted in the units of Window and BaseLockout.       *)
(* Login composes these actions with the rest of the handler.              *)
(***************************************************************************)
EXTENDS Naturals, FiniteSets

CONSTANTS
  Reqs,         \* login requests from the address at the same time
  MaxAttempts,  \* LOGIN_MAX_ATTEMPTS
  Window,       \* LOGIN_WINDOW
  BaseLockout,  \* LOGIN_LOCKOUT
  MaxTime       \* a bound: the clock stops there

ASSUME ConfigAssumption ==
  /\ MaxAttempts \in Nat \ {0} /\ Window \in Nat /\ BaseLockout \in Nat \ {0}
  /\ MaxTime \in Nat \ {0} /\ IsFiniteSet(Reqs)

VARIABLES
  now,
  known,        \* whether the address has an entry
  failures, windowStart, lockedUntil, level, lastSeen,  \* the entry; 0: unset
  pc,           \* per request: "idle", or "verify" after Allowed said yes
  counted,      \* history: when each failure since the last lockout happened,
                \* and which of its window it was; those of the last Window
                \* units are remembered
  late          \* history: the passwords verified during the current lockout

entry == <<known, failures, windowStart, lockedUntil, level, lastSeen>>
vars  == <<now, entry, pc, counted, late>>

MaxLockout == 16 * BaseLockout
Locked == now < lockedUntil

(* Doubling, up to the cap; the overflow of a shift by more than 20 levels *)
(* is left out.                                                            *)
Lockout(n) == BaseLockout * CASE n = 1 -> 1 [] n = 2 -> 2 [] n = 3 -> 4
                              [] n = 4 -> 8 [] OTHER -> 16

NoEntry == /\ known' = FALSE /\ failures' = 0 /\ windowStart' = 0
           /\ lockedUntil' = 0 /\ level' = 0 /\ lastSeen' = 0

Init ==
  /\ now = 1
  /\ known = FALSE /\ failures = 0 /\ windowStart = 0
  /\ lockedUntil = 0 /\ level = 0 /\ lastSeen = 0
  /\ pc = [r \in Reqs |-> "idle"]
  /\ counted = {} /\ late = 0

Answer(r) == pc' = [pc EXCEPT ![r] = "idle"]

-----------------------------------------------------------------------------
(* A mutant: the lockout is not looked at. *)
AllowedAlways(r) ==
  /\ pc[r] = "idle"
  /\ pc' = [pc EXCEPT ![r] = "verify"]
  /\ UNCHANGED <<now, entry, counted, late>>

(* Allowed; who is locked out is turned away.                              *)
Allowed(r) ==
  /\ pc[r] = "idle" /\ ~Locked
  /\ pc' = [pc EXCEPT ![r] = "verify"]
  /\ UNCHANGED <<now, entry, counted, late>>

BadRequest(r) ==
  /\ pc[r] = "verify" /\ Answer(r)
  /\ UNCHANGED <<now, entry, counted, late>>

(* RecordFailure, when a lockout that began in the meantime stands. *)
FailLocked(r) ==
  /\ pc[r] = "verify" /\ Answer(r)
  /\ Locked
  /\ lastSeen' = now /\ late' = late + 1
  /\ UNCHANGED <<now, known, failures, windowStart, lockedUntil, level,
                 counted>>

(* A mutant: a window whose start is not kept. *)
FailAfresh(r) ==
  /\ pc[r] = "verify" /\ Answer(r)
  /\ ~Locked
  /\ known' = TRUE /\ lastSeen' = now /\ late' = 0
  /\ failures' = 1 /\ counted' = counted \cup {<<now, Cardinality(counted) + 1>>}
  /\ UNCHANGED <<now, windowStart, lockedUntil, level>>

(* RecordFailure, when none does. *)
Fail(r) ==
  LET fresh == windowStart = 0 \/ now - windowStart > Window
      count == IF fresh THEN 1 ELSE failures + 1
  IN
  /\ pc[r] = "verify" /\ Answer(r)
  /\ ~Locked
  /\ known' = TRUE /\ lastSeen' = now /\ late' = 0
  /\ \/ /\ count < MaxAttempts
        /\ failures' = count
        /\ windowStart' = IF fresh THEN now ELSE windowStart
        /\ counted' = counted \cup {<<now, count>>}
        /\ UNCHANGED <<lockedUntil, level>>
     \/ /\ count >= MaxAttempts
        /\ level' = level + 1
        /\ lockedUntil' = now + Lockout(level + 1)
        /\ failures' = 0 /\ windowStart' = 0 /\ counted' = {}
  /\ UNCHANGED now

(* The right password: Reset, whatever has happened since Allowed. *)
Succeed(r) ==
  /\ pc[r] = "verify" /\ Answer(r)
  /\ NoEntry /\ counted' = {} /\ late' = 0
  /\ UNCHANGED now

(* A mutant: no retention. *)
CleanupAtOnce ==
  /\ known
  /\ now > lockedUntil
  /\ NoEntry
  /\ UNCHANGED <<now, pc, counted, late>>

(* One round of cleanup. *)
Cleanup ==
  /\ known
  /\ now > lockedUntil
  /\ LET retention == IF Window > MaxLockout THEN Window ELSE MaxLockout
     IN  now - lastSeen > retention
  /\ NoEntry
  /\ UNCHANGED <<now, pc, counted, late>>

Tick ==
  /\ now < MaxTime /\ now' = now + 1
  /\ counted' = {f \in counted : now' - f[1] <= Window}
  /\ UNCHANGED <<entry, pc, late>>

-----------------------------------------------------------------------------
(* Properties.                                                             *)

(* Every variable has its type; the window and the lockout exclude each    *)
(* other, and an address without an entry has neither.                     *)
TypeOK ==
  /\ now \in 1..MaxTime /\ lastSeen \in 0..now /\ windowStart \in 0..now
  /\ known \in BOOLEAN /\ lockedUntil \in Nat /\ level \in Nat
  /\ failures \in 0..(MaxAttempts - 1) /\ late \in Nat
  /\ counted \subseteq (1..now) \X (1..(MaxAttempts - 1))
  /\ pc \in [Reqs -> {"idle", "verify"}]
  /\ failures > 0 <=> windowStart > 0
  /\ ~known => failures = 0 /\ level = 0 /\ lockedUntil = 0 /\ lastSeen = 0

(* The window starts at a failure and ends by itself, so that two of them  *)
(* can lie close together; but what any Window units see unpunished is at  *)
(* most one window, and of the one before it all but its first failure.    *)
TwoWindows ==
  Cardinality(counted) <= IF MaxAttempts = 1 THEN 0
                          ELSE (MaxAttempts - 2) + (MaxAttempts - 1)

(* A lockout does not stop the requests that were let in before it, and    *)
(* only these: the passwords tried during it are fewer than the requests.  *)
(* The types are checked with it.                                          *)
LateBound == TypeOK /\ (Locked => late + 1 <= Cardinality(Reqs))

(* Forgetting an idle address never restarts a count that was running, nor *)
(* lifts a lockout.                                                        *)
CleanupIsLate ==
  [][Cleanup => counted = {} /\ ~Locked]_vars

=============================================================================
