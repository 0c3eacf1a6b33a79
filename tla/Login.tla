------------------------------- MODULE Login --------------------------------
(***************************************************************************)
(* HandleLogin from one address, whole: the limiter, the password, and the *)
(* token that a right one earns.  Limiter and tokens have a lock each and  *)
(* nothing in common, so that Reset and Add are one step here.  Both are   *)
(* in memory, and a restart forgets them.                                  *)
(***************************************************************************)
EXTENDS LoginLimiter

CONSTANTS Tokens, SessionTimeout   \* of AuthTokens

ASSUME TokensAssumption == SessionTimeout \in Nat \ {0}

VARIABLES
  expiry,    \* of AuthTokens
  granted    \* history: when the token was last given out, 0 before and after
             \* a restart

T == INSTANCE AuthTokens

tokens    == <<expiry, granted>>
loginVars == <<vars, tokens>>

LoginInit ==
  /\ Init
  /\ expiry = [t \in Tokens |-> 0] /\ granted = [t \in Tokens |-> 0]

(* The right password; GenerateSessionToken may have no random bytes. *)
Grant(r, t) ==
  /\ Succeed(r) /\ ~T!Known(t) /\ T!Add(t)
  /\ granted' = [granted EXCEPT ![t] = now]

NoToken(r) == Succeed(r) /\ UNCHANGED tokens

CleanupTokens ==
  /\ \E t \in Tokens : T!Known(t) /\ T!Sweep
  /\ UNCHANGED <<vars, granted>>

Restart ==
  /\ NoEntry /\ T!NoTokens
  /\ granted' = [t \in Tokens |-> 0]
  /\ pc' = [r \in Reqs |-> "idle"]
  /\ counted' = {} /\ late' = 0
  /\ UNCHANGED now

LoginNext ==
  \/ \E r \in Reqs :
       \/ (Allowed(r) \/ BadRequest(r) \/ FailLocked(r) \/ Fail(r)) /\ UNCHANGED tokens
       \/ NoToken(r) \/ \E t \in Tokens : Grant(r, t)
  \/ (Cleanup \/ Tick) /\ UNCHANGED tokens
  \/ CleanupTokens \/ Restart

LoginSpec == LoginInit /\ [][LoginNext]_loginVars

-----------------------------------------------------------------------------
(* Properties.                                                             *)

(* A token is good for exactly the time it was given for, however the      *)
(* rounds of cleanup fall and whoever else logs in, unless the server is   *)
(* restarted.                                                              *)
LeaseKept ==
  \A t \in Tokens :
    T!Valid(t) <=> granted[t] # 0 /\ now - granted[t] < SessionTimeout

=============================================================================
