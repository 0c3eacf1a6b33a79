----------------------------- MODULE AuthTokens -----------------------------
(***************************************************************************)
(* The SessionStore of internal/auth/middleware.go: the tokens that logins *)
(* have been given, and until when.  SessionStore.mu makes each operation  *)
(* atomic; none of it outlives the process.                                *)
(***************************************************************************)
EXTENDS Naturals

CONSTANTS
  Tokens,          \* 32 random bytes each: never drawn twice while known
  SessionTimeout   \* the time that a login is good for

VARIABLES
  now,      \* the clock, from 1 on
  expiry    \* per token: when it expires, 0 if it is not in the map

Known(t) == expiry[t] # 0

NoTokens == expiry' = [t \in Tokens |-> 0]

Add(t) == expiry' = [expiry EXCEPT ![t] = now + SessionTimeout]

(* Validate, which RequireAuth asks of each request. *)
Valid(t) == Known(t) /\ now < expiry[t]

(* A mutant: the comparison the wrong way round. *)
SweepValid == expiry' = [t \in Tokens |-> IF now < expiry[t] THEN 0 ELSE expiry[t]]

(* One round of cleanup. *)
Sweep == expiry' = [t \in Tokens |-> IF now > expiry[t] THEN 0 ELSE expiry[t]]

=============================================================================
