-------------------------------- MODULE Clock --------------------------------
(***************************************************************************)
(* The monotonic clock (Instant::now) that the rate limiter, the JWKS       *)
(* manager and the expiry of tokens are measured with.                      *)
(***************************************************************************)
EXTENDS Naturals

CONSTANTS
    MaxTime,    \* bound on the clock
    MaxDelay    \* what an await on a lock or a finished call takes at most

ASSUME ClockAssumption == MaxTime \in Nat /\ MaxDelay \in Nat

VARIABLE clock

Advance == clock < MaxTime /\ clock' = clock + 1
=============================================================================
