--------------------------- MODULE RetrySchedule ---------------------------
(***************************************************************************)
(* How long a supervisor waits before the next attempt,                    *)
(* crates/tunnel-core/src/retry.rs.  Attempts are numbered from 1; the     *)
(* jitter is drawn by the supervisor, in percent.  The code calculates in  *)
(* u128, where none of this overflows, and caps the result at u64::MAX     *)
(* milliseconds, half a billion years; the cap is left out.                *)
(***************************************************************************)
EXTENDS Integers

MULTIPLIERS == <<1, 2, 5, 10, 20, 30>>

least(a, b) == IF a <= b THEN a ELSE b
clamp(x, low, high) == IF x < low THEN low ELSE IF x > high THEN high ELSE x

jitter_limit(policy) == least(policy.jitter_percent, 100)

\* Mutant of unjittered: the limit is forgotten.
unjitteredMutant(policy, attempt) == policy.base_delay * MULTIPLIERS[clamp(attempt, 1, 6)]

unjittered(policy, attempt) ==
  least(policy.base_delay * MULTIPLIERS[clamp(attempt, 1, 6)], policy.max_delay)

delay(policy, attempt, jitter_percent) ==
  LET limit == jitter_limit(policy)
  IN (unjittered(policy, attempt) * (100 + clamp(jitter_percent, -limit, limit))) \div 100

should_reset(policy, healthy_for) == healthy_for >= policy.reset_after_healthy

(***************************************************************************)
(* What an attempt waits under a policy: no longer than the attempt after  *)
(* it for the same jitter, at most twice max_delay, and not zero unless    *)
(* the policy asks for less than a millisecond or for 100 % of jitter.     *)
(* retry.rs:15-29.                                                         *)
(***************************************************************************)
DelayIsBounded(policy, attempt, jitter_percent) ==
  /\ delay(policy, attempt, jitter_percent) <= delay(policy, attempt + 1, jitter_percent)
  /\ delay(policy, attempt, jitter_percent) \in 0..(2 * policy.max_delay)
  /\ policy.base_delay * (100 - policy.jitter_percent) >= 100 =>
       delay(policy, attempt, jitter_percent) > 0
=============================================================================
