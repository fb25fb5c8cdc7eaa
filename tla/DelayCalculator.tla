--------------------------- MODULE DelayCalculator ---------------------------
(***************************************************************************)
(* The back-off schedule of DelayCalculator.ExponentialDelay.  The code    *)
(* computes in doubles; every value it meets is a whole number of half     *)
(* seconds, so the delay is held in half seconds until Convert.ToInt64     *)
(* rounds it, halves going to the even second.                             *)
(***************************************************************************)
EXTENDS Integers

\* 0.5 * (2^n - 1) seconds, in half seconds.
HalfSeconds(failedAttempts) == 2^failedAttempts - 1

\* Mutant: the half second is dropped.
TruncatedToInt64(halves) == halves \div 2

\* Convert.ToInt64(double): an exact half goes to the even neighbour.
ToInt64(halves) ==
  LET floor == halves \div 2
  IN  IF halves % 2 = 1 /\ floor % 2 = 1 THEN floor + 1 ELSE floor

\* The longer of the two is cut to the maximum, before rounding.
Capped(halves, maxDelayInSeconds) ==
  IF 2 * maxDelayInSeconds < halves THEN maxDelayInSeconds ELSE ToInt64(halves)

ExponentialDelay(failedAttempts, maxDelayInSeconds) ==
  Capped(HalfSeconds(failedAttempts), maxDelayInSeconds)
=============================================================================
