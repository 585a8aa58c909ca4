------------------------------ MODULE Smearer ------------------------------
(***************************************************************************)
(* Smearer::GetSmearedDelay (v2/smearer.h) and                             *)
(* InvalidationClientImpl::SmearDelay: a delay d is scaled by              *)
(* 1 + f * (2r - 1) in double arithmetic, r = RandDouble() in [0, 1), and  *)
(* the product is converted to an integer count of ms (resp. us), which    *)
(* truncates.  r is modelled as k / RandSteps for k in 0..RandSteps-1 and  *)
(* f as a whole percentage, so the exact product is a rational; the double *)
(* product may round just below an exact integer, which the conversion     *)
(* then truncates one lower: both outcomes are allowed.                    *)
(***************************************************************************)
EXTENDS Integers

CONSTANTS
  Delays,     \* nominal delays in the caller's unit
  Percents,   \* smear percentages callers pass
  RandSteps   \* resolution of the modelled RandDouble()

ASSUME RandSteps \in Nat \ {0}

\* kDefaultSmearPercent
kDefaultSmearPercent == 20

VARIABLES
  smear_percent,  \* smear_fraction_ * 100 of the Smearer
  delay,          \* the last delay smeared
  percent,        \* the smear percentage applied to it
  smeared         \* the value returned

vars == <<smear_percent, delay, percent, smeared>>

\* double -> int64 conversion of the non-negative rational num / den.
Truncations(num, den) ==
  IF num % den = 0 /\ num > 0 THEN {num \div den, num \div den - 1}
                              ELSE {num \div den}

\* Mutant: the percentage is scaled by 10 instead of 100.
Smeared_WrongScale(d, pct, k) ==
  Truncations(d * (10 * RandSteps + pct * (2 * k - RandSteps)), 10 * RandSteps)

\* d * (1 + pct/100 * (2 * k/RandSteps - 1)), truncated.
Smeared(d, pct, k) ==
  Truncations(d * (100 * RandSteps + pct * (2 * k - RandSteps)), 100 * RandSteps)

Init ==
  /\ smear_percent = kDefaultSmearPercent
  /\ delay = 0 /\ percent = kDefaultSmearPercent /\ smeared = 0

\* Smearer(random, smear_percent): CHECK 0 < smear_percent <= 100.
ConstructSmearer(p) ==
  /\ 0 < p /\ p <= 100
  /\ smear_percent' = p
  /\ UNCHANGED <<delay, percent, smeared>>

GetSmearedDelay(d, k) ==
  /\ delay' = d /\ percent' = smear_percent
  /\ smeared' \in Smeared(d, smear_percent, k)
  /\ UNCHANGED smear_percent

\* Mutant: the upper CHECK on the smear factor is missing.
SmearDelay_NoCheck(d, pct, k) ==
  /\ 0 <= pct
  /\ delay' = d /\ percent' = pct
  /\ smeared' \in Smeared(d, pct, k)
  /\ UNCHANGED smear_percent

\* SmearDelay(base_delay, smear_factor, random): CHECK 0 <= factor <= 1.
SmearDelay(d, pct, k) ==
  /\ 0 <= pct /\ pct <= 100
  /\ delay' = d /\ percent' = pct
  /\ smeared' \in Smeared(d, pct, k)
  /\ UNCHANGED smear_percent

Next ==
  \/ \E p \in Percents : ConstructSmearer(p)
  \/ \E d \in Delays, k \in 0..(RandSteps - 1) : GetSmearedDelay(d, k)
  \/ \E d \in Delays, p \in Percents, k \in 0..(RandSteps - 1) : SmearDelay(d, p, k)

Spec == Init /\ [][Next]_vars

TypeOK ==
  /\ smear_percent \in 1..100 /\ percent \in 0..100
  /\ delay \in Delays \cup {0} /\ smeared \in Int

(* The smeared delay never exceeds d * (1 + f) and falls short of          *)
(* d * (1 - f) by less than one unit: the truncating conversion and the    *)
(* rounding of the double product cost at most one unit.                   *)
SmearedNearRange ==
  /\ 100 * smeared <= delay * (100 + percent)
  /\ 100 * (smeared + 1) >= delay * (100 - percent)

(* Spec 4.1: the result is a sample from [d * (1 - f), d * (1 + f)].      *)
SmearedInRange ==
  /\ 100 * smeared <= delay * (100 + percent)
  /\ 100 * smeared >= delay * (100 - percent)

==============================================================================
