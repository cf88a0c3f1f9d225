------------------------------- MODULE Autofind -------------------------------
(***************************************************************************)
(* The capacity search of --autofind, run_autofind of workers.py: user       *)
(* simulations one after the other, with a number of users that is           *)
(* multiplied until a step fails, then halved in between.                    *)
(*                                                                           *)
(* A target is `steady` when a step of n users is healthy exactly when n is  *)
(* at most its limit; any other target answers as it likes.                  *)
(***************************************************************************)
EXTENDS Integers

CONSTANTS
  Searches    \* the searches to look at: records, see SearchKind

SearchKind(s) ==
  /\ s.start \in Int /\ s.most \in Nat         \* --start-users, --max-users
  /\ s.multiplier \in Nat \X (Nat \ {0})       \* --step-multiplier, as a fraction
  /\ s.limit \in Nat /\ s.steady \in BOOLEAN   \* the target's

ASSUME AutofindAssumption == \A s \in Searches : SearchKind(s)

VARIABLES
  search,    \* the search that runs
  stage,     \* "idle", "ramp", "refine", "found", "raised"
  users,     \* current_users of the ramp
  good,      \* last_good, 0 for None
  bad        \* first_bad, then hi, 0 for None

searchVars == <<search, stage, users, good, bad>>

-------------------------------------------------------------------------------
(* The verdict on one step.                                                   *)

\* What a step measured: whether there is a single latency sample, whether the
\* error rate and the p95 are above their limits.
StepResult == [measured : BOOLEAN, failing : BOOLEAN, slow : BOOLEAN]

Healthy(r) == r.measured /\ ~r.failing /\ ~r.slow

\* Without a sample the p95 is 0.0 by substitution, and without a request so is
\* the error rate.
Measured(n) ==
  {r \in StepResult : /\ ~r.measured => ~r.slow
                      /\ search.steady => (Healthy(r) <=> n <= search.limit)}

\* Fault variant: a step that measured nothing passes on its substituted p95.
PassedUnmeasured(r) == ~r.failing /\ ~r.slow

StepPassed(r) == r.measured /\ ~r.failing /\ ~r.slow

-------------------------------------------------------------------------------
Scaled(n) == (n * search.multiplier[1]) \div search.multiplier[2]

\* int(n * multiplier), and at least one more.
NextUsers(n) == IF Scaled(n) = n THEN n + 1 ELSE Scaled(n)

Tolerance(n) == IF n \div 10 < 1 THEN 1 ELSE n \div 10

Unresolved(lo, hi) == lo > 0 /\ hi - lo > Tolerance(lo)

BeginSearch(s) ==
  /\ search' = s
  /\ stage' = IF s.multiplier[1] <= s.multiplier[2] \/ s.start < 1 THEN "raised"
              ELSE IF s.start > s.most THEN "found" ELSE "ramp"
  /\ users' = s.start
  /\ good' = 0 /\ bad' = 0

\* Phase 1: the first step that fails ends the ramp, as does a number of users
\* above --max-users.
RampStep ==
  /\ stage = "ramp"
  /\ \E r \in Measured(users) :
       \/ /\ StepPassed(r)
          /\ good' = users
          /\ users' = NextUsers(users)
          /\ stage' = IF NextUsers(users) <= search.most THEN "ramp" ELSE "found"
          /\ UNCHANGED bad
       \/ /\ ~StepPassed(r)
          /\ bad' = users
          /\ stage' = IF Unresolved(good, users) THEN "refine" ELSE "found"
          /\ UNCHANGED <<users, good>>
  /\ UNCHANGED search

\* Phase 2: the middle of what is good and what is bad, until they are close.
RefineStep ==
  /\ stage = "refine"
  /\ LET mid == (good + bad) \div 2
     IN  \E r \in Measured(mid) :
           /\ good' = IF StepPassed(r) THEN mid ELSE good
           /\ bad' = IF StepPassed(r) THEN bad ELSE mid
  /\ stage' = IF Unresolved(good', bad') THEN "refine" ELSE "found"
  /\ UNCHANGED <<search, users>>

-------------------------------------------------------------------------------
(* Properties.                                                                *)

\* What autofind reports as the maximum sustainable load is a load the target
\* sustains; it is the highest up to a tenth of it when a step failed, and
\* otherwise less than one multiplication below --max-users.  The two ends of the
\* refinement never meet, even with a target that changes its mind.
CapacityIsFound ==
  /\ bad > 0 => good < bad
  /\ stage = "found" /\ search.steady /\ search.start <= search.most =>
       /\ good <= search.limit
       /\ bad > 0 => bad > search.limit
       /\ bad > 0 /\ good > 0 => bad - good <= Tolerance(good)
       /\ bad > 0 /\ good = 0 => bad = search.start
       /\ bad = 0 => good <= search.most /\ search.most < NextUsers(good)
===============================================================================
