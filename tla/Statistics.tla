------------------------------ MODULE Statistics ------------------------------
(***************************************************************************)
(* What a run counts: WorkerStats of config.py, how the workers fill it in,  *)
(* how the statistics of workers, and then of nodes, become those of a run.  *)
(*                                                                           *)
(* A latency sample is a record [by, no, step, value]: the worker, a number,  *)
(* the scenario step and the latency in tenths of a microsecond.  A           *)
(* dictionary is the sequence of its entries in the order of insertion.       *)
(***************************************************************************)
EXTENDS Integers, Sequences, SequencesExt

CONSTANTS
  Capacity,    \* DEFAULT_RESERVOIR_SIZE
  MaxTypes,    \* DEFAULT_MAX_ERROR_TYPES
  MaxSteps     \* _MAX_STEP_NAMES

ASSUME StatisticsAssumption == Capacity \in Nat \ {0} /\ MaxTypes \in Nat /\ MaxSteps \in Nat

OtherErrors == "[other errors]"
OtherSteps == "[other steps]"
NoStep == ""

-------------------------------------------------------------------------------
(* Dictionaries.                                                              *)

Keys(d) == {d[i].key : i \in DOMAIN d}

Entry(d, k) == CHOOSE i \in DOMAIN d : d[i].key = k

ValueAt(d, k, none) == IF k \in Keys(d) THEN d[Entry(d, k)].value ELSE none

Stored(d, k, v) ==
  IF k \in Keys(d) THEN [d EXCEPT ![Entry(d, k)].value = v]
  ELSE Append(d, [key |-> k, value |-> v])

\* Where a key goes: a new one has no place of its own in a full dictionary.
Slot(d, k, most, rest) == IF k \in Keys(d) \/ Len(d) < most THEN k ELSE rest

\* Fault variant: the bucket for the rest is overwritten.
CountedAfresh(d, k, n) ==
  LET slot == Slot(d, k, MaxTypes, OtherErrors) IN Stored(d, slot, ValueAt(d, k, 0) + n)

\* d[k] += n, and d[k] = n, of a CappedErrorDict.
Counted(d, k, n) ==
  LET slot == Slot(d, k, MaxTypes, OtherErrors) IN Stored(d, slot, ValueAt(d, slot, 0) + n)
Placed(d, k, n) == Stored(d, Slot(d, k, MaxTypes, OtherErrors), n)

\* _record_step_latency and _record_step_error, and their like in merge_stats.
Timed(d, step, samples) ==
  LET slot == Slot(d, step, MaxSteps, OtherSteps) IN Stored(d, slot, ValueAt(d, slot, {}) \cup samples)
Blamed(d, step, n) ==
  LET slot == Slot(d, step, MaxSteps, OtherSteps) IN Stored(d, slot, ValueAt(d, slot, 0) + n)

-------------------------------------------------------------------------------
(* A worker.                                                                  *)

NoStats ==
  [requests |-> 0, errors |-> 0, extractFailures |-> 0, templateErrors |-> 0, types |-> <<>>,
   sample |-> {}, seen |-> 0, steps |-> <<>>, stepErrors |-> <<>>]

\* ReservoirSampler.append: a full reservoir gives one of its items up, or not.
Offered(sample, x) ==
  IF Cardinality(sample) < Capacity THEN {sample \cup {x}}
  ELSE {sample} \cup {(sample \ {y}) \cup {x} : y \in sample}

\* A failure with its diagnostics, charged or not, of a step or of none.
Faulted(s, step, keys, charge) ==
  [s EXCEPT !.errors = @ + charge, !.types = FoldLeft(LAMBDA d, k : Counted(d, k, 1), @, keys),
            !.stepErrors = IF step = NoStep THEN @ ELSE Blamed(@, step, 1)]

\* _execute_request: a response, or a transport error; either leaves a sample.  A
\* failed assertion, a status of 400 or more and a transport error are errors.
Answered(s, x, failed, keys) ==
  LET t == [s EXCEPT !.requests = @ + 1, !.seen = @ + 1,
                     !.steps = IF x.step = NoStep THEN @ ELSE Timed(@, x.step, {x})]
  IN  {[IF failed THEN Faulted(t, x.step, keys, 1) ELSE t EXCEPT !.sample = r] : r \in Offered(s.sample, x)}

\* A step that cannot be rendered is no failure of the step; one with a header that
\* cannot be sent, or a socket that fails, is.  Neither counts as a request.
Unrendered(s, keys, charge) == [Faulted(s, NoStep, keys, charge) EXCEPT !.templateErrors = @ + 1]
Unsent(s, step, keys, charge) == Faulted(s, step, keys, charge)

\* Rules that extract nothing from a response.
Unextracted(s, keys, charge) ==
  [Faulted(s, NoStep, keys, charge) EXCEPT !.extractFailures = @ + Len(keys)]

-------------------------------------------------------------------------------
(* From workers to a run.                                                     *)

\* round(n / d), ties to the even neighbour.
HalfEven(n, d) ==
  LET q == n \div d
      r == n % d
  IN  IF 2 * r < d \/ (2 * r = d /\ q % 2 = 0) THEN q ELSE q + 1

Subsets(S, n) == {T \in SUBSET S : Cardinality(T) = n}

SumOf(parts, F(_)) == SumFunctionOnSet([i \in DOMAIN parts |-> F(parts[i])], DOMAIN parts)

\* Fault variant: the sources are put one behind the other and cut off.
DrawnWhole(p, total) == {p.sample}

\* merge_reservoirs: every source is given slots by what it has seen; a pool that
\* rounding has made too large is sampled again.
Drawn(p, total) ==
  LET k == HalfEven(Capacity * p.seen, total)
  IN  IF k >= Cardinality(p.sample) THEN {p.sample} ELSE Subsets(p.sample, k)

Pools(parts) ==
  LET total == SumOf(parts, LAMBDA p : p.seen)
      drawn == [i \in DOMAIN parts |-> Drawn(parts[i], total)]
      draws == {f \in [DOMAIN parts -> UNION Range(drawn)] : \A i \in DOMAIN parts : f[i] \in drawn[i]}
  IN  IF total = 0 THEN {{}} ELSE {UNION Range(f) : f \in draws}

MergedSamples(parts) ==
  UNION {IF Cardinality(pool) <= Capacity THEN {pool} ELSE Subsets(pool, Capacity) : pool \in Pools(parts)}

Plus(m, p) ==
  [requests |-> m.requests + p.requests, errors |-> m.errors + p.errors,
   extractFailures |-> m.extractFailures + p.extractFailures,
   templateErrors |-> m.templateErrors + p.templateErrors,
   types |-> FoldLeft(LAMBDA d, e : Counted(d, e.key, e.value), m.types, p.types),
   sample |-> {}, seen |-> m.seen + p.seen,
   steps |-> FoldLeft(LAMBDA d, e : Timed(d, e.key, e.value), m.steps, p.steps),
   stepErrors |-> FoldLeft(LAMBDA d, e : Blamed(d, e.key, e.value), m.stepErrors, p.stepErrors)]

\* merge_stats, with every outcome of its sampling.
Merged(parts) ==
  LET sum == FoldLeft(Plus, NoStats, parts)
  IN  {[sum EXCEPT !.sample = r] : r \in MergedSamples(parts)}

\* _serialize_stats and _deserialize_stats: the entries are put in one by one, an
\* error type through the dictionary's cap.
Received(p) ==
  [p EXCEPT !.types = FoldLeft(LAMBDA d, e : Placed(d, e.key, e.value), <<>>, @)]
===============================================================================
