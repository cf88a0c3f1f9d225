--------------------------------- MODULE Gates ---------------------------------
(***************************************************************************)
(* What is read from a run's statistics, directly or from its results file,  *)
(* and the gates on it: --threshold during the run (reporting.py), the same   *)
(* threshold on the file (ci.py), --fail-on against a baseline (compare.py).  *)
(*                                                                           *)
(* A number is a fraction <<n, d>>, d > 0; a results file is a function from the      *)
(* paths of its numbers to them.                                              *)
(***************************************************************************)
EXTENDS Statistics

Absent == <<>>
Whole(n) == <<n, 1>>
Minus(x, y) == IF x[2] = y[2] THEN <<x[1] - y[1], x[2]>> ELSE <<x[1] * y[2] - y[1] * x[2], x[2] * y[2]>>
Below(x, y) == x[1] * y[2] < y[1] * x[2]
Ratio(n, d) == IF d = 0 THEN Absent ELSE <<n, d>>

\* round() of a file: two digits for a rate, six for a latency, which is a whole
\* number of microseconds.
RoundedRate(x) == <<HalfEven(100 * x[1], x[2]), 100>>
RoundedTime(x) == Whole(10 * HalfEven(x[1], 10 * x[2]))

-------------------------------------------------------------------------------
(* The metrics of a set of samples.                                           *)

Percentage == [p50 |-> 50, p75 |-> 75, p90 |-> 90, p95 |-> 95, p99 |-> 99]

\* compute_percentiles: the value at the nearest rank, ceil(p / 100 * n).
NearestRank(p, n) == (p * n + 99) \div 100

Percentile(m, S) ==
  LET rank == NearestRank(Percentage[m], Cardinality(S))
  IN  CHOOSE v \in {x.value : x \in S} :
        /\ Cardinality({x \in S : x.value < v}) < rank
        /\ rank <= Cardinality({x \in S : x.value <= v})

Mean(S) == <<SumFunctionOnSet([x \in S |-> x.value], S), Cardinality(S)>>

Latency(m, S) ==
  IF m \in DOMAIN Percentage THEN Whole(Percentile(m, S))
  ELSE IF m = "avg_latency" THEN Mean(S)
  ELSE IF m = "max_latency" THEN Whole(Max({x.value : x \in S}))
  ELSE Whole(Min({x.value : x \in S}))

LatencyMetric == DOMAIN Percentage \cup {"avg_latency", "max_latency", "min_latency"}
Metric == LatencyMetric \cup {"error_rate", "rps"}

-------------------------------------------------------------------------------
(* The gate during the run.                                                   *)

\* _get_metric_value: nothing where there is nothing to divide by, or to sort.
RunValue(m, s, duration) ==
  CASE m = "error_rate" -> Ratio(100 * s.errors, s.requests)
    [] m = "rps"        -> Ratio(s.requests, duration)
    [] OTHER            -> IF s.sample = {} THEN Absent ELSE Latency(m, s.sample)

\* _get_step_metric_value.
StepValue(m, step, s, duration) ==
  LET samples == ValueAt(s.steps, step, {})
      errors == ValueAt(s.stepErrors, step, 0)
      attempts == Cardinality(samples) + errors
  IN  CASE m = "error_rate" -> Ratio(100 * errors, attempts)
        [] m = "rps"        -> IF attempts = 0 THEN Absent ELSE Ratio(attempts, duration)
        [] OTHER            -> IF samples = {} THEN Absent ELSE Latency(m, samples)

Measured(t, s, duration) ==
  IF t.step = NoStep THEN RunValue(t.metric, s, duration) ELSE StepValue(t.metric, t.step, s, duration)

Compares(x, op, y) ==
  CASE op = "<"  -> Below(x, y)
    [] op = "<=" -> ~Below(y, x)
    [] op = ">"  -> Below(y, x)
    [] op = ">=" -> ~Below(x, y)

\* What was not measured fails.
Passes(x, t) == x # Absent /\ Compares(x, t.op, t.bound)

-------------------------------------------------------------------------------
(* The results file.                                                          *)

LatencyName == [avg_latency |-> "mean", max_latency |-> "max", min_latency |-> "min"]

\* Where a metric of the run is, and where one of a step: _METRICS and
\* _STEP_METRIC_FIELDS.
RunPath(m) ==
  IF m = "rps" THEN <<"requests_per_sec">>
  ELSE IF m \in DOMAIN Percentage THEN <<"percentiles", m>> ELSE <<"latency", LatencyName[m]>>

StepField(m) ==
  IF m = "rps" THEN "requests_per_sec"
  ELSE IF m \in DOMAIN LatencyName THEN LatencyName[m] ELSE m
StepFields == {"p50", "p95", "p99", "avg_latency", "max_latency", "min_latency", "rps"}

\* build_step_stats, of a step.
StepBlock(step, samples, errors, duration) ==
  [p \in {<<"step_stats", step, f>> : f \in {"count", "errors"} \cup {StepField(m) : m \in StepFields}} |->
     CASE p[3] = "count"  -> Whole(Cardinality(samples))
       [] p[3] = "errors" -> Whole(errors)
       [] p[3] = "requests_per_sec" -> RoundedRate(<<Cardinality(samples), duration>>)
       [] OTHER -> RoundedTime(Latency(CHOOSE m \in StepFields : StepField(m) = p[3], samples))]

\* build_results_dict: the figures of the run.
RunFigures(s, duration) ==
  LET latencies == IF s.sample = {} THEN {} ELSE LatencyMetric
  IN  [p \in {<<"total_requests">>, <<"total_errors">>, RunPath("rps")} \cup {RunPath(m) : m \in latencies} |->
         CASE p = <<"total_requests">> -> Whole(s.requests)
           [] p = <<"total_errors">>   -> Whole(s.errors)
           [] p = RunPath("rps")       -> RoundedRate(<<s.requests, duration>>)
           [] OTHER -> RoundedTime(Latency(CHOOSE m \in LatencyMetric : RunPath(m) = p, s.sample))]

\* A step without a sample has no block, whatever its errors.
Sampled(s) == {k \in Keys(s.steps) : ValueAt(s.steps, k, {}) # {}}

Document(s, duration) ==
  LET figures == RunFigures(s, duration)
      blocks == [k \in Sampled(s) |-> StepBlock(k, ValueAt(s.steps, k, {}), ValueAt(s.stepErrors, k, 0), duration)]
  IN  [p \in DOMAIN figures \cup UNION {DOMAIN blocks[k] : k \in Sampled(s)} |->
         IF p \in DOMAIN figures THEN figures[p] ELSE blocks[p[2]][p]]

Dig(doc, path) == IF path \in DOMAIN doc THEN doc[path] ELSE Absent

\* metric_value: a rate over no requests is undefined.
FileValue(m, doc) ==
  IF m # "error_rate" THEN Dig(doc, RunPath(m))
  ELSE IF doc[<<"total_requests">>][1] = 0 THEN Absent
  ELSE <<100 * doc[<<"total_errors">>][1], doc[<<"total_requests">>][1]>>

\* Fault variant: a threshold on a step reads the figure of the run.
FileStepValueOverall(m, step, doc) == FileValue(m, doc)

\* step_metric_value.
FileStepValue(m, step, doc) ==
  LET errors == Dig(doc, <<"step_stats", step, "errors">>)
      count == Dig(doc, <<"step_stats", step, "count">>)
  IN  IF errors = Absent THEN Absent
      ELSE IF m = "error_rate" THEN Ratio(100 * errors[1], count[1] + errors[1])
      ELSE IF m \in StepFields THEN Dig(doc, <<"step_stats", step, StepField(m)>>) ELSE Absent

\* evaluate_from_results.
MeasuredLater(t, doc) ==
  IF t.step = NoStep THEN FileValue(t.metric, doc) ELSE FileStepValue(t.metric, t.step, doc)

-------------------------------------------------------------------------------
(* The baseline.                                                              *)

\* average_results: a number at the top is averaged over the files that have it, one
\* further down only if the first file with its group has it.  The files have a path's
\* number over one denominator.
Kept(path, docs) ==
  LET having == SelectSeq(docs, LAMBDA d : \E p \in DOMAIN d : p[1] = path[1])
  IN  IF Len(path) = 1 THEN having # <<>> ELSE path \in DOMAIN having[1]

Average(path, docs) ==
  LET having == SelectSeq(docs, LAMBDA d : path \in DOMAIN d)
  IN  <<SumOf(having, LAMBDA d : d[path][1]), having[1][path][2] * Len(having)>>

Averaged(docs) ==
  IF Len(docs) = 1 THEN docs[1]
  ELSE [path \in {p \in UNION {DOMAIN docs[i] : i \in DOMAIN docs} : Kept(p, docs)} |-> Average(path, docs)]

\* metric_value of a --fail-on rule: a metric, or a field of a step.
RuleValue(rule, doc) ==
  IF rule.step = NoStep THEN FileValue(rule.metric, doc)
  ELSE Dig(doc, <<"step_stats", rule.step, StepField(rule.metric)>>)

\* _evaluate: a rule is on the difference, in percent of the baseline or not; one
\* without a value on either side, or in percent of zero, is skipped.
Fires(rule, base, doc) ==
  LET before == RuleValue(rule, base)
      after == RuleValue(rule, doc)
      observed == IF rule.relative THEN <<100 * (after[1] * before[2] - before[1] * after[2]), after[2] * before[1]>>
                  ELSE Minus(after, before)
  IN  /\ before # Absent /\ after # Absent
      /\ rule.relative => before[1] # 0
      /\ Compares(observed, rule.op, rule.amount)
===============================================================================
