------------------------------- MODULE ResultsRun -------------------------------
(***************************************************************************)
(* The results of runs: what workers, on one node or several, count; how it  *)
(* becomes the statistics of the run; the gates that set the exit code, with *)
(* the baseline files they write and read; the commands that look at the     *)
(* results file afterwards.                                                  *)
(***************************************************************************)
EXTENDS Gates

CONSTANTS
  Worker,       \* the workers or users
  Plans,        \* what is looked at: one run after the other, see PlanKind
  LatencyOf     \* the latency a worker sees

\* nodes: the workers of each node, one node being a run without a master; events:
\* what can happen to a request; most: bound on them; duration: in seconds;
\* baseline: the files --baseline names, sorted, pattern: by a glob; save:
\* --save-baseline; shape: what the config snapshot holds.
NodesKind(nodes) ==
  /\ nodes \in Seq(Seq(Worker))
  /\ \A m, n \in DOMAIN nodes : \A i \in DOMAIN nodes[m], j \in DOMAIN nodes[n] :
       nodes[m][i] = nodes[n][j] => m = n /\ i = j
EventKind(e) ==
  /\ e.kind \in {"answer", "unrendered", "unsent", "unextracted"} /\ e.step \in STRING /\ e.charged \in BOOLEAN
  /\ e.keys \in Seq(STRING \ {OtherErrors})
  /\ e.kind = "answer" /\ ~e.charged => e.keys = <<>>
ThresholdKind(t) ==
  /\ t.metric \in Metric /\ t.step \in STRING /\ t.op \in {"<", "<=", ">", ">="}
  /\ t.bound \in Int \X (Nat \ {0})
PlanKind(p) ==
  /\ NodesKind(p.nodes)
  /\ \A e \in p.events : EventKind(e)
  /\ \A t \in p.thresholds : ThresholdKind(t)
  /\ p.most \in Nat /\ p.duration \in Nat \ {0} /\ p.pattern \in BOOLEAN /\ p.strict \in BOOLEAN
  /\ p.rules # {} => p.baseline # <<>>

ASSUME ResultsAssumption ==
  /\ \A s \in Plans : s \in Seq(Range(s)) /\ s # <<>> /\ \A i \in DOMAIN s : PlanKind(s[i])
  /\ LatencyOf \in [Worker -> Nat]

VARIABLES
  plan,       \* the runs, one of Plans
  nth,        \* the one that runs
  phase,      \* "load", "judging", "judged", "reviewed"
  stats,      \* WorkerStats of each worker
  parts,      \* the merged statistics of each node, <<>> until it ends
  total,      \* those of the run
  done,       \* what happened in this run
  files,      \* the files there are: the number of their run, its shape, its results
  code,       \* the exit code the gates give the run
  later       \* those of `pywrkr summary` and `pywrkr compare` on its results

vars == <<plan, nth, phase, stats, parts, total, done, files, code, later>>

run == plan[nth]

Fresh(p) ==
  /\ phase' = "load"
  /\ stats' = [w \in Worker |-> NoStats]
  /\ parts' = [n \in DOMAIN p.nodes |-> <<>>]
  /\ total' = NoStats /\ done' = {} /\ code' = 0

Init ==
  /\ plan \in Plans /\ nth = 1 /\ phase = "load"
  /\ stats = [w \in Worker |-> NoStats]
  /\ parts = [n \in DOMAIN plan[1].nodes |-> <<>>]
  /\ total = NoStats /\ done = {} /\ code = 0
  /\ files = <<>> /\ later = <<>>

-------------------------------------------------------------------------------
(* The load.                                                                  *)

Works(w, n) == \E i \in DOMAIN run.nodes[n] : run.nodes[n][i] = w

Record(w) ==
  /\ phase = "load" /\ Cardinality(done) < run.most
  /\ \E n \in DOMAIN parts : Works(w, n) /\ parts[n] = <<>>
  /\ \E e \in run.events :
       LET charge == IF e.charged THEN 1 ELSE 0
           x == [by |-> w, no |-> Cardinality(done) + 1, step |-> e.step, value |-> LatencyOf[w]]
       IN  /\ stats' \in {[stats EXCEPT ![w] = s] :
                            s \in CASE e.kind = "answer"      -> Answered(stats[w], x, e.charged, e.keys)
                                    [] e.kind = "unrendered"  -> {Unrendered(stats[w], e.keys, charge)}
                                    [] e.kind = "unsent"      -> {Unsent(stats[w], e.step, e.keys, charge)}
                                    [] e.kind = "unextracted" -> {Unextracted(stats[w], e.keys, charge)}}
           /\ e.kind # "answer" /\ ~e.charged => stats[w].errors > 0
           /\ done' = done \cup {[event |-> e, sample |-> x]}
  /\ UNCHANGED <<plan, nth, phase, parts, total, files, code, later>>

\* The workers of a node have ended: it merges what they counted.
EndNode(n) ==
  /\ phase = "load" /\ parts[n] = <<>>
  /\ \E s \in Merged([i \in DOMAIN run.nodes[n] |-> stats[run.nodes[n][i]]]) : parts' = [parts EXCEPT ![n] = <<s>>]
  /\ UNCHANGED <<plan, nth, phase, stats, total, done, files, code, later>>

\* A master merges what it receives from its nodes, in the order of the nodes.
Gather ==
  /\ phase = "load" /\ \A n \in DOMAIN parts : parts[n] # <<>>
  /\ total' \in IF Len(run.nodes) = 1 THEN {parts[1][1]} ELSE Merged([n \in DOMAIN parts |-> Received(parts[n][1])])
  /\ phase' = "judging"
  /\ UNCHANGED <<plan, nth, stats, parts, done, files, code, later>>

-------------------------------------------------------------------------------
(* The gates.                                                                 *)

Results == [of |-> nth, shape |-> run.shape, numbers |-> Document(total, run.duration)]

Breached == \E t \in run.thresholds : ~Passes(Measured(t, total, run.duration), t)
BreachedLater == \E t \in run.thresholds : ~Passes(MeasuredLater(t, Results.numbers), t)

\* load_baseline: the files of the pattern that are there, or the file.
Found(names, there) == SelectSeq(names, LAMBDA f : f \in DOMAIN there)
Sources(there) == IF run.pattern THEN Found(run.baseline, there) ELSE run.baseline
Readable(there) == Sources(there) # <<>> /\ \A i \in DOMAIN Sources(there) : Sources(there)[i] \in DOMAIN there

\* compare_results with the baseline that is there.
Regressed(there) ==
  LET base == Averaged([i \in DOMAIN Sources(there) |-> there[Sources(there)[i]].numbers])
  IN  \E rule \in run.rules : Fires(rule, base, Results.numbers)
Incomparable(there) == there[Sources(there)[1]].shape # run.shape

\* The exit code of a comparison, under --strict-config or not.
CompareExit(there, strict) ==
  IF ~Readable(there) \/ (strict /\ Incomparable(there)) THEN 1 ELSE IF Regressed(there) THEN 3 ELSE 0

\* run_baseline_gate writes --save-baseline before it reads --baseline; a file that
\* cannot be written ends it.
BaselineGate(saved, there) ==
  IF run.save # "" /\ ~saved THEN 1 ELSE IF run.baseline = <<>> THEN 0 ELSE CompareExit(there, run.strict)

\* The end of _finalize_run, and of run_master.
Judge ==
  /\ phase = "judging"
  /\ \E saved \in BOOLEAN :
       /\ saved => run.save # ""
       /\ files' = IF saved THEN [f \in DOMAIN files \cup {run.save} |-> IF f = run.save THEN Results ELSE files[f]]
                   ELSE files
       /\ code' = IF Breached THEN 2 ELSE BaselineGate(saved, files')
  /\ phase' = "judged"
  /\ UNCHANGED <<plan, nth, stats, parts, total, done, later>>

\* The next run of the pipeline.
NextRun ==
  /\ phase = "judged" /\ nth < Len(plan)
  /\ nth' = nth + 1
  /\ Fresh(plan[nth + 1])
  /\ UNCHANGED <<plan, files, later>>

\* `pywrkr summary` and `pywrkr compare`, given the run's results file and options.
Review ==
  /\ phase = "judged"
  /\ later' = [summary |-> IF run.baseline # <<>> /\ ~Readable(files) THEN 1
                           ELSE IF BreachedLater THEN 2
                           ELSE IF run.baseline # <<>> /\ Regressed(files) THEN 3 ELSE 0,
               compare |-> IF run.baseline = <<>> THEN 1 ELSE CompareExit(files, run.strict)]
  /\ phase' = "reviewed"
  /\ UNCHANGED <<plan, nth, stats, parts, total, done, files, code>>

Next ==
  \/ \E w \in Worker : Record(w)
  \/ \E n \in DOMAIN parts : EndNode(n)
  \/ Gather \/ Judge \/ NextRun \/ Review

Spec == Init /\ [][Next]_vars

-------------------------------------------------------------------------------
(* Properties.                                                                *)

Of(kind) == {d \in done : d.event.kind = kind}
Errors(S) == Cardinality({d \in S : d.event.charged})

\* The keys a worker gives to what happened: one of them is <<d, i>>, the i-th of d.
Givings(S) == UNION {{d} \X DOMAIN d.event.keys : d \in S}
Key(g) == g[1].event.keys[g[2]]
Times(k, S) == Cardinality({g \in Givings(S) : Key(g) = k})

Blames(S) ==
  {d \in S : d.event.step # NoStep /\ (d.event.kind = "unsent" \/ (d.event.kind = "answer" /\ d.event.charged))}
SumValues(d) == SumOf(d, LAMBDA e : e.value)

\* Nothing a worker counted is lost or counted twice on the way to the run's totals,
\* whatever is merged first and whichever dictionaries are full: a name has its own
\* count or is part of the rest, and nothing is in the rest while there is room.
NothingIsLost ==
  phase # "load" =>
    /\ total.requests = Cardinality(Of("answer")) /\ total.seen = total.requests
    /\ total.errors = Errors(done)
    /\ total.templateErrors = Cardinality(Of("unrendered"))
    /\ total.extractFailures = Cardinality(Givings(Of("unextracted")))
    /\ SumValues(total.types) = Cardinality(Givings(done))
    /\ \A k \in Keys(total.types) \ {OtherErrors} : ValueAt(total.types, k, 0) <= Times(k, done)
    /\ Len(total.types) <= MaxTypes =>
         \A g \in Givings(done) : ValueAt(total.types, Key(g), 0) = Times(Key(g), done)
    /\ UNION {total.steps[i].value : i \in DOMAIN total.steps} = {d.sample : d \in {e \in Of("answer") : e.event.step # NoStep}}
    /\ \A s \in Keys(total.steps) \ {OtherSteps} : \A x \in ValueAt(total.steps, s, {}) : x.step = s
    /\ SumValues(total.stepErrors) = Cardinality(Blames(done))

\* In halves of a sample, what rounding the shares of so many sources may take away.
Slack(sources) == IF sources > 2 \/ (sources = 2 /\ Capacity % 2 = 1) THEN sources ELSE 0

\* The percentiles of a run speak for all of its workers: a run that fits the
\* reservoir keeps every sample, a larger one at most so many; and of each node its
\* share in the run, however many it kept itself, to the nearest sample, except that
\* rounding may take away half a sample for each of three nodes or more, and for
\* each of three workers or more of the node.
SampleIsFair ==
  phase # "load" =>
    /\ total.sample \subseteq {d.sample : d \in Of("answer")}
    /\ Cardinality(total.sample) <= Capacity
    /\ total.seen <= Capacity => Cardinality(total.sample) = total.seen
    /\ \A n \in DOMAIN run.nodes :
         LET of == {x \in total.sample : Works(x.by, n)}
             asked == {d \in Of("answer") : Works(d.sample.by, n)}
             got == Cardinality(of) * total.seen
             due == Capacity * Cardinality(asked)
             taken == 1 + Slack(Len(run.nodes[n])) + Slack(Len(run.nodes))
         IN  total.seen > Capacity => 2 * (got - due) \in (-taken * total.seen)..total.seen

\* What the results file has of a threshold, but for rounding.  Of the run: what was
\* measured.  Of a step: nothing if it has no sample or the metric is p75 or p90, which
\* its block leaves out; as its rate that of its samples, where the run adds its errors.
InFile(t) ==
  LET measured == Measured(t, total, run.duration)
      samples == ValueAt(total.steps, t.step, {})
  IN  CASE t.step = NoStep -> measured
        [] t.step # NoStep /\ (samples = {} \/ t.metric \in {"p75", "p90"}) -> Absent
        [] t.step # NoStep /\ samples # {} /\ t.metric = "rps" -> <<Cardinality(samples), run.duration>>
        [] OTHER -> measured

\* A bound that lies within what rounding takes away from a metric of the file.
Rounded(t) ==
  LET x == InFile(t)
      gap == IF x = Absent THEN Absent ELSE Minus(x, t.bound)
      half == IF t.metric = "rps" THEN <<1, 200>> ELSE Whole(5)
  IN  t.metric # "error_rate" /\ x # Absent /\ ~Below(half, gap) /\ ~Below(gap, Minus(Whole(0), half))

\* compare.py:148-152 requires the gate of the run and the one on its file to agree on
\* every threshold, ci.py:8-10 says they never disagree.  They do, but for rounding, on
\* exactly the thresholds whose verdict what the file leaves out would change; and the
\* exit codes of run, summary and compare then follow: they are one, unless such a
\* threshold, a baseline that cannot be read (1 for summary, while a breach keeps its 2
\* in the run) or --strict-config, which summary does not know, comes between them.
GatesAgree ==
  LET settled == \A t \in run.thresholds : ~Rounded(t)
      alike == \A t \in run.thresholds : Passes(InFile(t), t) <=> Passes(Measured(t, total, run.duration), t)
      usable == run.baseline = <<>> \/ Readable(files)
      refused == run.baseline # <<>> /\ Readable(files) /\ run.strict /\ Incomparable(files)
  IN  /\ phase = "judged" =>
           \A t \in run.thresholds :
             ~Rounded(t) => (Passes(InFile(t), t) <=> Passes(MeasuredLater(t, Results.numbers), t))
      /\ phase = "reviewed" /\ (run.save # "" => run.save \in DOMAIN files /\ files[run.save].of = nth) =>
           /\ usable /\ ~refused /\ settled /\ alike => later.summary = code
           /\ usable /\ settled => (later.summary = 2 <=> \E t \in run.thresholds : ~Passes(InFile(t), t))
           /\ ~usable => later.summary = 1
           /\ ~usable \/ refused => code = IF Breached THEN 2 ELSE 1
           /\ run.baseline # <<>> /\ ~Breached => later.compare = code

\* The error rate of a step is the part of its requests that failed.
StepRateIsReal ==
  phase = "judged" =>
    \A t \in run.thresholds :
      t.step # NoStep /\ t.metric = "error_rate" =>
        LET tried == {d \in done : d.event.kind \in {"answer", "unsent"} /\ d.event.step = t.step}
            failed == {d \in tried : d.event.kind = "unsent" \/ d.event.charged}
            shown == Measured(t, total, run.duration)
        IN  tried # {} => shown[1] * Cardinality(tried) = 100 * Cardinality(failed) * shown[2]
===============================================================================
