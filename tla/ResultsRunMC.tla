----------------------------- MODULE ResultsRunMC -----------------------------
(* Small runs for TLC: few samples, a reservoir of four, room for two kinds of   *)
(* error and for one step.                                                     *)
EXTENDS ResultsRun

MCWorker == {"w1", "w2", "w3"}
MCLatencyOf == [w \in MCWorker |-> IF w = "w1" THEN 14 ELSE IF w = "w2" THEN 36 ELSE 95]

Event(kind, step, charged, keys) == [kind |-> kind, step |-> step, charged |-> charged, keys |-> keys]
Answer(step, keys) == Event("answer", step, keys # <<>>, keys)
Good == Answer(NoStep, <<>>)
Bad == Answer(NoStep, <<"HTTP 500">>)
Step(s) == {Answer(s, <<>>), Answer(s, <<"HTTP 500">>), Answer(s, <<"TimeoutError">>)}
Pay == {Answer("pay", <<>>), Answer("pay", <<"HTTP 500">>), Event("unsent", "pay", TRUE, <<"HeaderInjection">>)}
NoText(charged) == Event("unrendered", NoStep, charged, <<"TemplateError">>)
NoHeader(s, charged) == Event("unsent", s, charged, <<"HeaderInjection">>)
Dry(charged) == Event("unextracted", NoStep, charged, <<"ExtractFailure: id", "ExtractFailure: token">>)

T(metric, op, n, d) == [metric |-> metric, step |-> NoStep, op |-> op, bound |-> <<n, d>>]
OfPay(metric, op, n, d) == [T(metric, op, n, d) EXCEPT !.step = "pay"]
Rule(metric, op, n, relative) == [metric |-> metric, step |-> NoStep, op |-> op, amount |-> <<n, 1>>, relative |-> relative]

One == <<<<"w1", "w2">>>>
Cluster == <<<<"w1", "w2">>, <<"w3">>>>
Crowd == <<<<"w1", "w2", "w3">>>>
Apart == <<<<"w1">>, <<"w2">>, <<"w3">>>>

Base == [nodes |-> One, events |-> {Good, Bad}, most |-> 2, duration |-> 3, thresholds |-> {},
         baseline |-> <<>>, pattern |-> FALSE, save |-> "", rules |-> {}, strict |-> FALSE, shape |-> "10 users"]

Limits == {T("p50", "<", 30, 1), T("p75", "<=", 40, 1), T("p99", "<", 36, 1), T("avg_latency", "<", 20, 1),
           T("max_latency", ">=", 41, 1), T("error_rate", "<", 50, 1), T("rps", ">", 33, 100)}
StepLimits == {OfPay("p95", "<", 30, 1), OfPay("p75", "<", 90, 1), OfPay("avg_latency", "<", 20, 1),
               OfPay("error_rate", "<", 60, 1), OfPay("rps", ">", 33, 100), OfPay("rps", "<", 1, 2)}
Regressions == {Rule("p95", ">", 10, TRUE), Rule("rps", "<", -5, TRUE), Rule("error_rate", ">", 0, FALSE),
                [Rule("max_latency", ">", 20, FALSE) EXCEPT !.step = "pay"]}

Kept1 == [Base EXCEPT !.save = "a.json", !.most = 1]
Gated == [Base EXCEPT !.baseline = <<"a.json">>, !.rules = Regressions]

MCPlans ==
  \* what is counted where, and by whom
  {<<[Base EXCEPT !.events = Step("login") \cup {Answer("pay", <<>>), Answer("pay", <<"status", "body">>),
                                 NoHeader("pay", TRUE), NoHeader("pay", FALSE), NoText(TRUE), NoText(FALSE), Dry(TRUE), Dry(FALSE)},
                  !.most = 3]>>,
   <<[Base EXCEPT !.nodes = Cluster, !.events = {Answer("login", <<"HTTP 500">>), Answer("pay", <<"TimeoutError">>),
                                                NoHeader("pay", FALSE), Dry(TRUE)}, !.most = 4]>>,
   <<[Base EXCEPT !.nodes = Cluster, !.events = {Good}, !.most = 6]>>,
   <<[Base EXCEPT !.nodes = Crowd, !.events = {Good}, !.most = 6]>>,
   <<[Base EXCEPT !.nodes = Apart, !.events = {Good}, !.most = 6]>>}
  \* one gate, alone and together
  \cup {<<[Base EXCEPT !.thresholds = {t}]>> : t \in Limits}
  \cup {<<[Base EXCEPT !.thresholds = Limits, !.most = 3]>>}
  \* the same of a step
  \cup {<<[Base EXCEPT !.thresholds = {t}, !.events = Pay]>> : t \in StepLimits}
  \cup {<<[Base EXCEPT !.thresholds = StepLimits, !.nodes = Cluster, !.events = Pay \cup Step("login")]>>}
  \cup {<<[Kept1 EXCEPT !.events = {Answer("pay", <<>>)}],
          [Gated EXCEPT !.events = Pay, !.thresholds = {t}]>> : t \in {OfPay("p90", "<", 90, 1), OfPay("rps", ">", 33, 100)}}
  \cup {<<[Kept1 EXCEPT !.events = {Answer("pay", <<>>)}], [Gated EXCEPT !.events = {Answer("pay", <<>>), Bad}, !.strict = st, !.shape = sh,
                         !.thresholds = ts]>> : st \in BOOLEAN, sh \in {"10 users", "20 users"},
                                               ts \in {{}, {T("error_rate", "<", 50, 1)}}}
  \cup {<<Kept1, [Kept1 EXCEPT !.save = "b.json", !.most = 2], [Gated EXCEPT !.baseline = <<"a.json", "b.json">>, !.pattern = TRUE]>>}
  \cup {<<[Gated EXCEPT !.pattern = pt, !.thresholds = {T("error_rate", "<", 50, 1)}]>> : pt \in BOOLEAN}

\* A threshold on the error rate of a step.
MCStepRate == {<<[Base EXCEPT !.events = Step("pay"), !.most = 1,
                             !.thresholds = {[T("error_rate", "<", 60, 1) EXCEPT !.step = "pay"]}]>>}
===============================================================================
