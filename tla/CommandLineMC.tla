---------------------------- MODULE CommandLineMC ----------------------------
EXTENDS CommandLine

\* Options the checks and the modes treat like one that is listed are left out.
MCOption ==
  {"duration", "num_requests", "headers", "cookies", "allow_partial", "http2",
   "otel_endpoint", "baseline", "save_baseline", "fail_on", "strict_config",
   "export_interval", "thresholds", "users", "ramp_up", "rate", "rate_ramp", "traffic_profile",
   "scenario", "data", "autofind", "max_users", "url_file", "master", "expect_workers", "worker",
   "ws_messages", "ws_expect_reply", "ws_message_interval"}

Pairs == UNION {{<<o, v>> : v \in Values(o)} : o \in MCOption}

LineOf(P) == [o \in {p[1] : p \in P} |-> (CHOOSE p \in P : p[1] = o)[2]]

UpTo(n) ==
  IF n = 2 THEN {{p, q} : p, q \in Pairs} ELSE {{p, q, r} : p, q, r \in Pairs}

\* Every way to give up to n options besides those of P, n being 2 or 3.
With(P, n) ==
  {LineOf(P \cup Q) : Q \in {R \in UpTo(n) : Cardinality({p[1] : p \in R}) = Cardinality(R)}}

Gates4 == {<<"thresholds", "on">>, <<"baseline", "on">>, <<"fail_on", "on">>,
           <<"save_baseline", "on">>, <<"otel_endpoint", "on">>}

MCLines ==
  With({<<"url", "http">>}, 3) \cup With({<<"url", "ws">>}, 2) \cup With({}, 2)
    \cup {LineOf({<<"url", "other">>}), LineOf({})}
    \cup {LineOf(G \cup {<<"url_file", "on">>}) : G \in SUBSET Gates4}
    \cup {LineOf(G \cup {<<"url", "http">>, <<"master", "on">>, <<"expect_workers", "on">>})
            : G \in SUBSET (Gates4 \cup {<<"allow_partial", "on">>})}
    \cup {LineOf(G \cup {<<"url", "ws">>, <<"strict_config", "on">>, <<"baseline", "on">>})
            : G \in SUBSET Gates4}

MCCalls ==
  {LineOf({<<"url", "http">>} \cup P) :
     P \in SUBSET {<<"users", "on">>, <<"duration", "long">>, <<"thresholds", "on">>, <<"fail_on", "on">>}}
    \cup {LineOf({<<"url", "ws">>, <<"thresholds", "bad">>})}

MCSearches ==
  [start : {0, 1, 3, 10}, most : {60}, multiplier : {<<1, 1>>, <<11, 10>>, <<3, 2>>, <<2, 1>>},
   limit : {0, 1, 9, 10, 13, 29, 44, 45, 59, 60, 61}, steady : BOOLEAN]
===============================================================================
