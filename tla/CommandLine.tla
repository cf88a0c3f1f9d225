----------------------------- MODULE CommandLine -----------------------------
(***************************************************************************)
(* One call of pywrkr, from the command line (main.py) or from a program     *)
(* (api.py): the options are checked against each other, a mode is chosen,   *)
(* its runs are made (one per URL of a URL file, one per step of Autofind)   *)
(* and their verdicts become an exit code.                                   *)
(*                                                                           *)
(* A line is a function from the options given to their values, an option    *)
(* named by its attribute of args.  "bad" is a value its own check refuses:  *)
(* out of range, malformed, an unreadable file; "on" is any other, and where *)
(* the checks look closer the value says what they look at.                  *)
(***************************************************************************)
EXTENDS Autofind, FiniteSets

CONSTANTS
  Lines,        \* the command lines to look at
  Calls,        \* the calls of arun to look at, as lines
  Urls          \* the number of entries of the URL file

CoreOption ==
  {"url", "connections", "duration", "num_requests", "threads", "method", "headers", "body",
   "post_file", "basic_auth", "cookies", "allow_partial", "follow_redirects", "http2",
   "verify_length", "timeout", "random_param"}
OutputOption ==
  {"json", "latency_breakdown", "tags", "otel_endpoint", "prom_remote_write", "baseline",
   "save_baseline", "fail_on", "strict_config", "export_interval", "thresholds"}
UserOption == {"users", "ramp_up", "think_time", "think_jitter"}
RateOption == {"rate", "rate_ramp", "traffic_profile", "scenario", "data", "data_strategies"}
AutofindOption == {"autofind", "start_users", "max_users", "step_multiplier"}
DistributedOption == {"url_file", "master", "expect_workers", "worker"}
WebsocketOption ==
  {"ws_messages", "ws_message_interval", "ws_expect_reply", "ws_reply_timeout",
   "ws_subprotocols", "ws_ping_interval", "ws_max_message_size", "ws_close_timeout", "ws_reconnect"}

Option == UNION {CoreOption, OutputOption, UserOption, RateOption, AutofindOption,
                 DistributedOption, WebsocketOption}

\* "long" is more than the default duration, "short" less.
Values(o) ==
  CASE o = "url" -> {"http", "ws", "other"}
    [] o = "url_file" -> {"on", "bad", "ws"}
    [] o = "duration" -> {"short", "long", "bad"}
    [] o = "ramp_up" -> {"long", "bad"}
    [] o = "thresholds" -> {"on", "step", "bad"}
    [] o = "scenario" -> {"based", "relative", "bad"}
    [] o \in {"method", "headers", "body", "basic_auth", "cookies", "allow_partial", "autofind",
              "master", "verify_length", "follow_redirects", "random_param", "json", "baseline",
              "save_baseline", "strict_config", "otel_endpoint", "prom_remote_write",
              "latency_breakdown", "ws_messages", "ws_expect_reply", "ws_subprotocols",
              "ws_reconnect"} -> {"on"}
    [] OTHER -> {"on", "bad"}

LineKind(l) == DOMAIN l \subseteq Option /\ \A o \in DOMAIN l : l[o] \in Values(o)

ASSUME CommandAssumption ==
  /\ \A l \in Lines \cup Calls : LineKind(l)
  /\ Urls \in Nat \ {0}

VARIABLES
  caller,    \* "command" or "library"
  line,      \* what was given
  phase,     \* "parsing", "running", "searching", "ended"
  mode,      \* how the load is made, "none" before that is known
  todo,      \* runs still to be made
  failed,    \* history: of each run that is over, the set of what went wrong in it
  code       \* the exit code, of the runs so far

vars == <<caller, line, phase, mode, todo, failed, code, searchVars>>

Given(o) == o \in DOMAIN line
Is(o, v) == Given(o) /\ line[o] = v
Bad(o) == Is(o, "bad")
AnyOf(S) == \E o \in S : Given(o)
AnyBad(S) == \E o \in S : Bad(o)

-------------------------------------------------------------------------------
(* The checks of main.py, in their order.                                     *)

LoadShape == {"num_requests", "rate", "rate_ramp", "traffic_profile", "users", "duration"}

\* Fault variant: the rate of a search is not looked at.
ModeConflictLenient ==
  \/ Given("autofind") /\ AnyOf((LoadShape \ {"rate"}) \cup {"thresholds"})
  \/ Given("master") /\ AnyOf({"autofind", "url_file"})
  \/ Given("url_file") /\ Given("autofind")

ModeConflict ==
  \/ Given("autofind") /\ AnyOf(LoadShape \cup {"thresholds"})
  \/ Given("master") /\ AnyOf({"autofind", "url_file"})
  \/ Given("url_file") /\ Given("autofind")
  \/ Given("allow_partial") /\ ~Given("master")

HttpOnly ==
  {"method", "body", "post_file", "num_requests", "http2", "follow_redirects",
   "latency_breakdown", "random_param", "verify_length", "rate", "rate_ramp",
   "traffic_profile", "users", "cookies"}

WebsocketTarget == Is("url", "ws")

WebsocketConflict ==
  \/ AnyOf({"autofind", "master", "url_file", "scenario"} \cup HttpOnly)
  \/ AnyBad(WebsocketOption)
  \/ Given("ws_expect_reply") /\ ~Given("ws_messages")

UrlRefused ==
  \/ ModeConflict
  \/ Bad("url_file") \/ Is("url_file", "ws")
  \/ Given("master") /\ (~Given("expect_workers") \/ Bad("expect_workers") \/ ~Given("url"))
  \/ ~AnyOf({"url", "url_file", "scenario"})
  \/ Is("url", "other")
  \/ WebsocketTarget /\ WebsocketConflict

ExportRefused ==
  Given("export_interval") /\ (Bad("export_interval") \/ ~AnyOf({"otel_endpoint", "prom_remote_write"}))

\* The effective duration: 10 s when nothing else bounds the run.
Duration ==
  IF Given("duration") THEN line["duration"]
  ELSE IF AnyOf({"users", "num_requests"}) THEN "none" ELSE "default"

\* Fault variant: -u is content without -d.
LoadRefusedLenient ==
  \/ AnyBad({"connections", "duration", "num_requests", "ramp_up", "rate", "users"})
  \/ AnyOf({"users", "autofind"}) /\ Given("num_requests")

LoadRefused ==
  \/ AnyBad({"connections", "threads", "duration", "num_requests", "timeout", "ramp_up",
             "think_time", "think_jitter", "rate"})
  \/ /\ Given("autofind")
     /\ \/ AnyBad({"max_users", "step_multiplier"})
        \/ AnyOf({"method", "headers", "body", "post_file", "basic_auth", "cookies", "verify_length"})
  \/ /\ ~Given("autofind") /\ Given("users")
     /\ Bad("users") \/ Given("num_requests") \/ ~Given("duration")
  \/ ~AnyOf({"autofind", "users"}) /\ Given("num_requests") /\ Given("duration")
  \/ Is("ramp_up", "long") /\ Duration \in {"short", "default"}

DataRefused == AnyOf({"data", "data_strategies"}) /\ (~Given("scenario") \/ AnyBad({"data", "data_strategies"}))

ScenarioRefused ==
  \/ Bad("scenario")
  \/ DataRefused
  \/ Is("scenario", "relative") /\ ~Given("url")

BaselineRefused == AnyOf({"fail_on", "strict_config"}) /\ (Bad("fail_on") \/ ~Given("baseline"))

\* --ws-* on another target; not all of them are looked for.
WebsocketAstray ==
  ~WebsocketTarget /\ AnyOf({"ws_messages", "ws_subprotocols", "ws_expect_reply", "ws_reconnect",
                             "ws_reply_timeout", "ws_ping_interval"})

StepThresholdRefused == Is("thresholds", "step") /\ ~Given("scenario")

RateRefused ==
  \/ Given("rate_ramp") /\ (~Given("rate") \/ Duration = "none" \/ Bad("rate_ramp"))
  \/ /\ Given("traffic_profile")
     /\ ~Given("rate") \/ Duration = "none" \/ Given("rate_ramp") \/ Bad("traffic_profile")

Refused ==
  \/ UrlRefused \/ Bad("http2") \/ ExportRefused \/ LoadRefused
  \/ AnyBad({"post_file", "tags", "thresholds"})
  \/ ScenarioRefused \/ BaselineRefused \/ WebsocketAstray \/ StepThresholdRefused \/ RateRefused

\* The one mode of _determine_and_run_mode, by the order of its tests.
Chosen ==
  CASE WebsocketTarget -> "websocket"
    [] ~WebsocketTarget /\ Given("url_file") -> "multi"
    [] ~WebsocketTarget /\ Given("master") -> "master"
    [] ~WebsocketTarget /\ Given("autofind") -> "autofind"
    [] ~(WebsocketTarget \/ AnyOf({"url_file", "master", "autofind"})) ->
         IF Given("users") THEN "users" ELSE "benchmark"

\* What the checks of --max-users and --step-multiplier leave of the searches.
Sought == {s \in Searches : s.start < s.most /\ s.multiplier[2] < s.multiplier[1]}

-------------------------------------------------------------------------------
(* What a run ends with.                                                      *)

\* What can go wrong in a run, each under the option that lets it.  "lost": a
\* task crashed, or a node did not report; "dead": every request, or handshake,
\* failed, or no node reported.
Trouble ==
  {"lost", "dead"}
    \cup (IF Given("thresholds") THEN {"breach"} ELSE {})
    \cup (IF AnyOf({"otel_endpoint", "prom_remote_write"}) THEN {"unexported"} ELSE {})
    \cup (IF caller = "library" THEN {} ELSE
           (IF Given("save_baseline") THEN {"unwritable"} ELSE {})
             \cup (IF Given("baseline") THEN {"unreadable"} ELSE {})
             \cup (IF Given("fail_on") THEN {"regression"} ELSE {})
             \cup (IF Given("strict_config") THEN {"differing"} ELSE {}))

\* The baseline is written, read and compared with, in this order.
BaselineGate(t) ==
  IF t \cap {"unwritable", "unreadable", "differing"} # {} THEN 1
  ELSE IF "regression" \in t THEN 3 ELSE 0

\* Fault variant: the baseline gate has the last word.
GatesBaselineLast(t) ==
  IF BaselineGate(t) # 0 THEN BaselineGate(t) ELSE IF "breach" \in t THEN 2 ELSE 0

\* A breached threshold outranks what the baseline says.
Gates(t) == IF "breach" \in t THEN 2 ELSE BaselineGate(t)

AtLeastOne(c) == IF c = 0 THEN 1 ELSE c

\* _finalize_run, and run_websocket_benchmark, which also looks for sockets.
RunExit(t) ==
  IF t \cap {"lost", "unexported"} # {} \/ (mode = "websocket" /\ "dead" \in t)
  THEN AtLeastOne(Gates(t)) ELSE Gates(t)

\* run_master, which does not export; without a result nothing is judged.
MasterExit(t) ==
  IF "dead" \in t THEN 1
  ELSE IF "lost" \in t /\ ~Given("allow_partial") THEN AtLeastOne(Gates(t)) ELSE Gates(t)

UrlExit(t) == IF "dead" \in t THEN AtLeastOne(RunExit(t)) ELSE RunExit(t)

\* What the mode counts as a failure: one run may fail all its requests, a
\* master may be told to accept missing nodes and judges nothing without any.
Counts(t) ==
  CASE mode = "benchmark" \/ mode = "users" -> t \ {"dead"}
    [] mode = "master" ->
         IF "dead" \in t THEN {"dead"}
         ELSE t \ (IF Given("allow_partial") THEN {"lost", "unexported"} ELSE {"unexported"})
    [] OTHER -> t

Higher(a, b) == IF a > b THEN a ELSE b

-------------------------------------------------------------------------------
Init ==
  /\ \/ caller = "command" /\ line \in Lines
     \/ caller = "library" /\ line \in Calls
  /\ phase = "parsing" /\ mode = "none"
  /\ todo = 0 /\ failed = {} /\ code = 0
  /\ search = (CHOOSE s \in Searches : TRUE) /\ stage = "idle" /\ users = 0 /\ good = 0 /\ bad = 0

End(c) ==
  /\ phase' = "ended"
  /\ code' = c

\* --worker is looked at before anything else, and nothing else is looked at.
Serve ==
  /\ phase = "parsing" /\ caller = "command" /\ Given("worker")
  /\ mode' = "worker"
  /\ IF Bad("worker") THEN End(2) ELSE \E c \in {0, 1, 130} : End(c)
  /\ UNCHANGED <<caller, line, todo, failed, searchVars>>

\* parser.error
Refuse ==
  /\ phase = "parsing" /\ caller = "command" /\ ~Given("worker")
  /\ Refused
  /\ mode' = "refused"
  /\ End(2)
  /\ UNCHANGED <<caller, line, todo, failed, searchVars>>

Accept ==
  /\ phase = "parsing" /\ caller = "command" /\ ~Given("worker")
  /\ ~Refused
  /\ mode' = Chosen
  /\ todo' = IF Chosen = "multi" THEN Urls ELSE 1
  /\ phase' = IF Chosen = "autofind" THEN "searching" ELSE "running"
  /\ IF Chosen = "autofind" THEN \E s \in Sought : BeginSearch(s) ELSE UNCHANGED searchVars
  /\ UNCHANGED <<caller, line, failed, code>>

\* arun: an unusable threshold is raised, the rest is taken as it is, and a
\* WebSocket target is a target like any other.
Call ==
  /\ phase = "parsing" /\ caller = "library"
  /\ IF Bad("thresholds") THEN mode' = "refused" /\ End(0) /\ UNCHANGED todo
     ELSE /\ mode' = IF Given("users") THEN "users" ELSE "benchmark"
          /\ todo' = 1 /\ phase' = "running" /\ UNCHANGED code
  /\ UNCHANGED <<caller, line, failed, searchVars>>

\* Result.exit_code of api.py: whether a threshold was breached.
ResultExit(t) == IF "breach" \in t THEN 2 ELSE 0

ExitOf(t) ==
  CASE caller = "library" -> ResultExit(t)
    [] caller = "command" /\ mode = "multi" -> UrlExit(t)
    [] caller = "command" /\ mode = "master" -> MasterExit(t)
    [] OTHER -> RunExit(t)

\* A run comes to its end by itself when a duration or a count bounds it.  A Config
\* has a duration of its own, and arun is not called with None here.
Bounded == Duration # "none" \/ Given("num_requests") \/ caller = "library"

\* One run is over; run_multi_url goes on to the next URL whatever happened, and
\* the worst code is what remains.
EndRun ==
  /\ phase = "running" /\ todo > 0 /\ Bounded
  /\ \E t \in SUBSET Trouble :
       /\ failed' = failed \cup {Counts(t)}
       /\ code' = Higher(code, ExitOf(t))
  /\ todo' = todo - 1
  /\ phase' = IF todo = 1 THEN "ended" ELSE "running"
  /\ UNCHANGED <<caller, line, mode, searchVars>>

Search ==
  /\ phase = "searching"
  /\ RampStep \/ RefineStep
  /\ UNCHANGED <<caller, line, phase, mode, todo, failed, code>>

\* A search that found no load the target sustains exits 2; the ValueError of
\* run_autofind is not caught.
EndSearch ==
  /\ phase = "searching" /\ stage \in {"found", "raised"}
  /\ End(IF stage = "raised" THEN 1 ELSE IF good > 0 THEN 0 ELSE 2)
  /\ UNCHANGED <<caller, line, mode, todo, failed, searchVars>>

Next == Serve \/ Refuse \/ Accept \/ Call \/ EndRun \/ Search \/ EndSearch

\* main runs to its end; a bounded run is over when its bound is reached.
Spec == Init /\ [][Next]_vars /\ WF_vars(Next)

-------------------------------------------------------------------------------
(* Properties.                                                                *)

\* What each mode makes of the options that shape the load or gate the run:
\* which of them reach the code that runs.
Honours(m) ==
  CASE m = "websocket" -> {"duration", "thresholds"}
    [] m = "autofind" -> {}
    [] m = "users" -> {"duration", "users", "rate", "rate_ramp", "traffic_profile", "thresholds"}
    [] m = "benchmark" -> (LoadShape \ {"users"}) \cup {"thresholds"}
    [] OTHER -> LoadShape \cup {"thresholds"}

\* Mode dispatch picks one mode by if/elif order; no line it accepts loses an
\* option that shapes the load, or a threshold, on the way (_validate_mode_conflicts).
LoadIsHonoured ==
  phase \in {"running", "searching"} /\ caller = "command" =>
    DOMAIN line \cap (LoadShape \cup {"thresholds"}) \subseteq Honours(mode)

\* A regression speaks for a run that breached no threshold and could use its baseline.
Regresses(t) == "regression" \in t /\ t \cap {"breach", "unwritable", "unreadable", "differing"} = {}

\* The exit code of the command is 0 exactly when nothing went wrong in any of its runs;
\* 3 exactly when one of them ended with a regression, 2 when one breached a threshold
\* and none did that, and 1 when something else went wrong.  So "When both a threshold
\* and a regression fire, 2 wins" (README.md:734) is true of what fires in one run; of a
\* URL file, one URL's breach and another's regression make 3, since main.py:1801 takes
\* the highest code.
ExitTellsTheWorst ==
  phase = "ended" /\ caller = "command" =>
    CASE mode \in {"benchmark", "users", "websocket", "master", "multi"} ->
           /\ code = 0 <=> UNION failed = {}
           /\ code = 3 <=> \E t \in failed : Regresses(t)
           /\ code = 2 <=> "breach" \in UNION failed /\ ~\E t \in failed : Regresses(t)
           /\ code \in 0..3
      [] mode = "autofind" ->
           search.steady /\ stage = "found" => (code = 0 <=> search.start <= search.limit)
      [] OTHER -> TRUE

\* Every call comes to an end: no accepted line leaves a run without a bound, and
\* no search goes on for ever.
EveryCallEnds == <>(phase = "ended")
===============================================================================
