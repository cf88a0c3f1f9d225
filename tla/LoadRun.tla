------------------------------- MODULE LoadRun -------------------------------
(***************************************************************************)
(* One fixed-concurrency run, run_benchmark of workers.py: worker tasks      *)
(* share a request counter or a duration, a rate limiter and a stop event;   *)
(* _await_workers waits for them, with a grace period and a cancellation     *)
(* once a signal asks to stop; _finalize_run merges what they measured and   *)
(* chooses the exit code.                                                    *)
(*                                                                           *)
(* Everything runs on one event loop, so a step is what happens between two  *)
(* awaits: a worker that has its answer records it, checks its stop          *)
(* conditions, claims the next request and starts it in one step.            *)
(***************************************************************************)
EXTENDS Integers, FiniteSets

CONSTANTS
  Worker,        \* the worker tasks, config.connections of them
  Requests,      \* -n, the requests to make in request-count mode
  MaxRequests    \* bound: the requests recorded before the duration has elapsed

ASSUME LoadAssumption ==
  /\ IsFiniteSet(Worker) /\ Worker # {}
  /\ Requests \in Nat \ {0} /\ MaxRequests \in Nat

VARIABLES
  config,        \* the load mode: "count" (-n) or "timed" (-d), and whether --rate is given
  worker,        \* each task: see WorkerState
  asked,         \* tasks whose cancellation has been asked for
  remaining,     \* RequestCounter.remaining
  requests,      \* total_requests, summed over the workers' WorkerStats
  over,          \* the duration has elapsed
  stop,          \* stop_event
  force,         \* force_event
  signals,       \* signals received, up to 2: a third does what the second did
  runner,        \* run_benchmark: "waiting", "grace", "cancelling", "teardown", "reported"
  grace,         \* the grace period: "none", "running", "over", "unneeded"
  report         \* what the caller gets: the merged total and the exit code

loadVars == <<config, remaining, requests, over>>
vars == <<loadVars, worker, asked, stop, force, signals, runner, grace, report>>

\* "limited": asleep in RateLimiter.acquire; "sending": in session.send;
\* "cancelled" and "crashed": ended by CancelledError, by any other exception.
WorkerState == {"created", "limited", "sending", "done", "cancelled", "crashed"}
Ended(w) == worker[w] \in {"done", "cancelled", "crashed"}
Pending == {w \in Worker : ~Ended(w)}
Crashed == \E w \in Worker : worker[w] = "crashed"
Counted == config.mode = "count"

\* The claimed requests that have not been recorded, sent or about to be.
InFlight == {w \in Worker : worker[w] \in {"limited", "sending"}}

NoReport == [total |-> 0, exit |-> 0, breached |-> FALSE]

TypeOK ==
  /\ config \in [mode : {"count", "timed"}, rate : BOOLEAN]
  /\ worker \in [Worker -> WorkerState] /\ asked \subseteq Worker
  /\ remaining \in 0..Requests /\ requests \in Nat
  /\ over \in BOOLEAN /\ stop \in BOOLEAN /\ force \in BOOLEAN /\ signals \in 0..2
  /\ runner \in {"waiting", "grace", "cancelling", "teardown", "reported"}
  /\ grace \in {"none", "running", "over", "unneeded"}
  /\ report \in [total : Nat, exit : 0..3, breached : BOOLEAN]

Init ==
  /\ config \in [mode : {"count", "timed"}, rate : BOOLEAN]
  /\ worker = [w \in Worker |-> "created"]
  /\ asked = {}
  /\ remaining = Requests
  /\ requests = 0
  /\ over = FALSE /\ stop = FALSE /\ force = FALSE /\ signals = 0
  /\ runner = "waiting" /\ grace = "none"
  /\ report = NoReport

-------------------------------------------------------------------------------
(* The loop of a worker.                                                      *)

\* The conditions at the head of the loop.
MayGoOn == ~stop /\ (Counted => remaining > 0) /\ (~Counted => ~over)

\* Fault variant: the counter is only read, and taken down with the answer.
AdvanceUnclaimed(w) ==
  /\ worker' = [worker EXCEPT ![w] = IF ~MayGoOn THEN "done" ELSE IF config.rate THEN "limited" ELSE "sending"]
  /\ remaining' = IF Counted /\ worker[w] = "sending" /\ remaining > 0 THEN remaining - 1 ELSE remaining

\* The head of the loop: a worker is done, or it claims a request and goes to
\* the rate limiter, if there is one, or sends it.
Advance(w) ==
  \/ /\ ~MayGoOn
     /\ worker' = [worker EXCEPT ![w] = "done"]
     /\ UNCHANGED remaining
  \/ /\ MayGoOn
     /\ worker' = [worker EXCEPT ![w] = IF config.rate THEN "limited" ELSE "sending"]
     /\ remaining' = IF Counted THEN remaining - 1 ELSE remaining

Start(w) ==
  /\ worker[w] = "created"
  /\ w \notin asked
  /\ Advance(w)
  /\ UNCHANGED <<config, requests, over, asked, stop, force, signals, runner, grace, report>>

\* Fault variant: the stop event is not looked at again after the wait.
AcquiredUnchecked(w) ==
  /\ worker[w] = "limited"
  /\ w \notin asked
  /\ worker' = [worker EXCEPT ![w] = "sending"]
  /\ UNCHANGED <<loadVars, asked, stop, force, signals, runner, grace, report>>

\* acquire() returns.  The request is given up, though claimed, if the run was
\* stopped meanwhile; the duration is not looked at again.
Acquired(w) ==
  /\ worker[w] = "limited"
  /\ w \notin asked
  /\ worker' = [worker EXCEPT ![w] = IF stop THEN "done" ELSE "sending"]
  /\ UNCHANGED <<loadVars, asked, stop, force, signals, runner, grace, report>>

\* An answer, or an error of the transport, its timeout included: recorded as a
\* request either way.
Answered(w) ==
  /\ worker[w] = "sending"
  /\ w \notin asked
  /\ Counted \/ over \/ requests < MaxRequests
  /\ requests' = requests + 1
  /\ Advance(w)
  /\ UNCHANGED <<config, over, asked, stop, force, signals, runner, grace, report>>

\* Any other exception ends the task, before or after the request was recorded.
Crash(w) ==
  /\ worker[w] \in {"created", "sending"}
  /\ w \notin asked
  /\ worker' = [worker EXCEPT ![w] = "crashed"]
  /\ \/ UNCHANGED requests
     \/ /\ worker[w] = "sending"
        /\ Counted \/ over \/ requests < MaxRequests
        /\ requests' = requests + 1
  /\ UNCHANGED <<config, remaining, over, asked, stop, force, signals, runner, grace, report>>

\* The cancellation arrives: a request on the wire turns it into
\* result.cancelled, elsewhere it ends the task.
Cancelled(w) ==
  /\ w \in asked
  /\ ~Ended(w)
  /\ worker' = [worker EXCEPT ![w] = IF @ = "sending" THEN "done" ELSE "cancelled"]
  /\ UNCHANGED <<loadVars, asked, stop, force, signals, runner, grace, report>>

DurationElapses ==
  /\ ~Counted
  /\ ~over
  /\ over' = TRUE
  /\ UNCHANGED <<config, remaining, requests, worker, asked, stop, force, signals, runner, grace, report>>

\* SIGINT or SIGTERM: the first one stops the run, a second one forces it.
Signal ==
  /\ runner # "reported"
  /\ IF stop THEN force' = TRUE /\ UNCHANGED stop
             ELSE stop' = TRUE /\ UNCHANGED force
  /\ signals' = IF signals < 2 THEN signals + 1 ELSE signals
  /\ UNCHANGED <<loadVars, worker, asked, runner, grace, report>>

-------------------------------------------------------------------------------
(* _await_workers and _finalize_run.                                          *)

AskToCancel ==
  /\ asked' = Pending
  /\ runner' = "cancelling"

\* Fault variant: the wait ends with the stop event only.
WorkersEndedOnStop ==
  /\ runner = "waiting"
  /\ stop
  /\ Pending = {}
  /\ runner' = "cancelling"
  /\ UNCHANGED <<loadVars, worker, asked, stop, force, signals, grace, report>>

\* All workers have ended by themselves.
WorkersEnded ==
  /\ runner = "waiting"
  /\ Pending = {}
  /\ runner' = "cancelling"
  /\ UNCHANGED <<loadVars, worker, asked, stop, force, signals, grace, report>>

\* The stop event wakes the wait; force_event is read here, once.
StopSeen ==
  /\ runner = "waiting"
  /\ stop
  /\ Pending # {}
  /\ \/ /\ force
        /\ AskToCancel
        /\ UNCHANGED grace
     \/ /\ ~force
        /\ runner' = "grace"
        /\ grace' = "running"
        /\ UNCHANGED asked
  /\ UNCHANGED <<loadVars, worker, stop, force, signals, report>>

\* Every request on the wire has landed within the grace period.
GraceUnneeded ==
  /\ runner = "grace"
  /\ Pending = {}
  /\ runner' = "cancelling"
  /\ grace' = "unneeded"
  /\ UNCHANGED <<loadVars, worker, asked, stop, force, signals, report>>

\* Fault variant: the stragglers are left alone.
GraceExpiresIdly ==
  /\ runner = "grace"
  /\ runner' = "cancelling"
  /\ grace' = "over"
  /\ UNCHANGED <<loadVars, worker, asked, stop, force, signals, report>>

\* min(timeout, 2 s) have passed: what is still pending is cancelled.
GraceExpires ==
  /\ runner = "grace"
  /\ grace' = "over"
  /\ AskToCancel
  /\ UNCHANGED <<loadVars, worker, stop, force, signals, report>>

\* Fault variant: the cancelled tasks are not waited for.
TeardownAtOnce ==
  /\ runner = "cancelling"
  /\ stop' = TRUE
  /\ runner' = "teardown"
  /\ UNCHANGED <<loadVars, worker, asked, force, signals, grace, report>>

\* All tasks have ended, the cancelled ones too.  stop_event is set, and the
\* progress task, the connections and the exporter are closed.
Teardown ==
  /\ runner = "cancelling"
  /\ Pending = {}
  /\ stop' = TRUE
  /\ runner' = "teardown"
  /\ UNCHANGED <<loadVars, worker, asked, force, signals, grace, report>>

AtLeast(code, floor) == IF code < floor THEN floor ELSE code

\* Fault variant: a crash is overlooked.
ExitCodeLenient(breached, baseline, exported) ==
  LET gates == IF breached THEN 2 ELSE baseline
  IN  IF exported THEN gates ELSE AtLeast(gates, 1)

\* A breached threshold is 2, else the baseline gate says 0, 1 or 3; a crash of a
\* worker or a failed export is at least 1.
ExitCode(breached, baseline, exported) ==
  LET gates == IF breached THEN 2 ELSE baseline
  IN  IF Crashed \/ ~exported THEN AtLeast(gates, 1) ELSE gates

\* The statistics are merged, printed and judged.
Report ==
  /\ runner = "teardown"
  /\ \E breached \in BOOLEAN, baseline \in {0, 1, 3}, exported \in BOOLEAN :
       report' = [total |-> requests, exit |-> ExitCode(breached, baseline, exported),
                  breached |-> breached]
  /\ runner' = "reported"
  /\ UNCHANGED <<loadVars, worker, asked, stop, force, signals, grace>>

-------------------------------------------------------------------------------
WorkerStep(w) == Start(w) \/ Acquired(w) \/ Answered(w) \/ Crash(w) \/ Cancelled(w)
RunnerStep == WorkersEnded \/ StopSeen \/ GraceUnneeded \/ GraceExpires \/ Teardown \/ Report

Next == (\E w \in Worker : WorkerStep(w)) \/ DurationElapses \/ Signal \/ RunnerStep

\* The event loop runs what is ready and its timers fire.  Nothing is asked of
\* the target, nor of the rate limiter, which may call for a pause of any length.
Fairness ==
  /\ \A w \in Worker : WF_vars(Start(w)) /\ WF_vars(Cancelled(w))
  /\ WF_vars(RunnerStep)
  /\ WF_vars(DurationElapses)

Spec == Init /\ [][Next]_vars /\ Fairness

-------------------------------------------------------------------------------
(* Properties.                                                                *)

\* -n is a hard limit on the requests made, whatever the tasks do between reading
\* the counter and sending: those recorded, those on their way and those nobody
\* has claimed yet never exceed it (RequestCounter, claimed before the first await).
NeverTooMany == Counted => requests + Cardinality(InFlight) <= Requests

\* A run that made fewer requests than -n asked for, and was not stopped by a
\* signal, does not exit 0: a crashed worker that took a claimed request with it
\* is never "a clean, successful run" (_finalize_run, worker_crashed).
DroppedLoadIsReported ==
  runner = "reported" /\ Counted /\ signals = 0 /\ report.exit = 0 => report.total = Requests

\* No task touches the statistics once _finalize_run goes on to merge them: what
\* is reported is the final total, with every straggler cancelled and gone.
ReportIsFinal ==
  /\ runner \in {"teardown", "reported"} => Pending = {}
  /\ runner = "reported" => report.total = requests

\* Once the run has been asked to stop no new request goes out, not even from a
\* worker that was waiting for its slot of the rate limiter.
NoRequestAfterStop ==
  [][\A w \in Worker : stop /\ worker'[w] = "sending" => worker[w] = "sending"]_vars

\* A breached threshold keeps its exit code 2 whatever else went wrong.
BreachIsTwo == runner = "reported" /\ report.breached => report.exit = 2

\* A run that is asked to stop reports, though the target hangs and the rate
\* limiter sleeps.
StopEndsTheRun == stop ~> runner = "reported"

\* With a target that answers, or times out, and a limiter that lets requests
\* pass, every run comes to its end by itself.
RunEnds ==
  (\A w \in Worker : WF_vars(Acquired(w)) /\ WF_vars(Answered(w))) => <>(runner = "reported")
===============================================================================
