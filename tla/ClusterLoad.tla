------------------------------ MODULE ClusterLoad ------------------------------
(***************************************************************************)
(* A distributed run and the load itself: the protocol of MasterWorker, in   *)
(* which one node is looked at from the inside while it runs its share of    *)
(* the load, a LoadRun.                                                      *)
(***************************************************************************)
EXTENDS MasterWorker

CONSTANTS
  Inside,        \* the node that is looked at from the inside
  Worker,        \* its worker tasks
  Requests,      \* its share of -n
  MaxRequests    \* bound of LoadRun

VARIABLES config, worker, asked, remaining, requests, over, stop, force, signals, runner, grace, report

Load == INSTANCE LoadRun

runVars == <<config, worker, asked, remaining, requests, over, stop, force, signals, runner, grace, report>>

\* The master's config carries -n or -d, and its rate.
ClusterInit == Init /\ Load!Init

\* run_benchmark, between the arrival of the config and its return.
RunsLoad ==
  /\ node[Inside] = "running"
  /\ Load!Next
  /\ UNCHANGED vars

\* Everything else.  The result is sent when the benchmark has returned: its
\* statistics, since of the pair that run_benchmark returns the exit code is dropped.
Protocol ==
  /\ Next
  /\ SendResult(Inside) => runner = "reported"
  /\ UNCHANGED runVars

ClusterNext == RunsLoad \/ Protocol

ClusterSpec == ClusterInit /\ [][ClusterNext]_<<vars, runVars>>

-------------------------------------------------------------------------------
(* What the documentation says and the code does not do.                      *)

\* "masking dropped load as a clean, successful run" is what the exit code of a crashed
\* worker is there to prevent (_finalize_run), and the master exits 1 "rather than
\* passing a gate on a fraction of the intended traffic" (README): a run of -n that
\* exits 0, and that no signal has cut short, has made the requests of the node.
ZeroMeansLoadWasMade ==
  exitCode = 0 /\ collector[Inside] = "counted" /\ config.mode = "count" /\ signals = 0 =>
    report.total = Requests
===============================================================================
