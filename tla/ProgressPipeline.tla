--------------------------- MODULE ProgressPipeline ---------------------------
(***************************************************************************)
(* The live numbers of a run.  On each worker node a StreamingExporter      *)
(* (streaming.py) samples the run and hands its snapshots, through a        *)
(* bounded queue and an executor thread, to a _ProgressReporter             *)
(* (distributed.py), which forwards them over the connection that will also *)
(* carry the result.  The master records each node's latest report in a     *)
(* ProgressAggregator and a _MasterExporter exports their sum on its own    *)
(* clock.                                                                   *)
(*                                                                         *)
(* Per node the snapshots cross two queues and a thread boundary:           *)
(*   exportQueue -> inExecutor -> bounced -> reportQueue -> channel         *)
(* and everything except Submit runs on the node's event loop.              *)
(***************************************************************************)
EXTENDS Integers, Sequences, FiniteSets, Functions

CONSTANTS
  Node,          \* the selected worker nodes
  MaxRequests,   \* bound: the requests each node completes
  MaxSamples,    \* bound: the interval snapshots each node takes
  ExportQueue,   \* _QUEUE_SIZE of streaming.py
  ReportQueue    \* _ProgressReporter._QUEUE_SIZE

ASSUME ProgressAssumption ==
  /\ IsFiniteSet(Node)
  /\ MaxRequests \in [Node -> Nat] /\ MaxSamples \in [Node -> Nat]
  /\ ExportQueue \in Nat \ {0} /\ ReportQueue \in Nat \ {0}

VARIABLES
  done,          \* requests completed, summed over the node's WorkerStats
  mark,          \* _last_requests: what the snapshots taken so far cover
  samples,       \* interval snapshots taken, for the bound
  sampler,       \* _sample_loop: "on", "due" once its timer has fired, "off"
  exporter,      \* StreamingExporter: "running", "closing", "closed"
  exportQueue,   \* its queue
  tally,         \* its counters queued, sent and dropped
  inExecutor,    \* the snapshot being delivered, if any
  bounced,       \* the payload on its way from the thread to the loop
  seq,           \* _seq of the reporter
  reporter,      \* _ProgressReporter: "running", "stopped", "cut" by its timeout
  reportQueue,   \* its queue
  reportDropped, \* its dropped counter
  written,       \* seq of, and requests covered by, the reports written so far
  finished,      \* the result has been written
  channel,       \* messages in flight to the master
  collector,     \* _collect_one: "reading", "ended"
  latest,        \* _latest: the last report recorded, if any
  consumed,      \* _consumed_seq, 0 before
  master,        \* _MasterExporter: "on", "off"
  cluster        \* what it exported: the last total, and all windows together

exporterVars == <<done, mark, samples, sampler, exporter, exportQueue, tally>>
reporterVars == <<seq, reporter, reportQueue, reportDropped, written, finished>>
masterVars == <<collector, latest, consumed, master, cluster>>
vars == <<exporterVars, inExecutor, bounced, reporterVars, channel, masterVars>>

Result == [type |-> "result"]

Init ==
  /\ done = [n \in Node |-> 0] /\ mark = [n \in Node |-> 0]
  /\ samples = [n \in Node |-> 0]
  /\ sampler = [n \in Node |-> "on"]
  /\ exporter = [n \in Node |-> "running"]
  /\ exportQueue = [n \in Node |-> <<>>]
  /\ tally = [n \in Node |-> [queued |-> 0, sent |-> 0, dropped |-> 0]]
  /\ inExecutor = [n \in Node |-> <<>>]
  /\ bounced = [n \in Node |-> <<>>]
  /\ seq = [n \in Node |-> 0]
  /\ reporter = [n \in Node |-> "running"]
  /\ reportQueue = [n \in Node |-> <<>>]
  /\ reportDropped = [n \in Node |-> 0]
  /\ written = [n \in Node |-> [seq |-> 0, requests |-> 0]]
  /\ finished = [n \in Node |-> FALSE]
  /\ channel = [n \in Node |-> <<>>]
  /\ collector = [n \in Node |-> "reading"]
  /\ latest = [n \in Node |-> <<>>]
  /\ consumed = [n \in Node |-> 0]
  /\ master = "on"
  /\ cluster = [total |-> 0, windows |-> 0]

-------------------------------------------------------------------------------
(* A node's StreamingExporter.                                                *)

Request(n) ==
  /\ exporter[n] = "running"
  /\ done[n] < MaxRequests[n]
  /\ done' = [done EXCEPT ![n] = @ + 1]
  /\ UNCHANGED <<mark, samples, sampler, exporter, exportQueue, tally, inExecutor, bounced,
                 reporterVars, channel, masterVars>>

\* Fault variant: a snapshot that does not fit is not counted.
QueueSnapshotSilently(n, final) ==
  LET s == [total |-> done[n], window |-> done[n] - mark[n], final |-> final]
      full == Len(exportQueue[n]) = ExportQueue
  IN  /\ mark' = [mark EXCEPT ![n] = done[n]]
      /\ exportQueue' = [exportQueue EXCEPT ![n] = IF full THEN @ ELSE Append(@, s)]
      /\ tally' = [tally EXCEPT ![n].queued = IF full THEN @ ELSE @ + 1]

\* A snapshot is built, which closes the window, and then queued or dropped.
QueueSnapshot(n, final) ==
  LET s == [total |-> done[n], window |-> done[n] - mark[n], final |-> final]
      full == Len(exportQueue[n]) = ExportQueue
  IN  /\ mark' = [mark EXCEPT ![n] = done[n]]
      /\ exportQueue' = [exportQueue EXCEPT ![n] = IF full THEN @ ELSE Append(@, s)]
      /\ tally' = IF full THEN [tally EXCEPT ![n].dropped = @ + 1] ELSE [tally EXCEPT ![n].queued = @ + 1]

TimerFires(n) ==
  /\ sampler[n] = "on"
  /\ samples[n] < MaxSamples[n]
  /\ sampler' = [sampler EXCEPT ![n] = "due"]
  /\ UNCHANGED <<done, mark, samples, exporter, exportQueue, tally, inExecutor, bounced,
                 reporterVars, channel, masterVars>>

\* The wait timed out: whether or not the stop event has been set meanwhile, one
\* more snapshot is taken before the loop looks at it again.
Sample(n) ==
  /\ sampler[n] = "due"
  /\ QueueSnapshot(n, FALSE)
  /\ samples' = [samples EXCEPT ![n] = @ + 1]
  /\ sampler' = [sampler EXCEPT ![n] = IF exporter[n] = "running" THEN "on" ELSE "off"]
  /\ UNCHANGED <<done, exporter, inExecutor, bounced, reporterVars, channel, masterVars>>

\* The load is over.  aclose(): the stop event is set, which ends a sampler
\* still waiting, and the final snapshot is queued.
BeginClose(n) ==
  /\ exporter[n] = "running"
  /\ exporter' = [exporter EXCEPT ![n] = "closing"]
  /\ sampler' = [sampler EXCEPT ![n] = IF @ = "on" THEN "off" ELSE @]
  /\ QueueSnapshot(n, TRUE)
  /\ UNCHANGED <<done, samples, inExecutor, bounced, reporterVars, channel, masterVars>>

\* Fault variant: the drain has no time limit.
EndCloseDrained(n) ==
  /\ exporter[n] = "closing"
  /\ exportQueue[n] = <<>> /\ inExecutor[n] = <<>>
  /\ exporter' = [exporter EXCEPT ![n] = "closed"]
  /\ sampler' = [sampler EXCEPT ![n] = "off"]
  /\ UNCHANGED <<done, mark, samples, exportQueue, tally, inExecutor, bounced, reporterVars,
                 channel, masterVars>>

\* aclose(): the queue has been joined, or two intervals and 5 s have passed.
\* Both tasks are cancelled, which takes a delivery back from the executor only
\* if no thread has picked it up.
EndClose(n) ==
  /\ exporter[n] = "closing"
  /\ exporter' = [exporter EXCEPT ![n] = "closed"]
  /\ sampler' = [sampler EXCEPT ![n] = "off"]
  /\ \/ UNCHANGED inExecutor
     \/ /\ inExecutor[n] # <<>> /\ bounced[n] = <<>>
        /\ inExecutor' = [inExecutor EXCEPT ![n] = <<>>]
  /\ UNCHANGED <<done, mark, samples, exportQueue, tally, bounced, reporterVars, channel,
                 masterVars>>

\* _send_loop takes a snapshot and starts its delivery in the executor.
Deliver(n) ==
  /\ exporter[n] # "closed"
  /\ exportQueue[n] # <<>>
  /\ inExecutor[n] = <<>>
  /\ inExecutor' = [inExecutor EXCEPT ![n] = <<Head(exportQueue[n])>>]
  /\ exportQueue' = [exportQueue EXCEPT ![n] = Tail(@)]
  /\ UNCHANGED <<done, mark, samples, sampler, exporter, tally, bounced, reporterVars, channel,
                 masterVars>>

\* The thread calls submit(), which numbers the snapshot and bounces it back
\* onto the loop.  It may do so long after the exporter was closed.
Submit(n) ==
  /\ inExecutor[n] # <<>>
  /\ bounced[n] = <<>>
  /\ LET s == Head(inExecutor[n]) IN
       bounced' = [bounced EXCEPT ![n] =
         <<[type |-> "progress", seq |-> seq[n] + 1, total |-> s.total, window |-> s.window,
            final |-> s.final]>>]
  /\ seq' = [seq EXCEPT ![n] = @ + 1]
  /\ UNCHANGED <<exporterVars, inExecutor, reporter, reportQueue, reportDropped, written, finished,
                 channel, masterVars>>

-------------------------------------------------------------------------------
(* A node's _ProgressReporter.                                                *)

\* Fault variant: the newest report is the one refused.
AfterEnqueueDropNewest(queue, report) ==
  IF Len(queue) = ReportQueue THEN queue ELSE Append(queue, report)

\* A full queue loses its oldest report to the newest.
AfterEnqueue(queue, report) ==
  Append(IF Len(queue) = ReportQueue THEN Tail(queue) ELSE queue, report)

\* _enqueue on the loop, and right after it the completion of the delivery.
Enqueue(n) ==
  /\ bounced[n] # <<>>
  /\ reportQueue' = [reportQueue EXCEPT ![n] = AfterEnqueue(@, Head(bounced[n]))]
  /\ reportDropped' = [reportDropped EXCEPT ![n] =
                         IF Len(reportQueue[n]) = ReportQueue THEN @ + 1 ELSE @]
  /\ bounced' = [bounced EXCEPT ![n] = <<>>]
  /\ inExecutor' = [inExecutor EXCEPT ![n] = <<>>]
  /\ tally' = [tally EXCEPT ![n].sent = IF exporter[n] = "closed" THEN @ ELSE @ + 1]
  /\ UNCHANGED <<done, mark, samples, sampler, exporter, exportQueue, seq, reporter, written, finished,
                 channel, masterVars>>

\* A write is lost when the master has closed its end.
Write(n, m) ==
  channel' = [channel EXCEPT ![n] = IF collector[n] = "reading" THEN Append(@, m) ELSE @]

ReporterSend(n) ==
  /\ reporter[n] = "running"
  /\ reportQueue[n] # <<>>
  /\ LET r == Head(reportQueue[n]) IN
       /\ Write(n, r)
       /\ written' = [written EXCEPT ![n] = [seq |-> r.seq, requests |-> @.requests + r.window]]
  /\ reportQueue' = [reportQueue EXCEPT ![n] = Tail(@)]
  /\ UNCHANGED <<exporterVars, inExecutor, bounced, seq, reporter, reportDropped, finished, masterVars>>

\* aclose() of the reporter once the exporter's has returned: its queue is
\* joined, or 5 s have passed; then its task is cancelled and awaited.
ReporterClose(n) ==
  /\ exporter[n] = "closed"
  /\ reporter[n] = "running"
  /\ reporter' = [reporter EXCEPT ![n] = IF reportQueue[n] = <<>> THEN "stopped" ELSE "cut"]
  /\ UNCHANGED <<exporterVars, inExecutor, bounced, seq, reportQueue, reportDropped, written, finished,
                 channel, masterVars>>

\* Fault variant: the result does not wait for the reporter to stop.
SendResultEarly(n) ==
  /\ exporter[n] = "closed"
  /\ ~finished[n]
  /\ finished' = [finished EXCEPT ![n] = TRUE]
  /\ Write(n, Result)
  /\ UNCHANGED <<exporterVars, inExecutor, bounced, seq, reporter, reportQueue, reportDropped, written,
                 masterVars>>

SendResult(n) ==
  /\ reporter[n] # "running"
  /\ ~finished[n]
  /\ finished' = [finished EXCEPT ![n] = TRUE]
  /\ Write(n, Result)
  /\ UNCHANGED <<exporterVars, inExecutor, bounced, seq, reporter, reportQueue, reportDropped, written,
                 masterVars>>

-------------------------------------------------------------------------------
(* The master: _collect_one, ProgressAggregator, _MasterExporter.             *)

\* record(): a report older than the one held is ignored.
Receive(n) ==
  /\ collector[n] = "reading"
  /\ channel[n] # <<>>
  /\ LET m == Head(channel[n]) IN
       \/ /\ m.type = "progress"
          /\ IF latest[n] # <<>> /\ m.seq < latest[n][1].seq
             THEN UNCHANGED latest
             ELSE latest' = [latest EXCEPT ![n] = <<m>>]
          /\ UNCHANGED collector
       \/ /\ m.type = "result"
          /\ collector' = [collector EXCEPT ![n] = "ended"]
          /\ UNCHANGED latest
  /\ channel' = [channel EXCEPT ![n] = Tail(@)]
  /\ UNCHANGED <<exporterVars, inExecutor, bounced, reporterVars, consumed, master, cluster>>

\* The connection is lost or the deadline passes.
GiveUp(n) ==
  /\ collector[n] = "reading"
  /\ collector' = [collector EXCEPT ![n] = "ended"]
  /\ channel' = [channel EXCEPT ![n] = <<>>]
  /\ UNCHANGED <<exporterVars, inExecutor, bounced, reporterVars, latest, consumed, master, cluster>>

Reporting == {n \in Node : latest[n] # <<>>}

\* Fault variant: the totals leave out the nodes that have gone quiet.
TotalOfCurrent(quiet) == SumFunctionOnSet([n \in Reporting |-> latest[n][1].total], Reporting \ quiet)

\* The sum of every node's latest total, whether the node is quiet or not.
Total(quiet) == SumFunctionOnSet([n \in Reporting |-> latest[n][1].total], Reporting)

\* The nodes whose window goes into an export: neither quiet nor counted before.
Fresh(quiet) == {n \in Reporting \ quiet : consumed[n] # latest[n][1].seq}

\* What an export adds to the windows exported so far.
Windows(from) == SumFunctionOnSet([n \in from |-> latest[n][1].window], from)

\* Fault variant: a window already exported is exported again.
BuildAgain(quiet) ==
  /\ cluster' = [total |-> Total(quiet), windows |-> cluster.windows + Windows(Reporting \ quiet)]
  /\ UNCHANGED consumed

\* build(): nothing is exported before the first report.  Any set of nodes may
\* have been quiet for more than three intervals, stale_workers().
Build(quiet) ==
  IF Reporting = {}
  THEN UNCHANGED <<consumed, cluster>>
  ELSE /\ cluster' = [total |-> Total(quiet), windows |-> cluster.windows + Windows(Fresh(quiet))]
       /\ consumed' = [n \in Node |-> IF n \in Fresh(quiet) THEN latest[n][1].seq ELSE consumed[n]]

ExportInterval ==
  /\ master = "on"
  /\ \E quiet \in SUBSET Reporting : Build(quiet)
  /\ UNCHANGED <<exporterVars, inExecutor, bounced, reporterVars, channel, collector, latest, master>>

\* aclose(), once every collector has ended: the final export.
ExportFinal ==
  /\ master = "on"
  /\ \A n \in Node : collector[n] # "reading"
  /\ master' = "off"
  /\ \E quiet \in SUBSET Reporting : Build(quiet)
  /\ UNCHANGED <<exporterVars, inExecutor, bounced, reporterVars, channel, collector, latest>>

-------------------------------------------------------------------------------
ExporterStep(n) == Request(n) \/ TimerFires(n) \/ Sample(n) \/ BeginClose(n) \/ EndClose(n) \/ Deliver(n)
ReporterStep(n) == Submit(n) \/ Enqueue(n) \/ ReporterSend(n) \/ ReporterClose(n) \/ SendResult(n)
CollectorStep(n) == Receive(n) \/ GiveUp(n)

Next ==
  \/ \E n \in Node : ExporterStep(n) \/ ReporterStep(n) \/ CollectorStep(n)
  \/ ExportInterval
  \/ ExportFinal

\* What the event loops and their timers guarantee.  Nothing is asked of the
\* executor's thread (Submit) or of the network (Receive): the waits that end
\* without them are EndClose, ReporterClose and GiveUp.
Fairness ==
  /\ \A n \in Node : WF_vars(BeginClose(n)) /\ WF_vars(EndClose(n)) /\ WF_vars(ReporterClose(n))
                     /\ WF_vars(SendResult(n)) /\ WF_vars(GiveUp(n))
  /\ WF_vars(ExportFinal)

Spec == Init /\ [][Next]_vars /\ Fairness

-------------------------------------------------------------------------------
(* Properties.                                                                *)

\* The windows exported over the whole run never add up to more than the total
\* exported with the last of them: no interval's traffic is counted twice,
\* whatever the clocks of the master and of the nodes do (build(), _consumed_seq).
NoWindowCountedTwice == cluster.windows <= cluster.total

\* "Counters must not go backwards": what the master exports as cluster total
\* never decreases, though nodes go quiet, are lost and report out of step.
TotalsNeverGoBackwards == [][cluster'.total >= cluster.total]_vars

\* Progress frames and the result share one stream: whatever a snapshot still
\* held in the executor does after the run, no frame follows the result, which
\* the master would not read (run_worker_node, its finally).
ResultIsLast ==
  \A n \in Node : \A i \in DOMAIN channel[n] : channel[n][i] = Result => i = Len(channel[n])

\* The report submitted last is the one a full queue keeps: it has been written,
\* or it is the last still queued (_enqueue drops the oldest).
NewestReportSurvives ==
  \A n \in Node : seq[n] > 0 /\ bounced[n] = <<>> /\ written[n].seq # seq[n] =>
    reportQueue[n] # <<>> /\ reportQueue[n][Len(reportQueue[n])].seq = seq[n]

\* A node whose counters show no loss lost nothing: if nothing was dropped or is
\* missing between queued and sent, and the reporter was not cut off, the windows
\* it wrote cover every request of its run by the time it sends its result.
LossIsCounted ==
  \A n \in Node :
    /\ finished[n]
    /\ tally[n].dropped = 0 /\ tally[n].queued = tally[n].sent
    /\ reportDropped[n] = 0 /\ reporter[n] = "stopped"
    => written[n].requests = done[n]

\* However long the executor's thread hangs in a delivery, each node sends its
\* result and the master exports its final snapshot (the bounded waits of both
\* aclose and the master's deadline).
RunIsReported == <>(master = "off" /\ \A n \in Node : finished[n])
===============================================================================
