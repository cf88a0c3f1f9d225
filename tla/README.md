# A TLA+ model of pywrkr

pywrkr is a load tester for HTTP and WebSocket targets: one asyncio process that
keeps a set of worker tasks busy, or a master process that splits a run over worker
processes on other machines. Its users act on two of its outputs without looking
further: the *exit code*, which gates a CI job, and the *numbers* that are reported
or streamed while the run goes on. The project below models the parts of the code
where concurrent tasks, processes, timers and failures decide what those outputs are.

Line numbers and quotations refer to `src/README.md` and to the Python files under
`src/src/pywrkr/`.

## 1. The system

### Components

| Component | Code | State it keeps | Operations | What makes it correct |
|---|---|---|---|---|
| Master and worker nodes | `distributed.py` | list of admitted connections, position of the distribution, one collector per node, deadline; on a node: position in the handshake, its share | accept, authenticate, send config, collect, charge, report; connect, authenticate, run, answer | a run that exits 0 ran its whole load; a counted result is reported; shares are disjoint; only peers with the same secret work together; the master ends |
| Live progress | `distributed.py` | the reporter's queue and counters; the master's latest report of each node, what it has exported | submit from a thread, enqueue, send, close; record, build, export | nothing counted twice, totals never fall, the result is the last frame, losses are visible |
| Streaming export | `streaming.py` | window marks, bounded queue, counters | sample, queue, deliver in a thread, final snapshot, bounded drain | a loss is counted, a hung collector stops nothing |
| Load runner | `workers.py`, `config.py` | request counter, stop and force events, per-task statistics | the worker loop, signals, wait with grace, cancel, merge, exit code | `-n` is a limit, a stop is obeyed and ends the run, dropped load is not success |
| Rate limiter | `traffic_profiles.py` | start and last reserved slot | `acquire` from many tasks | requests are spaced, waits are bounded |
| Traffic profiles | `traffic_profiles.py`, `distributed.py` | none | parse, load a CSV file, `rate_at`, send to a node | the rate is the one that was drawn, on one node and on many |
| User simulation | `workers.py` | active users, ramp-up position | launch, think, stop, reap | a stop reaches the ramp-up and the thinking users, nobody outlives the run |
| Scenario engine | `workers.py` | variable bindings, retry pace, error budget of an iteration | draw rows, claim, render, send, extract, abort, pace | each failure counted once, the request budget kept, no user starves the others |
| Data feeders | `feeders.py`, `distributed.py` | a cursor per data set | draw rows, shard rows, check capacity | unique rows are used once in the cluster, and there are enough of them |
| WebSocket load | `websockets.py` | open sockets of the fleet, backlog of a socket, counters | connect, send, receive, listen, drain, close, reconnect | the figures agree; round trips belong to their message; a stop ends the run |
| Autofind | `workers.py` | last good and first bad user count | ramp, bisect | the answer was tested and passed |
| Statistics | `config.py`, `workers.py` | reservoirs, capped dictionaries | record, merge, send, receive | counts are kept exactly, samples in proportion |
| Gates | `reporting.py`, `compare.py`, `ci.py`, `workers.py` | the files a run leaves | thresholds, baseline, exit codes, `compare`, `summary` | every reader of a run comes to the same verdict |
| Command line and library | `main.py`, `api.py`, `multi_url.py` | none beyond a call | validate, choose a mode, run, exit | the load asked for is the load that is run; the exit code tells the worst |
| Backends | `backends.py` | sessions, pool, cookies | request, close | isolation of virtual users |
| Templates, assertions | `templating.py`, `assertions.py` | named counters | substitute, extract, evaluate | missing variables are errors |
| Reports, importers, pytest plugin, deployment scripts | remaining files | none beyond a call | parse, format, write | covered by the repository's tests |

### How they interact

`main` turns a command line into one of seven modes, or refuses it. `run_benchmark`
and `run_user_simulation` create one event loop's worth of tasks that share a
`RequestCounter`, a `RateLimiter`, the cursors of the data sets, a stop event and a
force event, hand their statistics to a `StreamingExporter` that samples them once per
interval, wait in `_await_workers` and end in `_finalize_run`, which merges, prints,
gates and returns the exit code. A worker node runs the same functions, with the
exporter's snapshots going to a `_ProgressReporter` instead of a collector, and then
writes its result to the connection on which it received its config. The master reads
progress and result from that connection, one collector task per node, merges the
statistics once more and applies the same gates. Autofind runs simulations one after
the other, a URL file benchmarks. What a run leaves in its results file is read by later
runs (`--baseline`) and by `pywrkr compare` and `pywrkr summary`.

### The behaviours that are hard

- handshakes of several nodes overlap, each a chain of awaits, while the list they
  append to decides who takes part;
- nodes crash, refuse, hang, answer nonsense or are cut off at any point of the
  protocol, and a deadline shared by all collectors races the last results;
- a counter, a slot or a row is claimed at one await and used at a later one;
- a signal, a second signal, a grace period and a target that never answers;
- snapshots cross two bounded queues and a thread boundary, while the node closes;
- a socket has a sender, a reader, a peer and a close that race, and replies that
  come after their timeout;
- an iteration of a scenario can fail at six places that do not know of each other,
  and an aborted one may never await;
- four independent verdicts meet in one exit code, and are read again from a file.

`PROJECT.json` lists each of them at its line, with the property that covers it.

## 2. Modules

| Module | Models | Extends or instantiates |
|---|---|---|
| `ClusterRun` | what a distributed run promises: shares settled once, one verdict | |
| `MasterWorker` | `run_master`, `handle_worker`, `_authenticate_worker`, `_collect_one`, `run_worker_node` and the connections between them | instantiates `ClusterRun` |
| `LoadRun` | `worker`, `_await_workers`, `_finalize_run`, the signal handlers | |
| `ClusterLoad` | a cluster run in which one node's share is a `LoadRun` | extends `MasterWorker`, instantiates `LoadRun` |
| `ProgressPipeline` | `StreamingExporter` on the nodes, `_ProgressReporter`, `ProgressAggregator`, `_MasterExporter` | |
| `RateLimiter` | `RateLimiter.acquire` and its callers, on a clock | |
| `TrafficProfiles` | parsing, CSV loading and `rate_at` of the profiles; their way to a node | |
| `ShapedLoad` | the limiter's clock with the profiles its rate comes from | extends both |
| `Feeders` | strategies, cursor, shards, capacity check of the data sets | |
| `ScenarioRun` | `scenario_worker`, `user_worker`, `run_user_simulation`, `execute_ws_step`, on several nodes | extends `Feeders` |
| `WsLoad` | `run_websocket_benchmark` and its sockets | |
| `Statistics` | `WorkerStats`, its capped dictionaries and reservoirs, `merge_stats`, the wire | |
| `Gates` | thresholds and `--fail-on` rules, on live statistics and on a results file | extends `Statistics` |
| `ResultsRun` | a pipeline of runs: load, merge, gates, baseline files, `summary` and `compare` | extends `Gates` |
| `Autofind` | `run_autofind` | |
| `CommandLine` | `main`: validation, choice of the mode, runs, exit code; `api.run` | extends `Autofind` |
| `...MC` | instances for TLC | the module they are named after |
| `MasterWorkerProofs`, `ProgressPipelineProofs`, `ScenarioRunProofs`, `WsLoadProofs`, `CommandLineProofs`, `ResultsRunProofs` | theorems | the module they are named after |
| `PacedLoadProofs` | theorems about the load runner, the limiter and the profiles | extends `LoadRun`, `ShapedLoad` |
| `FoldTheorems` | lemmas: sums over finite sets, folds over sequences, least numbers | used by the proofs about nodes, sockets, users and merges |

All of pywrkr runs on one event loop per process, so a step of a model is the
code between two awaits, run as one. What other tasks do at an await is
what the other actions do between two steps. Definitions introduced by "Fault
variant" are not part of the model: each is a plausible mistake in the definition
that follows it, and shows that a property depends on that definition.

### MasterWorker

A connection is a pair of FIFO channels with an open flag for each end. TCP delivers
in order; a peer that crashes may lose what it had not yet delivered (`Crash`), and
the other side then sees the end of the stream.

- *Master.* `phase` follows `run_master`: accepting until enough nodes are admitted
  (`StopAccepting`) or the wait for them ends (`ReadyTimeout`, and `Abandon` once those
  that came are closed), distributing (`SendConfig` writes a config, `DrainReturns` ends
  the `await` that follows), collecting, and one of the ways to end. `handler[n]` is
  `handle_worker` for node *n*: its check of the room left takes place when the
  connection arrives (`HandleWorker`), before the awaits of the handshake. `ReceiveAuth`
  checks the answer and sends the master's proof, unless the node is of an older release
  and sent no nonce; when the proof is out (`ProofSent`), `Admit` appends to the list
  without checking again, as in the code.
- *Collection.* Each collector reads frames until a result, an error, a failure or
  the deadline (`Collect`, `CollectFails`), and closes the connection (`Settle`). A frame
  that is JSON but no object raises out of the collector (lines 1088 and 1120;
  `garbled`), and the `gather` ends the run with it (`Raise`).
- *Waits without a timer.* The `drain` of a config (line 1064) and `wait_closed` (1031,
  1127) return when the peer has read what it was sent, or is gone. A peer that stays
  connected and stops reading can hold them up (`HeldUp`); nothing is assumed of
  such a wait.
- *Nodes.* A node connects, answers a challenge, checks the master's proof, waits for
  its config, reports progress and sends its result, or gives up. `ForeignReply`
  is external: it stands for a node of another build that answers something else.
- *Data.* A secret is a model value, a proof is the secret it was computed with (the
  HMAC is taken to be unforgeable), the load is a share number. The three sources of
  the master's exit code (threshold, baseline, missing nodes) are chosen freely.

### LoadRun and ClusterLoad

`worker[w]` is the await at which a task is: not started, asleep in the limiter,
or with a request on the wire. `Answered` records the answer, checks the loop
conditions, claims the next request and starts it, in one step, because there is no
await in between. `Crash` is any exception that `_execute_request` does not catch.
`StopSeen`, `GraceExpires`, `GraceUnneeded`, `Cancelled` and `Teardown` are the
stretches of `_await_workers` and `_finalize_run`; `Report` merges and chooses the
exit code from the verdict of the thresholds, of the baseline gate and of the exports,
all free. The two load modes and the presence of a limiter are chosen in `Init`.

`ClusterLoad` puts a `LoadRun` inside one node of `MasterWorker`: it moves while that
node is running, and the node's result is sent once it has reported.

### ProgressPipeline

One record per node for each stage:
`exportQueue -> inExecutor -> bounced -> reportQueue -> channel`. `Deliver` takes a
snapshot from the export queue into the executor's thread, `Submit` is that thread's
`call_soon_threadsafe`, `Enqueue` the callback on the loop. `TimerFires` and `Sample`
are separate because the sampler's `wait_for` can time out in the iteration in which
`aclose` sets the stop event. A snapshot is its total, the requests in its window and
its final tag. The master's exporter runs on its own clock (`ExportInterval`) and may
find any set of nodes quiet.

### RateLimiter, TrafficProfiles and ShapedLoad

Time is counted in ticks and the target rate is given by the interval between
two requests at each elapsed tick (0: the profile calls for no traffic). A slot is
reserved in the step that computes it, and its request is recorded in `sends`. At a rate
of 0 `acquire` sleeps for `Pause` and returns (`PauseAtZero`), and its caller sends like
any other: those requests, which have no slot, are recorded in `strays`. A tick does not pass while a sleeper is due,
which idealises timers: the real ones fire a little late, which can bring two requests
closer than the interval by the difference of two delays.

`TrafficProfiles` computes rates exactly, as fractions: `Parsed` is
`parse_traffic_profile` with its defaults and refusals, `Loaded` reads the rows of a
CSV file (header, comments, relative multipliers, order of times), `RateAt` dispatches
to the profile, `Segment` is the binary search of a CSV profile, `CurrentRate` is the
limiter's. `ClusterRate` is the sum over the nodes of a master that sends the profile
and its share of `--rate` (`NodeLimiter`). `ShapedLoad` evaluates all of them at every
moment of the limiter's clock.

### Feeders and ScenarioRun

A row of a data set is its number. `Feeders` gives each node its contiguous slice, and
the row a cursor yields: `RowsAt` is a set, because `random` may yield any row.
`ScenarioRun` keeps one record per user: the await it is at (or that it holds the
loop), the step of its iteration, whether its variable is bound and whether
`iteration_error_counted` is set. While a user holds the loop of its node
(`holder[n]`), nothing else of that node happens; `Await` gives the loop back.
`Draw`, `Step`, `Render`, `Answered`, `WsAnswered`, `Yielded` and `Paced` are the
blocks of `scenario_worker`, `PlainHead` is that of `user_worker`. `Launch` and
`RampWakes` are the ramp-up, `CancelRun` and `Reaped` what happens when the caller
cancels. A configuration (`Configs`) fixes steps, data sets, load and options. The
history variables `handed`, `lost`, `unsent` and `aborted` only serve the properties, as
do a user's `failures`, `sockets` and `first`: how many of its requests failed, how many of
its sockets broke, and whether the first thing that failed was a request.

### WsLoad

`slot[s]` is where `_socket_worker` is: waiting for its start or for a reconnect,
connecting, sending, waiting for a reply, listening, closing, joining its reader.
`owed`, `inbox` and `hungUp` are the peer's side of the connection (external): it
answers in order and at any time, pushes frames, closes or breaks off. A message is
its number, so that a round trip that is measured with another message's reply is
seen (`mistimed`, with the number of replies outstanding in `lag`). `tally` is
`WsStats`. `Drain`, `Reply` and `ReplyTimeout` are the resynchronisation of
`_send_loop`, `Read` is `_receive_loop`, and `ReadRaises` an exception out of a read.
`CloseSocket` is `_close_socket`: nothing to do; the peer's close frame comes, or does not in
time; the reader has read it meanwhile, and its code is recorded again; or the
reader is the one that waits for it, and nobody records its code. Three counters of `tally`
are no figures of the program and say where its figures are off: ends recorded `twice`,
`never`, and counted once more as a drop (`redropped`).

### Statistics, Gates and ResultsRun

A sample carries its worker and its number, so that it can be followed through merges.
A capped dictionary is a sequence of name and count with a last entry for the rest.
`Merged` is `merge_stats`, with `merge_reservoirs`'s choice of samples left open:
every subset of the right size (`Pools`: one draw of each source). `Received` is what is left of a node's statistics after
the wire. `Measured` evaluates a threshold on statistics, `MeasuredLater` on the
results document with its rounding; numbers are fractions. `ResultsRun` runs a plan of
one to three runs: `Record` adds one event to a worker, `EndNode` merges a node,
`Gather` merges at the master, `Judge` writes `--save-baseline`, reads `--baseline` and
gives the exit code, `Review` is `pywrkr summary` and `pywrkr compare`.

### Autofind and CommandLine

A command line is a function from the options given to classes of values
(`on`, `bad`, `http`, ...). `UrlRefused`, `LoadRefused` and the like, `ModeConflict`, `WebsocketConflict` and
`HttpOnly` are the checks in their order, `Chosen` is `_determine_and_run_mode`. The
runs of the mode then end with a code that its gates give, `Higher` combines those of a
URL file, and the library call (`api.run`) ends with a result instead. In autofind mode
the search of `Autofind` takes place, against a target that is steady with some limit
or one that answers as it likes. A search that reaches the
command has passed the checks of `--max-users` and `--step-multiplier` (`Sought`).

## 3. What is checked

| Run | Instance | Result |
|---|---|---|
| `cluster` | 3 nodes for 2 places, one of another build, no secret, at most 1 progress frame per node | passes: types, whole load on 0, a counted result is reported unless a node's message is no object, disjoint shares, the master ends unless held up, implements `ClusterRun` |
| `handshake` | 4 nodes for 1 place, secret on the master: one node of this release, one of an older one without HTTP/2, one with another secret, one whose nonce is malformed; partial runs accepted | passes: mutual authentication, late nodes take no part |
| `progress` | 2 nodes with one request each, one of which takes an interval snapshot; both queues of length 1 | passes: windows counted once, totals never fall, newest report survives, result last, losses counted, the run is reported |
| `loadrun` | 3 tasks, 2 requests; both modes, with and without limiter; up to 2 signals | passes: `-n` is a limit, dropped load is reported, the report is final, nothing is sent after a stop, a stop ends the run, and so does the load |
| `ratelimiter` | 3 callers, 7 ticks, a step profile of intervals 1, 3, 2, stop for three ticks, 1, and a pause of two ticks; beside it 52 CSV files and 14 other specifications, on one node and on two | passes: spacing, bounded wait, the rate is the one drawn |
| `scenario` | 2 or 3 users on one or two nodes, 16 configurations | passes: rows spent once, the charges of an iteration add up, one iteration per turn, the shortfall is explained, capacity is enough, nobody is left behind, a stop ends the run |
| `websocket` | 1 or 2 sockets, 7 configurations, up to 4 messages and 1 pushed frame | passes: the figures agree, round trips are of their message, a stop ends the run |
| `command` | all lines of up to 3 options beside an HTTP target, of up to 2 beside a WebSocket target or none, the combinations of gates; 264 capacity searches | passes: the load is honoured, the exit code of every combination, capacity is found, every call ends |
| `results` | 2 or 3 workers on one, two or three nodes, up to 6 requests, reservoirs of 4, thresholds on the run and on its steps, room for 2 kinds of error and 1 step | passes: nothing is lost, the sample is fair, gates agree where the file has what they read |
| `crashed_share` | 2 nodes, one of which is looked at from the inside: 2 tasks, 2 requests | violated: finding 1 |
| `step_error_rate` | 1 request of one step | violated: finding 2 |
| `absolute_profile` | 2 nodes | violated: finding 3 |

### Why the bounds are enough to be interesting

- *cluster*: more nodes than places makes admission and rejection race; two places
  make distribution and collection partial; a node of another build makes answers
  unusable. The progress bound only limits how often a collector's loop turns.
- *handshake*: one place and four handshakes, so that some are in flight when
  the listener closes, one of them already past every check.
- *progress*: queues of length 1 are full at once, so that dropping the oldest and
  dropping the newest both happen; one interval snapshot and one final one are
  the shortest run in which a report supersedes another. The second node adds every
  order of reports, silence and loss at the master.
- *loadrun*: more tasks than requests, so the counter is contended and runs out while
  requests are in flight. `MaxRequests` bounds the requests recorded before the
  duration elapses in duration mode only. A third signal does what the second did.
- *ratelimiter*: each change of interval (longer, shorter, none, back) occurs while
  callers sleep on slots computed under another one. The stop is longer than a pause, so
  that one caller pauses twice, and a pause outlasts the stop. The CSV files have one to seven
  points, with repeated times at their start, middle and end, out of order, with each
  kind of header and with broken rows.
- *scenario*: each configuration is the smallest that brings two features together:
  extraction with a step that needs it, in either policy; a WebSocket step among HTTP
  steps; three data sets of different strategies of which the middle one runs dry first;
  two nodes with an odd number of rows; two nodes whose slices are just enough for their
  shares of `-n`; `-n` that is no multiple of the steps; with and
  without limiter, think time and ramp-up. Two users are enough for one to hold the
  loop while the other waits. The load is bounded by the data, `-n`, or the fact that a
  state returns: nothing counts in duration mode.
- *websocket*: four messages allow two timeouts, a late reply and a reply to the
  resynchronised socket; two attempts are a reconnect. `reads = FALSE` is a peer that
  has stopped reading: there a write may hang, and the liveness property is not claimed.
- *command*: conflicts involve at most three options beside the target. Options that
  the checks and the modes treat like one that is listed are left out of the instance.
  The searches have limits at the boundaries of the ramp and of the bisection.
- *results*: dictionaries that are full after two entries, in workers, in nodes and in
  the master; reservoirs of four samples, in workers, nodes and master, for six requests, so that
  what rounding may take is less than what a busy one of three sources is due, which then cannot
  vanish from the sample; two nodes with unequal numbers of requests make
  shares that have to be rounded, and so do three workers of one node and three nodes of
  one worker, where the rounded shares need no longer add up to the reservoir.

All runs switch deadlock checking off, since every modelled run comes to an end.

### Fairness

Safety is checked and proved without fairness. The liveness properties assume:

- `MasterWorker`: weak fairness of the master's own steps, which are timers
  (`asyncio.wait_for`, the deadline) and tasks that are ready. A collector step needs
  a frame or the deadline, and the deadline is a timer. The steps behind an untimed wait
  (`DrainReturns`, `Abandon`, `Raise`, `Finish`) are fair only while nothing holds it up:
  with `HeldUp` they may never be taken. Nodes may do nothing at all. The model
  is on the safe side for `wait_closed` after a handshake, where what is left to flush
  is a few bytes that the kernel takes without the peer.
- `ProgressPipeline`: weak fairness of the closing steps of the node and of the
  master's deadline; none for the executor's thread, the network or the sampler, so
  that a hung delivery is among the behaviours.
- `LoadRun`: weak fairness of starting a created task, of delivering a requested
  cancellation, of the runner's steps and of the duration's timer; none for answers
  and for the limiter. `RunEnds` adds, as its premise, that requests are answered or
  time out and that the limiter lets them pass; `StopEndsTheRun` does without.
- `ScenarioRun`: strong fairness of each user's own steps and of each runner. A user
  that is ready is not ready all the time, since another one may hold the loop;
  asyncio runs its ready callbacks in the order in which they became ready, so one that
  is ready again and again gets its turn. Weak fairness of the duration's timer, none
  for answers and the limiter.
- `WsLoad`: weak fairness of what each slot does, all of whose waits but a write are
  bounded by a timeout, and of the report; none for the peer.
- `CommandLine`: weak fairness of the next step, the program being sequential there.

## 4. What is proved

TLAPS checks the theorems below for every value of the constants; `PROJECT.json` lists
them. They assume only what the modules state about their constants, which TLC
evaluates on every run:

| Assumption | What it says, and why the code justifies it |
|---|---|
| `MasterWorkerAssumption`, `LoadAssumption`, `LimiterAssumption` | at least one node, worker and request; intervals and pauses are whole ticks |
| `ShapedAssumption` | every specification has the form that `parse_traffic_profile` takes apart (`SpecKind`): whole numbers, or refused; a CSV file is any sequence of rows, good or broken |
| `ProgressAssumption` | finitely many nodes, queues with room for one entry at least |
| `ScenarioAssumption` | finitely many users; every configuration is one that the checks leave (`ConfigKind`): a scenario has a step (`config.py:1035`), and `-n` is refused for user simulations (`main.py:1362`) |
| `ResultsAssumption`, `StatisticsAssumption` | a worker has one place in the layout of a run; what a worker records gives any keys but `[other errors]`, which only the capped dictionary makes, and an answer that is no error gives none (`EventKind`, from the keys that `workers.py` and `websockets.py` make); thresholds are those that `parse_threshold` accepts; reservoirs have room for one sample at least |
| `WsAssumption`, `CommandAssumption`, `AutofindAssumption` | options of the right kinds, finitely many sockets, one URL at least |

**MasterWorkerProofs.** `TypeCorrect`; `DisjointShares`, `LateNodesAlwaysStandAside`,
`ZeroMeansWholeLoad`, `CountedIsAlwaysReported`, `HandshakeIsMutual`.
`SharesAreDisjoint` is not inductive: it needs that the list of admitted nodes has no
repetition, that it is complete once the phase has moved on, and that a config in
flight or a share held by node *n* carries the index of *n* in the list (`ShareInv`).
On top of it, `ResultInv` says that a result in flight or counted comes from a node
that ran its share, that only selected nodes have collectors, and that exit code 0
needs all of them counted; exit code 0 then means a counted node for every share by
looking up the list at the share's index. `LateNodesAlwaysStandAside` reads the same
invariant the other way: what a node was sent, runs or is read for has the index of its
first and only place in the list, also while later handshakes append to it.
`CountedIsAlwaysReported` adds why a run ends with a traceback: before anything was
counted, or with a collector that is `garbled`. `HandshakeIsMutual` follows each
secret-bearing message through both channels (`SecretsAgree`).
`ImplementsSafetyOfClusterRun` is the refinement without its liveness: initial states
map to initial states, and each step of the protocol settles one share, gives the
verdict that `ClusterRun` allows in that state, or is invisible to it
(`OthersStutter`). The difficult steps are admissions during the collection, which
change the list that the mapping reads, but not the part of it that is
selected. None of these theorems assumes anything of what nodes send.

**PacedLoadProofs.** Of the load runner: `TypeCorrect`; `CountIsALimit` from the invariant that recorded
requests, claimed requests and the counter together never exceed `-n` (`Books`; the
cardinality of the set of claimed requests changes by at most one in each step);
`FinalReport` and `BreachExitsTwo` from `Settled` (the teardown is reached only when
every task has ended, and no ended task moves); `WholeLoad` from `Undisturbed`
(without a signal a task of an `-n` run only ends with the counter at zero, or by a
crash), and `StopIsObeyed` as an action property.

Of the limiter: `LimiterTypeCorrect`; `AlwaysSpaced` from `SlotInv` (the slots
still slept for are pairwise apart, none is overdue, all are after the last one used,
and the last one reserved is the latest) and, for the requests without a slot, from what
a caller's pause has left behind it. `WaitIsBounded` from `RoomInv`: the last
reserved slot is at most one longest interval per sleeper from now, and, for each
sleeper, at most one longest interval per later sleeper from its slot; the second
half is what keeps the first true when the earliest sleeper wakes.
`RateIsAlwaysAsDrawn` is about the computation: a file that is loaded has its points in
the order of their times, the binary search of `rate_at` ends at the two points around
the moment (by the width of its window), the rate is on the line between them, and
what is a part of `--rate` is linear in it, so that *N* nodes add up to the rate of one.

**ProgressPipelineProofs.** Types and the five safety properties of the `progress` run, for
any number of nodes, samples and requests and any lengths of the queues.
`ResultComesLast`, `NewestReportIsKept` and `LossIsAlwaysCounted` follow a report through
its stages: `NewestInv` says where the newest one is, `Accounted` what
`queued - sent` counts, and `ChainInv` that, as long as no counter shows a loss, each
window starts where the one before it ended, from what is written to the mark.
`WindowsAreCountedOnce` cannot use that chain, since reports may be lost: `InOrder` says
that what the master will read has rising numbers and windows that do not overlap, and
`ExportInv` that the exported windows are a sum over the nodes of parts which fit, with
the window that may come next, into each node's total. `TotalsAreMonotonic` compares
two such sums.

**ScenarioRunProofs.** Every step of a user is first reduced to what it does to its own
record and to its node (`Stepped`), and the invariants are then proved on that
effect, not on the actions. `ErrorsAreChargedExactly`, `TurnsAreShort` and `TypeCorrect` from
`LoopInv`: who holds the loop of a node, what each place of an iteration says about its
charges (`Flow`), what a turn has begun. `EverybodyEnds` from `StopInv`: the number of
active users is the number of users that are busy, and a user is only cancelled on a
node that has been stopped. `BudgetIsAccountedFor` from `ClaimInv`: on each node, what is left, made
and claimed by users on the wire is its share of `-n`. `RowsAreHandedOutOnce`
from `DataInv`: the slices of two nodes are disjoint for every number of nodes and
rows, a row that was handed out lies behind the cursor of its node, and a user wastes
rows only in its last draw. `RowsLastForTheBudget` from `CapacityInv`: a row pays for a whole
iteration, so that the cursor times the steps and what is left of `-n` stay within the
share and the steps its users still have before them, a sum over the users of the node
(`ToDo`). The property is stated for one node, and for several whose slices cover their
shares; without that premise it is false (section 5, Feeders).

**WsLoadProofs.** `FiguresAlwaysAgree` and `LateRepliesAreNeverTimed` from `WsInv`, for any
number of sockets, messages and reconnects. The figures are compared with the
sockets that explain a difference: a socket that has left neither a code nor an
error yet (`Bare`), a writer and a reader that may each still count the end of one connection
(`Writes`, `Reads`), the frames drained so far (a sum over the sockets), and with the
counters of ends recorded twice or never. Each action is
proved to keep the differences of its own socket, and one lemma lifts that to the
fleet. `Replies` bounds the answers on the way to a socket by two, and says which of
them may be older than the message just sent.

**CommandLineProofs.** `LoadIsAlwaysHonoured` shows by the checks' order that the guards of
`_determine_and_run_mode` exclude one another on what is accepted. `ExitAlwaysTells` from
`CallInv`: the code so far is the one that what failed in each run so far calls for
(`Tells`), which `max` keeps.
`CapacityIsAlwaysFound` from `SearchInv`: the ramp stands above what passed and below nothing
that failed, the bisection between the two. A first attempt at the latter failed for
a search that starts above its maximum; `main` refuses such a line, and so does
the model now (`Sought`).

**ResultsRunProofs.** The three properties of the `results` run, for any layout of nodes and workers,
any events, capacities and caps, and every choice of the reservoirs.

`NothingLost` from `ToldInv`. `Tells(s, D)` says that the statistics *s* tell what happened in
*D*: counters are cardinalities, the entries of the error dictionary add up to the keys given,
a name of its own counts at most the times it was given and, until the
dictionary is full, exactly those, and the entries of the steps hold the samples of *D* and of
their own step. It holds of a worker and what happened to it (`AnswerTells`, `NoAnswerTells`), is kept by
a merge of any number of statistics when what happened to the parts is disjoint (`PlusTells`,
`SumTells`, `MergeTells`), and by the wire. `ToldInv` then says it of each worker and node during the
load, and of the total afterwards. That the same worker is never merged twice is
the assumption on layouts.

`SampleStaysFair` from `ShareInv`, which adds that no two events have the same sample and that each
reservoir on the way is as large as it should be, less its slack (`FairInv`). The work is in the
arithmetic of `merge_reservoirs`: `ShareIsNear` (`round` is off by half a sample at most),
`TwoShares` (two shares of an even capacity add up to it, because ties go to even; the default is even),
`SharesAddUp` (more of them need not, and can be short by half a sample each), `PoolSize`
and `LeftSize` (what the random choices leave of a source), `SharesAreKept`. A first statement of
the property allowed each node one sample either way for all layouts; the proof failed for three sources, TLC found
the counterexample with three workers of one node, and the property now says what rounding may take (`Slack`).

`GatesAlwaysAgree` from `GateInv`: files are of earlier runs or of this one, the code is that of the gates
with the files as they are, and what a reader finds is a function of the same state. What the file
holds of a threshold (`InFile`) is then looked up path by path, for the run (`FiguresOfBlock`,
`PathsOfRun`) and for a step (`FiguresOfStep`), where the two paths may part and the property says
how. That `pywrkr summary` agrees with the run although it reads rounded numbers is `SideIsKept`: rounding half
to even moves a number by half a unit at most (`HalfEvenIsNear`), so a bound that is further
away keeps its side. The metrics have to be numbers for this, percentiles
among them: the nearest rank exists (`PercentileIsValue`, a counting argument) and lies between the extremes.

**FoldTheorems.** A sum over a finite set (the fold of the community modules, a
recursive function) is independent of its order, has a type, takes one element
out, adds, is monotonic and is bounded by its terms; a fold over a sequence keeps
what each of its steps keeps (`FoldClaim`). The library's induction theorems need an operator as a
parameter, which no installed prover instantiates; the inductions here are arguments
about a smallest subset, or a least number, that would be a counterexample, and
the claim about a fold is a constant of the module, which is instantiated with it.

**Only model-checked.** Every invariant and every action property of the runs is proved; what is left needs
fairness or ENABLED, which the prover does not know: `MasterEndsUnlessHeldUp`,
`RunIsReported`, `StopEndsTheRun` (of three modules), `RunEnds` and `EveryCallEnds`. The models themselves stand on
their correspondence with the code, which no theorem can show.

`LoadRun.BreachIsTwo` and the type invariants of `LoadRun`, `RateLimiter` (`LimiterTypeOK`),
`ProgressPipeline` and `ScenarioRun` are proved and in no run.

## 5. Findings

Shown by a run:

1. `crashed_share`: a node drops the exit code of its benchmark
   (`distributed.py:1485`), so that a cluster run in which a worker task crashed, and
   requests of `-n` were never made, exits 0.
2. `step_error_rate`: the error rate of a step divides by samples plus errors, and a
   failed request is both; a step that only fails has an error rate of 50 %, and passes
   a threshold above that.
3. `absolute_profile`: the levels of a step or CSV profile are absolute, and no one
   divides them among the nodes: a cluster of *N* drives *N* times the load.

Stated exactly by a property that passes: the code does something else than a comment,
a docstring or the documentation says, and the property says where the two part and that they
part nowhere else.

4. `CountedIsReported`: "One node's bad payload must not take the cluster's results with it"
   (`distributed.py:1101`), and a message that is JSON but no object does: `msg.get` raises outside the
   inner `try` (1088, and 1120 after progress), no `except` of `_collect_one` catches that, and the
   `gather` ends the master with a traceback after other results were counted.
5. `MasterEndsUnlessHeldUp`: "the timeout is an overall budget" (`distributed.py:1068`), but
   the `drain` of a config (1064) and `wait_closed` (1031, 1127) have no timer. A node that stays connected
   and stops reading, with more written to it than the buffers on the way hold, keeps the master for good.
6. `ChargesAddUp`: an iteration "contributes at most one error" (`workers.py:982`,
   README 639). What follows from a failed request is indeed free; but a second failed
   request, a failed request after a failed extraction that did not end the iteration, and
   the failed step of a broken WebSocket are charged besides
   (`_execute_request`, `_account_message` and `_record_handshake_failure` do not know of
   `iteration_error_counted`).
7. `ExitTellsTheWorst`: "When both a threshold and a regression fire, 2 wins" (README 734), and
   for a URL file of which one URL breaches and another regresses `max` (`main.py:1801`) gives 3.
8. `GatesAgree`: the gate of a run and the one on its file "are required to agree"
   (`compare.py:148`), so that they "can never disagree about what p95 means" (`ci.py:10`). The block of a step has neither p75 nor
   p90; a step with nothing but errors has none at all; and its rate counts samples, where the run
   adds the errors (`reporting.py:393`, 585). A threshold on one of these fails, or passes, in one of
   the two only. With a baseline that cannot be read, `pywrkr summary` ends with 1
   (`main.py:798`) although a threshold is breached, where the run ends with 2 (`workers.py:1527`);
   and it has no `--strict-config`.
9. `Spaced`: a zero rate does not "actually suppress traffic" (`traffic_profiles.py:508`):
   `acquire` returns after the pause and the worker sends, each about ten requests per second.
10. `FiguresAgree`: "Exactly one of the two coroutines" records the code of a close
   (`config.py:423`). On a socket with a reader, `_close_socket` records it once more if the reader
   read the peer's close between `shutdown.set()` and the end of `close()` (`websockets.py:208`, 248);
   and nobody does if the reader is woken by a frame and then waits for the close itself.
   A connection closed by the peer while messages are sent without waiting for replies is counted
   as two drops (211, 421). An exception out of a reader skips `fleet.closed()` (355 to 358), and
   the socket stays in the figure of those open.

Met while modelling; the model does what the code does:

- *Distributed.* A worker exits 0 once its result is written, though the master may never
  read it (README line 1798). A node that is reset between its admission and its config ends
  the run with a traceback, also with `--allow-partial` (`distributed.py:1064`). The
  wire drops the `assertions` of a step (`_serialize_scenario_step`): on a node only
  its status and its body text are checked.
- *Streaming.* An interval snapshot can follow the final one (`streaming.py:207`).
- *Runner.* A second signal during the grace period has no effect, since `force_event`
  is read when the grace begins (`workers.py:1418`). The duration is not looked at again
  after the wait for a slot: `-c 100 --rate 1 -d 10` lasts about 100 s. A
  `run_benchmark` that its caller cancels leaves its tasks to notice the stop event.
  `run_user_simulation` logs a default of 60 s when no duration is given, and its users
  then run without end.
- *Scenarios.* The send text of a WebSocket step is rendered outside the `try`: an
  unbound variable ends the user. A template error is not blamed on its step.
- *Feeders.* The capacity check counts over the whole cluster: `-n 6` over two nodes
  with two steps and three rows passes it, and the second node runs short of a row.
- *WebSocket.* While several replies are owed, one drained frame ends the
  resynchronisation (`websockets.py:438`), and the next round trip is taken from an
  older message; `RttIsOfItsMessage` holds up to that.
- *Statistics.* The shares of three sources or more are rounded one by one
  (`config.py:263`), and need not add up to the capacity: a merged reservoir can be short by half a
  sample for each source although more were at hand. What is over the capacity is cut, what is
  short is not filled up.
- *Gates.* A baseline file is written before it is read, so that
  `--save-baseline` and `--baseline` with the same file compare the run with itself.
  Averaging several baselines keeps nested metrics of the first file only. A rule on a metric
  that is missing does not fire.
- *Command line.* `Result.exit_code` (`api.py:219`) knows thresholds only, where the command has
  other reasons to fail. Autofind ignores `--ramp-up`, scenario, baseline and HTTP/2 options
  (`main.py:1815`), which are not refused either and not among the options of `LoadShape`, and
  starts with a traceback when `--start-users` is below 1. A signal stops the current
  run of a URL file only.

## 6. Not modelled

Left out for good:

- *HTTP backends*: adapters over aiohttp and httpx; a request is modelled by its
  outcomes.
- *Templates, extraction, assertions*: string functions over one answer. What follows
  from an unbound variable, a failed extraction or a failed assertion is modelled.
- *Importers* (HAR, OpenAPI), *pytest plugin*, *deployment scripts*: one-shot
  translations and glue without state.
- *Rendering and file formats*: console, HTML, CSV and Markdown, Prometheus and OTLP.
- `sine` and `business-hours` profiles, which are trigonometric.
- The wire encoding and cryptography.
- Parsing of scenario files, data files, URL files, option values: present as good or
  bad.

What a further step would model: the timeline and byte counters of `WorkerStats`, the
conditions of a scenario's steps beyond one variable, and the HTTP backends' pools, should they
get a protocol of their own.
