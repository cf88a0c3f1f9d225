----------------------------- MODULE ScenarioRun -----------------------------
(***************************************************************************)
(* Virtual users, scenario_worker and user_worker of workers.py, under       *)
(* run_user_simulation or run_benchmark, on one node or on several.          *)
(*                                                                           *)
(* A node is one event loop.  A user that runs holds the loop of its node    *)
(* until it awaits something: its steps are the blocks of code between two   *)
(* decisions, and nothing else of that node happens in between.              *)
(***************************************************************************)
EXTENDS Integers, FiniteSets, Sequences, Feeders

CONSTANTS
  User,          \* virtual users of all nodes
  NodeOf,        \* the node each belongs to, counted from 0
  Nodes,         \* how many nodes there are
  Configs,       \* the runs that are looked at: see ConfigKind
  None           \* nobody

\* ws: a WebSocket step; extract: it binds the variable of the scenario; uses: its
\* path, headers or body name that variable; sends: its send text does.
StepKind == [ws : BOOLEAN, extract : BOOLEAN, uses : BOOLEAN, sends : BOOLEAN]

DataSet == [strategy : Strategy, rows : Nat \ {0}]

\* simulation: run_user_simulation, else run_benchmark, with users on each of its
\* nodes; scripted: with a scenario, of these steps, at least one; load: -n, -d, or
\* neither; ramp: there is a delay between two launches; think: think time above
\* zero; abort, keep: on_extract_failure and on_template_error; data: the data sets.
ConfigKind(c) ==
  /\ c.simulation \in BOOLEAN /\ c.scripted \in BOOLEAN
  /\ c.load \in {"count", "timed", "unset"} /\ c.requests \in Nat
  /\ c.ramp \in BOOLEAN /\ c.rate \in BOOLEAN /\ c.think \in BOOLEAN
  /\ c.abort \in BOOLEAN /\ c.keep \in BOOLEAN
  /\ c.nodes \in 1..Nodes /\ c.users \subseteq User
  /\ {NodeOf[u] : u \in c.users} = 0..(c.nodes - 1)
  /\ c.steps \in Seq(StepKind) /\ (c.scripted => c.steps # <<>>)
  /\ c.data \in Seq(DataSet)
  /\ c.load = "count" => c.scripted /\ ~c.simulation
  /\ c.ramp => c.simulation

ASSUME ScenarioAssumption ==
  /\ IsFiniteSet(User) /\ Nodes \in Nat \ {0}
  /\ NodeOf \in [User -> 0..(Nodes - 1)]
  /\ \A c \in Configs : ConfigKind(c)
  /\ None \notin User

AllNodes == 0..(Nodes - 1)

VARIABLES
  config,        \* the run, one of Configs
  user,          \* each virtual user: where it is, the step of its iteration, whether
                 \* iteration_error_counted and the variable is bound, and what the
                 \* iteration added to stats.errors; for the properties, how many of its
                 \* HTTP requests failed, how many of its sockets broke, and what failed
                 \* first, sockets aside: a "request", or the "flow" by other means
  asked,         \* users whose cancellation has been asked for
  holder,        \* for each node, the user that runs, or None
  turn,          \* iterations the holder began since it got the loop
  over,          \* the duration has elapsed, on every node alike
  stop,          \* stop_event of each node
  runner,        \* the coroutine that launches the users: "launching", "asleep",
                 \* "waiting", "grace", "cancelling", "reported", "reaping", "raised"
  active,        \* ActiveUsers.count
  remaining,     \* RequestCounter.remaining
  requests,      \* total_requests of a -n run
  unsent,        \* claimed requests of a -n run that are recorded as errors only
  cursor,        \* FeederCursor._index of each data set
  dry,           \* a data set of the node has run out
  lost,          \* rows drawn for an iteration that never began
  handed,        \* how often each row of a consuming data set was handed out
  aborted,       \* an iteration of the node was aborted
  interrupted    \* a signal, or the caller, ended the run of the node

nodeVars == <<stop, runner>>
loadVars == <<over, remaining, requests, unsent>>
dataVars == <<cursor, dry, lost, handed>>
vars == <<config, user, asked, holder, turn, active, nodeVars, loadVars, dataVars, aborted, interrupted>>

\* "created": its task has not run yet; "iterate", "step", "render": it holds the
\* loop; "limited", "sending", "open", "thinking", "yielding", "pacing": it awaits.
Holding == {"iterate", "step", "render"}
Awaiting == {"limited", "sending", "open", "thinking", "yielding", "pacing"}
Ended == {"gone", "cancelled", "crashed"}

Datasets == DOMAIN config.data
Mine(n) == {u \in config.users : NodeOf[u] = n}
Living(n) == {u \in Mine(n) : user[u].pc \notin Ended \cup {"unborn"}}
Counted == config.load = "count"
TakesTurns(n) == holder[n] = None

Newborn(pc) == [pc |-> pc, step |-> 0, charged |-> FALSE, bound |-> FALSE, errors |-> 0,
                failures |-> 0, sockets |-> 0, first |-> "nothing"]

\* Without a ramp-up delay all tasks are created before any of them runs.
Init ==
  /\ config \in Configs
  /\ user = [u \in User |-> Newborn(IF u \in config.users /\ ~config.ramp THEN "created" ELSE "unborn")]
  /\ asked = {}
  /\ holder = [n \in AllNodes |-> None] /\ turn = [n \in AllNodes |-> 0]
  /\ over = FALSE /\ stop = [n \in AllNodes |-> FALSE]
  /\ runner = [n \in AllNodes |-> IF config.ramp THEN "launching" ELSE "waiting"]
  /\ active = [n \in AllNodes |-> 0]
  /\ remaining = [n \in AllNodes |->
       IF Counted /\ n < config.nodes THEN ShareOf(config.requests, n, config.nodes) ELSE 0]
  /\ requests = [n \in AllNodes |-> 0] /\ unsent = [n \in AllNodes |-> 0]
  /\ cursor = [n \in AllNodes |-> [d \in Datasets |-> 0]]
  /\ dry = [n \in AllNodes |-> FALSE] /\ lost = [n \in AllNodes |-> 0]
  /\ aborted = [n \in AllNodes |-> FALSE] /\ interrupted = [n \in AllNodes |-> FALSE]
  /\ handed = [d \in Datasets |-> [r \in 1..config.data[d].rows |-> 0]]

-------------------------------------------------------------------------------
(* Taking and leaving the loop.                                               *)

\* What no step of a user touches.
NotMine == UNCHANGED <<config, asked, nodeVars, interrupted>>

\* The user goes on at pc, and keeps the loop.
RunOn(u, pc) ==
  /\ user' = [user EXCEPT ![u].pc = pc]
  /\ UNCHANGED holder

\* It awaits something, and others get their turn.
Await(u, changed, pc) ==
  /\ user' = [user EXCEPT ![u] = [changed EXCEPT !.pc = pc]]
  /\ holder' = [holder EXCEPT ![NodeOf[u]] = None]

\* The finally block.  What the iteration did is forgotten here.
End(u, pc) ==
  /\ user' = [user EXCEPT ![u] = Newborn(pc)]
  /\ holder' = [holder EXCEPT ![NodeOf[u]] = None]
  /\ active' = [active EXCEPT ![NodeOf[u]] = @ - 1]

\* What an await that returns does first.
Resumed(u, pc) ==
  /\ user[u].pc = pc
  /\ u \notin asked
  /\ TakesTurns(NodeOf[u])

Wakes(u, pc) ==
  /\ user' = [user EXCEPT ![u].pc = pc]
  /\ holder' = [holder EXCEPT ![NodeOf[u]] = u]
  /\ turn' = [turn EXCEPT ![NodeOf[u]] = 0]

Begin(u) ==
  /\ Resumed(u, "created")
  /\ Wakes(u, "iterate")
  /\ active' = [active EXCEPT ![NodeOf[u]] = @ + 1]
  /\ UNCHANGED <<loadVars, dataVars, aborted>> /\ NotMine

\* The cancellation arrives.  A task that never ran never counted as active; a
\* request on the wire returns instead of raising.
Cancelled(u) ==
  /\ u \in asked
  /\ user[u].pc \in Awaiting \cup {"created"}
  /\ TakesTurns(NodeOf[u])
  /\ \/ user[u].pc = "created" /\ user' = [user EXCEPT ![u].pc = "cancelled"] /\ UNCHANGED <<holder, active>>
     \/ user[u].pc = "sending" /\ End(u, "gone")
     \/ user[u].pc \in Awaiting \ {"sending"} /\ End(u, "cancelled")
  /\ UNCHANGED <<turn, loadVars, dataVars, aborted>> /\ NotMine

-------------------------------------------------------------------------------
(* The loop of a user, up to the request.                                     *)

Scripted == config.scripted
StepOf(me) == config.steps[me.step]

\* The first data set that has no row left, in the order of the scenario, or 0.
FirstDry(n) ==
  LET spent == {d \in Datasets : RowsAt(config.data[d], n, config.nodes, cursor[n][d]) = {0}}
  IN  IF spent = {} THEN 0 ELSE CHOOSE d \in spent : \A e \in spent : d <= e

\* DataRuntime.next_rows: a row of each data set before the first dry one.
DrawRows(n, upTo) ==
  LET drawn == {d \in Datasets : d < upTo}
      eaten(d) == RowsAt(config.data[d], n, config.nodes, cursor[n][d])
  IN  /\ cursor' = [cursor EXCEPT ![n] = [d \in Datasets |->
           IF d \in drawn THEN Advanced(config.data[d], @[d]) ELSE @[d]]]
      /\ handed' = [d \in Datasets |-> [r \in DOMAIN handed[d] |->
           handed[d][r] + IF d \in drawn /\ Consumes(config.data[d]) /\ r \in eaten(d) THEN 1 ELSE 0]]

\* The top of an iteration: the user stops, or draws its rows and begins it with
\* no variable bound and nothing charged to it.
Draw(u) ==
  LET n == NodeOf[u]
      k == FirstDry(n)
  IN  /\ user[u].pc = "iterate"
      /\ Scripted
      /\ \/ /\ stop[n]
            /\ End(u, "gone")
            /\ UNCHANGED <<turn, dataVars>>
         \/ /\ ~stop[n] /\ k # 0
            /\ DrawRows(n, k)
            /\ dry' = [dry EXCEPT ![n] = TRUE]
            /\ lost' = [lost EXCEPT ![n] = @ + Cardinality({d \in Datasets : d < k /\ Consumes(config.data[d])})]
            /\ End(u, "gone")
            /\ UNCHANGED turn
         \/ /\ ~stop[n] /\ k = 0
            /\ DrawRows(n, Len(config.data) + 1)
            /\ user' = [user EXCEPT ![u] = [Newborn("step") EXCEPT !.step = 1]]
            /\ turn' = [turn EXCEPT ![n] = @ + 1]
            /\ UNCHANGED <<holder, active, dry, lost>>
      /\ NotMine /\ UNCHANGED <<loadVars, aborted>>

\* Fault variant: the last request of the budget is left over.
FinishedEarly(n) ==
  \/ config.load = "timed" /\ over
  \/ Counted /\ remaining[n] <= 1

\* The conditions of a step, looked at once before it waits for its slot.
Finished(n) ==
  \/ config.load = "timed" /\ over
  \/ Counted /\ remaining[n] <= 0

\* Goes to the rate limiter, which may let it pass at once, or on to next.
Throttle(u, next) ==
  \/ RunOn(u, next)
  \/ config.rate /\ Await(u, user[u], "limited")

\* One step of the scenario, claimed before it is throttled and rendered.
Step(u) ==
  LET n == NodeOf[u]
  IN  /\ user[u].pc = "step"
      /\ \/ /\ user[u].step > Len(config.steps) \/ stop[n]
            /\ RunOn(u, "iterate")
            /\ UNCHANGED <<active, remaining>>
         \/ /\ user[u].step <= Len(config.steps) /\ ~stop[n] /\ Finished(n)
            /\ End(u, "gone")
            /\ UNCHANGED remaining
         \/ /\ user[u].step <= Len(config.steps) /\ ~stop[n] /\ ~Finished(n)
            /\ remaining' = IF Counted THEN [remaining EXCEPT ![n] = @ - 1] ELSE remaining
            /\ Throttle(u, "render")
            /\ UNCHANGED active
      /\ UNCHANGED <<turn, over, requests, unsent, dataVars, aborted>> /\ NotMine

\* user_worker: the same loop around one request, with neither data nor steps.
PlainHead(u) ==
  LET n == NodeOf[u]
      begin == [Newborn("sending") EXCEPT !.step = 1]
  IN  /\ user[u].pc = "iterate"
      /\ ~Scripted
      /\ \/ (stop[n] \/ Finished(n)) /\ End(u, "gone")
         \/ ~stop[n] /\ ~Finished(n) /\ Await(u, begin, "sending") /\ UNCHANGED active
         \/ ~stop[n] /\ ~Finished(n) /\ config.rate /\ Await(u, begin, "limited") /\ UNCHANGED active
      /\ UNCHANGED <<turn, loadVars, dataVars, aborted>> /\ NotMine

\* acquire() returns.  The duration is not looked at again.
Acquired(u) ==
  /\ Resumed(u, "limited")
  /\ \/ stop[NodeOf[u]] /\ End(u, "gone") /\ UNCHANGED turn
     \/ ~stop[NodeOf[u]] /\ Scripted /\ Wakes(u, "render") /\ UNCHANGED active
     \/ ~stop[NodeOf[u]] /\ ~Scripted /\ Await(u, user[u], "sending") /\ UNCHANGED <<turn, active>>
  /\ UNCHANGED <<loadVars, dataVars, aborted>> /\ NotMine

-------------------------------------------------------------------------------
(* The end of a step.                                                         *)

First(me, what) == IF me.first = "nothing" THEN what ELSE me.first

\* Fault variant: every occurrence is charged.
ChargedAgain(me) == [me EXCEPT !.errors = @ + 1, !.charged = TRUE, !.first = First(me, "flow")]

\* A template error, a header, a WebSocket step or an extraction: charged only if
\* nothing of this iteration has been.
Charged(me) ==
  IF me.charged THEN me ELSE [me EXCEPT !.errors = @ + 1, !.charged = TRUE, !.first = First(me, "flow")]

\* An HTTP request that failed is always charged: _execute_request does not know
\* the iteration.
FailedRequest(me) ==
  [me EXCEPT !.errors = @ + 1, !.failures = @ + 1, !.charged = TRUE, !.first = First(me, "request")]

\* An error of the socket is counted by _account_message or
\* _record_handshake_failure, which do not know the iteration either, and leave it
\* uncharged.
SocketError(me) == [me EXCEPT !.errors = @ + 1, !.sockets = @ + 1]

\* What execute_ws_step comes to: no matching message in time or a failed write; a
\* refused handshake, or a socket that ends before the match; success; and success
\* with a socket that ends while it is held.
WsOutcomes(me) ==
  [ok : {FALSE}, me : {me, SocketError(me)}] \cup [ok : {TRUE}, me : {me, SocketError(me)}]

\* Fault variant: an aborted iteration starts the next one at once.
AbortAtOnce(u, me) ==
  /\ user' = [user EXCEPT ![u] = [me EXCEPT !.pc = "iterate"]]
  /\ holder' = [holder EXCEPT ![NodeOf[u]] = u]
  /\ aborted' = [aborted EXCEPT ![NodeOf[u]] = TRUE]
  /\ UNCHANGED active

\* break with iteration_aborted: the user yields once, unless it is stopped.
Abort(u, me) ==
  /\ \/ stop[NodeOf[u]] /\ End(u, "gone")
     \/ ~stop[NodeOf[u]] /\ Await(u, me, "yielding") /\ UNCHANGED active
  /\ aborted' = [aborted EXCEPT ![NodeOf[u]] = TRUE]

\* The user goes on to the next step, without one to its next iteration.
NextStep(me) == [me EXCEPT !.step = @ + 1, !.pc = IF Scripted THEN "step" ELSE "iterate"]

\* _think_time_wait after a step: it ends a stopped user.
Think(u, me) ==
  LET n == NodeOf[u]
  IN  /\ \/ stop[n] /\ End(u, "gone")
         \/ ~stop[n] /\ config.think /\ Await(u, me, "thinking") /\ UNCHANGED active
         \/ /\ ~stop[n] /\ ~config.think
            /\ user' = [user EXCEPT ![u] = NextStep(me)]
            /\ holder' = [holder EXCEPT ![n] = u]
            /\ UNCHANGED active
      /\ UNCHANGED aborted

\* A claimed request that is never recorded as one; tallied for -n runs.
Unsent(u) == unsent' = IF Counted THEN [unsent EXCEPT ![NodeOf[u]] = @ + 1] ELSE unsent
Recorded(u) == requests' = IF Counted THEN [requests EXCEPT ![NodeOf[u]] = @ + 1] ELSE requests

\* _render_step: an unbound variable is a template error, unless kept; a bound one
\* may carry a control character into a header.  The send text of a WebSocket step
\* is rendered outside of the try block, in _run_ws_step.
Render(u) ==
  LET me == user[u]
      s  == StepOf(me)
      unbound == ~me.bound /\ ~config.keep
      broken == s.uses /\ (unbound \/ me.bound)
  IN  /\ me.pc = "render"
      /\ \/ broken /\ Abort(u, Charged(me)) /\ Unsent(u)
         \/ /\ ~(s.uses /\ unbound)
            /\ s.ws /\ s.sends /\ unbound
            /\ End(u, "crashed")
            /\ UNCHANGED <<unsent, aborted>>
         \/ /\ ~(s.uses /\ unbound)
            /\ ~(s.ws /\ s.sends /\ unbound)
            /\ Await(u, me, IF s.ws THEN "open" ELSE "sending")
            /\ UNCHANGED <<active, unsent, aborted>>
      /\ UNCHANGED <<turn, over, remaining, requests, dataVars>> /\ NotMine

\* The extract rules of an answer: all values found, or some not.
Extract(u, me) ==
  \/ ~StepOf(me).extract /\ Think(u, me)
  \/ StepOf(me).extract /\ Think(u, [me EXCEPT !.bound = TRUE])
  \/ StepOf(me).extract /\ config.abort /\ Abort(u, Charged(me))
  \/ StepOf(me).extract /\ ~config.abort /\ Think(u, Charged(me))

\* An HTTP answer: fine, refused (its status or an assertion), or an error of the
\* transport, from which nothing can be extracted.
Answered(u) ==
  LET me == user[u]
  IN  /\ Resumed(u, "sending")
      /\ \/ ~Scripted /\ (Think(u, me) \/ Think(u, FailedRequest(me)))
         \/ Scripted /\ (Extract(u, me) \/ Extract(u, FailedRequest(me)))
         \/ Scripted /\ StepOf(me).extract /\ config.abort /\ Abort(u, FailedRequest(me))
         \/ Scripted /\ ~(StepOf(me).extract /\ config.abort) /\ Think(u, FailedRequest(me))
      /\ turn' = [turn EXCEPT ![NodeOf[u]] = 0]
      /\ Recorded(u)
      /\ UNCHANGED <<over, remaining, unsent, dataVars>> /\ NotMine

\* A WebSocket step that succeeded counts as a request, one that failed does not; the
\* failure is charged to the iteration on top of what the socket counted.
WsAnswered(u) ==
  /\ Resumed(u, "open")
  /\ \E outcome \in WsOutcomes(user[u]) :
       \/ outcome.ok /\ Extract(u, outcome.me) /\ Recorded(u) /\ UNCHANGED unsent
       \/ ~outcome.ok /\ Abort(u, Charged(outcome.me)) /\ Unsent(u) /\ UNCHANGED requests
  /\ turn' = [turn EXCEPT ![NodeOf[u]] = 0]
  /\ UNCHANGED <<over, remaining, dataVars>> /\ NotMine

\* The think time has passed, or the stop event cuts it short.
Thought(u) ==
  /\ Resumed(u, "thinking")
  /\ \/ stop[NodeOf[u]] /\ End(u, "gone") /\ UNCHANGED turn
     \/ /\ user' = [user EXCEPT ![u] = NextStep(user[u])]
        /\ holder' = [holder EXCEPT ![NodeOf[u]] = u]
        /\ turn' = [turn EXCEPT ![NodeOf[u]] = 0]
        /\ UNCHANGED active
  /\ UNCHANGED <<loadVars, dataVars, aborted>> /\ NotMine

\* sleep(0) returns; an aborted iteration is paced like a complete one.
Yielded(u) ==
  LET n == NodeOf[u]
  IN  /\ Resumed(u, "yielding")
      /\ \/ stop[n] /\ End(u, "gone") /\ UNCHANGED turn
         \/ ~stop[n] /\ config.think /\ Await(u, user[u], "pacing") /\ UNCHANGED <<turn, active>>
         \/ ~stop[n] /\ ~config.think /\ Wakes(u, "iterate") /\ UNCHANGED active
      /\ UNCHANGED <<loadVars, dataVars, aborted>> /\ NotMine

Paced(u) ==
  /\ Resumed(u, "pacing")
  /\ \/ stop[NodeOf[u]] /\ End(u, "gone") /\ UNCHANGED turn
     \/ Wakes(u, "iterate") /\ UNCHANGED active
  /\ UNCHANGED <<loadVars, dataVars, aborted>> /\ NotMine

-------------------------------------------------------------------------------
(* run_user_simulation and run_benchmark, on node n.                          *)

DurationElapses ==
  /\ config.load = "timed"
  /\ ~over
  /\ over' = TRUE
  /\ UNCHANGED <<config, user, asked, holder, turn, active, nodeVars, remaining, requests, unsent, dataVars,
                 aborted, interrupted>>

RunnerKeeps == UNCHANGED <<config, holder, turn, active, loadVars, dataVars, aborted>>

\* One more user is launched, and the ramp-up sleeps unless it was the last one.
Launch(n) ==
  /\ runner[n] = "launching"
  /\ TakesTurns(n)
  /\ LET unborn == {u \in Mine(n) : user[u].pc = "unborn"}
     IN  \/ /\ stop[n] \/ unborn = {}
            /\ runner' = [runner EXCEPT ![n] = "waiting"]
            /\ UNCHANGED user
         \/ /\ ~stop[n]
            /\ \E u \in unborn : user' = [user EXCEPT ![u].pc = "created"]
            /\ runner' = [runner EXCEPT ![n] = IF Cardinality(unborn) > 1 THEN "asleep" ELSE "waiting"]
  /\ UNCHANGED <<asked, stop, interrupted>> /\ RunnerKeeps

\* asyncio.sleep(ramp_delay) is over: the stop event does not cut it short.
RampWakes(n) ==
  /\ runner[n] = "asleep"
  /\ TakesTurns(n)
  /\ runner' = [runner EXCEPT ![n] = "launching"]
  /\ UNCHANGED <<user, asked, stop, interrupted>> /\ RunnerKeeps

\* Fault variant: the grace period ends with a look at the stragglers only.
AwaitWorkersIdly(n) ==
  /\ TakesTurns(n)
  /\ \/ runner[n] = "waiting" /\ Living(n) = {} /\ runner' = [runner EXCEPT ![n] = "cancelling"]
     \/ runner[n] = "waiting" /\ stop[n] /\ Living(n) # {} /\ runner' = [runner EXCEPT ![n] = "grace"]
     \/ runner[n] = "grace" /\ Living(n) = {} /\ runner' = [runner EXCEPT ![n] = "cancelling"]
  /\ UNCHANGED <<user, asked, stop, interrupted>> /\ RunnerKeeps

\* _await_workers: everyone has ended; or a stop starts the grace period, after
\* which the stragglers are cancelled.
AwaitWorkers(n) ==
  /\ TakesTurns(n)
  /\ \/ /\ runner[n] = "waiting" /\ Living(n) = {}
        /\ runner' = [runner EXCEPT ![n] = "cancelling"] /\ UNCHANGED asked
     \/ /\ runner[n] = "waiting" /\ stop[n] /\ Living(n) # {}
        /\ runner' = [runner EXCEPT ![n] = "grace"] /\ UNCHANGED asked
     \/ /\ runner[n] = "grace"
        /\ runner' = [runner EXCEPT ![n] = "cancelling"] /\ asked' = asked \cup Living(n)
  /\ UNCHANGED <<user, stop, interrupted>> /\ RunnerKeeps

\* _finalize_run closes the pool and reports.
Finalize(n) ==
  /\ runner[n] = "cancelling"
  /\ TakesTurns(n)
  /\ Living(n) = {}
  /\ stop' = [stop EXCEPT ![n] = TRUE]
  /\ runner' = [runner EXCEPT ![n] = "reported"]
  /\ UNCHANGED <<user, asked, interrupted>> /\ RunnerKeeps

\* The run of node n ends before its time.
Stopped(n) ==
  /\ TakesTurns(n)
  /\ stop' = [stop EXCEPT ![n] = TRUE]
  /\ interrupted' = [interrupted EXCEPT ![n] = TRUE]
  /\ UNCHANGED user /\ RunnerKeeps

\* SIGINT or SIGTERM, handled by the event loop.
Signal(n) ==
  /\ ~stop[n]
  /\ Stopped(n)
  /\ UNCHANGED <<asked, runner>>

\* Fault variant: the users are asked to stop, not cancelled.
CancelRunStopsOnly(n) ==
  /\ runner[n] \in {"asleep", "waiting", "grace", "cancelling"}
  /\ Stopped(n)
  /\ runner' = [runner EXCEPT ![n] = "raised"]
  /\ UNCHANGED asked

\* The caller cancels the run.  run_user_simulation reaps its users, in its ramp-up
\* and later; run_benchmark leaves its own to notice the stop event.
CancelRun(n) ==
  /\ runner[n] \in {"asleep", "waiting", "grace", "cancelling"}
  /\ Stopped(n)
  /\ \/ /\ config.simulation
        /\ asked' = asked \cup Living(n)
        /\ runner' = [runner EXCEPT ![n] = "reaping"]
     \/ /\ ~config.simulation
        /\ runner' = [runner EXCEPT ![n] = "raised"]
        /\ UNCHANGED asked

Reaped(n) ==
  /\ runner[n] = "reaping"
  /\ TakesTurns(n)
  /\ Living(n) = {}
  /\ runner' = [runner EXCEPT ![n] = "raised"]
  /\ UNCHANGED <<user, asked, stop, interrupted>> /\ RunnerKeeps

-------------------------------------------------------------------------------
Running(u) == Draw(u) \/ PlainHead(u) \/ Step(u) \/ Render(u)
Timers(u) == Begin(u) \/ Cancelled(u) \/ Thought(u) \/ Yielded(u) \/ Paced(u)
Answers(u) == Acquired(u) \/ Answered(u) \/ WsAnswered(u)
RunnerStep(n) ==
  /\ n < config.nodes
  /\ Launch(n) \/ RampWakes(n) \/ AwaitWorkers(n) \/ Finalize(n) \/ Reaped(n)
Interrupt(n) == n < config.nodes /\ (Signal(n) \/ CancelRun(n))

Next ==
  \/ \E u \in config.users : Running(u) \/ Timers(u) \/ Answers(u)
  \/ \E n \in AllNodes : RunnerStep(n) \/ Interrupt(n)
  \/ DurationElapses

\* The event loop runs what is ready, in turn, and its timers fire: a user or a
\* runner that is ready again and again, between the turns of others, runs at last.
\* Nothing is asked of the target or of the rate limiter.
Fairness ==
  /\ \A u \in User : SF_vars(Running(u) \/ Timers(u))
  /\ \A n \in AllNodes : SF_vars(RunnerStep(n))
  /\ WF_vars(DurationElapses)

Spec == Init /\ [][Next]_vars /\ Fairness

-------------------------------------------------------------------------------
(* Properties.                                                                *)

\* Each row of a sequential or unique data set is handed out at most once for the
\* whole run, over all users and all nodes (FeederCursor, shard_rows); and a user that
\* finds a later data set spent wastes at most one row of each earlier one, since it
\* ends (DataRuntime.next_rows).
RowsAreSpentOnce ==
  /\ \A d \in Datasets : \A r \in DOMAIN handed[d] : handed[d][r] <= 1
  /\ \A n \in AllNodes : lost[n] <= Cardinality(Mine(n)) * AtLeast(0, Len(config.data) - 1)

\* What an iteration adds to the total of errors, to the last one: each failed HTTP
\* request, each broken socket, and one more exactly if something else failed before
\* any request did (iteration_error_counted).  What fails after that is free: a 401,
\* the extraction from its body and the variable left unbound are one error, as
\* README.md:639-641 has it.  But "at most once" (workers.py:982-985) ends there: a
\* second failed request, a failed request after a failed extraction, and the failed
\* step of a broken socket are each charged besides.
ChargesAddUp ==
  \A u \in User :
    user[u].errors = user[u].failures + user[u].sockets + IF user[u].first = "flow" THEN 1 ELSE 0

\* No user starves the others: between two awaits it begins at most one iteration,
\* also when its iterations abort before they send anything (asyncio.sleep(0)).
OneIterationPerTurn == \A n \in AllNodes : turn[n] <= 1

Finals(n) == runner[n] \in {"reported", "raised"}
Crashed == \E u \in User : user[u].pc = "crashed"
Share(n) == ShareOf(config.requests, n, config.nodes)

\* A -n run that nobody interrupts makes all its requests, unless its data ran out
\* or it reports the steps that failed before they were a request; an interrupted
\* one gives up at most one claimed request per user.
ShortfallIsExplained ==
  \A n \in 0..(config.nodes - 1) : Counted /\ runner[n] = "reported" /\ ~Crashed =>
    LET made == requests[n] + unsent[n]
    IN  IF interrupted[n] THEN made + remaining[n] + Cardinality(Mine(n)) >= Share(n)
                          ELSE made = Share(n) \/ dry[n]

\* The rows of each node last for its share of the requests.
SlicesCover(set) ==
  set.strategy = "unique" =>
    \A n \in 0..(config.nodes - 1) : Share(n) <= ShareOf(set.rows, n, config.nodes) * Len(config.steps)

\* A -n run whose unique data sets have passed the check at its start makes all its
\* requests, if nothing aborts an iteration and nobody interrupts it
\* (validate_unique_capacity: a run never quietly runs short).  The check looks at all
\* rows and all requests: it is enough for one node, and on several nodes the slices
\* have to follow the shares besides.
CapacityIsEnough ==
  (\A d \in Datasets : /\ config.data[d].strategy # "sequential"
                       /\ LargeEnough(config.data[d], 0, config.requests, Len(config.steps), config.nodes)
                       /\ config.nodes = 1 \/ SlicesCover(config.data[d])) =>
    \A n \in 0..(config.nodes - 1) :
      Counted /\ runner[n] = "reported" /\ ~aborted[n] /\ ~interrupted[n] /\ ~Crashed =>
        requests[n] = Share(n)

\* When a run has reported, or the cancellation of a simulation is raised to its
\* caller, no user is left behind.
NobodyIsLeftBehind ==
  \A n \in AllNodes :
    runner[n] = "reported" \/ (config.simulation /\ runner[n] = "raised") => Living(n) = {} /\ active[n] = 0

\* A run that is asked to stop ends, though the target hangs, the limiter sleeps
\* and the ramp-up has not come to its end.
StopEndsTheRun == \A n \in AllNodes : stop[n] ~> Finals(n)
===============================================================================
