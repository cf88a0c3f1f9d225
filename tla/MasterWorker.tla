----------------------------- MODULE MasterWorker -----------------------------
(***************************************************************************)
(* The distributed mode of pywrkr: run_master and run_worker_node           *)
(* (distributed.py).  The master listens, admits the first ExpectWorkers    *)
(* nodes (after a mutual HMAC handshake when a secret is set), sends each   *)
(* its share of the load, collects one result per node under one shared     *)
(* deadline and turns what it got into an exit code.                        *)
(*                                                                         *)
(* One action is one stretch of code between two awaits.  A connection is   *)
(* two FIFO channels and an open/closed flag for each end: TCP delivers in  *)
(* order, and what a dead peer had not yet delivered may be lost.  A write  *)
(* is two steps: the bytes go into the stream, and drain() returns -- at    *)
(* once while there is room in the buffers, else when the peer reads them   *)
(* or the connection is lost.  wait_closed() waits in the same way.         *)
(***************************************************************************)
EXTENDS Integers, Sequences, FiniteSets

CONSTANTS
  Node,            \* processes that may connect to the master's port
  ExpectWorkers,   \* --expect-workers
  MasterSecret,    \* --worker-secret on the master, NoSecret when unset
  NodeSecret,      \* --worker-secret on each node, NoSecret when unset
  NoSecret,
  NodeNonce,       \* the nonce in each node's answer to a challenge: "fresh", "none"
                   \* from an older release, "malformed" if it is no hex string
  NoHttp2,         \* nodes without the HTTP/2 backend, in an --http2 run
  Foreign,         \* nodes that run some other build of the program
  ForeignReplies,  \* how those answer instead of with a result
  AllowPartial,    \* --allow-partial
  MaxProgress      \* progress messages a node sends; 0: not asked for

ASSUME MasterWorkerAssumption ==
  /\ ExpectWorkers \in Nat \ {0}
  /\ MaxProgress \in Nat
  /\ AllowPartial \in BOOLEAN
  /\ NodeNonce \in [Node -> {"fresh", "none", "malformed"}]
  /\ NoHttp2 \subseteq Node
  /\ Foreign \subseteq Node
  /\ ForeignReplies \subseteq {"malformed", "other", "nonobject"}

NoCode == -1
NoShard == 0

VARIABLES
  phase,          \* where run_master is; "draining" in a config's _send_msg,
                  \* "abandoning" when too few nodes came
  admitted,       \* worker_connections, in the order of admission
  configsSent,    \* shard_index of the distribution loop
  deadlinePassed, \* of the collection
  exitCode,       \* of the master's process
  handler,        \* handle_worker's state for each connection
  collector,      \* _collect_one's state for each selected connection
  node,           \* where run_worker_node is
  shard,          \* the share of the load the node runs, NoShard before
  progressSent,
  toMaster, toNode,      \* messages in flight on each connection
  nodeOpen, masterOpen   \* the two ends of each connection

masterVars == <<phase, admitted, configsSent, deadlinePassed, exitCode, collector>>
nodeVars   == <<node, shard, progressSent, nodeOpen>>
vars == <<phase, admitted, configsSent, deadlinePassed, exitCode, handler, collector,
          node, shard, progressSent, toMaster, toNode, nodeOpen, masterOpen>>

Ended     == {"reported", "noresult", "raised"}
Listening == {"accepting", "abandoning"}
Waiting == {"awaitChallenge", "awaitProof", "awaitConfig"}
Gone    == {"exit0", "exit1", "crashed"}

Challenge == [type |-> "challenge", arg |-> NoShard]
Auth(s)   == [type |-> "auth", arg |-> s]
AuthOk(s) == [type |-> "auth_ok", arg |-> s]
Config(i) == [type |-> "config", arg |-> i]
Msg(t)    == [type |-> t, arg |-> NoSecret]

\* Connections the master sends a config to: worker_connections[:expect_workers].
Ready == Len(admitted) >= ExpectWorkers
\* Fault variant: the newest connections instead of the oldest.
SelectedSeqNewest ==
  SubSeq(admitted, IF Ready THEN Len(admitted) - ExpectWorkers + 1 ELSE 1, Len(admitted))

SelectedSeq == SubSeq(admitted, 1, IF Ready THEN ExpectWorkers ELSE Len(admitted))
Selected == {admitted[i] : i \in (1..ExpectWorkers) \cap DOMAIN admitted}

\* What a node, and the master, may ever put on the wire.
FromNode   == {Auth(NodeSecret[n]) : n \in Node} \cup
              {Msg(t) : t \in {"progress", "result", "error"} \cup ForeignReplies}
FromMaster == {Challenge, AuthOk(MasterSecret)} \cup {Config(i) : i \in 1..ExpectWorkers}

TypeOK ==
  /\ phase \in {"accepting", "abandoning", "distributing", "draining", "collecting"} \cup Ended
  /\ admitted \in Seq(Node)
  /\ configsSent \in 0..ExpectWorkers
  /\ deadlinePassed \in BOOLEAN
  /\ exitCode \in {NoCode, 0, 1, 2, 3}
  /\ handler \in [Node -> {"none", "accepted", "auth", "proving", "admitted", "rejected"}]
  /\ collector \in [Node -> {"none", "reading", "counted", "charged", "garbled"}]
  /\ node \in [Node -> {"idle", "running"} \cup Waiting \cup Gone]
  /\ shard \in [Node -> 0..ExpectWorkers]
  /\ progressSent \in [Node -> 0..MaxProgress]
  /\ toMaster \in [Node -> Seq(FromNode)]
  /\ toNode \in [Node -> Seq(FromMaster)]
  /\ nodeOpen \in [Node -> BOOLEAN]
  /\ masterOpen \in [Node -> BOOLEAN]

Init ==
  /\ phase = "accepting"
  /\ admitted = <<>>
  /\ configsSent = 0
  /\ deadlinePassed = FALSE
  /\ exitCode = NoCode
  /\ handler = [n \in Node |-> "none"]
  /\ collector = [n \in Node |-> "none"]
  /\ node = [n \in Node |-> "idle"]
  /\ shard = [n \in Node |-> NoShard]
  /\ progressSent = [n \in Node |-> 0]
  /\ toMaster = [n \in Node |-> <<>>]
  /\ toNode = [n \in Node |-> <<>>]
  /\ nodeOpen = [n \in Node |-> FALSE]
  /\ masterOpen = [n \in Node |-> FALSE]

-------------------------------------------------------------------------------
(* Channels.  A write to a peer that is gone is not noticed by the writer:    *)
(* the bytes leave its buffer and are lost.                                   *)

MasterSends(n, m) ==
  toNode' = [toNode EXCEPT ![n] = IF nodeOpen[n] THEN Append(@, m) ELSE @]

NodeSends(n, m) ==
  toMaster' = [toMaster EXCEPT ![n] = IF masterOpen[n] THEN Append(@, m) ELSE @]

MasterReads(n, m) ==
  /\ toMaster[n] # <<>>
  /\ m = Head(toMaster[n])
  /\ toMaster' = [toMaster EXCEPT ![n] = Tail(@)]

NodeReads(n, m) ==
  /\ toNode[n] # <<>>
  /\ m = Head(toNode[n])
  /\ toNode' = [toNode EXCEPT ![n] = Tail(@)]

\* _recv_msg raises ConnectionError: nothing left to read, the peer is gone.
MasterSeesEof(n) == toMaster[n] = <<>> /\ ~nodeOpen[n]
NodeSeesEof(n)   == toNode[n] = <<>> /\ ~masterOpen[n]

\* Something the master wrote is still unread by a node that is still there.
Unread(n) == toNode[n] # <<>> /\ nodeOpen[n]

MasterCloses(n) == masterOpen' = [masterOpen EXCEPT ![n] = FALSE]

\* run_worker_node returns (or raises) and its finally closes the stream.
NodeEnds(n, how) ==
  /\ node' = [node EXCEPT ![n] = how]
  /\ nodeOpen' = [nodeOpen EXCEPT ![n] = FALSE]

\* run_master returns or raises: its process ends and every socket with it.
MasterEnds(how, code) ==
  /\ phase' = how
  /\ exitCode' = code
  /\ masterOpen' = [n \in Node |-> FALSE]

-------------------------------------------------------------------------------
(* A node: run_worker_node.                                                   *)

Connect(n) ==
  /\ node[n] = "idle"
  /\ phase \in Listening
  /\ node' = [node EXCEPT ![n] =
                IF NodeSecret[n] # NoSecret THEN "awaitChallenge" ELSE "awaitConfig"]
  /\ handler' = [handler EXCEPT ![n] = "accepted"]
  /\ nodeOpen' = [nodeOpen EXCEPT ![n] = TRUE]
  /\ masterOpen' = [masterOpen EXCEPT ![n] = TRUE]
  /\ UNCHANGED <<masterVars, shard, progressSent, toMaster, toNode>>

ConnectRefused(n) ==
  /\ node[n] = "idle"
  /\ phase \notin Listening
  /\ node' = [node EXCEPT ![n] = "exit1"]
  /\ UNCHANGED <<masterVars, handler, shard, progressSent, toMaster, toNode, nodeOpen, masterOpen>>

\* The challenge is answered; any other message, a close or a timeout ends it.
\* An older release asks for no proof of the master.
ReceiveChallenge(n) ==
  /\ node[n] = "awaitChallenge"
  /\ \E m \in FromMaster :
       /\ NodeReads(n, m)
       /\ IF m.type = "challenge"
          THEN /\ NodeSends(n, Auth(NodeSecret[n]))
               /\ node' = [node EXCEPT ![n] =
                             IF NodeNonce[n] = "none" THEN "awaitConfig" ELSE "awaitProof"]
               /\ UNCHANGED nodeOpen
          ELSE NodeEnds(n, "exit1") /\ UNCHANGED toMaster
  /\ UNCHANGED <<masterVars, handler, shard, progressSent, masterOpen>>

\* The master must sign the node's nonce with the node's own secret.
ReceiveProof(n) ==
  /\ node[n] = "awaitProof"
  /\ NodeReads(n, AuthOk(MasterSecret))
  /\ IF MasterSecret = NodeSecret[n]
     THEN node' = [node EXCEPT ![n] = "awaitConfig"] /\ UNCHANGED nodeOpen
     ELSE NodeEnds(n, "exit1")
  /\ UNCHANGED <<masterVars, handler, shard, progressSent, toMaster, masterOpen>>

\* A config starts the benchmark, or is refused for want of the HTTP/2 backend.
ReceiveConfig(n) ==
  /\ node[n] = "awaitConfig"
  /\ \E m \in FromMaster :
       /\ NodeReads(n, m)
       /\ \/ /\ m.type # "config"
             /\ NodeEnds(n, "exit1")
             /\ UNCHANGED <<shard, toMaster>>
          \/ /\ m.type = "config" /\ n \in NoHttp2
             /\ NodeEnds(n, "exit1")
             /\ NodeSends(n, Msg("error"))
             /\ UNCHANGED shard
          \/ /\ m.type = "config" /\ n \notin NoHttp2
             /\ node' = [node EXCEPT ![n] = "running"]
             /\ shard' = [shard EXCEPT ![n] = m.arg]
             /\ UNCHANGED <<nodeOpen, toMaster>>
  /\ UNCHANGED <<masterVars, handler, progressSent, masterOpen>>

\* Each wait gives up on a closed connection or on its own timeout.  A node's
\* 300 s wait for a config starts after the master's 300 s wait for the nodes,
\* so it cannot run out while the master is still accepting.
StopWaiting(n) ==
  /\ node[n] \in Waiting
  /\ \/ NodeSeesEof(n)
     \/ node[n] = "awaitConfig" => phase # "accepting"
  /\ NodeEnds(n, "exit1")
  /\ UNCHANGED <<masterVars, handler, shard, progressSent, toMaster, toNode, masterOpen>>

SendProgress(n) ==
  /\ node[n] = "running"
  /\ progressSent[n] < MaxProgress
  /\ progressSent' = [progressSent EXCEPT ![n] = @ + 1]
  /\ NodeSends(n, Msg("progress"))
  /\ UNCHANGED <<masterVars, handler, node, shard, toNode, nodeOpen, masterOpen>>

\* The benchmark is over and its result is written to the stream; 0 is returned
\* as soon as the write returns.  Only a reset already seen makes it raise.
SendResult(n) ==
  /\ node[n] = "running"
  /\ n \notin Foreign
  /\ \/ NodeSends(n, Msg("result")) /\ NodeEnds(n, "exit0")
     \/ ~masterOpen[n] /\ NodeEnds(n, "exit1") /\ UNCHANGED toMaster
  /\ UNCHANGED <<masterVars, handler, shard, progressSent, toNode, masterOpen>>

\* Another build answers in a way this master does not understand.
ForeignReply(n) ==
  /\ node[n] = "running"
  /\ n \in Foreign
  /\ \E t \in ForeignReplies : NodeSends(n, Msg(t))
  /\ NodeEnds(n, "exit0")
  /\ UNCHANGED <<masterVars, handler, shard, progressSent, toNode, masterOpen>>

\* The node is killed, its benchmark raises, or the network cuts it off:
\* any suffix of what it had sent may never arrive.
Crash(n) ==
  /\ node[n] \in Waiting \cup {"running"}
  /\ NodeEnds(n, "crashed")
  /\ \E k \in 0..Len(toMaster[n]) :
       toMaster' = [toMaster EXCEPT ![n] = SubSeq(@, 1, k)]
  /\ UNCHANGED <<masterVars, handler, shard, progressSent, toNode, masterOpen>>

-------------------------------------------------------------------------------
(* The master's connection handlers: handle_worker, _authenticate_worker.     *)

Admit(n) ==
  /\ admitted' = Append(admitted, n)
  /\ handler' = [handler EXCEPT ![n] = "admitted"]

Reject(n) ==
  /\ MasterCloses(n)
  /\ handler' = [handler EXCEPT ![n] = "rejected"]
  /\ UNCHANGED admitted

\* The room left is checked on arrival, before the handshake is awaited.
HandleWorker(n) ==
  /\ phase \notin Ended
  /\ handler[n] = "accepted"
  /\ \/ /\ Ready
        /\ Reject(n)
        /\ UNCHANGED toNode
     \/ /\ ~Ready /\ MasterSecret = NoSecret
        /\ Admit(n)
        /\ UNCHANGED <<toNode, masterOpen>>
     \/ /\ ~Ready /\ MasterSecret # NoSecret
        /\ MasterSends(n, Challenge)
        /\ handler' = [handler EXCEPT ![n] = "auth"]
        /\ UNCHANGED <<admitted, masterOpen>>
  /\ UNCHANGED <<nodeVars, phase, configsSent, deadlinePassed, exitCode, collector, toMaster>>

\* Fault variant: the answer to the challenge is not compared.
ReceiveAuthUnchecked(n) ==
  /\ phase \notin Ended
  /\ handler[n] = "auth"
  /\ MasterReads(n, Auth(NodeSecret[n]))
  /\ MasterSends(n, AuthOk(MasterSecret))
  /\ handler' = [handler EXCEPT ![n] = "proving"]
  /\ UNCHANGED <<nodeVars, phase, admitted, configsSent, deadlinePassed, exitCode, collector, masterOpen>>

\* The answer to the challenge is checked, and the node's nonce signed back; a
\* node of an older release, which sends none, is admitted without.
ReceiveAuth(n) ==
  /\ phase \notin Ended
  /\ handler[n] = "auth"
  /\ MasterReads(n, Auth(NodeSecret[n]))
  /\ \/ /\ NodeSecret[n] # MasterSecret \/ NodeNonce[n] = "malformed"
        /\ Reject(n)
        /\ UNCHANGED toNode
     \/ /\ NodeSecret[n] = MasterSecret /\ NodeNonce[n] = "none"
        /\ Admit(n)
        /\ UNCHANGED <<toNode, masterOpen>>
     \/ /\ NodeSecret[n] = MasterSecret /\ NodeNonce[n] = "fresh"
        /\ MasterSends(n, AuthOk(MasterSecret))
        /\ handler' = [handler EXCEPT ![n] = "proving"]
        /\ UNCHANGED <<admitted, masterOpen>>
  /\ UNCHANGED <<nodeVars, phase, configsSent, deadlinePassed, exitCode, collector>>

\* The proof is out: the connection is admitted, with no second look at the
\* room left.
ProofSent(n) ==
  /\ phase \notin Ended
  /\ handler[n] = "proving"
  /\ Admit(n)
  /\ UNCHANGED <<nodeVars, phase, configsSent, deadlinePassed, exitCode, collector,
                 toMaster, toNode, masterOpen>>

\* The answer is of another kind, the 5 s that each write and read of the
\* handshake has run out, or the connection is lost.
AuthFails(n) ==
  /\ phase \notin Ended
  /\ handler[n] \in {"auth", "proving"}
  /\ Reject(n)
  /\ UNCHANGED <<nodeVars, phase, configsSent, deadlinePassed, exitCode, collector, toMaster, toNode>>

-------------------------------------------------------------------------------
(* The master's own thread: run_master.                                       *)

\* 300 s passed and too few nodes came.
ReadyTimeout ==
  /\ phase = "accepting"
  /\ ~Ready
  /\ phase' = "abandoning"
  /\ UNCHANGED <<nodeVars, admitted, configsSent, deadlinePassed, exitCode, handler, collector,
                 toMaster, toNode, masterOpen>>

\* Those that did come are closed, the listener last, and None is returned;
\* wait_closed() raises instead if one of them is known to have been lost.
Abandon ==
  /\ phase = "abandoning"
  /\ \/ MasterEnds("noresult", 1)
     \/ /\ \E i \in DOMAIN admitted : ~nodeOpen[admitted[i]]
        /\ MasterEnds("raised", 1)
  /\ UNCHANGED <<nodeVars, admitted, configsSent, deadlinePassed, handler, collector, toMaster, toNode>>

\* The first ExpectWorkers connections are selected and the server closed.
StopAccepting ==
  /\ phase = "accepting"
  /\ Ready
  /\ phase' = "distributing"
  /\ UNCHANGED <<nodeVars, admitted, configsSent, deadlinePassed, exitCode, handler, collector,
                 toMaster, toNode, masterOpen>>

\* Fault variant: every node is sent the first share.
SendConfigUnsharded ==
  /\ phase = "distributing"
  /\ configsSent < ExpectWorkers
  /\ MasterSends(SelectedSeq[configsSent + 1], Config(1))
  /\ configsSent' = configsSent + 1
  /\ phase' = "draining"
  /\ UNCHANGED <<nodeVars, admitted, deadlinePassed, exitCode, handler, collector,
                 toMaster, masterOpen>>

\* One turn of the distribution loop writes the next share.
SendConfig ==
  /\ phase = "distributing"
  /\ configsSent < ExpectWorkers
  /\ MasterSends(SelectedSeq[configsSent + 1], Config(configsSent + 1))
  /\ configsSent' = configsSent + 1
  /\ phase' = "draining"
  /\ UNCHANGED <<nodeVars, admitted, deadlinePassed, exitCode, handler, collector,
                 toMaster, masterOpen>>

\* drain() returns, or raises because the loss of the connection is known, and
\* nothing catches that.
DrainReturns ==
  /\ phase = "draining"
  /\ \/ phase' = "distributing" /\ UNCHANGED <<exitCode, masterOpen>>
     \/ ~nodeOpen[SelectedSeq[configsSent]] /\ MasterEnds("raised", 1)
  /\ UNCHANGED <<nodeVars, admitted, configsSent, deadlinePassed, handler, collector,
                 toMaster, toNode>>

\* The shared deadline starts and one collector per selected node with it.
StartCollecting ==
  /\ phase = "distributing"
  /\ configsSent = ExpectWorkers
  /\ phase' = "collecting"
  /\ collector' = [n \in Node |-> IF n \in Selected THEN "reading" ELSE collector[n]]
  /\ UNCHANGED <<nodeVars, admitted, configsSent, deadlinePassed, exitCode, handler,
                 toMaster, toNode, masterOpen>>

DeadlinePasses ==
  /\ phase = "collecting"
  /\ ~deadlinePassed
  /\ deadlinePassed' = TRUE
  /\ UNCHANGED <<nodeVars, phase, admitted, configsSent, exitCode, handler, collector,
                 toMaster, toNode, masterOpen>>

\* _collect_one is done with this node, whatever the reason, and closes the
\* stream; what is left of it is wait_closed(), which the master's end awaits.
Settle(n, as) ==
  /\ collector' = [collector EXCEPT ![n] = as]
  /\ MasterCloses(n)

\* Fault variant: an unusable result is not caught.
CollectUncaught(n) ==
  /\ phase = "collecting"
  /\ collector[n] = "reading"
  /\ \E t \in {"progress", "result", "error"} \cup ForeignReplies :
       /\ MasterReads(n, Msg(t))
       /\ \/ /\ t = "progress"
             /\ UNCHANGED <<collector, masterOpen, phase, exitCode>>
          \/ /\ t = "result"
             /\ Settle(n, "counted")
             /\ UNCHANGED <<phase, exitCode>>
          \/ /\ t \notin {"progress", "result", "malformed"}
             /\ Settle(n, "charged")
             /\ UNCHANGED <<phase, exitCode>>
          \/ /\ t = "malformed"
             /\ MasterEnds("raised", 1)
             /\ UNCHANGED collector
  /\ UNCHANGED <<nodeVars, admitted, configsSent, deadlinePassed, handler, toNode>>

\* One turn of _collect_one: progress keeps it reading; a usable result is
\* counted; a refusal, an unusable result or an unknown message is charged to
\* the node; a message that is no JSON object makes msg.get raise, which nothing
\* in _collect_one catches.
Collect(n) ==
  /\ phase = "collecting"
  /\ collector[n] = "reading"
  /\ \E t \in {"progress", "result", "error"} \cup ForeignReplies :
       /\ MasterReads(n, Msg(t))
       /\ \/ /\ t = "progress"
             /\ UNCHANGED <<collector, masterOpen>>
          \/ /\ t = "result"
             /\ Settle(n, "counted")
          \/ /\ t \notin {"progress", "result", "nonobject"}
             /\ Settle(n, "charged")
          \/ /\ t = "nonobject"
             /\ Settle(n, "garbled")
  /\ UNCHANGED <<nodeVars, phase, exitCode, admitted, configsSent, deadlinePassed, handler, toNode>>

\* Fault variant: the collectors have no deadline.
CollectFailsOnLossOnly(n) ==
  /\ phase = "collecting"
  /\ collector[n] = "reading"
  /\ MasterSeesEof(n)
  /\ Settle(n, "charged")
  /\ UNCHANGED <<nodeVars, phase, admitted, configsSent, deadlinePassed, exitCode, handler,
                 toMaster, toNode>>

\* The connection is lost, or the deadline runs out, before a result came.
CollectFails(n) ==
  /\ phase = "collecting"
  /\ collector[n] = "reading"
  /\ MasterSeesEof(n) \/ deadlinePassed
  /\ Settle(n, "charged")
  /\ UNCHANGED <<nodeVars, phase, admitted, configsSent, deadlinePassed, exitCode, handler,
                 toMaster, toNode>>

Collected == {n \in Node : collector[n] = "counted"}

\* Fault variants: the codes are added up; missing nodes are only logged.
ExitCodeSummed(reported, breached, baselineCode) ==
  (IF reported < ExpectWorkers /\ ~AllowPartial THEN 1 ELSE 0)
    + (IF breached THEN 2 ELSE 0) + baselineCode

ExitCodeLenient(reported, breached, baselineCode) ==
  IF breached THEN 2 ELSE baselineCode

\* A partial run fails unless it was accepted; a breached threshold (2)
\* outranks everything, the baseline gate (1 or 3) outranks the rest.
ExitCode(reported, breached, baselineCode) ==
  LET partial  == IF reported < ExpectWorkers /\ ~AllowPartial THEN 1 ELSE 0
      absolute == IF breached THEN 2 ELSE partial
  IN  IF baselineCode # 0 /\ absolute # 2 THEN baselineCode ELSE absolute

\* Fault variant: the first result ends the wait for the others.
FinishOnFirst ==
  /\ phase = "collecting"
  /\ Collected # {}
  /\ \E breached \in BOOLEAN, baselineCode \in {0, 1, 3} :
       MasterEnds("reported", ExitCode(Cardinality(Collected), breached, baselineCode))
  /\ UNCHANGED <<nodeVars, admitted, configsSent, deadlinePassed, handler, collector, toMaster, toNode>>

\* An exception out of one collector ends gather() and run_master with it; the
\* collectors still reading are cancelled as the process ends.
Raise ==
  /\ phase = "collecting"
  /\ \E n \in Node : collector[n] = "garbled"
  /\ MasterEnds("raised", 1)
  /\ UNCHANGED <<nodeVars, admitted, configsSent, deadlinePassed, handler, collector, toMaster, toNode>>

\* gather() returns once every collector has.
Finish ==
  /\ phase = "collecting"
  /\ \A n \in Node : collector[n] \notin {"reading", "garbled"}
  /\ IF Collected = {}
     THEN MasterEnds("noresult", 1)
     ELSE \E breached \in BOOLEAN, baselineCode \in {0, 1, 3} :
            MasterEnds("reported", ExitCode(Cardinality(Collected), breached, baselineCode))
  /\ UNCHANGED <<nodeVars, admitted, configsSent, deadlinePassed, handler, collector, toMaster, toNode>>

-------------------------------------------------------------------------------
NodeStep(n) ==
  \/ Connect(n) \/ ConnectRefused(n)
  \/ ReceiveChallenge(n) \/ ReceiveProof(n) \/ ReceiveConfig(n) \/ StopWaiting(n)
  \/ SendProgress(n) \/ SendResult(n) \/ ForeignReply(n) \/ Crash(n)

HandlerStep(n) == HandleWorker(n) \/ ReceiveAuth(n) \/ ProofSent(n) \/ AuthFails(n)

MasterStep ==
  \/ ReadyTimeout \/ Abandon \/ StopAccepting
  \/ SendConfig \/ DrainReturns \/ StartCollecting \/ DeadlinePasses
  \/ \E n \in Node : Collect(n) \/ CollectFails(n)
  \/ Raise \/ Finish

Next == MasterStep \/ \E n \in Node : NodeStep(n) \/ HandlerStep(n)

Spec == Init /\ [][Next]_vars

\* The waits of the master that no timer bounds: the drain() of a config, and
\* wait_closed() on the streams it is done with.  A node that stays connected
\* and reads no more may hold them up for good.
HeldUp ==
  \/ phase = "abandoning" /\ \E i \in DOMAIN admitted : Unread(admitted[i])
  \/ phase = "draining" /\ Unread(SelectedSeq[configsSent])
  \/ /\ phase = "collecting"
     /\ \/ \E n \in Node : collector[n] = "garbled"
        \/ \A n \in Node : collector[n] # "reading"
     /\ \E n \in Selected : Unread(n)

(***************************************************************************)
(* The event loop runs every task that can run and fires every timer; an    *)
(* untimed wait is only certain to return once nothing holds it up.         *)
(* Nothing is assumed of the nodes: they may hang, crash or never come.     *)
(***************************************************************************)
MasterFairness ==
  /\ WF_vars(ReadyTimeout) /\ WF_vars(StopAccepting)
  /\ WF_vars(SendConfig) /\ WF_vars(StartCollecting) /\ WF_vars(DeadlinePasses)
  /\ \A n \in Node : WF_vars(Collect(n)) /\ WF_vars(CollectFails(n))
  /\ WF_vars(~HeldUp /\ Abandon) /\ WF_vars(~HeldUp /\ DrainReturns)
  /\ WF_vars(~HeldUp /\ Raise) /\ WF_vars(~HeldUp /\ Finish)

FairSpec == Spec /\ MasterFairness

-------------------------------------------------------------------------------
(* Properties.                                                                *)

\* Exit code 0 without --allow-partial means that every share of the load was
\* run to its end by a node of its own and that those results were counted:
\* a run missing workers never passes (README "A run missing workers exits 1").
ExitZeroMeansWholeLoad ==
  exitCode = 0 /\ ~AllowPartial =>
    \A i \in 1..ExpectWorkers :
      \E n \in Selected : collector[n] = "counted" /\ shard[n] = i /\ node[n] = "exit0"

\* A result that was counted is reported: the run does not end with "no results
\* received", and not with a traceback either -- except for the traceback of a
\* collector whose node sent a message that is no JSON object.
CountedIsReported ==
  Collected # {} =>
    /\ phase # "noresult"
    /\ phase = "raised" => \E n \in Selected : collector[n] = "garbled"

\* No two nodes run the same share of the load, whatever connects, is rejected
\* or dies on the way (_shard_config_load gives share i to selected[i]).
SharesAreDisjoint ==
  \A m, n \in Node : shard[m] = shard[n] /\ shard[n] # NoShard => m = n

\* The handshake is mutual: a node starts load only for a master that holds
\* the secret the node was given, and the master takes load only to nodes that
\* hold its own; a node or a master without one does not pair with one that has.
OnlyPeersShareSecret ==
  \A n \in Node :
    /\ shard[n] # NoShard => NodeSecret[n] = MasterSecret
    /\ MasterSecret # NoSecret /\ handler[n] = "admitted" => NodeSecret[n] = MasterSecret

\* The place of a connection in the order of admission, if it is one of those
\* that take part.
HoldsPlace(n, i) == i \in 1..ExpectWorkers /\ i <= Len(admitted) /\ admitted[i] = n

\* Handshakes begun in time go on after the listener is closed and append to
\* worker_connections while the configs go out and the results come in.  The run
\* leaves those nodes alone: only the first ExpectWorkers connections are ever
\* sent, run or collected from, each the share of its own place.
LateNodesStandAside ==
  \A n \in Node :
    /\ \A k \in 1..Len(toNode[n]) :
         toNode[n][k].type = "config" => HoldsPlace(n, toNode[n][k].arg)
    /\ shard[n] # NoShard => HoldsPlace(n, shard[n])
    /\ collector[n] # "none" => \E i \in 1..ExpectWorkers : HoldsPlace(n, i)

\* run_master comes to an end whatever the nodes do, hang, crash or never come;
\* the one thing that can keep it is a node that stays connected and does not
\* read what was written to it, since drain() and wait_closed() have no timer.
MasterEndsUnlessHeldUp == <>(phase \in Ended) \/ <>[]HeldUp

\* The protocol keeps the abstract promise.
Outcome ==
  [i \in 1..ExpectWorkers |->
     IF phase \in {"collecting"} \cup Ended /\ Ready /\ collector[admitted[i]] \in {"counted", "charged", "garbled"}
     THEN collector[admitted[i]]
     ELSE "pending"]

Cluster == INSTANCE ClusterRun WITH
  Shard <- 1..ExpectWorkers,
  outcome <- Outcome,
  verdict <- IF phase \in Ended THEN phase ELSE "open"

\* Every step of the protocol is a step of ClusterRun or leaves it unchanged.
ImplementsClusterRun == Cluster!Safety

===============================================================================
