-------------------------- MODULE MasterWorkerProofs --------------------------
(***************************************************************************)
(* Theorems about the distributed mode, for any number of nodes and of      *)
(* expected workers, any secrets and any set of foreign nodes.              *)
(***************************************************************************)
EXTENDS MasterWorker, FiniteSetTheorems, TLAPS

USE MasterWorkerAssumption

-------------------------------------------------------------------------------
(* The channels hold messages of their direction, whatever is read, written   *)
(* or lost.                                                                   *)

LEMMA ChannelTypes ==
  ASSUME NEW S, NEW f \in [Node -> Seq(S)], NEW n \in Node
  PROVE  /\ \A m \in S : [f EXCEPT ![n] = Append(@, m)] \in [Node -> Seq(S)]
         /\ f[n] # <<>> => [f EXCEPT ![n] = Tail(@)] \in [Node -> Seq(S)]
         /\ f[n] # <<>> => Head(f[n]) \in S
         /\ \A k \in 0..Len(f[n]) : [f EXCEPT ![n] = SubSeq(@, 1, k)] \in [Node -> Seq(S)]
<1>1. f[n] \in Seq(S)
  OBVIOUS
<1>2. \A k \in 0..Len(f[n]) : SubSeq(f[n], 1, k) \in Seq(S)
  BY <1>1
<1>3. QED
  BY <1>1, <1>2

LEMMA NodeSendsType ==
  ASSUME NEW n \in Node, NEW m \in FromNode, toMaster \in [Node -> Seq(FromNode)],
         NodeSends(n, m)
  PROVE  toMaster' \in [Node -> Seq(FromNode)]
BY ChannelTypes DEF NodeSends

LEMMA MasterSendsType ==
  ASSUME NEW n \in Node, NEW m \in FromMaster, toNode \in [Node -> Seq(FromMaster)],
         MasterSends(n, m)
  PROVE  toNode' \in [Node -> Seq(FromMaster)]
BY ChannelTypes DEF MasterSends

LEMMA NodeReadsType ==
  ASSUME NEW n \in Node, NEW m, toNode \in [Node -> Seq(FromMaster)], NodeReads(n, m)
  PROVE  m \in FromMaster /\ toNode' \in [Node -> Seq(FromMaster)]
BY ChannelTypes DEF NodeReads

LEMMA MasterReadsType ==
  ASSUME NEW n \in Node, NEW m, toMaster \in [Node -> Seq(FromNode)], MasterReads(n, m)
  PROVE  m \in FromNode /\ toMaster' \in [Node -> Seq(FromNode)]
BY ChannelTypes DEF MasterReads

LEMMA Messages ==
  /\ Challenge \in FromMaster /\ AuthOk(MasterSecret) \in FromMaster
  /\ \A i \in 1..ExpectWorkers : Config(i) \in FromMaster
  /\ \A m \in FromMaster : m.type = "config" => m.arg \in 1..ExpectWorkers
  /\ \A n \in Node : Auth(NodeSecret[n]) \in FromNode
  /\ Msg("progress") \in FromNode /\ Msg("result") \in FromNode /\ Msg("error") \in FromNode
  /\ \A t \in ForeignReplies : Msg(t) \in FromNode
<1>1. /\ Challenge \in FromMaster /\ AuthOk(MasterSecret) \in FromMaster
      /\ \A i \in 1..ExpectWorkers : Config(i) \in FromMaster
  BY DEF FromMaster
<1>2. \A m \in FromMaster : m.type = "config" => m.arg \in 1..ExpectWorkers
  BY DEF FromMaster, Challenge, AuthOk, Config
<1>3. \A n \in Node : Auth(NodeSecret[n]) \in FromNode
  BY DEF FromNode
<1>4. \A t \in {"progress", "result", "error"} \cup ForeignReplies : Msg(t) \in FromNode
  BY DEF FromNode
<1>5. QED
  BY <1>1, <1>2, <1>3, <1>4

LEMMA ExitCodes ==
  ASSUME NEW reported, NEW breached \in BOOLEAN, NEW baselineCode \in {0, 1, 3}
  PROVE  ExitCode(reported, breached, baselineCode) \in {0, 1, 2, 3}
BY DEF ExitCode

-------------------------------------------------------------------------------
(* Type correctness, one step per action.                                     *)

NodeState == {"idle", "running"} \cup Waiting \cup Gone

LEMMA NodeMoves ==
  ASSUME NEW n \in Node, NEW state \in NodeState, node \in [Node -> NodeState],
         nodeOpen \in [Node -> BOOLEAN], node' = [node EXCEPT ![n] = state],
         UNCHANGED nodeOpen \/ nodeOpen' = [nodeOpen EXCEPT ![n] = FALSE]
  PROVE  node' \in [Node -> NodeState] /\ nodeOpen' \in [Node -> BOOLEAN]
OBVIOUS

LEMMA NodeStepTypeOK ==
  ASSUME TypeOK, NEW n \in Node, NodeStep(n)
  PROVE  TypeOK'
<1> USE DEF TypeOK, Waiting, Gone, Ended
<1>1. CASE Connect(n)
  BY <1>1 DEF Connect, masterVars
<1>2. CASE ConnectRefused(n)
  BY <1>2 DEF ConnectRefused, masterVars
<1>3. CASE ReceiveChallenge(n)
  <2>1. PICK m \in FromMaster : NodeReads(n, m)
    BY <1>3 DEF ReceiveChallenge
  <2>2. toNode' \in [Node -> Seq(FromMaster)]
    BY <2>1, NodeReadsType
  <2>3. toMaster' \in [Node -> Seq(FromNode)]
    BY <1>3, NodeSendsType, Messages DEF ReceiveChallenge
  <2>4. /\ node' \in [Node -> {"idle", "running"} \cup Waiting \cup Gone]
        /\ nodeOpen' \in [Node -> BOOLEAN]
    <3>1. \/ \E state \in {"awaitProof", "awaitConfig"} :
                node' = [node EXCEPT ![n] = state] /\ UNCHANGED nodeOpen
          \/ NodeEnds(n, "exit1")
      BY <1>3 DEF ReceiveChallenge
    <3>2. node \in [Node -> NodeState] /\ nodeOpen \in [Node -> BOOLEAN]
      BY DEF NodeState
    <3>3. {"awaitProof", "awaitConfig", "exit1"} \subseteq NodeState
      BY DEF NodeState
    <3>4. node' \in [Node -> NodeState] /\ nodeOpen' \in [Node -> BOOLEAN]
      <4>1. CASE NodeEnds(n, "exit1")
        BY <4>1, <3>2, <3>3, NodeMoves DEF NodeEnds
      <4>2. ASSUME NEW state \in {"awaitProof", "awaitConfig"},
                   node' = [node EXCEPT ![n] = state], UNCHANGED nodeOpen
            PROVE  node' \in [Node -> NodeState] /\ nodeOpen' \in [Node -> BOOLEAN]
        BY <4>2, <3>2, <3>3, NodeMoves
      <4>3. QED
        BY <3>1, <4>1, <4>2
    <3>5. QED
      BY <3>4 DEF NodeState
  <2>5. UNCHANGED <<masterVars, handler, shard, progressSent, masterOpen>>
    BY <1>3 DEF ReceiveChallenge
  <2>6. QED
    BY <2>2, <2>3, <2>4, <2>5 DEF masterVars
<1>4. CASE ReceiveProof(n)
  <2>1. toNode' \in [Node -> Seq(FromMaster)]
    BY <1>4, NodeReadsType DEF ReceiveProof
  <2>2. /\ node' \in [Node -> {"idle", "running"} \cup Waiting \cup Gone]
        /\ nodeOpen' \in [Node -> BOOLEAN]
    <3>1. \/ node' = [node EXCEPT ![n] = "awaitConfig"] /\ UNCHANGED nodeOpen
          \/ NodeEnds(n, "exit1")
      BY <1>4 DEF ReceiveProof
    <3>2. node \in [Node -> NodeState] /\ nodeOpen \in [Node -> BOOLEAN]
      BY DEF NodeState
    <3>3. "awaitConfig" \in NodeState /\ "exit1" \in NodeState
      BY DEF NodeState
    <3>4. node' \in [Node -> NodeState] /\ nodeOpen' \in [Node -> BOOLEAN]
      BY <3>1, <3>2, <3>3, NodeMoves DEF NodeEnds
    <3>5. QED
      BY <3>4 DEF NodeState
  <2>3. UNCHANGED <<masterVars, handler, shard, progressSent, toMaster, masterOpen>>
    BY <1>4 DEF ReceiveProof
  <2>4. QED
    BY <2>1, <2>2, <2>3 DEF masterVars
<1>5. CASE ReceiveConfig(n)
  <2>1. PICK m \in FromMaster :
          /\ NodeReads(n, m)
          /\ \/ /\ m.type # "config"
                /\ NodeEnds(n, "exit1")
                /\ UNCHANGED <<shard, toMaster>>
             \/ /\ m.type = "config" /\ n \in NoHttp2
                /\ NodeEnds(n, "exit1")
                /\ NodeSends(n, Msg("error"))
                /\ UNCHANGED shard
             \/ /\ m.type = "config" /\ n \notin NoHttp2
                /\ node' = [node EXCEPT ![n] = "running"]
                /\ shard' = [shard EXCEPT ![n] = m.arg]
                /\ UNCHANGED <<nodeOpen, toMaster>>
    BY <1>5 DEF ReceiveConfig
  <2>2. toNode' \in [Node -> Seq(FromMaster)]
    BY <2>1, NodeReadsType
  <2>3. CASE m.type # "config"
    <3>1. NodeEnds(n, "exit1") /\ UNCHANGED <<shard, toMaster>>
      BY <2>1, <2>3
    <3>2. QED
      BY <1>5, <2>2, <3>1 DEF ReceiveConfig, NodeEnds, masterVars
  <2>4. CASE m.type = "config" /\ n \in NoHttp2
    <3>1. NodeEnds(n, "exit1") /\ NodeSends(n, Msg("error")) /\ UNCHANGED shard
      BY <2>1, <2>4
    <3>2. toMaster' \in [Node -> Seq(FromNode)]
      BY <3>1, NodeSendsType, Messages
    <3>3. node' = [node EXCEPT ![n] = "exit1"] /\ nodeOpen' = [nodeOpen EXCEPT ![n] = FALSE]
      BY <3>1 DEF NodeEnds
    <3>4. UNCHANGED <<masterVars, handler, progressSent, masterOpen>>
      BY <1>5 DEF ReceiveConfig
    <3>5. QED
      BY <2>2, <3>1, <3>2, <3>3, <3>4 DEF masterVars
  <2>5. CASE m.type = "config" /\ n \notin NoHttp2
    <3>1. m.arg \in 0..ExpectWorkers
      BY <2>5, Messages
    <3>2. shard' \in [Node -> 0..ExpectWorkers] /\ node' = [node EXCEPT ![n] = "running"]
          /\ UNCHANGED <<nodeOpen, toMaster>>
      BY <2>1, <2>5, <3>1
    <3>3. QED
      BY <1>5, <2>2, <3>2 DEF ReceiveConfig, masterVars
  <2>6. QED
    BY <2>3, <2>4, <2>5
<1>6. CASE StopWaiting(n)
  BY <1>6 DEF StopWaiting, NodeEnds, masterVars
<1>7. CASE SendProgress(n)
  <2>1. toMaster' \in [Node -> Seq(FromNode)]
    BY <1>7, NodeSendsType, Messages DEF SendProgress
  <2>2. progressSent' \in [Node -> 0..MaxProgress]
    BY <1>7 DEF SendProgress
  <2>3. UNCHANGED <<masterVars, handler, node, shard, toNode, nodeOpen, masterOpen>>
    BY <1>7 DEF SendProgress
  <2>4. QED
    BY <2>1, <2>2, <2>3 DEF masterVars
<1>8. CASE SendResult(n)
  <2>1. UNCHANGED <<masterVars, handler, shard, progressSent, toNode, masterOpen>>
    BY <1>8 DEF SendResult
  <2>2. CASE NodeSends(n, Msg("result")) /\ NodeEnds(n, "exit0")
    <3>1. toMaster' \in [Node -> Seq(FromNode)]
      BY <2>2, NodeSendsType, Messages
    <3>2. QED
      BY <2>1, <2>2, <3>1 DEF NodeEnds, masterVars
  <2>3. CASE NodeEnds(n, "exit1") /\ UNCHANGED toMaster
    BY <2>1, <2>3 DEF NodeEnds, masterVars
  <2>4. QED
    BY <1>8, <2>2, <2>3 DEF SendResult
<1>9. CASE ForeignReply(n)
  <2>1. toMaster' \in [Node -> Seq(FromNode)]
    BY <1>9, NodeSendsType, Messages DEF ForeignReply
  <2>2. QED
    BY <1>9, <2>1 DEF ForeignReply, NodeEnds, masterVars
<1>10. CASE Crash(n)
  <2>1. toMaster' \in [Node -> Seq(FromNode)]
    BY <1>10, ChannelTypes DEF Crash
  <2>2. QED
    BY <1>10, <2>1 DEF Crash, NodeEnds, masterVars
<1>11. QED
  BY <1>1, <1>2, <1>3, <1>4, <1>5, <1>6, <1>7, <1>8, <1>9, <1>10 DEF NodeStep

LEMMA HandlerStepTypeOK ==
  ASSUME TypeOK, NEW n \in Node, HandlerStep(n)
  PROVE  TypeOK'
<1> USE DEF TypeOK, Admit, Reject, MasterCloses, nodeVars, Ended
<1>1. CASE HandleWorker(n)
  <2>1. UNCHANGED <<nodeVars, phase, configsSent, deadlinePassed, exitCode, collector, toMaster>>
    BY <1>1 DEF HandleWorker
  <2>2. CASE Reject(n) /\ UNCHANGED toNode
    BY <2>1, <2>2
  <2>3. CASE Admit(n) /\ UNCHANGED <<toNode, masterOpen>>
    BY <2>1, <2>3
  <2>4. CASE /\ MasterSends(n, Challenge)
             /\ handler' = [handler EXCEPT ![n] = "auth"]
             /\ UNCHANGED <<admitted, masterOpen>>
    <3>1. toNode' \in [Node -> Seq(FromMaster)]
      BY <2>4, MasterSendsType, Messages
    <3>2. QED
      BY <2>1, <2>4, <3>1
  <2>5. QED
    BY <1>1, <2>2, <2>3, <2>4 DEF HandleWorker
<1>2. CASE ReceiveAuth(n)
  <2>1. UNCHANGED <<nodeVars, phase, configsSent, deadlinePassed, exitCode, collector>>
    BY <1>2 DEF ReceiveAuth
  <2>2. toMaster' \in [Node -> Seq(FromNode)]
    BY <1>2, MasterReadsType DEF ReceiveAuth
  <2>3. CASE /\ MasterSends(n, AuthOk(MasterSecret))
             /\ handler' = [handler EXCEPT ![n] = "proving"]
             /\ UNCHANGED <<admitted, masterOpen>>
    <3>1. toNode' \in [Node -> Seq(FromMaster)]
      BY <2>3, MasterSendsType, Messages
    <3>2. QED
      BY <2>1, <2>2, <2>3, <3>1
  <2>4. CASE Reject(n) /\ UNCHANGED toNode
    BY <2>1, <2>2, <2>4
  <2>5. CASE Admit(n) /\ UNCHANGED <<toNode, masterOpen>>
    BY <2>1, <2>2, <2>5
  <2>6. QED
    BY <1>2, <2>3, <2>4, <2>5 DEF ReceiveAuth
<1>3. CASE ProofSent(n)
  BY <1>3 DEF ProofSent
<1>4. CASE AuthFails(n)
  BY <1>4 DEF AuthFails
<1>5. QED
  BY <1>1, <1>2, <1>3, <1>4 DEF HandlerStep

LEMMA MasterStepTypeOK ==
  ASSUME TypeOK, MasterStep
  PROVE  TypeOK'
<1> USE DEF TypeOK, MasterEnds, Settle, MasterCloses, nodeVars, Ended
<1>1. CASE Abandon
  <2>1. \E how \in {"noresult", "raised"} : MasterEnds(how, 1)
    BY <1>1 DEF Abandon
  <2>2. UNCHANGED <<nodeVars, admitted, configsSent, deadlinePassed, handler, collector, toMaster, toNode>>
    BY <1>1 DEF Abandon
  <2>3. QED
    BY <2>1, <2>2
<1>2. CASE ReadyTimeout \/ StopAccepting
  BY <1>2 DEF ReadyTimeout, StopAccepting
<1>3. CASE SendConfig
  <2>1. UNCHANGED <<nodeVars, admitted, deadlinePassed, exitCode, handler, collector, toMaster, masterOpen>>
    BY <1>3 DEF SendConfig
  <2>2. /\ MasterSends(SelectedSeq[configsSent + 1], Config(configsSent + 1))
        /\ configsSent' = configsSent + 1 /\ configsSent' \in 1..ExpectWorkers
        /\ phase' = "draining"
    BY <1>3 DEF SendConfig
  <2>3. toNode' \in [Node -> Seq(FromMaster)]
    <3>1. CASE SelectedSeq[configsSent + 1] \in Node
      BY <2>2, <3>1, MasterSendsType, Messages
    <3>2. CASE SelectedSeq[configsSent + 1] \notin Node
      BY <2>2, <3>2 DEF MasterSends
    <3>3. QED
      BY <3>1, <3>2
  <2>4. QED
    BY <2>1, <2>2, <2>3
<1>10. CASE DrainReturns
  <2>1. UNCHANGED <<nodeVars, admitted, configsSent, deadlinePassed, handler, collector, toMaster, toNode>>
    BY <1>10 DEF DrainReturns
  <2>2. \/ phase' = "distributing" /\ UNCHANGED <<exitCode, masterOpen>>
        \/ MasterEnds("raised", 1)
    BY <1>10 DEF DrainReturns
  <2>3. CASE phase' = "distributing" /\ UNCHANGED <<exitCode, masterOpen>>
    BY <2>1, <2>3
  <2>4. CASE MasterEnds("raised", 1)
    BY <2>1, <2>4
  <2>5. QED
    BY <2>2, <2>3, <2>4
<1>11. CASE Raise
  BY <1>11 DEF Raise
<1>4. CASE StartCollecting
  BY <1>4 DEF StartCollecting
<1>5. CASE DeadlinePasses
  BY <1>5 DEF DeadlinePasses
<1>6. ASSUME NEW n \in Node, Collect(n)
      PROVE  TypeOK'
  <2>1. UNCHANGED <<nodeVars, phase, exitCode, admitted, configsSent, deadlinePassed, handler, toNode>>
    BY <1>6 DEF Collect
  <2>2. toMaster' \in [Node -> Seq(FromNode)]
    BY <1>6, MasterReadsType DEF Collect
  <2>3. CASE UNCHANGED <<collector, masterOpen>>
    BY <2>1, <2>2, <2>3
  <2>4. ASSUME NEW as \in {"counted", "charged", "garbled"}, Settle(n, as)
        PROVE  TypeOK'
    <3>1. /\ collector' \in [Node -> {"none", "reading", "counted", "charged", "garbled"}]
          /\ masterOpen' \in [Node -> BOOLEAN]
      BY <2>4
    <3>2. QED
      BY <2>1, <2>2, <3>1
  <2>5. QED
    BY <1>6, <2>3, <2>4 DEF Collect
<1>7. ASSUME NEW n \in Node, CollectFails(n)
      PROVE  TypeOK'
  BY <1>7 DEF CollectFails
<1>8. CASE Finish
  <2>1. /\ phase' \in Ended /\ exitCode' \in {0, 1, 2, 3}
        /\ masterOpen' = [n \in Node |-> FALSE]
    BY <1>8, ExitCodes DEF Finish, MasterEnds, Ended
  <2>2. UNCHANGED <<nodeVars, admitted, configsSent, deadlinePassed, handler, collector, toMaster, toNode>>
    BY <1>8 DEF Finish
  <2>3. QED
    BY <2>1, <2>2 DEF nodeVars
<1>9. QED
  BY <1>1, <1>2, <1>3, <1>4, <1>5, <1>6, <1>7, <1>8, <1>10, <1>11 DEF MasterStep

\* Every reachable state of the protocol is well typed.
THEOREM TypeCorrect == Spec => []TypeOK
<1>1. Init => TypeOK
  <2> SUFFICES ASSUME Init PROVE TypeOK
    OBVIOUS
  <2>1. \A S : <<>> \in Seq(S)
    OBVIOUS
  <2>2. /\ admitted \in Seq(Node)
        /\ toMaster \in [Node -> Seq(FromNode)]
        /\ toNode \in [Node -> Seq(FromMaster)]
    BY <2>1 DEF Init
  <2>3. shard \in [Node -> 0..ExpectWorkers] /\ progressSent \in [Node -> 0..MaxProgress]
    BY DEF Init, NoShard
  <2>4. /\ phase \in {"accepting", "abandoning", "distributing", "draining", "collecting"} \cup Ended
        /\ configsSent \in 0..ExpectWorkers
        /\ exitCode \in {NoCode, 0, 1, 2, 3}
    BY DEF Init
  <2>5. /\ handler \in [Node -> {"none", "accepted", "auth", "proving", "admitted", "rejected"}]
        /\ collector \in [Node -> {"none", "reading", "counted", "charged", "garbled"}]
        /\ node \in [Node -> {"idle", "running"} \cup Waiting \cup Gone]
    BY DEF Init
  <2>6. QED
    BY <2>2, <2>3, <2>4, <2>5 DEF Init, TypeOK
<1>2. TypeOK /\ [Next]_vars => TypeOK'
  <2> SUFFICES ASSUME TypeOK, [Next]_vars PROVE TypeOK'
    OBVIOUS
  <2>1. CASE MasterStep
    BY <2>1, MasterStepTypeOK
  <2>2. CASE \E n \in Node : NodeStep(n)
    BY <2>2, NodeStepTypeOK
  <2>3. CASE \E n \in Node : HandlerStep(n)
    BY <2>3, HandlerStepTypeOK
  <2>4. CASE UNCHANGED vars
    BY <2>4 DEF vars, TypeOK
  <2>5. QED
    BY <2>1, <2>2, <2>3, <2>4 DEF Next
<1>3. QED
  BY <1>1, <1>2, PTL DEF Spec

-------------------------------------------------------------------------------
(* The inductive invariant.                                                   *)

\* A connection is admitted once, by its own handler.
AdmittedOnce ==
  /\ \A i, j \in 1..Len(admitted) : admitted[i] = admitted[j] => i = j
  /\ \A i \in 1..Len(admitted) : handler[admitted[i]] = "admitted"
  /\ \A n \in Node : node[n] = "idle" => handler[n] = "none"

\* The distribution starts with enough connections, and none is ever removed.
ReadyOnceClosed ==
  phase \in {"distributing", "draining", "collecting", "reported"} \/ configsSent > 0 => Ready

\* Share i is among the first `sent` shares, and goes to the i-th of conns.
SentTo(conns, sent, i, n) == i \in 1..sent /\ i <= Len(conns) /\ conns[i] = n

\* Every share that is on the wire or being run is the one of its node.
SharesFollowAdmission ==
  \A n \in Node :
    /\ \A k \in 1..Len(toNode[n]) :
         toNode[n][k].type = "config" => SentTo(admitted, configsSent, toNode[n][k].arg, n)
    /\ shard[n] # NoShard => SentTo(admitted, configsSent, shard[n], n)

ShareInv == AdmittedOnce /\ ReadyOnceClosed /\ SharesFollowAdmission

\* A node that runs has a share; a result comes from one that ran it to the end.
ResultsAreComplete ==
  \A n \in Node :
    /\ node[n] = "running" => shard[n] # NoShard
    /\ (\E k \in 1..Len(toMaster[n]) : toMaster[n][k].type = "result") \/ collector[n] = "counted"
         => node[n] = "exit0" /\ shard[n] # NoShard

\* Only the selected connections are collected from, and only after distribution.
CollectorsAreSelected ==
  \A n \in Node : collector[n] # "none" =>
    n \in Selected /\ phase \in {"collecting"} \cup Ended

\* Exit code 0 is only given with every expected result, or by permission.
ZeroNeedsAll ==
  /\ exitCode # NoCode => phase \in Ended
  /\ exitCode = 0 => AllowPartial \/ ~(Cardinality(Collected) < ExpectWorkers)

ResultInv == ResultsAreComplete /\ CollectorsAreSelected /\ ZeroNeedsAll

\* A master without a secret sends no challenge, so a node with one never gets
\* past it there; a master with one admits only the nodes that hold it.
SecretsAgree ==
  \A n \in Node :
    /\ MasterSecret = NoSecret =>
         \A k \in 1..Len(toNode[n]) : toNode[n][k].type # "challenge"
    /\ MasterSecret = NoSecret
         /\ (node[n] \in {"awaitProof", "awaitConfig", "running"} \/ shard[n] # NoShard)
         => NodeSecret[n] = NoSecret
    /\ MasterSecret # NoSecret /\ handler[n] \in {"proving", "admitted"} =>
         NodeSecret[n] = MasterSecret

-------------------------------------------------------------------------------
(* What a step leaves in a channel: the old messages, and what was sent.      *)

\* Every message of channel b was in channel a, or is m.
Within(a, b, m) ==
  \A k \in 1..Len(b) : b[k] = m \/ \E j \in 1..Len(a) : b[k] = a[j]
Shrinks(a, b) == \A k \in 1..Len(b) : \E j \in 1..Len(a) : b[k] = a[j]

LEMMA ChannelContents ==
  ASSUME NEW S, NEW a \in Seq(S), NEW m \in S
  PROVE  /\ Within(a, Append(a, m), m)
         /\ Shrinks(a, a)
         /\ a # <<>> => Shrinks(a, Tail(a)) /\ \E j \in 1..Len(a) : Head(a) = a[j]
         /\ \A k \in 0..Len(a) : Shrinks(a, SubSeq(a, 1, k))
<1>1. Within(a, Append(a, m), m)
  BY DEF Within
<1>2. Shrinks(a, a)
  BY DEF Shrinks
<1>3. ASSUME a # <<>>
      PROVE  Shrinks(a, Tail(a)) /\ \E j \in 1..Len(a) : Head(a) = a[j]
  <2>1. \A k \in 1..Len(Tail(a)) : Tail(a)[k] = a[k + 1] /\ k + 1 \in 1..Len(a)
    BY <1>3
  <2>2. Head(a) = a[1] /\ 1 \in 1..Len(a)
    BY <1>3
  <2>3. QED
    BY <2>1, <2>2 DEF Shrinks
<1>4. \A k \in 0..Len(a) : Shrinks(a, SubSeq(a, 1, k))
  BY DEF Shrinks
<1>5. QED
  BY <1>1, <1>2, <1>3, <1>4

LEMMA MasterSendsContents ==
  ASSUME TypeOK, NEW n \in Node, NEW m \in FromMaster, MasterSends(n, m)
  PROVE  /\ Within(toNode[n], toNode'[n], m)
         /\ \A p \in Node \ {n} : toNode'[p] = toNode[p]
<1>1. toNode[n] \in Seq(FromMaster)
  BY DEF TypeOK
<1>2. toNode'[n] \in {toNode[n], Append(toNode[n], m)}
  BY DEF MasterSends, TypeOK
<1>3. Within(toNode[n], toNode[n], m)
  BY DEF Within
<1>6. Within(toNode[n], Append(toNode[n], m), m)
  BY <1>1, ChannelContents
<1>4. Within(toNode[n], toNode'[n], m)
  BY <1>2, <1>3, <1>6
<1>5. QED
  BY <1>4 DEF MasterSends, TypeOK

LEMMA NodeReadsContents ==
  ASSUME TypeOK, NEW n \in Node, NEW m, NodeReads(n, m)
  PROVE  /\ Shrinks(toNode[n], toNode'[n])
         /\ \E j \in 1..Len(toNode[n]) : m = toNode[n][j]
         /\ \A p \in Node \ {n} : toNode'[p] = toNode[p]
<1>1. toNode[n] \in Seq(FromMaster) /\ toNode[n] # <<>> /\ m \in FromMaster
  BY ChannelTypes DEF TypeOK, NodeReads
<1>2. toNode'[n] = Tail(toNode[n]) /\ m = Head(toNode[n])
  BY DEF NodeReads, TypeOK
<1>3. QED
  BY <1>1, <1>2, ChannelContents DEF NodeReads, TypeOK

LEMMA NodeSendsContents ==
  ASSUME TypeOK, NEW n \in Node, NEW m \in FromNode, NodeSends(n, m)
  PROVE  /\ Within(toMaster[n], toMaster'[n], m)
         /\ \A p \in Node \ {n} : toMaster'[p] = toMaster[p]
<1>1. toMaster[n] \in Seq(FromNode)
  BY DEF TypeOK
<1>2. toMaster'[n] \in {toMaster[n], Append(toMaster[n], m)}
  BY DEF NodeSends, TypeOK
<1>3. Within(toMaster[n], toMaster[n], m)
  BY DEF Within
<1>6. Within(toMaster[n], Append(toMaster[n], m), m)
  BY <1>1, ChannelContents
<1>4. Within(toMaster[n], toMaster'[n], m)
  BY <1>2, <1>3, <1>6
<1>5. QED
  BY <1>4 DEF NodeSends, TypeOK

LEMMA MasterReadsContents ==
  ASSUME TypeOK, NEW n \in Node, NEW m, MasterReads(n, m)
  PROVE  /\ Shrinks(toMaster[n], toMaster'[n])
         /\ \E j \in 1..Len(toMaster[n]) : m = toMaster[n][j]
         /\ \A p \in Node \ {n} : toMaster'[p] = toMaster[p]
<1>1. toMaster[n] \in Seq(FromNode) /\ toMaster[n] # <<>> /\ m \in FromNode
  BY ChannelTypes DEF TypeOK, MasterReads
<1>2. toMaster'[n] = Tail(toMaster[n]) /\ m = Head(toMaster[n])
  BY DEF MasterReads, TypeOK
<1>3. QED
  BY <1>1, <1>2, ChannelContents DEF MasterReads, TypeOK

-------------------------------------------------------------------------------
(* Each share stays with the node it was sent to.                             *)

\* Every share stays where it is if nothing sent is forgotten, and a config or a
\* share that is new is the one of its node.
LEMMA SharesKept ==
  ASSUME SharesFollowAdmission,
         \A i, n : SentTo(admitted, configsSent, i, n) => SentTo(admitted', configsSent', i, n),
         \A n \in Node : \E m :
           /\ Within(toNode[n], toNode'[n], m)
           /\ m.type = "config" => SentTo(admitted', configsSent', m.arg, n),
         \A n \in Node : shard'[n] # shard[n] => SentTo(admitted', configsSent', shard'[n], n)
  PROVE  SharesFollowAdmission'
<1>1. ASSUME NEW n \in Node, NEW k \in 1..Len(toNode'[n]), toNode'[n][k].type = "config"
      PROVE  SentTo(admitted', configsSent', toNode'[n][k].arg, n)
  <2>1. PICK m : /\ Within(toNode[n], toNode'[n], m)
                 /\ m.type = "config" => SentTo(admitted', configsSent', m.arg, n)
    OBVIOUS
  <2>2. CASE toNode'[n][k] = m
    BY <1>1, <2>1, <2>2
  <2>3. CASE \E j \in 1..Len(toNode[n]) : toNode'[n][k] = toNode[n][j]
    <3>1. SentTo(admitted, configsSent, toNode'[n][k].arg, n)
      BY <1>1, <2>3 DEF SharesFollowAdmission
    <3>2. QED
      BY <3>1
  <2>4. QED
    BY <2>1, <2>2, <2>3 DEF Within
<1>2. ASSUME NEW n \in Node, shard'[n] # NoShard
      PROVE  SentTo(admitted', configsSent', shard'[n], n)
  BY <1>2 DEF SharesFollowAdmission
<1>3. QED
  BY <1>1, <1>2 DEF SharesFollowAdmission

LEMMA NoNewConfig ==
  ASSUME NEW n \in Node, NEW m, m.type # "config", NEW a, NEW b,
         Within(a[n], b[n], m) \/ Shrinks(a[n], b[n]),
         \A p \in Node \ {n} : b[p] = a[p]
  PROVE  \A p \in Node : Within(a[p], b[p], m)
BY DEF Within, Shrinks

\* In particular one that touches none of what the invariant speaks of.
LEMMA ShareFrame ==
  ASSUME TypeOK, ShareInv, UNCHANGED <<admitted, configsSent, toNode, shard, handler>>,
         \A p \in Node : node'[p] = "idle" => node[p] = "idle",
         \/ phase' \in {phase, "abandoning", "raised", "noresult"}
         \/ phase \in {"draining", "collecting"}
  PROVE  ShareInv'
<1>1. AdmittedOnce'
  BY DEF ShareInv, AdmittedOnce
<1>2. ReadyOnceClosed'
  BY DEF ShareInv, ReadyOnceClosed, Ready
<1>3. SharesFollowAdmission'
  BY DEF ShareInv, SharesFollowAdmission, SentTo
<1>4. QED
  BY <1>1, <1>2, <1>3 DEF ShareInv

\* What a node's step other than Connect may do to the master and to itself.
LEMMA NodeStepEffect ==
  ASSUME TypeOK, NEW n \in Node, NodeStep(n), ~Connect(n)
  PROVE  /\ UNCHANGED <<masterVars, handler>>
         /\ node' = [node EXCEPT ![n] = node'[n]] /\ node'[n] # "idle"
         /\ node[n] \notin Gone
<1> USE DEF NodeEnds, Waiting, Gone, TypeOK
<1>1. CASE ConnectRefused(n)
  BY <1>1 DEF ConnectRefused
<1>2. CASE ReceiveChallenge(n)
  BY <1>2 DEF ReceiveChallenge
<1>3. CASE ReceiveProof(n)
  BY <1>3 DEF ReceiveProof
<1>4. CASE ReceiveConfig(n)
  <2>1. UNCHANGED <<masterVars, handler>> /\ node[n] = "awaitConfig"
    BY <1>4 DEF ReceiveConfig
  <2>2. \E how \in {"exit1", "running"} : node' = [node EXCEPT ![n] = how]
    BY <1>4 DEF ReceiveConfig
  <2>3. QED
    BY <2>1, <2>2
<1>5. CASE StopWaiting(n)
  BY <1>5 DEF StopWaiting
<1>6. CASE SendProgress(n)
  BY <1>6 DEF SendProgress
<1>7. CASE SendResult(n)
  <2>1. UNCHANGED <<masterVars, handler>> /\ node[n] = "running"
    BY <1>7 DEF SendResult
  <2>2. \E how \in {"exit0", "exit1"} : node' = [node EXCEPT ![n] = how]
    BY <1>7 DEF SendResult
  <2>3. QED
    BY <2>1, <2>2
<1>8. CASE ForeignReply(n)
  BY <1>8 DEF ForeignReply
<1>9. CASE Crash(n)
  BY <1>9 DEF Crash
<1>10. QED
  BY <1>1, <1>2, <1>3, <1>4, <1>5, <1>6, <1>7, <1>8, <1>9 DEF NodeStep

\* ... and to what it has been sent.
LEMMA NodeStepTakes ==
  ASSUME TypeOK, NEW n \in Node, NodeStep(n)
  PROVE  /\ UNCHANGED toNode \/ \E m \in FromMaster : NodeReads(n, m)
         /\ \/ UNCHANGED shard
            \/ \E m \in FromMaster : /\ NodeReads(n, m) /\ m.type = "config"
                                    /\ shard' = [shard EXCEPT ![n] = m.arg]
                                    /\ node[n] = "awaitConfig" /\ node'[n] = "running"
<1> USE DEF TypeOK
<1>1. CASE Connect(n) \/ ConnectRefused(n)
  BY <1>1 DEF Connect, ConnectRefused
<1>2. CASE ReceiveChallenge(n)
  BY <1>2 DEF ReceiveChallenge
<1>3. CASE ReceiveProof(n)
  BY <1>3, Messages DEF ReceiveProof
<1>4. CASE ReceiveConfig(n)
  <2>1. node[n] = "awaitConfig"
    BY <1>4 DEF ReceiveConfig
  <2>2. PICK m \in FromMaster :
          /\ NodeReads(n, m)
          /\ \/ UNCHANGED shard
             \/ /\ m.type = "config"
                /\ node' = [node EXCEPT ![n] = "running"]
                /\ shard' = [shard EXCEPT ![n] = m.arg]
    BY <1>4 DEF ReceiveConfig
  <2>3. QED
    BY <2>1, <2>2
<1>5. CASE StopWaiting(n) \/ Crash(n)
  BY <1>5 DEF StopWaiting, Crash
<1>6. CASE SendProgress(n) \/ SendResult(n) \/ ForeignReply(n)
  BY <1>6 DEF SendProgress, SendResult, ForeignReply
<1>7. QED
  BY <1>1, <1>2, <1>3, <1>4, <1>5, <1>6 DEF NodeStep

LEMMA NodeStepShareInv ==
  ASSUME TypeOK, ShareInv, NEW n \in Node, NodeStep(n)
  PROVE  ShareInv'
<1>1. AdmittedOnce'
  <2>1. CASE Connect(n)
    <3>1. /\ UNCHANGED admitted
          /\ handler' = [handler EXCEPT ![n] = "accepted"]
          /\ \A p \in Node \ {n} : node'[p] = node[p]
          /\ node'[n] # "idle"
          /\ node[n] = "idle"
      BY <2>1 DEF Connect, masterVars, TypeOK
    <3>2. handler[n] = "none" /\ \A i \in 1..Len(admitted) : admitted[i] \in Node
      BY <3>1 DEF ShareInv, AdmittedOnce, TypeOK
    <3>3. \A p \in Node : node'[p] = "idle" => p # n /\ node[p] = "idle"
      BY <3>1 DEF TypeOK
    <3>4. \A i \in 1..Len(admitted) : handler'[admitted[i]] = "admitted"
      <4>1. \A i \in 1..Len(admitted) : handler[admitted[i]] = "admitted" /\ admitted[i] # n
        BY <3>2 DEF ShareInv, AdmittedOnce
      <4>2. \A p \in Node \ {n} : handler'[p] = handler[p]
        BY <3>1 DEF TypeOK
      <4>3. QED
        BY <3>2, <4>1, <4>2
    <3>5. \A p \in Node : node'[p] = "idle" => handler'[p] = "none"
      BY <3>1, <3>3 DEF ShareInv, AdmittedOnce, TypeOK
    <3>6. QED
      BY <3>1, <3>4, <3>5 DEF ShareInv, AdmittedOnce
  <2>2. CASE ~Connect(n)
    <3>1. UNCHANGED <<admitted, handler>> /\ \A p \in Node : node'[p] = "idle" => node[p] = "idle"
      BY <2>2, NodeStepEffect DEF masterVars, TypeOK
    <3>2. QED
      BY <3>1 DEF ShareInv, AdmittedOnce, TypeOK
  <2>3. QED
    BY <2>1, <2>2
<1>2. UNCHANGED <<phase, admitted, configsSent>>
  BY NodeStepEffect DEF Connect, masterVars
<1>3. ReadyOnceClosed'
  BY <1>2 DEF ShareInv, ReadyOnceClosed, Ready
<1>4. ASSUME NEW p \in Node
      PROVE  Within(toNode[p], toNode'[p], Challenge)
  <2>1. CASE UNCHANGED toNode
    BY <2>1 DEF Within
  <2>2. CASE \E m \in FromMaster : NodeReads(n, m)
    <3>1. PICK m \in FromMaster : NodeReads(n, m)
      BY <2>2
    <3>2. Shrinks(toNode[n], toNode'[n]) /\ (p # n => toNode'[p] = toNode[p])
      BY <3>1, NodeReadsContents
    <3>3. CASE p = n
      BY <3>2, <3>3 DEF Within, Shrinks
    <3>4. CASE p # n
      BY <3>2, <3>4 DEF Within
    <3>5. QED
      BY <3>3, <3>4
  <2>3. QED
    BY <2>1, <2>2, NodeStepTakes
<1>5. ASSUME NEW p \in Node, shard'[p] # shard[p]
      PROVE  SentTo(admitted, configsSent, shard'[p], p)
  <2>1. PICK m \in FromMaster : /\ NodeReads(n, m) /\ m.type = "config"
                                /\ shard' = [shard EXCEPT ![n] = m.arg]
    BY <1>5, NodeStepTakes
  <2>2. p = n /\ shard'[p] = m.arg
    BY <1>5, <2>1 DEF TypeOK
  <2>3. \E j \in 1..Len(toNode[n]) : m = toNode[n][j]
    BY <2>1, NodeReadsContents
  <2>4. QED
    BY <2>1, <2>2, <2>3 DEF ShareInv, SharesFollowAdmission
<1>6. SharesFollowAdmission'
  <2>1. Challenge.type # "config"
    BY DEF Challenge
  <2>2. QED
    BY <1>2, <1>4, <1>5, <2>1, SharesKept DEF ShareInv
<1>7. QED
  BY <1>1, <1>3, <1>6 DEF ShareInv

\* What a connection handler's step may do.
LEMMA HandlerStepEffect ==
  ASSUME TypeOK, NEW n \in Node, HandlerStep(n)
  PROVE  /\ UNCHANGED <<nodeVars, phase, configsSent, deadlinePassed, exitCode, collector>>
         /\ phase \notin Ended
         /\ handler[n] \in {"accepted", "auth", "proving"}
         /\ \A p \in Node \ {n} : handler'[p] = handler[p]
         /\ \/ UNCHANGED admitted
            \/ admitted' = Append(admitted, n) /\ handler'[n] = "admitted"
<1> USE DEF Admit, Reject, TypeOK
<1>1. CASE HandleWorker(n)
  <2>1. /\ UNCHANGED <<nodeVars, phase, configsSent, deadlinePassed, exitCode, collector>>
        /\ phase \notin Ended /\ handler[n] = "accepted"
    BY <1>1 DEF HandleWorker
  <2>2. \/ Reject(n) \/ Admit(n)
        \/ handler' = [handler EXCEPT ![n] = "auth"] /\ UNCHANGED admitted
    BY <1>1 DEF HandleWorker
  <2>3. QED
    BY <2>1, <2>2
<1>2. CASE ReceiveAuth(n)
  <2>1. /\ UNCHANGED <<nodeVars, phase, configsSent, deadlinePassed, exitCode, collector>>
        /\ phase \notin Ended /\ handler[n] = "auth"
    BY <1>2 DEF ReceiveAuth
  <2>2. \/ Reject(n) \/ Admit(n)
        \/ handler' = [handler EXCEPT ![n] = "proving"] /\ UNCHANGED admitted
    BY <1>2 DEF ReceiveAuth
  <2>3. QED
    BY <2>1, <2>2
<1>3. CASE ProofSent(n) \/ AuthFails(n)
  BY <1>3 DEF ProofSent, AuthFails
<1>4. QED
  BY <1>1, <1>2, <1>3 DEF HandlerStep

\* A handler sends nothing but its side of the handshake.
LEMMA HandlerStepSends ==
  ASSUME TypeOK, NEW n \in Node, HandlerStep(n)
  PROVE  \A p \in Node : \E m \in {Challenge, AuthOk(MasterSecret)} :
            Within(toNode[p], toNode'[p], m)
<1>1. \/ UNCHANGED toNode
      \/ \E m \in {Challenge, AuthOk(MasterSecret)} : MasterSends(n, m)
  <2>1. CASE HandleWorker(n)
    BY <2>1 DEF HandleWorker
  <2>2. CASE ReceiveAuth(n)
    BY <2>2 DEF ReceiveAuth
  <2>3. CASE ProofSent(n) \/ AuthFails(n)
    BY <2>3 DEF ProofSent, AuthFails
  <2>4. QED
    BY <2>1, <2>2, <2>3 DEF HandlerStep
<1>2. CASE UNCHANGED toNode
  BY <1>2 DEF Within
<1>3. ASSUME NEW m \in {Challenge, AuthOk(MasterSecret)}, MasterSends(n, m)
      PROVE  \A p \in Node : Within(toNode[p], toNode'[p], m)
  <2>1. m \in FromMaster
    BY Messages
  <2>2. QED
    BY <1>3, <2>1, MasterSendsContents DEF Within
<1>4. QED
  BY <1>1, <1>2, <1>3

LEMMA HandlerStepShareInv ==
  ASSUME TypeOK, ShareInv, NEW n \in Node, HandlerStep(n)
  PROVE  ShareInv'
<1>1. UNCHANGED <<shard, node, phase, configsSent>> /\ admitted \in Seq(Node)
  BY HandlerStepEffect DEF nodeVars, TypeOK
<1>2. UNCHANGED admitted \/ admitted' = Append(admitted, n)
  BY HandlerStepEffect
<1>3. Len(admitted) <= Len(admitted') /\ \A i \in 1..Len(admitted) : admitted'[i] = admitted[i]
  BY <1>1, <1>2
<1>4. AdmittedOnce'
  <2>1. \A i \in 1..Len(admitted) : admitted[i] \in Node /\ admitted[i] # n
    BY <1>1, HandlerStepEffect DEF ShareInv, AdmittedOnce
  <2>2. \A i, j \in 1..Len(admitted') : admitted'[i] = admitted'[j] => i = j
    <3>1. \A i, j \in 1..Len(admitted) : admitted[i] = admitted[j] => i = j
      BY DEF ShareInv, AdmittedOnce
    <3>2. CASE UNCHANGED admitted
      BY <3>1, <3>2
    <3>3. CASE admitted' = Append(admitted, n)
      <4>1. Len(admitted') = Len(admitted) + 1 /\ Len(admitted) \in Nat /\ admitted'[Len(admitted) + 1] = n
        BY <1>1, <3>3
      <4>2. QED
        BY <1>3, <2>1, <3>1, <4>1
    <3>4. QED
      BY <1>2, <3>2, <3>3
  <2>3. \A i \in 1..Len(admitted') : handler'[admitted'[i]] = "admitted"
    <3>1. \A i \in 1..Len(admitted) : handler'[admitted[i]] = "admitted"
      BY <2>1, HandlerStepEffect DEF ShareInv, AdmittedOnce
    <3>2. CASE UNCHANGED admitted
      BY <3>1, <3>2
    <3>3. CASE admitted' = Append(admitted, n)
      <4>1. handler'[n] = "admitted"
        BY <1>1, <3>3, HandlerStepEffect
      <4>2. QED
        BY <1>1, <3>1, <3>3, <4>1
    <3>4. QED
      BY <1>2, <3>2, <3>3
  <2>4. \A p \in Node : node'[p] = "idle" => handler'[p] = "none"
    BY <1>1, HandlerStepEffect DEF ShareInv, AdmittedOnce
  <2>5. QED
    BY <2>2, <2>3, <2>4 DEF AdmittedOnce
<1>5. ReadyOnceClosed'
  BY <1>1, <1>2, <1>3 DEF ShareInv, ReadyOnceClosed, Ready
<1>6. SharesFollowAdmission'
  <2>1. ASSUME NEW i, NEW p, SentTo(admitted, configsSent, i, p)
        PROVE  SentTo(admitted', configsSent', i, p)
    <3>1. i \in 1..configsSent /\ configsSent \in Nat /\ i <= Len(admitted) /\ admitted[i] = p
      BY <2>1 DEF SentTo, TypeOK
    <3>2. i \in 1..Len(admitted) /\ Len(admitted) \in Nat /\ Len(admitted') \in Nat
      BY <1>1, <1>2, <3>1
    <3>3. i <= Len(admitted') /\ admitted'[i] = p
      BY <1>3, <3>1, <3>2
    <3>4. QED
      BY <1>1, <3>1, <3>3 DEF SentTo
  <2>2. \A m \in {Challenge, AuthOk(MasterSecret)} : m.type # "config"
    BY DEF Challenge, AuthOk
  <2>3. QED
    BY <1>1, <2>1, <2>2, HandlerStepSends, SharesKept DEF ShareInv
<1>7. QED
  BY <1>4, <1>5, <1>6 DEF ShareInv

LEMMA MasterStepShareInv ==
  ASSUME TypeOK, ShareInv, MasterStep
  PROVE  ShareInv'
<1> USE DEF nodeVars, MasterEnds
<1>1. CASE ReadyTimeout \/ Abandon \/ DrainReturns
  <2>1. UNCHANGED <<admitted, configsSent, toNode, shard, handler, node>>
    BY <1>1 DEF ReadyTimeout, Abandon, DrainReturns
  <2>2. phase' \in {"abandoning", "raised", "noresult"} \/ phase = "draining"
    BY <1>1 DEF ReadyTimeout, Abandon, DrainReturns
  <2>3. QED
    BY <2>1, <2>2, ShareFrame
<1>2. CASE StopAccepting
  <2>1. UNCHANGED <<admitted, configsSent, toNode, shard, handler, node>> /\ Ready
    BY <1>2 DEF StopAccepting
  <2>2. QED
    BY <2>1 DEF ShareInv, AdmittedOnce, ReadyOnceClosed, SharesFollowAdmission, Ready
<1>3. CASE SendConfig
  <2>1. UNCHANGED <<nodeVars, admitted, handler>> /\ phase = "distributing"
        /\ configsSent \in 0..ExpectWorkers /\ configsSent < ExpectWorkers
    BY <1>3 DEF SendConfig, TypeOK
  <2>2. /\ MasterSends(SelectedSeq[configsSent + 1], Config(configsSent + 1))
        /\ configsSent' = configsSent + 1
    BY <1>3 DEF SendConfig
  <2>3. QED
    <3> DEFINE i == configsSent + 1
               n == SelectedSeq[i]
    <3>1. i \in 1..ExpectWorkers /\ i <= Len(admitted) /\ admitted \in Seq(Node)
      BY <2>1 DEF ShareInv, ReadyOnceClosed, Ready, TypeOK
    <3>2. n = admitted[i] /\ n \in Node
      BY <2>1, <3>1 DEF SelectedSeq, ShareInv, ReadyOnceClosed, Ready
    <3>3. SentTo(admitted', configsSent', i, n)
      BY <2>1, <2>2, <3>1, <3>2 DEF SentTo
    <3>4. \A p \in Node : Within(toNode[p], toNode'[p], Config(i)) /\ (p # n => toNode'[p] = toNode[p])
      BY <2>2, <3>1, <3>2, Messages, MasterSendsContents DEF Within
    <3>5. ASSUME NEW p \in Node
          PROVE  \E m : /\ Within(toNode[p], toNode'[p], m)
                        /\ m.type = "config" => SentTo(admitted', configsSent', m.arg, p)
      <4>1. CASE p = n
        <5>1. Config(i).arg = i
          BY DEF Config
        <5>2. QED
          BY <3>3, <3>4, <4>1, <5>1
      <4>2. CASE p # n
        <5>1. Within(toNode[p], toNode'[p], Challenge) /\ Challenge.type # "config"
          BY <3>4, <4>2 DEF Within, Challenge
        <5>2. QED
          BY <5>1
      <4>3. QED
        BY <4>1, <4>2
    <3>6. \A j, p : SentTo(admitted, configsSent, j, p) => SentTo(admitted', configsSent', j, p)
      BY <2>1, <2>2 DEF SentTo
    <3>7. SharesFollowAdmission'
      BY <2>1, <3>5, <3>6, SharesKept DEF ShareInv
    <3>8. QED
      BY <2>1, <2>2, <3>7 DEF ShareInv, AdmittedOnce, ReadyOnceClosed, Ready
<1>4. CASE StartCollecting
  <2>1. UNCHANGED <<admitted, configsSent, toNode, shard, handler, node>> /\ phase = "distributing"
    BY <1>4 DEF StartCollecting
  <2>2. QED
    BY <2>1 DEF ShareInv, AdmittedOnce, ReadyOnceClosed, SharesFollowAdmission, Ready
<1>5. CASE DeadlinePasses
  BY <1>5, ShareFrame DEF DeadlinePasses
<1>6. ASSUME NEW n \in Node, Collect(n) \/ CollectFails(n)
      PROVE  ShareInv'
  <2>1. UNCHANGED <<admitted, configsSent, toNode, shard, handler, node>> /\ phase = "collecting"
    BY <1>6 DEF Collect, CollectFails
  <2>2. QED
    BY <2>1, ShareFrame
<1>7. CASE Raise \/ Finish
  <2>1. UNCHANGED <<admitted, configsSent, toNode, shard, handler, node>> /\ phase = "collecting"
    BY <1>7 DEF Raise, Finish
  <2>2. QED
    BY <2>1, ShareFrame
<1>8. QED
  BY <1>1, <1>2, <1>3, <1>4, <1>5, <1>6, <1>7 DEF MasterStep

LEMMA ShareInvariant == Spec => []ShareInv
<1>1. Init => ShareInv
  BY DEF Init, ShareInv, AdmittedOnce, ReadyOnceClosed, SharesFollowAdmission
<1>2. TypeOK /\ ShareInv /\ [Next]_vars => ShareInv'
  <2> SUFFICES ASSUME TypeOK, ShareInv, [Next]_vars PROVE ShareInv'
    OBVIOUS
  <2>1. CASE MasterStep
    BY <2>1, MasterStepShareInv
  <2>2. CASE \E n \in Node : NodeStep(n)
    BY <2>2, NodeStepShareInv
  <2>3. CASE \E n \in Node : HandlerStep(n)
    BY <2>3, HandlerStepShareInv
  <2>4. CASE UNCHANGED vars
    BY <2>4, ShareFrame DEF vars
  <2>5. QED
    BY <2>1, <2>2, <2>3, <2>4 DEF Next
<1>3. QED
  BY <1>1, <1>2, TypeCorrect, PTL DEF Spec

\* No two nodes ever run the same share of the load.
THEOREM DisjointShares == Spec => []SharesAreDisjoint
<1>1. ShareInv => SharesAreDisjoint
  BY DEF ShareInv, SharesFollowAdmission, SentTo, SharesAreDisjoint
<1>2. QED
  BY <1>1, ShareInvariant, PTL

-------------------------------------------------------------------------------
(* A counted result stands for a share that was run to its end.               *)

\* What a node's step may write: a result only as its last word.
LEMMA NodeStepReplies ==
  ASSUME TypeOK, NEW n \in Node, NodeStep(n)
  PROVE  \E m :
           /\ \A p \in Node : Within(toMaster[p], toMaster'[p], m) /\ (p # n => toMaster'[p] = toMaster[p])
           /\ m.type = "result" => node[n] = "running" /\ node'[n] = "exit0" /\ UNCHANGED shard
<1> DEFINE Kept(m) == \A p \in Node :
              Within(toMaster[p], toMaster'[p], m) /\ (p # n => toMaster'[p] = toMaster[p])
            LastWord(m) == m.type = "result" =>
                             node[n] = "running" /\ node'[n] = "exit0" /\ UNCHANGED shard
<1> SUFFICES \E m : Kept(m) /\ LastWord(m)
  OBVIOUS
<1>1. ASSUME NEW m \in FromNode, NodeSends(n, m)
      PROVE  Kept(m)
  BY <1>1, NodeSendsContents DEF Within
<1>2. UNCHANGED toMaster => Kept(Challenge)
  BY DEF Within
<1>3. LastWord(Challenge) /\ \A s : LastWord(Auth(s))
  BY DEF Challenge, Auth
<1>4. \A t : t # "result" => LastWord(Msg(t))
  BY DEF Msg
<1> HIDE DEF Kept
<1>5. CASE UNCHANGED toMaster
  BY <1>2, <1>3, <1>5
<1>6. CASE SendResult(n)
  <2>1. node[n] = "running" /\ UNCHANGED shard
    BY <1>6 DEF SendResult
  <2>2. CASE NodeSends(n, Msg("result")) /\ NodeEnds(n, "exit0")
    <3>1. node'[n] = "exit0"
      BY <2>2 DEF NodeEnds, TypeOK
    <3>2. Kept(Msg("result"))
      BY <1>1, <2>2, Messages
    <3>3. QED
      BY <2>1, <3>1, <3>2
  <2>3. QED
    BY <1>5, <1>6, <2>2 DEF SendResult
<1>7. CASE \E m \in FromNode : NodeSends(n, m) /\ LastWord(m)
  BY <1>1, <1>7
<1>8. CASE Crash(n)
  <2>1. PICK k \in 0..Len(toMaster[n]) : toMaster' = [toMaster EXCEPT ![n] = SubSeq(@, 1, k)]
    BY <1>8 DEF Crash
  <2>2. Shrinks(toMaster[n], SubSeq(toMaster[n], 1, k)) /\ toMaster'[n] = SubSeq(toMaster[n], 1, k)
    <3>1. toMaster[n] \in Seq(FromNode)
      BY DEF TypeOK
    <3>2. toMaster'[n] = SubSeq(toMaster[n], 1, k)
      BY <2>1 DEF TypeOK
    <3>3. \A j \in 0..Len(toMaster[n]) : Shrinks(toMaster[n], SubSeq(toMaster[n], 1, j))
      BY <3>1, Messages, ChannelContents
    <3>4. QED
      BY <3>2, <3>3
  <2>3. Kept(Challenge)
    <3>1. \A p \in Node \ {n} : toMaster'[p] = toMaster[p]
      BY <2>1 DEF TypeOK
    <3>2. \A p \in Node \ {n} : Within(toMaster[p], toMaster'[p], Challenge)
      BY <3>1 DEF Within
    <3>3. Shrinks(toMaster[n], toMaster'[n])
      BY <2>2
    <3>4. Within(toMaster[n], toMaster'[n], Challenge)
      BY <3>3, Zenon DEF Within, Shrinks
    <3>5. QED
      BY <3>1, <3>2, <3>4, Zenon DEF Kept
  <2>4. QED
    BY <1>3, <2>3
<1>9. CASE NodeStep(n) /\ ~SendResult(n) /\ ~Crash(n)
  <2>1. CASE ReceiveChallenge(n)
    <3>1. UNCHANGED toMaster \/ NodeSends(n, Auth(NodeSecret[n]))
      BY <2>1 DEF ReceiveChallenge
    <3>2. QED
      BY <1>3, <1>5, <1>7, <3>1, Messages
  <2>2. CASE ReceiveConfig(n)
    <3>1. UNCHANGED toMaster \/ NodeSends(n, Msg("error"))
      BY <2>2 DEF ReceiveConfig
    <3>2. QED
      BY <1>4, <1>5, <1>7, <3>1, Messages
  <2>3. CASE SendProgress(n)
    BY <1>4, <1>7, <2>3, Messages DEF SendProgress
  <2>4. CASE ForeignReply(n)
    <3>1. PICK t \in ForeignReplies : NodeSends(n, Msg(t))
      BY <2>4 DEF ForeignReply
    <3>2. t # "result" /\ Msg(t) \in FromNode
      BY Messages
    <3>3. QED
      BY <1>4, <1>7, <3>1, <3>2
  <2>5. CASE Connect(n) \/ ConnectRefused(n) \/ ReceiveProof(n) \/ StopWaiting(n)
    BY <1>5, <2>5 DEF Connect, ConnectRefused, ReceiveProof, StopWaiting
  <2>6. QED
    BY <1>9, <2>1, <2>2, <2>3, <2>4, <2>5 DEF NodeStep
<1>10. QED
  BY <1>6, <1>8, <1>9

\* A node runs a benchmark only from a config, and only with its share.
LEMMA NodeStepRuns ==
  ASSUME TypeOK, ShareInv, NEW n \in Node, NodeStep(n), node'[n] = "running"
  PROVE  (node[n] = "running" /\ UNCHANGED shard) \/ shard'[n] # NoShard
<1> USE DEF TypeOK, NodeEnds
<1>1. CASE ReceiveConfig(n)
  <2>1. \/ node'[n] = "exit1"
        \/ \E m \in FromMaster : m.type = "config" /\ shard' = [shard EXCEPT ![n] = m.arg]
    BY <1>1 DEF ReceiveConfig
  <2>2. QED
    BY <2>1, Messages DEF NoShard
<1>2. CASE SendProgress(n)
  BY <1>2 DEF SendProgress
<1>3. CASE Connect(n) \/ ConnectRefused(n) \/ StopWaiting(n) \/ ForeignReply(n) \/ Crash(n)
  BY <1>3 DEF Connect, ConnectRefused, StopWaiting, ForeignReply, Crash
<1>4. CASE ReceiveChallenge(n) \/ ReceiveProof(n)
  <2>1. node'[n] \in {"awaitProof", "awaitConfig", "exit1"}
    BY <1>4 DEF ReceiveChallenge, ReceiveProof
  <2>2. QED
    BY <2>1
<1>5. CASE SendResult(n)
  <2>1. node'[n] \in {"exit0", "exit1"}
    BY <1>5 DEF SendResult
  <2>2. QED
    BY <2>1
<1>6. QED
  BY <1>1, <1>2, <1>3, <1>4, <1>5 DEF NodeStep

LEMMA NodeStepLocal ==
  ASSUME TypeOK, NEW n \in Node, NodeStep(n)
  PROVE  /\ UNCHANGED masterVars /\ node[n] \notin Gone
         /\ \A p \in Node \ {n} : node'[p] = node[p] /\ shard'[p] = shard[p]
<1>1. \A p \in Node \ {n} : shard'[p] = shard[p]
  <2>1. UNCHANGED shard \/ \E i : shard' = [shard EXCEPT ![n] = i]
    BY NodeStepTakes
  <2>2. QED
    BY <2>1 DEF TypeOK
<1>2. CASE Connect(n)
  BY <1>1, <1>2 DEF Connect, Gone, TypeOK
<1>3. CASE ~Connect(n)
  <2>1. UNCHANGED masterVars /\ node[n] \notin Gone /\ node' = [node EXCEPT ![n] = node'[n]]
    BY <1>3, NodeStepEffect
  <2>2. \A p \in Node \ {n} : node'[p] = node[p]
    BY <2>1 DEF TypeOK
  <2>3. QED
    BY <1>1, <2>1, <2>2
<1>4. QED
  BY <1>2, <1>3

LEMMA NodeStepResultInv ==
  ASSUME TypeOK, ShareInv, ResultInv, NEW n \in Node, NodeStep(n)
  PROVE  ResultInv'
<1>1. UNCHANGED <<phase, admitted, exitCode, collector>>
  BY NodeStepLocal DEF masterVars
<1>2. ASSUME NEW p \in Node, node'[p] = "running"
      PROVE  shard'[p] # NoShard
  BY <1>2, NodeStepLocal, NodeStepRuns DEF ResultInv, ResultsAreComplete
<1>3. ASSUME NEW p \in Node,
             (\E k \in 1..Len(toMaster'[p]) : toMaster'[p][k].type = "result") \/ collector'[p] = "counted"
      PROVE  node'[p] = "exit0" /\ shard'[p] # NoShard
  <2>1. CASE p # n
    <3>1. toMaster'[p] = toMaster[p] /\ node'[p] = node[p] /\ shard'[p] = shard[p]
      BY <2>1, NodeStepReplies, NodeStepLocal
    <3>2. QED
      BY <1>1, <1>3, <3>1 DEF ResultInv, ResultsAreComplete
  <2>2. CASE p = n
    <3>1. node[n] # "exit0"
      BY NodeStepLocal DEF Gone
    <3>2. /\ collector'[n] # "counted"
          /\ \A k \in 1..Len(toMaster[n]) : toMaster[n][k].type # "result"
      BY <1>1, <3>1 DEF ResultInv, ResultsAreComplete
    <3>3. PICK m : /\ Within(toMaster[n], toMaster'[n], m)
                   /\ m.type = "result" =>
                        node[n] = "running" /\ node'[n] = "exit0" /\ UNCHANGED shard
      BY NodeStepReplies
    <3>4. m.type = "result"
      BY <1>3, <2>2, <3>2, <3>3 DEF Within
    <3>5. QED
      BY <2>2, <3>3, <3>4 DEF ResultInv, ResultsAreComplete
  <2>3. QED
    BY <2>1, <2>2
<1>4. ResultsAreComplete'
  BY <1>2, <1>3 DEF ResultsAreComplete
<1>5. CollectorsAreSelected' /\ ZeroNeedsAll'
  BY <1>1 DEF ResultInv, CollectorsAreSelected, ZeroNeedsAll, Selected, Collected
<1>6. QED
  BY <1>4, <1>5 DEF ResultInv

\* Nothing but a node's own step makes a result, and a counted one was read.
LEMMA ResultsKept ==
  ASSUME ResultsAreComplete, UNCHANGED <<node, shard>>,
         \A p \in Node : Shrinks(toMaster[p], toMaster'[p]),
         \A p \in Node : collector'[p] = "counted" =>
           \/ collector[p] = "counted"
           \/ \E k \in 1..Len(toMaster[p]) : toMaster[p][k].type = "result"
  PROVE  ResultsAreComplete'
<1>1. ASSUME NEW p \in Node, NEW k \in 1..Len(toMaster'[p]), toMaster'[p][k].type = "result"
      PROVE  \E j \in 1..Len(toMaster[p]) : toMaster[p][j].type = "result"
  <2>1. PICK j \in 1..Len(toMaster[p]) : toMaster'[p][k] = toMaster[p][j]
    BY DEF Shrinks
  <2>2. QED
    BY <1>1, <2>1
<1>2. QED
  BY <1>1 DEF ResultsAreComplete

LEMMA SelectedGrows ==
  ASSUME admitted \in Seq(Node),
         UNCHANGED admitted \/ \E n \in Node : admitted' = Append(admitted, n)
  PROVE  \A p \in Selected : p \in Selected'
BY DEF Selected

LEMMA HandlerStepResultInv ==
  ASSUME TypeOK, ResultInv, NEW n \in Node, HandlerStep(n)
  PROVE  ResultInv'
<1>1. UNCHANGED <<node, shard, phase, exitCode, collector>>
  BY HandlerStepEffect DEF nodeVars
<1>2. ASSUME NEW p \in Node
      PROVE  Shrinks(toMaster[p], toMaster'[p])
  <2>1. UNCHANGED toMaster \/ \E m : MasterReads(n, m)
    BY DEF HandlerStep, HandleWorker, ReceiveAuth, ProofSent, AuthFails
  <2>2. CASE UNCHANGED toMaster
    BY <2>2 DEF Shrinks
  <2>3. CASE \E m : MasterReads(n, m)
    BY <2>3, MasterReadsContents DEF Shrinks
  <2>4. QED
    BY <2>1, <2>2, <2>3
<1>3. ResultsAreComplete'
  BY <1>1, <1>2, ResultsKept DEF ResultInv
<1>4. CollectorsAreSelected'
  <2>1. \A p \in Selected : p \in Selected'
    BY HandlerStepEffect, SelectedGrows DEF TypeOK
  <2>2. QED
    BY <1>1, <2>1 DEF ResultInv, CollectorsAreSelected
<1>5. ZeroNeedsAll'
  BY <1>1 DEF ResultInv, ZeroNeedsAll, Collected
<1>6. QED
  BY <1>3, <1>4, <1>5 DEF ResultInv

LEMMA MasterStepResultInv ==
  ASSUME TypeOK, ResultInv, MasterStep
  PROVE  ResultInv'
<1>1. UNCHANGED <<node, shard, admitted>>
  BY DEF MasterStep, ReadyTimeout, Abandon, StopAccepting, SendConfig, DrainReturns, StartCollecting,
         DeadlinePasses, Collect, CollectFails, Raise, Finish, nodeVars
<1>2. CASE \/ ReadyTimeout \/ Abandon \/ StopAccepting \/ SendConfig \/ DrainReturns
           \/ DeadlinePasses \/ Raise
  <2>1. /\ UNCHANGED <<toMaster, collector>>
        /\ \/ UNCHANGED <<phase, exitCode>>
           \/ phase \notin {"collecting"} \cup Ended /\ UNCHANGED exitCode
           \/ phase \notin Ended /\ phase' \in Ended /\ exitCode' = 1
    <3>1. CASE ReadyTimeout \/ StopAccepting \/ SendConfig
      BY <3>1 DEF ReadyTimeout, StopAccepting, SendConfig, Ended
    <3>2. CASE Abandon \/ DrainReturns
      BY <3>2 DEF Abandon, DrainReturns, MasterEnds, Ended
    <3>3. CASE DeadlinePasses
      BY <3>3 DEF DeadlinePasses
    <3>4. CASE Raise
      BY <3>4 DEF Raise, MasterEnds, Ended
    <3>5. QED
      BY <1>2, <3>1, <3>2, <3>3, <3>4
  <2>2. ResultsAreComplete'
    BY <1>1, <2>1 DEF ResultInv, ResultsAreComplete
  <2>3. CollectorsAreSelected'
    BY <1>1, <2>1 DEF ResultInv, CollectorsAreSelected, Selected, Ended
  <2>4. ZeroNeedsAll'
    BY <2>1 DEF ResultInv, ZeroNeedsAll, Collected, Ended, NoCode
  <2>5. QED
    BY <2>2, <2>3, <2>4 DEF ResultInv
<1>3. CASE StartCollecting
  <2>1. UNCHANGED <<toMaster, exitCode>> /\ phase = "distributing" /\ phase' = "collecting"
        /\ \A p \in Node : collector'[p] = IF p \in Selected THEN "reading" ELSE collector[p]
    BY <1>3 DEF StartCollecting
  <2>2. ResultsAreComplete'
    BY <1>1, <2>1 DEF ResultInv, ResultsAreComplete
  <2>3. CollectorsAreSelected'
    BY <1>1, <2>1 DEF ResultInv, CollectorsAreSelected, Selected
  <2>4. ZeroNeedsAll'
    BY <2>1 DEF ResultInv, ZeroNeedsAll, Ended, NoCode
  <2>5. QED
    BY <2>2, <2>3, <2>4 DEF ResultInv
<1>4. ASSUME NEW n \in Node, Collect(n) \/ CollectFails(n)
      PROVE  ResultInv'
  <2>1. phase = "collecting" /\ collector[n] = "reading"
    BY <1>4 DEF Collect, CollectFails
  <2>2. UNCHANGED <<phase, exitCode>>
    BY <1>4 DEF Collect, CollectFails
  <2>3. \A p \in Node : Shrinks(toMaster[p], toMaster'[p])
    <3>1. UNCHANGED toMaster \/ \E m : MasterReads(n, m)
      BY <1>4 DEF Collect, CollectFails
    <3>2. CASE UNCHANGED toMaster
      BY <3>2 DEF Shrinks
    <3>3. ASSUME NEW m, MasterReads(n, m)
          PROVE  \A p \in Node : Shrinks(toMaster[p], toMaster'[p])
      <4>1. \A p \in Node \ {n} : Shrinks(toMaster[p], toMaster'[p])
        BY <3>3, MasterReadsContents DEF Shrinks
      <4>2. Shrinks(toMaster[n], toMaster'[n])
        BY <3>3, MasterReadsContents
      <4>3. QED
        BY <4>1, <4>2
    <3>4. QED
      BY <3>1, <3>2, <3>3
  <2>4. \A p \in Node \ {n} : collector'[p] = collector[p]
    BY <1>4 DEF Collect, CollectFails, Settle, TypeOK
  <2>5. collector'[n] = "counted" =>
          \E k \in 1..Len(toMaster[n]) : toMaster[n][k].type = "result"
    <3>1. CASE collector'[n] = "counted" /\ Collect(n)
      <4>1. MasterReads(n, Msg("result"))
        BY <2>1, <3>1 DEF Collect, Settle, TypeOK
      <4>2. \E k \in 1..Len(toMaster[n]) : Msg("result") = toMaster[n][k]
        BY <4>1, MasterReadsContents
      <4>3. Msg("result").type = "result"
        BY DEF Msg
      <4>4. QED
        BY <4>2, <4>3
    <3>2. CASE CollectFails(n)
      BY <3>2 DEF CollectFails, Settle, TypeOK
    <3>3. QED
      BY <1>4, <3>1, <3>2
  <2>6. ResultsAreComplete'
    BY <1>1, <2>3, <2>4, <2>5, ResultsKept DEF ResultInv
  <2>7. CollectorsAreSelected'
    BY <1>1, <2>1, <2>2, <2>4 DEF ResultInv, CollectorsAreSelected, Selected
  <2>8. ZeroNeedsAll'
    BY <2>1, <2>2 DEF ResultInv, ZeroNeedsAll, Ended, NoCode
  <2>9. QED
    BY <2>6, <2>7, <2>8 DEF ResultInv
<1>5. CASE Finish
  <2>1. UNCHANGED <<toMaster, collector>> /\ phase = "collecting" /\ phase' \in Ended
    BY <1>5 DEF Finish, MasterEnds, Ended
  <2>2. \/ exitCode' = 1
        \/ \E breached \in BOOLEAN, baselineCode \in {0, 1, 3} :
             exitCode' = ExitCode(Cardinality(Collected), breached, baselineCode)
    BY <1>5 DEF Finish, MasterEnds
  <2>3. exitCode' = 0 => AllowPartial \/ ~(Cardinality(Collected) < ExpectWorkers)
    BY <2>2 DEF ExitCode
  <2>4. ResultsAreComplete'
    BY <1>1, <2>1 DEF ResultInv, ResultsAreComplete
  <2>5. CollectorsAreSelected'
    BY <1>1, <2>1 DEF ResultInv, CollectorsAreSelected, Selected
  <2>6. ZeroNeedsAll'
    BY <2>1, <2>3 DEF ZeroNeedsAll, Collected
  <2>7. QED
    BY <2>4, <2>5, <2>6 DEF ResultInv
<1>6. QED
  BY <1>2, <1>3, <1>4, <1>5 DEF MasterStep

LEMMA ResultInvariant == Spec => []ResultInv
<1>1. Init => ResultInv
  <2> SUFFICES ASSUME Init PROVE ResultInv
    OBVIOUS
  <2>1. ResultsAreComplete
    BY DEF Init, ResultsAreComplete
  <2>2. CollectorsAreSelected /\ ZeroNeedsAll
    BY DEF Init, CollectorsAreSelected, ZeroNeedsAll, NoCode
  <2>3. QED
    BY <2>1, <2>2 DEF ResultInv
<1>2. TypeOK /\ ShareInv /\ ResultInv /\ [Next]_vars => ResultInv'
  <2> SUFFICES ASSUME TypeOK, ShareInv, ResultInv, [Next]_vars PROVE ResultInv'
    OBVIOUS
  <2>1. CASE MasterStep
    BY <2>1, MasterStepResultInv
  <2>2. CASE \E n \in Node : NodeStep(n)
    BY <2>2, NodeStepResultInv
  <2>3. CASE \E n \in Node : HandlerStep(n)
    BY <2>3, HandlerStepResultInv
  <2>4. CASE UNCHANGED vars
    BY <2>4 DEF vars, ResultInv, ResultsAreComplete, CollectorsAreSelected, ZeroNeedsAll,
         Selected, Collected
  <2>5. QED
    BY <2>1, <2>2, <2>3, <2>4 DEF Next
<1>3. QED
  BY <1>1, <1>2, TypeCorrect, ShareInvariant, PTL DEF Spec

\* Exit code 0 means that the whole load was run and counted: the counted nodes
\* run different shares, and there are as many of them as there are shares.
THEOREM ZeroMeansWholeLoad == Spec => []ExitZeroMeansWholeLoad
<1>1. TypeOK /\ ShareInv /\ ResultInv => ExitZeroMeansWholeLoad
  <2> SUFFICES ASSUME TypeOK, ShareInv, ResultInv, exitCode = 0, ~AllowPartial,
                      NEW i \in 1..ExpectWorkers
               PROVE  \E n \in Selected :
                         collector[n] = "counted" /\ shard[n] = i /\ node[n] = "exit0"
    BY DEF ExitZeroMeansWholeLoad
  <2> DEFINE f == [n \in Collected |-> shard[n]]
  <2>1. \A n \in Collected : n \in Node /\ shard[n] \in 1..ExpectWorkers
    BY DEF Collected, ResultInv, ResultsAreComplete, TypeOK, NoShard
  <2>2. f \in Injection(Collected, 1..ExpectWorkers)
    <3>1. \A m, n \in Collected : shard[m] = shard[n] => m = n
      BY <2>1 DEF ShareInv, SharesFollowAdmission, SentTo, NoShard
    <3>2. QED
      BY <2>1, <3>1 DEF Injection, IsInjective
  <2>3. IsFiniteSet(1..ExpectWorkers) /\ Cardinality(1..ExpectWorkers) = ExpectWorkers
    BY FS_Interval
  <2>4. /\ Cardinality(Collected) <= ExpectWorkers
        /\ Cardinality(Collected) = ExpectWorkers <=> f \in Surjection(Collected, 1..ExpectWorkers)
        /\ IsFiniteSet(Collected)
    BY <2>2, <2>3, FS_Injection
  <2>5. Cardinality(Collected) = ExpectWorkers
    <3>1. Cardinality(Collected) \in Nat
      BY <2>4, FS_CardinalityType
    <3>2. ~(Cardinality(Collected) < ExpectWorkers)
      BY DEF ResultInv, ZeroNeedsAll
    <3>3. QED
      BY <2>4, <3>1, <3>2
  <2>6. PICK n \in Collected : shard[n] = i
    BY <2>4, <2>5 DEF Surjection
  <2>7. QED
    BY <2>6 DEF Collected, ResultInv, ResultsAreComplete, CollectorsAreSelected
<1>2. QED
  BY <1>1, TypeCorrect, ShareInvariant, ResultInvariant, PTL

\* The run reports every result it counted, unless some node's message was no
\* JSON object.
THEOREM CountedIsAlwaysReported == Spec => []CountedIsReported
<1>1. Init => CountedIsReported
  BY DEF Init, CountedIsReported, Collected
<1>2. TypeOK /\ ResultInv /\ CountedIsReported /\ [Next]_vars => CountedIsReported'
  <2> SUFFICES ASSUME TypeOK, ResultInv, CountedIsReported, [Next]_vars
               PROVE  CountedIsReported'
    OBVIOUS
  <2>1. CASE ReadyTimeout \/ Abandon \/ StopAccepting \/ SendConfig \/ DrainReturns
    <3>1. UNCHANGED collector /\ phase \notin {"collecting"} \cup Ended
      BY <2>1 DEF ReadyTimeout, Abandon, StopAccepting, SendConfig, DrainReturns, Ended
    <3>2. QED
      BY <3>1 DEF ResultInv, CollectorsAreSelected, CountedIsReported, Collected
  <2>2. ASSUME phase' \notin Ended
        PROVE  CountedIsReported'
    BY <2>2 DEF CountedIsReported, Ended
  <2>3. CASE StartCollecting \/ DeadlinePasses \/ \E n \in Node : Collect(n) \/ CollectFails(n)
    <3>1. phase' = "collecting"
      BY <2>3 DEF StartCollecting, DeadlinePasses, Collect, CollectFails
    <3>2. QED
      BY <2>2, <3>1 DEF Ended
  <2>4. CASE Raise
    <3>1. /\ UNCHANGED <<admitted, collector>> /\ phase' = "raised"
          /\ \E n \in Node : collector[n] = "garbled"
      BY <2>4 DEF Raise, MasterEnds
    <3>2. QED
      BY <3>1 DEF CountedIsReported, ResultInv, CollectorsAreSelected, Selected
  <2>5. CASE Finish
    BY <2>5 DEF Finish, MasterEnds, CountedIsReported, Collected
  <2>6. CASE (\E n \in Node : NodeStep(n)) \/ UNCHANGED vars
    <3>1. UNCHANGED <<phase, collector, admitted>>
      BY <2>6, NodeStepLocal DEF masterVars, vars
    <3>2. QED
      BY <3>1 DEF CountedIsReported, Collected, Selected
  <2>7. CASE \E n \in Node : HandlerStep(n)
    BY <2>2, <2>7, HandlerStepEffect
  <2>8. QED
    BY <2>1, <2>3, <2>4, <2>5, <2>6, <2>7 DEF Next, MasterStep
<1>3. QED
  BY <1>1, <1>2, TypeCorrect, ResultInvariant, PTL DEF Spec

\* However late a handshake completes, its node is sent nothing, runs nothing and
\* is not collected from unless its place is one of the first ExpectWorkers.
THEOREM LateNodesAlwaysStandAside == Spec => []LateNodesStandAside
<1>1. TypeOK /\ ShareInv /\ ResultInv => LateNodesStandAside
  <2> SUFFICES ASSUME TypeOK, ShareInv, ResultInv, NEW n \in Node
               PROVE  /\ \A k \in 1..Len(toNode[n]) :
                           toNode[n][k].type = "config" => HoldsPlace(n, toNode[n][k].arg)
                      /\ shard[n] # NoShard => HoldsPlace(n, shard[n])
                      /\ collector[n] # "none" => \E i \in 1..ExpectWorkers : HoldsPlace(n, i)
    BY DEF LateNodesStandAside
  <2>1. \A i : SentTo(admitted, configsSent, i, n) => HoldsPlace(n, i)
    BY DEF SentTo, HoldsPlace, TypeOK
  <2>2. collector[n] # "none" => \E i \in 1..ExpectWorkers : HoldsPlace(n, i)
    <3>1. DOMAIN admitted = 1..Len(admitted)
      BY DEF TypeOK
    <3>2. QED
      BY <3>1 DEF ResultInv, CollectorsAreSelected, Selected, HoldsPlace
  <2>3. QED
    BY <2>1, <2>2 DEF ShareInv, SharesFollowAdmission
<1>2. QED
  BY <1>1, TypeCorrect, ShareInvariant, ResultInvariant, PTL

-------------------------------------------------------------------------------
(* The handshake.                                                             *)

LEMMA NodeStepSecrets ==
  ASSUME TypeOK, SecretsAgree, NEW n \in Node, NodeStep(n)
  PROVE  SecretsAgree'
<1> DEFINE Past(p) == node[p] \in {"awaitProof", "awaitConfig", "running"} \/ shard[p] # NoShard
<1>1. \A p \in Node \ {n} : node'[p] = node[p] /\ shard'[p] = shard[p]
  BY NodeStepLocal
<1>2. MasterSecret = NoSecret /\ node'[n] \in {"awaitProof", "awaitConfig", "running"} =>
        NodeSecret[n] = NoSecret
  <2>1. CASE Connect(n)
    <3>1. node' = [node EXCEPT ![n] =
                     IF NodeSecret[n] # NoSecret THEN "awaitChallenge" ELSE "awaitConfig"]
      BY <2>1 DEF Connect
    <3>2. QED
      BY <3>1 DEF TypeOK
  <2>2. CASE ReceiveChallenge(n)
    <3>1. PICK m \in FromMaster : /\ NodeReads(n, m)
                                  /\ m.type # "challenge" => NodeEnds(n, "exit1")
      BY <2>2 DEF ReceiveChallenge
    <3>2. \E j \in 1..Len(toNode[n]) : m = toNode[n][j]
      BY <3>1, NodeReadsContents
    <3>3. MasterSecret = NoSecret => m.type # "challenge"
      BY <3>2 DEF SecretsAgree
    <3>4. MasterSecret = NoSecret => node'[n] = "exit1"
      BY <3>1, <3>3 DEF NodeEnds, TypeOK
    <3>5. QED
      BY <3>4
  <2>3. CASE ReceiveProof(n) \/ ReceiveConfig(n) \/ SendProgress(n)
    <3>1. node[n] \in {"awaitProof", "awaitConfig", "running"}
      BY <2>3 DEF ReceiveProof, ReceiveConfig, SendProgress
    <3>2. QED
      BY <3>1 DEF SecretsAgree
  <2>4. CASE ConnectRefused(n) \/ StopWaiting(n) \/ ForeignReply(n) \/ Crash(n)
    <3>1. node'[n] \in Gone
      BY <2>4 DEF ConnectRefused, StopWaiting, ForeignReply, Crash, NodeEnds, TypeOK, Gone
    <3>2. QED
      BY <3>1 DEF Gone
  <2>5. CASE SendResult(n)
    <3>1. node'[n] \in Gone
      BY <2>5 DEF SendResult, NodeEnds, TypeOK, Gone
    <3>2. QED
      BY <3>1 DEF Gone
  <2>6. QED
    BY <2>1, <2>2, <2>3, <2>4, <2>5 DEF NodeStep
<1>3. MasterSecret = NoSecret /\ shard'[n] # NoShard => NodeSecret[n] = NoSecret
  <2>1. UNCHANGED shard \/ node[n] = "awaitConfig"
    BY NodeStepTakes
  <2>2. QED
    BY <2>1 DEF SecretsAgree
<1>4. \A p \in Node : handler'[p] \in {"proving", "admitted"} => handler[p] = handler'[p]
  <2>1. CASE Connect(n)
    <3>1. handler' = [handler EXCEPT ![n] = "accepted"]
      BY <2>1 DEF Connect
    <3>2. QED
      BY <3>1 DEF TypeOK
  <2>2. CASE ~Connect(n)
    BY <2>2, NodeStepEffect
  <2>3. QED
    BY <2>1, <2>2
<1>5. ASSUME NEW p \in Node, NEW k \in 1..Len(toNode'[p])
      PROVE  \E j \in 1..Len(toNode[p]) : toNode'[p][k] = toNode[p][j]
  <2>1. CASE UNCHANGED toNode
    BY <1>5, <2>1
  <2>2. CASE \E m \in FromMaster : NodeReads(n, m)
    BY <1>5, <2>2, NodeReadsContents DEF Shrinks
  <2>3. QED
    BY <2>1, <2>2, NodeStepTakes
<1>6. ASSUME NEW p \in Node
      PROVE  /\ MasterSecret = NoSecret =>
                  \A k \in 1..Len(toNode'[p]) : toNode'[p][k].type # "challenge"
             /\ MasterSecret = NoSecret /\ Past(p)' => NodeSecret[p] = NoSecret
             /\ MasterSecret # NoSecret /\ handler'[p] \in {"proving", "admitted"} =>
                  NodeSecret[p] = MasterSecret
  <2>1. MasterSecret = NoSecret =>
          \A k \in 1..Len(toNode'[p]) : toNode'[p][k].type # "challenge"
    BY <1>5 DEF SecretsAgree
  <2>2. MasterSecret = NoSecret /\ Past(p)' => NodeSecret[p] = NoSecret
    BY <1>1, <1>2, <1>3 DEF SecretsAgree
  <2>3. QED
    BY <1>4, <2>1, <2>2 DEF SecretsAgree
<1>7. QED
  BY <1>6 DEF SecretsAgree

LEMMA HandlerStepSecrets ==
  ASSUME TypeOK, SecretsAgree, NEW n \in Node, HandlerStep(n)
  PROVE  SecretsAgree'
<1>1. UNCHANGED <<node, shard>> /\ \A p \in Node \ {n} : handler'[p] = handler[p]
  BY HandlerStepEffect DEF nodeVars
<1>2. MasterSecret # NoSecret /\ handler'[n] \in {"proving", "admitted"} => NodeSecret[n] = MasterSecret
  <2>1. CASE HandleWorker(n)
    <3>1. MasterSecret # NoSecret => handler'[n] \in {"rejected", "auth"}
      BY <2>1 DEF HandleWorker, Reject, TypeOK
    <3>2. QED
      BY <3>1
  <2>2. CASE ReceiveAuth(n)
    <3>1. NodeSecret[n] = MasterSecret \/ Reject(n)
      BY <2>2 DEF ReceiveAuth
    <3>2. QED
      BY <3>1 DEF Reject, TypeOK
  <2>3. CASE ProofSent(n)
    BY <2>3 DEF ProofSent, SecretsAgree
  <2>4. CASE AuthFails(n)
    BY <2>4 DEF AuthFails, Reject, TypeOK
  <2>5. QED
    BY <2>1, <2>2, <2>3, <2>4 DEF HandlerStep
<1>3. ASSUME MasterSecret = NoSecret, NEW p \in Node, NEW k \in 1..Len(toNode'[p])
      PROVE  toNode'[p][k].type # "challenge"
  <2>1. UNCHANGED toNode \/ MasterSends(n, AuthOk(MasterSecret))
    BY <1>3 DEF HandlerStep, HandleWorker, ReceiveAuth, ProofSent, AuthFails
  <2>2. CASE UNCHANGED toNode
    BY <1>3, <2>2 DEF SecretsAgree
  <2>3. CASE MasterSends(n, AuthOk(MasterSecret))
    <3>1. toNode'[p][k] = AuthOk(MasterSecret) \/ \E j \in 1..Len(toNode[p]) : toNode'[p][k] = toNode[p][j]
      <4>1. Within(toNode[n], toNode'[n], AuthOk(MasterSecret)) /\ (p # n => toNode'[p] = toNode[p])
        BY <2>3, Messages, MasterSendsContents
      <4>2. QED
        BY <1>3, <4>1 DEF Within
    <3>2. AuthOk(MasterSecret).type # "challenge"
      BY DEF AuthOk
    <3>3. QED
      BY <1>3, <3>1, <3>2 DEF SecretsAgree
  <2>4. QED
    BY <2>1, <2>2, <2>3
<1>4. QED
  BY <1>1, <1>2, <1>3 DEF SecretsAgree

\* The distribution loop writes configs and nothing else.
LEMMA MasterStepSecrets ==
  ASSUME TypeOK, ShareInv, SecretsAgree, MasterStep
  PROVE  SecretsAgree'
<1>1. UNCHANGED <<node, shard, handler>>
  BY DEF MasterStep, ReadyTimeout, Abandon, StopAccepting, SendConfig, DrainReturns, StartCollecting,
       DeadlinePasses, Collect, CollectFails, Raise, Finish, nodeVars
<1>2. ASSUME NEW p \in Node, NEW k \in 1..Len(toNode'[p])
      PROVE  \/ toNode'[p][k].type = "config"
             \/ \E j \in 1..Len(toNode[p]) : toNode'[p][k] = toNode[p][j]
  <2>1. CASE SendConfig
    <3> DEFINE i == configsSent + 1
    <3>1. /\ MasterSends(SelectedSeq[i], Config(i)) /\ phase = "distributing"
          /\ i \in 1..ExpectWorkers
      BY <2>1 DEF SendConfig, TypeOK
    <3>2. SelectedSeq[i] \in Node
      <4>1. Ready /\ admitted \in Seq(Node)
        BY <3>1 DEF ShareInv, ReadyOnceClosed, TypeOK
      <4>2. QED
        BY <3>1, <4>1 DEF SelectedSeq, Ready
    <3>3. toNode'[p][k] = Config(i) \/ \E j \in 1..Len(toNode[p]) : toNode'[p][k] = toNode[p][j]
      <4> DEFINE t == SelectedSeq[i]
      <4>1. Config(i) \in FromMaster
        BY <3>1, Messages
      <4>2. Within(toNode[t], toNode'[t], Config(i)) /\ (p # t => toNode'[p] = toNode[p])
        BY <3>1, <3>2, <4>1, MasterSendsContents
      <4>3. CASE p = t
        BY <1>2, <4>2, <4>3 DEF Within
      <4>4. CASE p # t
        BY <1>2, <4>2, <4>4
      <4>5. QED
        BY <4>3, <4>4
    <3>4. QED
      BY <3>3 DEF Config
  <2>2. CASE ~SendConfig
    <3>1. UNCHANGED toNode
      BY <2>2 DEF MasterStep, ReadyTimeout, Abandon, StopAccepting, DrainReturns, StartCollecting,
         DeadlinePasses, Collect, CollectFails, Raise, Finish
    <3>2. QED
      BY <1>2, <3>1
  <2>3. QED
    BY <2>1, <2>2
<1>3. QED
  BY <1>1, <1>2 DEF SecretsAgree

\* Load is only ever run for a master, and by a node, that proved the other's
\* secret; with a secret on one side only, nothing runs.
THEOREM HandshakeIsMutual == Spec => []OnlyPeersShareSecret
<1>1. Init => SecretsAgree
  BY DEF Init, SecretsAgree
<1>2. TypeOK /\ ShareInv /\ SecretsAgree /\ [Next]_vars => SecretsAgree'
  <2> SUFFICES ASSUME TypeOK, ShareInv, SecretsAgree, [Next]_vars PROVE SecretsAgree'
    OBVIOUS
  <2>1. CASE MasterStep
    BY <2>1, MasterStepSecrets
  <2>2. CASE \E n \in Node : NodeStep(n)
    BY <2>2, NodeStepSecrets
  <2>3. CASE \E n \in Node : HandlerStep(n)
    BY <2>3, HandlerStepSecrets
  <2>4. CASE UNCHANGED vars
    BY <2>4 DEF vars, SecretsAgree
  <2>5. QED
    BY <2>1, <2>2, <2>3, <2>4 DEF Next
<1>3. ShareInv /\ SecretsAgree => OnlyPeersShareSecret
  BY DEF ShareInv, AdmittedOnce, SharesFollowAdmission, SentTo, SecretsAgree, OnlyPeersShareSecret
<1>4. QED
  BY <1>1, <1>2, <1>3, TypeCorrect, ShareInvariant, PTL DEF Spec
-------------------------------------------------------------------------------
(* The protocol implements ClusterRun.                                        *)

\* Every node the collection is about has a collector.
SelectedAreCollected ==
  phase = "collecting" => \A n \in Selected : collector[n] # "none"

RefinementInv == TypeOK /\ ShareInv /\ ResultInv /\ SelectedAreCollected

Verdict == IF phase \in Ended THEN phase ELSE "open"

\* Whether the collection has begun, so that a node's collector stands for its share.
Began == phase \in {"collecting"} \cup Ended /\ Ready

LEMMA LengthOfAdmitted ==
  ASSUME TypeOK
  PROVE  /\ Len(admitted) \in Nat /\ DOMAIN admitted = 1..Len(admitted)
         /\ \A i \in 1..Len(admitted) : admitted[i] \in Node
         /\ Selected \subseteq Node
         /\ Ready => /\ \A i \in 1..ExpectWorkers : i \in 1..Len(admitted) /\ admitted[i] \in Node
                     /\ Selected = {admitted[i] : i \in 1..ExpectWorkers}
<1>1. /\ Len(admitted) \in Nat /\ DOMAIN admitted = 1..Len(admitted)
      /\ \A i \in 1..Len(admitted) : admitted[i] \in Node
  BY DEF TypeOK
<1>2. Ready => 1..ExpectWorkers \subseteq 1..Len(admitted)
  BY <1>1 DEF Ready
<1>3. QED
  BY <1>1, <1>2 DEF Selected

\* A step that leaves the collectors, and what they stand for, alone.
LEMMA OutcomeKept ==
  ASSUME TypeOK, UNCHANGED collector,
         \/ /\ Began /\ Began'
            /\ \A i \in 1..ExpectWorkers : admitted'[i] = admitted[i]
         \/ ~Began /\ ~Began'
         \/ Ready /\ UNCHANGED admitted /\ ~Began /\ \A n \in Node : collector[n] = "none"
  PROVE  Outcome' = Outcome
<1>1. CASE Began /\ Began' /\ \A i \in 1..ExpectWorkers : admitted'[i] = admitted[i]
  BY <1>1 DEF Outcome, Began
<1>2. CASE ~Began /\ ~Began'
  BY <1>2 DEF Outcome, Began
<1>3. CASE Ready /\ UNCHANGED admitted /\ ~Began /\ \A n \in Node : collector[n] = "none"
  <2>1. \A i \in 1..ExpectWorkers : collector'[admitted'[i]] \notin {"counted", "charged", "garbled"}
    BY <1>3, LengthOfAdmitted
  <2>2. Outcome' = [i \in 1..ExpectWorkers |-> "pending"]
    BY <2>1 DEF Outcome
  <2>3. Outcome = [i \in 1..ExpectWorkers |-> "pending"]
    BY <1>3 DEF Outcome, Began
  <2>4. QED
    BY <2>2, <2>3
<1>4. QED
  BY <1>1, <1>2, <1>3

\* The steps of nodes and handlers are invisible: what they admit late is not selected.
LEMMA OthersStutter ==
  ASSUME RefinementInv, NEW n \in Node, NodeStep(n) \/ HandlerStep(n)
  PROVE  /\ UNCHANGED <<Outcome, Verdict, exitCode, phase, collector>>
         /\ Ready => Ready' /\ \A i \in 1..ExpectWorkers : admitted'[i] = admitted[i]
<1>1. CASE NodeStep(n)
  <2>1. UNCHANGED <<phase, collector, exitCode, admitted>>
    <3>1. TypeOK
      BY DEF RefinementInv
    <3>2. QED
      BY <1>1, <3>1, NodeStepLocal DEF masterVars
  <2>2. UNCHANGED <<Outcome, Verdict, Ready>>
    BY <2>1 DEF Outcome, Verdict, Ready
  <2>3. QED
    BY <2>1, <2>2
<1>2. CASE HandlerStep(n)
  <2>1. UNCHANGED <<phase, collector, exitCode>> /\ phase \notin Ended
    BY <1>2 DEF HandlerStep, HandleWorker, ReceiveAuth, ProofSent, AuthFails
  <2>2. admitted' = admitted \/ admitted' = Append(admitted, n)
    BY <1>2 DEF HandlerStep, HandleWorker, ReceiveAuth, ProofSent, AuthFails, Admit, Reject
  <2>3. Ready => Ready' /\ \A i \in 1..ExpectWorkers : admitted'[i] = admitted[i]
    <3>1. admitted \in Seq(Node) /\ Len(admitted) \in Nat
      BY DEF RefinementInv, TypeOK
    <3>2. \A i \in 1..Len(admitted) : admitted'[i] = admitted[i]
      BY <2>2, <3>1
    <3>3. Len(admitted') \in {Len(admitted), Len(admitted) + 1}
      BY <2>2, <3>1
    <3>4. QED
      BY <3>1, <3>2, <3>3 DEF Ready
  <2>4. phase = "collecting" => Ready
    BY DEF RefinementInv, ShareInv, ReadyOnceClosed
  <2>5. Outcome' = Outcome
    <3>1. CASE phase = "collecting"
      BY <2>1, <2>3, <2>4, <3>1, OutcomeKept DEF RefinementInv, Began
    <3>2. CASE phase # "collecting"
      BY <2>1, <3>2, OutcomeKept DEF RefinementInv, Began
    <3>3. QED
      BY <3>1, <3>2
  <2>6. QED
    BY <2>1, <2>3, <2>5 DEF Verdict
<1>3. QED
  BY <1>1, <1>2

LEMMA SelectedAreCollectedStep ==
  ASSUME RefinementInv, [Next]_vars
  PROVE  SelectedAreCollected'
<1>1. CASE \E n \in Node : NodeStep(n) \/ HandlerStep(n)
  <2>1. UNCHANGED <<phase, collector>>
    BY <1>1, OthersStutter
  <2>2. phase = "collecting" => Ready /\ \A i \in 1..ExpectWorkers : admitted'[i] = admitted[i]
    BY <1>1, OthersStutter DEF RefinementInv, ShareInv, ReadyOnceClosed
  <2>3. phase = "collecting" => \A m \in Selected' : m \in Selected
    BY <2>2, LengthOfAdmitted DEF Selected, RefinementInv
  <2>4. QED
    BY <2>1, <2>3 DEF SelectedAreCollected, RefinementInv
<1>2. CASE StartCollecting
  BY <1>2, LengthOfAdmitted DEF StartCollecting, SelectedAreCollected, Selected, RefinementInv
<1>3. ASSUME NEW n \in Node, Collect(n) \/ CollectFails(n)
      PROVE  SelectedAreCollected'
  <2>1. /\ phase = "collecting" /\ UNCHANGED admitted
        /\ \A m \in Node : collector'[m] = collector[m] \/ collector'[m] # "none"
    BY <1>3 DEF Collect, CollectFails, Settle, RefinementInv, TypeOK
  <2>2. Selected' = Selected /\ Selected \subseteq Node
    BY <2>1, LengthOfAdmitted DEF Selected, RefinementInv
  <2>3. QED
    BY <2>1, <2>2 DEF SelectedAreCollected, RefinementInv
<1>4. CASE \/ ReadyTimeout \/ Abandon \/ StopAccepting \/ SendConfig \/ DrainReturns
           \/ DeadlinePasses \/ Raise \/ Finish \/ UNCHANGED vars
  <2>1. UNCHANGED <<admitted, collector>> /\ (phase' = "collecting" => phase = "collecting")
    BY <1>4 DEF ReadyTimeout, Abandon, StopAccepting, SendConfig, DrainReturns, DeadlinePasses, Raise,
         Finish, MasterEnds, vars
  <2>2. QED
    BY <2>1 DEF SelectedAreCollected, Selected, RefinementInv
<1>5. QED
  BY <1>1, <1>2, <1>3, <1>4 DEF Next, MasterStep

\* One collector ends, and with it one pending share is settled.
LEMMA CollectorSettles ==
  ASSUME RefinementInv, NEW n \in Node, NEW as \in {"counted", "charged", "garbled"},
         phase = "collecting", collector[n] = "reading",
         Settle(n, as), UNCHANGED <<phase, exitCode, admitted>>
  PROVE  \E i \in 1..ExpectWorkers : Cluster!Settle(i)
<1>1. Ready /\ n \in Selected
  BY DEF RefinementInv, ShareInv, ReadyOnceClosed, ResultInv, CollectorsAreSelected
<1>2. PICK i \in 1..ExpectWorkers : admitted[i] = n
  BY <1>1, LengthOfAdmitted DEF RefinementInv
<1>3. \A j \in 1..ExpectWorkers : admitted[j] = n => j = i
  BY <1>1, <1>2, LengthOfAdmitted DEF RefinementInv, ShareInv, AdmittedOnce
<1>4. \A j \in 1..ExpectWorkers : admitted[j] \in Node
  BY <1>1, LengthOfAdmitted DEF RefinementInv
<1>5. collector' = [collector EXCEPT ![n] = as] /\ collector \in [Node -> {"none", "reading", "counted", "charged", "garbled"}]
  BY DEF Settle, RefinementInv, TypeOK
<1>6. collector'[n] = as /\ \A m \in Node \ {n} : collector'[m] = collector[m]
  BY <1>5
<1>7. Ready' /\ Began /\ Began'
  BY <1>1 DEF Ready, Began
<1>8. Outcome[i] = "pending"
  BY <1>2 DEF Outcome
<1>9. Outcome' = [Outcome EXCEPT ![i] = as]
  <2>1. \A j \in 1..ExpectWorkers \ {i} : collector'[admitted'[j]] = collector[admitted[j]]
    BY <1>3, <1>4, <1>6
  <2>2. \A j \in 1..ExpectWorkers : Outcome'[j] = IF j = i THEN as ELSE Outcome[j]
    BY <1>2, <1>6, <1>7, <2>1 DEF Outcome, Began
  <2>3. QED
    BY <2>2 DEF Outcome
<1>10. QED
  BY <1>8, <1>9 DEF Cluster!Settle, Ended

\* A run that ends before its collection has nothing to report.
LEMMA EndsWithoutReport ==
  ASSUME RefinementInv, Abandon \/ DrainReturns, phase' # "distributing"
  PROVE  Cluster!GiveUp
<1>1. /\ phase' \in {"noresult", "raised"} /\ exitCode' = 1 /\ UNCHANGED <<admitted, collector>>
      /\ phase \in {"abandoning", "draining"}
  BY DEF Abandon, DrainReturns, MasterEnds
<1>2. ~Began /\ \A n \in Node : collector[n] = "none"
  BY <1>1 DEF Began, Ended, RefinementInv, ResultInv, CollectorsAreSelected
<1>3. Outcome' = Outcome
  <2>1. Ready \/ ~Began'
    BY <1>1 DEF Began, Ready
  <2>2. QED
    BY <1>1, <1>2, <2>1, OutcomeKept DEF RefinementInv
<1>4. \A i \in 1..ExpectWorkers : Outcome[i] # "counted"
  BY <1>2 DEF Outcome, Began
<1>5. QED
  BY <1>1, <1>3, <1>4 DEF Cluster!GiveUp, Ended

\* If there are as many results as shares, every share was counted.
LEMMA AllCounted ==
  ASSUME RefinementInv, Ready, ~(Cardinality(Collected) < ExpectWorkers), NEW i \in 1..ExpectWorkers
  PROVE  collector[admitted[i]] = "counted"
<1> DEFINE f == [j \in 1..ExpectWorkers |-> admitted[j]]
<1>1. /\ Selected = {admitted[j] : j \in 1..ExpectWorkers} /\ admitted[i] \in Selected
      /\ \A j, k \in 1..ExpectWorkers : admitted[j] = admitted[k] => j = k
  BY LengthOfAdmitted DEF RefinementInv, ShareInv, AdmittedOnce
<1>2. f \in Bijection(1..ExpectWorkers, Selected)
  BY <1>1 DEF Bijection, Injection, Surjection, IsInjective
<1>3. IsFiniteSet(Selected) /\ Cardinality(Selected) = ExpectWorkers
  <2>1. IsFiniteSet(1..ExpectWorkers) /\ Cardinality(1..ExpectWorkers) = ExpectWorkers
    BY FS_Interval
  <2>2. ExistsBijection(1..ExpectWorkers, Selected)
    BY <1>2 DEF ExistsBijection
  <2>3. QED
    BY <2>1, <2>2, FS_Bijection
<1>4. Collected \subseteq Selected
  BY DEF Collected, RefinementInv, ResultInv, CollectorsAreSelected
<1>5. SUFFICES ASSUME admitted[i] \notin Collected PROVE FALSE
  BY <1>1, LengthOfAdmitted DEF Collected, RefinementInv
<1>6. /\ Cardinality(Selected \ {admitted[i]}) = ExpectWorkers - 1 /\ IsFiniteSet(Selected \ {admitted[i]})
  <2>1. admitted[i] \in Selected
    BY <1>1
  <2>2. QED
    BY <1>3, <2>1, FS_RemoveElement
<1>7. Cardinality(Collected) <= ExpectWorkers - 1 /\ Cardinality(Collected) \in Nat
  <2>1. Collected \subseteq Selected \ {admitted[i]}
    BY <1>4, <1>5
  <2>2. QED
    BY <1>6, <2>1, FS_Subset, FS_CardinalityType
<1>8. QED
  BY <1>7

\* A garbled message ends the run whatever was counted.
LEMMA RaiseGivesUp ==
  ASSUME RefinementInv, Raise
  PROVE  Cluster!GiveUp
<1>1. /\ phase = "collecting" /\ Ready /\ UNCHANGED <<admitted, collector>>
      /\ phase' = "raised" /\ exitCode' = 1
  BY DEF Raise, MasterEnds, RefinementInv, ShareInv, ReadyOnceClosed
<1>2. Outcome' = Outcome
  BY <1>1, OutcomeKept DEF Began, Ended, Ready, RefinementInv
<1>3. \E i \in 1..ExpectWorkers : Outcome[i] = "garbled"
  <2>1. PICK n \in Node : collector[n] = "garbled"
    BY DEF Raise
  <2>2. PICK i \in 1..ExpectWorkers : admitted[i] = n
    BY <1>1, <2>1, LengthOfAdmitted DEF RefinementInv, ResultInv, CollectorsAreSelected
  <2>3. QED
    BY <1>1, <2>1, <2>2 DEF Outcome
<1>4. QED
  BY <1>1, <1>2, <1>3 DEF Cluster!GiveUp, Ended

\* gather() has returned: the numbers are reported, or there are none.
LEMMA FinishReports ==
  ASSUME RefinementInv, Finish
  PROVE  Cluster!Report \/ Cluster!GiveUp
<1>1. /\ phase = "collecting" /\ Ready /\ UNCHANGED <<admitted, collector>>
      /\ phase' \in Ended /\ \A n \in Node : collector[n] \notin {"reading", "garbled"}
  BY DEF Finish, MasterEnds, Ended, RefinementInv, ShareInv, ReadyOnceClosed
<1>2. Outcome' = Outcome
  BY <1>1, OutcomeKept DEF Began, Ready, RefinementInv
<1>3. \A i \in 1..ExpectWorkers :
        /\ Outcome[i] = collector[admitted[i]] /\ Outcome[i] \in {"counted", "charged"}
        /\ admitted[i] \in Node
  <2>1. \A i \in 1..ExpectWorkers : admitted[i] \in Node /\ admitted[i] \in Selected
    BY <1>1, LengthOfAdmitted DEF RefinementInv
  <2>2. \A i \in 1..ExpectWorkers : collector[admitted[i]] \in {"counted", "charged"}
    BY <1>1, <2>1 DEF RefinementInv, SelectedAreCollected, TypeOK
  <2>3. QED
    BY <1>1, <2>1, <2>2 DEF Outcome
<1>4. CASE Collected = {}
  <2>1. phase' = "noresult" /\ exitCode' = 1
    BY <1>4 DEF Finish, MasterEnds
  <2>2. \A i \in 1..ExpectWorkers : Outcome[i] # "counted"
    BY <1>3, <1>4 DEF Collected
  <2>3. Cluster!GiveUp
    BY <1>1, <1>2, <2>1, <2>2 DEF Cluster!GiveUp, Ended
  <2>4. QED
    BY <2>3
<1>5. CASE Collected # {}
  <2>1. PICK breached \in BOOLEAN, baselineCode \in {0, 1, 3} :
          phase' = "reported" /\ exitCode' = ExitCode(Cardinality(Collected), breached, baselineCode)
    BY <1>5 DEF Finish, MasterEnds
  <2>2. exitCode' \in {0, 1, 2, 3}
    BY <2>1, ExitCodes
  <2>3. \E i \in 1..ExpectWorkers : Outcome[i] = "counted"
    <3>1. PICK n \in Collected : TRUE
      BY <1>5
    <3>2. n \in Selected /\ collector[n] = "counted"
      BY <3>1 DEF Collected, RefinementInv, ResultInv, CollectorsAreSelected
    <3>3. QED
      BY <1>1, <1>3, <3>2, LengthOfAdmitted DEF RefinementInv
  <2>4. exitCode' = 0 => Cluster!Whole \/ AllowPartial
    <3>1. exitCode' = 0 => AllowPartial \/ ~(Cardinality(Collected) < ExpectWorkers)
      BY <2>1 DEF ExitCode
    <3>2. ~(Cardinality(Collected) < ExpectWorkers) => \A i \in 1..ExpectWorkers : Outcome[i] = "counted"
      BY <1>1, <1>3, AllCounted
    <3>3. QED
      BY <3>1, <3>2 DEF Cluster!Whole
  <2>5. \A i \in 1..ExpectWorkers : Outcome[i] \notin {"pending", "garbled"}
    BY <1>3
  <2>6. Cluster!Report
    BY <1>1, <1>2, <2>1, <2>2, <2>3, <2>4, <2>5 DEF Cluster!Report, Ended
  <2>7. QED
    BY <2>6
<1>6. QED
  BY <1>4, <1>5

LEMMA RefinementStep ==
  ASSUME RefinementInv, [Next]_vars
  PROVE  [Cluster!Next]_(Cluster!vars)
<1>1. ASSUME UNCHANGED <<Outcome, Verdict, exitCode>> PROVE UNCHANGED Cluster!vars
  BY <1>1 DEF Cluster!vars, Verdict
<1>2. CASE \E n \in Node : NodeStep(n) \/ HandlerStep(n)
  BY <1>1, <1>2, OthersStutter
<1>3. CASE Abandon
  BY <1>3, EndsWithoutReport DEF Abandon, MasterEnds, Cluster!Next
<1>4. CASE DrainReturns /\ phase' # "distributing"
  BY <1>4, EndsWithoutReport DEF Cluster!Next
<1>5. CASE ReadyTimeout \/ StopAccepting \/ SendConfig \/ (DrainReturns /\ phase' = "distributing")
  <2>1. /\ {phase, phase'} \cap ({"collecting"} \cup Ended) = {}
        /\ UNCHANGED <<collector, exitCode>>
    BY <1>5 DEF ReadyTimeout, StopAccepting, SendConfig, DrainReturns, MasterEnds, Ended
  <2>2. Outcome' = Outcome
    BY <2>1, OutcomeKept DEF Began, Ended, RefinementInv
  <2>3. QED
    BY <1>1, <2>1, <2>2 DEF Verdict, Ended
<1>6. CASE StartCollecting
  <2>1. /\ phase = "distributing" /\ phase' = "collecting" /\ UNCHANGED <<exitCode, admitted>> /\ Ready
        /\ \A n \in Node : collector'[n] \in {"reading", "none"}
    BY <1>6 DEF StartCollecting, RefinementInv, ShareInv, ReadyOnceClosed, ResultInv, CollectorsAreSelected, Ended
  <2>2. Outcome = [i \in 1..ExpectWorkers |-> "pending"]
    BY <2>1 DEF Outcome, Ended
  <2>3. Outcome' = [i \in 1..ExpectWorkers |-> "pending"]
    <3>1. \A i \in 1..ExpectWorkers : collector'[admitted'[i]] \notin {"counted", "charged", "garbled"}
      BY <2>1, LengthOfAdmitted DEF RefinementInv
    <3>2. QED
      BY <3>1 DEF Outcome
  <2>4. QED
    BY <1>1, <2>1, <2>2, <2>3 DEF Verdict, Ended
<1>7. CASE DeadlinePasses \/ UNCHANGED vars
  <2>1. UNCHANGED <<phase, admitted, collector, exitCode>>
    BY <1>7 DEF DeadlinePasses, vars
  <2>2. QED
    BY <1>1, <2>1 DEF Outcome, Verdict, Ready
<1>8. ASSUME NEW n \in Node, Collect(n) \/ CollectFails(n)
      PROVE  [Cluster!Next]_(Cluster!vars)
  <2>1. /\ phase = "collecting" /\ collector[n] = "reading" /\ UNCHANGED <<phase, exitCode, admitted>>
        /\ \/ UNCHANGED collector
           \/ \E as \in {"counted", "charged", "garbled"} : Settle(n, as)
    BY <1>8 DEF Collect, CollectFails
  <2>2. CASE UNCHANGED collector
    <3>1. UNCHANGED <<Outcome, Verdict>>
      BY <2>1, <2>2 DEF Outcome, Verdict, Ready
    <3>2. QED
      BY <1>1, <2>1, <3>1
  <2>3. CASE \E as \in {"counted", "charged", "garbled"} : Settle(n, as)
    BY <2>1, <2>3, CollectorSettles DEF Cluster!Next
  <2>4. QED
    BY <2>1, <2>2, <2>3
<1>9. CASE Finish
  BY <1>9, FinishReports DEF Cluster!Next
<1>10. CASE Raise
  BY <1>10, RaiseGivesUp DEF Cluster!Next
<1>11. QED
  BY <1>2, <1>3, <1>4, <1>5, <1>6, <1>7, <1>8, <1>9, <1>10 DEF Next, MasterStep

LEMMA SelectedAreAlwaysCollected == Spec => []SelectedAreCollected
<1>1. Init => SelectedAreCollected
  BY DEF Init, SelectedAreCollected
<1>2. TypeOK /\ ShareInv /\ ResultInv /\ SelectedAreCollected /\ [Next]_vars => SelectedAreCollected'
  BY SelectedAreCollectedStep DEF RefinementInv
<1>3. QED
  BY <1>1, <1>2, TypeCorrect, ShareInvariant, ResultInvariant, PTL DEF Spec

\* The protocol of run_master and run_worker_node implements ClusterRun: each of its
\* steps settles one share, gives the one verdict ClusterRun allows, or is invisible.
THEOREM ImplementsSafetyOfClusterRun == Spec => ImplementsClusterRun
<1>1. Init => Cluster!Init
  BY DEF Init, Cluster!Init, Outcome, Ended, NoCode, Cluster!NoCode
<1>2. TypeOK /\ ShareInv /\ ResultInv /\ SelectedAreCollected /\ [Next]_vars => [Cluster!Next]_(Cluster!vars)
  BY RefinementStep DEF RefinementInv
<1>3. QED
  BY <1>1, <1>2, TypeCorrect, ShareInvariant, ResultInvariant, SelectedAreAlwaysCollected, PTL DEF Spec, ImplementsClusterRun, Cluster!Safety
===============================================================================
