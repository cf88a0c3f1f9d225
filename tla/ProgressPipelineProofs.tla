------------------------ MODULE ProgressPipelineProofs ------------------------
(***************************************************************************)
(* Theorems about the live numbers of a run, for any number of nodes, any    *)
(* sizes of the queues and any number of samples and requests.               *)
(***************************************************************************)
EXTENDS ProgressPipeline, FoldTheorems, SequenceTheorems

USE ProgressAssumption

-------------------------------------------------------------------------------
(* Queues.                                                                    *)

\* What is appended to a queue is its last element, and the rest stays in place.
LEMMA AppendedLast ==
  ASSUME NEW S, NEW q \in Seq(S), NEW e \in S
  PROVE  /\ Append(q, e) \in Seq(S) /\ Append(q, e) # <<>>
         /\ Len(Append(q, e)) = Len(q) + 1 /\ DOMAIN Append(q, e) = 1..(Len(q) + 1)
         /\ Append(q, e)[Len(q) + 1] = e
         /\ \A i \in 1..Len(q) : Append(q, e)[i] = q[i]
<1>1. /\ Append(q, e) \in Seq(S) /\ Append(q, e) # <<>> /\ Len(Append(q, e)) = Len(q) + 1
      /\ Append(q, e)[Len(q) + 1] = e
      /\ \A i \in 1..Len(q) : Append(q, e)[i] = q[i]
  BY AppendProperties
<1>2. QED
  BY <1>1, LenProperties

LEMMA OneElement ==
  ASSUME NEW S, NEW q \in Seq(S), q # <<>>, Len(q) <= 1
  PROVE  Len(q) = 1 /\ DOMAIN q = {1} /\ q[1] \in S
<1> DEFINE k == Len(q)
<1>1. k \in Nat \ {0} /\ k <= 1 /\ DOMAIN q = 1..k /\ q \in [1..k -> S]
  BY EmptySeq, LenProperties
<1> HIDE DEF k
<1>2. k = 1
  BY <1>1
<1>3. k = 1 /\ DOMAIN q = {1} /\ q[1] \in S
  BY <1>1, <1>2
<1>4. QED
  BY <1>3 DEF k

\* A queue without its head is the same queue one place further.
LEMMA WithoutHead ==
  ASSUME NEW S, NEW q \in Seq(S), q # <<>>
  PROVE  /\ Head(q) = q[1] /\ q[1] \in S /\ q[Len(q)] \in S
         /\ Tail(q) \in Seq(S)
         /\ Len(q) \in Nat \ {0} /\ Len(Tail(q)) = Len(q) - 1 /\ DOMAIN Tail(q) = 1..(Len(q) - 1)
         /\ DOMAIN q = 1..Len(q)
         /\ \A i \in 1..(Len(q) - 1) : Tail(q)[i] = q[i + 1]
         /\ IF Tail(q) = <<>> THEN Len(q) = 1
            ELSE Len(q) > 1 /\ Tail(q)[Len(Tail(q))] = q[Len(q)]
<1>1. /\ Tail(q) \in Seq(S) /\ Head(q) = q[1] /\ Len(q) \in Nat \ {0}
      /\ Len(Tail(q)) = Len(q) - 1 /\ DOMAIN q = 1..Len(q)
      /\ \A i \in 1..(Len(q) - 1) : Tail(q)[i] = q[i + 1]
  BY EmptySeq, LenProperties, HeadTailProperties
<1>2. DOMAIN Tail(q) = 1..(Len(q) - 1) /\ q[1] \in S /\ q[Len(q)] \in S
  BY <1>1
<1>3. CASE Tail(q) = <<>>
  <2>1. Len(Tail(q)) = 0
    BY <1>3, EmptySeq
  <2>2. Len(q) \in Nat /\ 0 = Len(q) - 1
    BY <1>1, <2>1
  <2> DEFINE len == Len(q)
  <2> HIDE DEF len
  <2>4. len = 1
    BY <2>2 DEF len
  <2>3. QED
    BY <1>1, <1>2, <1>3, <2>4 DEF len
<1>4. CASE Tail(q) # <<>>
  <2>1. Len(Tail(q)) \in Nat \ {0}
    BY <1>1, <1>4, EmptySeq
  <2>2. Len(q) > 1 /\ Len(Tail(q)) \in 1..(Len(q) - 1) /\ Len(Tail(q)) + 1 = Len(q)
    BY <1>1, <2>1
  <2>3. Tail(q)[Len(Tail(q))] = q[Len(q)]
    BY <1>1, <2>2
  <2>4. QED
    BY <1>1, <1>2, <1>4, <2>2, <2>3
<1>5. QED
  BY <1>3, <1>4

-------------------------------------------------------------------------------
(* Type correctness.                                                          *)

Snapshot == [total : Nat, window : Nat, final : BOOLEAN]
Report == [type : {"progress"}, seq : Nat, total : Nat, window : Nat, final : BOOLEAN]
Message == Report \cup {Result}
Tally == [queued : Nat, sent : Nat, dropped : Nat]
Written == [seq : Nat, requests : Nat]
Figures == [total : Nat, windows : Nat]

ExporterTypeOK ==
  /\ done \in [Node -> Nat] /\ mark \in [Node -> Nat] /\ samples \in [Node -> Nat]
  /\ sampler \in [Node -> {"on", "due", "off"}]
  /\ exporter \in [Node -> {"running", "closing", "closed"}]
  /\ exportQueue \in [Node -> Seq(Snapshot)]
  /\ tally \in [Node -> Tally]
  /\ inExecutor \in [Node -> Seq(Snapshot)]

ReporterTypeOK ==
  /\ bounced \in [Node -> Seq(Report)]
  /\ seq \in [Node -> Nat]
  /\ reporter \in [Node -> {"running", "stopped", "cut"}]
  /\ reportQueue \in [Node -> Seq(Report)]
  /\ reportDropped \in [Node -> Nat]
  /\ written \in [Node -> Written]
  /\ finished \in [Node -> BOOLEAN]

MasterTypeOK ==
  /\ channel \in [Node -> Seq(Message)]
  /\ collector \in [Node -> {"reading", "ended"}]
  /\ latest \in [Node -> Seq(Report)]
  /\ consumed \in [Node -> Nat]
  /\ master \in {"on", "off"}
  /\ cluster \in Figures

\* No snapshot covers more than the requests completed since the one before.
TypeOK == ExporterTypeOK /\ ReporterTypeOK /\ MasterTypeOK /\ \A n \in Node : mark[n] <= done[n]

LEMMA TallyCounts ==
  ASSUME NEW t \in [Node -> Tally], NEW n \in Node, NEW u,
         \/ u = [t EXCEPT ![n].queued = @ + 1]
         \/ u = [t EXCEPT ![n].sent = @ + 1]
         \/ u = [t EXCEPT ![n].dropped = @ + 1]
  PROVE  u \in [Node -> Tally]
<1>1. CASE u = [t EXCEPT ![n].queued = @ + 1]
  BY <1>1 DEF Tally
<1>2. CASE u = [t EXCEPT ![n].sent = @ + 1]
  BY <1>2 DEF Tally
<1>3. CASE u = [t EXCEPT ![n].dropped = @ + 1]
  BY <1>3 DEF Tally
<1>4. QED
  BY <1>1, <1>2, <1>3

LEMMA QueueSnapshotTyped ==
  ASSUME TypeOK, NEW n \in Node, NEW final \in BOOLEAN, QueueSnapshot(n, final)
  PROVE  /\ exportQueue' \in [Node -> Seq(Snapshot)]
         /\ tally' \in [Node -> Tally]
         /\ mark' \in [Node -> Nat] /\ mark'[n] = done[n]
         /\ \A m \in Node : (m # n => mark'[m] = mark[m]) /\ mark'[m] <= done[m]
<1> DEFINE s == [total |-> done[n], window |-> done[n] - mark[n], final |-> final]
<1>1. s \in Snapshot
  BY DEF TypeOK, ExporterTypeOK, Snapshot
<1>2. Append(exportQueue[n], s) \in Seq(Snapshot)
  <2> HIDE DEF s
  <2> QED BY <1>1 DEF TypeOK, ExporterTypeOK
<1>3. exportQueue' = [exportQueue EXCEPT ![n] =
        IF Len(exportQueue[n]) = ExportQueue THEN @ ELSE Append(@, s)]
  BY DEF QueueSnapshot
<1>4. exportQueue' \in [Node -> Seq(Snapshot)]
  <2> HIDE DEF s
  <2> QED BY <1>2, <1>3 DEF TypeOK, ExporterTypeOK
<1>5. tally' \in [Node -> Tally]
  <2>1. \/ tally' = [tally EXCEPT ![n].dropped = @ + 1]
        \/ tally' = [tally EXCEPT ![n].queued = @ + 1]
    BY DEF QueueSnapshot
  <2>2. tally \in [Node -> Tally]
    BY DEF TypeOK, ExporterTypeOK
  <2>3. QED
    BY <2>1, <2>2, TallyCounts
<1>6. QED
  BY <1>4, <1>5 DEF QueueSnapshot, TypeOK, ExporterTypeOK

LEMMA ReportingTyped ==
  ASSUME TypeOK
  PROVE  /\ IsFiniteSet(Reporting) /\ Reporting \subseteq Node
         /\ \A n \in Reporting : latest[n][1] \in Report
<1>1. Reporting \subseteq Node
  BY DEF Reporting
<1>2. QED
  BY <1>1, FS_Subset DEF Reporting, TypeOK, MasterTypeOK

LEMMA BuildTyped ==
  ASSUME TypeOK, NEW quiet \in SUBSET Reporting, Build(quiet)
  PROVE  consumed' \in [Node -> Nat] /\ cluster' \in Figures
<1>1. CASE Reporting = {}
  BY <1>1 DEF Build, TypeOK, MasterTypeOK
<1>2. CASE Reporting # {}
  <2>1. Fresh(quiet) \subseteq Reporting /\ IsFiniteSet(Fresh(quiet))
    BY ReportingTyped, FS_Subset DEF Fresh
  <2>2. \A n \in Reporting : /\ latest[n][1].seq \in Nat /\ latest[n][1].total \in Nat
                             /\ latest[n][1].window \in Nat
    BY ReportingTyped DEF Report
  <2>3. Total(quiet) \in Nat
    <3> DEFINE t == [n \in Reporting |-> latest[n][1].total]
    <3>1. \A n \in Reporting : t[n] \in Nat
      BY <2>2
    <3> HIDE DEF t
    <3>2. SumFunctionOnSet(t, Reporting) \in Nat
      BY <3>1, ReportingTyped, SumIsNatural
    <3>3. QED
      BY <3>2 DEF Total, t
  <2>4. Windows(Fresh(quiet)) \in Nat
    <3> DEFINE F == Fresh(quiet)
               w == [n \in F |-> latest[n][1].window]
    <3>1. \A n \in F : w[n] \in Nat
      BY <2>1, <2>2
    <3> HIDE DEF w
    <3>2. SumFunctionOnSet(w, F) \in Nat
      BY <2>1, <3>1, SumIsNatural
    <3>3. QED
      BY <3>2 DEF Windows, w
  <2>5. cluster' \in Figures
    BY <1>2, <2>3, <2>4 DEF Build, Figures, TypeOK, MasterTypeOK
  <2>6. consumed' \in [Node -> Nat]
    <3>1. \A n \in Node : (IF n \in Fresh(quiet) THEN latest[n][1].seq ELSE consumed[n]) \in Nat
      BY <2>1, <2>2 DEF TypeOK, MasterTypeOK
    <3>2. QED
      BY <1>2, <3>1 DEF Build
  <2>7. QED
    BY <2>5, <2>6
<1>3. QED
  BY <1>1, <1>2

LEMMA TypeStep ==
  ASSUME TypeOK, [Next]_vars
  PROVE  TypeOK'
<1>1. ASSUME NEW n \in Node, Request(n) PROVE TypeOK'
  <2>1. ExporterTypeOK' /\ \A m \in Node : mark'[m] <= done'[m]
    BY <1>1 DEF Request, TypeOK, ExporterTypeOK
  <2>2. ReporterTypeOK' /\ MasterTypeOK'
    BY <1>1 DEF Request, reporterVars, masterVars, TypeOK, ReporterTypeOK, MasterTypeOK
  <2>3. QED
    BY <2>1, <2>2 DEF TypeOK
<1>2. ASSUME NEW n \in Node, TimerFires(n) PROVE TypeOK'
  BY <1>2 DEF TimerFires, reporterVars, masterVars, TypeOK, ExporterTypeOK, ReporterTypeOK, MasterTypeOK
<1>3. ASSUME NEW n \in Node, Sample(n) PROVE TypeOK'
  <2>1. QueueSnapshot(n, FALSE) /\ UNCHANGED done
    BY <1>3 DEF Sample
  <2>2. /\ exportQueue' \in [Node -> Seq(Snapshot)]
        /\ tally' \in [Node -> Tally]
        /\ mark' \in [Node -> Nat] /\ \A m \in Node : mark'[m] <= done[m]
    BY <2>1, QueueSnapshotTyped
  <2>3. ExporterTypeOK'
    <3>1. samples' \in [Node -> Nat] /\ sampler' \in [Node -> {"on", "due", "off"}]
      BY <1>3 DEF Sample, TypeOK, ExporterTypeOK
    <3>2. UNCHANGED <<done, exporter, inExecutor>>
      BY <1>3 DEF Sample
    <3>3. QED
      BY <2>2, <3>1, <3>2 DEF TypeOK, ExporterTypeOK
  <2>4. ReporterTypeOK' /\ MasterTypeOK'
    BY <1>3 DEF Sample, reporterVars, masterVars, TypeOK, ReporterTypeOK, MasterTypeOK
  <2>5. QED
    BY <2>1, <2>2, <2>3, <2>4 DEF TypeOK
<1>4. ASSUME NEW n \in Node, BeginClose(n) PROVE TypeOK'
  <2>1. QueueSnapshot(n, TRUE) /\ UNCHANGED done
    BY <1>4 DEF BeginClose
  <2>2. /\ exportQueue' \in [Node -> Seq(Snapshot)]
        /\ tally' \in [Node -> Tally]
        /\ mark' \in [Node -> Nat] /\ \A m \in Node : mark'[m] <= done[m]
    BY <2>1, QueueSnapshotTyped
  <2>3. ExporterTypeOK'
    BY <1>4, <2>2 DEF BeginClose, TypeOK, ExporterTypeOK
  <2>4. ReporterTypeOK' /\ MasterTypeOK'
    BY <1>4 DEF BeginClose, reporterVars, masterVars, TypeOK, ReporterTypeOK, MasterTypeOK
  <2>5. QED
    BY <2>1, <2>2, <2>3, <2>4 DEF TypeOK
<1>5. ASSUME NEW n \in Node, EndClose(n) PROVE TypeOK'
  <2>1. <<>> \in Seq(Snapshot)
    OBVIOUS
  <2>2. ExporterTypeOK' /\ \A m \in Node : mark'[m] <= done'[m]
    BY <1>5, <2>1 DEF EndClose, TypeOK, ExporterTypeOK
  <2>3. ReporterTypeOK' /\ MasterTypeOK'
    BY <1>5 DEF EndClose, reporterVars, masterVars, TypeOK, ReporterTypeOK, MasterTypeOK
  <2>4. QED
    BY <2>2, <2>3 DEF TypeOK
<1>6. ASSUME NEW n \in Node, Deliver(n) PROVE TypeOK'
  <2>1. Head(exportQueue[n]) \in Snapshot /\ Tail(exportQueue[n]) \in Seq(Snapshot)
    BY <1>6 DEF Deliver, TypeOK, ExporterTypeOK
  <2>2. <<Head(exportQueue[n])>> \in Seq(Snapshot)
    BY <2>1
  <2>3. inExecutor' \in [Node -> Seq(Snapshot)] /\ exportQueue' \in [Node -> Seq(Snapshot)]
    BY <1>6, <2>1, <2>2 DEF Deliver, TypeOK, ExporterTypeOK
  <2>4. QED
    BY <1>6, <2>3 DEF Deliver, reporterVars, masterVars, TypeOK, ExporterTypeOK, ReporterTypeOK, MasterTypeOK
<1>7. ASSUME NEW n \in Node, Submit(n) PROVE TypeOK'
  <2> DEFINE s == Head(inExecutor[n])
             r == [type |-> "progress", seq |-> seq[n] + 1, total |-> s.total, window |-> s.window,
                   final |-> s.final]
  <2>1. s \in Snapshot
    BY <1>7 DEF Submit, TypeOK, ExporterTypeOK
  <2>2. r \in Report
    BY <2>1 DEF Snapshot, Report, TypeOK, ReporterTypeOK
  <2>3. bounced' = [bounced EXCEPT ![n] = <<r>>]
    BY <1>7 DEF Submit
  <2>4. bounced' \in [Node -> Seq(Report)]
    <3> HIDE DEF r
    <3> QED BY <2>2, <2>3 DEF TypeOK, ReporterTypeOK
  <2>5. ReporterTypeOK' /\ UNCHANGED <<exporterVars, inExecutor, channel, masterVars>>
    BY <1>7, <2>4 DEF Submit, TypeOK, ReporterTypeOK
  <2>6. QED
    BY <2>5 DEF exporterVars, masterVars, TypeOK, ExporterTypeOK, MasterTypeOK
<1>8. ASSUME NEW n \in Node, Enqueue(n) PROVE TypeOK'
  <2>1. Head(bounced[n]) \in Report
    BY <1>8 DEF Enqueue, TypeOK, ReporterTypeOK
  <2>2. reportQueue[n] # <<>> => Tail(reportQueue[n]) \in Seq(Report)
    BY DEF TypeOK, ReporterTypeOK
  <2>3. Len(reportQueue[n]) = ReportQueue => reportQueue[n] # <<>>
    OBVIOUS
  <2>4. AfterEnqueue(reportQueue[n], Head(bounced[n])) \in Seq(Report)
    BY <2>1, <2>2, <2>3 DEF AfterEnqueue, TypeOK, ReporterTypeOK
  <2>5. reportQueue' \in [Node -> Seq(Report)] /\ bounced' \in [Node -> Seq(Report)]
    BY <1>8, <2>4 DEF Enqueue, TypeOK, ReporterTypeOK
  <2>6. /\ tally' \in [Node -> Tally]
        /\ inExecutor' \in [Node -> Seq(Snapshot)]
    <3>1. tally \in [Node -> Tally] /\ inExecutor \in [Node -> Seq(Snapshot)] /\ <<>> \in Seq(Snapshot)
      BY DEF TypeOK, ExporterTypeOK
    <3>2. tally' = tally \/ tally' = [tally EXCEPT ![n].sent = @ + 1]
      BY <1>8, <3>1 DEF Enqueue, Tally
    <3>3. tally' \in [Node -> Tally]
      BY <3>1, <3>2, TallyCounts
    <3>4. QED
      BY <1>8, <3>1, <3>2, <3>3 DEF Enqueue
  <2>7. reportDropped' \in [Node -> Nat]
    BY <1>8 DEF Enqueue, TypeOK, ReporterTypeOK
  <2>8. QED
    BY <1>8, <2>5, <2>6, <2>7 DEF Enqueue, masterVars, TypeOK, ExporterTypeOK, ReporterTypeOK, MasterTypeOK
<1>9. ASSUME NEW n \in Node, ReporterSend(n) PROVE TypeOK'
  <2>1. Head(reportQueue[n]) \in Report /\ Tail(reportQueue[n]) \in Seq(Report)
    BY <1>9 DEF ReporterSend, TypeOK, ReporterTypeOK
  <2>2. channel' \in [Node -> Seq(Message)]
    BY <1>9, <2>1 DEF ReporterSend, Write, Message, TypeOK, MasterTypeOK
  <2>3. [seq |-> Head(reportQueue[n]).seq, requests |-> written[n].requests + Head(reportQueue[n]).window]
          \in Written
    BY <2>1, SMTT(30) DEF Report, Written, TypeOK, ReporterTypeOK
  <2>4. written' \in [Node -> Written]
    BY <1>9, <2>3 DEF ReporterSend, TypeOK, ReporterTypeOK
  <2>5. reportQueue' \in [Node -> Seq(Report)]
    BY <1>9, <2>1 DEF ReporterSend, TypeOK, ReporterTypeOK
  <2>6. QED
    BY <1>9, <2>2, <2>4, <2>5 DEF ReporterSend, exporterVars, masterVars, TypeOK, ExporterTypeOK, ReporterTypeOK,
                                  MasterTypeOK
<1>10. ASSUME NEW n \in Node, ReporterClose(n) PROVE TypeOK'
  BY <1>10 DEF ReporterClose, exporterVars, masterVars, TypeOK, ExporterTypeOK, ReporterTypeOK, MasterTypeOK
<1>11. ASSUME NEW n \in Node, SendResult(n) PROVE TypeOK'
  <2>1. channel' \in [Node -> Seq(Message)]
    BY <1>11 DEF SendResult, Write, Message, TypeOK, MasterTypeOK
  <2>2. QED
    BY <1>11, <2>1 DEF SendResult, exporterVars, masterVars, TypeOK, ExporterTypeOK, ReporterTypeOK, MasterTypeOK
<1>12. ASSUME NEW n \in Node, Receive(n) PROVE TypeOK'
  <2> DEFINE m == Head(channel[n])
  <2>1. m \in Message /\ Tail(channel[n]) \in Seq(Message)
    BY <1>12 DEF Receive, TypeOK, MasterTypeOK
  <2>2. m.type = "progress" => m \in Report
    BY <2>1 DEF Message, Result
  <2>3. latest' \in [Node -> Seq(Report)]
    <3>1. latest' = latest \/ (m \in Report /\ latest' = [latest EXCEPT ![n] = <<m>>])
      BY <1>12, <2>2 DEF Receive
    <3>2. m \in Report => <<m>> \in Seq(Report)
      OBVIOUS
    <3>3. QED
      BY <3>1, <3>2 DEF TypeOK, MasterTypeOK
  <2>4. QED
    BY <1>12, <2>1, <2>3 DEF Receive, exporterVars, reporterVars, TypeOK, ExporterTypeOK, ReporterTypeOK, MasterTypeOK
<1>13. ASSUME NEW n \in Node, GiveUp(n) PROVE TypeOK'
  <2>1. <<>> \in Seq(Message)
    OBVIOUS
  <2>2. MasterTypeOK' /\ UNCHANGED <<exporterVars, inExecutor, bounced, reporterVars>>
    BY <1>13, <2>1 DEF GiveUp, TypeOK, MasterTypeOK
  <2>3. QED
    BY <2>2 DEF exporterVars, reporterVars, TypeOK, ExporterTypeOK, ReporterTypeOK
<1>14. ASSUME NEW quiet \in SUBSET Reporting, Build(quiet)
       PROVE  consumed' \in [Node -> Nat] /\ cluster' \in Figures
  BY <1>14, BuildTyped
<1>15. CASE ExportInterval
  BY <1>14, <1>15 DEF ExportInterval, exporterVars, reporterVars, TypeOK, ExporterTypeOK, ReporterTypeOK, MasterTypeOK
<1>16. CASE ExportFinal
  BY <1>14, <1>16 DEF ExportFinal, exporterVars, reporterVars, TypeOK, ExporterTypeOK, ReporterTypeOK, MasterTypeOK
<1>17. CASE UNCHANGED vars
  BY <1>17 DEF vars, exporterVars, reporterVars, masterVars, TypeOK, ExporterTypeOK, ReporterTypeOK, MasterTypeOK
<1>18. QED
  BY <1>1, <1>2, <1>3, <1>4, <1>5, <1>6, <1>7, <1>8, <1>9, <1>10, <1>11, <1>12, <1>13, <1>15, <1>16, <1>17
     DEF Next, ExporterStep, ReporterStep, CollectorStep

-------------------------------------------------------------------------------
(* The inductive invariants.                                                  *)

NoResultYet(n) == \A i \in DOMAIN channel[n] : channel[n][i] # Result

\* A node writes its result when its reporter can write no more.
ResultInv ==
  /\ ResultIsLast
  /\ \A n \in Node : finished[n] => reporter[n] # "running"
  /\ \A n \in Node : ~finished[n] => NoResultYet(n)

\* Where the newest report is: on its way to the loop, last in the queue, or written.
NewestInv ==
  \A n \in Node :
    /\ bounced[n] # <<>> => Len(bounced[n]) = 1 /\ bounced[n][1].seq = seq[n]
    /\ bounced[n] = <<>> => IF reportQueue[n] = <<>> THEN written[n].seq = seq[n]
                            ELSE reportQueue[n][Len(reportQueue[n])].seq = seq[n]

\* A delivery is one snapshot, and what the thread bounced is that snapshot.
Delivery(n) ==
  /\ Len(inExecutor[n]) <= 1
  /\ bounced[n] # <<>> => /\ inExecutor[n] # <<>> /\ Len(bounced[n]) = 1
                          /\ bounced[n][1].seq = seq[n]
                          /\ bounced[n][1].total = inExecutor[n][1].total
                          /\ bounced[n][1].window = inExecutor[n][1].window

DeliveryInv == \A n \in Node : Delivery(n)

\* What queued - sent says of the exporter, and when nothing can be added any more.
Accounted(n) ==
  /\ exporter[n] # "closed" =>
       tally[n].queued = tally[n].sent + Len(exportQueue[n]) + Len(inExecutor[n])
  /\ exporter[n] = "closed" =>
       /\ sampler[n] = "off"
       /\ tally[n].queued = tally[n].sent => exportQueue[n] = <<>> /\ inExecutor[n] = <<>>
  /\ exporter[n] # "running" => mark[n] = done[n]
  /\ reporter[n] # "running" => exporter[n] = "closed"
  /\ reporter[n] = "stopped" /\ tally[n].queued = tally[n].sent => reportQueue[n] = <<>>

CloseInv == \A n \in Node : Accounted(n)

\* The requests covered up to the end of a queue that starts after so many.
EndOf(q, from) == IF q = <<>> THEN from ELSE q[Len(q)].total

\* Each window of the queue starts where the one before it ended.
Linked(q, from) ==
  \A i \in DOMAIN q : q[i].total - q[i].window = IF i = 1 THEN from ELSE q[i - 1].total

Lossless(n) ==
  /\ tally[n].dropped = 0 /\ reportDropped[n] = 0
  /\ exporter[n] = "closed" => tally[n].queued = tally[n].sent

Reported(n) == EndOf(reportQueue[n], written[n].requests)
Executed(n) == EndOf(inExecutor[n], Reported(n))

\* While nothing is lost the windows form a chain from what is written to the mark.
Chained(n) ==
  /\ Linked(reportQueue[n], written[n].requests)
  /\ Linked(inExecutor[n], Reported(n))
  /\ Linked(exportQueue[n], Executed(n))
  /\ EndOf(exportQueue[n], Executed(n)) = mark[n]

ChainInv == \A n \in Node : Lossless(n) => Chained(n)

\* One report was taken after another: it has a higher number, and its window starts
\* where that of the other ends, or later.
Before(a, b) == a.seq < b.seq /\ a.total <= b.total - b.window

\* The last report the master has recorded, or one from before the run.
Floor(n) == IF latest[n] = <<>> THEN [seq |-> 0, total |-> 0] ELSE latest[n][1]

LastOf(q, from) == IF q = <<>> THEN from ELSE q[Len(q)]

Ordered(q, from) ==
  \A i \in DOMAIN q : q[i].type = "progress" =>
    /\ Before(from, q[i])
    /\ \A j \in 1..(i - 1) : q[j].type = "progress" => Before(q[j], q[i])

\* The same of snapshots, which have no number yet.
Stacked(q, from) ==
  \A i \in DOMAIN q :
    /\ from <= q[i].total - q[i].window
    /\ \A j \in 1..(i - 1) : q[j].total <= q[i].total - q[i].window

\* What is still to be reported starts no earlier, and ends at the mark.
Pending(delivery, queue, from, upTo) ==
  /\ Stacked(delivery, from)
  /\ Stacked(queue, EndOf(delivery, from))
  /\ EndOf(queue, EndOf(delivery, from)) <= upTo

Sent(n) == LastOf(channel[n], Floor(n))
Queued(n) == LastOf(reportQueue[n], Sent(n))

\* Whatever is lost on the way, what the master will read is in order.
InOrder(n) ==
  /\ Ordered(channel[n], Floor(n))
  /\ reporter[n] = "running" =>
       /\ Ordered(reportQueue[n], Sent(n))
       /\ IF bounced[n] = <<>> THEN Queued(n).seq <= seq[n] ELSE Queued(n).seq < seq[n]
       /\ Pending(inExecutor[n], exportQueue[n], Queued(n).total, mark[n])

OrderInv == \A n \in Node : InOrder(n)

\* The window of the last report, while it is not exported.
Uncounted(n) ==
  IF latest[n] # <<>> /\ consumed[n] # latest[n][1].seq THEN latest[n][1].window ELSE 0

FloorTotals == [n \in Node |-> Floor(n).total]

\* What was exported is a sum over the nodes, and each node's part of it fits into
\* its total together with the window that may be exported next.
ExportInv ==
  /\ NoWindowCountedTwice
  /\ cluster.total <= SumFunctionOnSet(FloorTotals, Node)
  /\ \A n \in Node : consumed[n] <= Floor(n).seq
  /\ \E w \in [Node -> Nat] :
       /\ cluster.windows = SumFunctionOnSet(w, Node)
       /\ \A n \in Node : w[n] + Uncounted(n) <= Floor(n).total

-------------------------------------------------------------------------------
(* The result is last.                                                        *)

LEMMA ReportIsNoResult == \A r \in Report : r # Result
  BY DEF Report, Result

LEMMA ResultStep ==
  ASSUME TypeOK, ResultInv, [Next]_vars
  PROVE  ResultInv'
<1> USE DEF ResultInv
<1>1. ASSUME NEW n \in Node, ReporterSend(n) PROVE ResultInv'
  <2>1. /\ Head(reportQueue[n]) \in Report /\ reporter[n] = "running"
        /\ UNCHANGED <<finished, reporter>>
        /\ channel' = [channel EXCEPT ![n] = IF collector[n] = "reading"
                                             THEN Append(@, Head(reportQueue[n])) ELSE @]
    BY <1>1 DEF ReporterSend, Write, TypeOK, ReporterTypeOK
  <2>2. NoResultYet(n) /\ Head(reportQueue[n]) # Result
    BY <2>1, ReportIsNoResult DEF TypeOK, ReporterTypeOK
  <2>3. channel[n] \in Seq(Message) /\ channel \in [Node -> Seq(Message)]
    BY DEF TypeOK, MasterTypeOK
  <2>4. NoResultYet(n)'
    BY <2>1, <2>2, <2>3 DEF NoResultYet
  <2>5. \A m \in Node \ {n} : channel'[m] = channel[m]
    BY <2>1, <2>3
  <2>6. QED
    BY <2>1, <2>4, <2>5 DEF ResultIsLast, NoResultYet
<1>2. ASSUME NEW n \in Node, ReporterClose(n) PROVE ResultInv'
  BY <1>2 DEF ReporterClose, ResultIsLast, NoResultYet, TypeOK, ReporterTypeOK
<1>3. ASSUME NEW n \in Node, SendResult(n) PROVE ResultInv'
  <2>1. /\ ~finished[n] /\ reporter[n] # "running" /\ UNCHANGED reporter
        /\ finished' = [finished EXCEPT ![n] = TRUE]
        /\ channel' = [channel EXCEPT ![n] = IF collector[n] = "reading" THEN Append(@, Result) ELSE @]
    BY <1>3 DEF SendResult, Write
  <2>2. NoResultYet(n) /\ channel \in [Node -> Seq(Message)] /\ finished \in [Node -> BOOLEAN]
    BY <2>1 DEF TypeOK, MasterTypeOK, ReporterTypeOK
  <2>3. \A i \in DOMAIN channel'[n] : channel'[n][i] = Result => i = Len(channel'[n])
    BY <2>1, <2>2 DEF NoResultYet
  <2>4. \A m \in Node \ {n} : channel'[m] = channel[m] /\ finished'[m] = finished[m]
    BY <2>1, <2>2
  <2>5. finished'[n]
    BY <2>1, <2>2
  <2>6. QED
    BY <2>1, <2>3, <2>4, <2>5 DEF ResultIsLast, NoResultYet
<1>4. ASSUME NEW n \in Node, Receive(n) PROVE ResultInv'
  <2>1. /\ UNCHANGED <<finished, reporter>> /\ channel[n] # <<>>
        /\ channel' = [channel EXCEPT ![n] = Tail(@)]
    BY <1>4 DEF Receive, reporterVars
  <2>2. channel \in [Node -> Seq(Message)]
    BY DEF TypeOK, MasterTypeOK
  <2>3. \A m \in Node \ {n} : channel'[m] = channel[m]
    BY <2>1, <2>2
  <2>4. /\ Len(channel'[n]) = Len(channel[n]) - 1
        /\ \A i \in DOMAIN channel'[n] : i + 1 \in DOMAIN channel[n] /\ channel'[n][i] = channel[n][i + 1]
    BY <2>1, <2>2
  <2>5. \A i \in DOMAIN channel'[n] : channel'[n][i] = Result => i = Len(channel'[n])
    BY <2>2, <2>4 DEF ResultIsLast
  <2>6. ~finished[n] => NoResultYet(n)'
    BY <2>4 DEF NoResultYet
  <2>7. QED
    BY <2>1, <2>3, <2>5, <2>6 DEF ResultIsLast, NoResultYet
<1>5. ASSUME NEW n \in Node, GiveUp(n) PROVE ResultInv'
  BY <1>5 DEF GiveUp, reporterVars, ResultIsLast, NoResultYet, TypeOK, MasterTypeOK
<1>6. CASE UNCHANGED <<finished, reporter, channel>>
  BY <1>6 DEF ResultIsLast, NoResultYet
<1>7. ASSUME NEW n \in Node, ExporterStep(n) \/ Submit(n) \/ Enqueue(n)
      PROVE  UNCHANGED <<finished, reporter, channel>>
  BY <1>7 DEF ExporterStep, Request, TimerFires, Sample, BeginClose, EndClose, Deliver, Submit, Enqueue, reporterVars
<1>8. CASE ExportInterval \/ ExportFinal \/ UNCHANGED vars
  BY <1>6, <1>8 DEF ExportInterval, ExportFinal, vars, reporterVars
<1>9. QED
  BY <1>1, <1>2, <1>3, <1>4, <1>5, <1>6, <1>7, <1>8 DEF Next, ReporterStep, CollectorStep

-------------------------------------------------------------------------------
(* The newest report survives.                                                *)

LEMMA EnqueueKeepsNewest ==
  ASSUME NEW q \in Seq(Report), NEW r \in Report
  PROVE  /\ AfterEnqueue(q, r) \in Seq(Report) /\ AfterEnqueue(q, r) # <<>>
         /\ AfterEnqueue(q, r)[Len(AfterEnqueue(q, r))] = r
<1>1. CASE Len(q) = ReportQueue
  <2>1. q # <<>> /\ Tail(q) \in Seq(Report)
    BY <1>1
  <2>2. AfterEnqueue(q, r) = Append(Tail(q), r)
    BY <1>1 DEF AfterEnqueue
  <2>3. QED
    BY <2>1, <2>2
<1>2. CASE Len(q) # ReportQueue
  <2>1. AfterEnqueue(q, r) = Append(q, r)
    BY <1>2 DEF AfterEnqueue
  <2>2. QED
    BY <2>1
<1>3. QED
  BY <1>1, <1>2

LEMMA NewestStep ==
  ASSUME TypeOK, NewestInv, [Next]_vars
  PROVE  NewestInv'
<1> USE DEF NewestInv
<1>1. ASSUME NEW n \in Node, Submit(n) PROVE NewestInv'
  <2> DEFINE s == Head(inExecutor[n])
             r == [type |-> "progress", seq |-> seq[n] + 1, total |-> s.total, window |-> s.window,
                   final |-> s.final]
  <2>1. /\ bounced' = [bounced EXCEPT ![n] = <<r>>] /\ seq' = [seq EXCEPT ![n] = @ + 1]
        /\ UNCHANGED <<written, reportQueue>>
    BY <1>1 DEF Submit
  <2>2. r.seq = seq[n] + 1
    OBVIOUS
  <2> HIDE DEF r
  <2>3. QED
    BY <2>1, <2>2 DEF TypeOK, ReporterTypeOK
<1>2. ASSUME NEW n \in Node, Enqueue(n) PROVE NewestInv'
  <2> DEFINE r == Head(bounced[n])
  <2>1. r \in Report /\ r = bounced[n][1] /\ r.seq = seq[n]
    BY <1>2 DEF Enqueue, TypeOK, ReporterTypeOK
  <2>2. /\ reportQueue' = [reportQueue EXCEPT ![n] = AfterEnqueue(@, r)]
        /\ bounced' = [bounced EXCEPT ![n] = <<>>]
        /\ UNCHANGED <<seq, written>>
    BY <1>2 DEF Enqueue
  <2>3. reportQueue'[n] # <<>> /\ reportQueue'[n][Len(reportQueue'[n])] = r
    BY <2>1, <2>2, EnqueueKeepsNewest DEF TypeOK, ReporterTypeOK
  <2> HIDE DEF r
  <2>4. QED
    BY <2>1, <2>2, <2>3 DEF TypeOK, ReporterTypeOK
<1>3. ASSUME NEW n \in Node, ReporterSend(n) PROVE NewestInv'
  <2> DEFINE q == reportQueue[n]
  <2>1. /\ q # <<>> /\ q \in Seq(Report)
        /\ reportQueue' = [reportQueue EXCEPT ![n] = Tail(@)]
        /\ written'[n].seq = Head(q).seq
        /\ UNCHANGED <<bounced, seq>>
        /\ \A m \in Node \ {n} : written'[m] = written[m]
    BY <1>3 DEF ReporterSend, TypeOK, ReporterTypeOK
  <2>2. /\ Head(q) = q[1]
        /\ IF Tail(q) = <<>> THEN Len(q) = 1 ELSE Tail(q)[Len(Tail(q))] = q[Len(q)]
    BY <2>1, WithoutHead
  <2>3. reportQueue'[n] = Tail(q) /\ \A m \in Node \ {n} : reportQueue'[m] = reportQueue[m]
    BY <2>1 DEF TypeOK, ReporterTypeOK
  <2>4. bounced[n] = <<>> => IF reportQueue'[n] = <<>> THEN written'[n].seq = seq[n]
                             ELSE reportQueue'[n][Len(reportQueue'[n])].seq = seq[n]
    BY <2>1, <2>2, <2>3
  <2>5. QED
    BY <2>1, <2>3, <2>4
<1>4. CASE UNCHANGED <<bounced, seq, reportQueue, written>>
  BY <1>4
<1>5. ASSUME NEW n \in Node, ExporterStep(n) \/ ReporterClose(n) \/ SendResult(n) \/ CollectorStep(n)
      PROVE  UNCHANGED <<bounced, seq, reportQueue, written>>
  BY <1>5 DEF ExporterStep, CollectorStep, Request, TimerFires, Sample, BeginClose, EndClose, Deliver, ReporterClose,
              SendResult, Receive, GiveUp, reporterVars
<1>6. CASE ExportInterval \/ ExportFinal \/ UNCHANGED vars
  BY <1>4, <1>6 DEF ExportInterval, ExportFinal, vars, reporterVars
<1>7. QED
  BY <1>1, <1>2, <1>3, <1>4, <1>5, <1>6 DEF Next, ReporterStep
-------------------------------------------------------------------------------
(* What a step of one node leaves alone, and what the larger steps do to it.  *)

\* The state of a node, and what of it the master holds.
View(n) ==
  <<done[n], mark[n], samples[n], sampler[n], exporter[n], exportQueue[n], tally[n], inExecutor[n],
    bounced[n], seq[n], reporter[n], reportQueue[n], reportDropped[n], written[n], finished[n],
    channel[n], collector[n], latest[n]>>

NodeStep(n) == ExporterStep(n) \/ ReporterStep(n) \/ CollectorStep(n)

MasterStep == ExportInterval \/ ExportFinal

LEMMA OthersUntouched ==
  ASSUME TypeOK, NEW n \in Node, NodeStep(n), NEW m \in Node \ {n}
  PROVE  UNCHANGED View(m)
<1> USE DEF TypeOK, ExporterTypeOK, ReporterTypeOK, MasterTypeOK
<1>1. ASSUME NEW final \in BOOLEAN, QueueSnapshot(n, final)
      PROVE  UNCHANGED <<mark[m], exportQueue[m], tally[m]>>
  BY <1>1 DEF QueueSnapshot
<1>2. CASE Request(n) \/ TimerFires(n) \/ EndClose(n) \/ Deliver(n)
  <2>1. CASE Request(n)
    BY <2>1 DEF View, Request, reporterVars, masterVars
  <2>2. CASE TimerFires(n)
    BY <2>2 DEF View, TimerFires, reporterVars, masterVars
  <2>3. CASE EndClose(n)
    BY <2>3 DEF View, EndClose, reporterVars, masterVars
  <2>4. CASE Deliver(n)
    BY <2>4 DEF View, Deliver, reporterVars, masterVars
  <2>5. QED
    BY <1>2, <2>1, <2>2, <2>3, <2>4
<1>3. CASE Sample(n) \/ BeginClose(n)
  BY <1>1, <1>3 DEF View, Sample, BeginClose, reporterVars, masterVars
<1>4. CASE Submit(n)
  <2>1. UNCHANGED <<bounced[m], seq[m]>>
    BY <1>4 DEF Submit
  <2>2. QED
    BY <1>4, <2>1 DEF View, Submit, exporterVars, masterVars
<1>5. CASE Enqueue(n)
  <2>1. UNCHANGED <<reportQueue[m], reportDropped[m], bounced[m], inExecutor[m]>>
    BY <1>5 DEF Enqueue
  <2>2. UNCHANGED tally[m]
    BY <1>5 DEF Enqueue
  <2>3. QED
    BY <1>5, <2>1, <2>2 DEF View, Enqueue, masterVars
<1>6. CASE ReporterSend(n)
  <2>1. UNCHANGED <<channel[m], reportQueue[m]>>
    BY <1>6 DEF ReporterSend, Write
  <2>2. UNCHANGED written[m]
    BY <1>6 DEF ReporterSend
  <2>3. QED
    BY <1>6, <2>1, <2>2 DEF View, ReporterSend, exporterVars, masterVars
<1>7. CASE ReporterClose(n)
  BY <1>7 DEF View, ReporterClose, exporterVars, masterVars
<1>8. CASE SendResult(n)
  <2>1. UNCHANGED <<channel[m], finished[m]>>
    BY <1>8 DEF SendResult, Write
  <2>2. QED
    BY <1>8, <2>1 DEF View, SendResult, exporterVars, masterVars
<1>9. CASE Receive(n)
  <2>1. channel' = [channel EXCEPT ![n] = Tail(@)]
    BY <1>9 DEF Receive
  <2>2. UNCHANGED channel[m]
    BY <2>1
  <2>3. UNCHANGED collector[m]
    <3>1. UNCHANGED collector \/ collector' = [collector EXCEPT ![n] = "ended"]
      BY <1>9 DEF Receive
    <3>2. QED
      BY <3>1, ZenonT(30)
  <2>4. UNCHANGED latest[m]
    <3>1. UNCHANGED latest \/ \E m1 : latest' = [latest EXCEPT ![n] = m1]
      BY <1>9 DEF Receive
    <3>2. QED
      BY <3>1
  <2>5. QED
    BY <1>9, <2>2, <2>3, <2>4 DEF View, Receive, exporterVars, reporterVars
<1>10. CASE GiveUp(n)
  BY <1>10 DEF View, GiveUp, exporterVars, reporterVars
<1>11. QED
  BY <1>2, <1>3, <1>4, <1>5, <1>6, <1>7, <1>8, <1>9, <1>10 DEF NodeStep, ExporterStep, ReporterStep, CollectorStep

LEMMA MasterLeavesNodes ==
  ASSUME MasterStep \/ UNCHANGED vars, NEW n \in Node
  PROVE  UNCHANGED View(n)
BY DEF MasterStep, ExportInterval, ExportFinal, View, vars, exporterVars, reporterVars, masterVars

LEMMA QueueSnapshotEffect ==
  ASSUME TypeOK, NEW n \in Node, NEW final \in BOOLEAN, QueueSnapshot(n, final)
  PROVE  /\ mark'[n] = done[n]
         /\ tally'[n].sent = tally[n].sent
         /\ \/ /\ exportQueue'[n] = exportQueue[n] /\ tally'[n].queued = tally[n].queued
               /\ tally'[n].dropped = tally[n].dropped + 1
            \/ /\ tally'[n].queued = tally[n].queued + 1 /\ tally'[n].dropped = tally[n].dropped
               /\ \E s \in Snapshot : /\ s.total = done[n] /\ s.window = done[n] - mark[n]
                                      /\ exportQueue'[n] = Append(exportQueue[n], s)
<1> DEFINE s == [total |-> done[n], window |-> done[n] - mark[n], final |-> final]
<1>1. s \in Snapshot /\ s.total = done[n] /\ s.window = done[n] - mark[n]
  BY DEF TypeOK, ExporterTypeOK, Snapshot
<1>2. /\ mark' = [mark EXCEPT ![n] = done[n]]
      /\ \/ /\ exportQueue' = [exportQueue EXCEPT ![n] = @] /\ tally' = [tally EXCEPT ![n].dropped = @ + 1]
         \/ /\ exportQueue' = [exportQueue EXCEPT ![n] = Append(@, s)]
            /\ tally' = [tally EXCEPT ![n].queued = @ + 1]
  BY DEF QueueSnapshot
<1> HIDE DEF s
<1>3. mark'[n] = done[n] /\ tally[n] \in Tally
  BY <1>2 DEF TypeOK, ExporterTypeOK
<1>4. CASE /\ exportQueue' = [exportQueue EXCEPT ![n] = @]
           /\ tally' = [tally EXCEPT ![n].dropped = @ + 1]
  <2>1. /\ tally'[n].sent = tally[n].sent /\ tally'[n].queued = tally[n].queued
        /\ tally'[n].dropped = tally[n].dropped + 1
    BY <1>4, <1>3 DEF TypeOK, ExporterTypeOK, Tally
  <2>2. exportQueue'[n] = exportQueue[n]
    BY <1>4 DEF TypeOK, ExporterTypeOK
  <2>3. QED
    BY <1>3, <2>1, <2>2
<1>5. CASE /\ exportQueue' = [exportQueue EXCEPT ![n] = Append(@, s)]
           /\ tally' = [tally EXCEPT ![n].queued = @ + 1]
  <2>1. /\ tally'[n].sent = tally[n].sent /\ tally'[n].queued = tally[n].queued + 1
        /\ tally'[n].dropped = tally[n].dropped
    BY <1>5, <1>3 DEF TypeOK, ExporterTypeOK, Tally
  <2>2. exportQueue'[n] = Append(exportQueue[n], s)
    BY <1>5 DEF TypeOK, ExporterTypeOK
  <2>3. QED
    BY <1>1, <1>3, <2>1, <2>2
<1>6. QED
  BY <1>2, <1>4, <1>5

LEMMA EnqueueEffect ==
  ASSUME TypeOK, NEW n \in Node, Enqueue(n)
  PROVE  /\ bounced[n] # <<>> /\ Head(bounced[n]) \in Report /\ Head(bounced[n]) = bounced[n][1]
         /\ bounced'[n] = <<>> /\ inExecutor'[n] = <<>>
         /\ reportQueue'[n] = AfterEnqueue(reportQueue[n], Head(bounced[n]))
         /\ reportDropped'[n] = IF Len(reportQueue[n]) = ReportQueue THEN reportDropped[n] + 1 ELSE reportDropped[n]
         /\ tally'[n].queued = tally[n].queued /\ tally'[n].dropped = tally[n].dropped
         /\ tally'[n].sent = IF exporter[n] = "closed" THEN tally[n].sent ELSE tally[n].sent + 1
         /\ UNCHANGED <<done, mark, samples, sampler, exporter, exportQueue, seq, reporter, written, finished,
                        channel, masterVars>>
<1>1. bounced[n] # <<>> /\ Head(bounced[n]) \in Report /\ Head(bounced[n]) = bounced[n][1]
  BY DEF Enqueue, TypeOK, ReporterTypeOK
<1>2. /\ tally'[n].queued = tally[n].queued /\ tally'[n].dropped = tally[n].dropped
      /\ tally'[n].sent = IF exporter[n] = "closed" THEN tally[n].sent ELSE tally[n].sent + 1
  BY DEF Enqueue, TypeOK, ExporterTypeOK, Tally
<1>3. QED
  BY <1>1, <1>2 DEF Enqueue, TypeOK, ExporterTypeOK, ReporterTypeOK

-------------------------------------------------------------------------------
(* Deliveries, and what the counters say.                                     *)

LEMMA DeliveryStep ==
  ASSUME TypeOK, DeliveryInv, [Next]_vars
  PROVE  DeliveryInv'
<1>1. ASSUME NEW n \in Node, NodeStep(n) PROVE DeliveryInv'
  <2>1. ASSUME NEW m \in Node \ {n} PROVE Delivery(m)'
    BY <1>1, <2>1, OthersUntouched, SMTT(30) DEF DeliveryInv, Delivery, View
  <2> SUFFICES Delivery(n)'
    BY <2>1 DEF DeliveryInv
  <2>2. Delivery(n)
    BY DEF DeliveryInv
  <2>3. CASE EndClose(n)
    <3>1. /\ UNCHANGED <<bounced, seq>>
          /\ \/ inExecutor'[n] = inExecutor[n]
             \/ inExecutor'[n] = <<>> /\ bounced[n] = <<>>
      <4>1. /\ UNCHANGED <<bounced, seq>>
            /\ \/ UNCHANGED inExecutor
               \/ bounced[n] = <<>> /\ inExecutor' = [inExecutor EXCEPT ![n] = <<>>]
        BY <2>3 DEF EndClose, reporterVars
      <4>2. QED
        BY <4>1 DEF TypeOK, ExporterTypeOK
    <3>2. QED
      BY <2>2, <3>1 DEF Delivery
  <2>4. CASE Deliver(n)
    <3>1. bounced[n] = <<>> /\ inExecutor'[n] = <<Head(exportQueue[n])>> /\ UNCHANGED bounced
      BY <2>2, <2>4 DEF Deliver, Delivery, TypeOK, ExporterTypeOK
    <3>2. QED
      BY <3>1 DEF Delivery
  <2>5. CASE Submit(n)
    <3> DEFINE s == Head(inExecutor[n])
               r == [type |-> "progress", seq |-> seq[n] + 1, total |-> s.total, window |-> s.window,
                     final |-> s.final]
    <3>1. /\ inExecutor[n] # <<>> /\ s = inExecutor[n][1] /\ UNCHANGED inExecutor
          /\ bounced'[n] = <<r>> /\ seq'[n] = seq[n] + 1
      BY <2>5 DEF Submit, TypeOK, ExporterTypeOK, ReporterTypeOK
    <3>2. r.seq = seq[n] + 1 /\ r.total = s.total /\ r.window = s.window
      OBVIOUS
    <3> HIDE DEF r, s
    <3>3. QED
      BY <2>2, <3>1, <3>2 DEF Delivery
  <2>6. CASE Enqueue(n)
    <3>1. bounced'[n] = <<>> /\ inExecutor'[n] = <<>>
      BY <2>6, EnqueueEffect
    <3>2. QED
      BY <3>1 DEF Delivery
  <2>7. CASE UNCHANGED <<inExecutor, bounced, seq>>
    BY <2>2, <2>7 DEF Delivery
  <2>8. CASE Request(n) \/ TimerFires(n) \/ Sample(n) \/ BeginClose(n)
    BY <2>7, <2>8 DEF Request, TimerFires, Sample, BeginClose, reporterVars
  <2>9. CASE ReporterSend(n) \/ ReporterClose(n) \/ SendResult(n) \/ CollectorStep(n)
    BY <2>7, <2>9 DEF ReporterSend, ReporterClose, SendResult, CollectorStep, Receive, GiveUp, reporterVars
  <2>10. QED
    BY <1>1, <2>3, <2>4, <2>5, <2>6, <2>8, <2>9 DEF NodeStep, ExporterStep, ReporterStep
<1>2. CASE MasterStep \/ UNCHANGED vars
  BY <1>2, MasterLeavesNodes DEF DeliveryInv, Delivery, View
<1>3. QED
  BY <1>1, <1>2 DEF Next, NodeStep, MasterStep

LEMMA CloseStep ==
  ASSUME TypeOK, DeliveryInv, CloseInv, [Next]_vars
  PROVE  CloseInv'
<1>1. ASSUME NEW n \in Node, NodeStep(n) PROVE CloseInv'
  <2>1. ASSUME NEW m \in Node \ {n} PROVE Accounted(m)'
    BY <1>1, <2>1, OthersUntouched, SMTT(30) DEF CloseInv, Accounted, View
  <2> SUFFICES Accounted(n)'
    BY <2>1 DEF CloseInv
  <2>2. Accounted(n) /\ Delivery(n)
    BY DEF CloseInv, DeliveryInv
  <2>3. /\ tally[n].queued \in Nat /\ tally[n].sent \in Nat
        /\ Len(exportQueue[n]) \in Nat /\ Len(inExecutor[n]) \in Nat
        /\ exportQueue[n] # <<>> => Len(exportQueue[n]) > 0
        /\ inExecutor[n] # <<>> => Len(inExecutor[n]) > 0
    BY EmptySeq, LenProperties DEF TypeOK, ExporterTypeOK, Tally
  <2>0. exportQueue[n] \in Seq(Snapshot) /\ inExecutor[n] \in Seq(Snapshot)
    BY DEF TypeOK, ExporterTypeOK
  <2>4. ASSUME NEW final \in BOOLEAN, QueueSnapshot(n, final), exporter[n] # "closed"
        PROVE  tally'[n].queued = tally'[n].sent + Len(exportQueue'[n]) + Len(inExecutor[n])
    <3>1. ASSUME NEW s \in Snapshot, exportQueue'[n] = Append(exportQueue[n], s)
          PROVE  Len(exportQueue'[n]) = Len(exportQueue[n]) + 1
      BY <2>0, <3>1, AppendedLast
    <3>2. /\ tally'[n].sent = tally[n].sent
          /\ \/ tally'[n].queued = tally[n].queued /\ Len(exportQueue'[n]) = Len(exportQueue[n])
             \/ tally'[n].queued = tally[n].queued + 1 /\ Len(exportQueue'[n]) = Len(exportQueue[n]) + 1
      BY <2>4, <3>1, QueueSnapshotEffect
    <3>3. tally[n].queued = tally[n].sent + Len(exportQueue[n]) + Len(inExecutor[n])
      BY <2>2, <2>4 DEF Accounted
    <3>4. QED
      BY <2>3, <3>2, <3>3, SMTT(30)
  <2>5. CASE Request(n)
    BY <2>2, <2>5 DEF Request, Accounted, reporterVars
  <2>6. CASE TimerFires(n)
    BY <2>2, <2>6 DEF TimerFires, Accounted, reporterVars, TypeOK, ExporterTypeOK
  <2>7. CASE Sample(n)
    <3>1. /\ exporter[n] # "closed" /\ mark'[n] = done[n] /\ QueueSnapshot(n, FALSE)
          /\ UNCHANGED <<done, exporter, inExecutor, reporter, reportQueue>>
      BY <2>2, <2>7, QueueSnapshotEffect DEF Sample, Accounted, reporterVars
    <3>2. tally'[n].queued = tally'[n].sent + Len(exportQueue'[n]) + Len(inExecutor'[n])
      BY <2>4, <3>1
    <3>3. QED
      BY <2>2, <3>1, <3>2 DEF Accounted
  <2>8. CASE BeginClose(n)
    <3>1. /\ exporter[n] = "running" /\ exporter'[n] = "closing" /\ mark'[n] = done[n]
          /\ QueueSnapshot(n, TRUE) /\ UNCHANGED <<done, inExecutor, reporter, reportQueue>>
      BY <2>8, QueueSnapshotEffect DEF BeginClose, reporterVars, TypeOK, ExporterTypeOK
    <3>2. tally'[n].queued = tally'[n].sent + Len(exportQueue'[n]) + Len(inExecutor'[n])
      BY <2>4, <3>1
    <3>3. QED
      BY <2>2, <3>1, <3>2 DEF Accounted
  <2>9. CASE EndClose(n)
    <3>1. /\ exporter[n] = "closing" /\ exporter'[n] = "closed" /\ sampler'[n] = "off"
          /\ UNCHANGED <<done, mark, exportQueue, tally, reporter, reportQueue>>
          /\ inExecutor'[n] = inExecutor[n] \/ inExecutor[n] # <<>>
      BY <2>9 DEF EndClose, reporterVars, TypeOK, ExporterTypeOK
    <3>2. tally[n].queued = tally[n].sent => exportQueue[n] = <<>> /\ inExecutor[n] = <<>>
      BY <2>2, <2>3, <3>1, SMTT(30) DEF Accounted
    <3>3. QED
      BY <2>2, <3>1, <3>2 DEF Accounted
  <2>10. CASE Deliver(n)
    <3>1. /\ exporter[n] # "closed" /\ exportQueue[n] # <<>> /\ Len(inExecutor[n]) = 0
          /\ inExecutor'[n] = <<Head(exportQueue[n])>> /\ exportQueue'[n] = Tail(exportQueue[n])
          /\ UNCHANGED <<done, mark, exporter, tally, reporter, reportQueue>>
      BY <2>10 DEF Deliver, reporterVars, TypeOK, ExporterTypeOK
    <3>2. Len(exportQueue'[n]) = Len(exportQueue[n]) - 1 /\ Len(inExecutor'[n]) = 1
      BY <2>0, <3>1, WithoutHead
    <3>3. tally'[n].queued = tally'[n].sent + Len(exportQueue'[n]) + Len(inExecutor'[n])
      BY <2>2, <2>3, <3>1, <3>2 DEF Accounted
    <3>4. QED
      BY <2>2, <3>1, <3>3 DEF Accounted
  <2>11. CASE Enqueue(n)
    <3>1. /\ inExecutor[n] # <<>> /\ Len(inExecutor[n]) = 1
          /\ inExecutor'[n] = <<>> /\ Len(inExecutor'[n]) = 0
          /\ tally'[n].queued = tally[n].queued
          /\ tally'[n].sent = IF exporter[n] = "closed" THEN tally[n].sent ELSE tally[n].sent + 1
          /\ UNCHANGED <<done, mark, sampler, exporter, exportQueue, reporter>>
      <4>1. inExecutor[n] # <<>> /\ Len(inExecutor[n]) = 1
        <5>1. bounced[n] # <<>>
          BY <2>11 DEF Enqueue
        <5>2. inExecutor[n] # <<>> /\ Len(inExecutor[n]) <= 1
          BY <2>2, <5>1 DEF Delivery
        <5>3. QED
          BY <2>0, <5>2, OneElement
      <4>2. QED
        BY <2>11, <4>1, EnqueueEffect, EmptySeq
    <3>2. exporter[n] # "closed" => tally'[n].queued = tally'[n].sent + Len(exportQueue'[n]) + Len(inExecutor'[n])
      <4>1. exporter[n] # "closed" => tally[n].queued = tally[n].sent + Len(exportQueue[n]) + 1
        BY <2>2, <3>1 DEF Accounted
      <4>2. exporter[n] # "closed" => tally'[n].sent = tally[n].sent + 1
        BY <3>1
      <4>3. UNCHANGED exportQueue[n] /\ tally'[n].queued = tally[n].queued /\ Len(inExecutor'[n]) = 0
        BY <3>1
      <4>4. QED
        BY <2>3, <4>1, <4>2, <4>3
    <3>3. exporter[n] = "closed" => tally'[n].queued # tally'[n].sent
      BY <2>2, <3>1 DEF Accounted
    <3>4. QED
      BY <2>2, <3>1, <3>2, <3>3 DEF Accounted
  <2>12. CASE ReporterClose(n)
    <3>1. /\ exporter[n] = "closed"
          /\ reporter'[n] = "stopped" => reportQueue[n] = <<>>
          /\ UNCHANGED <<done, mark, sampler, exporter, exportQueue, tally, inExecutor, reportQueue>>
      BY <2>12 DEF ReporterClose, exporterVars, TypeOK, ReporterTypeOK
    <3>2. QED
      BY <2>2, <3>1 DEF Accounted
  <2>13. CASE ReporterSend(n)
    <3>1. reporter[n] = "running"
          /\ UNCHANGED <<done, mark, sampler, exporter, exportQueue, tally, inExecutor, reporter>>
      BY <2>13 DEF ReporterSend, exporterVars
    <3>2. QED
      BY <2>2, <3>1 DEF Accounted
  <2>14. CASE Submit(n) \/ SendResult(n) \/ CollectorStep(n)
    <3>1. UNCHANGED <<done, mark, sampler, exporter, exportQueue, tally, inExecutor, reporter, reportQueue>>
      BY <2>14 DEF Submit, SendResult, CollectorStep, Receive, GiveUp, exporterVars, reporterVars
    <3>2. QED
      BY <2>2, <3>1 DEF Accounted
  <2>15. QED
    BY <1>1, <2>5, <2>6, <2>7, <2>8, <2>9, <2>10, <2>11, <2>12, <2>13, <2>14
       DEF NodeStep, ExporterStep, ReporterStep
<1>2. CASE MasterStep \/ UNCHANGED vars
  <2>1. \A n \in Node : UNCHANGED <<done[n], mark[n], sampler[n], exporter[n], exportQueue[n], tally[n],
                                    inExecutor[n], reporter[n], reportQueue[n]>>
    <3> SUFFICES ASSUME NEW n \in Node
                 PROVE  UNCHANGED <<done[n], mark[n], sampler[n], exporter[n], exportQueue[n], tally[n],
                                    inExecutor[n], reporter[n], reportQueue[n]>>
      OBVIOUS
    <3>1. UNCHANGED View(n)
      BY <1>2, MasterLeavesNodes
    <3>2. QED
      BY <3>1 DEF View
  <2>2. QED
    BY <2>1 DEF CloseInv, Accounted
<1>3. QED
  BY <1>1, <1>2 DEF Next, NodeStep, MasterStep

-------------------------------------------------------------------------------
(* The windows form a chain.                                                  *)

LEMMA FiguresOfSnapshots ==
  /\ \A s \in Snapshot : s.total \in Nat /\ s.window \in Nat
  /\ \A r \in Report : r.seq \in Nat /\ r.total \in Nat /\ r.window \in Nat /\ r.type = "progress"
BY DEF Snapshot, Report

LEMMA LinkedAppend ==
  ASSUME NEW T, NEW q \in Seq(T), NEW e \in T, NEW from,
         Linked(q, from), e.total - e.window = EndOf(q, from)
  PROVE  Linked(Append(q, e), from) /\ EndOf(Append(q, e), from) = e.total
<1> DEFINE a == Append(q, e)
           k == Len(q)
<1>1. /\ a # <<>> /\ Len(a) = k + 1 /\ DOMAIN a = 1..(k + 1) /\ a[k + 1] = e
      /\ \A i \in 1..k : a[i] = q[i]
  BY AppendedLast
<1>2. k \in Nat /\ DOMAIN q = 1..k /\ (q = <<>> <=> k = 0)
  BY EmptySeq, LenProperties
<1>3. EndOf(q, from) = IF k = 0 THEN from ELSE q[k].total
  BY <1>2 DEF EndOf
<1> HIDE DEF a, k
<1>4. ASSUME NEW i \in 1..(k + 1)
      PROVE  a[i].total - a[i].window = IF i = 1 THEN from ELSE a[i - 1].total
  <2>1. CASE i = k + 1
    <3>1. k # 0 => a[i - 1] = q[k]
      BY <1>1, <1>2, <2>1
    <3>2. QED
      BY <1>1, <1>2, <1>3, <2>1, <3>1
  <2>2. CASE i # k + 1
    <3>1. i \in 1..k /\ a[i] = q[i] /\ (i # 1 => i - 1 \in 1..k /\ a[i - 1] = q[i - 1])
      BY <1>1, <1>2, <2>2
    <3>2. QED
      BY <1>2, <3>1 DEF Linked
  <2>3. QED
    BY <2>1, <2>2
<1>5. EndOf(a, from) = e.total
  BY <1>1 DEF EndOf
<1>6. Linked(a, from)
  BY <1>1, <1>4 DEF Linked
<1>7. QED
  BY <1>5, <1>6 DEF a

LEMMA LinkedTail ==
  ASSUME NEW T, NEW q \in Seq(T), NEW from, q # <<>>, Linked(q, from)
  PROVE  /\ q[1].total - q[1].window = from
         /\ Linked(Tail(q), q[1].total)
         /\ EndOf(Tail(q), q[1].total) = EndOf(q, from)
<1> DEFINE t == Tail(q)
           k == Len(q)
<1>1. /\ k \in Nat \ {0} /\ DOMAIN t = 1..(k - 1) /\ DOMAIN q = 1..k
      /\ \A i \in 1..(k - 1) : t[i] = q[i + 1]
      /\ IF t = <<>> THEN k = 1 ELSE t[Len(t)] = q[k]
  BY WithoutHead
<1>2. EndOf(t, q[1].total) = EndOf(q, from)
  BY <1>1 DEF EndOf
<1> HIDE DEF t, k
<1>3. q[1].total - q[1].window = from
  BY <1>1 DEF Linked
<1>4. ASSUME NEW i \in 1..(k - 1)
      PROVE  t[i].total - t[i].window = IF i = 1 THEN q[1].total ELSE t[i - 1].total
  <2>1. t[i] = q[i + 1] /\ i + 1 \in 1..k /\ i + 1 # 1 /\ (i + 1) - 1 = i
        /\ (i # 1 => t[i - 1] = q[i])
    BY <1>1
  <2>2. q[i + 1].total - q[i + 1].window = q[i].total
    BY <1>1, <2>1 DEF Linked
  <2>3. QED
    BY <2>1, <2>2
<1>5. Linked(t, q[1].total)
  BY <1>1, <1>4 DEF Linked
<1>6. QED
  BY <1>2, <1>3, <1>5 DEF t

LEMMA LinkedOfOne ==
  ASSUME NEW e, NEW from
  PROVE  /\ EndOf(<<>>, from) = from /\ Linked(<<>>, from)
         /\ EndOf(<<e>>, from) = e.total
         /\ Linked(<<e>>, from) <=> e.total - e.window = from
BY DEF EndOf, Linked

LEMMA ChainStep ==
  ASSUME TypeOK, DeliveryInv, CloseInv, ChainInv, [Next]_vars
  PROVE  ChainInv'
<1>1. ASSUME NEW n \in Node, NodeStep(n) PROVE ChainInv'
  <2>1. ASSUME NEW m \in Node \ {n} PROVE Lossless(m)' => Chained(m)'
    <3>1. UNCHANGED <<exporter[m], tally[m], reportDropped[m], reportQueue[m], written[m], inExecutor[m],
                      exportQueue[m], mark[m]>>
      BY <1>1, <2>1, OthersUntouched, SMTT(30) DEF View
    <3>2. Lossless(m)' => Chained(m)
      BY <3>1 DEF ChainInv, Lossless
    <3>3. QED
      BY <3>1, <3>2 DEF Chained, Executed, Reported
  <2> SUFFICES ASSUME Lossless(n)' PROVE Chained(n)'
    BY <2>1 DEF ChainInv
  <2>2. Accounted(n) /\ Delivery(n) /\ (Lossless(n) => Chained(n))
    BY DEF CloseInv, DeliveryInv, ChainInv
  <2>3. /\ exportQueue[n] \in Seq(Snapshot) /\ inExecutor[n] \in Seq(Snapshot)
        /\ reportQueue[n] \in Seq(Report) /\ bounced[n] \in Seq(Report)
        /\ written[n].requests \in Nat /\ mark[n] \in Nat /\ done[n] \in Nat
        /\ reportDropped[n] \in Nat /\ tally[n].dropped \in Nat
        /\ tally[n].queued \in Nat /\ tally[n].sent \in Nat
    BY DEF TypeOK, ExporterTypeOK, ReporterTypeOK, Tally, Written
  <2>4. ASSUME UNCHANGED <<reportQueue, inExecutor, written, reportDropped>>, exporter[n] # "closed",
               NEW final \in BOOLEAN, QueueSnapshot(n, final)
        PROVE  Chained(n)'
    <3>1. /\ tally[n].dropped = 0 /\ mark'[n] = done[n]
          /\ \E s \in Snapshot : /\ s.total = done[n] /\ s.window = done[n] - mark[n]
                                 /\ exportQueue'[n] = Append(exportQueue[n], s)
      <4>1. tally'[n].dropped = 0
        BY DEF Lossless
      <4>2. tally'[n].dropped # tally[n].dropped + 1
        BY <2>3, <4>1, SMTT(30)
      <4>3. QED
        BY <2>4, <4>1, <4>2, QueueSnapshotEffect
    <3>2. Chained(n)
      BY <2>2, <2>4, <3>1 DEF Lossless
    <3>3. PICK s \in Snapshot : /\ s.total = done[n] /\ s.window = done[n] - mark[n]
                                /\ exportQueue'[n] = Append(exportQueue[n], s)
      BY <3>1
    <3>4. s.total - s.window = EndOf(exportQueue[n], Executed(n))
      BY <2>3, <3>2, <3>3 DEF Chained
    <3>5. Executed(n)' = Executed(n) /\ Reported(n)' = Reported(n)
      BY <2>4 DEF Executed, Reported
    <3>6. Linked(exportQueue'[n], Executed(n)) /\ EndOf(exportQueue'[n], Executed(n)) = mark'[n]
      BY <2>3, <3>1, <3>2, <3>3, <3>4, LinkedAppend DEF Chained
    <3>7. QED
      BY <2>4, <3>2, <3>5, <3>6 DEF Chained
  <2>5. CASE Sample(n)
    <3>1. sampler[n] # "off" /\ QueueSnapshot(n, FALSE) /\ UNCHANGED <<reportQueue, inExecutor, written, reportDropped>>
      BY <2>5 DEF Sample, reporterVars
    <3>2. QED
      BY <2>2, <2>4, <3>1 DEF Accounted
  <2>6. CASE BeginClose(n)
    BY <2>4, <2>6 DEF BeginClose, reporterVars
  <2>7. CASE EndClose(n)
    <3>1. /\ exporter[n] = "closing" /\ exporter'[n] = "closed"
          /\ UNCHANGED <<reportQueue, written, reportDropped, exportQueue, mark, tally>>
          /\ \/ UNCHANGED inExecutor
             \/ inExecutor[n] # <<>>
      BY <2>7 DEF EndClose, reporterVars, TypeOK, ExporterTypeOK
    <3>2. tally[n].queued = tally[n].sent /\ Lossless(n)
      BY <3>1 DEF Lossless
    <3>3. inExecutor[n] = <<>>
      <4>1. tally[n].queued = tally[n].sent + Len(exportQueue[n]) + Len(inExecutor[n])
        BY <2>2, <3>1 DEF Accounted
      <4>2. inExecutor[n] # <<>> => Len(inExecutor[n]) \in Nat \ {0}
        BY <2>3, EmptySeq
      <4>3. Len(exportQueue[n]) \in Nat
        BY <2>3, LenProperties
      <4>4. QED
        BY <2>3, <3>2, <4>1, <4>2, <4>3
    <3>4. QED
      BY <2>2, <3>1, <3>2, <3>3 DEF Chained, Executed, Reported
  <2>8. CASE Deliver(n)
    <3> DEFINE e == exportQueue[n][1]
    <3>1. /\ exportQueue[n] # <<>> /\ inExecutor[n] = <<>>
          /\ inExecutor'[n] = <<Head(exportQueue[n])>> /\ exportQueue'[n] = Tail(exportQueue[n])
          /\ UNCHANGED <<exporter, tally, reportDropped, reportQueue, written, mark>>
      BY <2>8 DEF Deliver, reporterVars, TypeOK, ExporterTypeOK
    <3>2. inExecutor'[n] = <<e>>
      BY <2>3, <3>1, WithoutHead
    <3>3. Chained(n)
      BY <2>2, <3>1 DEF Lossless
    <3>4. Executed(n) = Reported(n) /\ Reported(n)' = Reported(n) /\ Executed(n)' = e.total
      BY <3>1, <3>2, LinkedOfOne DEF Executed, Reported
    <3>5. /\ e.total - e.window = Reported(n)
          /\ Linked(exportQueue'[n], e.total)
          /\ EndOf(exportQueue'[n], e.total) = mark[n]
      BY <2>3, <3>1, <3>3, <3>4, LinkedTail, SMTT(30) DEF Chained
    <3>6. Linked(inExecutor'[n], Reported(n))
      BY <3>2, <3>5, LinkedOfOne
    <3>7. QED
      BY <3>1, <3>3, <3>4, <3>5, <3>6 DEF Chained
  <2>9. CASE Enqueue(n)
    <3> DEFINE r == bounced[n][1]
               e == inExecutor[n][1]
    <3>1. /\ bounced[n] # <<>> /\ r \in Report
          /\ inExecutor'[n] = <<>> /\ reportQueue'[n] = AfterEnqueue(reportQueue[n], r)
          /\ reportDropped'[n] = IF Len(reportQueue[n]) = ReportQueue THEN reportDropped[n] + 1 ELSE reportDropped[n]
          /\ tally'[n].queued = tally[n].queued /\ tally'[n].dropped = tally[n].dropped
          /\ exporter[n] = "closed" => tally'[n].sent = tally[n].sent
          /\ UNCHANGED <<exporter, written, exportQueue, mark>>
      BY <2>9, EnqueueEffect
    <3>2. inExecutor[n] # <<>> /\ Len(inExecutor[n]) <= 1 /\ r.total = e.total /\ r.window = e.window
      BY <2>2, <3>1 DEF Delivery
    <3>3. inExecutor[n] = <<e>>
      <4>1. Len(inExecutor[n]) = 1
        BY <2>3, <3>2, OneElement
      <4>2. QED
        BY <2>3, <4>1, SMTT(30)
    <3>4. reportDropped'[n] = 0
      BY DEF Lossless
    <3>5. Len(reportQueue[n]) # ReportQueue /\ reportDropped[n] = 0
      BY <2>3, <3>1, <3>4
    <3>6. Lossless(n)
      BY <3>1, <3>5 DEF Lossless
    <3>7. Chained(n)
      BY <2>2, <3>6
    <3>8. reportQueue'[n] = Append(reportQueue[n], r)
      BY <3>1, <3>5 DEF AfterEnqueue
    <3>9. r.total - r.window = Reported(n) /\ Executed(n) = r.total
      <4>1. Linked(<<e>>, Reported(n)) /\ Executed(n) = EndOf(<<e>>, Reported(n))
        BY <3>3, <3>7 DEF Chained, Executed
      <4>2. QED
        BY <3>2, <4>1, LinkedOfOne
    <3>10. Linked(reportQueue'[n], written[n].requests) /\ Reported(n)' = r.total
      BY <2>3, <3>1, <3>7, <3>8, <3>9, LinkedAppend, SMTT(30) DEF Chained, Reported
    <3>11. Executed(n)' = Executed(n) /\ Linked(inExecutor'[n], Reported(n)')
      <4>1. Executed(n)' = EndOf(<<>>, r.total) /\ inExecutor'[n] = <<>>
        BY <3>1, <3>10 DEF Executed
      <4>2. EndOf(<<>>, r.total) = r.total /\ Linked(<<>>, Reported(n)')
        BY LinkedOfOne
      <4>3. QED
        BY <3>9, <4>1, <4>2
    <3>12. QED
      BY <3>1, <3>7, <3>10, <3>11 DEF Chained
  <2>10. CASE ReporterSend(n)
    <3> DEFINE r == reportQueue[n][1]
    <3>1. /\ reportQueue[n] # <<>> /\ reportQueue'[n] = Tail(reportQueue[n])
          /\ written'[n].requests = written[n].requests + Head(reportQueue[n]).window
          /\ UNCHANGED <<exporter, tally, reportDropped, exportQueue, inExecutor, mark>>
      BY <2>10 DEF ReporterSend, exporterVars, TypeOK, ReporterTypeOK
    <3>2. Head(reportQueue[n]) = r /\ r \in Report
      BY <2>3, <3>1, WithoutHead
    <3>3. Chained(n)
      BY <2>2, <3>1 DEF Lossless
    <3>4. /\ r.total - r.window = written[n].requests
          /\ Linked(reportQueue'[n], r.total) /\ EndOf(reportQueue'[n], r.total) = Reported(n)
      BY <2>3, <3>1, <3>3, LinkedTail, SMTT(30) DEF Chained, Reported
    <3>5. written'[n].requests = r.total
      <4>1. r.total \in Nat /\ r.window \in Nat /\ written[n].requests \in Nat
        BY <2>3, <3>2, FiguresOfSnapshots
      <4>2. written'[n].requests = written[n].requests + r.window
        BY <3>1, <3>2
      <4>3. QED
        BY <3>4, <4>1, <4>2
    <3>6. Reported(n)' = Reported(n)
      BY <3>4, <3>5 DEF Reported
    <3>7. QED
      BY <3>1, <3>3, <3>4, <3>5, <3>6 DEF Chained, Executed
  <2>11. CASE UNCHANGED <<exporter, tally, reportDropped, reportQueue, written, inExecutor, exportQueue, mark>>
    BY <2>2, <2>11 DEF Lossless, Chained, Executed, Reported
  <2>12. CASE Submit(n) \/ ReporterClose(n) \/ SendResult(n) \/ CollectorStep(n)
    BY <2>11, <2>12 DEF Submit, ReporterClose, SendResult, CollectorStep, Receive, GiveUp, exporterVars, reporterVars
  <2>13. CASE Request(n) \/ TimerFires(n)
    BY <2>11, <2>13 DEF Request, TimerFires, reporterVars
  <2>14. QED
    BY <1>1, <2>5, <2>6, <2>7, <2>8, <2>9, <2>10, <2>12, <2>13 DEF NodeStep, ExporterStep, ReporterStep
<1>2. CASE MasterStep \/ UNCHANGED vars
  <2>1. \A n \in Node : UNCHANGED <<exporter[n], tally[n], reportDropped[n], reportQueue[n], written[n],
                                    inExecutor[n], exportQueue[n], mark[n]>>
    BY <1>2, MasterLeavesNodes DEF View
  <2>2. QED
    BY <2>1 DEF ChainInv, Lossless, Chained, Executed, Reported
<1>3. QED
  BY <1>1, <1>2 DEF Next, NodeStep, MasterStep

-------------------------------------------------------------------------------
(* What the master reads is in order.                                         *)

\* A place in a node's run: that of a report, or the start.
Point(a) == a.seq \in Nat /\ a.total \in Nat

AtMost(a, b) == a.seq <= b.seq /\ a.total <= b.total

LEMMA OrderedAppend ==
  ASSUME NEW T, NEW q \in Seq(T), NEW e \in T, NEW from, Ordered(q, from),
         e.type = "progress" =>
           /\ Before(from, e)
           /\ \A j \in DOMAIN q : q[j].type = "progress" => Before(q[j], e)
  PROVE  Ordered(Append(q, e), from) /\ LastOf(Append(q, e), from) = e
<1> DEFINE a == Append(q, e)
           k == Len(q)
<1>1. /\ a # <<>> /\ Len(a) = k + 1 /\ DOMAIN a = 1..(k + 1) /\ a[k + 1] = e
      /\ \A i \in 1..k : a[i] = q[i]
  BY AppendedLast
<1>2. k \in Nat /\ DOMAIN q = 1..k
  BY LenProperties
<1>3. LastOf(a, from) = e
  BY <1>1 DEF LastOf
<1> HIDE DEF a, k
<1>4. ASSUME NEW i \in 1..(k + 1), a[i].type = "progress"
      PROVE  /\ Before(from, a[i])
             /\ \A j \in 1..(i - 1) : a[j].type = "progress" => Before(a[j], a[i])
  <2>1. \A j \in 1..(i - 1) : j \in 1..k /\ a[j] = q[j]
    BY <1>1, <1>2
  <2>2. CASE i = k + 1
    BY <1>1, <1>2, <1>4, <2>1, <2>2
  <2>3. CASE i # k + 1
    <3>1. i \in 1..k /\ a[i] = q[i]
      BY <1>1, <1>2, <2>3
    <3>2. QED
      BY <1>2, <1>4, <2>1, <3>1 DEF Ordered
  <2>4. QED
    BY <2>2, <2>3
<1>5. Ordered(a, from)
  BY <1>1, <1>4 DEF Ordered
<1>6. QED
  BY <1>3, <1>5 DEF a

LEMMA OrderedTail ==
  ASSUME NEW T, NEW q \in Seq(T), NEW from, q # <<>>, Ordered(q, from)
  PROVE  /\ Ordered(Tail(q), from)
         /\ q[1].type = "progress" =>
              /\ Before(from, q[1]) /\ Ordered(Tail(q), q[1])
              /\ LastOf(Tail(q), q[1]) = LastOf(q, from)
<1> DEFINE t == Tail(q)
           k == Len(q)
<1>1. /\ k \in Nat \ {0} /\ DOMAIN t = 1..(k - 1) /\ DOMAIN q = 1..k
      /\ \A i \in 1..(k - 1) : t[i] = q[i + 1]
      /\ IF t = <<>> THEN k = 1 ELSE t[Len(t)] = q[k]
  BY WithoutHead
<1>2. LastOf(t, q[1]) = LastOf(q, from)
  BY <1>1 DEF LastOf
<1> HIDE DEF t, k
<1>3. ASSUME NEW i \in 1..(k - 1), t[i].type = "progress"
      PROVE  /\ Before(from, t[i]) /\ (q[1].type = "progress" => Before(q[1], t[i]))
             /\ \A j \in 1..(i - 1) : t[j].type = "progress" => Before(t[j], t[i])
  <2>1. t[i] = q[i + 1] /\ i + 1 \in 1..k /\ 1 \in 1..((i + 1) - 1)
        /\ \A j \in 1..(i - 1) : t[j] = q[j + 1] /\ j + 1 \in 1..((i + 1) - 1)
    BY <1>1
  <2>2. /\ Before(from, q[i + 1])
        /\ \A j \in 1..((i + 1) - 1) : q[j].type = "progress" => Before(q[j], q[i + 1])
    BY <1>1, <1>3, <2>1 DEF Ordered
  <2>3. QED
    BY <2>1, <2>2
<1>4. Ordered(t, from) /\ (q[1].type = "progress" => Ordered(t, q[1]))
  BY <1>1, <1>3 DEF Ordered
<1>5. q[1].type = "progress" => Before(from, q[1])
  BY <1>1 DEF Ordered
<1>6. QED
  BY <1>2, <1>4, <1>5 DEF t

\* A queue that is in order after one place is in order after any earlier place.
LEMMA OrderedEarlier ==
  ASSUME NEW q \in Seq(Report), NEW from, NEW base, Point(from), Point(base), AtMost(base, from),
         Ordered(q, from)
  PROVE  Ordered(q, base) /\ AtMost(LastOf(q, base), LastOf(q, from))
<1>1. ASSUME NEW r \in Report, Before(from, r) PROVE Before(base, r)
  <2>1. /\ r.seq \in Nat /\ r.total - r.window \in Int
        /\ from.seq \in Nat /\ from.total \in Nat /\ base.seq \in Nat /\ base.total \in Nat
    BY FiguresOfSnapshots DEF Point
  <2>2. QED
    BY <1>1, <2>1 DEF Before, AtMost
<1>2. \A i \in DOMAIN q : q[i] \in Report
  BY LenProperties
<1>3. Ordered(q, base)
  BY <1>1, <1>2 DEF Ordered
<1>4. q # <<>> => q[Len(q)] \in Report
  BY WithoutHead
<1>5. AtMost(LastOf(q, base), LastOf(q, from))
  BY <1>4, FiguresOfSnapshots DEF LastOf, AtMost
<1>6. QED
  BY <1>3, <1>5

\* The last report of a queue in order is the latest of them, and later than its start.
LEMMA OrderedLast ==
  ASSUME NEW q \in Seq(Report), NEW from, Point(from), Ordered(q, from)
  PROVE  /\ Point(LastOf(q, from)) /\ AtMost(from, LastOf(q, from))
         /\ \A r \in Report : Before(LastOf(q, from), r) =>
              Before(from, r) /\ \A j \in DOMAIN q : Before(q[j], r)
<1>1. CASE q = <<>>
  BY <1>1 DEF LastOf, Point, AtMost
<1>2. CASE q # <<>>
  <2> DEFINE k == Len(q)
             l == q[k]
  <2>1. k \in Nat \ {0} /\ DOMAIN q = 1..k /\ LastOf(q, from) = l /\ \A i \in 1..k : q[i] \in Report
    BY <1>2, EmptySeq, LenProperties DEF LastOf
  <2> HIDE DEF k
  <2>2. Before(from, l) /\ \A j \in 1..(k - 1) : Before(q[j], l)
    <3>1. /\ k \in DOMAIN q /\ l.type = "progress"
          /\ \A j \in 1..(k - 1) : q[j].type = "progress"
      BY <2>1, FiguresOfSnapshots
    <3>2. QED
      BY <3>1 DEF Ordered
  <2>3. l.seq \in Nat /\ l.total \in Nat /\ l.window \in Nat /\ from.seq \in Nat /\ from.total \in Nat
    BY <2>1, FiguresOfSnapshots DEF Point
  <2> HIDE DEF l
  <2>4. Point(l) /\ AtMost(from, l)
    BY <2>2, <2>3 DEF Point, AtMost, Before
  <2>5. ASSUME NEW r \in Report, Before(l, r), NEW a, Point(a), Before(a, l)
        PROVE  Before(a, r)
    <3>1. r.seq \in Nat /\ r.total - r.window \in Int /\ a.seq \in Nat /\ a.total \in Nat
      BY <2>5, FiguresOfSnapshots DEF Point
    <3>2. QED
      BY <2>3, <2>5, <3>1 DEF Before
  <2>6. ASSUME NEW r \in Report, Before(l, r), NEW j \in DOMAIN q
        PROVE  Before(q[j], r)
    <3>1. CASE j = k
      BY <2>6, <3>1 DEF l
    <3>2. CASE j # k
      <4>1. j \in 1..(k - 1) /\ Point(q[j])
        BY <2>1, <3>2, FiguresOfSnapshots DEF Point
      <4>2. QED
        BY <2>2, <2>5, <2>6, <4>1
    <3>3. QED
      BY <3>1, <3>2
  <2>7. QED
    BY <2>1, <2>2, <2>4, <2>5, <2>6
<1>3. QED
  BY <1>1, <1>2

LEMMA EndOfTyped ==
  ASSUME NEW q \in Seq(Snapshot), NEW from \in Nat
  PROVE  EndOf(q, from) \in Nat
BY WithoutHead, FiguresOfSnapshots DEF EndOf

LEMMA StackedAppend ==
  ASSUME NEW q \in Seq(Snapshot), NEW e \in Snapshot, NEW from \in Nat,
         Stacked(q, from), EndOf(q, from) <= e.total - e.window
  PROVE  Stacked(Append(q, e), from) /\ EndOf(Append(q, e), from) = e.total
<1> DEFINE a == Append(q, e)
           k == Len(q)
<1>1. /\ a # <<>> /\ Len(a) = k + 1 /\ DOMAIN a = 1..(k + 1) /\ a[k + 1] = e
      /\ \A i \in 1..k : a[i] = q[i]
  BY AppendedLast
<1>2. /\ k \in Nat /\ DOMAIN q = 1..k /\ (q = <<>> <=> k = 0)
      /\ \A i \in 1..k : q[i] \in Snapshot
  BY EmptySeq, LenProperties
<1>3. EndOf(q, from) = IF k = 0 THEN from ELSE q[k].total
  BY <1>2 DEF EndOf
<1>4. EndOf(a, from) = e.total
  BY <1>1 DEF EndOf
<1> HIDE DEF a, k
<1>5. /\ from <= e.total - e.window
      /\ \A j \in 1..k : q[j].total <= e.total - e.window
  <2>1. CASE k = 0
    BY <1>3, <2>1
  <2>2. CASE k # 0
    <3>1. /\ from <= q[k].total - q[k].window
          /\ \A j \in 1..(k - 1) : q[j].total <= q[k].total - q[k].window
      BY <1>2, <2>2 DEF Stacked
    <3>2. q[k].total <= e.total - e.window
      BY <1>3, <2>2
    <3>3. q[k].total \in Nat /\ q[k].window \in Nat /\ e.total \in Nat /\ e.window \in Nat
      BY <1>2, <2>2, FiguresOfSnapshots
    <3>4. ASSUME NEW x \in Nat, x <= q[k].total - q[k].window PROVE x <= e.total - e.window
      BY <3>2, <3>3, <3>4
    <3>5. \A j \in 1..k : q[j].total \in Nat
      BY <1>2, FiguresOfSnapshots
    <3>6. \A j \in 1..(k - 1) : j \in 1..k
      BY <1>2
    <3>7. \A j \in 1..(k - 1) : q[j].total <= e.total - e.window
      BY <3>1, <3>4, <3>5, <3>6
    <3>8. \A j \in 1..k : j = k \/ j \in 1..(k - 1)
      BY <1>2
    <3>9. QED
      BY <3>1, <3>2, <3>4, <3>7, <3>8
  <2>3. QED
    BY <2>1, <2>2
<1>6. ASSUME NEW i \in 1..(k + 1)
      PROVE  /\ from <= a[i].total - a[i].window
             /\ \A j \in 1..(i - 1) : a[j].total <= a[i].total - a[i].window
  <2>1. \A j \in 1..(i - 1) : j \in 1..k /\ a[j] = q[j]
    BY <1>1, <1>2
  <2>2. CASE i = k + 1
    BY <1>1, <1>5, <2>1, <2>2
  <2>3. CASE i # k + 1
    <3>1. i \in 1..k /\ a[i] = q[i]
      BY <1>1, <1>2, <2>3
    <3>2. QED
      BY <1>2, <2>1, <3>1 DEF Stacked
  <2>4. QED
    BY <2>2, <2>3
<1>7. Stacked(a, from)
  BY <1>1, <1>6 DEF Stacked
<1>8. QED
  BY <1>4, <1>7 DEF a

LEMMA StackedTail ==
  ASSUME NEW q \in Seq(Snapshot), NEW from, q # <<>>, Stacked(q, from)
  PROVE  /\ from <= q[1].total - q[1].window
         /\ Stacked(Tail(q), q[1].total)
         /\ EndOf(Tail(q), q[1].total) = EndOf(q, from)
<1> DEFINE t == Tail(q)
           k == Len(q)
<1>1. /\ k \in Nat \ {0} /\ DOMAIN t = 1..(k - 1) /\ DOMAIN q = 1..k
      /\ \A i \in 1..(k - 1) : t[i] = q[i + 1]
      /\ IF t = <<>> THEN k = 1 ELSE t[Len(t)] = q[k]
  BY WithoutHead
<1>2. EndOf(t, q[1].total) = EndOf(q, from)
  BY <1>1 DEF EndOf
<1> HIDE DEF t, k
<1>3. ASSUME NEW i \in 1..(k - 1)
      PROVE  /\ q[1].total <= t[i].total - t[i].window
             /\ \A j \in 1..(i - 1) : t[j].total <= t[i].total - t[i].window
  <2>1. t[i] = q[i + 1] /\ i + 1 \in 1..k /\ 1 \in 1..((i + 1) - 1)
        /\ \A j \in 1..(i - 1) : t[j] = q[j + 1] /\ j + 1 \in 1..((i + 1) - 1)
    BY <1>1
  <2>2. \A j \in 1..((i + 1) - 1) : q[j].total <= q[i + 1].total - q[i + 1].window
    BY <1>1, <2>1 DEF Stacked
  <2>3. QED
    BY <2>1, <2>2
<1>4. Stacked(t, q[1].total)
  BY <1>1, <1>3 DEF Stacked
<1>5. from <= q[1].total - q[1].window
  BY <1>1 DEF Stacked
<1>6. QED
  BY <1>2, <1>4, <1>5 DEF t

LEMMA StackedEarlier ==
  ASSUME NEW q \in Seq(Snapshot), NEW from \in Nat, NEW base \in Nat, base <= from, Stacked(q, from)
  PROVE  Stacked(q, base) /\ EndOf(q, base) <= EndOf(q, from) /\ from <= EndOf(q, from)
<1>1. \A i \in DOMAIN q : q[i].total \in Nat /\ q[i].window \in Nat
  BY LenProperties, FiguresOfSnapshots
<1>2. Stacked(q, base)
  <2>1. ASSUME NEW i \in DOMAIN q PROVE base <= q[i].total - q[i].window
    <3>1. from <= q[i].total - q[i].window
      BY DEF Stacked
    <3>2. QED
      BY <1>1, <3>1
  <2>2. QED
    BY <2>1 DEF Stacked
<1>3. CASE q = <<>>
  BY <1>2, <1>3 DEF EndOf
<1>4. CASE q # <<>>
  <2>1. Len(q) \in DOMAIN q
    BY <1>4, EmptySeq, LenProperties
  <2>2. from <= q[Len(q)].total - q[Len(q)].window
    BY <2>1 DEF Stacked
  <2>3. from <= q[Len(q)].total
    BY <1>1, <2>1, <2>2
  <2>4. QED
    BY <1>1, <1>2, <1>4, <2>1, <2>3 DEF EndOf
<1>5. QED
  BY <1>3, <1>4

\* If the reports end earlier, what is pending may stay as it is.
LEMMA PendingEarlier ==
  ASSUME NEW delivery \in Seq(Snapshot), NEW queue \in Seq(Snapshot), NEW from \in Nat, NEW base \in Nat,
         NEW upTo \in Nat, base <= from, Pending(delivery, queue, from, upTo)
  PROVE  Pending(delivery, queue, base, upTo)
<1>1. /\ Stacked(delivery, base) /\ EndOf(delivery, base) <= EndOf(delivery, from)
      /\ EndOf(delivery, base) \in Nat /\ EndOf(delivery, from) \in Nat
  BY StackedEarlier, EndOfTyped DEF Pending
<1>2. /\ Stacked(queue, EndOf(delivery, base))
      /\ EndOf(queue, EndOf(delivery, base)) <= EndOf(queue, EndOf(delivery, from))
      /\ EndOf(queue, EndOf(delivery, base)) \in Nat /\ EndOf(queue, EndOf(delivery, from)) \in Nat
  BY <1>1, StackedEarlier, EndOfTyped DEF Pending
<1>3. EndOf(queue, EndOf(delivery, base)) <= upTo
  BY <1>2 DEF Pending
<1>4. QED
  BY <1>1, <1>2, <1>3 DEF Pending

LEMMA OnlyReports ==
  ASSUME NEW q \in Seq(Message), \A i \in DOMAIN q : q[i] # Result
  PROVE  q \in Seq(Report)
<1>1. q \in [1..Len(q) -> Message] /\ Len(q) \in Nat
  BY LenProperties
<1>2. q \in [1..Len(q) -> Report]
  BY <1>1 DEF Message
<1>3. QED
  BY <1>1, <1>2, SeqDef

LEMMA FloorTyped ==
  ASSUME TypeOK, NEW n \in Node
  PROVE  Point(Floor(n)) /\ (latest[n] # <<>> => Floor(n) = latest[n][1] /\ Floor(n) \in Report)
<1>1. latest[n] # <<>> => latest[n][1] \in Report
  BY DEF TypeOK, MasterTypeOK
<1>2. QED
  BY <1>1, FiguresOfSnapshots DEF Floor, Point

LEMMA OrderFacts ==
  ASSUME TypeOK, ResultInv, OrderInv, NEW n \in Node, reporter[n] = "running"
  PROVE  /\ channel[n] \in Seq(Report)
         /\ Point(Sent(n)) /\ AtMost(Floor(n), Sent(n))
         /\ Point(Queued(n)) /\ AtMost(Sent(n), Queued(n))
<1>1. channel[n] \in Seq(Report)
  BY OnlyReports DEF ResultInv, NoResultYet, TypeOK, MasterTypeOK
<1>2. Point(Sent(n)) /\ AtMost(Floor(n), Sent(n))
  BY <1>1, FloorTyped, OrderedLast DEF OrderInv, InOrder, Sent
<1>3. reportQueue[n] \in Seq(Report)
  BY DEF TypeOK, ReporterTypeOK
<1>4. QED
  BY <1>1, <1>2, <1>3, OrderedLast DEF OrderInv, InOrder, Queued

\* What is pending after a snapshot has been queued or dropped.
LEMMA PendingSnapshot ==
  ASSUME TypeOK, NEW n \in Node, NEW final \in BOOLEAN, QueueSnapshot(n, final), NEW from \in Nat,
         Pending(inExecutor[n], exportQueue[n], from, mark[n])
  PROVE  Pending(inExecutor[n], exportQueue'[n], from, mark'[n])
<1> DEFINE base == EndOf(inExecutor[n], from)
<1>1. /\ exportQueue[n] \in Seq(Snapshot) /\ inExecutor[n] \in Seq(Snapshot)
      /\ mark[n] \in Nat /\ done[n] \in Nat /\ mark[n] <= done[n]
  BY DEF TypeOK, ExporterTypeOK
<1>2. base \in Nat /\ EndOf(exportQueue[n], base) \in Nat
  BY <1>1, EndOfTyped
<1>3. Stacked(exportQueue[n], base) /\ EndOf(exportQueue[n], base) <= mark[n] /\ mark'[n] = done[n]
  BY QueueSnapshotEffect DEF Pending
<1> HIDE DEF base
<1>4. CASE exportQueue'[n] = exportQueue[n]
  <2>1. EndOf(exportQueue'[n], base) <= mark'[n]
    BY <1>1, <1>2, <1>3, <1>4
  <2>2. QED
    BY <1>3, <1>4, <2>1 DEF Pending, base
<1>5. ASSUME NEW s \in Snapshot, s.total = done[n], s.window = done[n] - mark[n],
             exportQueue'[n] = Append(exportQueue[n], s)
      PROVE  Pending(inExecutor[n], exportQueue'[n], from, mark'[n])
  <2>1. EndOf(exportQueue[n], base) <= s.total - s.window
    BY <1>1, <1>2, <1>3, <1>5
  <2>2. Stacked(exportQueue'[n], base) /\ EndOf(exportQueue'[n], base) = s.total
    BY <1>1, <1>2, <1>3, <1>5, <2>1, StackedAppend
  <2>3. EndOf(exportQueue'[n], base) <= mark'[n]
    BY <1>1, <1>3, <1>5, <2>2
  <2>4. QED
    BY <2>2, <2>3 DEF Pending, base
<1>6. QED
  BY <1>4, <1>5, QueueSnapshotEffect

LEMMA OrderStepOfExporter ==
  ASSUME TypeOK, ResultInv, OrderInv, NEW n \in Node, ExporterStep(n)
  PROVE  InOrder(n)'
<1>1. /\ InOrder(n)
      /\ exportQueue[n] \in Seq(Snapshot) /\ inExecutor[n] \in Seq(Snapshot) /\ mark[n] \in Nat
  BY DEF OrderInv, TypeOK, ExporterTypeOK
<1>2. reporter[n] = "running" => Queued(n).total \in Nat
  BY OrderFacts DEF Point
<1>3. UNCHANGED <<seq, bounced, reporter, reportQueue, channel, latest>>
  BY DEF ExporterStep, Request, TimerFires, Sample, BeginClose, EndClose, Deliver, reporterVars, masterVars
<1>4. Floor(n)' = Floor(n) /\ Sent(n)' = Sent(n) /\ Queued(n)' = Queued(n)
  BY <1>3 DEF Floor, Sent, Queued
<1> SUFFICES ASSUME reporter[n] = "running", NEW from \in Nat, from = Queued(n).total,
                    Pending(inExecutor[n], exportQueue[n], from, mark[n])
             PROVE  Pending(inExecutor'[n], exportQueue'[n], from, mark'[n])
  BY <1>1, <1>2, <1>3, <1>4 DEF InOrder
<1>5. CASE Request(n) \/ TimerFires(n)
  BY <1>5 DEF Request, TimerFires
<1>6. CASE Sample(n) \/ BeginClose(n)
  BY <1>6, PendingSnapshot DEF Sample, BeginClose
<1>7. CASE EndClose(n)
  <2>1. UNCHANGED <<exportQueue, mark>> /\ (inExecutor'[n] = inExecutor[n] \/ inExecutor'[n] = <<>>)
    <3>1. UNCHANGED inExecutor \/ inExecutor' = [inExecutor EXCEPT ![n] = <<>>]
      BY <1>7 DEF EndClose
    <3>2. QED
      BY <1>7, <3>1 DEF EndClose, TypeOK, ExporterTypeOK
  <2>2. CASE inExecutor'[n] = <<>>
    <3> DEFINE base == EndOf(inExecutor[n], from)
    <3>1. base \in Nat /\ from <= base /\ Stacked(exportQueue[n], base) /\ EndOf(exportQueue[n], base) <= mark[n]
      BY <1>1, EndOfTyped, StackedEarlier DEF Pending
    <3>2. /\ Stacked(exportQueue[n], from) /\ EndOf(exportQueue[n], from) <= EndOf(exportQueue[n], base)
          /\ EndOf(exportQueue[n], from) \in Nat /\ EndOf(exportQueue[n], base) \in Nat
      BY <1>1, <3>1, StackedEarlier, EndOfTyped
    <3>3. EndOf(exportQueue[n], from) <= mark[n]
      BY <1>1, <3>1, <3>2
    <3>4. Stacked(<<>>, from) /\ EndOf(<<>>, from) = from
      BY DEF Stacked, EndOf
    <3>5. QED
      BY <2>1, <2>2, <3>2, <3>3, <3>4 DEF Pending
  <2>3. QED
    BY <2>1, <2>2
<1>8. CASE Deliver(n)
  <2> DEFINE e == exportQueue[n][1]
  <2>1. /\ exportQueue[n] # <<>> /\ inExecutor[n] = <<>> /\ UNCHANGED mark
        /\ inExecutor'[n] = <<e>> /\ exportQueue'[n] = Tail(exportQueue[n])
    BY <1>1, <1>8, WithoutHead DEF Deliver, TypeOK, ExporterTypeOK
  <2>2. EndOf(inExecutor[n], from) = from /\ EndOf(inExecutor'[n], from) = e.total
    BY <2>1, LinkedOfOne
  <2>3. from <= e.total - e.window /\ Stacked(Tail(exportQueue[n]), e.total)
        /\ EndOf(Tail(exportQueue[n]), e.total) = EndOf(exportQueue[n], from)
    BY <1>1, <2>1, <2>2, StackedTail DEF Pending
  <2>4. Stacked(<<e>>, from)
    BY <2>3 DEF Stacked
  <2>5. QED
    BY <2>1, <2>2, <2>3, <2>4 DEF Pending
<1>9. QED
  BY <1>5, <1>6, <1>7, <1>8 DEF ExporterStep

LEMMA OrderStepOfSubmit ==
  ASSUME TypeOK, ResultInv, OrderInv, NEW n \in Node, Submit(n)
  PROVE  InOrder(n)'
<1>1. /\ UNCHANGED <<exportQueue, inExecutor, mark, reporter, reportQueue, channel, latest>>
      /\ bounced[n] = <<>> /\ seq'[n] = seq[n] + 1 /\ seq[n] \in Nat
  BY DEF Submit, exporterVars, masterVars, TypeOK, ReporterTypeOK
<1>2. Floor(n)' = Floor(n) /\ Sent(n)' = Sent(n) /\ Queued(n)' = Queued(n) /\ InOrder(n)
  BY <1>1 DEF Floor, Sent, Queued, OrderInv
<1>3. reporter[n] = "running" => Queued(n).seq \in Nat /\ Queued(n).seq <= seq[n]
  BY <1>1, <1>2, OrderFacts DEF InOrder, Point
<1>4. reporter[n] = "running" => Queued(n).seq < seq'[n] /\ Queued(n).seq <= seq'[n]
  BY <1>1, <1>3
<1>5. QED
  BY <1>1, <1>2, <1>4 DEF InOrder

LEMMA OrderStepOfEnqueue ==
  ASSUME TypeOK, ResultInv, DeliveryInv, OrderInv, NEW n \in Node, Enqueue(n)
  PROVE  InOrder(n)'
<1> DEFINE r == bounced[n][1]
           q == reportQueue[n]
           e == inExecutor[n][1]
<1>1. /\ bounced[n] # <<>> /\ r \in Report /\ bounced'[n] = <<>> /\ inExecutor'[n] = <<>>
      /\ reportQueue'[n] = AfterEnqueue(q, r)
      /\ UNCHANGED <<exportQueue, mark, seq, reporter, channel, latest>>
  BY EnqueueEffect DEF masterVars
<1>2. Floor(n)' = Floor(n) /\ Sent(n)' = Sent(n) /\ InOrder(n)
  BY <1>1 DEF Floor, Sent, OrderInv
<1> SUFFICES ASSUME reporter[n] = "running"
             PROVE  /\ Ordered(reportQueue'[n], Sent(n))
                    /\ LastOf(reportQueue'[n], Sent(n)) = r
                    /\ r.seq <= seq[n]
                    /\ Pending(<<>>, exportQueue[n], r.total, mark[n])
  BY <1>1, <1>2 DEF InOrder, Queued
<1>3. /\ q \in Seq(Report) /\ seq[n] \in Nat /\ inExecutor[n] \in Seq(Snapshot)
      /\ Point(Sent(n)) /\ Point(Queued(n)) /\ Ordered(q, Sent(n))
      /\ Queued(n).seq < seq[n]
      /\ Pending(inExecutor[n], exportQueue[n], Queued(n).total, mark[n])
  BY <1>1, <1>2, OrderFacts DEF InOrder, TypeOK, ExporterTypeOK, ReporterTypeOK
<1>4. r.seq = seq[n] /\ r.total = e.total /\ r.window = e.window /\ inExecutor[n] = <<e>>
  <2>1. /\ inExecutor[n] # <<>> /\ Len(inExecutor[n]) <= 1
        /\ r.seq = seq[n] /\ r.total = e.total /\ r.window = e.window
    BY <1>1 DEF DeliveryInv, Delivery
  <2>2. Len(inExecutor[n]) = 1
    BY <1>3, <2>1, OneElement
  <2>3. QED
    BY <1>3, <2>1, <2>2
<1>5. Stacked(<<e>>, Queued(n).total) /\ EndOf(<<e>>, Queued(n).total) = r.total
  BY <1>3, <1>4, LinkedOfOne DEF Pending
<1>6. Before(Queued(n), r)
  <2>1. Queued(n).total <= e.total - e.window
    <3>1. 1 \in DOMAIN <<e>> /\ <<e>>[1] = e
      OBVIOUS
    <3>2. QED
      BY <1>5, <3>1 DEF Stacked
  <2>2. QED
    BY <1>3, <1>4, <2>1 DEF Before
<1>7. Pending(<<>>, exportQueue[n], r.total, mark[n])
  <2>1. Stacked(<<>>, r.total) /\ EndOf(<<>>, r.total) = r.total
    BY DEF Stacked, EndOf
  <2>2. EndOf(inExecutor[n], Queued(n).total) = r.total
    BY <1>4, <1>5
  <2>3. QED
    BY <1>3, <2>1, <2>2 DEF Pending
<1>8. ASSUME NEW t \in Seq(Report), Ordered(t, Sent(n)), AtMost(LastOf(t, Sent(n)), Queued(n))
      PROVE  Ordered(Append(t, r), Sent(n)) /\ LastOf(Append(t, r), Sent(n)) = r
  <2>1. Point(LastOf(t, Sent(n)))
    BY <1>3, <1>8, OrderedLast
  <2>2. Before(LastOf(t, Sent(n)), r)
    <3>1. r.total - r.window \in Int /\ r.seq \in Nat
      BY <1>1, FiguresOfSnapshots
    <3> DEFINE l == LastOf(t, Sent(n))
               u == Queued(n)
    <3>2. /\ l.seq \in Nat /\ l.total \in Nat /\ u.seq \in Nat /\ u.total \in Nat
          /\ l.seq <= u.seq /\ l.total <= u.total /\ u.seq < r.seq /\ u.total <= r.total - r.window
      BY <1>3, <1>6, <1>8, <2>1 DEF Before, AtMost, Point
    <3> HIDE DEF l, u
    <3>3. Before(l, r)
      BY <3>1, <3>2 DEF Before
    <3>4. QED
      BY <3>3 DEF l
  <2>3. Before(Sent(n), r) /\ \A j \in DOMAIN t : Before(t[j], r)
    BY <1>1, <1>3, <1>8, <2>2, OrderedLast
  <2>4. QED
    BY <1>1, <1>8, <2>3, OrderedAppend
<1>9. r.seq <= seq[n]
  BY <1>3, <1>4
<1>10. CASE Len(q) = ReportQueue
  <2>1. q # <<>> /\ reportQueue'[n] = Append(Tail(q), r)
    <3>1. Len(<<>>) = 0
      OBVIOUS
    <3>2. QED
      BY <1>1, <1>10, <3>1 DEF AfterEnqueue
  <2>2. Tail(q) \in Seq(Report) /\ Ordered(Tail(q), Sent(n))
    BY <1>3, <2>1, WithoutHead, OrderedTail
  <2>3. AtMost(LastOf(Tail(q), Sent(n)), Queued(n))
    <3>1. AtMost(Sent(n), Queued(n)) /\ AtMost(Queued(n), Queued(n))
      BY <1>3, OrderFacts DEF AtMost, Point
    <3>2. IF Tail(q) = <<>> THEN LastOf(Tail(q), Sent(n)) = Sent(n)
                            ELSE LastOf(Tail(q), Sent(n)) = Queued(n)
      BY <1>3, <2>1, WithoutHead DEF LastOf, Queued
    <3>3. QED
      BY <3>1, <3>2
  <2>4. QED
    BY <1>9, <1>7, <1>8, <2>1, <2>2, <2>3
<1>11. CASE Len(q) # ReportQueue
  <2>1. reportQueue'[n] = Append(q, r)
    BY <1>1, <1>11 DEF AfterEnqueue
  <2>2. AtMost(LastOf(q, Sent(n)), Queued(n))
    BY <1>3 DEF AtMost, Point, Queued
  <2>3. QED
    BY <1>9, <1>3, <1>7, <1>8, <2>1, <2>2
<1>12. QED
  BY <1>10, <1>11

LEMMA OrderStepOfReporterSend ==
  ASSUME TypeOK, ResultInv, OrderInv, NEW n \in Node, ReporterSend(n)
  PROVE  InOrder(n)'
<1> DEFINE q == reportQueue[n]
           r == q[1]
<1>1. /\ reporter[n] = "running" /\ q # <<>> /\ q \in Seq(Report) /\ r \in Report
      /\ reportQueue'[n] = Tail(q)
      /\ channel'[n] = IF collector[n] = "reading" THEN Append(channel[n], r) ELSE channel[n]
      /\ UNCHANGED <<exportQueue, inExecutor, mark, seq, bounced, reporter, latest>>
  <2>1. /\ reporter[n] = "running" /\ q # <<>> /\ reportQueue' = [reportQueue EXCEPT ![n] = Tail(@)]
        /\ channel' = [channel EXCEPT ![n] = IF collector[n] = "reading" THEN Append(@, Head(q)) ELSE @]
        /\ UNCHANGED <<exportQueue, inExecutor, mark, seq, bounced, reporter, latest>>
    BY DEF ReporterSend, Write, exporterVars, masterVars
  <2>2. q \in Seq(Report)
    BY DEF TypeOK, ReporterTypeOK
  <2>3. Head(q) = r /\ r \in Report
    BY <2>1, <2>2, WithoutHead
  <2>4. QED
    BY <2>1, <2>2, <2>3 DEF TypeOK, ReporterTypeOK, MasterTypeOK
<1>2. /\ InOrder(n) /\ Floor(n)' = Floor(n) /\ Point(Floor(n))
      /\ channel[n] \in Seq(Report) /\ Point(Sent(n)) /\ Point(Queued(n)) /\ AtMost(Sent(n), Queued(n))
      /\ r.type = "progress"
  BY <1>1, OrderFacts, FloorTyped, FiguresOfSnapshots DEF OrderInv, Floor
<1>3. Before(Sent(n), r) /\ Ordered(Tail(q), r) /\ Ordered(Tail(q), Sent(n)) /\ LastOf(Tail(q), r) = Queued(n)
  BY <1>1, <1>2, OrderedTail DEF InOrder, Queued
<1>4. CASE collector[n] = "reading"
  <2>1. Before(Floor(n), r) /\ \A j \in DOMAIN channel[n] : Before(channel[n][j], r)
    BY <1>1, <1>2, <1>3, OrderedLast DEF InOrder, Sent
  <2>2. Ordered(channel'[n], Floor(n)) /\ LastOf(channel'[n], Floor(n)) = r
    BY <1>1, <1>2, <1>4, <2>1, OrderedAppend DEF InOrder
  <2>3. Sent(n)' = r /\ Queued(n)' = Queued(n)
    BY <1>1, <1>2, <1>3, <2>2 DEF Sent, Queued
  <2>4. QED
    BY <1>1, <1>2, <1>3, <2>2, <2>3 DEF InOrder
<1>5. CASE collector[n] # "reading"
  <2>1. Sent(n)' = Sent(n) /\ Queued(n)' = LastOf(Tail(q), Sent(n))
    BY <1>1, <1>2, <1>5 DEF Sent, Queued
  <2>2. /\ Point(Queued(n)') /\ AtMost(Queued(n)', Queued(n))
    <3>1. Queued(n)' = Sent(n) \/ Queued(n)' = Queued(n)
      BY <1>1, <2>1, WithoutHead DEF LastOf, Queued
    <3>2. QED
      BY <1>2, <3>1 DEF AtMost, Point
  <2>3. IF bounced'[n] = <<>> THEN Queued(n)'.seq <= seq'[n] ELSE Queued(n)'.seq < seq'[n]
    BY <1>1, <1>2, <2>2 DEF InOrder, AtMost, Point, TypeOK, ReporterTypeOK
  <2>4. Pending(inExecutor[n], exportQueue[n], Queued(n)'.total, mark[n])
    <3>1. exportQueue[n] \in Seq(Snapshot) /\ inExecutor[n] \in Seq(Snapshot) /\ mark[n] \in Nat
      BY DEF TypeOK, ExporterTypeOK
    <3>2. Queued(n).total \in Nat /\ Queued(n)'.total \in Nat /\ Queued(n)'.total <= Queued(n).total
      BY <1>2, <2>2 DEF AtMost, Point
    <3>3. QED
      BY <1>1, <1>2, <3>1, <3>2, PendingEarlier DEF InOrder
  <2>5. QED
    BY <1>1, <1>2, <1>3, <1>5, <2>1, <2>3, <2>4 DEF InOrder
<1>6. QED
  BY <1>4, <1>5

LEMMA OrderStepOfSendResult ==
  ASSUME TypeOK, OrderInv, NEW n \in Node, SendResult(n)
  PROVE  InOrder(n)'
<1>1. /\ reporter[n] # "running"
      /\ channel'[n] = IF collector[n] = "reading" THEN Append(channel[n], Result) ELSE channel[n]
      /\ UNCHANGED <<reporter, latest>>
  <2>1. /\ reporter[n] # "running"
        /\ channel' = [channel EXCEPT ![n] = IF collector[n] = "reading" THEN Append(@, Result) ELSE @]
        /\ UNCHANGED <<reporter, latest>>
    BY DEF SendResult, Write, masterVars
  <2>2. QED
    BY <2>1 DEF TypeOK, MasterTypeOK
<1>2. channel[n] \in Seq(Message) /\ Result \in Message /\ Result.type # "progress" /\ InOrder(n)
  BY DEF TypeOK, MasterTypeOK, Message, Result, OrderInv
<1>3. Floor(n)' = Floor(n) /\ Ordered(Append(channel[n], Result), Floor(n))
  BY <1>1, <1>2, OrderedAppend DEF InOrder, Floor
<1>4. QED
  BY <1>1, <1>2, <1>3 DEF InOrder

LEMMA OrderStepOfReceive ==
  ASSUME TypeOK, ResultInv, OrderInv, NEW n \in Node, Receive(n)
  PROVE  InOrder(n)'
<1> DEFINE q == channel[n]
           m == q[1]
<1>1. /\ q \in Seq(Message) /\ q # <<>> /\ Head(q) = m /\ m \in Message
      /\ channel'[n] = Tail(q)
      /\ UNCHANGED <<exportQueue, inExecutor, mark, seq, bounced, reporter, reportQueue>>
  <2>1. /\ q # <<>> /\ channel' = [channel EXCEPT ![n] = Tail(@)]
        /\ UNCHANGED <<exportQueue, inExecutor, mark, seq, bounced, reporter, reportQueue>>
    BY DEF Receive, exporterVars, reporterVars
  <2>2. q \in Seq(Message)
    BY DEF TypeOK, MasterTypeOK
  <2>3. Head(q) = m /\ m \in Message
    BY <2>1, <2>2, WithoutHead
  <2>4. QED
    BY <2>1, <2>2, <2>3 DEF TypeOK, MasterTypeOK
<1>2. InOrder(n) /\ Ordered(Tail(q), Floor(n))
  BY <1>1, OrderedTail DEF OrderInv, InOrder
<1>3. CASE m.type = "progress"
  <2>1. m \in Report
    BY <1>1, <1>3 DEF Message, Result
  <2>2. Before(Floor(n), m) /\ Ordered(Tail(q), m) /\ LastOf(Tail(q), m) = Sent(n)
    BY <1>1, <1>2, <1>3, OrderedTail DEF InOrder, Sent
  <2>3. ~(m.seq < Floor(n).seq)
    BY <2>1, <2>2, FloorTyped, FiguresOfSnapshots DEF Before, Point
  <2>4. latest'[n] = <<m>>
    <3>1. ~(latest[n] # <<>> /\ m.seq < latest[n][1].seq)
      BY <2>3, FloorTyped
    <3>2. latest' = [latest EXCEPT ![n] = <<m>>]
      BY <1>1, <1>3, <3>1 DEF Receive
    <3>3. QED
      BY <3>2 DEF TypeOK, MasterTypeOK
  <2>5. Floor(n)' = m
    BY <2>4 DEF Floor
  <2>6. Sent(n)' = Sent(n) /\ Queued(n)' = Queued(n)
    BY <1>1, <2>2, <2>5 DEF Sent, Queued
  <2>7. QED
    BY <1>1, <1>2, <2>2, <2>5, <2>6 DEF InOrder
<1>4. CASE m.type # "progress"
  <2>1. UNCHANGED latest
    BY <1>1, <1>4 DEF Receive
  <2>2. reporter[n] # "running"
    <3>1. m = Result /\ 1 \in DOMAIN q
      <4>1. m = Result
        BY <1>1, <1>4, FiguresOfSnapshots DEF Message
      <4>2. QED
        BY <1>1, <4>1, EmptySeq, LenProperties
    <3>2. QED
      BY <3>1 DEF ResultInv, NoResultYet
  <2>3. Floor(n)' = Floor(n)
    BY <2>1 DEF Floor
  <2>4. QED
    BY <1>1, <1>2, <2>2, <2>3 DEF InOrder
<1>5. QED
  BY <1>3, <1>4

LEMMA OrderStepOfGiveUp ==
  ASSUME TypeOK, ResultInv, OrderInv, NEW n \in Node, GiveUp(n)
  PROVE  InOrder(n)'
<1>1. /\ channel'[n] = <<>>
      /\ UNCHANGED <<exportQueue, inExecutor, mark, seq, bounced, reporter, reportQueue, latest>>
  <2>1. /\ channel' = [channel EXCEPT ![n] = <<>>]
        /\ UNCHANGED <<exportQueue, inExecutor, mark, seq, bounced, reporter, reportQueue, latest>>
    BY DEF GiveUp, exporterVars, reporterVars
  <2>2. QED
    BY <2>1 DEF TypeOK, MasterTypeOK
<1>2. Ordered(<<>>, Floor(n)) /\ Floor(n)' = Floor(n) /\ Sent(n)' = Floor(n) /\ InOrder(n)
  BY <1>1 DEF Ordered, Floor, Sent, LastOf, OrderInv
<1> SUFFICES ASSUME reporter[n] = "running"
             PROVE  /\ Ordered(reportQueue[n], Floor(n))
                    /\ IF bounced[n] = <<>> THEN Queued(n)'.seq <= seq[n] ELSE Queued(n)'.seq < seq[n]
                    /\ Pending(inExecutor[n], exportQueue[n], Queued(n)'.total, mark[n])
  BY <1>1, <1>2 DEF InOrder
<1>3. /\ Point(Sent(n)) /\ AtMost(Floor(n), Sent(n)) /\ Point(Queued(n)) /\ Point(Floor(n))
      /\ reportQueue[n] \in Seq(Report) /\ Ordered(reportQueue[n], Sent(n))
      /\ Queued(n)' = LastOf(reportQueue[n], Floor(n))
  BY <1>1, <1>2, OrderFacts, FloorTyped DEF InOrder, Queued, TypeOK, ReporterTypeOK
<1>4. Ordered(reportQueue[n], Floor(n)) /\ AtMost(Queued(n)', Queued(n))
  BY <1>3, OrderedEarlier DEF Queued
<1>5. Point(Queued(n)')
  BY <1>3, <1>4, OrderedLast
<1>6. IF bounced[n] = <<>> THEN Queued(n)'.seq <= seq[n] ELSE Queued(n)'.seq < seq[n]
  <2>1. /\ Queued(n)'.seq \in Nat /\ Queued(n).seq \in Nat /\ seq[n] \in Nat /\ Queued(n)'.seq <= Queued(n).seq
    BY <1>3, <1>4, <1>5 DEF AtMost, Point, TypeOK, ReporterTypeOK
  <2>2. IF bounced[n] = <<>> THEN Queued(n).seq <= seq[n] ELSE Queued(n).seq < seq[n]
    BY <1>2 DEF InOrder
  <2>3. QED
    BY <2>1, <2>2
<1>7. Pending(inExecutor[n], exportQueue[n], Queued(n)'.total, mark[n])
  <2>1. exportQueue[n] \in Seq(Snapshot) /\ inExecutor[n] \in Seq(Snapshot) /\ mark[n] \in Nat
    BY DEF TypeOK, ExporterTypeOK
  <2>2. Queued(n).total \in Nat /\ Queued(n)'.total \in Nat /\ Queued(n)'.total <= Queued(n).total
    BY <1>3, <1>4, <1>5 DEF AtMost, Point
  <2>3. QED
    BY <1>2, <2>1, <2>2, PendingEarlier DEF InOrder
<1>8. QED
  BY <1>4, <1>6, <1>7

LEMMA OrderStep ==
  ASSUME TypeOK, ResultInv, DeliveryInv, OrderInv, [Next]_vars
  PROVE  OrderInv'
<1>1. ASSUME NEW n \in Node, NodeStep(n) PROVE OrderInv'
  <2>1. ASSUME NEW m \in Node \ {n} PROVE InOrder(m)'
    <3>1. UNCHANGED <<channel[m], latest[m], reporter[m], reportQueue[m], bounced[m], seq[m], inExecutor[m],
                      exportQueue[m], mark[m]>>
      BY <1>1, <2>1, OthersUntouched, SMTT(30) DEF View
    <3>2. QED
      BY <3>1 DEF OrderInv, InOrder, Queued, Sent, Floor
  <2>2. CASE ReporterClose(n)
    <3>1. reporter'[n] # "running" /\ UNCHANGED <<channel, latest>>
      BY <2>2 DEF ReporterClose, masterVars, TypeOK, ReporterTypeOK
    <3>2. QED
      BY <2>1, <3>1 DEF OrderInv, InOrder, Floor
  <2>3. InOrder(n)' \/ ReporterClose(n)
    BY <1>1, OrderStepOfExporter, OrderStepOfSubmit, OrderStepOfEnqueue, OrderStepOfReporterSend,
       OrderStepOfSendResult, OrderStepOfReceive, OrderStepOfGiveUp DEF NodeStep, ReporterStep, CollectorStep
  <2>4. QED
    BY <2>1, <2>2, <2>3 DEF OrderInv
<1>2. CASE MasterStep \/ UNCHANGED vars
  <2>1. \A n \in Node : UNCHANGED <<channel[n], latest[n], reporter[n], reportQueue[n], bounced[n], seq[n],
                                    inExecutor[n], exportQueue[n], mark[n]>>
    BY <1>2, MasterLeavesNodes DEF View
  <2>2. QED
    BY <2>1 DEF OrderInv, InOrder, Queued, Sent, Floor
<1>3. QED
  BY <1>1, <1>2 DEF Next, NodeStep, MasterStep

-------------------------------------------------------------------------------
(* What the master exports.                                                   *)

LEMMA FloorAdvances ==
  ASSUME TypeOK, ResultInv, OrderInv, NEW n \in Node, NodeStep(n), NEW m \in Node
  PROVE  \/ latest'[m] = latest[m]
         \/ \E r \in Report : latest'[m] = <<r>> /\ Before(Floor(m), r)
<1>1. CASE m # n
  BY <1>1, OthersUntouched DEF View
<1>2. CASE m = n /\ Receive(n)
  <2> DEFINE r == Head(channel[n])
  <2>1. CASE latest' = [latest EXCEPT ![n] = <<r>>] /\ r.type = "progress"
    <3>1. channel[n] # <<>> /\ channel[n] \in Seq(Message)
      BY <1>2 DEF Receive, TypeOK, MasterTypeOK
    <3>2. r = channel[n][1] /\ r \in Message
      BY <3>1, WithoutHead
    <3>3. r \in Report
      BY <2>1, <3>2 DEF Message, Result
    <3>4. Before(Floor(n), r)
      BY <2>1, <3>1, <3>2, OrderedTail DEF OrderInv, InOrder
    <3>5. latest'[n] = <<r>>
      BY <2>1 DEF TypeOK, MasterTypeOK
    <3>6. QED
      BY <1>2, <3>3, <3>4, <3>5
  <2>2. QED
    BY <1>2, <2>1 DEF Receive
<1>3. CASE ~Receive(n)
  <2>1. UNCHANGED latest
    BY <1>3 DEF NodeStep, ExporterStep, ReporterStep, CollectorStep, Request, TimerFires, Sample, BeginClose, EndClose,
                Deliver, Submit, Enqueue, ReporterSend, ReporterClose, SendResult, GiveUp, masterVars
  <2>2. QED
    BY <2>1
<1>4. QED
  BY <1>1, <1>2, <1>3

LEMMA NodeStepLeavesExports ==
  ASSUME NEW n \in Node, NodeStep(n)
  PROVE  UNCHANGED <<consumed, master, cluster>>
BY DEF NodeStep, ExporterStep, ReporterStep, CollectorStep, Request, TimerFires, Sample, BeginClose, EndClose,
       Deliver, Submit, Enqueue, ReporterSend, ReporterClose, SendResult, Receive, GiveUp, masterVars

LEMMA FloorTotalsTyped ==
  ASSUME TypeOK
  PROVE  /\ \A n \in Node : FloorTotals[n] = Floor(n).total /\ FloorTotals[n] \in Nat
         /\ SumFunctionOnSet(FloorTotals, Node) \in Nat
<1>1. \A n \in Node : FloorTotals[n] = Floor(n).total /\ FloorTotals[n] \in Nat
  BY FloorTyped DEF FloorTotals, Point
<1>2. QED
  BY <1>1, SumIsNatural

\* An export's total is the sum of the nodes' latest totals, those of the nodes
\* that have not reported being 0.
LEMMA TotalIsOfAllNodes ==
  ASSUME TypeOK, NEW quiet
  PROVE  Total(quiet) = SumFunctionOnSet(FloorTotals, Node)
<1> DEFINE t == [n \in Reporting |-> latest[n][1].total]
<1>1. \A n \in Reporting : t[n] = FloorTotals[n]
  BY ReportingTyped, FloorTotalsTyped, FloorTyped DEF Reporting
<1>2. \A n \in Node \ Reporting : FloorTotals[n] = 0
  BY DEF FloorTotals, Floor, Reporting
<1> HIDE DEF t
<1>3. SumFunctionOnSet(t, Reporting) = SumFunctionOnSet(FloorTotals, Reporting)
  BY <1>1, ReportingTyped, SumIsExtensional
<1>4. SumFunctionOnSet(FloorTotals, Node) = SumFunctionOnSet(FloorTotals, Reporting)
  BY <1>2, ReportingTyped, FloorTotalsTyped, SumIgnoresZeros
<1>5. QED
  BY <1>3, <1>4 DEF Total, t

LEMMA ExportStepOfNode ==
  ASSUME TypeOK, ResultInv, OrderInv, ExportInv, NEW n \in Node, NodeStep(n)
  PROVE  ExportInv'
<1>1. UNCHANGED <<consumed, cluster>>
  BY NodeStepLeavesExports
<1>2. \A m \in Node : Point(Floor(m)) /\ Point(Floor(m)')
  <2>1. \A m \in Node : Point(Floor(m))
    BY FloorTyped
  <2>2. ASSUME NEW m \in Node PROVE Point(Floor(m)')
    <3>1. latest'[m] = latest[m] => Floor(m)' = Floor(m)
      BY DEF Floor
    <3>2. \A r \in Report : latest'[m] = <<r>> => Floor(m)' = r /\ Point(r)
      BY FiguresOfSnapshots DEF Floor, Point
    <3>3. QED
      BY <2>1, <3>1, <3>2, FloorAdvances
  <2>3. QED
    BY <2>1, <2>2
<1>3. \A m \in Node : consumed[m] \in Nat /\ consumed[m] <= Floor(m).seq
  BY DEF ExportInv, TypeOK, MasterTypeOK
<1>4. ASSUME NEW m \in Node
      PROVE  /\ AtMost(Floor(m), Floor(m)')
             /\ Floor(m)'.total - Uncounted(m)' >= Floor(m).total - Uncounted(m)
             /\ Uncounted(m) \in Nat /\ Uncounted(m)' \in Nat
  <2>1. CASE latest'[m] = latest[m]
    <3>1. Floor(m)' = Floor(m) /\ Uncounted(m)' = Uncounted(m)
      BY <1>1, <2>1 DEF Floor, Uncounted
    <3>2. Uncounted(m) \in Nat
      BY FloorTyped, FiguresOfSnapshots DEF Uncounted
    <3>3. QED
      BY <1>2, <3>1, <3>2 DEF AtMost, Point
  <2>2. ASSUME NEW r \in Report, latest'[m] = <<r>>, Before(Floor(m), r)
        PROVE  /\ AtMost(Floor(m), Floor(m)')
               /\ Floor(m)'.total - Uncounted(m)' >= Floor(m).total - Uncounted(m)
               /\ Uncounted(m) \in Nat /\ Uncounted(m)' \in Nat
    <3>1. Floor(m)' = r /\ (Uncounted(m)' = r.window \/ Uncounted(m)' = 0)
      BY <2>2 DEF Floor, Uncounted
    <3>2. Uncounted(m) \in Nat
      BY FloorTyped, FiguresOfSnapshots DEF Uncounted
    <3>3. r.seq \in Nat /\ r.total \in Nat /\ r.window \in Nat /\ Floor(m).seq \in Nat /\ Floor(m).total \in Nat
      BY <1>2, FiguresOfSnapshots DEF Point
    <3>4. Floor(m).seq < r.seq /\ Floor(m).total <= r.total - r.window
      BY <2>2 DEF Before
    <3>5. AtMost(Floor(m), Floor(m)')
      BY <3>1, <3>3, <3>4 DEF AtMost
    <3>6. Floor(m)'.total - Uncounted(m)' >= Floor(m).total - Uncounted(m)
      BY <3>1, <3>2, <3>3, <3>4
    <3>7. QED
      BY <3>1, <3>2, <3>3, <3>5, <3>6
  <2>3. QED
    BY <2>1, <2>2, FloorAdvances
<1>5. cluster'.total <= SumFunctionOnSet(FloorTotals', Node)
  <2>1. \A m \in Node : /\ FloorTotals[m] = Floor(m).total /\ FloorTotals[m] \in Nat
                        /\ FloorTotals'[m] = Floor(m)'.total /\ FloorTotals'[m] \in Nat
    BY <1>2 DEF FloorTotals, Point
  <2>2. \A m \in Node : FloorTotals[m] \in Int /\ FloorTotals'[m] \in Int /\ FloorTotals[m] <= FloorTotals'[m]
    BY <1>4, <2>1 DEF AtMost
  <2>3. SumFunctionOnSet(FloorTotals, Node) <= SumFunctionOnSet(FloorTotals', Node)
    BY <2>2, SumIsMonotonic
  <2>4. SumFunctionOnSet(FloorTotals, Node) \in Nat /\ SumFunctionOnSet(FloorTotals', Node) \in Nat
    BY <2>1, SumIsNatural
  <2>5. cluster.total \in Nat /\ cluster.total <= SumFunctionOnSet(FloorTotals, Node)
    BY DEF ExportInv, TypeOK, MasterTypeOK, Figures
  <2>6. QED
    BY <1>1, <2>3, <2>4, <2>5
<1>6. \A m \in Node : consumed'[m] <= Floor(m)'.seq
  <2>1. ASSUME NEW m \in Node PROVE consumed[m] <= Floor(m)'.seq
    BY <1>2, <1>3, <1>4 DEF AtMost, Point
  <2>2. QED
    BY <1>1, <2>1
<1>7. PICK w \in [Node -> Nat] :
        /\ cluster.windows = SumFunctionOnSet(w, Node)
        /\ \A m \in Node : w[m] + Uncounted(m) <= Floor(m).total
  BY DEF ExportInv
<1>8. ASSUME NEW m \in Node PROVE w[m] + Uncounted(m)' <= Floor(m)'.total
  <2>1. w[m] \in Nat /\ Floor(m).total \in Nat /\ Floor(m)'.total \in Nat
    BY <1>2, <1>7 DEF Point
  <2>2. QED
    BY <1>4, <1>7, <2>1
<1>9. NoWindowCountedTwice'
  BY <1>1 DEF ExportInv, NoWindowCountedTwice
<1>10. QED
  BY <1>1, <1>5, <1>6, <1>7, <1>8, <1>9 DEF ExportInv

\* An export: its windows are added to those of the nodes they are of.
LEMMA ExportStepOfBuild ==
  ASSUME TypeOK, ExportInv, NEW quiet \in SUBSET Reporting, Build(quiet), UNCHANGED latest
  PROVE  ExportInv' /\ cluster'.total >= cluster.total
<1>1. \A n \in Node : Floor(n)' = Floor(n) /\ Point(Floor(n))
  BY FloorTyped DEF Floor
<1>2. FloorTotals' = FloorTotals
  BY DEF FloorTotals, Floor
<1>3. CASE Reporting = {}
  <2>1. UNCHANGED <<consumed, cluster, latest>>
    BY <1>3 DEF Build
  <2>2. \A n \in Node : Uncounted(n)' = Uncounted(n)
    BY <2>1 DEF Uncounted
  <2>3. cluster.total \in Nat
    BY DEF TypeOK, MasterTypeOK, Figures
  <2>4. NoWindowCountedTwice' = NoWindowCountedTwice
    BY <2>1 DEF NoWindowCountedTwice
  <2>5. QED
    BY <1>1, <1>2, <2>1, <2>2, <2>3, <2>4 DEF ExportInv
<1>4. CASE Reporting # {}
  <2> DEFINE F == Fresh(quiet)
             x == [n \in Node |-> IF n \in F THEN latest[n][1].window ELSE 0]
             y == [n \in F |-> latest[n][1].window]
  <2>1. /\ F \subseteq Reporting /\ F \subseteq Node /\ IsFiniteSet(F)
        /\ \A n \in F : consumed[n] # latest[n][1].seq
    BY ReportingTyped, FS_Subset DEF Fresh
  <2>2. /\ cluster' = [total |-> Total(quiet), windows |-> cluster.windows + Windows(F)]
        /\ consumed' = [n \in Node |-> IF n \in F THEN latest[n][1].seq ELSE consumed[n]]
    BY <1>4 DEF Build
  <2>3. cluster'.total = SumFunctionOnSet(FloorTotals, Node) /\ cluster'.windows = cluster.windows + Windows(F)
    BY <2>2, TotalIsOfAllNodes
  <2>4. \A n \in Reporting : latest[n] # <<>> /\ latest[n][1].seq \in Nat /\ latest[n][1].window \in Nat
                             /\ Floor(n) = latest[n][1]
    BY ReportingTyped, FloorTyped, FiguresOfSnapshots DEF Reporting
  <2>5. /\ \A n \in Node : x[n] \in Nat
        /\ \A n \in Node \ F : x[n] = 0
        /\ \A n \in F : x[n] = y[n] /\ x[n] = latest[n][1].window
    BY <2>1, <2>4
  <2>6. Windows(F) = SumFunctionOnSet(y, F)
    BY DEF Windows
  <2> HIDE DEF F, x, y
  <2>7. Windows(F) = SumFunctionOnSet(x, Node)
    <3>1. SumFunctionOnSet(x, Node) = SumFunctionOnSet(x, F)
      BY <2>1, <2>5, SumIgnoresZeros
    <3>2. SumFunctionOnSet(x, F) = SumFunctionOnSet(y, F)
      BY <2>1, <2>5, SumIsExtensional
    <3>3. QED
      BY <2>6, <3>1, <3>2
  <2>8. PICK w \in [Node -> Nat] :
          /\ cluster.windows = SumFunctionOnSet(w, Node)
          /\ \A n \in Node : w[n] + Uncounted(n) <= Floor(n).total
    BY DEF ExportInv
  <2> DEFINE v == [n \in Node |-> w[n] + x[n]]
  <2>9. v \in [Node -> Nat] /\ \A n \in Node : w[n] \in Int /\ x[n] \in Int /\ v[n] = w[n] + x[n]
    BY <2>5, <2>8
  <2> HIDE DEF v
  <2>10. cluster'.windows = SumFunctionOnSet(v, Node)
    BY <2>3, <2>7, <2>8, <2>9, SumAdds
  <2>11. ASSUME NEW n \in Node
         PROVE  /\ v[n] + Uncounted(n)' <= Floor(n).total /\ Uncounted(n)' \in Nat
                /\ consumed'[n] <= Floor(n).seq
    <3>1. CASE n \in F
      <4>1. Uncounted(n) = x[n] /\ Uncounted(n)' = 0 /\ consumed'[n] = Floor(n).seq
        BY <2>1, <2>2, <2>4, <2>5, <3>1 DEF Uncounted
      <4>2. QED
        BY <1>1, <2>8, <2>9, <4>1 DEF Point
    <3>2. CASE n \notin F
      <4>1. Uncounted(n)' = Uncounted(n) /\ consumed'[n] = consumed[n] /\ x[n] = 0
        BY <2>2, <2>5, <3>2 DEF Uncounted
      <4>2. Uncounted(n) \in Nat
        BY FloorTyped, FiguresOfSnapshots DEF Uncounted
      <4>3. consumed[n] <= Floor(n).seq
        BY DEF ExportInv
      <4>4. QED
        BY <1>1, <2>8, <2>9, <4>1, <4>2, <4>3 DEF Point
    <3>3. QED
      BY <3>1, <3>2
  <2>12. cluster'.windows <= cluster'.total
    <3>1. \A n \in Node : v[n] \in Int /\ FloorTotals[n] \in Int /\ v[n] <= FloorTotals[n]
      <4>1. ASSUME NEW n \in Node PROVE v[n] <= FloorTotals[n]
        <5>1. v[n] \in Nat /\ FloorTotals[n] = Floor(n).total /\ FloorTotals[n] \in Nat
          BY <2>9, FloorTotalsTyped
        <5>2. QED
          BY <2>11, <5>1
      <4>2. QED
        BY <2>9, <4>1, FloorTotalsTyped
    <3>2. QED
      BY <2>3, <2>10, <3>1, SumIsMonotonic
  <2>13. cluster'.total <= SumFunctionOnSet(FloorTotals', Node)
    BY <1>2, <2>3, FloorTotalsTyped
  <2>14. cluster'.total >= cluster.total
    BY <2>3, FloorTotalsTyped DEF ExportInv, TypeOK, MasterTypeOK, Figures
  <2>15. QED
    BY <1>1, <2>9, <2>10, <2>11, <2>12, <2>13, <2>14 DEF ExportInv, NoWindowCountedTwice
<1>5. QED
  BY <1>3, <1>4

LEMMA ExportStep ==
  ASSUME TypeOK, ResultInv, OrderInv, ExportInv, [Next]_vars
  PROVE  ExportInv' /\ cluster'.total >= cluster.total
<1>1. cluster.total \in Nat
  BY DEF TypeOK, MasterTypeOK, Figures
<1>2. ASSUME NEW n \in Node, NodeStep(n) PROVE ExportInv' /\ cluster'.total >= cluster.total
  BY <1>1, <1>2, ExportStepOfNode, NodeStepLeavesExports
<1>3. CASE MasterStep
  <2>1. PICK quiet \in SUBSET Reporting : Build(quiet)
    BY <1>3 DEF MasterStep, ExportInterval, ExportFinal
  <2>2. UNCHANGED latest
    BY <1>3 DEF MasterStep, ExportInterval, ExportFinal
  <2>3. QED
    BY <2>1, <2>2, ExportStepOfBuild
<1>4. CASE UNCHANGED vars
  <2>1. UNCHANGED <<consumed, cluster, latest>>
    BY <1>4 DEF vars, masterVars
  <2>2. FloorTotals' = FloorTotals /\ \A n \in Node : Floor(n)' = Floor(n) /\ Uncounted(n)' = Uncounted(n)
    BY <2>1 DEF FloorTotals, Floor, Uncounted
  <2>3. NoWindowCountedTwice' = NoWindowCountedTwice
    BY <2>1 DEF NoWindowCountedTwice
  <2>4. QED
    BY <1>1, <2>1, <2>2, <2>3 DEF ExportInv
<1>5. QED
  BY <1>2, <1>3, <1>4 DEF Next, NodeStep, MasterStep

-------------------------------------------------------------------------------
(* The theorems.                                                              *)

PipelineInv ==
  /\ TypeOK /\ ResultInv /\ NewestInv /\ DeliveryInv /\ CloseInv /\ ChainInv /\ OrderInv /\ ExportInv

LEMMA PipelineInitially == Init => PipelineInv
<1> SUFFICES ASSUME Init PROVE PipelineInv
  OBVIOUS
<1>1. TypeOK
  BY DEF Init, Tally, Written, Figures, TypeOK, ExporterTypeOK, ReporterTypeOK, MasterTypeOK
<1>2. ResultInv
  BY DEF Init, ResultInv, ResultIsLast, NoResultYet
<1>3. NewestInv /\ DeliveryInv
  BY DEF Init, NewestInv, DeliveryInv, Delivery
<1>4. CloseInv
  BY DEF Init, CloseInv, Accounted
<1>5. ChainInv
  BY DEF Init, ChainInv, Chained, Linked, Executed, Reported, EndOf
<1>6. OrderInv
  <2>1. \A n \in Node : Sent(n) = [seq |-> 0, total |-> 0] /\ Queued(n) = [seq |-> 0, total |-> 0]
    BY DEF Init, Queued, Sent, Floor, LastOf
  <2>2. QED
    BY <2>1 DEF Init, OrderInv, InOrder, Ordered, Pending, Stacked, EndOf
<1>7. ExportInv
  <2> DEFINE w == [n \in Node |-> 0]
  <2>1. /\ cluster.total = 0 /\ cluster.windows = 0
        /\ \A n \in Node : consumed[n] = 0 /\ Floor(n).seq = 0 /\ Floor(n).total = 0 /\ Uncounted(n) = 0
    BY DEF Init, Floor, Uncounted
  <2>2. w \in [Node -> Nat] /\ \A n \in Node : w[n] = 0
    OBVIOUS
  <2> HIDE DEF w
  <2>3. SumFunctionOnSet(w, Node) = 0
    <3>1. SumFunctionOnSet(w, Node) = SumFunctionOnSet(w, {})
      BY <2>2, SumIgnoresZeros
    <3>2. QED
      BY <3>1, SumOfNothing
  <2>4. cluster.total <= SumFunctionOnSet(FloorTotals, Node)
    BY <1>1, <2>1, FloorTotalsTyped
  <2>5. QED
    BY <2>1, <2>2, <2>3, <2>4 DEF ExportInv, NoWindowCountedTwice
<1>8. QED
  BY <1>1, <1>2, <1>3, <1>4, <1>5, <1>6, <1>7 DEF PipelineInv

LEMMA PipelineStep == PipelineInv /\ [Next]_vars => PipelineInv'
BY TypeStep, ResultStep, NewestStep, DeliveryStep, CloseStep, ChainStep, OrderStep, ExportStep DEF PipelineInv

LEMMA PipelineInvariant == Spec => []PipelineInv
BY PipelineInitially, PipelineStep, PTL DEF Spec

\* Every reachable state of the pipeline is well typed, and a snapshot never covers
\* requests that are not completed.
THEOREM TypeCorrect == Spec => []TypeOK
<1>1. PipelineInv => TypeOK
  BY DEF PipelineInv
<1>2. QED
  BY <1>1, PipelineInvariant, PTL

\* No progress frame follows the result on a node's stream (run_worker_node stops
\* its reporter before it writes the result).
THEOREM ResultComesLast == Spec => []ResultIsLast
<1>1. PipelineInv => ResultIsLast
  BY DEF PipelineInv, ResultInv
<1>2. QED
  BY <1>1, PipelineInvariant, PTL

\* A full report queue never costs the newest report (_enqueue drops the oldest).
THEOREM NewestReportIsKept == Spec => []NewestReportSurvives
<1>1. PipelineInv => NewestReportSurvives
  BY DEF PipelineInv, NewestInv, NewestReportSurvives
<1>2. QED
  BY <1>1, PipelineInvariant, PTL

\* Whenever a node's counters show no loss, the reports it wrote before its result
\* cover every request of its run (queued, sent, dropped of both classes).
THEOREM LossIsAlwaysCounted == Spec => []LossIsCounted
<1>1. ASSUME PipelineInv PROVE LossIsCounted
  <2> SUFFICES ASSUME NEW n \in Node, finished[n], tally[n].dropped = 0, tally[n].queued = tally[n].sent,
                      reportDropped[n] = 0, reporter[n] = "stopped"
               PROVE  written[n].requests = done[n]
    BY DEF LossIsCounted
  <2>1. Accounted(n) /\ (Lossless(n) => Chained(n))
    BY <1>1 DEF PipelineInv, CloseInv, ChainInv
  <2>2. exporter[n] = "closed" /\ reportQueue[n] = <<>>
    BY <2>1 DEF Accounted
  <2>3. exportQueue[n] = <<>> /\ inExecutor[n] = <<>> /\ mark[n] = done[n]
    BY <2>1, <2>2 DEF Accounted
  <2>4. Chained(n)
    BY <2>1 DEF Lossless
  <2>5. QED
    BY <2>2, <2>3, <2>4 DEF Chained, Executed, Reported, EndOf
<1>2. QED
  BY <1>1, PipelineInvariant, PTL

\* The windows exported never add up to more than the total exported with them,
\* whatever is lost, late or quiet (build() and _consumed_seq).
THEOREM WindowsAreCountedOnce == Spec => []NoWindowCountedTwice
<1>1. PipelineInv => NoWindowCountedTwice
  BY DEF PipelineInv, ExportInv
<1>2. QED
  BY <1>1, PipelineInvariant, PTL

\* The cluster total the master exports never decreases.
THEOREM TotalsAreMonotonic == Spec => TotalsNeverGoBackwards
<1>1. PipelineInv /\ [Next]_vars => [cluster'.total >= cluster.total]_vars
  BY ExportStep DEF PipelineInv
<1>2. QED
  BY <1>1, PipelineInvariant, PTL DEF Spec, TotalsNeverGoBackwards

===============================================================================
