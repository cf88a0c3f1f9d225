-------------------------- MODULE ScenarioRunProofs --------------------------
(***************************************************************************)
(* Theorems about virtual users: for any number of users and nodes, any      *)
(* scenario and any data sets.                                               *)
(***************************************************************************)
EXTENDS ScenarioRun, FoldTheorems, SequenceTheorems, TLAPS

-------------------------------------------------------------------------------
(* The type invariant.                                                        *)

Places == Holding \cup Awaiting \cup Ended \cup {"unborn", "created"}
UserState == [pc : Places, step : Nat, charged : BOOLEAN, bound : BOOLEAN, errors : Nat,
              failures : Nat, sockets : Nat, first : {"nothing", "request", "flow"}]
RunnerStates == {"launching", "asleep", "waiting", "grace", "cancelling", "reported", "reaping", "raised"}

ActorsTyped ==
  /\ user \in [User -> UserState]
  /\ holder \in [AllNodes -> User \cup {None}]
  /\ active \in [AllNodes -> Int]

RunTyped ==
  /\ config \in Configs
  /\ asked \in SUBSET User
  /\ over \in BOOLEAN
  /\ stop \in [AllNodes -> BOOLEAN] /\ interrupted \in [AllNodes -> BOOLEAN]
  /\ aborted \in [AllNodes -> BOOLEAN] /\ dry \in [AllNodes -> BOOLEAN]
  /\ runner \in [AllNodes -> RunnerStates]

FiguresTyped ==
  /\ turn \in [AllNodes -> Nat]
  /\ remaining \in [AllNodes -> Nat]
  /\ requests \in [AllNodes -> Nat] /\ unsent \in [AllNodes -> Nat]
  /\ cursor \in [AllNodes -> [Datasets -> Nat]]
  /\ lost \in [AllNodes -> Nat]
  /\ DOMAIN handed = Datasets

TypeOK == ActorsTyped /\ RunTyped /\ FiguresTyped

-------------------------------------------------------------------------------
(* What an iteration is charged with.                                         *)

\* One error for what failed first, if that was no request; charged is whether
\* anything did.
AddsUp(me) == me.errors = me.failures + me.sockets + IF me.first = "flow" THEN 1 ELSE 0

Flow(me) ==
  /\ me \in UserState
  /\ AddsUp(me)
  /\ me.charged <=> me.first # "nothing"

LEMMA NewbornFlows ==
  ASSUME NEW pc \in Places
  PROVE  Flow(Newborn(pc)) /\ Newborn(pc).pc = pc
BY DEF Flow, AddsUp, Newborn, UserState

LEMMA PlaceFlows ==
  ASSUME NEW me, Flow(me), NEW pc \in Places
  PROVE  Flow([me EXCEPT !.pc = pc]) /\ [me EXCEPT !.pc = pc].pc = pc
BY DEF Flow, AddsUp, UserState

LEMMA BeginningFlows ==
  ASSUME NEW pc \in Places
  PROVE  /\ Flow([Newborn(pc) EXCEPT !.step = 1])
         /\ [Newborn(pc) EXCEPT !.step = 1].pc = pc
         /\ [Newborn(pc) EXCEPT !.step = 1].step = 1
<1> DEFINE new == Newborn(pc)
<1>1. Flow(new) /\ new.pc = pc
  BY NewbornFlows
<1> HIDE DEF new
<1> DEFINE me == [new EXCEPT !.step = 1]
<1>2. Flow(me) /\ me.pc = pc /\ me.step = 1
  BY <1>1 DEF Flow, AddsUp, UserState
<1>3. QED
  BY <1>2 DEF new

LEMMA BoundFlows ==
  ASSUME NEW me, Flow(me)
  PROVE  Flow([me EXCEPT !.bound = TRUE])
BY DEF Flow, AddsUp, UserState

LEMMA NextStepFlows ==
  ASSUME NEW me, Flow(me)
  PROVE  /\ Flow(NextStep(me))
         /\ NextStep(me).pc = IF Scripted THEN "step" ELSE "iterate"
<1> DEFINE further == [me EXCEPT !.step = me.step + 1]
<1> DEFINE place == IF Scripted THEN "step" ELSE "iterate"
<1>1. NextStep(me) = [further EXCEPT !.pc = place]
  BY DEF NextStep
<1>2. place \in Places
  BY DEF Places, Holding
<1>3. Flow(further)
  BY DEF Flow, AddsUp, UserState
<1> HIDE DEF further, place
<1>4. Flow(NextStep(me)) /\ NextStep(me).pc = place
  BY <1>1, <1>2, <1>3, PlaceFlows
<1>5. QED
  BY <1>4 DEF place

\* However a step fails, the sum stays exact.
LEMMA FailuresFlow ==
  ASSUME NEW me, Flow(me)
  PROVE  Flow(Charged(me)) /\ Flow(FailedRequest(me)) /\ Flow(SocketError(me))
<1> DEFINE one == [me EXCEPT !.errors = me.errors + 1]
<1>1. /\ me \in UserState /\ AddsUp(me) /\ (me.charged <=> me.first # "nothing")
      /\ me.errors \in Nat /\ me.failures \in Nat /\ me.sockets \in Nat
      /\ me.first \in {"nothing", "request", "flow"}
  BY DEF Flow, UserState
<1>2. /\ one \in UserState /\ one.errors = me.errors + 1 /\ one.failures = me.failures
      /\ one.sockets = me.sockets /\ one.charged = me.charged /\ one.first = me.first
  BY <1>1 DEF UserState
<1> DEFINE flow == [[one EXCEPT !.charged = TRUE] EXCEPT !.first = First(me, "flow")]
           two == [one EXCEPT !.failures = me.failures + 1]
           failed == [[two EXCEPT !.charged = TRUE] EXCEPT !.first = First(me, "request")]
           broken == [one EXCEPT !.sockets = me.sockets + 1]
<1>3. Charged(me) = IF me.charged THEN me ELSE flow
  BY DEF Charged
<1>4. FailedRequest(me) = failed /\ SocketError(me) = broken
  BY DEF FailedRequest, SocketError
<1> HIDE DEF one
<1>5. ~me.charged => Flow(flow)
  <2> SUFFICES ASSUME ~me.charged PROVE Flow(flow)
    OBVIOUS
  <2>1. me.first = "nothing" /\ First(me, "flow") = "flow"
    BY <1>1 DEF First
  <2>2. /\ flow \in UserState /\ flow.errors = one.errors /\ flow.failures = one.failures
        /\ flow.sockets = one.sockets /\ flow.charged = TRUE /\ flow.first = "flow"
    BY <1>2, <2>1 DEF UserState
  <2>3. QED
    BY <1>1, <1>2, <2>1, <2>2 DEF Flow, AddsUp
<1>6. Flow(failed)
  <2>1. /\ First(me, "request") \in {"request", "flow"}
        /\ First(me, "request") = "flow" <=> me.first = "flow"
    BY <1>1 DEF First
  <2>2. /\ two \in UserState /\ two.errors = one.errors /\ two.failures = me.failures + 1
        /\ two.sockets = one.sockets
    BY <1>1, <1>2 DEF UserState
  <2> HIDE DEF two
  <2>3. /\ failed \in UserState /\ failed.errors = two.errors /\ failed.failures = two.failures
        /\ failed.sockets = two.sockets /\ failed.charged = TRUE /\ failed.first = First(me, "request")
    BY <2>1, <2>2 DEF UserState
  <2>4. QED
    BY <1>1, <1>2, <2>1, <2>2, <2>3 DEF Flow, AddsUp
<1>7. Flow(broken)
  <2>1. /\ broken \in UserState /\ broken.errors = one.errors /\ broken.failures = one.failures
        /\ broken.sockets = me.sockets + 1 /\ broken.charged = one.charged /\ broken.first = one.first
    BY <1>1, <1>2 DEF UserState
  <2>2. QED
    BY <1>1, <1>2, <2>1 DEF Flow, AddsUp
<1>8. QED
  BY <1>3, <1>4, <1>5, <1>6, <1>7

-------------------------------------------------------------------------------
(* One user takes a step.                                                     *)

Busy == Holding \cup Awaiting
Weight(pc) == IF pc \in Busy THEN 1 ELSE 0

\* The step of a user changes its own state, and the holder and the active users of
\* its node with it.
Moved(u) ==
  /\ user' = [user EXCEPT ![u] = user'[u]]
  /\ Flow(user'[u])
  /\ user'[u].pc \in Busy \cup Ended
  /\ holder' = [holder EXCEPT ![NodeOf[u]] = IF user'[u].pc \in Holding THEN u ELSE None]
  /\ active' = [active EXCEPT ![NodeOf[u]] = @ + Weight(user'[u].pc) - Weight(user[u].pc)]

\* A user that may take one: it is the holder, or nobody is.
MayMove(u) ==
  /\ ActorsTyped
  /\ Flow(user[u])
  /\ user[u].pc \in Holding => holder[NodeOf[u]] = u
  /\ user[u].pc \notin Holding => holder[NodeOf[u]] = None

LEMMA Updated ==
  ASSUME NEW D, NEW f, DOMAIN f = D, NEW x \in D, NEW v, NEW g, g = [f EXCEPT ![x] = v]
  PROVE  g[x] = v /\ g = [f EXCEPT ![x] = g[x]]
OBVIOUS

LEMMA SameAgain ==
  ASSUME NEW D, NEW R, NEW f \in [D -> R], NEW x \in D, NEW v, v = f[x]
  PROVE  f = [f EXCEPT ![x] = v]
OBVIOUS

LEMMA PlacesAreApart ==
  /\ \A pc \in Holding : pc \in Places /\ pc \in Busy /\ pc \notin Ended /\ pc \notin Awaiting /\ Weight(pc) = 1
  /\ \A pc \in Awaiting : pc \in Places /\ pc \in Busy /\ pc \notin Ended /\ pc \notin Holding /\ Weight(pc) = 1
  /\ \A pc \in Ended : pc \in Places /\ pc \notin Busy /\ pc \notin Holding /\ pc \notin Awaiting /\ Weight(pc) = 0
BY DEF Places, Busy, Holding, Awaiting, Ended, Weight

\* The state of a user, and the places of its node, are well defined.
LEMMA ItsOwn ==
  ASSUME NEW u \in User, ActorsTyped
  PROVE  /\ NodeOf[u] \in AllNodes /\ DOMAIN user = User /\ DOMAIN holder = AllNodes /\ DOMAIN active = AllNodes
         /\ active[NodeOf[u]] \in Int /\ active[NodeOf[u]] + 1 - 1 = active[NodeOf[u]]
         /\ active \in [AllNodes -> Int] /\ holder \in [AllNodes -> User \cup {None}]
BY ScenarioAssumption DEF ActorsTyped, AllNodes

\* A user that goes on, one that awaits, one that ends and one that wakes.
LEMMA RunsOn ==
  ASSUME NEW u \in User, MayMove(u), user[u].pc \in Holding, NEW pc \in Holding,
         RunOn(u, pc), UNCHANGED active
  PROVE  Moved(u) /\ user'[u] = [user[u] EXCEPT !.pc = pc] /\ user'[u].pc = pc
<1>1. user' = [user EXCEPT ![u] = [user[u] EXCEPT !.pc = pc]] /\ holder' = holder
  BY DEF RunOn
<1>2. user'[u] = [user[u] EXCEPT !.pc = pc] /\ user' = [user EXCEPT ![u] = user'[u]]
  BY <1>1, ItsOwn, Updated DEF MayMove
<1>3. Flow(user'[u]) /\ user'[u].pc = pc
  BY <1>2, PlaceFlows, PlacesAreApart DEF MayMove
<1>4. holder' = [holder EXCEPT ![NodeOf[u]] = u]
  BY <1>1, ItsOwn, SameAgain DEF MayMove
<1>5. active' = [active EXCEPT ![NodeOf[u]] = active[NodeOf[u]] + 1 - 1]
  BY ItsOwn, SameAgain DEF MayMove
<1>6. QED
  BY <1>2, <1>3, <1>4, <1>5, PlacesAreApart DEF Moved

LEMMA Goes ==
  ASSUME NEW u \in User, MayMove(u), user[u].pc \in Busy, NEW me, Flow(me), me.pc \in Busy,
         user' = [user EXCEPT ![u] = me],
         holder' = [holder EXCEPT ![NodeOf[u]] = IF me.pc \in Holding THEN u ELSE None],
         UNCHANGED active
  PROVE  Moved(u) /\ user'[u] = me
<1>1. user'[u] = me /\ user' = [user EXCEPT ![u] = user'[u]]
  BY ItsOwn, Updated DEF MayMove
<1>2. active' = [active EXCEPT ![NodeOf[u]] = active[NodeOf[u]] + 1 - 1]
  BY ItsOwn, SameAgain DEF MayMove
<1>3. QED
  BY <1>1, <1>2, PlacesAreApart DEF Moved, Weight

LEMMA Awaits ==
  ASSUME NEW u \in User, MayMove(u), user[u].pc \in Busy, NEW me, Flow(me), NEW pc \in Awaiting,
         Await(u, me, pc), UNCHANGED active
  PROVE  Moved(u) /\ user'[u] = [me EXCEPT !.pc = pc] /\ user'[u].pc = pc
<1>1. Flow([me EXCEPT !.pc = pc]) /\ [me EXCEPT !.pc = pc].pc = pc
  BY PlaceFlows, PlacesAreApart
<1>2. QED
  BY <1>1, Goes, PlacesAreApart, ZenonT(60) DEF Await

LEMMA Ends ==
  ASSUME NEW u \in User, MayMove(u), user[u].pc \in Busy, NEW pc \in Ended, End(u, pc)
  PROVE  Moved(u) /\ user'[u].pc = pc
<1>1. user' = [user EXCEPT ![u] = Newborn(pc)] /\ holder' = [holder EXCEPT ![NodeOf[u]] = None]
      /\ active' = [active EXCEPT ![NodeOf[u]] = @ - 1]
  BY DEF End
<1>2. user'[u] = Newborn(pc) /\ user' = [user EXCEPT ![u] = user'[u]]
  BY <1>1, ItsOwn, Updated DEF MayMove
<1>3. Flow(user'[u]) /\ user'[u].pc = pc
  BY <1>2, NewbornFlows, PlacesAreApart
<1>4. active' = [active EXCEPT ![NodeOf[u]] = active[NodeOf[u]] + 0 - 1]
  <2>1. active[NodeOf[u]] + 0 - 1 = active[NodeOf[u]] - 1
    BY ItsOwn DEF MayMove
  <2>2. QED
    BY <1>1, <2>1
<1>5. QED
  BY <1>1, <1>2, <1>3, <1>4, PlacesAreApart DEF Moved, Weight

LEMMA WakesUp ==
  ASSUME NEW u \in User, MayMove(u), user[u].pc \in Awaiting, NEW pc \in Holding,
         Wakes(u, pc), UNCHANGED active
  PROVE  /\ Moved(u) /\ user'[u].pc = pc
         /\ turn' = [turn EXCEPT ![NodeOf[u]] = 0]
<1>1. user' = [user EXCEPT ![u] = [user[u] EXCEPT !.pc = pc]] /\ holder' = [holder EXCEPT ![NodeOf[u]] = u]
      /\ turn' = [turn EXCEPT ![NodeOf[u]] = 0]
  BY DEF Wakes
<1>2. Flow([user[u] EXCEPT !.pc = pc]) /\ [user[u] EXCEPT !.pc = pc].pc = pc
  BY PlaceFlows, PlacesAreApart DEF MayMove
<1> DEFINE me == [user[u] EXCEPT !.pc = pc]
<1>3. user' = [user EXCEPT ![u] = me] /\ Flow(me) /\ me.pc = pc
  BY <1>1, <1>2
<1> HIDE DEF me
<1>4. Moved(u) /\ user'[u] = me
  BY <1>1, <1>3, Goes, PlacesAreApart
<1>5. QED
  BY <1>1, <1>3, <1>4

MayAbort(u) == aborted' \in {aborted, [aborted EXCEPT ![NodeOf[u]] = TRUE]}

\* The ways in which a step of a scenario ends.
Lands(u) ==
  /\ Moved(u) /\ MayAbort(u)
  /\ user'[u].pc \in {"gone", "thinking", "yielding", "step", "iterate"}
  /\ user'[u].pc = "gone" => stop[NodeOf[u]]
  /\ user'[u].pc = "step" => Scripted

LEMMA ThinkLands ==
  ASSUME NEW u \in User, MayMove(u), user[u].pc \in Busy, NEW me, Flow(me), Think(u, me)
  PROVE  Lands(u)
<1>0. MayAbort(u)
  BY DEF Think, MayAbort
<1>1. CASE stop[NodeOf[u]] /\ End(u, "gone")
  BY <1>0, <1>1, Ends DEF Lands, Ended
<1>2. CASE Await(u, me, "thinking") /\ UNCHANGED active
  BY <1>0, <1>2, Awaits DEF Lands, Awaiting
<1>3. CASE /\ user' = [user EXCEPT ![u] = NextStep(me)]
           /\ holder' = [holder EXCEPT ![NodeOf[u]] = u] /\ UNCHANGED active
  <2> DEFINE further == NextStep(me)
  <2>1. Flow(further) /\ further.pc = IF Scripted THEN "step" ELSE "iterate"
    BY NextStepFlows
  <2>2. further.pc \in Holding
    BY <2>1 DEF Holding
  <2> HIDE DEF further
  <2>3. Moved(u) /\ user'[u] = further
    BY <1>3, <2>1, <2>2, Goes, PlacesAreApart DEF further
  <2>4. QED
    BY <1>0, <2>1, <2>3 DEF Lands
<1>4. QED
  BY <1>1, <1>2, <1>3 DEF Think

LEMMA AbortLands ==
  ASSUME NEW u \in User, MayMove(u), user[u].pc \in Busy, NEW me, Flow(me), Abort(u, me)
  PROVE  Lands(u) /\ user'[u].pc \in {"gone", "yielding"}
<1>0. MayAbort(u)
  BY DEF Abort, MayAbort
<1>1. CASE stop[NodeOf[u]] /\ End(u, "gone")
  BY <1>0, <1>1, Ends DEF Lands, Ended
<1>2. CASE Await(u, me, "yielding") /\ UNCHANGED active
  BY <1>0, <1>2, Awaits DEF Lands, Awaiting
<1>3. QED
  BY <1>1, <1>2 DEF Abort

LEMMA ExtractLands ==
  ASSUME NEW u \in User, MayMove(u), user[u].pc \in Busy, NEW me, Flow(me), Extract(u, me)
  PROVE  Lands(u)
<1>1. CASE Think(u, me)
  BY <1>1, ThinkLands
<1>2. CASE Think(u, [me EXCEPT !.bound = TRUE])
  BY <1>2, ThinkLands, BoundFlows
<1>3. CASE Abort(u, Charged(me))
  BY <1>3, AbortLands, FailuresFlow
<1>4. CASE Think(u, Charged(me))
  BY <1>4, ThinkLands, FailuresFlow
<1>5. QED
  BY <1>1, <1>2, <1>3, <1>4 DEF Extract

-------------------------------------------------------------------------------
(* What the step of a user does to the figures of its node.                   *)

\* A turn has at most one beginning of an iteration, and no second one begins in it:
\* a user at the top of its loop has begun none since it got the loop, or will end.
TurnOK(me, begun, stopped) ==
  /\ begun <= 1
  /\ me.pc = "iterate" => begun = 0 \/ stopped
  /\ me.pc = "step" => Scripted /\ (begun = 0 \/ me.step = 1)
  /\ me.pc = "render" => Scripted

Turned(u) ==
  LET n == NodeOf[u]
  IN  /\ turn' = [turn EXCEPT ![n] = turn'[n]] /\ turn'[n] \in Nat
      /\ TurnOK(user'[u], turn'[n], stop[n])

\* A user with a request of the budget that is not yet made: 1.
Flying == {"limited", "render", "sending", "open"}
Flies(pc) == IF pc \in Flying THEN 1 ELSE 0
Account(n) == remaining[n] + requests[n] + unsent[n]

\* A claimed request is made, or tallied as unsent, or it is given up by a user that
\* ends, which is told to; and nobody ends for another reason while there is
\* something left to do.
Claimed(u) ==
  LET n == NodeOf[u]
      told == stop[n] \/ u \in asked
  IN  /\ remaining' = [remaining EXCEPT ![n] = remaining'[n]]
      /\ requests' = [requests EXCEPT ![n] = requests'[n]]
      /\ unsent' = [unsent EXCEPT ![n] = unsent'[n]]
      /\ remaining'[n] \in Nat /\ requests'[n] \in Nat /\ unsent'[n] \in Nat
      /\ remaining'[n] <= remaining[n]
      /\ Counted =>
           /\ \/ Account(n)' + Flies(user'[u].pc) = Account(n) + Flies(user[u].pc)
              \/ /\ Account(n)' = Account(n) /\ Flies(user[u].pc) = 1 /\ user'[u].pc \in Ended
                 /\ user'[u].pc = "crashed" \/ told
           /\ user'[u].pc \in {"gone", "cancelled"} => told \/ dry'[n] \/ remaining'[n] = 0

\* A user that may take its step, and what the step comes to.
Ready(u) ==
  /\ u \in User /\ u \in config.users
  /\ MayMove(u) /\ RunTyped /\ FiguresTyped
  /\ turn[NodeOf[u]] <= 1
  /\ user[u].pc \in Holding => TurnOK(user[u], turn[NodeOf[u]], stop[NodeOf[u]])

Stepped(u) ==
  /\ user[u].pc \in Busy \cup {"created"}
  /\ Moved(u) /\ Turned(u) /\ Claimed(u)
  /\ UNCHANGED dataVars \/ Draw(u)
  /\ MayAbort(u) /\ NotMine /\ UNCHANGED over

LEMMA ConfigFacts ==
  ASSUME RunTyped
  PROVE  /\ ConfigKind(config)
         /\ Len(config.steps) \in Nat /\ (Scripted => Len(config.steps) >= 1)
         /\ Len(config.data) \in Nat /\ Datasets = 1..Len(config.data)
         /\ config.users \in SUBSET User /\ config.nodes \in Nat \ {0}
         /\ 0..(config.nodes - 1) \subseteq AllNodes
         /\ \A u \in config.users : NodeOf[u] \in 0..(config.nodes - 1)
         /\ \A n \in 0..(config.nodes - 1) : \E u \in config.users : NodeOf[u] = n
         /\ \A d \in Datasets : config.data[d].strategy \in Strategy /\ config.data[d].rows \in Nat \ {0}
         /\ Counted => Scripted /\ ~config.simulation /\ ~config.ramp
         /\ config.requests \in Nat /\ config.simulation \in BOOLEAN /\ config.ramp \in BOOLEAN
<1>1. ConfigKind(config)
  BY ScenarioAssumption DEF RunTyped
<1>2. config.steps \in Seq(StepKind) /\ config.data \in Seq(DataSet)
  BY <1>1 DEF ConfigKind
<1>3. Len(config.steps) \in Nat /\ (Scripted => Len(config.steps) >= 1)
  <2>1. Len(config.steps) \in Nat /\ (Len(config.steps) = 0 => config.steps = <<>>)
    BY <1>2, EmptySeq, LenProperties
  <2>2. QED
    BY <1>1, <2>1 DEF ConfigKind, Scripted
<1>4. Len(config.data) \in Nat /\ Datasets = 1..Len(config.data)
  BY <1>2, LenProperties DEF Datasets
<1>5. \A d \in Datasets : config.data[d].strategy \in Strategy /\ config.data[d].rows \in Nat \ {0}
  <2>1. \A d \in Datasets : config.data[d] \in DataSet
    BY <1>2, LenProperties DEF Datasets
  <2>2. QED
    BY <2>1 DEF DataSet
<1>6. /\ config.users \in SUBSET User /\ config.nodes \in 1..Nodes /\ Nodes \in Nat
      /\ {NodeOf[u] : u \in config.users} = 0..(config.nodes - 1)
      /\ config.requests \in Nat /\ config.simulation \in BOOLEAN /\ config.ramp \in BOOLEAN
      /\ Counted => Scripted /\ ~config.simulation
      /\ config.ramp => config.simulation
  BY <1>1, ScenarioAssumption DEF ConfigKind, Counted, Scripted
<1>7. config.nodes \in Nat \ {0} /\ 0..(config.nodes - 1) \subseteq AllNodes
  BY <1>6 DEF AllNodes
<1>8. QED
  BY <1>1, <1>3, <1>4, <1>5, <1>6, <1>7

\* Nothing is claimed or made, and nothing given up but by a user that is told to end.
LEMMA NothingClaimed ==
  ASSUME NEW u, Ready(u), UNCHANGED <<remaining, requests, unsent>>,
         \/ Flies(user'[u].pc) = Flies(user[u].pc)
         \/ /\ Flies(user[u].pc) = 1 /\ user'[u].pc \in Ended
            /\ user'[u].pc = "crashed" \/ stop[NodeOf[u]] \/ u \in asked,
         Counted /\ user'[u].pc \in {"gone", "cancelled"} =>
           stop[NodeOf[u]] \/ u \in asked \/ dry'[NodeOf[u]] \/ remaining[NodeOf[u]] = 0
  PROVE  Claimed(u)
<1> DEFINE n == NodeOf[u]
<1>1. /\ n \in AllNodes /\ remaining \in [AllNodes -> Nat] /\ requests \in [AllNodes -> Nat]
      /\ unsent \in [AllNodes -> Nat]
  BY ItsOwn DEF Ready, MayMove, FiguresTyped
<1>2. /\ remaining' = [remaining EXCEPT ![n] = remaining'[n]]
      /\ requests' = [requests EXCEPT ![n] = requests'[n]]
      /\ unsent' = [unsent EXCEPT ![n] = unsent'[n]]
      /\ remaining'[n] \in Nat /\ requests'[n] \in Nat /\ unsent'[n] \in Nat
      /\ remaining'[n] <= remaining[n]
  BY <1>1
<1>3. Account(n)' = Account(n)
  BY DEF Account
<1>4. QED
  BY <1>2, <1>3 DEF Claimed

\* One claimed request is recorded as made, or tallied as unsent.
LEMMA OneIsRecorded ==
  ASSUME NEW u, Ready(u), Flies(user[u].pc) = 1, Flies(user'[u].pc) = 0, UNCHANGED remaining,
         \/ Recorded(u) /\ UNCHANGED unsent
         \/ Unsent(u) /\ UNCHANGED requests,
         user'[u].pc # "cancelled", user'[u].pc = "gone" => stop[NodeOf[u]]
  PROVE  Claimed(u)
<1> DEFINE n == NodeOf[u]
<1>1. /\ n \in AllNodes /\ remaining \in [AllNodes -> Nat] /\ requests \in [AllNodes -> Nat]
      /\ unsent \in [AllNodes -> Nat]
  BY ItsOwn DEF Ready, MayMove, FiguresTyped
<1>2. /\ remaining' = [remaining EXCEPT ![n] = remaining'[n]]
      /\ remaining'[n] \in Nat /\ remaining'[n] <= remaining[n] /\ remaining'[n] = remaining[n]
  BY <1>1
<1>3. CASE Recorded(u) /\ UNCHANGED unsent
  <2>1. /\ requests' = [requests EXCEPT ![n] = requests'[n]] /\ requests'[n] \in Nat
        /\ unsent' = [unsent EXCEPT ![n] = unsent'[n]] /\ unsent'[n] \in Nat
        /\ Counted => requests'[n] = requests[n] + 1 /\ unsent'[n] = unsent[n]
    <3>1. CASE Counted
      <4>1. requests' = [requests EXCEPT ![n] = requests[n] + 1] /\ requests[n] + 1 \in Nat
        BY <1>1, <1>3, <3>1 DEF Recorded
      <4>2. QED
        BY <1>1, <1>3, <3>1, <4>1
    <3>2. CASE ~Counted
      <4>1. UNCHANGED <<requests, unsent>>
        BY <1>3, <3>2 DEF Recorded
      <4>2. QED
        BY <1>1, <3>2, <4>1
    <3>3. QED
      BY <3>1, <3>2
  <2>2. Counted => Account(n)' + Flies(user'[u].pc) = Account(n) + Flies(user[u].pc)
    BY <1>1, <1>2, <2>1 DEF Account
  <2>3. QED
    BY <1>2, <2>1, <2>2 DEF Claimed
<1>4. CASE Unsent(u) /\ UNCHANGED requests
  <2>1. /\ unsent' = [unsent EXCEPT ![n] = unsent'[n]] /\ unsent'[n] \in Nat
        /\ requests' = [requests EXCEPT ![n] = requests'[n]] /\ requests'[n] \in Nat
        /\ Counted => unsent'[n] = unsent[n] + 1 /\ requests'[n] = requests[n]
    <3>1. CASE Counted
      <4>1. unsent' = [unsent EXCEPT ![n] = unsent[n] + 1] /\ unsent[n] + 1 \in Nat
        BY <1>1, <1>4, <3>1 DEF Unsent
      <4>2. QED
        BY <1>1, <1>4, <3>1, <4>1
    <3>2. CASE ~Counted
      <4>1. UNCHANGED <<requests, unsent>>
        BY <1>4, <3>2 DEF Unsent
      <4>2. QED
        BY <1>1, <3>2, <4>1
    <3>3. QED
      BY <3>1, <3>2
  <2>2. Counted => Account(n)' + Flies(user'[u].pc) = Account(n) + Flies(user[u].pc)
    BY <1>1, <1>2, <2>1 DEF Account
  <2>3. QED
    BY <1>2, <2>1, <2>2 DEF Claimed
<1>5. QED
  BY <1>3, <1>4

\* The turn is a new one, or it goes on with no iteration begun in it.
LEMMA NewTurn ==
  ASSUME NEW u, Ready(u), turn' = [turn EXCEPT ![NodeOf[u]] = 0],
         user'[u].pc \in {"step", "render"} => Scripted
  PROVE  Turned(u)
<1>1. NodeOf[u] \in AllNodes /\ turn \in [AllNodes -> Nat]
  BY ItsOwn DEF Ready, MayMove, FiguresTyped
<1>2. turn'[NodeOf[u]] = 0 /\ turn' = [turn EXCEPT ![NodeOf[u]] = turn'[NodeOf[u]]]
  BY <1>1
<1>3. QED
  BY <1>2 DEF Turned, TurnOK

LEMMA SameTurn ==
  ASSUME NEW u, Ready(u), UNCHANGED turn,
         \/ user'[u].pc \notin {"iterate", "step", "render"}
         \/ user'[u].pc = "iterate" /\ (turn[NodeOf[u]] = 0 \/ stop[NodeOf[u]])
         \/ user'[u].pc = "render" /\ Scripted
  PROVE  Turned(u)
<1>1. NodeOf[u] \in AllNodes /\ turn \in [AllNodes -> Nat]
  BY ItsOwn DEF Ready, MayMove, FiguresTyped
<1>2. turn'[NodeOf[u]] \in Nat /\ turn' = [turn EXCEPT ![NodeOf[u]] = turn'[NodeOf[u]]]
  BY <1>1
<1>3. TurnOK(user'[u], turn'[NodeOf[u]], stop[NodeOf[u]])
  BY <1>1 DEF Ready, TurnOK
<1>4. QED
  BY <1>2, <1>3 DEF Turned

LEMMA PlainFlying ==
  /\ Flies("limited") = 1 /\ Flies("render") = 1 /\ Flies("sending") = 1 /\ Flies("open") = 1
  /\ \A pc \in {"iterate", "step", "thinking", "yielding", "pacing", "created", "unborn"} \cup Ended : Flies(pc) = 0
BY DEF Flies, Flying, Ended

LEMMA BeginStep ==
  ASSUME NEW u, Ready(u), Begin(u)
  PROVE  Stepped(u)
<1>1. user[u].pc = "created" /\ u \in User /\ MayMove(u)
  BY DEF Begin, Resumed, Ready
<1>2. /\ user' = [user EXCEPT ![u] = [user[u] EXCEPT !.pc = "iterate"]]
      /\ holder' = [holder EXCEPT ![NodeOf[u]] = u]
      /\ turn' = [turn EXCEPT ![NodeOf[u]] = 0]
      /\ active' = [active EXCEPT ![NodeOf[u]] = active[NodeOf[u]] + 1]
  BY DEF Begin, Wakes
<1> DEFINE me == [user[u] EXCEPT !.pc = "iterate"]
<1>3. Flow(me) /\ me.pc = "iterate" /\ user' = [user EXCEPT ![u] = me]
  BY <1>1, <1>2, PlaceFlows DEF MayMove, Places, Holding
<1> HIDE DEF me
<1>4. user'[u] = me /\ user' = [user EXCEPT ![u] = user'[u]]
  BY <1>1, <1>3, ItsOwn, Updated DEF MayMove
<1>5. active' = [active EXCEPT ![NodeOf[u]] = active[NodeOf[u]] + 1 - 0]
  BY <1>1, <1>2, ItsOwn DEF MayMove
<1>6. Weight("created") = 0 /\ Weight("iterate") = 1 /\ "iterate" \in Holding /\ "iterate" \in Busy
  BY DEF Weight, Busy, Holding, Awaiting
<1>7. Moved(u)
  BY <1>1, <1>2, <1>3, <1>4, <1>5, <1>6 DEF Moved
<1>8. Turned(u)
  BY <1>2, <1>3, <1>4, NewTurn
<1>9. Claimed(u)
  BY <1>1, <1>3, <1>4, PlainFlying, NothingClaimed DEF Begin, loadVars
<1>10. QED
  BY <1>1, <1>7, <1>8, <1>9 DEF Stepped, MayAbort, Begin, loadVars

LEMMA CancelledStep ==
  ASSUME NEW u, Ready(u), Cancelled(u)
  PROVE  Stepped(u)
<1>1. u \in asked /\ u \in User /\ MayMove(u) /\ user[u].pc \in Awaiting \cup {"created"}
  BY DEF Cancelled, Ready
<1>2. Moved(u) /\ user'[u].pc \in {"gone", "cancelled"}
  <2>1. CASE user[u].pc = "created" /\ user' = [user EXCEPT ![u].pc = "cancelled"] /\ UNCHANGED <<holder, active>>
    <3> DEFINE me == [user[u] EXCEPT !.pc = "cancelled"]
    <3>1. Flow(me) /\ me.pc = "cancelled" /\ user' = [user EXCEPT ![u] = me]
      BY <1>1, <2>1, PlaceFlows DEF MayMove, Places, Ended
    <3> HIDE DEF me
    <3>2. user'[u] = me /\ user' = [user EXCEPT ![u] = user'[u]]
      BY <1>1, <3>1, ItsOwn, Updated DEF MayMove
    <3>3. Weight("created") = 0 /\ Weight("cancelled") = 0 /\ "cancelled" \notin Holding /\ "cancelled" \in Ended
          /\ "created" \notin Holding
      BY DEF Weight, Busy, Holding, Awaiting, Ended
    <3>4. holder' = [holder EXCEPT ![NodeOf[u]] = None]
      BY <1>1, <2>1, <3>3, ItsOwn, SameAgain DEF MayMove
    <3>5. active' = [active EXCEPT ![NodeOf[u]] = active[NodeOf[u]] + 0 - 0]
      <4>1. active[NodeOf[u]] + 0 - 0 = active[NodeOf[u]]
        BY <1>1, ItsOwn DEF MayMove
      <4>2. QED
        BY <1>1, <2>1, <4>1, ItsOwn, SameAgain DEF MayMove
    <3>6. QED
      BY <2>1, <3>1, <3>2, <3>3, <3>4, <3>5 DEF Moved
  <2>2. CASE user[u].pc \in Awaiting /\ (End(u, "gone") \/ End(u, "cancelled"))
    BY <1>1, <2>2, Ends, PlacesAreApart DEF Ended
  <2>3. QED
    BY <1>1, <2>1, <2>2 DEF Cancelled, Awaiting
<1>3. Turned(u)
  BY <1>2, SameTurn DEF Cancelled
<1>4. Claimed(u)
  <2>1. user'[u].pc \in Ended /\ Flies(user'[u].pc) = 0
    BY <1>2, PlainFlying DEF Ended
  <2>2. Flies(user[u].pc) \in {0, 1}
    BY DEF Flies
  <2>3. QED
    BY <1>1, <2>1, <2>2, NothingClaimed DEF Cancelled, loadVars
<1>5. QED
  BY <1>1, <1>2, <1>3, <1>4 DEF Stepped, MayAbort, Cancelled, loadVars, Busy

LEMMA ThoughtStep ==
  ASSUME NEW u, Ready(u), Thought(u)
  PROVE  Stepped(u)
<1>1. user[u].pc = "thinking" /\ u \in User /\ MayMove(u) /\ user[u].pc \in Awaiting /\ user[u].pc \in Busy
  BY DEF Thought, Resumed, Ready, Busy, Awaiting
<1>2. CASE stop[NodeOf[u]] /\ End(u, "gone") /\ UNCHANGED turn
  <2>1. Moved(u) /\ user'[u].pc = "gone"
    BY <1>1, <1>2, Ends DEF Ended
  <2>2. Turned(u) /\ Claimed(u)
    BY <1>1, <1>2, <2>1, SameTurn, NothingClaimed, PlainFlying DEF Thought, loadVars, Ended
  <2>3. QED
    BY <1>1, <2>1, <2>2 DEF Stepped, MayAbort, Thought, loadVars
<1>3. CASE /\ user' = [user EXCEPT ![u] = NextStep(user[u])]
           /\ holder' = [holder EXCEPT ![NodeOf[u]] = u]
           /\ turn' = [turn EXCEPT ![NodeOf[u]] = 0]
           /\ UNCHANGED active
  <2> DEFINE further == NextStep(user[u])
  <2>1. Flow(further) /\ further.pc = IF Scripted THEN "step" ELSE "iterate"
    BY <1>1, NextStepFlows DEF MayMove
  <2>2. further.pc \in Holding
    BY <2>1 DEF Holding
  <2> HIDE DEF further
  <2>3. Moved(u) /\ user'[u] = further
    BY <1>1, <1>3, <2>1, <2>2, Goes, PlacesAreApart DEF further
  <2>4. user'[u].pc \in {"step", "iterate"} /\ (user'[u].pc = "step" => Scripted)
    BY <2>1, <2>3
  <2>5. Turned(u)
    BY <1>3, <2>4, NewTurn
  <2>6. Claimed(u)
    BY <1>1, <2>4, NothingClaimed, PlainFlying DEF Thought, loadVars
  <2>7. QED
    BY <1>1, <2>3, <2>5, <2>6 DEF Stepped, MayAbort, Thought, loadVars
<1>4. QED
  BY <1>2, <1>3 DEF Thought

LEMMA YieldedStep ==
  ASSUME NEW u, Ready(u), Yielded(u) \/ Paced(u)
  PROVE  Stepped(u)
<1>1. /\ user[u].pc \in {"yielding", "pacing"} /\ u \in User /\ MayMove(u)
      /\ user[u].pc \in Awaiting /\ user[u].pc \in Busy
      /\ UNCHANGED <<loadVars, dataVars, aborted>> /\ NotMine
  BY DEF Yielded, Paced, Resumed, Ready, Busy, Awaiting
<1>2. CASE stop[NodeOf[u]] /\ End(u, "gone") /\ UNCHANGED turn
  <2>1. Moved(u) /\ user'[u].pc = "gone"
    BY <1>1, <1>2, Ends DEF Ended
  <2>2. Turned(u) /\ Claimed(u)
    BY <1>1, <1>2, <2>1, SameTurn, NothingClaimed, PlainFlying DEF loadVars, Ended
  <2>3. QED
    BY <1>1, <2>1, <2>2 DEF Stepped, MayAbort, loadVars
<1>3. CASE Await(u, user[u], "pacing") /\ UNCHANGED <<turn, active>>
  <2>1. Moved(u) /\ user'[u].pc = "pacing"
    BY <1>1, <1>3, Awaits DEF MayMove, Awaiting
  <2>2. Turned(u) /\ Claimed(u)
    BY <1>1, <1>3, <2>1, SameTurn, NothingClaimed, PlainFlying DEF loadVars
  <2>3. QED
    BY <1>1, <2>1, <2>2 DEF Stepped, MayAbort, loadVars
<1>4. CASE Wakes(u, "iterate") /\ UNCHANGED active
  <2>1. Moved(u) /\ user'[u].pc = "iterate" /\ turn' = [turn EXCEPT ![NodeOf[u]] = 0]
    BY <1>1, <1>4, WakesUp DEF Holding
  <2>2. Turned(u) /\ Claimed(u)
    BY <1>1, <2>1, NewTurn, NothingClaimed, PlainFlying DEF loadVars
  <2>3. QED
    BY <1>1, <2>1, <2>2 DEF Stepped, MayAbort, loadVars
<1>5. QED
  BY <1>2, <1>3, <1>4 DEF Yielded, Paced

LEMMA AcquiredStep ==
  ASSUME NEW u, Ready(u), Acquired(u)
  PROVE  Stepped(u)
<1>1. /\ user[u].pc = "limited" /\ u \in User /\ MayMove(u)
      /\ user[u].pc \in Awaiting /\ user[u].pc \in Busy
      /\ UNCHANGED <<loadVars, dataVars, aborted>> /\ NotMine
  BY DEF Acquired, Resumed, Ready, Busy, Awaiting
<1>2. CASE stop[NodeOf[u]] /\ End(u, "gone") /\ UNCHANGED turn
  <2>1. Moved(u) /\ user'[u].pc = "gone" /\ user'[u].pc \in Ended
    BY <1>1, <1>2, Ends DEF Ended
  <2>2. Turned(u) /\ Claimed(u)
    BY <1>1, <1>2, <2>1, SameTurn, NothingClaimed, PlainFlying DEF loadVars
  <2>3. QED
    BY <1>1, <2>1, <2>2 DEF Stepped, MayAbort, loadVars
<1>3. CASE Scripted /\ Wakes(u, "render") /\ UNCHANGED active
  <2>1. Moved(u) /\ user'[u].pc = "render" /\ turn' = [turn EXCEPT ![NodeOf[u]] = 0]
    BY <1>1, <1>3, WakesUp DEF Holding
  <2>2. Turned(u) /\ Claimed(u)
    BY <1>1, <1>3, <2>1, NewTurn, NothingClaimed, PlainFlying DEF loadVars
  <2>3. QED
    BY <1>1, <2>1, <2>2 DEF Stepped, MayAbort, loadVars
<1>4. CASE Await(u, user[u], "sending") /\ UNCHANGED <<turn, active>>
  <2>1. Moved(u) /\ user'[u].pc = "sending"
    BY <1>1, <1>4, Awaits DEF MayMove, Awaiting
  <2>2. Turned(u) /\ Claimed(u)
    BY <1>1, <1>4, <2>1, SameTurn, NothingClaimed, PlainFlying DEF loadVars
  <2>3. QED
    BY <1>1, <2>1, <2>2 DEF Stepped, MayAbort, loadVars
<1>5. QED
  BY <1>2, <1>3, <1>4 DEF Acquired

\* An HTTP answer, or the end of a WebSocket step: recorded or tallied, and the user
\* lands with nothing claimed.
LEMMA LandedStep ==
  ASSUME NEW u, Ready(u), user[u].pc \in {"sending", "open"}, Lands(u),
         turn' = [turn EXCEPT ![NodeOf[u]] = 0],
         \/ Recorded(u) /\ UNCHANGED unsent
         \/ Unsent(u) /\ UNCHANGED requests,
         UNCHANGED <<over, remaining, dataVars>>, NotMine
  PROVE  Stepped(u)
<1>1. Turned(u)
  BY NewTurn DEF Lands
<1>2. Claimed(u)
  BY OneIsRecorded, PlainFlying DEF Lands, Ended
<1>3. QED
  BY <1>1, <1>2 DEF Stepped, Lands, Busy, Awaiting

LEMMA AnsweredStep ==
  ASSUME NEW u, Ready(u), Answered(u)
  PROVE  Stepped(u)
<1>1. user[u].pc = "sending" /\ u \in User /\ MayMove(u) /\ user[u].pc \in Busy
  BY DEF Answered, Resumed, Ready, Busy, Awaiting
<1>2. Flow(user[u]) /\ Flow(FailedRequest(user[u]))
  BY <1>1, FailuresFlow DEF MayMove
<1>3. Lands(u)
  <2>1. CASE \E me \in {user[u], FailedRequest(user[u])} : Think(u, me)
    BY <1>1, <1>2, <2>1, ThinkLands
  <2>2. CASE \E me \in {user[u], FailedRequest(user[u])} : Extract(u, me)
    BY <1>1, <1>2, <2>2, ExtractLands
  <2>3. CASE Abort(u, FailedRequest(user[u]))
    BY <1>1, <1>2, <2>3, AbortLands
  <2>4. QED
    BY <2>1, <2>2, <2>3 DEF Answered
<1>4. QED
  BY <1>1, <1>3, LandedStep DEF Answered

LEMMA WsAnsweredStep ==
  ASSUME NEW u, Ready(u), WsAnswered(u)
  PROVE  Stepped(u)
<1>1. user[u].pc = "open" /\ u \in User /\ MayMove(u) /\ user[u].pc \in Busy
  BY DEF WsAnswered, Resumed, Ready, Busy, Awaiting
<1>2. PICK outcome \in WsOutcomes(user[u]) :
        \/ outcome.ok /\ Extract(u, outcome.me) /\ Recorded(u) /\ UNCHANGED unsent
        \/ ~outcome.ok /\ Abort(u, Charged(outcome.me)) /\ Unsent(u) /\ UNCHANGED requests
  BY DEF WsAnswered
<1>3. Flow(outcome.me)
  <2>1. outcome.me \in {user[u], SocketError(user[u])}
    BY DEF WsOutcomes
  <2>2. QED
    BY <1>1, <2>1, FailuresFlow DEF MayMove
<1>4. Lands(u)
  BY <1>1, <1>2, <1>3, ExtractLands, AbortLands, FailuresFlow
<1>5. QED
  BY <1>1, <1>2, <1>4, LandedStep DEF WsAnswered

LEMMA RenderStep ==
  ASSUME NEW u, Ready(u), Render(u)
  PROVE  Stepped(u)
<1>1. /\ user[u].pc = "render" /\ u \in User /\ MayMove(u) /\ user[u].pc \in Busy
      /\ UNCHANGED <<turn, over, remaining, requests, dataVars>> /\ NotMine
  BY DEF Render, Ready, Busy, Holding
<1>2. Flow(user[u]) /\ Flow(Charged(user[u]))
  BY <1>1, FailuresFlow DEF MayMove
<1>3. CASE Abort(u, Charged(user[u])) /\ Unsent(u)
  <2>1. Lands(u) /\ user'[u].pc \in {"gone", "yielding"}
    BY <1>1, <1>2, <1>3, AbortLands
  <2>2. Claimed(u)
    BY <1>1, <1>3, <2>1, OneIsRecorded, PlainFlying DEF Lands, Ended
  <2>3. Turned(u)
    BY <1>1, <2>1, SameTurn
  <2>4. QED
    BY <1>1, <2>1, <2>2, <2>3 DEF Stepped, Lands
<1>4. CASE End(u, "crashed") /\ UNCHANGED <<unsent, aborted>>
  <2>1. Moved(u) /\ user'[u].pc = "crashed" /\ user'[u].pc \in Ended
    BY <1>1, <1>4, Ends DEF Ended
  <2>2. Turned(u) /\ Claimed(u)
    BY <1>1, <1>4, <2>1, SameTurn, NothingClaimed, PlainFlying
  <2>3. QED
    BY <1>1, <1>4, <2>1, <2>2 DEF Stepped, MayAbort
<1>5. CASE \E pc \in {"open", "sending"} : Await(u, user[u], pc) /\ UNCHANGED <<active, unsent, aborted>>
  <2>1. PICK pc \in {"open", "sending"} : Await(u, user[u], pc)
    BY <1>5
  <2>2. Moved(u) /\ user'[u].pc = pc
    <3>1. pc \in Awaiting /\ UNCHANGED active
      BY <1>5 DEF Awaiting
    <3>2. QED
      BY <1>1, <1>2, <2>1, <3>1, Awaits
  <2>3. Turned(u) /\ Claimed(u)
    BY <1>1, <1>5, <2>2, SameTurn, NothingClaimed, PlainFlying
  <2>4. QED
    BY <1>1, <1>5, <2>2, <2>3 DEF Stepped, MayAbort
<1>6. QED
  BY <1>3, <1>4, <1>5 DEF Render

LEMMA StepStep ==
  ASSUME NEW u, Ready(u), Step(u)
  PROVE  Stepped(u)
<1> DEFINE n == NodeOf[u]
<1>1. /\ user[u].pc = "step" /\ u \in User /\ MayMove(u) /\ user[u].pc \in Busy /\ user[u].pc \in Holding
      /\ UNCHANGED <<turn, over, requests, unsent, dataVars, aborted>> /\ NotMine
  BY DEF Step, Ready, Busy, Holding
<1>2. Scripted /\ (turn[n] = 0 \/ user[u].step = 1) /\ Len(config.steps) \in Nat /\ Len(config.steps) >= 1
  BY <1>1, ConfigFacts DEF Ready, TurnOK
<1>3. n \in AllNodes /\ remaining \in [AllNodes -> Nat]
  BY <1>1, ItsOwn DEF Ready, MayMove, FiguresTyped
<1>4. CASE /\ user[u].step > Len(config.steps) \/ stop[n]
           /\ RunOn(u, "iterate") /\ UNCHANGED <<active, remaining>>
  <2>1. Moved(u) /\ user'[u].pc = "iterate"
    BY <1>1, <1>4, RunsOn DEF Holding
  <2>2. turn[n] = 0 \/ stop[n]
    BY <1>2, <1>4
  <2>3. Turned(u) /\ Claimed(u)
    BY <1>1, <1>4, <2>1, <2>2, SameTurn, NothingClaimed, PlainFlying
  <2>4. QED
    BY <1>1, <2>1, <2>3 DEF Stepped, MayAbort
<1>5. CASE Finished(n) /\ End(u, "gone") /\ UNCHANGED remaining
  <2>1. Moved(u) /\ user'[u].pc = "gone" /\ user'[u].pc \in Ended
    BY <1>1, <1>5, Ends DEF Ended
  <2>2. Counted => remaining[n] = 0
    BY <1>3, <1>5 DEF Finished, Counted
  <2>3. Turned(u) /\ Claimed(u)
    BY <1>1, <1>5, <2>1, <2>2, SameTurn, NothingClaimed, PlainFlying
  <2>4. QED
    BY <1>1, <2>1, <2>3 DEF Stepped, MayAbort
<1>6. CASE /\ ~Finished(n)
           /\ remaining' = IF Counted THEN [remaining EXCEPT ![n] = @ - 1] ELSE remaining
           /\ Throttle(u, "render") /\ UNCHANGED active
  <2>1. Moved(u) /\ user'[u].pc \in {"render", "limited"}
    <3>1. CASE RunOn(u, "render")
      BY <1>1, <1>6, <3>1, RunsOn DEF Holding
    <3>2. CASE Await(u, user[u], "limited")
      <4>1. Flow(user[u]) /\ "limited" \in Awaiting
        BY <1>1 DEF MayMove, Awaiting
      <4>2. QED
        BY <1>1, <1>6, <3>2, <4>1, Awaits
    <3>3. QED
      BY <1>6, <3>1, <3>2 DEF Throttle
  <2>2. Turned(u)
    BY <1>1, <1>2, <2>1, SameTurn
  <2>3. Claimed(u)
    <3>1. CASE ~Counted
      <4>1. remaining' = remaining
        BY <1>6, <3>1
      <4>2. /\ requests \in [AllNodes -> Nat] /\ unsent \in [AllNodes -> Nat]
        BY DEF Ready, FiguresTyped
      <4>3. QED
        BY <1>1, <1>3, <3>1, <4>1, <4>2 DEF Claimed
    <3>2. CASE Counted
      <4>1. remaining[n] > 0 /\ remaining' = [remaining EXCEPT ![n] = remaining[n] - 1]
        BY <1>3, <1>6, <3>2 DEF Finished
      <4>2. /\ requests \in [AllNodes -> Nat] /\ unsent \in [AllNodes -> Nat]
        BY DEF Ready, FiguresTyped
      <4>3. /\ remaining' = [remaining EXCEPT ![n] = remaining'[n]] /\ remaining'[n] = remaining[n] - 1
            /\ remaining'[n] \in Nat /\ remaining'[n] <= remaining[n]
        <5> DEFINE k == remaining[n]
        <5>1. k \in Nat /\ k > 0 /\ remaining' = [remaining EXCEPT ![n] = k - 1]
          BY <1>3, <4>1
        <5>2. remaining'[n] = k - 1 /\ remaining' = [remaining EXCEPT ![n] = remaining'[n]]
          BY <1>3, <5>1
        <5> HIDE DEF k
        <5>3. k - 1 \in Nat /\ k - 1 <= k
          BY <5>1
        <5>4. QED
          BY <5>2, <5>3 DEF k
      <4>4. Flies(user[u].pc) = 0 /\ Flies(user'[u].pc) = 1
        BY <1>1, <2>1, PlainFlying
      <4>5. Account(n)' + 1 = Account(n) + 0
        BY <1>1, <1>3, <4>2, <4>3 DEF Account
      <4>6. QED
        BY <1>1, <1>3, <2>1, <4>2, <4>3, <4>4, <4>5 DEF Claimed
    <3>3. QED
      BY <3>1, <3>2
  <2>4. QED
    BY <1>1, <2>1, <2>2, <2>3 DEF Stepped, MayAbort
<1>7. QED
  BY <1>4, <1>5, <1>6 DEF Step

LEMMA PlainHeadStep ==
  ASSUME NEW u, Ready(u), PlainHead(u)
  PROVE  Stepped(u)
<1>1. /\ user[u].pc = "iterate" /\ u \in User /\ MayMove(u) /\ user[u].pc \in Busy
      /\ UNCHANGED <<turn, loadVars, dataVars, aborted>> /\ NotMine
      /\ ~Counted
  BY ConfigFacts DEF PlainHead, Ready, Busy, Holding
<1> DEFINE begin == [Newborn("sending") EXCEPT !.step = 1]
<1>2. Flow(begin)
  BY BeginningFlows DEF Places, Awaiting
<1> HIDE DEF begin
<1>3. Moved(u) /\ user'[u].pc \in {"gone", "sending", "limited"}
  <2>1. CASE End(u, "gone")
    BY <1>1, <2>1, Ends DEF Ended
  <2>2. CASE Await(u, begin, "sending") /\ UNCHANGED active
    BY <1>1, <1>2, <2>2, Awaits DEF Awaiting
  <2>3. CASE Await(u, begin, "limited") /\ UNCHANGED active
    BY <1>1, <1>2, <2>3, Awaits DEF Awaiting
  <2>4. QED
    BY <2>1, <2>2, <2>3 DEF PlainHead, begin
<1>4. Turned(u)
  BY <1>1, <1>3, SameTurn
<1>5. Claimed(u)
  <2>1. /\ remaining \in [AllNodes -> Nat] /\ requests \in [AllNodes -> Nat] /\ unsent \in [AllNodes -> Nat]
        /\ NodeOf[u] \in AllNodes
    BY <1>1, ItsOwn DEF Ready, MayMove, FiguresTyped
  <2>2. QED
    BY <1>1, <2>1 DEF Claimed, loadVars
<1>6. QED
  BY <1>1, <1>3, <1>4, <1>5 DEF Stepped, MayAbort, loadVars

LEMMA DrawStep ==
  ASSUME NEW u, Ready(u), Draw(u)
  PROVE  Stepped(u)
<1> DEFINE n == NodeOf[u]
<1>1. /\ user[u].pc = "iterate" /\ u \in User /\ MayMove(u) /\ user[u].pc \in Busy /\ Scripted
      /\ UNCHANGED <<loadVars, aborted>> /\ NotMine
  BY DEF Draw, Ready, Busy, Holding
<1>2. n \in AllNodes /\ turn \in [AllNodes -> Nat] /\ dry \in [AllNodes -> BOOLEAN]
  BY <1>1, ItsOwn DEF Ready, MayMove, FiguresTyped, RunTyped
<1>3. turn[n] = 0 \/ stop[n]
  BY <1>1 DEF Ready, TurnOK, Holding
<1>4. CASE stop[n] /\ End(u, "gone") /\ UNCHANGED <<turn, dataVars>>
  <2>1. Moved(u) /\ user'[u].pc = "gone" /\ user'[u].pc \in Ended
    BY <1>1, <1>4, Ends DEF Ended
  <2>2. Turned(u) /\ Claimed(u)
    BY <1>1, <1>4, <2>1, SameTurn, NothingClaimed, PlainFlying DEF loadVars
  <2>3. QED
    BY <1>1, <2>1, <2>2 DEF Stepped, MayAbort, loadVars
<1>5. CASE dry' = [dry EXCEPT ![n] = TRUE] /\ End(u, "gone") /\ UNCHANGED turn
  <2>1. Moved(u) /\ user'[u].pc = "gone" /\ user'[u].pc \in Ended
    BY <1>1, <1>5, Ends DEF Ended
  <2>2. dry'[n]
    BY <1>2, <1>5
  <2>3. Turned(u) /\ Claimed(u)
    BY <1>1, <1>5, <2>1, <2>2, SameTurn, NothingClaimed, PlainFlying DEF loadVars
  <2>4. QED
    BY <1>1, <2>1, <2>3 DEF Stepped, MayAbort, loadVars
<1>6. CASE /\ ~stop[n]
           /\ user' = [user EXCEPT ![u] = [Newborn("step") EXCEPT !.step = 1]]
           /\ turn' = [turn EXCEPT ![n] = @ + 1]
           /\ UNCHANGED <<holder, active>>
  <2> DEFINE me == [Newborn("step") EXCEPT !.step = 1]
  <2>1. Flow(me) /\ me.pc = "step" /\ me.step = 1
    BY BeginningFlows DEF Places, Holding
  <2> HIDE DEF me
  <2>2. holder' = [holder EXCEPT ![n] = u]
    BY <1>1, <1>6, ItsOwn, SameAgain DEF MayMove, Holding
  <2>3. "step" \in Holding /\ "step" \in Busy
    BY DEF Holding, Busy
  <2>4. Moved(u) /\ user'[u] = me
    <3>1. user' = [user EXCEPT ![u] = me] /\ UNCHANGED active
      BY <1>6 DEF me
    <3>2. QED
      BY <1>1, <2>1, <2>2, <2>3, <3>1, Goes
  <2>5. turn'[n] = 1 /\ turn' = [turn EXCEPT ![n] = turn'[n]]
    <3>1. turn[n] = 0 /\ turn' = [turn EXCEPT ![n] = turn[n] + 1]
      BY <1>3, <1>6
    <3>2. turn[n] + 1 = 1 /\ DOMAIN turn = AllNodes
      BY <1>2, <3>1
    <3>3. QED
      BY <1>2, <3>1, <3>2, Updated
  <2>6. Turned(u)
    BY <1>1, <2>1, <2>4, <2>5 DEF Turned, TurnOK
  <2>7. Claimed(u)
    BY <1>1, <2>1, <2>4, NothingClaimed, PlainFlying DEF loadVars
  <2>8. QED
    BY <1>1, <2>4, <2>6, <2>7 DEF Stepped, MayAbort, loadVars
<1>7. QED
  BY <1>4, <1>5, <1>6 DEF Draw

\* Every step of a user is one of these.
UserStep(u) == Running(u) \/ Timers(u) \/ Answers(u)

LEMMA UserSteps ==
  ASSUME NEW u, Ready(u), UserStep(u)
  PROVE  Stepped(u)
BY DrawStep, PlainHeadStep, StepStep, RenderStep, BeginStep, CancelledStep, ThoughtStep, YieldedStep,
   AcquiredStep, AnsweredStep, WsAnsweredStep
   DEF UserStep, Running, Timers, Answers

-------------------------------------------------------------------------------
(* Data sets.                                                                 *)

\* The first data set that is spent, or none is.
LEMMA FirstDryIsFirst ==
  ASSUME RunTyped, NEW n
  PROVE  LET spent == {d \in Datasets : RowsAt(config.data[d], n, config.nodes, cursor[n][d]) = {0}}
         IN  IF FirstDry(n) = 0 THEN spent = {}
             ELSE FirstDry(n) \in spent /\ \A d \in spent : FirstDry(n) <= d
<1> DEFINE spent == {d \in Datasets : RowsAt(config.data[d], n, config.nodes, cursor[n][d]) = {0}}
<1>1. spent \subseteq Nat \ {0}
  <2>1. Datasets \subseteq Nat \ {0}
    BY ConfigFacts
  <2>2. QED
    BY <2>1
<1>2. FirstDry(n) = IF spent = {} THEN 0 ELSE CHOOSE d \in spent : \A e \in spent : d <= e
  BY DEF FirstDry
<1>3. CASE spent = {}
  BY <1>2, <1>3
<1>4. CASE spent # {}
  <2> HIDE DEF spent
  <2> DEFINE Less == {p \in Nat \X Nat : p[1] < p[2]}
  <2>0. IsWellFoundedOn(Less, Nat)
    BY NatLessThanWellFounded DEF OpToRel
  <2>1. PICK least \in spent : \A e \in spent : <<e, least>> \notin Less
    <3> HIDE DEF Less
    <3>1. \E least \in spent : \A e \in spent : ~(<<e, least>> \in Less)
      BY <1>1, <1>4, <2>0, WFMin
    <3>2. QED
      BY <3>1
  <2>2. \A e \in spent : least <= e
    <3> SUFFICES ASSUME NEW e \in spent PROVE least <= e
      OBVIOUS
    <3>1. e \in Nat /\ least \in Nat /\ <<e, least>> \notin Less
      BY <1>1, <2>1
    <3>2. ~(e < least)
      BY <3>1
    <3>3. QED
      BY <3>1, <3>2
  <2>3. (CHOOSE d \in spent : \A e \in spent : d <= e) \in spent
    BY <2>2
  <2>4. \A e \in spent : (CHOOSE d \in spent : \A c \in spent : d <= c) <= e
    BY <2>2
  <2>5. FirstDry(n) # 0
    BY <1>1, <1>2, <1>4, <2>3
  <2>6. FirstDry(n) \in spent /\ \A e \in spent : FirstDry(n) <= e
    BY <1>2, <1>4, <2>3, <2>4
  <2>7. QED
    BY <2>5, <2>6 DEF spent
<1>5. QED
  BY <1>3, <1>4

LEMMA AdvancedIsNatural ==
  ASSUME NEW set, set.rows \in Nat \ {0}, NEW c \in Nat
  PROVE  Advanced(set, c) \in Nat
BY DEF Advanced

\* What is drawn, and how much is wasted, in one step.
LEMMA WastedIsFinite ==
  ASSUME RunTyped, NEW k
  PROVE  /\ IsFiniteSet({d \in Datasets : d < k /\ Consumes(config.data[d])})
         /\ Cardinality({d \in Datasets : d < k /\ Consumes(config.data[d])}) \in Nat
<1>1. IsFiniteSet(Datasets)
  <2>1. Len(config.data) \in Int /\ 1 \in Int /\ Datasets = 1..Len(config.data)
    BY ConfigFacts
  <2>2. QED
    BY <2>1, FS_Interval
<1>2. QED
  BY <1>1, FS_Subset, FS_CardinalityType

-------------------------------------------------------------------------------
(* The runner, a signal and the caller.                                       *)

\* They leave the loop, the figures and the data alone, and give birth at most.
Aside ==
  /\ UNCHANGED <<config, holder, turn, active, remaining, requests, unsent, dataVars, aborted>>
  /\ \/ user' = user
     \/ \E u \in User : user[u].pc = "unborn" /\ user' = [user EXCEPT ![u].pc = "created"]
  /\ asked' \in SUBSET User /\ over' \in BOOLEAN
  /\ stop' \in [AllNodes -> BOOLEAN] /\ interrupted' \in [AllNodes -> BOOLEAN]
  /\ runner' \in [AllNodes -> RunnerStates]
  /\ \A n \in AllNodes : stop[n] => stop'[n]

LEMMA RunnerIsAside ==
  ASSUME TypeOK, NEW n \in AllNodes, RunnerStep(n) \/ Interrupt(n)
  PROVE  Aside
<1> DEFINE Typed == /\ asked \in SUBSET User /\ over \in BOOLEAN
                    /\ stop \in [AllNodes -> BOOLEAN] /\ interrupted \in [AllNodes -> BOOLEAN]
                    /\ runner \in [AllNodes -> RunnerStates]
<1>1. Typed
  BY DEF TypeOK, RunTyped
<1>2. Mine(n) \subseteq User /\ Living(n) \subseteq User
  BY ConfigFacts DEF TypeOK, Mine, Living
<1>3. CASE Launch(n)
  <2>1. /\ UNCHANGED <<config, holder, turn, active, loadVars, dataVars, aborted>>
        /\ UNCHANGED <<asked, stop, interrupted>>
    BY <1>3 DEF Launch, RunnerKeeps
  <2>2. \/ user' = user
        \/ \E u \in User : user[u].pc = "unborn" /\ user' = [user EXCEPT ![u].pc = "created"]
    BY <1>2, <1>3 DEF Launch
  <2>3. runner' \in {[runner EXCEPT ![n] = "waiting"], [runner EXCEPT ![n] = "asleep"]}
    BY <1>3 DEF Launch
  <2>4. runner' \in [AllNodes -> RunnerStates]
    BY <1>1, <2>3 DEF RunnerStates
  <2>5. QED
    BY <1>1, <2>1, <2>2, <2>4 DEF Aside, loadVars
<1>4. CASE RampWakes(n) \/ Finalize(n) \/ Reaped(n)
  <2>1. /\ UNCHANGED <<config, holder, turn, active, loadVars, dataVars, aborted>>
        /\ UNCHANGED <<user, asked, interrupted>>
    BY <1>4 DEF RampWakes, Finalize, Reaped, RunnerKeeps
  <2>2. runner' \in [AllNodes -> RunnerStates]
    BY <1>1, <1>4 DEF RampWakes, Finalize, Reaped, RunnerStates
  <2>3. stop' \in {stop, [stop EXCEPT ![n] = TRUE]}
    BY <1>4 DEF RampWakes, Finalize, Reaped
  <2>4. stop' \in [AllNodes -> BOOLEAN] /\ \A m \in AllNodes : stop[m] => stop'[m]
    BY <1>1, <2>3
  <2>5. QED
    BY <1>1, <2>1, <2>2, <2>4 DEF Aside, loadVars
<1>5. CASE AwaitWorkers(n)
  <2>1. /\ UNCHANGED <<config, holder, turn, active, loadVars, dataVars, aborted>>
        /\ UNCHANGED <<user, stop, interrupted>>
    BY <1>5 DEF AwaitWorkers, RunnerKeeps
  <2>2. runner' \in {[runner EXCEPT ![n] = "cancelling"], [runner EXCEPT ![n] = "grace"]}
        /\ asked' \in {asked, asked \cup Living(n)}
    BY <1>5 DEF AwaitWorkers
  <2>3. runner' \in [AllNodes -> RunnerStates] /\ asked' \in SUBSET User
    BY <1>1, <1>2, <2>2 DEF RunnerStates
  <2>4. QED
    BY <1>1, <2>1, <2>3 DEF Aside, loadVars
<1>6. CASE Signal(n) \/ CancelRun(n)
  <2>1. /\ UNCHANGED <<config, holder, turn, active, loadVars, dataVars, aborted, user>>
        /\ stop' = [stop EXCEPT ![n] = TRUE] /\ interrupted' = [interrupted EXCEPT ![n] = TRUE]
    BY <1>6 DEF Signal, CancelRun, Stopped, RunnerKeeps
  <2>2. runner' \in {runner, [runner EXCEPT ![n] = "reaping"], [runner EXCEPT ![n] = "raised"]}
        /\ asked' \in {asked, asked \cup Living(n)}
    BY <1>6 DEF Signal, CancelRun
  <2>3. runner' \in [AllNodes -> RunnerStates] /\ asked' \in SUBSET User
    BY <1>1, <1>2, <2>2 DEF RunnerStates
  <2>4. /\ stop' \in [AllNodes -> BOOLEAN] /\ interrupted' \in [AllNodes -> BOOLEAN]
        /\ \A m \in AllNodes : stop[m] => stop'[m]
    BY <1>1, <2>1
  <2>5. QED
    BY <1>1, <2>1, <2>3, <2>4 DEF Aside, loadVars
<1>7. QED
  BY <1>3, <1>4, <1>5, <1>6 DEF RunnerStep, Interrupt

LEMMA DurationIsAside ==
  ASSUME TypeOK, DurationElapses
  PROVE  Aside
BY DEF TypeOK, RunTyped, DurationElapses, Aside, nodeVars

\* A step of the run is that of a user, or one aside.
LEMMA StepsOfTheRun ==
  ASSUME TypeOK, Next
  PROVE  \/ \E u \in config.users : UserStep(u)
         \/ \E n \in AllNodes : RunnerStep(n) \/ Interrupt(n)
         \/ DurationElapses
BY DEF Next, UserStep

-------------------------------------------------------------------------------
(* Who has the loop, what is charged and what a turn holds.                   *)

\* A user that holds the loop of its node is the holder, and the only one.
HolderInv ==
  \A u \in User : user[u].pc \in Holding <=> holder[NodeOf[u]] = u

FlowInv == \A u \in User : Flow(user[u])

TurnInv ==
  /\ OneIterationPerTurn
  /\ \A u \in User : user[u].pc \in Holding => TurnOK(user[u], turn[NodeOf[u]], stop[NodeOf[u]])

\* Nobody holds the loop of another node.
HolderIsMine == \A n \in AllNodes : holder[n] # None => NodeOf[holder[n]] = n

LoopInv == TypeOK /\ HolderInv /\ HolderIsMine /\ FlowInv /\ TurnInv

LEMMA StepsAreReady ==
  ASSUME LoopInv, NEW u \in config.users, UserStep(u)
  PROVE  Ready(u)
<1>1. u \in User /\ NodeOf[u] \in AllNodes
  BY ConfigFacts, ItsOwn DEF LoopInv, TypeOK
<1>2. user[u].pc \in Holding \/ holder[NodeOf[u]] = None
  <2>1. CASE Running(u)
    BY <2>1 DEF Running, Draw, PlainHead, Step, Render, Holding
  <2>2. CASE Timers(u) \/ Answers(u)
    BY <2>2 DEF Timers, Answers, Begin, Cancelled, Thought, Yielded, Paced, Acquired, Answered, WsAnswered,
                Resumed, TakesTurns
  <2>3. QED
    BY <2>1, <2>2 DEF UserStep
<1>3. user[u].pc \notin Holding => holder[NodeOf[u]] = None
  BY <1>2
<1>4. QED
  BY <1>1, <1>3 DEF LoopInv, TypeOK, Ready, MayMove, HolderInv, FlowInv, TurnInv, OneIterationPerTurn

LEMMA UserStepTyped ==
  ASSUME TypeOK, NEW u, Ready(u), Stepped(u)
  PROVE  TypeOK'
<1>1. u \in User /\ NodeOf[u] \in AllNodes
  BY ItsOwn DEF Ready, MayMove
<1>2. ActorsTyped'
  <2>1. user' \in [User -> UserState]
    BY <1>1 DEF TypeOK, ActorsTyped, Stepped, Moved, Flow
  <2>2. holder' \in [AllNodes -> User \cup {None}]
    BY <1>1 DEF TypeOK, ActorsTyped, Stepped, Moved
  <2>3. active' \in [AllNodes -> Int]
    BY <1>1 DEF TypeOK, ActorsTyped, Stepped, Moved, Weight
  <2>4. QED
    BY <2>1, <2>2, <2>3 DEF ActorsTyped
<1>3. Datasets' = Datasets /\ UNCHANGED <<config, asked, nodeVars, interrupted, over>>
  BY DEF Stepped, NotMine, Datasets
<1>4. aborted' \in [AllNodes -> BOOLEAN]
  BY <1>1 DEF Stepped, MayAbort, TypeOK, RunTyped
<1>5. /\ turn' \in [AllNodes -> Nat] /\ remaining' \in [AllNodes -> Nat]
      /\ requests' \in [AllNodes -> Nat] /\ unsent' \in [AllNodes -> Nat]
  BY <1>1 DEF Stepped, Turned, Claimed, TypeOK, FiguresTyped
<1>6. /\ dry' \in [AllNodes -> BOOLEAN] /\ cursor' \in [AllNodes -> [Datasets -> Nat]]
      /\ lost' \in [AllNodes -> Nat] /\ DOMAIN handed' = Datasets
  <2>1. CASE UNCHANGED dataVars
    BY <2>1 DEF dataVars, TypeOK, RunTyped, FiguresTyped
  <2>2. CASE Draw(u)
    <3> DEFINE n == NodeOf[u]
               wasted == Cardinality({d \in Datasets : d < FirstDry(n) /\ Consumes(config.data[d])})
    <3>1. /\ dry \in [AllNodes -> BOOLEAN] /\ cursor \in [AllNodes -> [Datasets -> Nat]]
          /\ lost \in [AllNodes -> Nat]
      BY DEF TypeOK, RunTyped, FiguresTyped
    <3>2. CASE UNCHANGED dataVars
      BY <2>1, <3>2
    <3>3. CASE \E k \in {FirstDry(n), Len(config.data) + 1} :
                 /\ DrawRows(n, k)
                 /\ dry' \in {dry, [dry EXCEPT ![n] = TRUE]}
                 /\ lost' \in {lost, [lost EXCEPT ![n] = @ + wasted]}
      <4>1. PICK k : DrawRows(n, k)
        BY <3>3
      <4>2. DOMAIN handed' = Datasets
        BY <4>1 DEF DrawRows
      <4>3. cursor' \in [AllNodes -> [Datasets -> Nat]]
        <5>1. \A d \in Datasets : Advanced(config.data[d], cursor[n][d]) \in Nat
          <6> TAKE d \in Datasets
          <6>1. config.data[d].rows \in Nat \ {0}
            BY ConfigFacts DEF TypeOK
          <6>2. cursor[n][d] \in Nat
            BY <1>1, <3>1
          <6>3. QED
            BY <6>1, <6>2, AdvancedIsNatural
        <5> DEFINE row == [d \in Datasets |->
                             IF d \in {e \in Datasets : e < k} THEN Advanced(config.data[d], cursor[n][d])
                             ELSE cursor[n][d]]
        <5>2. row \in [Datasets -> Nat]
          BY <1>1, <3>1, <5>1
        <5>3. cursor' = [cursor EXCEPT ![n] = row]
          BY <4>1 DEF DrawRows
        <5> HIDE DEF row
        <5>4. QED
          BY <1>1, <3>1, <5>2, <5>3
      <4>4. wasted \in Nat
        BY WastedIsFinite DEF TypeOK
      <4>5. dry' \in [AllNodes -> BOOLEAN]
        BY <1>1, <3>1, <3>3
      <4>6. lost' \in [AllNodes -> Nat]
        <5> HIDE DEF wasted
        <5>1. lost' \in {lost, [lost EXCEPT ![n] = lost[n] + wasted]}
          BY <3>3
        <5>2. lost[n] + wasted \in Nat
          BY <1>1, <3>1, <4>4
        <5>3. QED
          BY <1>1, <3>1, <5>1, <5>2
      <4>7. QED
        BY <4>2, <4>3, <4>5, <4>6
    <3>4. QED
      BY <2>2, <3>2, <3>3 DEF Draw, dataVars
  <2>3. QED
    BY <2>1, <2>2 DEF Stepped
<1>7. RunTyped'
  BY <1>3, <1>4, <1>6 DEF TypeOK, RunTyped, nodeVars
<1>8. FiguresTyped'
  BY <1>3, <1>5, <1>6 DEF FiguresTyped
<1>9. QED
  BY <1>2, <1>7, <1>8 DEF TypeOK

LEMMA UserKeepsLoop ==
  ASSUME LoopInv, NEW u, Ready(u), Stepped(u)
  PROVE  LoopInv'
<1> DEFINE n == NodeOf[u]
<1>1. /\ u \in User /\ n \in AllNodes /\ NodeOf \in [User -> AllNodes]
      /\ user \in [User -> UserState] /\ holder \in [AllNodes -> User \cup {None}]
      /\ turn \in [AllNodes -> Nat]
  BY ItsOwn, ScenarioAssumption DEF Ready, MayMove, ActorsTyped, FiguresTyped, AllNodes
<1>2. TypeOK'
  BY UserStepTyped DEF LoopInv
<1>3. /\ user' = [user EXCEPT ![u] = user'[u]] /\ Flow(user'[u])
      /\ user'[u].pc \in Busy \cup Ended
      /\ holder' = [holder EXCEPT ![n] = IF user'[u].pc \in Holding THEN u ELSE None]
  BY DEF Stepped, Moved
<1>4. \A v \in User \ {u} : user'[v] = user[v]
  BY <1>1, <1>3
<1>5. \A m \in AllNodes \ {n} : holder'[m] = holder[m]
  BY <1>1, <1>3
<1>6. holder'[n] = IF user'[u].pc \in Holding THEN u ELSE None
  BY <1>1, <1>3
<1>7. u # None /\ \A v \in User : v # None
  BY <1>1, ScenarioAssumption
<1>8. holder[n] \in {u, None}
  BY DEF Ready, MayMove
<1>9. HolderInv'
  <2> SUFFICES ASSUME NEW v \in User
               PROVE  user'[v].pc \in Holding <=> holder'[NodeOf[v]] = v
    BY DEF HolderInv
  <2>1. CASE v = u
    BY <1>6, <1>7, <2>1
  <2>2. CASE v # u /\ NodeOf[v] = n
    <3>1. user[v].pc \notin Holding
      BY <1>7, <1>8, <2>2 DEF LoopInv, HolderInv
    <3>2. QED
      BY <1>4, <1>6, <1>7, <2>2, <3>1
  <2>3. CASE v # u /\ NodeOf[v] # n
    BY <1>1, <1>4, <1>5, <2>3 DEF LoopInv, HolderInv
  <2>4. QED
    BY <2>1, <2>2, <2>3
<1>10. HolderIsMine'
  BY <1>5, <1>6 DEF LoopInv, HolderIsMine
<1>11. FlowInv'
  BY <1>3, <1>4 DEF LoopInv, FlowInv
<1>12. TurnInv'
  <2>1. /\ turn' = [turn EXCEPT ![n] = turn'[n]] /\ turn'[n] \in Nat
        /\ TurnOK(user'[u], turn'[n], stop[n])
        /\ UNCHANGED <<stop, config>>
    BY DEF Stepped, Turned, NotMine, nodeVars
  <2>2. OneIterationPerTurn'
    BY <1>1, <2>1 DEF LoopInv, TurnInv, OneIterationPerTurn, TurnOK
  <2>3. ASSUME NEW v \in User, user'[v].pc \in Holding
        PROVE  TurnOK(user[v], turn[NodeOf[v]], stop[NodeOf[v]])'
    <3>1. CASE v = u
      BY <2>1, <3>1 DEF TurnOK, Scripted
    <3>2. CASE v # u
      <4>1. user'[v] = user[v] /\ user[v].pc \in Holding
        BY <1>4, <2>3, <3>2
      <4>2. NodeOf[v] # n
        BY <1>7, <1>8, <3>2, <4>1 DEF LoopInv, HolderInv
      <4>3. turn'[NodeOf[v]] = turn[NodeOf[v]]
        BY <1>1, <2>1, <4>2
      <4>4. TurnOK(user[v], turn[NodeOf[v]], stop[NodeOf[v]])
        BY <4>1 DEF LoopInv, TurnInv
      <4>5. QED
        BY <2>1, <4>1, <4>3, <4>4 DEF TurnOK, Scripted
    <3>3. QED
      BY <3>1, <3>2
  <2>4. QED
    BY <2>2, <2>3 DEF TurnInv
<1>13. QED
  BY <1>2, <1>9, <1>10, <1>11, <1>12 DEF LoopInv

LEMMA BirthIsHarmless ==
  ASSUME FlowInv, user \in [User -> UserState], Aside
  PROVE  /\ user' \in [User -> UserState]
         /\ FlowInv'
         /\ \A v \in User : user'[v] = user[v] \/ (user[v].pc = "unborn" /\ user'[v].pc = "created")
<1>1. CASE user' = user
  BY <1>1 DEF FlowInv
<1>2. CASE \E u \in User : user[u].pc = "unborn" /\ user' = [user EXCEPT ![u].pc = "created"]
  <2>1. PICK u \in User : user[u].pc = "unborn" /\ user' = [user EXCEPT ![u].pc = "created"]
    BY <1>2
  <2> DEFINE me == [user[u] EXCEPT !.pc = "created"]
  <2>2. Flow(me) /\ me.pc = "created" /\ user' = [user EXCEPT ![u] = me]
    BY <2>1, PlaceFlows DEF FlowInv, Places
  <2> HIDE DEF me
  <2>3. user'[u] = me /\ \A v \in User \ {u} : user'[v] = user[v]
    BY <2>2
  <2>4. me \in UserState
    BY <2>2 DEF Flow
  <2>5. QED
    BY <2>1, <2>2, <2>3, <2>4 DEF FlowInv
<1>3. QED
  BY <1>1, <1>2 DEF Aside

LEMMA AsideKeepsLoop ==
  ASSUME LoopInv, Aside
  PROVE  LoopInv'
<1>1. /\ user' \in [User -> UserState] /\ FlowInv'
      /\ \A v \in User : user'[v] = user[v] \/ (user[v].pc = "unborn" /\ user'[v].pc = "created")
  BY BirthIsHarmless DEF LoopInv, TypeOK, ActorsTyped
<1>2. UNCHANGED <<config, holder, turn, active>> /\ \A n \in AllNodes : stop[n] => stop'[n]
  BY DEF Aside
<1>3. TypeOK'
  BY <1>1 DEF LoopInv, TypeOK, ActorsTyped, RunTyped, FiguresTyped, Aside, dataVars, Datasets
<1>4. \A v \in User : user'[v].pc \in Holding <=> user[v].pc \in Holding
  BY <1>1 DEF Holding
<1>5. \A v \in User : user'[v].pc \in Holding => user'[v] = user[v]
  BY <1>1 DEF Holding
<1>6. HolderInv' /\ HolderIsMine'
  BY <1>2, <1>4 DEF LoopInv, HolderInv, HolderIsMine
<1>7. TurnInv'
  <2>1. OneIterationPerTurn'
    BY <1>2 DEF LoopInv, TurnInv, OneIterationPerTurn
  <2>2. ASSUME NEW v \in User, user'[v].pc \in Holding
        PROVE  TurnOK(user[v], turn[NodeOf[v]], stop[NodeOf[v]])'
    <3>1. TurnOK(user[v], turn[NodeOf[v]], stop[NodeOf[v]]) /\ user'[v] = user[v]
      BY <1>4, <1>5, <2>2 DEF LoopInv, TurnInv
    <3>2. NodeOf[v] \in AllNodes
      BY ScenarioAssumption DEF AllNodes
    <3>3. QED
      BY <1>2, <3>1, <3>2 DEF TurnOK, Scripted
  <2>3. QED
    BY <2>1, <2>2 DEF TurnInv
<1>8. QED
  BY <1>1, <1>3, <1>6, <1>7 DEF LoopInv

LEMMA LoopInit ==
  ASSUME Init
  PROVE  LoopInv
<1>1. /\ config \in Configs /\ ConfigKind(config)
      /\ user = [u \in User |-> Newborn(IF u \in config.users /\ ~config.ramp THEN "created" ELSE "unborn")]
  BY ScenarioAssumption DEF Init
<1>2. \A u \in User : Flow(user[u]) /\ user[u].pc \in {"created", "unborn"}
  <2>1. \A pc \in {"created", "unborn"} : Flow(Newborn(pc)) /\ Newborn(pc).pc = pc
    BY NewbornFlows DEF Places
  <2>2. QED
    BY <1>1, <2>1
<1>3. ActorsTyped
  <2>1. user \in [User -> UserState]
    BY <1>1, <1>2 DEF Flow
  <2>2. QED
    BY <2>1 DEF Init, ActorsTyped
<1>4. RunTyped
  BY <1>1 DEF Init, RunTyped, RunnerStates
<1>5. FiguresTyped
  <2>1. \A n \in AllNodes : n < config.nodes => ShareOf(config.requests, n, config.nodes) \in Nat
    <3>1. config.requests \in Nat /\ config.nodes \in Nat \ {0} /\ AllNodes \subseteq Int
      BY <1>4, ConfigFacts, ScenarioAssumption DEF AllNodes
    <3>2. \A n \in AllNodes : ShareOf(config.requests, n, config.nodes) \in Nat
      BY <3>1 DEF ShareOf
    <3>3. QED
      BY <3>2
  <2>2. remaining \in [AllNodes -> Nat]
    BY <2>1 DEF Init
  <2>3. /\ turn \in [AllNodes -> Nat] /\ requests \in [AllNodes -> Nat] /\ unsent \in [AllNodes -> Nat]
        /\ lost \in [AllNodes -> Nat] /\ cursor \in [AllNodes -> [Datasets -> Nat]] /\ DOMAIN handed = Datasets
    BY DEF Init
  <2>4. QED
    BY <2>2, <2>3 DEF FiguresTyped
<1>6. \A n \in AllNodes : holder[n] = None /\ turn[n] = 0
  BY DEF Init
<1>7. \A u \in User : NodeOf[u] \in AllNodes /\ u # None /\ user[u].pc \notin Holding
  BY <1>2, ScenarioAssumption DEF AllNodes, Holding
<1>8. QED
  BY <1>2, <1>3, <1>4, <1>5, <1>6, <1>7
     DEF LoopInv, TypeOK, HolderInv, HolderIsMine, FlowInv, TurnInv, OneIterationPerTurn

LEMMA LoopStep ==
  ASSUME LoopInv, [Next]_vars
  PROVE  LoopInv'
<1>1. CASE Next
  <2>1. CASE \E u \in config.users : UserStep(u)
    BY <2>1, StepsAreReady, UserSteps, UserKeepsLoop
  <2>2. CASE \E n \in AllNodes : RunnerStep(n) \/ Interrupt(n)
    BY <2>2, RunnerIsAside, AsideKeepsLoop DEF LoopInv
  <2>3. CASE DurationElapses
    BY <2>3, DurationIsAside, AsideKeepsLoop DEF LoopInv
  <2>4. QED
    BY <1>1, <2>1, <2>2, <2>3, StepsOfTheRun DEF LoopInv
<1>2. CASE UNCHANGED vars
  BY <1>2 DEF vars, nodeVars, loadVars, dataVars, LoopInv, TypeOK, ActorsTyped, RunTyped, FiguresTyped, Datasets,
             HolderInv, HolderIsMine, FlowInv, TurnInv, OneIterationPerTurn, TurnOK, Scripted
<1>3. QED
  BY <1>1, <1>2

LEMMA LoopIsKept == Spec => []LoopInv
<1>1. Init => LoopInv
  BY LoopInit
<1>2. LoopInv /\ [Next]_vars => LoopInv'
  BY LoopStep
<1>3. QED
  BY <1>1, <1>2, PTL DEF Spec

\* The state of every user and figure has its type, however long a run takes.
THEOREM TypeCorrect == Spec => []TypeOK
<1>1. LoopInv => TypeOK
  BY DEF LoopInv
<1>2. QED
  BY <1>1, LoopIsKept, PTL

\* Whatever breaks in an iteration, in whatever order its steps fail, the total of
\* errors grows by its failed requests, its broken sockets, and by one more exactly
\* if something else failed before any request did.
THEOREM ErrorsAreChargedExactly == Spec => []ChargesAddUp
<1>1. LoopInv => ChargesAddUp
  <2> SUFFICES ASSUME LoopInv, NEW u \in User PROVE AddsUp(user[u])
    BY DEF ChargesAddUp, AddsUp
  <2>1. QED
    BY DEF LoopInv, FlowInv, Flow
<1>2. QED
  BY <1>1, LoopIsKept, PTL

\* Whatever the scenario, its data and the target, no user begins two iterations
\* without letting the others of its node run in between.
THEOREM TurnsAreShort == Spec => []OneIterationPerTurn
<1>1. LoopInv => OneIterationPerTurn
  BY DEF LoopInv, TurnInv
<1>2. QED
  BY <1>1, LoopIsKept, PTL

-------------------------------------------------------------------------------
(* Counting users.                                                            *)

In(M, places) == {u \in M : user[u].pc \in places}
After(M, places) == {u \in M : user'[u].pc \in places}

LEMMA Countable ==
  ASSUME NEW M \in SUBSET User, NEW places
  PROVE  IsFiniteSet(In(M, places)) /\ Cardinality(In(M, places)) \in Nat
BY ScenarioAssumption, FS_Subset, FS_CardinalityType DEF In

\* When one user moves, the users in a set of places are one more, one less, or as many.
LEMMA CountMoves ==
  ASSUME NEW u \in User, user \in [User -> UserState], user' = [user EXCEPT ![u] = user'[u]],
         NEW M \in SUBSET User, NEW places
  PROVE  /\ IsFiniteSet(After(M, places)) /\ Cardinality(After(M, places)) \in Nat
         /\ u \in M => Cardinality(After(M, places)) =
              Cardinality(In(M, places)) + (IF user'[u].pc \in places THEN 1 ELSE 0)
                                         - (IF user[u].pc \in places THEN 1 ELSE 0)
         /\ u \notin M => After(M, places) = In(M, places)
<1> DEFINE before == In(M, places)
           after  == After(M, places)
           rest   == before \ {u}
<1>2. \A v \in User \ {u} : user'[v] = user[v]
  OBVIOUS
<1>3. IsFiniteSet(before) /\ Cardinality(before) \in Nat
  BY Countable
<1>4. IsFiniteSet(after) /\ Cardinality(after) \in Nat
  <2>1. after \in SUBSET User /\ IsFiniteSet(User)
    BY ScenarioAssumption DEF After
  <2>2. QED
    BY <2>1, FS_Subset, FS_CardinalityType
<1>5. after \ {u} = rest
  BY <1>2 DEF In, After
<1>6. /\ IsFiniteSet(rest)
      /\ Cardinality(rest) = IF u \in before THEN Cardinality(before) - 1 ELSE Cardinality(before)
  BY <1>3, FS_RemoveElement
<1>7. Cardinality(after \ {u}) = IF u \in after THEN Cardinality(after) - 1 ELSE Cardinality(after)
  BY <1>4, FS_RemoveElement
<1>8. ASSUME u \in M
      PROVE  Cardinality(after) = Cardinality(before) + (IF user'[u].pc \in places THEN 1 ELSE 0)
                                                      - (IF user[u].pc \in places THEN 1 ELSE 0)
  <2>1. (u \in before <=> user[u].pc \in places) /\ (u \in after <=> user'[u].pc \in places)
    BY <1>8 DEF In, After
  <2> HIDE DEF before, after, rest
  <2>2. QED
    BY <1>3, <1>4, <1>5, <1>6, <1>7, <2>1
<1>9. u \notin M => after = before
  BY <1>2 DEF In, After
<1>10. QED
  BY <1>4, <1>8, <1>9

-------------------------------------------------------------------------------
(* Stopping, and who is left behind.                                          *)

Quiet(n) == runner[n] = "reported" \/ (config.simulation /\ runner[n] = "raised")

\* The end of a run finds nobody alive; a user is cancelled on a node that has been
\* stopped; and what stops a run is an interruption, or its end.
RunnerInv ==
  /\ \A n \in AllNodes : Quiet(n) => Living(n) = {}
  /\ \A n \in AllNodes : stop[n] => interrupted[n] \/ runner[n] = "reported"
  /\ \A u \in asked : stop[NodeOf[u]]
  /\ \A n \in AllNodes : runner[n] = "grace" => stop[n]
  /\ ~config.ramp => /\ \A n \in AllNodes : runner[n] \notin {"launching", "asleep"}
                     /\ \A u \in config.users : user[u].pc # "unborn"

ActiveInv == \A n \in AllNodes : active[n] = Cardinality(In(Mine(n), Busy))

LEMMA LivingIs ==
  ASSUME LoopInv, NEW n
  PROVE  Living(n) = In(Mine(n), Busy \cup {"created"})
<1>1. \A u \in User : user[u].pc \in Places
  BY DEF LoopInv, TypeOK, ActorsTyped, UserState
<1>2. Mine(n) \subseteq User
  BY ConfigFacts DEF LoopInv, TypeOK, Mine
<1>3. \A pc \in Places : pc \notin Ended \cup {"unborn"} <=> pc \in Busy \cup {"created"}
  BY DEF Places, Busy, Holding, Awaiting, Ended
<1>4. QED
  BY <1>1, <1>2, <1>3 DEF Living, In

LEMMA UserKeepsRunner ==
  ASSUME LoopInv, RunnerInv, NEW u, Ready(u), Stepped(u)
  PROVE  RunnerInv'
<1>1. UNCHANGED <<config, asked, stop, runner, interrupted>>
  BY DEF Stepped, NotMine, nodeVars
<1>2. u \in User /\ NodeOf[u] \in AllNodes /\ u \in Mine(NodeOf[u]) /\ user \in [User -> UserState]
  BY ItsOwn DEF Ready, MayMove, ActorsTyped, Mine
<1>3. u \in Living(NodeOf[u])
  BY <1>2, LivingIs DEF Stepped, In
<1>4. \A v \in User \ {u} : user'[v] = user[v]
  BY <1>2 DEF Stepped, Moved
<1>5. user'[u].pc # "unborn"
  BY DEF Stepped, Moved, Busy, Holding, Awaiting, Ended
<1>6. ASSUME NEW n \in AllNodes, Quiet(n)'
      PROVE  Living(n)' = {}
  <2>1. Quiet(n) /\ Living(n) = {}
    BY <1>1, <1>6 DEF Quiet, RunnerInv
  <2>2. n # NodeOf[u]
    BY <1>3, <2>1
  <2>3. Living(n)' = Living(n)
    BY <1>1, <1>2, <1>4, <2>2, ConfigFacts DEF Living, Mine, Ready
  <2>4. QED
    BY <2>1, <2>3
<1>7. ~config.ramp' => \A v \in config.users' : user'[v].pc # "unborn"
  BY <1>1, <1>4, <1>5, ConfigFacts DEF Ready, RunnerInv
<1>8. QED
  BY <1>1, <1>6, <1>7 DEF RunnerInv

LEMMA LaunchKeepsRunner ==
  ASSUME LoopInv, RunnerInv, NEW n \in AllNodes, Launch(n)
  PROVE  RunnerInv'
<1>1. /\ runner[n] = "launching" /\ UNCHANGED <<config, asked, stop, interrupted>>
      /\ runner \in [AllNodes -> RunnerStates]
      /\ config.ramp
  BY ConfigFacts DEF Launch, RunnerKeeps, LoopInv, TypeOK, RunTyped, RunnerInv
<1>2. /\ runner'[n] \in {"waiting", "asleep"}
      /\ \A m \in AllNodes \ {n} : runner'[m] = runner[m]
  BY <1>1 DEF Launch
<1>3. \A m \in AllNodes \ {n} : Living(m)' = Living(m)
  <2> SUFFICES ASSUME NEW m \in AllNodes \ {n}
               PROVE  Living(m)' = Living(m)
    OBVIOUS
  <2>1. \A v \in Mine(m) : user'[v] = user[v]
    <3>1. CASE user' = user
      BY <3>1
    <3>2. CASE \E u \in Mine(n) : user' = [user EXCEPT ![u].pc = "created"]
      BY <3>2 DEF Mine
    <3>3. QED
      BY <3>1, <3>2 DEF Launch
  <2>2. QED
    BY <1>1, <2>1 DEF Living, Mine
<1>4. \A m \in AllNodes : Quiet(m)' => Quiet(m) /\ m # n
  BY <1>1, <1>2 DEF Quiet
<1>5. QED
  BY <1>1, <1>2, <1>3, <1>4 DEF RunnerInv

LEMMA RunnerKeepsRunner ==
  ASSUME LoopInv, RunnerInv, NEW n \in AllNodes, RunnerStep(n) \/ Interrupt(n)
  PROVE  RunnerInv'
<1>1. /\ runner \in [AllNodes -> RunnerStates] /\ stop \in [AllNodes -> BOOLEAN]
      /\ interrupted \in [AllNodes -> BOOLEAN]
  BY DEF LoopInv, TypeOK, RunTyped
<1>2. \A u \in Living(n) : u \in User /\ NodeOf[u] = n
  BY ConfigFacts DEF LoopInv, TypeOK, Living, Mine
<1>3. CASE Launch(n)
  BY <1>3, LaunchKeepsRunner
<1>4. CASE RampWakes(n)
  <2>1. UNCHANGED <<config, user, asked, stop, interrupted>> /\ runner[n] = "asleep"
        /\ runner' = [runner EXCEPT ![n] = "launching"]
    BY <1>4 DEF RampWakes, RunnerKeeps
  <2>2. /\ runner'[n] = "launching" /\ \A m \in AllNodes \ {n} : runner'[m] = runner[m]
    BY <1>1, <2>1
  <2>3. \A m \in AllNodes : Living(m)' = Living(m) /\ (Quiet(m)' => Quiet(m))
    BY <2>1, <2>2 DEF Living, Mine, Quiet
  <2>4. QED
    BY <2>1, <2>2, <2>3 DEF RunnerInv
<1>5. CASE AwaitWorkers(n)
  <2>1. UNCHANGED <<config, user, stop, interrupted>>
    BY <1>5 DEF AwaitWorkers, RunnerKeeps
  <2>2. \A m \in AllNodes \ {n} : runner'[m] = runner[m]
    BY <1>1, <1>5 DEF AwaitWorkers
  <2>3. \/ runner'[n] = "cancelling" /\ asked' = asked
        \/ runner'[n] = "grace" /\ stop[n] /\ asked' = asked
        \/ runner'[n] = "cancelling" /\ runner[n] = "grace" /\ asked' = asked \cup Living(n)
    BY <1>1, <1>5 DEF AwaitWorkers
  <2>4. \A m \in AllNodes : Living(m)' = Living(m) /\ (Quiet(m)' => Quiet(m))
    BY <2>1, <2>2, <2>3 DEF Living, Mine, Quiet
  <2>5. \A u \in asked' : stop[NodeOf[u]]
    BY <1>2, <2>3 DEF RunnerInv
  <2>6. runner[n] # "reported"
    BY <1>5 DEF AwaitWorkers
  <2>7. QED
    BY <2>1, <2>2, <2>3, <2>4, <2>5, <2>6 DEF RunnerInv
<1>6. CASE Finalize(n) \/ Reaped(n)
  <2>1. /\ UNCHANGED <<config, user, asked, interrupted>> /\ Living(n) = {}
        /\ stop' \in {stop, [stop EXCEPT ![n] = TRUE]}
        /\ \/ runner' = [runner EXCEPT ![n] = "reported"]
           \/ runner' = [runner EXCEPT ![n] = "raised"] /\ stop' = stop
        /\ runner[n] # "reported"
    BY <1>6 DEF Finalize, Reaped, RunnerKeeps
  <2>2. /\ \A m \in AllNodes \ {n} : runner'[m] = runner[m] /\ stop'[m] = stop[m]
        /\ stop[n] => stop'[n]
        /\ runner'[n] \in {"reported", "raised"}
        /\ runner'[n] = "raised" => stop'[n] = stop[n]
    BY <1>1, <2>1
  <2>3. \A m \in AllNodes : Living(m)' = Living(m) /\ (Quiet(m)' => Quiet(m) \/ m = n)
    BY <2>1, <2>2 DEF Living, Mine, Quiet
  <2>4. \A u \in asked' : stop'[NodeOf[u]]
    <3>1. \A u \in asked : stop[NodeOf[u]] /\ NodeOf[u] \in AllNodes
      BY ScenarioAssumption DEF RunnerInv, LoopInv, TypeOK, RunTyped, AllNodes
    <3>2. QED
      BY <2>1, <2>2, <3>1
  <2>5. QED
    BY <2>1, <2>2, <2>3, <2>4 DEF RunnerInv
<1>7. CASE Signal(n) \/ CancelRun(n)
  <2>1. /\ UNCHANGED <<config, user>> /\ stop' = [stop EXCEPT ![n] = TRUE]
        /\ interrupted' = [interrupted EXCEPT ![n] = TRUE]
        /\ asked' \in {asked, asked \cup Living(n)}
        /\ \/ runner' = runner
           \/ runner' = [runner EXCEPT ![n] = "reaping"]
           \/ runner' = [runner EXCEPT ![n] = "raised"] /\ ~config.simulation
    BY <1>7 DEF Signal, CancelRun, Stopped, RunnerKeeps
  <2>2. /\ \A m \in AllNodes \ {n} : runner'[m] = runner[m] /\ stop'[m] = stop[m] /\ interrupted'[m] = interrupted[m]
        /\ stop'[n] /\ interrupted'[n]
        /\ runner'[n] # runner[n] => runner'[n] = "reaping" \/ (runner'[n] = "raised" /\ ~config.simulation)
    BY <1>1, <2>1
  <2>3. \A m \in AllNodes : Living(m)' = Living(m) /\ (Quiet(m)' => Quiet(m))
    BY <2>1, <2>2 DEF Living, Mine, Quiet
  <2>4. \A u \in asked' : stop'[NodeOf[u]]
    <3>1. \A u \in asked : stop[NodeOf[u]] /\ NodeOf[u] \in AllNodes
      BY ScenarioAssumption DEF RunnerInv, LoopInv, TypeOK, RunTyped, AllNodes
    <3>2. QED
      BY <1>2, <2>1, <2>2, <3>1
  <2>5. QED
    BY <2>1, <2>2, <2>3, <2>4 DEF RunnerInv
<1>8. QED
  BY <1>3, <1>4, <1>5, <1>6, <1>7 DEF RunnerStep, Interrupt

LEMMA UserKeepsActive ==
  ASSUME LoopInv, ActiveInv, NEW u, Ready(u), Stepped(u)
  PROVE  ActiveInv'
<1>1. /\ u \in User /\ NodeOf[u] \in AllNodes /\ user \in [User -> UserState]
      /\ active \in [AllNodes -> Int] /\ u \in Mine(NodeOf[u])
  BY ItsOwn DEF Ready, MayMove, ActorsTyped, Mine
<1>2. /\ user' = [user EXCEPT ![u] = user'[u]] /\ UNCHANGED config
      /\ active' = [active EXCEPT ![NodeOf[u]] = active[NodeOf[u]] + Weight(user'[u].pc) - Weight(user[u].pc)]
  BY DEF Stepped, Moved, NotMine
<1> SUFFICES ASSUME NEW n \in AllNodes
             PROVE  active'[n] = Cardinality(In(Mine(n), Busy))'
  BY DEF ActiveInv
<1>3. Mine(n) \in SUBSET User /\ Mine(n)' = Mine(n) /\ Busy' = Busy
  BY <1>2, ConfigFacts DEF Ready, Mine
<1> DEFINE M == Mine(n)
<1>4. In(Mine(n), Busy)' = After(M, Busy)
  BY <1>3 DEF In, After
<1>5. CASE n = NodeOf[u]
  <2>1. Cardinality(After(M, Busy)) =
          Cardinality(In(M, Busy)) + Weight(user'[u].pc) - Weight(user[u].pc)
    <3>1. u \in M
      BY <1>1, <1>5
    <3>2. M \in SUBSET User
      BY <1>3
    <3> HIDE DEF M
    <3>3. Cardinality(After(M, Busy)) =
            Cardinality(In(M, Busy)) + (IF user'[u].pc \in Busy THEN 1 ELSE 0)
                                     - (IF user[u].pc \in Busy THEN 1 ELSE 0)
      BY <1>1, <1>2, <3>1, <3>2, CountMoves
    <3>4. QED
      BY <3>3 DEF Weight
  <2>2. active'[n] = active[n] + Weight(user'[u].pc) - Weight(user[u].pc)
    BY <1>1, <1>2, <1>5
  <2>3. QED
    BY <1>4, <2>1, <2>2 DEF ActiveInv
<1>6. CASE n # NodeOf[u]
  <2>1. u \notin M
    BY <1>6 DEF Mine
  <2>2. After(M, Busy) = In(M, Busy)
    BY <1>1, <1>2, <1>3, <2>1, CountMoves
  <2>3. active'[n] = active[n]
    BY <1>1, <1>2, <1>6
  <2>4. QED
    BY <1>4, <2>2, <2>3 DEF ActiveInv
<1>7. QED
  BY <1>5, <1>6

\* A birth is no change to who is busy, who flies and who has ended.
LEMMA AsideCounts ==
  ASSUME LoopInv, Aside, NEW M \in SUBSET User, NEW places, "unborn" \notin places, "created" \notin places
  PROVE  After(M, places) = In(M, places)
<1>1. \A v \in User : user'[v] = user[v] \/ (user[v].pc = "unborn" /\ user'[v].pc = "created")
  BY BirthIsHarmless DEF LoopInv, TypeOK, ActorsTyped
<1>2. QED
  BY <1>1 DEF In, After

LEMMA AsideKeepsActive ==
  ASSUME LoopInv, ActiveInv, Aside
  PROVE  ActiveInv'
<1> SUFFICES ASSUME NEW n \in AllNodes
             PROVE  active'[n] = Cardinality(In(Mine(n), Busy))'
  BY DEF ActiveInv
<1>1. Mine(n) \in SUBSET User /\ Mine(n)' = Mine(n) /\ Busy' = Busy /\ active' = active
  BY ConfigFacts DEF Aside, LoopInv, TypeOK, Mine
<1>2. In(Mine(n), Busy)' = After(Mine(n), Busy)
  BY <1>1 DEF In, After
<1>3. After(Mine(n), Busy) = In(Mine(n), Busy)
  <2>1. "unborn" \notin Busy /\ "created" \notin Busy
    BY DEF Busy, Holding, Awaiting
  <2>2. QED
    BY <1>1, <2>1, AsideCounts
<1>4. QED
  BY <1>1, <1>2, <1>3 DEF ActiveInv

LEMMA DurationKeepsRunner ==
  ASSUME LoopInv, RunnerInv, DurationElapses
  PROVE  RunnerInv'
BY DEF DurationElapses, RunnerInv, nodeVars, Quiet, Living, Mine

StopInv == LoopInv /\ RunnerInv /\ ActiveInv

LEMMA StopInit ==
  ASSUME Init
  PROVE  StopInv
<1>1. LoopInv
  BY LoopInit
<1>2. /\ \A n \in AllNodes : runner[n] \in {"launching", "waiting"} /\ ~stop[n] /\ active[n] = 0
      /\ asked = {} /\ (~config.ramp => \A n \in AllNodes : runner[n] = "waiting")
  BY DEF Init
<1>3. \A u \in User : user[u].pc = IF u \in config.users /\ ~config.ramp THEN "created" ELSE "unborn"
  BY DEF Init, Newborn
<1>4. RunnerInv
  <2>1. \A n \in AllNodes : ~Quiet(n)
    BY <1>2 DEF Quiet
  <2>2. ~config.ramp => \A u \in config.users : user[u].pc # "unborn"
    BY <1>1, <1>3, ConfigFacts DEF LoopInv, TypeOK
  <2>3. QED
    BY <1>2, <2>1, <2>2 DEF RunnerInv
<1>5. ActiveInv
  <2> SUFFICES ASSUME NEW n \in AllNodes
               PROVE  active[n] = Cardinality(In(Mine(n), Busy))
    BY DEF ActiveInv
  <2>1. Mine(n) \subseteq User
    BY <1>1, ConfigFacts DEF LoopInv, TypeOK, Mine
  <2>2. In(Mine(n), Busy) = {}
    BY <1>3, <2>1 DEF In, Busy, Holding, Awaiting
  <2>3. QED
    BY <1>2, <2>2, FS_EmptySet
<1>6. QED
  BY <1>1, <1>4, <1>5 DEF StopInv

LEMMA StopStep ==
  ASSUME StopInv, [Next]_vars
  PROVE  StopInv'
<1>0. LoopInv /\ LoopInv'
  BY LoopStep DEF StopInv
<1>1. CASE Next
  <2>1. CASE \E u \in config.users : UserStep(u)
    BY <1>0, <2>1, StepsAreReady, UserSteps, UserKeepsRunner, UserKeepsActive DEF StopInv
  <2>2. CASE \E n \in AllNodes : RunnerStep(n) \/ Interrupt(n)
    BY <1>0, <2>2, RunnerIsAside, RunnerKeepsRunner, AsideKeepsActive DEF StopInv, LoopInv
  <2>3. CASE DurationElapses
    BY <1>0, <2>3, DurationIsAside, DurationKeepsRunner, AsideKeepsActive DEF StopInv, LoopInv
  <2>4. QED
    BY <1>0, <1>1, <2>1, <2>2, <2>3, StepsOfTheRun DEF LoopInv
<1>2. CASE UNCHANGED vars
  <2>1. UNCHANGED <<config, user, asked, active, stop, runner, interrupted>>
    BY <1>2 DEF vars, nodeVars
  <2>2. RunnerInv'
    BY <2>1 DEF StopInv, RunnerInv, Quiet, Living, Mine
  <2>3. ActiveInv'
    BY <2>1 DEF StopInv, ActiveInv, In, Mine, Busy
  <2>4. QED
    BY <1>0, <2>2, <2>3 DEF StopInv
<1>3. QED
  BY <1>1, <1>2

LEMMA StopIsKept == Spec => []StopInv
<1>1. Init => StopInv
  BY StopInit
<1>2. StopInv /\ [Next]_vars => StopInv'
  BY StopStep
<1>3. QED
  BY <1>1, <1>2, PTL DEF Spec

\* When a run has reported, or a cancelled simulation has raised, every user of the
\* node has ended and is counted as such, whenever the stop, the signal or the
\* cancellation came: in the ramp-up, between two steps or in the grace period.
THEOREM EverybodyEnds == Spec => []NobodyIsLeftBehind
<1>1. StopInv => NobodyIsLeftBehind
  <2> SUFFICES ASSUME StopInv, NEW n \in AllNodes, Quiet(n)
               PROVE  Living(n) = {} /\ active[n] = 0
    BY DEF NobodyIsLeftBehind, Quiet
  <2>1. Living(n) = {}
    BY DEF StopInv, RunnerInv
  <2>2. In(Mine(n), Busy) = {}
    BY <2>1, LivingIs DEF StopInv, In
  <2>3. QED
    BY <2>1, <2>2, FS_EmptySet DEF StopInv, ActiveInv
<1>2. QED
  BY <1>1, StopIsKept, PTL

-------------------------------------------------------------------------------
(* The budget of requests.                                                    *)

\* While nobody has crashed and nobody interrupts a node, its share of the budget is
\* what is left, made or tallied, and what is claimed by users that fly; an interrupted
\* node lacks at most what users that have ended gave up; and a user ends by itself
\* only when nothing is left, or the data has run out.
ClaimInv ==
  Counted => \A n \in 0..(config.nodes - 1) :
    /\ ~Crashed /\ ~interrupted[n] => Account(n) + Cardinality(In(Mine(n), Flying)) = Share(n)
    /\ Account(n) + Cardinality(In(Mine(n), Flying)) + Cardinality(In(Mine(n), Ended)) >= Share(n)
    /\ ~interrupted[n] => \A u \in Mine(n) : user[u].pc \in {"gone", "cancelled"} => remaining[n] = 0 \/ dry[n]

LEMMA AsideKeepsClaims ==
  ASSUME StopInv, ClaimInv, Aside, \A n \in AllNodes : interrupted[n] => interrupted'[n]
  PROVE  ClaimInv'
<1>1. /\ UNCHANGED <<config, remaining, requests, unsent, dry>>
      /\ 0..(config.nodes - 1) \subseteq AllNodes
  BY ConfigFacts DEF Aside, dataVars, StopInv, LoopInv, TypeOK
<1>2. \A v \in User : user'[v] = user[v] \/ (user[v].pc = "unborn" /\ user'[v].pc = "created")
  BY BirthIsHarmless DEF StopInv, LoopInv, TypeOK, ActorsTyped
<1>3. Crashed' <=> Crashed
  BY <1>2 DEF Crashed
<1> SUFFICES ASSUME Counted, NEW n \in 0..(config.nodes - 1)
             PROVE  (/\ ~Crashed /\ ~interrupted[n] => Account(n) + Cardinality(In(Mine(n), Flying)) = Share(n)
                     /\ Account(n) + Cardinality(In(Mine(n), Flying)) + Cardinality(In(Mine(n), Ended)) >= Share(n)
                     /\ ~interrupted[n] => \A u \in Mine(n) : user[u].pc \in {"gone", "cancelled"} =>
                          remaining[n] = 0 \/ dry[n])'
  BY <1>1 DEF ClaimInv, Counted
<1>4. Mine(n) \in SUBSET User /\ Mine(n)' = Mine(n)
  BY <1>1, ConfigFacts DEF StopInv, LoopInv, TypeOK, Mine
<1>5. In(Mine(n), Flying)' = In(Mine(n), Flying) /\ In(Mine(n), Ended)' = In(Mine(n), Ended)
  <2>1. In(Mine(n), Flying)' = After(Mine(n), Flying) /\ In(Mine(n), Ended)' = After(Mine(n), Ended)
    BY <1>4 DEF In, After, Flying, Ended
  <2>2. /\ "unborn" \notin Flying /\ "created" \notin Flying
        /\ "unborn" \notin Ended /\ "created" \notin Ended
    BY DEF Flying, Ended
  <2>3. After(Mine(n), Flying) = In(Mine(n), Flying) /\ After(Mine(n), Ended) = In(Mine(n), Ended)
    BY <1>4, <2>2, AsideCounts DEF StopInv
  <2>4. QED
    BY <2>1, <2>3
<1>6. Account(n)' = Account(n) /\ Share(n)' = Share(n)
  BY <1>1 DEF Account, Share
<1>7. \A u \in Mine(n) : user'[u].pc \in {"gone", "cancelled"} => user[u].pc \in {"gone", "cancelled"}
  BY <1>2, <1>4
<1>8. QED
  BY <1>1, <1>3, <1>4, <1>5, <1>6, <1>7 DEF ClaimInv

LEMMA UserKeepsClaims ==
  ASSUME StopInv, ClaimInv, NEW u, Ready(u), Stepped(u)
  PROVE  ClaimInv'
<1> DEFINE m == NodeOf[u]
           told == stop[m] \/ u \in asked
<1>1. /\ u \in User /\ m \in AllNodes /\ user \in [User -> UserState] /\ u \in Mine(m)
      /\ 0..(config.nodes - 1) \subseteq AllNodes
      /\ UNCHANGED <<config, asked, stop, runner, interrupted>>
      /\ user' = [user EXCEPT ![u] = user'[u]]
  BY ItsOwn, ConfigFacts DEF Ready, MayMove, ActorsTyped, Mine, Stepped, NotMine, nodeVars, Moved
<1>2. told => interrupted[m]
  <2>1. u \in Living(m)
    BY <1>1, LivingIs DEF StopInv, Stepped, In
  <2>2. QED
    BY <1>1, <2>1 DEF StopInv, RunnerInv, Quiet
<1>3. \A v \in User \ {u} : user'[v] = user[v]
  BY <1>1
<1>4. user[u].pc \notin Ended /\ user'[u].pc \in Places
  BY DEF Stepped, Moved, Flow, UserState, Busy, Holding, Awaiting, Ended
<1>5. ~Crashed' => ~Crashed /\ user'[u].pc # "crashed"
  BY <1>1, <1>3, <1>4 DEF Crashed, Ended
<1>6. dry[m] => dry'[m]
  <2>1. CASE UNCHANGED dataVars
    BY <2>1 DEF dataVars
  <2>2. CASE Draw(u)
    BY <1>1, <2>2 DEF Draw, dataVars, Ready, RunTyped
  <2>3. QED
    BY <2>1, <2>2 DEF Stepped
<1> SUFFICES ASSUME Counted, NEW n \in 0..(config.nodes - 1)
             PROVE  (/\ ~Crashed /\ ~interrupted[n] => Account(n) + Cardinality(In(Mine(n), Flying)) = Share(n)
                     /\ Account(n) + Cardinality(In(Mine(n), Flying)) + Cardinality(In(Mine(n), Ended)) >= Share(n)
                     /\ ~interrupted[n] => \A v \in Mine(n) : user[v].pc \in {"gone", "cancelled"} =>
                          remaining[n] = 0 \/ dry[n])'
  BY <1>1 DEF ClaimInv, Counted
<1>7. n \in AllNodes /\ Mine(n) \in SUBSET User /\ Mine(n)' = Mine(n) /\ Share(n)' = Share(n)
  BY <1>1, ConfigFacts DEF StopInv, LoopInv, TypeOK, Mine, Share
<1>8. In(Mine(n), Flying)' = After(Mine(n), Flying) /\ In(Mine(n), Ended)' = After(Mine(n), Ended)
  BY <1>7 DEF In, After, Flying, Ended
<1>9. /\ remaining \in [AllNodes -> Nat] /\ requests \in [AllNodes -> Nat]
      /\ unsent \in [AllNodes -> Nat] /\ dry \in [AllNodes -> BOOLEAN]
  BY DEF StopInv, LoopInv, TypeOK, RunTyped, FiguresTyped
<1>10. /\ ~Crashed /\ ~interrupted[n] => Account(n) + Cardinality(In(Mine(n), Flying)) = Share(n)
       /\ Account(n) + Cardinality(In(Mine(n), Flying)) + Cardinality(In(Mine(n), Ended)) >= Share(n)
       /\ ~interrupted[n] => \A v \in Mine(n) : user[v].pc \in {"gone", "cancelled"} => remaining[n] = 0 \/ dry[n]
  BY DEF ClaimInv
<1>11. CASE n # m
  <2>1. u \notin Mine(n)
    BY <1>11 DEF Mine
  <2>2. After(Mine(n), Flying) = In(Mine(n), Flying) /\ After(Mine(n), Ended) = In(Mine(n), Ended)
    BY <1>1, <1>7, <2>1, CountMoves
  <2>3. remaining'[n] = remaining[n] /\ requests'[n] = requests[n] /\ unsent'[n] = unsent[n]
    BY <1>1, <1>7, <1>9, <1>11 DEF Stepped, Claimed
  <2>4. dry[n] => dry'[n]
    <3>1. CASE UNCHANGED dataVars
      BY <3>1 DEF dataVars
    <3>2. CASE Draw(u)
      <4>1. dry' \in {dry, [dry EXCEPT ![m] = TRUE]}
        BY <3>2 DEF Draw, dataVars
      <4>2. QED
        BY <1>7, <1>9, <1>11, <4>1
    <3>3. QED
      BY <3>1, <3>2 DEF Stepped
  <2>5. Account(n)' = Account(n)
    BY <2>3 DEF Account
  <2>6. \A v \in Mine(n) : user'[v] = user[v]
    BY <1>3, <1>7, <2>1
  <2>7. QED
    BY <1>1, <1>5, <1>7, <1>8, <1>10, <2>2, <2>3, <2>4, <2>5, <2>6
<1>12. CASE n = m
  <2> DEFINE flying == Cardinality(In(Mine(n), Flying))
             flyingThen == Cardinality(After(Mine(n), Flying))
             ended == Cardinality(In(Mine(n), Ended))
             endedThen == Cardinality(After(Mine(n), Ended))
             account == Account(n)
             accountThen == Account(n)'
             share == Share(n)
  <2>1. u \in Mine(n)
    BY <1>1, <1>12
  <2>2. /\ flying \in Nat /\ ended \in Nat
        /\ flyingThen = flying + Flies(user'[u].pc) - Flies(user[u].pc)
        /\ endedThen = ended + (IF user'[u].pc \in Ended THEN 1 ELSE 0)
    <3>1. flying \in Nat /\ ended \in Nat
      BY <1>7, Countable
    <3>2. flyingThen = flying + (IF user'[u].pc \in Flying THEN 1 ELSE 0) - (IF user[u].pc \in Flying THEN 1 ELSE 0)
      BY <1>1, <1>7, <2>1, CountMoves
    <3>3. endedThen = ended + (IF user'[u].pc \in Ended THEN 1 ELSE 0) - (IF user[u].pc \in Ended THEN 1 ELSE 0)
      BY <1>1, <1>7, <2>1, CountMoves
    <3> HIDE DEF flying, flyingThen, ended, endedThen
    <3>4. endedThen = ended + (IF user'[u].pc \in Ended THEN 1 ELSE 0)
      BY <1>4, <3>1, <3>3
    <3>5. QED
      BY <3>1, <3>2, <3>4 DEF Flies
  <2>3. /\ account \in Nat /\ accountThen \in Nat
        /\ \/ accountThen + Flies(user'[u].pc) = account + Flies(user[u].pc)
           \/ /\ accountThen = account /\ Flies(user[u].pc) = 1 /\ user'[u].pc \in Ended
              /\ user'[u].pc = "crashed" \/ told
    <3>1. /\ remaining'[n] \in Nat /\ requests'[n] \in Nat /\ unsent'[n] \in Nat
      BY <1>12 DEF Stepped, Claimed
    <3>2. account \in Nat
      BY <1>7, <1>9 DEF Account
    <3>3. accountThen \in Nat
      BY <3>1 DEF Account
    <3>4. QED
      BY <1>12, <3>2, <3>3 DEF Stepped, Claimed
  <2>4. share \in Int
    BY <1>7, ConfigFacts DEF Share, ShareOf, StopInv, LoopInv, TypeOK
  <2>5. /\ Flies(user'[u].pc) \in {0, 1} /\ Flies(user[u].pc) \in {0, 1}
        /\ user'[u].pc \in Ended => Flies(user'[u].pc) = 0
    BY PlainFlying DEF Flies
  <2>6. /\ ~Crashed /\ ~interrupted[n] => account + flying = share
        /\ account + flying + ended >= share
    BY <1>10
  <2>7. ~interrupted[n] /\ ~Crashed' => accountThen + flyingThen = share
    <3> HIDE DEF flying, flyingThen, ended, endedThen, account, accountThen, share
    <3>1. SUFFICES ASSUME ~interrupted[n], ~Crashed'
                   PROVE  accountThen + flyingThen = share
      OBVIOUS
    <3>2. account + flying = share /\ accountThen + Flies(user'[u].pc) = account + Flies(user[u].pc)
      BY <1>2, <1>5, <1>12, <2>3, <2>6, <3>1
    <3> DEFINE now == Flies(user[u].pc)
               next == Flies(user'[u].pc)
    <3>3. /\ account + flying = share /\ accountThen + next = account + now /\ flyingThen = flying + next - now
          /\ account \in Nat /\ accountThen \in Nat /\ flying \in Nat /\ share \in Int
          /\ now \in {0, 1} /\ next \in {0, 1}
      BY <2>2, <2>3, <2>4, <2>5, <3>2
    <3> HIDE DEF now, next
    <3>4. QED
      BY <3>3
  <2>8. accountThen + flyingThen + endedThen >= share
    <3> HIDE DEF flying, flyingThen, ended, endedThen, account, accountThen, share
    <3>1. CASE accountThen + Flies(user'[u].pc) = account + Flies(user[u].pc)
      BY <2>2, <2>3, <2>4, <2>5, <2>6, <3>1
    <3>2. CASE accountThen = account /\ Flies(user[u].pc) = 1 /\ user'[u].pc \in Ended
      BY <2>2, <2>3, <2>4, <2>5, <2>6, <3>2
    <3>3. QED
      BY <2>3, <3>1, <3>2
  <2>9. ASSUME ~interrupted[n], NEW v \in Mine(n), user'[v].pc \in {"gone", "cancelled"}
        PROVE  remaining'[n] = 0 \/ dry'[n]
    <3>1. CASE v = u
      BY <1>2, <1>12, <2>9, <3>1 DEF Stepped, Claimed
    <3>2. CASE v # u
      <4>1. remaining[n] = 0 \/ dry[n]
        BY <1>3, <1>7, <1>10, <2>9, <3>2
      <4>2. remaining'[n] \in Nat /\ remaining'[n] <= remaining[n]
        BY <1>12 DEF Stepped, Claimed
      <4>3. remaining[n] \in Nat
        BY <1>7, <1>9
      <4>4. CASE remaining[n] = 0
        BY <4>2, <4>3, <4>4
      <4>5. CASE dry[n]
        BY <1>6, <1>12, <4>5
      <4>6. QED
        BY <4>1, <4>4, <4>5
    <3>3. QED
      BY <3>1, <3>2
  <2>10. QED
    BY <1>1, <1>7, <1>8, <2>7, <2>8, <2>9
<1>13. QED
  BY <1>11, <1>12

LEMMA InterruptionsLast ==
  ASSUME TypeOK, \/ \E n \in AllNodes : RunnerStep(n) \/ Interrupt(n)
                 \/ DurationElapses
  PROVE  \A n \in AllNodes : interrupted[n] => interrupted'[n]
<1>1. interrupted \in [AllNodes -> BOOLEAN]
  BY DEF TypeOK, RunTyped
<1>2. interrupted' = interrupted \/ \E n \in AllNodes : interrupted' = [interrupted EXCEPT ![n] = TRUE]
  BY DEF RunnerStep, Interrupt, Launch, RampWakes, AwaitWorkers, Finalize, Reaped, Signal, CancelRun, Stopped,
         DurationElapses
<1>3. QED
  BY <1>1, <1>2

BudgetInv == StopInv /\ ClaimInv

LEMMA BudgetInit ==
  ASSUME Init
  PROVE  BudgetInv
<1>1. StopInv /\ ConfigKind(config)
  BY StopInit, ConfigFacts DEF StopInv, LoopInv, TypeOK
<1> SUFFICES ASSUME Counted, NEW n \in 0..(config.nodes - 1)
             PROVE  /\ Account(n) + Cardinality(In(Mine(n), Flying)) = Share(n)
                    /\ Account(n) + Cardinality(In(Mine(n), Flying)) + Cardinality(In(Mine(n), Ended)) >= Share(n)
                    /\ \A u \in Mine(n) : user[u].pc \notin {"gone", "cancelled"}
  BY <1>1 DEF BudgetInv, ClaimInv
<1>2. n \in AllNodes /\ n < config.nodes /\ Mine(n) \subseteq User
  BY <1>1, ConfigFacts DEF StopInv, LoopInv, TypeOK, Mine
<1>3. remaining[n] = Share(n) /\ requests[n] = 0 /\ unsent[n] = 0
  BY <1>2 DEF Init, Share
<1>4. Share(n) \in Nat
  BY <1>1, <1>2, <1>3 DEF StopInv, LoopInv, TypeOK, FiguresTyped
<1>5. \A u \in User : user[u].pc \in {"created", "unborn"}
  BY DEF Init, Newborn
<1>6. In(Mine(n), Flying) = {} /\ In(Mine(n), Ended) = {}
  BY <1>2, <1>5 DEF In, Flying, Ended
<1>7. Account(n) = Share(n)
  BY <1>3, <1>4 DEF Account
<1>8. Cardinality(In(Mine(n), Flying)) = 0 /\ Cardinality(In(Mine(n), Ended)) = 0
  BY <1>6, FS_EmptySet
<1>9. QED
  BY <1>2, <1>4, <1>5, <1>7, <1>8

LEMMA BudgetStep ==
  ASSUME BudgetInv, [Next]_vars
  PROVE  BudgetInv'
<1>0. StopInv /\ StopInv' /\ LoopInv /\ TypeOK
  BY StopStep DEF BudgetInv, StopInv, LoopInv
<1>1. CASE Next
  <2>1. CASE \E u \in config.users : UserStep(u)
    BY <1>0, <2>1, StepsAreReady, UserSteps, UserKeepsClaims DEF BudgetInv
  <2>2. CASE (\E n \in AllNodes : RunnerStep(n) \/ Interrupt(n)) \/ DurationElapses
    BY <1>0, <2>2, RunnerIsAside, DurationIsAside, InterruptionsLast, AsideKeepsClaims DEF BudgetInv
  <2>3. QED
    BY <1>0, <1>1, <2>1, <2>2, StepsOfTheRun
<1>2. CASE UNCHANGED vars
  <2>1. UNCHANGED <<config, user, remaining, requests, unsent, dry, interrupted>>
    BY <1>2 DEF vars, nodeVars, loadVars, dataVars
  <2>2. ClaimInv'
    BY <2>1 DEF BudgetInv, ClaimInv, Counted, Crashed, Account, In, Mine, Share, Flying, Ended
  <2>3. QED
    BY <1>0, <2>2 DEF BudgetInv
<1>3. QED
  BY <1>1, <1>2

LEMMA BudgetIsKept == Spec => []BudgetInv
<1>1. Init => BudgetInv
  BY BudgetInit
<1>2. BudgetInv /\ [Next]_vars => BudgetInv'
  BY BudgetStep
<1>3. QED
  BY <1>1, <1>2, PTL DEF Spec

\* A run of -n makes its budget on every node, or says why not: its data ran out, or
\* its steps failed before they were a request; and whoever interrupts it costs it one
\* claimed request per user at most.
THEOREM BudgetIsAccountedFor == Spec => []ShortfallIsExplained
<1>1. BudgetInv => ShortfallIsExplained
  <2> SUFFICES ASSUME BudgetInv, NEW n \in 0..(config.nodes - 1), Counted, runner[n] = "reported", ~Crashed
               PROVE  LET made == requests[n] + unsent[n]
                      IN  IF interrupted[n] THEN made + remaining[n] + Cardinality(Mine(n)) >= Share(n)
                                            ELSE made = Share(n) \/ dry[n]
    BY DEF ShortfallIsExplained
  <2>1. /\ StopInv /\ LoopInv /\ n \in AllNodes /\ Mine(n) \in SUBSET User
        /\ ~config.ramp
        /\ \E u \in config.users : NodeOf[u] = n
    BY ConfigFacts DEF BudgetInv, StopInv, LoopInv, TypeOK, Mine
  <2>2. Living(n) = {}
    BY <2>1 DEF StopInv, RunnerInv, Quiet
  <2>3. In(Mine(n), Flying) = {}
    <3>1. In(Mine(n), Flying) \subseteq Living(n)
      BY <2>1, LivingIs DEF In, Flying, Busy, Awaiting, Holding
    <3>2. QED
      BY <2>2, <3>1
  <2>4. Cardinality(In(Mine(n), Flying)) = 0
    BY <2>3, FS_EmptySet
  <2>5. /\ Cardinality(In(Mine(n), Ended)) <= Cardinality(Mine(n))
        /\ Cardinality(In(Mine(n), Ended)) \in Nat /\ Cardinality(Mine(n)) \in Nat
    <3>1. IsFiniteSet(Mine(n)) /\ In(Mine(n), Ended) \in SUBSET Mine(n)
      BY <2>1, ScenarioAssumption, FS_Subset DEF In
    <3>2. QED
      BY <2>1, <3>1, FS_Subset, FS_CardinalityType
  <2>6. /\ remaining[n] \in Nat /\ requests[n] \in Nat /\ unsent[n] \in Nat
    BY <2>1 DEF LoopInv, TypeOK, FiguresTyped
  <2>7. Share(n) \in Int
    BY <2>1, ConfigFacts DEF Share, ShareOf, LoopInv, TypeOK
  <2>8. CASE interrupted[n]
    <3>1. Account(n) + Cardinality(In(Mine(n), Flying)) + Cardinality(In(Mine(n), Ended)) >= Share(n)
      BY DEF BudgetInv, ClaimInv
    <3>2. requests[n] + unsent[n] + remaining[n] + Cardinality(Mine(n)) >= Share(n)
      BY <2>4, <2>5, <2>6, <2>7, <3>1 DEF Account
    <3>3. QED
      BY <2>8, <3>2
  <2>9. CASE ~interrupted[n]
    <3>1. Account(n) + Cardinality(In(Mine(n), Flying)) = Share(n)
      BY <2>9 DEF BudgetInv, ClaimInv
    <3>2. PICK u \in config.users : NodeOf[u] = n
      BY <2>1
    <3>3. u \in Mine(n) /\ u \in User
      BY <2>1, <3>2 DEF Mine
    <3>4. user[u].pc \in {"gone", "cancelled"}
      <4>1. user[u].pc \in Ended \cup {"unborn"}
        BY <2>2, <3>3 DEF Living
      <4>2. user[u].pc # "unborn" /\ user[u].pc # "crashed"
        BY <2>1, <3>2, <3>3 DEF StopInv, RunnerInv, Crashed
      <4>3. QED
        BY <4>1, <4>2 DEF Ended
    <3>5. remaining[n] = 0 \/ dry[n]
      BY <2>9, <3>3, <3>4 DEF BudgetInv, ClaimInv
    <3>6. remaining[n] = 0 => requests[n] + unsent[n] = Share(n)
      BY <2>4, <2>6, <2>7, <3>1 DEF Account
    <3>7. QED
      BY <2>9, <3>5, <3>6
  <2>10. QED
    BY <2>8, <2>9
<1>2. QED
  BY <1>1, BudgetIsKept, PTL

-------------------------------------------------------------------------------
(* The rows of the data sets.                                                 *)

\* The slice of a node ends before that of a later node begins.
LEMMA SlicesFollow ==
  ASSUME NEW total \in Nat, NEW count \in Nat \ {0}, NEW i \in Nat, NEW j \in Nat, i < j
  PROVE  /\ SliceStart(total, i, count) \in Nat /\ ShareOf(total, i, count) \in Nat
         /\ SliceStart(total, i, count) + ShareOf(total, i, count) <= SliceStart(total, j, count)
<1> DEFINE q == total \div count
           r == total % count
<1>1. q \in Nat /\ r \in Nat
  OBVIOUS
<1>2. /\ SliceStart(total, i, count) = i * q + AtMost(i, r)
      /\ SliceStart(total, j, count) = j * q + AtMost(j, r)
      /\ ShareOf(total, i, count) = q + (IF i < r THEN 1 ELSE 0)
  BY DEF SliceStart, ShareOf
<1> HIDE DEF q, r
<1> DEFINE gap == j - i - 1
<1>3. gap \in Nat /\ j = i + 1 + gap
  OBVIOUS
<1> HIDE DEF gap
<1>4. i * q \in Nat /\ gap * q \in Nat
  BY <1>1, <1>3
<1>5. j * q = i * q + q + gap * q
  BY <1>1, <1>3
<1>6. AtMost(i, r) \in Nat /\ AtMost(i, r) + (IF i < r THEN 1 ELSE 0) <= AtMost(j, r)
  BY <1>1 DEF AtMost
<1>7. AtMost(j, r) \in Nat
  BY <1>1 DEF AtMost
<1> DEFINE iq == i * q
           jq == j * q
           gq == gap * q
           a == AtMost(i, r)
           b == AtMost(j, r)
           e == IF i < r THEN 1 ELSE 0
<1>8. /\ iq \in Nat /\ gq \in Nat /\ jq = iq + q + gq /\ a \in Nat /\ b \in Nat /\ a + e <= b /\ e \in {0, 1}
  BY <1>4, <1>5, <1>6, <1>7
<1>9. /\ SliceStart(total, i, count) = iq + a /\ SliceStart(total, j, count) = jq + b
      /\ ShareOf(total, i, count) = q + e
  BY <1>2
<1> HIDE DEF iq, jq, gq, a, b, e
<1>10. QED
  BY <1>1, <1>8, <1>9

\* shard_rows: no row is in the slices of two nodes.
LEMMA SlicesAreDisjoint ==
  ASSUME NEW set, set.rows \in Nat, Consumes(set), NEW count \in Nat \ {0},
         NEW i \in 0..(count - 1), NEW j \in 0..(count - 1),
         NEW row, row \in Slice(set, i, count), row \in Slice(set, j, count)
  PROVE  i = j
<1>1. CASE count = 1
  BY <1>1
<1>2. CASE count > 1
  <2> DEFINE lo(n) == SliceStart(set.rows, n, count)
             size(n) == ShareOf(set.rows, n, count)
  <2>1. /\ row \in (lo(i) + 1)..(lo(i) + size(i))
        /\ row \in (lo(j) + 1)..(lo(j) + size(j))
    BY <1>2 DEF Slice
  <2>2. \A n \in 0..(count - 1) : lo(n) \in Nat /\ size(n) \in Nat
    <3> TAKE n \in 0..(count - 1)
    <3>1. n \in Nat /\ n + 1 \in Nat /\ n < n + 1
      OBVIOUS
    <3>2. QED
      BY <3>1, SlicesFollow
  <2>3. ASSUME NEW m \in 0..(count - 1), NEW n \in 0..(count - 1), m < n
        PROVE  lo(m) + size(m) <= lo(n)
    <3>1. m \in Nat /\ n \in Nat
      OBVIOUS
    <3>2. QED
      BY <2>3, <3>1, SlicesFollow
  <2> HIDE DEF lo, size
  <2>4. i < j => lo(i) + size(i) <= lo(j)
    BY <2>3
  <2>5. j < i => lo(j) + size(j) <= lo(i)
    BY <2>3
  <2>6. ~(i < j)
    BY <2>1, <2>2, <2>4
  <2>7. ~(j < i)
    BY <2>1, <2>2, <2>5
  <2>8. QED
    BY <2>6, <2>7
<1>3. QED
  BY <1>1, <1>2

Start(set, index, count) == IF Consumes(set) /\ count > 1 THEN SliceStart(set.rows, index, count) ELSE 0

\* next_row: a consuming data set hands out the row after those it has handed out.
LEMMA NextRow ==
  ASSUME NEW set, Consumes(set), NEW index, NEW count, NEW c,
         NEW row \in RowsAt(set, index, count, c), row # 0
  PROVE  row = Start(set, index, count) + c + 1 /\ row \in Slice(set, index, count)
<1>1. set.strategy # "random" /\ set.strategy # "loop"
  BY DEF Consumes
<1> DEFINE next == Start(set, index, count) + c + 1
<1>2. RowsAt(set, index, count, c) \in {{0}, {next}}
      /\ (RowsAt(set, index, count, c) = {next} => next \in Slice(set, index, count) \/ next = 0)
  <2> DEFINE slice == Slice(set, index, count)
  <2>1. CASE slice = {}
    <3>1. RowsAt(set, index, count, c) = {0}
      BY <1>1, <2>1 DEF RowsAt
    <3> HIDE DEF next
    <3>2. QED
      BY <3>1
  <2>2. CASE slice # {} /\ next \in slice
    BY <1>1, <2>2 DEF RowsAt, Start
  <2>3. CASE slice # {} /\ next \notin slice
    BY <1>1, <2>3 DEF RowsAt, Start
  <2>4. QED
    BY <2>1, <2>2, <2>3
<1>3. QED
  BY <1>2

\* A row of a consuming data set that has been handed out lies in the slice of a node,
\* behind its cursor.
Behind(n, d, row) ==
  /\ row \in Slice(config.data[d], n, config.nodes)
  /\ row <= Start(config.data[d], n, config.nodes) + cursor[n][d]

RowsInv ==
  \A d \in Datasets :
    /\ handed[d] \in [1..config.data[d].rows -> {0, 1}]
    /\ \A row \in 1..config.data[d].rows : handed[d][row] = 1 =>
         Consumes(config.data[d]) /\ \E n \in 0..(config.nodes - 1) : Behind(n, d, row)

\* Every user that has ended wasted a row of each data set but one, at most.
WasteInv ==
  \A n \in AllNodes :
    lost[n] <= Cardinality(In(Mine(n), Ended)) * AtLeast(0, Len(config.data) - 1)

DataInv == RowsInv /\ WasteInv

LEMMA DrawKeepsRows ==
  ASSUME LoopInv, RowsInv, NEW u, Ready(u), UNCHANGED config, NEW k, DrawRows(NodeOf[u], k)
  PROVE  RowsInv'
<1> DEFINE n == NodeOf[u]
           eaten(d) == RowsAt(config.data[d], n, config.nodes, cursor[n][d])
           spends(d, row) == d < k /\ Consumes(config.data[d]) /\ row \in eaten(d)
<1>1. /\ n \in AllNodes /\ n \in 0..(config.nodes - 1) /\ config.nodes \in Nat \ {0}
      /\ cursor \in [AllNodes -> [Datasets -> Nat]]
      /\ \A d \in Datasets : config.data[d].rows \in Nat \ {0}
      /\ 0..(config.nodes - 1) \subseteq AllNodes
  BY ItsOwn, ConfigFacts DEF Ready, MayMove, LoopInv, TypeOK, FiguresTyped
<1> SUFFICES ASSUME NEW d \in Datasets
             PROVE  /\ handed'[d] \in [1..config.data[d].rows -> {0, 1}]
                    /\ \A row \in 1..config.data[d].rows : handed'[d][row] = 1 =>
                         Consumes(config.data[d]) /\ \E m \in 0..(config.nodes - 1) : Behind(m, d, row)'
  BY DEF RowsInv, Datasets
<1>2. /\ handed[d] \in [1..config.data[d].rows -> {0, 1}]
      /\ \A row \in 1..config.data[d].rows : handed[d][row] = 1 =>
           Consumes(config.data[d]) /\ \E m \in 0..(config.nodes - 1) : Behind(m, d, row)
  BY DEF RowsInv
<1>3. handed'[d] = [row \in 1..config.data[d].rows |-> handed[d][row] + IF spends(d, row) THEN 1 ELSE 0]
  BY <1>2 DEF DrawRows
<1>4. \A row \in 1..config.data[d].rows : spends(d, row) =>
        /\ row = Start(config.data[d], n, config.nodes) + cursor[n][d] + 1
        /\ row \in Slice(config.data[d], n, config.nodes)
  <2> TAKE row \in 1..config.data[d].rows
  <2>1. row # 0
    BY <1>1
  <2>2. QED
    BY <2>1, NextRow
<1>5. Start(config.data[d], n, config.nodes) \in Nat /\ \A m \in 0..(config.nodes - 1) : cursor[m][d] \in Nat
  <2>1. SliceStart(config.data[d].rows, n, config.nodes) \in Nat
    <3>1. n \in Nat /\ n + 1 \in Nat /\ n < n + 1 /\ config.data[d].rows \in Nat
      BY <1>1
    <3>2. QED
      BY <1>1, <3>1, SlicesFollow
  <2>2. QED
    BY <1>1, <2>1 DEF Start
<1>6. /\ \A m \in AllNodes : m # n => cursor'[m][d] = cursor[m][d]
      /\ d < k => cursor'[n][d] = Advanced(config.data[d], cursor[n][d])
      /\ ~(d < k) => cursor'[n][d] = cursor[n][d]
  <2> DEFINE line == [e \in Datasets |-> IF e \in {c \in Datasets : c < k}
                        THEN Advanced(config.data[e], cursor[n][e]) ELSE cursor[n][e]]
  <2>1. cursor' = [cursor EXCEPT ![n] = line]
    BY DEF DrawRows
  <2>2. line[d] = IF d < k THEN Advanced(config.data[d], cursor[n][d]) ELSE cursor[n][d]
    OBVIOUS
  <2> HIDE DEF line
  <2>3. cursor'[n] = line /\ \A m \in AllNodes : m # n => cursor'[m] = cursor[m]
    BY <1>1, <2>1
  <2>4. QED
    BY <2>2, <2>3
<1>7. Consumes(config.data[d]) => /\ cursor'[n][d] >= cursor[n][d]
                                  /\ d < k => cursor'[n][d] = cursor[n][d] + 1
  <2>1. Consumes(config.data[d]) => Advanced(config.data[d], cursor[n][d]) = cursor[n][d] + 1
    BY DEF Consumes, Advanced
  <2>2. QED
    BY <1>1, <1>5, <1>6, <2>1
<1> HIDE DEF spends
<1>8. \A row \in 1..config.data[d].rows : spends(d, row) => handed[d][row] = 0 /\ Consumes(config.data[d])
  <2> SUFFICES ASSUME NEW row \in 1..config.data[d].rows, spends(d, row), handed[d][row] # 0
               PROVE  FALSE
    BY <1>2 DEF spends
  <2>1. handed[d][row] = 1 /\ Consumes(config.data[d])
    BY <1>2
  <2>2. PICK m \in 0..(config.nodes - 1) : Behind(m, d, row)
    BY <1>2, <2>1
  <2>3. m = n
    BY <1>1, <1>4, <2>1, <2>2, SlicesAreDisjoint DEF Behind
  <2>4. row <= Start(config.data[d], n, config.nodes) + cursor[n][d]
    BY <2>2, <2>3 DEF Behind
  <2>5. QED
    BY <1>1, <1>4, <1>5, <2>4
<1>9. handed'[d] \in [1..config.data[d].rows -> {0, 1}]
  <2>1. \A row \in 1..config.data[d].rows : handed[d][row] + (IF spends(d, row) THEN 1 ELSE 0) \in {0, 1}
    <3> TAKE row \in 1..config.data[d].rows
    <3>1. CASE spends(d, row)
      <4>1. handed[d][row] = 0
        BY <1>8, <3>1
      <4>2. QED
        BY <3>1, <4>1
    <3>2. CASE ~spends(d, row)
      <4>1. handed[d][row] \in {0, 1}
        BY <1>2
      <4>2. handed[d][row] + 0 \in {0, 1}
        BY <4>1
      <4>3. QED
        BY <3>2, <4>2
    <3>3. QED
      BY <3>1, <3>2
  <2>2. QED
    BY <1>3, <2>1
<1>10. ASSUME NEW row \in 1..config.data[d].rows, handed'[d][row] = 1
       PROVE  Consumes(config.data[d]) /\ \E m \in 0..(config.nodes - 1) : Behind(m, d, row)'
  <2>1. \A m : Behind(m, d, row)' <=> /\ row \in Slice(config.data[d], m, config.nodes)
                                      /\ row <= Start(config.data[d], m, config.nodes) + cursor'[m][d]
    BY DEF Behind
  <2>2. CASE spends(d, row)
    <3>1. Consumes(config.data[d]) /\ d < k
      BY <1>8, <2>2 DEF spends
    <3>2. row <= Start(config.data[d], n, config.nodes) + cursor'[n][d] /\ row \in Slice(config.data[d], n, config.nodes)
      BY <1>1, <1>4, <1>5, <1>7, <2>2, <3>1
    <3>3. QED
      BY <1>1, <2>1, <3>1, <3>2
  <2>3. CASE ~spends(d, row)
    <3>1. handed[d][row] = 1
      <4>1. handed[d][row] \in {0, 1}
        BY <1>2
      <4>2. handed'[d][row] = handed[d][row] + 0
        BY <1>3, <2>3
      <4>3. QED
        BY <1>10, <4>1, <4>2
    <3>2. Consumes(config.data[d])
      BY <1>2, <3>1
    <3>3. PICK m \in 0..(config.nodes - 1) : Behind(m, d, row)
      BY <1>2, <3>1
    <3>4. Start(config.data[d], m, config.nodes) \in Nat
      <4>1. m \in Nat /\ m + 1 \in Nat /\ m < m + 1 /\ config.data[d].rows \in Nat
        BY <1>1
      <4>2. QED
        BY <1>1, <4>1, SlicesFollow DEF Start
    <3>5. cursor'[m][d] >= cursor[m][d] /\ cursor'[m][d] \in Nat
      <4>1. CASE m = n
        <5>1. cursor'[n][d] \in {cursor[n][d], cursor[n][d] + 1}
          BY <1>6, <1>7, <3>2
        <5>2. QED
          BY <1>5, <4>1, <5>1
      <4>2. CASE m # n
        <5>1. cursor'[m][d] = cursor[m][d]
          BY <1>1, <1>6, <4>2
        <5>2. QED
          BY <1>5, <5>1
      <4>3. QED
        BY <4>1, <4>2
    <3>6. row <= Start(config.data[d], m, config.nodes) + cursor[m][d] /\ row \in Slice(config.data[d], m, config.nodes)
      BY <3>3 DEF Behind
    <3>7. row <= Start(config.data[d], m, config.nodes) + cursor'[m][d]
      BY <1>1, <1>5, <3>4, <3>5, <3>6
    <3>8. QED
      BY <2>1, <3>2, <3>6, <3>7
  <2>4. QED
    BY <2>2, <2>3
<1>11. QED
  BY <1>9, <1>10

LEMMA ProductGrows ==
  ASSUME NEW a \in Nat, NEW b \in Nat, NEW l \in Nat, a <= b
  PROVE  a * l \in Nat /\ b * l \in Nat /\ a * l <= b * l /\ (a + 1) * l = a * l + l
<1> DEFINE g == b - a
<1>1. g \in Nat /\ b = a + g
  OBVIOUS
<1> HIDE DEF g
<1>2. a * l \in Nat /\ g * l \in Nat
  BY <1>1
<1>3. b * l = a * l + g * l
  BY <1>1
<1>4. (a + 1) * l = a * l + l
  OBVIOUS
<1> DEFINE al == a * l
           gl == g * l
           bl == b * l
<1>5. al \in Nat /\ gl \in Nat /\ bl = al + gl
  BY <1>2, <1>3
<1> HIDE DEF al, gl, bl
<1>6. al <= bl /\ bl \in Nat
  BY <1>5
<1>7. QED
  BY <1>2, <1>4, <1>6 DEF al, bl

\* A user that finds a data set spent wastes a row of each earlier one, at most.
LEMMA WasteIsBounded ==
  ASSUME LoopInv, NEW n \in AllNodes
  PROVE  LET wasted == Cardinality({d \in Datasets : d < FirstDry(n) /\ Consumes(config.data[d])})
         IN  wasted \in Nat /\ (FirstDry(n) # 0 => wasted <= Len(config.data) - 1)
<1> DEFINE rows == {d \in Datasets : d < FirstDry(n) /\ Consumes(config.data[d])}
           k == FirstDry(n)
           len == Len(config.data)
<1>1. len \in Nat /\ Datasets = 1..len /\ RunTyped
  BY ConfigFacts DEF LoopInv, TypeOK
<1>2. Cardinality(rows) \in Nat
  BY <1>1, WastedIsFinite
<1>3. ASSUME k # 0
      PROVE  Cardinality(rows) <= len - 1
  <2>1. k \in 1..len
    BY <1>1, <1>3, FirstDryIsFirst
  <2>2. rows \in SUBSET (1..(k - 1))
    BY <1>1, <2>1
  <2>3. IsFiniteSet(1..(k - 1)) /\ Cardinality(1..(k - 1)) = k - 1
    <3>1. 1 \in Int /\ k - 1 \in Int /\ (1 > k - 1 => k - 1 = 0)
      BY <1>1, <2>1
    <3> DEFINE last == k - 1
    <3>2. last \in Int /\ (1 > last => last = 0)
      BY <3>1
    <3> HIDE DEF last
    <3>3. IsFiniteSet(1..last) /\ Cardinality(1..last) = IF 1 > last THEN 0 ELSE last - 1 + 1
      BY <3>2, FS_Interval
    <3>4. Cardinality(1..last) = last
      BY <3>2, <3>3
    <3>5. QED
      BY <3>3, <3>4 DEF last
  <2>4. Cardinality(rows) <= k - 1
    BY <2>2, <2>3, FS_Subset
  <2> HIDE DEF rows, k, len
  <2>5. QED
    BY <1>1, <1>2, <2>1, <2>4 DEF rows
<1>4. QED
  BY <1>2, <1>3

LEMMA UserKeepsData ==
  ASSUME LoopInv, DataInv, NEW u, Ready(u), Stepped(u)
  PROVE  DataInv'
<1> DEFINE m == NodeOf[u]
           l == AtLeast(0, Len(config.data) - 1)
           wasted == Cardinality({d \in Datasets : d < FirstDry(m) /\ Consumes(config.data[d])})
<1>1. /\ u \in User /\ m \in AllNodes /\ user \in [User -> UserState] /\ u \in Mine(m)
      /\ user' = [user EXCEPT ![u] = user'[u]] /\ UNCHANGED config
      /\ lost \in [AllNodes -> Nat] /\ lost' \in [AllNodes -> Nat]
      /\ user[u].pc \notin Ended
  <2>1. TypeOK'
    BY UserStepTyped DEF LoopInv
  <2>2. QED
    BY <2>1, ItsOwn DEF Ready, MayMove, ActorsTyped, Stepped, Moved, NotMine, LoopInv, TypeOK, FiguresTyped,
       Busy, Holding, Awaiting, Ended, Mine, AllNodes
<1>2. l \in Nat /\ l >= Len(config.data) - 1 /\ Len(config.data) \in Nat
  BY ConfigFacts DEF AtLeast, LoopInv, TypeOK
<1>3. wasted \in Nat /\ (FirstDry(m) # 0 => wasted <= l)
  <2>1. wasted \in Nat /\ (FirstDry(m) # 0 => wasted <= Len(config.data) - 1)
    BY <1>1, WasteIsBounded
  <2> HIDE DEF wasted, l
  <2>2. QED
    BY <1>2, <2>1
<1>4. /\ RowsInv'
      /\ \/ lost' = lost
         \/ /\ user'[u].pc \in Ended /\ FirstDry(m) # 0
            /\ lost' = [lost EXCEPT ![m] = lost[m] + wasted]
  <2>1. CASE UNCHANGED dataVars
    <3>1. RowsInv'
      BY <1>1, <2>1 DEF dataVars, DataInv, RowsInv, Datasets, Behind
    <3>2. QED
      BY <2>1, <3>1 DEF dataVars
  <2>2. CASE FirstDry(m) # 0 /\ DrawRows(m, FirstDry(m)) /\ End(u, "gone")
             /\ lost' = [lost EXCEPT ![m] = lost[m] + wasted]
    <3>1. RowsInv'
      BY <1>1, <2>2, DrawKeepsRows DEF DataInv
    <3>2. user'[u].pc \in Ended
      <4>1. user'[u] = Newborn("gone")
        BY <1>1, <2>2 DEF End
      <4>2. QED
        BY <4>1 DEF Newborn, Ended
    <3>3. QED
      BY <2>2, <3>1, <3>2
  <2>3. CASE DrawRows(m, Len(config.data) + 1) /\ lost' = lost
    BY <1>1, <2>3, DrawKeepsRows DEF DataInv
  <2>4. QED
    BY <2>1, <2>2, <2>3 DEF Stepped, Draw
<1>5. WasteInv'
  <2> SUFFICES ASSUME NEW n \in AllNodes
               PROVE  (lost[n] <= Cardinality(In(Mine(n), Ended)) * AtLeast(0, Len(config.data) - 1))'
    BY DEF WasteInv
  <2> DEFINE now == Cardinality(In(Mine(n), Ended))
             next == Cardinality(After(Mine(n), Ended))
  <2>1. Mine(n) \in SUBSET User /\ Mine(n)' = Mine(n) /\ (u \in Mine(n) <=> n = m)
    BY <1>1, ConfigFacts DEF Ready, Mine
  <2>2. In(Mine(n), Ended)' = After(Mine(n), Ended)
    BY <2>1 DEF In, After, Ended
  <2>3. lost[n] <= now * l /\ lost[n] \in Nat /\ lost'[n] \in Nat
    BY <1>1 DEF DataInv, WasteInv
  <2>4. now \in Nat /\ next \in Nat
    BY <1>1, <2>1, Countable, CountMoves
  <2>5. CASE n # m
    <3>1. next = now
      BY <1>1, <2>1, <2>5, CountMoves
    <3>2. lost'[n] = lost[n]
      BY <1>1, <1>4, <2>5
    <3>3. QED
      BY <1>1, <2>2, <2>3, <3>1, <3>2
  <2>6. CASE n = m
    <3>1. next = now + (IF user'[u].pc \in Ended THEN 1 ELSE 0) - (IF user[u].pc \in Ended THEN 1 ELSE 0)
      BY <1>1, <2>1, <2>6, CountMoves
    <3>2. lost'[n] <= next * l
      <4> HIDE DEF now, next, wasted, l
      <4>1. CASE lost' = lost
        <5>1. now <= next
          BY <1>1, <2>4, <3>1
        <5>2. now * l \in Nat /\ next * l \in Nat /\ now * l <= next * l
          BY <1>2, <2>4, <5>1, ProductGrows
        <5> DEFINE a == now * l
                   b == next * l
        <5>3. a \in Nat /\ b \in Nat /\ a <= b /\ lost[n] <= a
          BY <2>3, <5>2
        <5> HIDE DEF a, b
        <5>4. lost'[n] <= b
          BY <2>3, <4>1, <5>3
        <5>5. QED
          BY <5>4 DEF b
      <4>2. CASE user'[u].pc \in Ended /\ FirstDry(m) # 0 /\ lost' = [lost EXCEPT ![m] = lost[m] + wasted]
        <5>1. next = now + 1 /\ lost'[n] = lost[n] + wasted
          BY <1>1, <2>4, <2>6, <3>1, <4>2
        <5>2. now * l \in Nat /\ next * l = now * l + l
          BY <1>2, <2>4, <5>1, ProductGrows
        <5> DEFINE a == now * l
        <5>3. a \in Nat /\ next * l = a + l /\ lost[n] <= a
          BY <2>3, <5>2
        <5> HIDE DEF a
        <5>4. lost'[n] <= a + l
          BY <1>2, <1>3, <2>3, <4>2, <5>1, <5>3
        <5>5. QED
          BY <5>3, <5>4
      <4>3. QED
        BY <1>4, <4>1, <4>2
    <3>3. QED
      BY <1>1, <2>2, <3>2
  <2>7. QED
    BY <2>5, <2>6
<1>6. QED
  BY <1>4, <1>5 DEF DataInv

LEMMA AsideKeepsData ==
  ASSUME LoopInv, DataInv, Aside
  PROVE  DataInv'
<1>1. UNCHANGED <<config, cursor, dry, lost, handed>>
  BY DEF Aside, dataVars
<1>2. RowsInv'
  BY <1>1 DEF DataInv, RowsInv, Datasets, Behind
<1>3. WasteInv'
  <2> SUFFICES ASSUME NEW n \in AllNodes
               PROVE  (lost[n] <= Cardinality(In(Mine(n), Ended)) * AtLeast(0, Len(config.data) - 1))'
    BY DEF WasteInv
  <2>1. Mine(n) \in SUBSET User /\ Mine(n)' = Mine(n)
    BY <1>1, ConfigFacts DEF LoopInv, TypeOK, Mine
  <2>2. In(Mine(n), Ended)' = After(Mine(n), Ended)
    BY <2>1 DEF In, After, Ended
  <2>3. After(Mine(n), Ended) = In(Mine(n), Ended)
    <3>1. "unborn" \notin Ended /\ "created" \notin Ended
      BY DEF Ended
    <3>2. QED
      BY <2>1, <3>1, AsideCounts
  <2>4. QED
    BY <1>1, <2>2, <2>3 DEF DataInv, WasteInv
<1>4. QED
  BY <1>2, <1>3 DEF DataInv

LEMMA DataInit ==
  ASSUME Init
  PROVE  DataInv
<1>1. LoopInv
  BY LoopInit
<1>2. RowsInv
  <2>1. \A d \in Datasets : handed[d] = [r \in 1..config.data[d].rows |-> 0]
    BY DEF Init
  <2>2. ASSUME NEW d \in Datasets
        PROVE  /\ handed[d] \in [1..config.data[d].rows -> {0, 1}]
               /\ \A row \in 1..config.data[d].rows : handed[d][row] # 1
    <3> DEFINE rows == 1..config.data[d].rows
    <3> HIDE DEF rows
    <3>1. handed[d] = [r \in rows |-> 0]
      BY <2>1 DEF rows
    <3>2. handed[d] \in [rows -> {0, 1}] /\ \A row \in rows : handed[d][row] # 1
      BY <3>1
    <3>3. QED
      BY <3>2 DEF rows
  <2>3. QED
    BY <2>2 DEF RowsInv
<1>3. WasteInv
  <2> SUFFICES ASSUME NEW n \in AllNodes
               PROVE  lost[n] <= Cardinality(In(Mine(n), Ended)) * AtLeast(0, Len(config.data) - 1)
    BY DEF WasteInv
  <2>1. Cardinality(In(Mine(n), Ended)) \in Nat
    <3>1. Mine(n) \in SUBSET User
      BY <1>1, ConfigFacts DEF LoopInv, TypeOK, Mine
    <3>2. QED
      BY <3>1, Countable
  <2>2. AtLeast(0, Len(config.data) - 1) \in Nat
    BY <1>1, ConfigFacts DEF AtLeast, LoopInv, TypeOK
  <2>3. lost[n] = 0
    BY DEF Init
  <2>4. Cardinality(In(Mine(n), Ended)) * AtLeast(0, Len(config.data) - 1) \in Nat
    BY <2>1, <2>2, ProductGrows
  <2>5. QED
    BY <2>3, <2>4
<1>4. QED
  BY <1>2, <1>3 DEF DataInv

LEMMA DataIsKept == Spec => [](LoopInv /\ DataInv)
<1>1. Init => LoopInv /\ DataInv
  BY LoopInit, DataInit
<1>2. LoopInv /\ DataInv /\ [Next]_vars => LoopInv' /\ DataInv'
  <2> SUFFICES ASSUME LoopInv, DataInv, [Next]_vars
               PROVE  DataInv'
    BY LoopStep
  <2>1. CASE Next
    <3>1. CASE \E u \in config.users : UserStep(u)
      BY <3>1, StepsAreReady, UserSteps, UserKeepsData
    <3>2. CASE \E n \in AllNodes : RunnerStep(n) \/ Interrupt(n)
      BY <3>2, RunnerIsAside, AsideKeepsData DEF LoopInv
    <3>3. CASE DurationElapses
      BY <3>3, DurationIsAside, AsideKeepsData DEF LoopInv
    <3>4. QED
      BY <2>1, <3>1, <3>2, <3>3, StepsOfTheRun DEF LoopInv
  <2>2. CASE UNCHANGED vars
    <3>1. UNCHANGED <<config, user, cursor, handed, lost>>
      BY <2>2 DEF vars, dataVars
    <3>2. RowsInv'
      BY <3>1 DEF DataInv, RowsInv, Datasets, Behind
    <3>3. WasteInv'
      BY <3>1 DEF DataInv, WasteInv, In, Mine, Ended
    <3>4. QED
      BY <3>2, <3>3 DEF DataInv
  <2>3. QED
    BY <2>1, <2>2
<1>3. QED
  BY <1>1, <1>2, PTL DEF Spec

\* A row of a sequential or unique data set is never handed out twice, whichever of the
\* nodes and users asks, because the slices of the nodes are disjoint and the cursor of
\* a node only moves past what it hands out; and a user wastes rows at most once, since
\* finding a data set spent ends it.
THEOREM RowsAreHandedOutOnce == Spec => []RowsAreSpentOnce
<1>1. LoopInv /\ DataInv => RowsAreSpentOnce
  <2> SUFFICES ASSUME LoopInv, DataInv
               PROVE  RowsAreSpentOnce
    OBVIOUS
  <2>1. ASSUME NEW d \in Datasets, NEW r \in DOMAIN handed[d]
        PROVE  handed[d][r] <= 1
    <3>1. handed[d] \in [1..config.data[d].rows -> {0, 1}]
      BY DEF DataInv, RowsInv
    <3>2. handed[d][r] \in {0, 1}
      BY <3>1
    <3>3. QED
      BY <3>2
  <2>2. ASSUME NEW n \in AllNodes
        PROVE  lost[n] <= Cardinality(Mine(n)) * AtLeast(0, Len(config.data) - 1)
    <3> DEFINE l == AtLeast(0, Len(config.data) - 1)
               ended == Cardinality(In(Mine(n), Ended))
               all == Cardinality(Mine(n))
    <3>1. ended \in Nat /\ all \in Nat /\ ended <= all
      <4>1. Mine(n) \in SUBSET User
        BY ConfigFacts DEF LoopInv, TypeOK, Mine
      <4>2. IsFiniteSet(Mine(n)) /\ In(Mine(n), Ended) \in SUBSET Mine(n)
        BY <4>1, ScenarioAssumption, FS_Subset DEF In
      <4>3. QED
        BY <4>2, FS_Subset, FS_CardinalityType
    <3>2. l \in Nat
      BY ConfigFacts DEF AtLeast, LoopInv, TypeOK
    <3>3. ended * l \in Nat /\ all * l \in Nat /\ ended * l <= all * l
      BY <3>1, <3>2, ProductGrows
    <3>4. lost[n] \in Nat /\ lost[n] <= ended * l
      BY DEF LoopInv, TypeOK, FiguresTyped, DataInv, WasteInv
    <3> DEFINE a == ended * l
               b == all * l
    <3>5. a \in Nat /\ b \in Nat /\ a <= b /\ lost[n] \in Nat /\ lost[n] <= a
      BY <3>3, <3>4
    <3> HIDE DEF a, b
    <3>6. lost[n] <= b
      BY <3>5
    <3>7. QED
      BY <3>6 DEF b
  <2>3. QED
    BY <2>1, <2>2 DEF RowsAreSpentOnce
<1>2. QED
  BY <1>1, DataIsKept, PTL

-------------------------------------------------------------------------------
(* Whether the rows last for the budget.                                      *)

\* The steps of its iteration that a user has not claimed yet.
Left(me) ==
  IF me.pc = "step" THEN AtLeast(0, Len(config.steps) + 1 - me.step)
  ELSE IF me.pc \in Flying \cup {"thinking"} THEN AtLeast(0, Len(config.steps) - me.step)
  ELSE 0

\* The node's budget and what its user has left go down together, by a claim, as long as
\* nobody ends the user, aborts its iteration or has nothing left to do; and a request is
\* only unsent where an iteration is aborted.
Spends(u) ==
  LET n == NodeOf[u]
  IN  /\ unsent'[n] = unsent[n] \/ aborted'[n]
      /\ \/ stop[n] \/ u \in asked \/ aborted'[n] \/ user'[u].pc = "crashed" \/ remaining[n] = 0
         \/ remaining'[n] + Left(user[u]) = remaining[n] + Left(user'[u])

LEMMA LeftIsNatural ==
  ASSUME RunTyped, NEW me \in UserState
  PROVE  Left(me) \in Nat
<1>1. Len(config.steps) \in Nat /\ me.step \in Nat
  BY ConfigFacts DEF UserState
<1>2. \A k \in Int : AtLeast(0, k) \in Nat
  BY DEF AtLeast
<1>3. AtLeast(0, Len(config.steps) + 1 - me.step) \in Nat /\ AtLeast(0, Len(config.steps) - me.step) \in Nat
  <2> DEFINE steps == Len(config.steps)
             step == me.step
  <2>1. steps \in Nat /\ step \in Nat
    BY <1>1
  <2> HIDE DEF steps, step
  <2>2. steps + 1 - step \in Int /\ steps - step \in Int
    BY <2>1
  <2>3. QED
    BY <1>2, <2>2 DEF steps, step
<1>4. QED
  BY <1>3 DEF Left

\* The places of an iteration.
LEMMA LeftInPlace ==
  ASSUME NEW me
  PROVE  /\ me.pc \in {"limited", "render", "sending", "open", "thinking"} =>
              Left(me) = AtLeast(0, Len(config.steps) - me.step)
         /\ me.pc = "step" => Left(me) = AtLeast(0, Len(config.steps) + 1 - me.step)
         /\ me.pc \in {"iterate", "yielding", "pacing", "created", "unborn", "gone", "cancelled", "crashed"} =>
              Left(me) = 0
BY DEF Left, Flying

LEMMA UserOfItsOwn ==
  ASSUME NEW u, Ready(u)
  PROVE  /\ u \in User /\ NodeOf[u] \in AllNodes /\ user[u] \in UserState /\ DOMAIN user = User
         /\ user[u].step \in Nat /\ Len(config.steps) \in Nat
         /\ aborted \in [AllNodes -> BOOLEAN] /\ remaining \in [AllNodes -> Nat] /\ unsent \in [AllNodes -> Nat]
<1>1. user[u] \in UserState
  BY DEF Ready, MayMove, Flow
<1>2. QED
  BY <1>1, ItsOwn, ConfigFacts DEF Ready, MayMove, RunTyped, FiguresTyped, UserState

\* A step that is left behind has its share of the iteration behind it.
LEMMA ThinkSpends ==
  ASSUME NEW u, Ready(u), Scripted, NEW me \in UserState, me.step = user[u].step, Think(u, me)
  PROVE  stop[NodeOf[u]] \/ Left(user'[u]) = AtLeast(0, Len(config.steps) - user[u].step)
<1> DEFINE steps == Len(config.steps)
<1>1. u \in User /\ DOMAIN user = User /\ user[u].step \in Nat /\ steps \in Nat
  BY UserOfItsOwn
<1>2. CASE Await(u, me, "thinking")
  <2>1. user'[u] = [me EXCEPT !.pc = "thinking"]
    BY <1>1, <1>2 DEF Await
  <2>2. user'[u].pc = "thinking" /\ user'[u].step = user[u].step
    BY <2>1 DEF UserState
  <2>3. QED
    BY <2>2, LeftInPlace
<1>3. CASE user' = [user EXCEPT ![u] = NextStep(me)]
  <2>1. user'[u] = NextStep(me)
    BY <1>1, <1>3
  <2>2. user'[u].pc = "step" /\ user'[u].step = user[u].step + 1
    BY <2>1 DEF UserState, NextStep
  <2>3. Left(user'[u]) = AtLeast(0, steps + 1 - (user[u].step + 1))
    BY <2>2, LeftInPlace
  <2>4. steps + 1 - (user[u].step + 1) = steps - user[u].step
    BY <1>1
  <2>5. QED
    BY <2>3, <2>4
<1>4. QED
  BY <1>2, <1>3 DEF Think

LEMMA AbortSpends ==
  ASSUME NEW u, Ready(u), NEW me, Abort(u, me)
  PROVE  aborted'[NodeOf[u]]
BY UserOfItsOwn DEF Abort

LEMMA ChargesKeepPlace ==
  ASSUME NEW me \in UserState
  PROVE  /\ Charged(me).step = me.step /\ FailedRequest(me).step = me.step /\ SocketError(me).step = me.step
         /\ [me EXCEPT !.bound = TRUE].step = me.step
BY DEF UserState, Charged, FailedRequest, SocketError

LEMMA ExtractSpends ==
  ASSUME NEW u, Ready(u), Scripted, NEW me, Flow(me), me.step = user[u].step, Extract(u, me)
  PROVE  \/ stop[NodeOf[u]] \/ aborted'[NodeOf[u]]
         \/ Left(user'[u]) = AtLeast(0, Len(config.steps) - user[u].step)
<1>1. /\ me \in UserState /\ [me EXCEPT !.bound = TRUE] \in UserState /\ Charged(me) \in UserState
      /\ [me EXCEPT !.bound = TRUE].step = user[u].step /\ Charged(me).step = user[u].step
  BY BoundFlows, FailuresFlow, ChargesKeepPlace DEF Flow
<1>2. CASE \E you \in {me, [me EXCEPT !.bound = TRUE], Charged(me)} : Think(u, you)
  BY <1>1, <1>2, ThinkSpends
<1>3. CASE Abort(u, Charged(me))
  BY <1>3, AbortSpends
<1>4. QED
  BY <1>2, <1>3 DEF Extract

LEMMA AnswerSpends ==
  ASSUME NEW u, Ready(u), Scripted, Answered(u) \/ WsAnswered(u)
  PROVE  Spends(u)
<1> DEFINE n == NodeOf[u]
           left == AtLeast(0, Len(config.steps) - user[u].step)
<1>1. /\ Flow(user[u]) /\ user[u] \in UserState /\ Flow(FailedRequest(user[u])) /\ Flow(SocketError(user[u]))
      /\ FailedRequest(user[u]) \in UserState
      /\ FailedRequest(user[u]).step = user[u].step /\ SocketError(user[u]).step = user[u].step
  BY FailuresFlow, ChargesKeepPlace DEF Ready, MayMove, Flow
<1>2. remaining' = remaining /\ Left(user[u]) = left
  BY LeftInPlace DEF Answered, WsAnswered, Resumed
<1>3. \/ unsent' = unsent /\ (stop[n] \/ aborted'[n] \/ Left(user'[u]) = left)
      \/ aborted'[n]
  <2>1. CASE Answered(u)
    <3>1. CASE \E me \in {user[u], FailedRequest(user[u])} : Think(u, me)
      BY <1>1, <2>1, <3>1, ThinkSpends DEF Answered
    <3>2. CASE \E me \in {user[u], FailedRequest(user[u])} : Extract(u, me)
      BY <1>1, <2>1, <3>2, ExtractSpends DEF Answered
    <3>3. CASE Abort(u, FailedRequest(user[u]))
      BY <3>3, AbortSpends
    <3>4. QED
      BY <2>1, <3>1, <3>2, <3>3 DEF Answered
  <2>2. CASE WsAnswered(u)
    <3>1. CASE \E me \in {user[u], SocketError(user[u])} : Extract(u, me) /\ UNCHANGED unsent
      BY <1>1, <3>1, ExtractSpends
    <3>2. CASE \E me \in {user[u], SocketError(user[u])} : Abort(u, Charged(me))
      BY <3>2, AbortSpends
    <3>3. QED
      BY <2>2, <3>1, <3>2 DEF WsAnswered, WsOutcomes
  <2>3. QED
    BY <2>1, <2>2
<1>4. QED
  BY <1>2, <1>3 DEF Spends

\* A step that leaves the budget alone and keeps the user's place in its iteration.
LEMMA KeepsPlace ==
  ASSUME NEW u, UNCHANGED <<remaining, unsent>>, Left(user'[u]) = Left(user[u])
  PROVE  Spends(u)
BY DEF Spends

LEMMA EndSpends ==
  ASSUME NEW u, UNCHANGED <<remaining, unsent>>,
         stop[NodeOf[u]] \/ u \in asked \/ user'[u].pc = "crashed" \/ remaining[NodeOf[u]] = 0
  PROVE  Spends(u)
BY DEF Spends

LEMMA TimerSpends ==
  ASSUME NEW u, Ready(u), Scripted, Timers(u) \/ Acquired(u)
  PROVE  Spends(u)
<1> USE UserOfItsOwn
<1>1. UNCHANGED <<remaining, unsent>>
  BY DEF Timers, Begin, Cancelled, Thought, Yielded, Paced, Acquired, loadVars
<1>2. CASE stop[NodeOf[u]] \/ u \in asked
  BY <1>1, <1>2, EndSpends
<1>3. CASE ~(stop[NodeOf[u]] \/ u \in asked)
  <2>1. CASE Begin(u)
    <3>1. user[u].pc = "created" /\ user'[u] = [user[u] EXCEPT !.pc = "iterate"]
      BY <2>1 DEF Begin, Resumed, Wakes
    <3>2. user'[u].pc = "iterate"
      BY <3>1 DEF UserState
    <3>3. QED
      BY <1>1, <3>1, <3>2, KeepsPlace, LeftInPlace
  <2>2. CASE Thought(u)
    <3>1. user[u].pc = "thinking" /\ user'[u] = NextStep(user[u])
      BY <1>3, <2>2 DEF Thought, Resumed
    <3>2. user'[u].pc = "step" /\ user'[u].step = user[u].step + 1
      BY <3>1 DEF UserState, NextStep
    <3>3. /\ Left(user'[u]) = AtLeast(0, Len(config.steps) + 1 - (user[u].step + 1))
          /\ Left(user[u]) = AtLeast(0, Len(config.steps) - user[u].step)
      BY <3>1, <3>2, LeftInPlace
    <3>4. Len(config.steps) + 1 - (user[u].step + 1) = Len(config.steps) - user[u].step
      OBVIOUS
    <3>5. QED
      BY <1>1, <3>3, <3>4, KeepsPlace
  <2>3. CASE Yielded(u) \/ Paced(u)
    <3>1. /\ user[u].pc \in {"yielding", "pacing"}
          /\ \E pc \in {"iterate", "pacing"} : user'[u] = [user[u] EXCEPT !.pc = pc]
      BY <1>3, <2>3 DEF Yielded, Paced, Resumed, Wakes, Await
    <3>2. user'[u].pc \in {"iterate", "pacing"}
      BY <3>1 DEF UserState
    <3>3. QED
      BY <1>1, <3>1, <3>2, KeepsPlace, LeftInPlace
  <2>4. CASE Acquired(u)
    <3>1. user[u].pc = "limited" /\ \E pc \in {"render", "sending"} : user'[u] = [user[u] EXCEPT !.pc = pc]
      BY <1>3, <2>4 DEF Acquired, Resumed, Wakes, Await
    <3>2. user'[u].pc \in {"render", "sending"} /\ user'[u].step = user[u].step
      BY <3>1 DEF UserState
    <3>3. QED
      BY <1>1, <3>1, <3>2, KeepsPlace, LeftInPlace
  <2>5. QED
    BY <1>3, <2>1, <2>2, <2>3, <2>4 DEF Timers, Cancelled
<1>4. QED
  BY <1>2, <1>3

LEMMA RenderSpends ==
  ASSUME NEW u, Ready(u), Scripted, Render(u)
  PROVE  Spends(u)
<1> USE UserOfItsOwn
<1>1. remaining' = remaining /\ user[u].pc = "render"
  BY DEF Render
<1>2. CASE Abort(u, Charged(user[u]))
  BY <1>2, AbortSpends DEF Spends
<1>3. CASE End(u, "crashed") /\ UNCHANGED unsent
  <2>1. user'[u].pc = "crashed"
    BY <1>3 DEF End, Newborn
  <2>2. QED
    BY <1>1, <1>3, <2>1, EndSpends
<1>4. CASE \E pc \in {"open", "sending"} : Await(u, user[u], pc) /\ UNCHANGED unsent
  <2>1. \E pc \in {"open", "sending"} : user'[u] = [user[u] EXCEPT !.pc = pc]
    BY <1>4 DEF Await
  <2>2. user'[u].pc \in {"open", "sending"} /\ user'[u].step = user[u].step
    BY <2>1 DEF UserState
  <2>3. QED
    BY <1>1, <1>4, <2>2, KeepsPlace, LeftInPlace
<1>5. QED
  BY <1>2, <1>3, <1>4 DEF Render

LEMMA StepSpends ==
  ASSUME NEW u, Ready(u), Counted, Step(u)
  PROVE  Spends(u)
<1> USE UserOfItsOwn
<1> DEFINE n == NodeOf[u]
           steps == Len(config.steps)
<1>1. unsent' = unsent /\ user[u].pc = "step" /\ Left(user[u]) = AtLeast(0, steps + 1 - user[u].step)
  BY LeftInPlace DEF Step
<1>2. CASE stop[n]
  BY <1>1, <1>2 DEF Spends
<1>3. CASE ~stop[n] /\ user[u].step > steps
  <2>1. remaining' = remaining /\ user'[u] = [user[u] EXCEPT !.pc = "iterate"]
    BY <1>3 DEF Step, RunOn
  <2>2. user'[u].pc = "iterate"
    BY <2>1 DEF UserState
  <2>3. Left(user[u]) = 0
    BY <1>1, <1>3 DEF AtLeast
  <2>4. QED
    BY <1>1, <2>1, <2>2, <2>3, KeepsPlace, LeftInPlace
<1>4. CASE ~stop[n] /\ user[u].step <= steps /\ Finished(n)
  <2>1. remaining[n] = 0
    BY <1>4 DEF Finished, Counted
  <2>2. QED
    BY <1>1, <2>1 DEF Spends
<1>5. CASE ~stop[n] /\ user[u].step <= steps /\ ~Finished(n)
  <2>1. remaining' = [remaining EXCEPT ![n] = @ - 1] /\ Throttle(u, "render")
    BY <1>5 DEF Step
  <2>2. \E pc \in {"render", "limited"} : user'[u] = [user[u] EXCEPT !.pc = pc]
    BY <2>1 DEF Throttle, RunOn, Await
  <2>3. user'[u].pc \in {"render", "limited"} /\ user'[u].step = user[u].step
    BY <2>2 DEF UserState
  <2>4. Left(user'[u]) = AtLeast(0, steps - user[u].step)
    BY <2>3, LeftInPlace
  <2>5. remaining'[n] = remaining[n] - 1
    BY <2>1
  <2>6. Left(user[u]) = steps + 1 - user[u].step /\ Left(user'[u]) = steps - user[u].step
    BY <1>1, <1>5, <2>4 DEF AtLeast
  <2>7. remaining'[n] + Left(user[u]) = remaining[n] + Left(user'[u])
    <3> DEFINE r == remaining[n]
               k == user[u].step
    <3>1. r \in Nat /\ k \in Nat /\ steps \in Nat
      OBVIOUS
    <3> HIDE DEF r, k, steps
    <3>2. (r - 1) + (steps + 1 - k) = r + (steps - k)
      BY <3>1
    <3>3. QED
      BY <2>5, <2>6, <3>2 DEF r, k, steps
  <2>8. QED
    BY <1>1, <2>7 DEF Spends
<1>6. QED
  BY <1>2, <1>3, <1>4, <1>5

\* Every step of a user but a draw.
LEMMA StepsSpend ==
  ASSUME NEW u, Ready(u), Counted, UserStep(u)
  PROVE  Draw(u) \/ Spends(u)
<1>1. Scripted
  BY ConfigFacts DEF Ready
<1>2. QED
  BY <1>1, AnswerSpends, TimerSpends, RenderSpends, StepSpends
     DEF UserStep, Running, Timers, Answers, PlainHead

\* A data set that hands its rows out again never runs dry.
LEMMA NeverSpent ==
  ASSUME NEW set, set.rows \in Nat \ {0}, set.strategy \in {"loop", "random"}, NEW index, NEW count, NEW c \in Nat
  PROVE  RowsAt(set, index, count, c) # {0}
<1> DEFINE slice == Slice(set, index, count)
<1>1. slice = 1..set.rows /\ 1 \in slice /\ slice # {}
  BY DEF Consumes, Slice
<1>2. CASE set.strategy = "random"
  <2>1. RowsAt(set, index, count, c) = slice
    BY <1>1, <1>2 DEF RowsAt, Consumes
  <2> HIDE DEF slice
  <2>2. QED
    BY <1>1, <2>1
<1>3. CASE set.strategy = "loop"
  <2>1. RowsAt(set, index, count, c) = {1 + (c % set.rows)}
    BY <1>1, <1>3 DEF RowsAt, Consumes
  <2>2. c % set.rows \in Nat
    OBVIOUS
  <2> DEFINE place == c % set.rows
  <2> HIDE DEF place
  <2>3. {1 + place} # {0}
    BY <2>2 DEF place
  <2>4. QED
    BY <2>1, <2>3 DEF place
<1>4. QED
  BY <1>2, <1>3

\* A unique data set only runs dry when its slice has been handed out.
LEMMA SpentSlice ==
  ASSUME NEW set, set.strategy \in Strategy, set.rows \in Nat \ {0}, set.strategy # "sequential",
         NEW count \in Nat \ {0}, NEW index \in 0..(count - 1), NEW c \in Nat,
         RowsAt(set, index, count, c) = {0}
  PROVE  set.strategy = "unique" /\ ShareOf(set.rows, index, count) \in Nat /\ ShareOf(set.rows, index, count) <= c
<1> DEFINE slice == Slice(set, index, count)
           start == Start(set, index, count)
           size == ShareOf(set.rows, index, count)
<1>1. start \in Nat /\ size \in Nat
  <2>1. index \in Nat /\ index + 1 \in Nat /\ index < index + 1 /\ set.rows \in Nat
    OBVIOUS
  <2>2. SliceStart(set.rows, index, count) \in Nat /\ size \in Nat
    BY <2>1, SlicesFollow
  <2>3. QED
    BY <2>2 DEF Start
<1>2. slice = (start + 1)..(start + size)
  <2>1. CASE Consumes(set) /\ count > 1
    BY <2>1 DEF Slice, Start
  <2>2. CASE ~Consumes(set)
    <3>1. set.strategy \in {"loop", "random"}
      BY <2>2 DEF Consumes, Strategy
    <3>2. QED
      BY <3>1, NeverSpent
  <2>3. CASE Consumes(set) /\ count = 1
    <3>1. start = 0 /\ slice = 1..set.rows /\ index = 0
      BY <2>3 DEF Slice, Start
    <3>2. set.rows \div 1 = set.rows /\ set.rows % 1 = 0
      OBVIOUS
    <3>3. size = set.rows
      BY <2>3, <3>1, <3>2 DEF ShareOf
    <3>4. QED
      BY <3>1, <3>3
  <2>4. QED
    BY <2>1, <2>2, <2>3
<1>3. set.strategy = "unique"
  <2>1. set.strategy \notin {"loop", "random"}
    BY NeverSpent
  <2>2. QED
    BY <2>1 DEF Strategy
<1>4. slice = {} \/ start + c + 1 \notin slice
  <2> SUFFICES ASSUME slice # {}, start + c + 1 \in slice PROVE FALSE
    OBVIOUS
  <2>1. RowsAt(set, index, count, c) = {start + c + 1}
    BY <1>3 DEF RowsAt, Start, Consumes
  <2>2. start + c + 1 # 0
    BY <1>1
  <2>3. QED
    BY <2>1, <2>2
<1> HIDE DEF slice, start, size
<1>5. start + c + 1 \notin (start + 1)..(start + size)
  BY <1>2, <1>4
<1>6. size <= c
  BY <1>1, <1>5
<1>7. QED
  BY <1>1, <1>3, <1>6 DEF size

\* A draw either finds the rows of a data set spent, or takes a row of each and begins
\* an iteration with all its steps to claim.
LEMMA DrawSpends ==
  ASSUME LoopInv, NEW u, Ready(u), Draw(u), ~stop[NodeOf[u]]
  PROVE  LET n == NodeOf[u]
         IN  /\ remaining' = remaining /\ unsent' = unsent /\ Left(user[u]) = 0
             /\ \A m \in AllNodes \ {n} : dry'[m] = dry[m] /\ cursor'[m] = cursor[m]
             /\ \/ /\ dry'[n] /\ Left(user'[u]) = 0
                   /\ \E k \in Datasets : RowsAt(config.data[k], n, config.nodes, cursor[n][k]) = {0}
                \/ /\ dry' = dry /\ Left(user'[u]) = Len(config.steps)
                   /\ \A d \in Datasets : config.data[d].strategy = "unique" => cursor'[n][d] = cursor[n][d] + 1
<1> DEFINE n == NodeOf[u]
           k == FirstDry(n)
<1>1. /\ u \in User /\ DOMAIN user = User /\ n \in AllNodes /\ Len(config.steps) \in Nat
      /\ dry \in [AllNodes -> BOOLEAN] /\ cursor \in [AllNodes -> [Datasets -> Nat]]
      /\ Len(config.data) \in Nat /\ Datasets = 1..Len(config.data)
  BY UserOfItsOwn, ConfigFacts DEF Ready, RunTyped, FiguresTyped
<1>2. /\ remaining' = remaining /\ unsent' = unsent /\ Left(user[u]) = 0
  BY LeftInPlace DEF Draw, loadVars
<1>3. CASE k # 0
  <2>1. dry' = [dry EXCEPT ![n] = TRUE] /\ End(u, "gone") /\ DrawRows(n, k)
    BY <1>3 DEF Draw
  <2>2. user'[u].pc = "gone"
    BY <1>1, <2>1 DEF End, Newborn
  <2>3. Left(user'[u]) = 0
    BY <2>2, LeftInPlace
  <2>4. k \in Datasets /\ RowsAt(config.data[k], n, config.nodes, cursor[n][k]) = {0}
    BY <1>3, FirstDryIsFirst DEF LoopInv, TypeOK
  <2>5. \A m \in AllNodes \ {n} : dry'[m] = dry[m] /\ cursor'[m] = cursor[m]
    <3> HIDE DEF k
    <3>1. \E line : cursor' = [cursor EXCEPT ![n] = line]
      BY <2>1 DEF DrawRows
    <3>2. QED
      BY <1>1, <2>1, <3>1
  <2>6. dry'[n]
    BY <1>1, <2>1
  <2>7. QED
    BY <1>2, <2>3, <2>4, <2>5, <2>6
<1>4. CASE k = 0
  <2>1. dry' = dry /\ user' = [user EXCEPT ![u] = [Newborn("step") EXCEPT !.step = 1]]
        /\ DrawRows(n, Len(config.data) + 1)
    BY <1>4 DEF Draw
  <2>2. user'[u].pc = "step" /\ user'[u].step = 1
    BY <1>1, <2>1 DEF Newborn
  <2>3. Left(user'[u]) = Len(config.steps)
    <3>1. Left(user'[u]) = AtLeast(0, Len(config.steps) + 1 - 1)
      BY <2>2, LeftInPlace
    <3>2. QED
      BY <1>1, <3>1 DEF AtLeast
  <2> DEFINE line == [d \in Datasets |-> IF d \in {e \in Datasets : e < Len(config.data) + 1}
                        THEN Advanced(config.data[d], cursor[n][d]) ELSE cursor[n][d]]
  <2>4. cursor' = [cursor EXCEPT ![n] = line]
    BY <2>1 DEF DrawRows
  <2>5. \A d \in Datasets : config.data[d].strategy = "unique" => line[d] = cursor[n][d] + 1
    BY <1>1 DEF Advanced
  <2> HIDE DEF line
  <2>6. \A d \in Datasets : config.data[d].strategy = "unique" => cursor'[n][d] = cursor[n][d] + 1
    BY <1>1, <2>4, <2>5
  <2>7. \A m \in AllNodes \ {n} : dry'[m] = dry[m] /\ cursor'[m] = cursor[m]
    BY <1>1, <2>1, <2>4
  <2>8. QED
    BY <1>2, <2>1, <2>3, <2>6, <2>7
<1>5. QED
  BY <1>3, <1>4

\* What the users of a node have left together.
Tally == [v \in User |-> Left(user[v])]
ToDo(n) == SumFunctionOnSet(Tally, Mine(n))

LEMMA OneChanges ==
  ASSUME NEW S, IsFiniteSet(S), NEW f, NEW g, NEW x \in S, \A y \in S : f[y] \in Nat /\ g[y] \in Nat,
         \A y \in S \ {x} : f[y] = g[y]
  PROVE  /\ SumFunctionOnSet(f, S) \in Nat /\ SumFunctionOnSet(g, S) \in Nat
         /\ SumFunctionOnSet(g, S) + f[x] = SumFunctionOnSet(f, S) + g[x]
<1> DEFINE rest == S \ {x}
<1>1. IsFiniteSet(rest)
  BY FS_Subset
<1>2. SumFunctionOnSet(f, rest) = SumFunctionOnSet(g, rest)
  BY <1>1, SumIsExtensional
<1>3. SumFunctionOnSet(f, rest) \in Nat
  BY <1>1, SumIsNatural
<1>4. /\ SumFunctionOnSet(f, S) = f[x] + SumFunctionOnSet(f, rest)
      /\ SumFunctionOnSet(g, S) = g[x] + SumFunctionOnSet(g, rest)
  <2>1. \A y \in S : f[y] \in Int /\ g[y] \in Int
    OBVIOUS
  <2>2. QED
    BY <2>1, SumRemovesElement
<1>5. f[x] \in Nat /\ g[x] \in Nat
  OBVIOUS
<1>6. QED
  BY <1>2, <1>3, <1>4, <1>5

LEMMA ToDoMoves ==
  ASSUME LoopInv, LoopInv', NEW u \in User, NEW n, UNCHANGED config,
         \A v \in User \ {u} : Left(user'[v]) = Left(user[v])
  PROVE  /\ ToDo(n) \in Nat /\ ToDo(n)' \in Nat
         /\ u \in Mine(n) => ToDo(n)' + Left(user[u]) = ToDo(n) + Left(user'[u])
         /\ u \notin Mine(n) => ToDo(n)' = ToDo(n)
<1>1. Mine(n) \subseteq User /\ Mine(n)' = Mine(n) /\ IsFiniteSet(Mine(n))
  BY ConfigFacts, ScenarioAssumption, FS_Subset DEF LoopInv, TypeOK, Mine
<1>2. \A v \in User : Left(user[v])' = Left(user'[v])
  BY DEF Left
<1>3. /\ \A v \in User : Tally[v] = Left(user[v]) /\ Tally'[v] = Left(user'[v])
  BY <1>2 DEF Tally
<1>4. \A v \in User : Left(user[v]) \in Nat /\ Left(user'[v]) \in Nat
  <2>1. RunTyped /\ \A v \in User : user[v] \in UserState /\ user'[v] \in UserState
    BY DEF LoopInv, TypeOK, ActorsTyped, UserState, Places, Holding, Awaiting, Ended
  <2>2. QED
    BY <2>1, LeftIsNatural
<1>5. ToDo(n) = SumFunctionOnSet(Tally, Mine(n)) /\ ToDo(n)' = SumFunctionOnSet(Tally', Mine(n))
  BY <1>1 DEF ToDo
<1>6. \A v \in Mine(n) : Tally[v] \in Nat /\ Tally'[v] \in Nat
  BY <1>1, <1>3, <1>4
<1>7. ToDo(n) \in Nat /\ ToDo(n)' \in Nat
  BY <1>1, <1>5, <1>6, SumIsNatural
<1>8. CASE u \in Mine(n)
  <2>1. \A v \in Mine(n) \ {u} : Tally[v] = Tally'[v]
    BY <1>1, <1>3
  <2>2. ToDo(n)' + Tally[u] = ToDo(n) + Tally'[u]
    BY <1>1, <1>5, <1>6, <1>8, <2>1, OneChanges
  <2>3. QED
    BY <1>3, <1>7, <1>8, <2>2
<1>9. CASE u \notin Mine(n)
  <2>1. \A v \in Mine(n) : Tally[v] = Tally'[v]
    BY <1>1, <1>3, <1>9
  <2>2. QED
    BY <1>1, <1>5, <1>7, <1>9, <2>1, SumIsExtensional
<1>10. QED
  BY <1>8, <1>9

Covered(n) ==
  \A d \in Datasets :
    /\ config.data[d].strategy # "sequential"
    /\ config.data[d].strategy = "unique" =>
         Share(n) <= ShareOf(config.data[d].rows, n, config.nodes) * Len(config.steps)

\* A row pays for all the steps of an iteration: those that are claimed, and those its
\* user has left.  Once the rows are spent, what remains is left to the users that are
\* in an iteration.
RowsLast(n) ==
  IF dry[n] THEN remaining[n] <= ToDo(n)
  ELSE remaining[n] = 0 \/ \A d \in Datasets : config.data[d].strategy = "unique" =>
                             cursor[n][d] * Len(config.steps) + remaining[n] <= Share(n) + ToDo(n)

Undisturbed(n) == ~aborted[n] /\ ~interrupted[n] /\ ~Crashed

CapacityInv ==
  Counted => \A n \in 0..(config.nodes - 1) :
    /\ unsent[n] > 0 => aborted[n]
    /\ Undisturbed(n) /\ Covered(n) => RowsLast(n)

\* The same for a node whose users do nothing but what leaves budget and rows alone.
LEMMA RowsLastElsewhere ==
  ASSUME NEW n, RowsLast(n), UNCHANGED config, ToDo(n)' = ToDo(n),
         remaining'[n] = remaining[n], dry'[n] = dry[n], cursor'[n] = cursor[n]
  PROVE  RowsLast(n)'
BY DEF RowsLast, Datasets, Share

LEMMA ClaimKeepsRows ==
  ASSUME NEW r \in Nat, NEW rr \in Nat, NEW t \in Nat, NEW tt \in Nat, NEW l \in Nat, NEW ll \in Nat,
         rr + l = r + ll, tt + l = t + ll
  PROVE  /\ r <= t => rr <= tt
         /\ \A c \in Nat, s \in Int : c + r <= s + t => c + rr <= s + tt
OBVIOUS

LEMMA UserKeepsCapacity ==
  ASSUME StopInv, StopInv', CapacityInv, NEW u, Ready(u), UserStep(u), Stepped(u)
  PROVE  CapacityInv'
<1> DEFINE m == NodeOf[u]
           steps == Len(config.steps)
<1>1. /\ u \in User /\ m \in AllNodes /\ u \in Mine(m) /\ 0..(config.nodes - 1) \subseteq AllNodes
      /\ m \in 0..(config.nodes - 1) /\ config.nodes \in Nat \ {0}
      /\ user \in [User -> UserState] /\ user' = [user EXCEPT ![u] = user'[u]]
      /\ UNCHANGED <<config, asked, stop, interrupted>> /\ LoopInv /\ LoopInv'
      /\ steps \in Nat
  BY ItsOwn, ConfigFacts DEF Ready, MayMove, ActorsTyped, Mine, Stepped, NotMine, nodeVars, Moved, StopInv
<1>2. stop[m] \/ u \in asked => interrupted[m]
  <2>1. u \in Living(m)
    BY <1>1, LivingIs DEF Stepped, In
  <2>2. QED
    BY <1>1, <2>1 DEF StopInv, RunnerInv, Quiet
<1>3. \A v \in User \ {u} : user'[v] = user[v]
  BY <1>1
<1>4. ~Crashed' => ~Crashed /\ user'[u].pc # "crashed"
  <2>1. user[u].pc # "crashed"
    BY DEF Stepped, Busy, Holding, Awaiting
  <2>2. QED
    BY <1>1, <1>3, <2>1 DEF Crashed
<1>5. /\ remaining \in [AllNodes -> Nat] /\ remaining' \in [AllNodes -> Nat]
      /\ unsent \in [AllNodes -> Nat] /\ aborted \in [AllNodes -> BOOLEAN]
      /\ dry \in [AllNodes -> BOOLEAN]
      /\ cursor \in [AllNodes -> [Datasets -> Nat]] /\ cursor' \in [AllNodes -> [Datasets -> Nat]]
      /\ remaining'[m] <= remaining[m]
      /\ remaining' = [remaining EXCEPT ![m] = remaining'[m]] /\ unsent' = [unsent EXCEPT ![m] = unsent'[m]]
      /\ aborted' \in {aborted, [aborted EXCEPT ![m] = TRUE]}
  BY <1>1 DEF LoopInv, TypeOK, FiguresTyped, RunTyped, Stepped, Claimed, MayAbort, Datasets
<1>6. \A n : /\ ToDo(n) \in Nat /\ ToDo(n)' \in Nat
             /\ u \in Mine(n) => ToDo(n)' + Left(user[u]) = ToDo(n) + Left(user'[u])
             /\ u \notin Mine(n) => ToDo(n)' = ToDo(n)
  <2>1. \A v \in User \ {u} : Left(user'[v]) = Left(user[v])
    BY <1>3
  <2>2. QED
    BY <1>1, <2>1, ToDoMoves
<1>7. Left(user[u]) \in Nat /\ Left(user'[u]) \in Nat
  <2>1. user[u] \in UserState /\ user'[u] \in UserState /\ RunTyped
    BY <1>1 DEF Stepped, Moved, Flow, LoopInv, TypeOK
  <2>2. QED
    BY <2>1, LeftIsNatural
<1> SUFFICES ASSUME Counted, NEW n \in 0..(config.nodes - 1)
             PROVE  /\ unsent'[n] > 0 => aborted'[n]
                    /\ Undisturbed(n)' /\ Covered(n) => RowsLast(n)'
  <2>1. \A k \in 0..(config.nodes - 1) : Covered(k)' <=> Covered(k)
    BY <1>1 DEF Covered, Datasets, Share
  <2>2. config' = config /\ (Counted' <=> Counted)
    BY <1>1 DEF Counted
  <2>3. SUFFICES ASSUME Counted
                 PROVE  \A k \in 0..(config.nodes - 1) :
                          /\ unsent'[k] > 0 => aborted'[k]
                          /\ Undisturbed(k)' /\ Covered(k)' => RowsLast(k)'
    BY <2>2 DEF CapacityInv
  <2>4. QED
    BY <2>1, <2>3
<1>8. /\ unsent[n] > 0 => aborted[n]
      /\ Undisturbed(n) /\ Covered(n) => RowsLast(n)
      /\ n \in AllNodes /\ Share(n) \in Int
  <2>1. Share(n) \in Int
    BY ConfigFacts DEF Share, ShareOf, StopInv, LoopInv, TypeOK
  <2>2. QED
    BY <1>1, <2>1 DEF CapacityInv
<1>9. aborted[n] => aborted'[n]
  BY <1>5, <1>8
<1>10. Undisturbed(n)' => Undisturbed(n) /\ user'[u].pc # "crashed"
  BY <1>1, <1>4, <1>9 DEF Undisturbed
<1>11. (Draw(u) /\ ~stop[m]) \/ (UNCHANGED dataVars /\ Spends(u))
  <2>1. CASE Draw(u) /\ stop[m]
    <3>1. UNCHANGED <<dataVars, loadVars>>
      BY <2>1 DEF Draw
    <3>2. QED
      BY <2>1, <3>1 DEF Spends, loadVars
  <2>2. CASE ~Draw(u)
    BY <2>2, StepsSpend DEF Stepped
  <2>3. QED
    BY <2>1, <2>2
<1>12. CASE n # m
  <2>1. u \notin Mine(n)
    BY <1>12 DEF Mine
  <2>2. remaining'[n] = remaining[n] /\ unsent'[n] = unsent[n] /\ aborted'[n] = aborted[n]
    BY <1>5, <1>8, <1>12
  <2>3. dry'[n] = dry[n] /\ cursor'[n] = cursor[n]
    BY <1>1, <1>8, <1>11, <1>12, DrawSpends DEF dataVars
  <2>4. ToDo(n)' = ToDo(n)
    BY <1>6, <2>1
  <2>5. QED
    BY <1>1, <1>8, <1>10, <2>2, <2>3, <2>4, RowsLastElsewhere
<1>13. CASE n = m
  <2> DEFINE l == Left(user[u])
             ll == Left(user'[u])
             t == ToDo(n)
             tt == ToDo(n)'
             r == remaining[n]
             rr == remaining'[n]
  <2>1. /\ l \in Nat /\ ll \in Nat /\ t \in Nat /\ tt \in Nat /\ r \in Nat /\ rr \in Nat
        /\ tt + l = t + ll /\ rr <= r
    BY <1>1, <1>5, <1>6, <1>7, <1>8, <1>13
  <2>2. RowsLast(n)' <=>
          IF dry'[n] THEN rr <= tt
          ELSE rr = 0 \/ \A d \in Datasets : config.data[d].strategy = "unique" =>
                           cursor'[n][d] * steps + rr <= Share(n) + tt
    BY <1>1 DEF RowsLast, Datasets, Share
  <2>3. RowsLast(n) <=>
          IF dry[n] THEN r <= t
          ELSE r = 0 \/ \A d \in Datasets : config.data[d].strategy = "unique" =>
                           cursor[n][d] * steps + r <= Share(n) + t
    BY DEF RowsLast
  <2>4. \A d \in Datasets : /\ cursor[n][d] \in Nat /\ cursor[n][d] * steps \in Nat
                            /\ (cursor[n][d] + 1) * steps = cursor[n][d] * steps + steps
    <3> TAKE d \in Datasets
    <3>1. cursor[n][d] \in Nat /\ steps \in Nat
      BY <1>1, <1>5, <1>8
    <3> DEFINE c == cursor[n][d]
    <3> HIDE DEF c, steps
    <3>2. c \in Nat /\ c <= c /\ steps \in Nat
      BY <3>1 DEF c
    <3>3. c * steps \in Nat /\ (c + 1) * steps = c * steps + steps
      BY <3>2, ProductGrows
    <3>4. QED
      BY <3>2, <3>3 DEF c
  <2>5. CASE UNCHANGED dataVars /\ Spends(u)
    <3>1. unsent'[n] > 0 => aborted'[n]
      BY <1>8, <1>9, <1>13, <2>5 DEF Spends
    <3>2. dry' = dry /\ cursor' = cursor
      BY <2>5 DEF dataVars
    <3>3. ASSUME Undisturbed(n)', Covered(n)
          PROVE  RowsLast(n)'
      <4>1. RowsLast(n) /\ (r = 0 \/ rr + l = r + ll)
        BY <1>1, <1>2, <1>8, <1>10, <1>13, <2>5, <3>3 DEF Spends, Undisturbed
      <4> HIDE DEF l, ll, t, tt, r, rr, steps
      <4>2. CASE r = 0
        <5>1. rr = 0 /\ rr <= tt
          BY <2>1, <4>2
        <5>2. QED
          BY <2>2, <5>1
      <4>3. CASE rr + l = r + ll /\ r # 0
        <5>1. /\ r <= t => rr <= tt
              /\ \A c \in Nat, s \in Int : c + r <= s + t => c + rr <= s + tt
          BY <2>1, <4>3, ClaimKeepsRows
        <5>2. CASE dry[n]
          BY <2>2, <2>3, <3>2, <4>1, <5>1, <5>2
        <5>3. CASE ~dry[n]
          <6>1. \A d \in Datasets : config.data[d].strategy = "unique" =>
                  cursor[n][d] * steps + rr <= Share(n) + tt
            BY <1>8, <2>3, <2>4, <4>1, <4>3, <5>1, <5>3
          <6>2. QED
            BY <2>2, <3>2, <5>3, <6>1
        <5>4. QED
          BY <5>2, <5>3
      <4>4. QED
        BY <4>1, <4>2, <4>3
    <3>4. QED
      BY <3>1, <3>3
  <2>6. CASE Draw(u) /\ ~stop[m]
    <3>1. /\ rr = r /\ unsent'[n] = unsent[n] /\ l = 0
          /\ \/ /\ dry'[n] /\ ll = 0
                /\ \E k \in Datasets : RowsAt(config.data[k], n, config.nodes, cursor[n][k]) = {0}
             \/ /\ dry' = dry /\ ll = steps
                /\ \A d \in Datasets : config.data[d].strategy = "unique" => cursor'[n][d] = cursor[n][d] + 1
      BY <1>1, <1>13, <2>6, DrawSpends
    <3>2. unsent'[n] > 0 => aborted'[n]
      BY <1>8, <1>9, <3>1
    <3>3. ASSUME Undisturbed(n)', Covered(n)
          PROVE  RowsLast(n)'
      <4>1. RowsLast(n)
        BY <1>8, <1>10, <3>3
      <4>2. CASE /\ dry'[n] /\ ll = 0
                 /\ \E k \in Datasets : RowsAt(config.data[k], n, config.nodes, cursor[n][k]) = {0}
        <5>1. PICK k \in Datasets : RowsAt(config.data[k], n, config.nodes, cursor[n][k]) = {0}
          BY <4>2
        <5> DEFINE share == ShareOf(config.data[k].rows, n, config.nodes)
                   c == cursor[n][k]
        <5>2. config.data[k].strategy = "unique" /\ share \in Nat /\ share <= c
          <6>1. /\ config.data[k].strategy \in Strategy /\ config.data[k].rows \in Nat \ {0}
                /\ config.data[k].strategy # "sequential"
            BY <3>3, ConfigFacts DEF Covered, LoopInv, TypeOK, StopInv
          <6>2. c \in Nat
            BY <2>4
          <6>3. QED
            BY <1>1, <5>1, <6>1, <6>2, SpentSlice
        <5>3. Share(n) <= share * steps
          BY <3>3, <5>2 DEF Covered
        <5>4. share * steps \in Nat /\ c * steps \in Nat /\ share * steps <= c * steps
          BY <1>1, <2>4, <5>2, ProductGrows
        <5> DEFINE spent == c * steps
                   given == share * steps
        <5>5. spent \in Nat /\ given \in Nat /\ given <= spent /\ Share(n) <= given
          BY <5>3, <5>4
        <5>6. CASE dry[n] \/ r = 0
          <6>1. r <= t
            BY <2>1, <2>3, <4>1, <5>6
          <6> HIDE DEF l, ll, t, tt, r, rr
          <6>2. rr <= tt
            BY <2>1, <3>1, <4>2, <6>1
          <6>3. QED
            BY <2>2, <4>2, <6>2
        <5>7. CASE ~dry[n] /\ r # 0
          <6>1. spent + r <= Share(n) + t
            BY <2>3, <4>1, <5>2, <5>7
          <6> HIDE DEF l, ll, t, tt, r, rr, spent, given
          <6>2. r <= t
            BY <1>8, <2>1, <5>5, <6>1
          <6>3. rr <= tt
            BY <2>1, <3>1, <4>2, <6>2
          <6>4. QED
            BY <2>2, <4>2, <6>3
        <5>8. QED
          BY <5>6, <5>7
      <4>3. CASE /\ dry' = dry /\ ll = steps
                 /\ \A d \in Datasets : config.data[d].strategy = "unique" => cursor'[n][d] = cursor[n][d] + 1
        <5> HIDE DEF l, ll, t, tt, r, rr, steps
        <5>1. tt = t + steps /\ rr = r
          BY <1>1, <2>1, <3>1, <4>3
        <5>2. CASE dry[n]
          <6>1. rr <= tt
            BY <1>1, <2>1, <2>3, <4>1, <5>1, <5>2
          <6>2. QED
            BY <2>2, <4>3, <5>2, <6>1
        <5>3. CASE ~dry[n] /\ r = 0
          BY <2>2, <4>3, <5>1, <5>3
        <5>4. CASE ~dry[n] /\ r # 0
          <6>1. ASSUME NEW d \in Datasets, config.data[d].strategy = "unique"
                PROVE  cursor'[n][d] * steps + rr <= Share(n) + tt
            <7> DEFINE spent == cursor[n][d] * steps
            <7>1. cursor'[n][d] * steps = spent + steps /\ spent \in Nat
              BY <2>4, <4>3, <6>1
            <7>2. spent + r <= Share(n) + t
              BY <2>3, <4>1, <5>4, <6>1
            <7> HIDE DEF spent
            <7>3. spent + steps + rr <= Share(n) + tt
              BY <1>1, <1>8, <2>1, <5>1, <7>1, <7>2
            <7>4. QED
              BY <7>1, <7>3
          <6>2. QED
            BY <2>2, <4>3, <5>4, <6>1
        <5>5. QED
          BY <5>2, <5>3, <5>4
      <4>4. QED
        BY <3>1, <4>2, <4>3
    <3>4. QED
      BY <3>2, <3>3
  <2>7. QED
    BY <1>11, <2>5, <2>6
<1>14. QED
  BY <1>12, <1>13

LEMMA AsideKeepsCapacity ==
  ASSUME StopInv, StopInv', CapacityInv, Aside, \A n \in AllNodes : interrupted[n] => interrupted'[n]
  PROVE  CapacityInv'
<1>1. UNCHANGED <<config, remaining, unsent, dry, cursor, aborted>> /\ LoopInv /\ LoopInv'
      /\ 0..(config.nodes - 1) \subseteq AllNodes
  BY ConfigFacts DEF Aside, dataVars, StopInv, LoopInv, TypeOK
<1>2. \A v \in User : user'[v] = user[v] \/ (user[v].pc = "unborn" /\ user'[v].pc = "created")
  BY BirthIsHarmless DEF StopInv, LoopInv, TypeOK, ActorsTyped
<1>3. Crashed' <=> Crashed
  BY <1>2 DEF Crashed
<1>4. \A v \in User : Left(user'[v]) = Left(user[v])
  BY <1>2, LeftInPlace
<1> SUFFICES ASSUME Counted, NEW n \in 0..(config.nodes - 1)
             PROVE  /\ unsent'[n] > 0 => aborted'[n]
                    /\ Undisturbed(n)' /\ Covered(n)' => RowsLast(n)'
  BY <1>1 DEF CapacityInv, Counted
<1>5. ToDo(n)' = ToDo(n)
  <2>1. PICK u \in config.users : NodeOf[u] = n
    BY ConfigFacts DEF StopInv, LoopInv, TypeOK
  <2>2. u \in User /\ u \in Mine(n) /\ Left(user'[u]) = Left(user[u]) /\ Left(user[u]) \in Nat
    <3>1. u \in User /\ RunTyped /\ user[u] \in UserState
      BY ConfigFacts DEF StopInv, LoopInv, TypeOK, ActorsTyped
    <3>2. QED
      BY <1>4, <2>1, <3>1, LeftIsNatural DEF Mine
  <2>3. /\ ToDo(n) \in Nat /\ ToDo(n)' \in Nat
        /\ ToDo(n)' + Left(user[u]) = ToDo(n) + Left(user'[u])
    BY <1>1, <1>4, <2>2, ToDoMoves
  <2>4. QED
    BY <2>2, <2>3
<1>6. Undisturbed(n)' => Undisturbed(n)
  BY <1>1, <1>3 DEF Undisturbed
<1>7. Covered(n)' <=> Covered(n)
  BY <1>1 DEF Covered, Datasets, Share
<1>8. RowsLast(n) => RowsLast(n)'
  BY <1>1, <1>5, RowsLastElsewhere
<1>9. QED
  BY <1>1, <1>6, <1>7, <1>8 DEF CapacityInv

LEMMA CapacityInit ==
  ASSUME Init
  PROVE  CapacityInv
<1>1. StopInv /\ LoopInv /\ RunTyped /\ 0..(config.nodes - 1) \subseteq AllNodes
  BY StopInit, ConfigFacts DEF StopInv, LoopInv, TypeOK
<1> SUFFICES ASSUME Counted, NEW n \in 0..(config.nodes - 1)
             PROVE  unsent[n] = 0 /\ RowsLast(n)
  BY DEF CapacityInv
<1>2. n \in AllNodes /\ n < config.nodes /\ Len(config.steps) \in Nat
  BY <1>1, ConfigFacts
<1>3. remaining[n] = Share(n) /\ unsent[n] = 0 /\ ~dry[n] /\ cursor[n] = [d \in Datasets |-> 0]
  BY <1>2 DEF Init, Share
<1>4. remaining[n] \in Nat
  BY <1>1, <1>2 DEF LoopInv, TypeOK, FiguresTyped
<1>5. ToDo(n) \in Nat
  <2>1. Mine(n) \subseteq User /\ IsFiniteSet(Mine(n))
    BY <1>1, ConfigFacts, ScenarioAssumption, FS_Subset DEF Mine
  <2>2. \A v \in Mine(n) : Tally[v] \in Nat
    BY <1>1, <2>1, LeftIsNatural DEF Tally, LoopInv, TypeOK, ActorsTyped
  <2>3. QED
    BY <2>1, <2>2, SumIsNatural DEF ToDo
<1>6. \A d \in Datasets : cursor[n][d] * Len(config.steps) = 0
  BY <1>2, <1>3
<1>7. QED
  BY <1>3, <1>4, <1>5, <1>6 DEF RowsLast

LEMMA CapacityIsKept == Spec => [](BudgetInv /\ CapacityInv)
<1>1. Init => BudgetInv /\ CapacityInv
  BY BudgetInit, CapacityInit
<1>2. BudgetInv /\ CapacityInv /\ [Next]_vars => BudgetInv' /\ CapacityInv'
  <2> SUFFICES ASSUME BudgetInv, CapacityInv, [Next]_vars
               PROVE  CapacityInv'
    BY BudgetStep
  <2>1. StopInv /\ StopInv' /\ LoopInv /\ TypeOK
    BY BudgetStep DEF BudgetInv, StopInv, LoopInv
  <2>2. CASE Next
    <3>1. CASE \E u \in config.users : UserStep(u)
      BY <2>1, <3>1, StepsAreReady, UserSteps, UserKeepsCapacity
    <3>2. CASE (\E n \in AllNodes : RunnerStep(n) \/ Interrupt(n)) \/ DurationElapses
      BY <2>1, <3>2, RunnerIsAside, DurationIsAside, InterruptionsLast, AsideKeepsCapacity
    <3>3. QED
      BY <2>1, <2>2, <3>1, <3>2, StepsOfTheRun
  <2>3. CASE UNCHANGED vars
    <3>1. UNCHANGED <<config, user, remaining, unsent, dry, cursor, aborted, interrupted>>
      BY <2>3 DEF vars, nodeVars, loadVars, dataVars
    <3>2. QED
      BY <3>1, ZenonT(60) DEF CapacityInv, Counted, Undisturbed, Crashed, Covered, RowsLast, ToDo, Tally, Left, Mine, Share, Datasets
  <2>4. QED
    BY <2>2, <2>3
<1>3. QED
  BY <1>1, <1>2, PTL DEF Spec

\* A check that rounds the iterations up leaves no request without a row, on one node.
LEMMA EnoughForOne ==
  ASSUME NEW set, set.strategy = "unique", set.rows \in Nat, NEW requests_ \in Nat, NEW steps \in Nat \ {0},
         LargeEnough(set, 0, requests_, steps, 1)
  PROVE  ShareOf(requests_, 0, 1) <= ShareOf(set.rows, 0, 1) * steps
<1> DEFINE needed == (requests_ + steps - 1) \div steps
           rest == (requests_ + steps - 1) % steps
<1>1. \A k \in Nat : ShareOf(k, 0, 1) = k
  <2> TAKE k \in Nat
  <2>1. k \div 1 = k /\ k % 1 = 0
    OBVIOUS
  <2>2. QED
    BY <2>1 DEF ShareOf
<1>2. CASE requests_ = 0
  <2>1. set.rows * steps \in Nat
    BY ProductGrows
  <2>2. QED
    BY <1>1, <1>2, <2>1
<1>3. CASE requests_ > 0
  <2>1. set.rows >= needed
    <3>1. set.rows >= AtLeast(AtLeast(1, 0) * AtLeast(1, 1), needed)
      BY <1>3 DEF LargeEnough, Needed
    <3>2. needed \in Nat /\ AtLeast(1, 0) = 1 /\ AtLeast(1, 1) = 1
      BY DEF AtLeast
    <3> HIDE DEF needed
    <3>3. QED
      BY <3>1, <3>2 DEF AtLeast
  <2>2. /\ needed \in Nat /\ rest \in 0..(steps - 1)
        /\ requests_ + steps - 1 = steps * needed + rest
    BY <1>3
  <2> HIDE DEF needed, rest
  <2>3. needed * steps \in Nat /\ set.rows * steps \in Nat /\ needed * steps <= set.rows * steps
    BY <2>1, <2>2, ProductGrows
  <2>4. steps * needed = needed * steps
    BY <2>2
  <2> DEFINE a == needed * steps
             b == set.rows * steps
  <2>5. a \in Nat /\ b \in Nat /\ a <= b /\ requests_ + steps - 1 = a + rest
    BY <2>2, <2>3, <2>4
  <2> HIDE DEF a, b
  <2>6. requests_ <= b
    BY <2>2, <2>5
  <2>7. QED
    BY <1>1, <2>6 DEF b
<1>4. QED
  BY <1>2, <1>3

\* A run of -n whose unique data sets the check at its start has let pass makes all its
\* requests, unless somebody interrupts it or an iteration is aborted: a row pays for a
\* whole iteration, so when the rows are spent, the users that are still in one have
\* enough steps left for what remains.
THEOREM RowsLastForTheBudget == Spec => []CapacityIsEnough
<1>1. BudgetInv /\ CapacityInv /\ ShortfallIsExplained => CapacityIsEnough
  <2> SUFFICES ASSUME BudgetInv, CapacityInv, ShortfallIsExplained,
                      \A d \in Datasets :
                        /\ config.data[d].strategy # "sequential"
                        /\ LargeEnough(config.data[d], 0, config.requests, Len(config.steps), config.nodes)
                        /\ config.nodes = 1 \/ SlicesCover(config.data[d]),
                      NEW n \in 0..(config.nodes - 1),
                      Counted, runner[n] = "reported", ~aborted[n], ~interrupted[n], ~Crashed
               PROVE  requests[n] = Share(n)
    BY DEF CapacityIsEnough
  <2>1. /\ StopInv /\ LoopInv /\ RunTyped /\ n \in AllNodes /\ Mine(n) \subseteq User
        /\ config.nodes \in Nat \ {0} /\ Len(config.steps) \in Nat \ {0} /\ config.requests \in Nat
        /\ \A d \in Datasets : config.data[d].rows \in Nat
    BY ConfigFacts DEF BudgetInv, StopInv, LoopInv, TypeOK, Mine
  <2>2. Covered(n)
    <3> SUFFICES ASSUME NEW d \in Datasets, config.data[d].strategy = "unique"
                 PROVE  Share(n) <= ShareOf(config.data[d].rows, n, config.nodes) * Len(config.steps)
      BY DEF Covered
    <3>1. CASE config.nodes = 1
      <4>1. n = 0
        BY <3>1
      <4>2. LargeEnough(config.data[d], 0, config.requests, Len(config.steps), 1)
        BY <3>1
      <4>3. ShareOf(config.requests, 0, 1) <= ShareOf(config.data[d].rows, 0, 1) * Len(config.steps)
        BY <2>1, <4>2, EnoughForOne
      <4>4. QED
        BY <3>1, <4>1, <4>3 DEF Share
    <3>2. CASE SlicesCover(config.data[d])
      BY <3>2 DEF SlicesCover
    <3>3. QED
      BY <3>1, <3>2
  <2>3. RowsLast(n) /\ unsent[n] = 0
    <3>1. unsent[n] \in Nat
      BY <2>1 DEF LoopInv, TypeOK, FiguresTyped
    <3>2. QED
      BY <2>2, <3>1 DEF CapacityInv, Undisturbed
  <2>4. Living(n) = {} /\ In(Mine(n), Flying) = {}
    <3>1. Living(n) = {}
      BY <2>1 DEF StopInv, RunnerInv, Quiet
    <3>2. In(Mine(n), Flying) \subseteq Living(n)
      BY <2>1, LivingIs DEF In, Flying, Busy, Awaiting, Holding
    <3>3. QED
      BY <3>1, <3>2
  <2>5. ToDo(n) = 0
    <3>1. \A v \in Mine(n) : user[v].pc \in {"gone", "cancelled", "crashed", "unborn"}
      BY <2>4 DEF Living, Ended
    <3>2. \A v \in Mine(n) : Tally[v] = 0
      BY <2>1, <3>1, LeftInPlace DEF Tally
    <3>3. IsFiniteSet(Mine(n)) /\ {} \in SUBSET Mine(n)
      BY <2>1, ScenarioAssumption, FS_Subset
    <3>4. ToDo(n) = SumFunctionOnSet(Tally, {})
      BY <3>2, <3>3, SumIgnoresZeros DEF ToDo
    <3>5. QED
      BY <3>4, SumOfNothing
  <2>6. /\ remaining[n] \in Nat /\ requests[n] \in Nat
    BY <2>1 DEF LoopInv, TypeOK, FiguresTyped
  <2>7. requests[n] + unsent[n] = Share(n) \/ dry[n]
    BY DEF ShortfallIsExplained
  <2>8. CASE dry[n]
    <3>1. remaining[n] = 0
      BY <2>3, <2>5, <2>6, <2>8 DEF RowsLast
    <3>2. Account(n) + Cardinality(In(Mine(n), Flying)) = Share(n)
      BY DEF BudgetInv, ClaimInv
    <3>3. Cardinality(In(Mine(n), Flying)) = 0
      BY <2>4, FS_EmptySet
    <3>4. QED
      BY <2>3, <2>6, <3>1, <3>2, <3>3 DEF Account
  <2>9. CASE requests[n] + unsent[n] = Share(n)
    BY <2>3, <2>6, <2>9
  <2>10. QED
    BY <2>7, <2>8, <2>9
<1>2. QED
  BY <1>1, CapacityIsKept, BudgetIsAccountedFor, PTL

===============================================================================
