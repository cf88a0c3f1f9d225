------------------------------ MODULE ShapedLoad ------------------------------
(***************************************************************************)
(* The clock of a RateLimiter and the profiles its rate may come from, on    *)
(* one node and on several.                                                  *)
(***************************************************************************)
EXTENDS RateLimiter, TrafficProfiles

CONSTANTS
  Specs,     \* the specifications that are looked at
  Base,      \* --rate
  Nodes      \* how many nodes there are

Fraction == Int \X (Nat \ {0})
Row == [kind : {"pair", "multiplier", "rate", "short"}, time : Int, value : Int]

\* What a specification names: a file of rows, a list of levels, or the parameters of
\* another profile, each a number or not.
SpecKind(s) ==
  CASE s.name = "csv"  -> s.file \in Seq(Row)
    [] s.name = "step" -> s.levels \in Seq(Int)
    [] OTHER           -> \A k \in DOMAIN s.params : s.params[k] = Refused \/ s.params[k] \in Fraction

ASSUME ShapedAssumption ==
  /\ Base \in Nat /\ Nodes \in Nat \ {0}
  /\ \A s \in Specs : SpecKind(s)

Shaped(profile) == [rate |-> <<Base, 1>>, end |-> Refused, profile |-> profile, duration |-> Duration]
Ramped(end) == [rate |-> <<Base, 1>>, end |-> <<end, 1>>, profile |-> Refused, duration |-> Duration]
Profiles == {Parsed(s) : s \in Specs} \ {Refused}

\* Step levels and a column of rates are absolute; everything else is a part of --rate.
Relative(p) == p.kind # "step" /\ (p.kind = "csv" => p.multiplier)

\* "Values are linearly interpolated between points", and held at the ends (README,
\* CsvProfile): the value at a moment is on the line of the points around it.
OnTheLine(points, elapsed, x) ==
  /\ elapsed <= points[1].time => Equal(x, <<points[1].value, 1>>)
  /\ \A i \in 1..(Len(points) - 1) :
       LET p == points[i]
           q == points[i + 1]
       IN  points[1].time < elapsed /\ p.time <= elapsed /\ elapsed < q.time =>
             Equal(Product(x, <<q.time - p.time, 1>>),
                   <<p.value * (q.time - elapsed) + q.value * (elapsed - p.time), 1>>)
  /\ elapsed >= points[Len(points)].time /\ elapsed > points[1].time =>
       Equal(x, <<points[Len(points)].value, 1>>)

Elapsed == now - start

\* The limiter asks for the rate the CSV file draws, whatever the number of its points
\* and their repeated times; and the nodes of a cluster together ask for the rate of
\* one, where the profile is a part of --rate or there is none ("--master
\* --traffic-profile sine really does produce a sine across the cluster", README).
RateIsAsDrawn ==
  start # NotStarted =>
    /\ \A p \in Profiles :
         /\ p.kind = "csv" => OnTheLine(p.points, Elapsed, CsvValue(p.points, Elapsed))
         /\ Relative(p) =>
              Equal(ClusterRate(Shaped(p), Elapsed, Nodes), CurrentRate(Shaped(p), Elapsed))
    /\ \A end \in {0, Base, 3 * Base} :
         Equal(ClusterRate(Ramped(end), Elapsed, Nodes), CurrentRate(Ramped(end), Elapsed))

\* "The master splits the workload evenly across workers" (README): the nodes together
\* ask for the rate that one would ask for, with every profile.
ClusterKeepsTheRate ==
  start # NotStarted =>
    \A p \in Profiles : Equal(ClusterRate(Shaped(p), Elapsed, Nodes), CurrentRate(Shaped(p), Elapsed))
===============================================================================
