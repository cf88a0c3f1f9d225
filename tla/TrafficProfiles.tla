---------------------------- MODULE TrafficProfiles ----------------------------
(***************************************************************************)
(* --traffic-profile, traffic_profiles.py: which specifications and CSV      *)
(* files are accepted, the rate a profile calls for at each moment, and how  *)
(* it reaches the nodes of a cluster (distributed.py).  A rate is a fraction  *)
(* <<n, d>>, d > 0; times are whole ticks.  The trigonometric curves of sine  *)
(* and business-hours are left out.                                          *)
(***************************************************************************)
EXTENDS Integers, Sequences

Refused == <<>>

Product(x, y) == <<x[1] * y[1], x[2] * y[2]>>
Total(x, y) == <<x[1] * y[2] + y[1] * x[2], x[2] * y[2]>>
Rest(x) == <<x[2] - x[1], x[2]>>      \* 1 - x
Equal(x, y) == x[1] * y[2] = y[1] * x[2]
Less(x, y) == x[1] * y[2] < y[1] * x[2]

-------------------------------------------------------------------------------
(* Which profiles there are.                                                  *)

\* The parameters of the constructors and their defaults.
Defaults ==
  [sawtooth |-> [cycles |-> <<3, 1>>, min_factor |-> <<1, 10>>],
   square   |-> [cycles |-> <<3, 1>>, low_factor |-> <<1, 5>>],
   spike    |-> [interval |-> <<10, 1>>, spike_dur |-> <<2, 1>>,
                 multiplier |-> <<5, 1>>, baseline |-> <<1, 5>>]]

Alias(key) == IF key = "min" THEN "min_factor" ELSE IF key = "low" THEN "low_factor" ELSE key

InRange(key, x) ==
  CASE key \in {"min_factor", "low_factor"} -> 0 <= x[1] /\ x[1] <= x[2]
    [] key \in {"interval", "spike_dur"}    -> x[1] > 0
    [] key \in {"multiplier", "baseline"}   -> x[1] >= 0
    [] OTHER                                -> TRUE

\* A parameter that is no number is Refused.
Built(spec) ==
  LET known == Defaults[spec.name]
      names(key) == {k \in DOMAIN spec.params : Alias(k) = key}
      value == [key \in DOMAIN known |->
                  IF names(key) = {} THEN known[key] ELSE spec.params[CHOOSE k \in names(key) : TRUE]]
  IN  IF \E k \in DOMAIN spec.params :
           Alias(k) \notin DOMAIN known \/ spec.params[k] = Refused \/ ~InRange(Alias(k), spec.params[k])
      THEN Refused
      ELSE [kind |-> spec.name, spec |-> spec, value |-> value]

\* StepProfile, whose parameter is its list of levels.
Stepped(spec) ==
  IF spec.levels = <<>> \/ \E i \in DOMAIN spec.levels : spec.levels[i] < 0
  THEN Refused
  ELSE [kind |-> "step", spec |-> spec, levels |-> spec.levels]

\* The rows of two numbers, in the order of the file.
Points(rows) ==
  LET read[i \in 0..Len(rows)] ==
        IF i = 0 THEN <<>>
        ELSE IF rows[i].kind = "pair" THEN Append(read[i - 1], rows[i]) ELSE read[i - 1]
  IN  read[Len(rows)]

\* CsvProfile._load of a file of rows: "pair" for two numbers, "multiplier" and "rate"
\* for words, with and without the word that makes the column a factor, "short" for
\* less than two cells.  Words are a header in the first row and an error below it.
Loaded(rows) ==
  LET headed == rows # <<>> /\ rows[1].kind \in {"multiplier", "rate"}
      body == IF headed THEN Tail(rows) ELSE rows
      points == Points(body)
  IN  IF \/ points = <<>>
         \/ \E i \in DOMAIN body : body[i].kind \in {"multiplier", "rate"}
         \/ \E i \in 2..Len(points) : points[i].time < points[i - 1].time
      THEN Refused
      ELSE [kind |-> "csv", points |-> points, multiplier |-> headed /\ rows[1].kind = "multiplier"]

\* parse_traffic_profile.
Parsed(spec) ==
  CASE spec.name = "csv"             -> Loaded(spec.file)
    [] spec.name = "step"            -> Stepped(spec)
    [] spec.name \in DOMAIN Defaults -> Built(spec)
    [] OTHER                         -> Refused

-------------------------------------------------------------------------------
(* The rate a profile calls for.                                              *)

\* Where the run is in the cycles of its profile: a fraction below 1.
CyclePosition(cycles, elapsed, duration) ==
  <<(elapsed * cycles[1]) % (duration * cycles[2]), duration * cycles[2]>>

StepRate(levels, elapsed, duration) ==
  LET n == Len(levels)
      index == IF duration <= 0 THEN 0 ELSE (elapsed * n) \div duration
  IN  <<levels[1 + IF index < n THEN index ELSE n - 1], 1>>

SawtoothRate(value, elapsed, duration, base) ==
  LET position == CyclePosition(value.cycles, elapsed, duration)
  IN  Product(base, Total(value.min_factor, Product(Rest(value.min_factor), position)))

SquareRate(value, elapsed, duration, base) ==
  IF Less(CyclePosition(value.cycles, elapsed, duration), <<1, 2>>) THEN base ELSE Product(base, value.low_factor)

SpikeRate(value, elapsed, base) ==
  LET phase == <<(elapsed * value.interval[2]) % value.interval[1], value.interval[2]>>
  IN  Product(base, IF Less(phase, value.spike_dur) THEN value.multiplier ELSE value.baseline)

\* The pairs of bounds of a search.
Windows(points) == (DOMAIN points) \X (DOMAIN points)

\* Fault variant: the half that holds the moment is lost.
SegmentNarrowed(points, elapsed) ==
  LET between[w \in Windows(points)] ==
        LET mid == (w[1] + w[2]) \div 2
        IN  IF w[1] >= w[2] - 1 THEN w
            ELSE between[IF points[mid].time <= elapsed THEN <<mid, w[2]>> ELSE <<w[1], mid - 1>>]
  IN  between[<<1, Len(points)>>]

\* The binary search for the two points around a moment between the first and the last.
Segment(points, elapsed) ==
  LET between[w \in Windows(points)] ==
        LET mid == (w[1] + w[2]) \div 2
        IN  IF w[1] >= w[2] - 1 THEN w
            ELSE between[IF points[mid].time <= elapsed THEN <<mid, w[2]>> ELSE <<w[1], mid>>]
  IN  between[<<1, Len(points)>>]

\* CsvProfile.rate_at: the ends are held, and the points joined by lines.
CsvValue(points, elapsed) ==
  LET first == points[1]
      last == points[Len(points)]
      around == Segment(points, elapsed)
      p == points[around[1]]
      q == points[around[2]]
  IN  IF elapsed <= first.time THEN <<first.value, 1>>
      ELSE IF elapsed >= last.time THEN <<last.value, 1>>
      ELSE IF p.time = q.time THEN <<p.value, 1>>
      ELSE <<p.value * (q.time - p.time) + (q.value - p.value) * (elapsed - p.time), q.time - p.time>>

\* rate_at of each profile.  A run without -d has duration 0, which only the cyclic
\* profiles look at before anything else.
RateAt(profile, elapsed, duration, base) ==
  CASE profile.kind = "step" -> StepRate(profile.levels, elapsed, duration)
    [] profile.kind = "csv" -> LET raw == CsvValue(profile.points, elapsed)
                               IN  IF profile.multiplier THEN Product(base, raw) ELSE raw
    [] profile.kind = "spike" -> SpikeRate(profile.value, elapsed, base)
    [] profile.kind = "square" ->
         IF duration <= 0 THEN base ELSE SquareRate(profile.value, elapsed, duration, base)
    [] profile.kind = "sawtooth" ->
         IF duration <= 0 THEN base ELSE SawtoothRate(profile.value, elapsed, duration, base)

\* RateLimiter._current_rate, once the clock has started: a profile goes before a
\* linear ramp, and that before the fixed rate.
CurrentRate(limiter, elapsed) ==
  CASE limiter.profile # Refused ->
         RateAt(limiter.profile, elapsed, limiter.duration, limiter.rate)
    [] limiter.profile = Refused /\ limiter.end # Refused /\ limiter.duration > 0 ->
         LET progress == IF elapsed < limiter.duration THEN <<elapsed, limiter.duration>> ELSE <<1, 1>>
         IN  Total(Product(limiter.rate, Rest(progress)), Product(limiter.end, progress))
    [] OTHER -> limiter.rate

-------------------------------------------------------------------------------
(* Across a cluster.                                                          *)

\* _serialize_traffic_profile: the points of a file, the specification of another.
Sent(profile) ==
  IF profile.kind = "csv" THEN profile ELSE [kind |-> "spec", spec |-> profile.spec]

\* _deserialize_traffic_profile.
Received(wire) == IF wire.kind = "csv" THEN wire ELSE Parsed(wire.spec)

\* The limiter of one of count nodes: _shard_config_load divides the rates.
NodeLimiter(limiter, count) ==
  LET part(rate) == IF rate = Refused THEN Refused ELSE <<rate[1], rate[2] * count>>
  IN  [limiter EXCEPT !.rate = part(@), !.end = part(@),
                      !.profile = IF @ = Refused THEN Refused ELSE Received(Sent(@))]

\* What all nodes together send.
ClusterRate(limiter, elapsed, count) ==
  Product(<<count, 1>>, CurrentRate(NodeLimiter(limiter, count), elapsed))
===============================================================================
