----------------------------- MODULE RateLimiterMC -----------------------------
(* Instance of RateLimiter for TLC: three workers, a profile that slows down,  *)
(* stops and comes back faster; beside it files of one to seven points, with   *)
(* jumps, and the built-in profiles, as two nodes would follow them.           *)
EXTENDS ShapedLoad, TLC

CONSTANTS c1, c2, c3

MCCaller == {c1, c2, c3}
Symmetry == Permutations(MCCaller)

\* Rates in requests per six ticks.
MCProfile == Parsed([name |-> "step", levels |-> <<6, 2, 3, 0, 0, 0, 6>>])
MCInterval ==
  [t \in 0..6 |-> LET rate == RateAt(MCProfile, t, 7, <<6, 1>>)
                  IN  IF rate[1] = 0 THEN 0 ELSE (6 * rate[2]) \div rate[1]]

Headed(kind) == [kind |-> kind, time |-> 0, value |-> 0]
Pair(t, v) == [kind |-> "pair", time |-> t, value |-> v]
MCTimes == {<<0>>, <<3>>, <<0, 6>>, <<2, 2>>, <<1, 1, 5>>, <<0, 3, 3>>, <<0, 2, 4, 6>>, <<0, 3, 3, 6>>, <<1, 2, 2, 2, 5>>,
            <<0, 1, 2, 3, 4, 5, 6>>, <<0, 1, 1, 4, 4, 5>>, <<4, 2>>}
MCValue == [i \in 1..7 |-> (5 * i) % 7]
Curve(times) == [i \in DOMAIN times |-> Pair(times[i], MCValue[i])]
MCFiles ==
  {heading \o Curve(times) : heading \in {<<>>, <<Headed("rate")>>, <<Headed("multiplier")>>, <<Headed("short")>>}, times \in MCTimes}
    \cup {<<>>, <<Headed("rate")>>, <<Pair(0, 1), Headed("rate")>>, <<Pair(0, 3), Headed("short"), Pair(4, 1)>>}

MCSpecs ==
  {[name |-> "csv", file |-> f] : f \in MCFiles}
    \cup {[name |-> "step", levels |-> l] : l \in {<<>>, <<3>>, <<1, 5, 2>>, <<1, -1>>}}
    \cup {[name |-> n, params |-> <<>>] : n \in {"sawtooth", "square", "spike", "wave"}}
    \cup {[name |-> "sawtooth", params |-> [cycles |-> <<5, 2>>, min |-> <<0, 1>>]],
          [name |-> "sawtooth", params |-> [cycles |-> Refused]],
          [name |-> "square", params |-> [duty |-> <<1, 2>>]],
          [name |-> "square", params |-> [cycles |-> <<1, 1>>, low_factor |-> <<1, 2>>]],
          [name |-> "square", params |-> [cycles |-> <<2, 1>>, low |-> <<3, 2>>]],
          [name |-> "spike", params |-> [interval |-> <<3, 1>>, spike_dur |-> <<1, 1>>]]}
===============================================================================
