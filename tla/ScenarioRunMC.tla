---------------------------- MODULE ScenarioRunMC ----------------------------
(***************************************************************************)
(* Small runs of ScenarioRun: which users, on which node, with which steps,  *)
(* data and options.                                                         *)
(***************************************************************************)
EXTENDS ScenarioRun

CONSTANTS u1, u2, u3

MCUser == {u1, u2, u3}
MCNodeOf == [u \in MCUser |-> IF u = u3 THEN 1 ELSE 0]

Plain == [ws |-> FALSE, extract |-> FALSE, uses |-> FALSE, sends |-> FALSE]
Login == [Plain EXCEPT !.extract = TRUE]
Authorized == [Plain EXCEPT !.uses = TRUE]
Socket == [Plain EXCEPT !.ws = TRUE]
Subscribe == [Socket EXCEPT !.sends = TRUE]

Unique(rows) == [strategy |-> "unique", rows |-> rows]
Loop(rows) == [strategy |-> "loop", rows |-> rows]
Sequential(rows) == [strategy |-> "sequential", rows |-> rows]

\* A simulation of two users for a duration, flat out and without data.
Base == [simulation |-> TRUE, scripted |-> TRUE, steps |-> <<Login, Authorized>>,
         load |-> "timed", requests |-> 0, ramp |-> FALSE, rate |-> FALSE, think |-> FALSE,
         abort |-> TRUE, keep |-> FALSE, nodes |-> 1, users |-> {u1, u2}, data |-> <<>>]
CountOf(n) == [Base EXCEPT !.simulation = FALSE, !.load = "count", !.requests = n]

MCConfigs == {
  [Base EXCEPT !.steps = <<Login>>, !.rate = TRUE, !.think = TRUE, !.ramp = TRUE],
  [Base EXCEPT !.scripted = FALSE, !.rate = TRUE, !.think = TRUE],
  [Base EXCEPT !.scripted = FALSE, !.ramp = TRUE],
  [Base EXCEPT !.steps = <<Login, Authorized, Socket>>, !.abort = FALSE, !.simulation = FALSE],
  [Base EXCEPT !.steps = <<Login, Authorized>>, !.abort = FALSE, !.keep = TRUE],
  [Base EXCEPT !.steps = <<Login, Subscribe>>, !.abort = FALSE],
  [Base EXCEPT !.steps = <<Authorized>>],
  [Base EXCEPT !.steps = <<Plain, Plain>>, !.ramp = TRUE],
  [Base EXCEPT !.steps = <<Plain>>, !.data = <<Unique(3), Sequential(2), Loop(2)>>],
  [Base EXCEPT !.steps = <<Plain>>, !.data = <<Unique(3), Sequential(5)>>, !.nodes = 2, !.users = {u1, u3}],
  [CountOf(3) EXCEPT !.rate = TRUE],
  [CountOf(4) EXCEPT !.steps = <<Socket, Login>>],
  [CountOf(3) EXCEPT !.steps = <<Plain, Plain>>, !.data = <<Unique(1)>>],
  [CountOf(3) EXCEPT !.steps = <<Plain, Plain>>, !.data = <<Unique(2)>>],
  [CountOf(5) EXCEPT !.steps = <<Plain, Plain>>, !.data = <<Unique(3)>>],
  [CountOf(6) EXCEPT !.steps = <<Plain, Plain>>, !.data = <<Loop(2), Unique(4)>>, !.nodes = 2, !.users = {u1, u3}]
}
===============================================================================
