------------------------------ MODULE ClusterRun ------------------------------
(***************************************************************************)
(* What a distributed run promises whoever reads the master's exit code,    *)
(* without saying how the nodes and the master talk.  The load is cut into  *)
(* shards; every shard is settled exactly once, either because its node's   *)
(* numbers were counted, because it was charged to a node that failed, or   *)
(* because what its node said broke the collection; and one verdict is      *)
(* given, which ignores what was counted only if the collection broke       *)
(* (run_master, README "Distributed Mode").                                 *)
(***************************************************************************)
EXTENDS Integers

CONSTANTS
  Shard,          \* the parts of the load, one per expected worker
  AllowPartial    \* --allow-partial

NoCode == -1

VARIABLES
  outcome,        \* what became of each shard
  verdict,        \* "open" until the run ends
  exitCode        \* of the master's process, NoCode while the run is open

vars == <<outcome, verdict, exitCode>>

TypeOK ==
  /\ outcome \in [Shard -> {"pending", "counted", "charged", "garbled"}]
  /\ verdict \in {"open", "reported", "noresult", "raised"}
  /\ exitCode \in {NoCode, 0, 1, 2, 3}

Whole == \A s \in Shard : outcome[s] = "counted"

Init ==
  /\ outcome = [s \in Shard |-> "pending"]
  /\ verdict = "open"
  /\ exitCode = NoCode

\* A shard's numbers arrive, its node fails, or it says what nothing understands.
Settle(s) ==
  /\ verdict = "open"
  /\ outcome[s] = "pending"
  /\ \E o \in {"counted", "charged", "garbled"} : outcome' = [outcome EXCEPT ![s] = o]
  /\ UNCHANGED <<verdict, exitCode>>

\* The numbers are reported once every shard is settled.  Success needs the
\* whole load, unless a partial run was explicitly accepted.
Report ==
  /\ verdict = "open"
  /\ \A s \in Shard : outcome[s] \notin {"pending", "garbled"}
  /\ \E s \in Shard : outcome[s] = "counted"
  /\ verdict' = "reported"
  /\ exitCode' \in {0, 1, 2, 3}
  /\ exitCode' = 0 => Whole \/ AllowPartial
  /\ UNCHANGED outcome

\* A run ends without a report only if there is nothing to report, or the
\* collection broke; it says that there are no results only if there are none.
GiveUp ==
  /\ verdict = "open"
  /\ verdict' \in {"noresult", "raised"}
  /\ \/ \A s \in Shard : outcome[s] # "counted"
     \/ verdict' = "raised" /\ \E s \in Shard : outcome[s] = "garbled"
  /\ exitCode' = 1
  /\ UNCHANGED outcome

Next == Report \/ GiveUp \/ \E s \in Shard : Settle(s)

Safety == Init /\ [][Next]_vars
===============================================================================
