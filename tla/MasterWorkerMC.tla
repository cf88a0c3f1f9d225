---------------------------- MODULE MasterWorkerMC ----------------------------
(***************************************************************************)
(* Small clusters of the distributed mode, for TLC.                         *)
(***************************************************************************)
EXTENDS MasterWorker

CONSTANTS n1, n2, n3, n4, s1, s2

\* Nobody has a secret.
OpenSecrets == [n \in Node |-> NoSecret]
\* Everybody has the master's.
SharedSecrets == [n \in Node |-> s1]
\* All nodes but the third have the master's secret.
MixedSecrets == [n \in Node |-> IF n = n3 THEN s2 ELSE s1]

\* All nodes are of this release.
FreshNonces == [n \in Node |-> "fresh"]
\* The second and the third are of an older release, the fourth of another make.
MixedNonces ==
  [n \in Node |-> CASE n \in {n2, n3} -> "none" [] n = n4 -> "malformed" [] OTHER -> "fresh"]
===============================================================================
