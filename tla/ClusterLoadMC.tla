----------------------------- MODULE ClusterLoadMC -----------------------------
(* Instance of ClusterLoad for TLC: two nodes, one of them with two tasks for  *)
(* the two requests of its share.                                             *)
EXTENDS ClusterLoad

CONSTANTS n1, n2, w1, w2

OpenSecrets == [n \in Node |-> NoSecret]
FreshNonces == [n \in Node |-> "fresh"]
===============================================================================
