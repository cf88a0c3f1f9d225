-------------------------- MODULE ProgressPipelineMC --------------------------
(* Instance of ProgressPipeline for TLC: one node that samples and one that    *)
(* only closes, which is enough for every order of two reports at the master.  *)
EXTENDS ProgressPipeline, TLC

CONSTANTS n1, n2

MCNode == {n1, n2}
MCMaxRequests == (n1 :> 1) @@ (n2 :> 1)
MCMaxSamples == (n1 :> 1) @@ (n2 :> 0)
===============================================================================
