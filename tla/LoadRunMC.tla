------------------------------ MODULE LoadRunMC ------------------------------
(* Instance of LoadRun for TLC: three tasks and two requests, so that more     *)
(* tasks than requests race for the counter, or as many in a duration run.     *)
EXTENDS LoadRun

CONSTANTS w1, w2, w3

MCWorker == {w1, w2, w3}
===============================================================================
