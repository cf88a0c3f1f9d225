------------------------------ MODULE WsLoadMC ------------------------------
(***************************************************************************)
(* Small runs of WsLoad.                                                     *)
(***************************************************************************)
EXTENDS WsLoad

CONSTANTS s1, s2

\* A run of -d whose sockets send and wait for each reply; the peer reads.
Base == [expect |-> TRUE, messages |-> TRUE, reconnect |-> FALSE, ramp |-> FALSE,
         timed |-> TRUE, reads |-> TRUE, maxSent |-> 4, maxAttempts |-> 1,
         slots |-> {s1}]
SendOnly == [Base EXCEPT !.expect = FALSE, !.maxSent = 2]
Listen == [SendOnly EXCEPT !.messages = FALSE, !.maxSent = 0]

MCConfigs == {
  Base,
  [Base EXCEPT !.reconnect = TRUE, !.maxSent = 1, !.maxAttempts = 2],
  [Base EXCEPT !.reads = FALSE],
  SendOnly,
  [Listen EXCEPT !.reconnect = TRUE, !.maxAttempts = 2, !.ramp = TRUE, !.timed = FALSE],
  [Base EXCEPT !.maxSent = 1, !.slots = {s1, s2}],
  [Listen EXCEPT !.slots = {s1, s2}]
}
===============================================================================
