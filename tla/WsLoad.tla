-------------------------------- MODULE WsLoad --------------------------------
(***************************************************************************)
(* A WebSocket benchmark, websockets.py: one slot for each of -c sockets,    *)
(* which opens its socket, sends and times replies on it, or listens, and    *)
(* closes it; the reader that a socket has when it does not wait for replies; *)
(* the timer, a signal and the report.  A step is the code between two awaits. *)
(***************************************************************************)
EXTENDS Integers, Sequences, FiniteSets

CONSTANTS
  Slot,          \* the sockets of -c, of which a run has some
  Configs,       \* the runs that are looked at: options, how the peer behaves, bounds
  MaxPushed      \* bound: frames the peer pushes on one connection

ASSUME WsAssumption ==
  /\ IsFiniteSet(Slot) /\ Slot # {}
  /\ \A c \in Configs :
       /\ c.expect \in BOOLEAN /\ c.messages \in BOOLEAN
       /\ c.expect => c.messages
       /\ c.reconnect \in BOOLEAN /\ c.ramp \in BOOLEAN /\ c.timed \in BOOLEAN
       /\ c.slots \subseteq Slot
       /\ c.reads \in BOOLEAN           \* the peer reads its sockets
       /\ c.maxSent \in Nat             \* bound: messages on one connection
       /\ c.maxAttempts \in Nat \ {0}   \* bound: connections of one slot
  /\ MaxPushed \in Nat

VARIABLES
  config,        \* the run, one of Configs
  slot,          \* the task of each slot: "delayed", "ready", "connecting", one of Open,
                 \* "backoff" or "gone"; and its connection, see Idle
  reader,        \* its _receive_loop: "none", "reading", "ended" or, with an exception, "raised"
  inbox,         \* frames that have arrived and are not read
  owed,          \* messages the peer has yet to answer, oldest first
  pushed,        \* frames pushed on the connection
  hungUp,        \* the peer has closed the connection, or it broke
  hangUps,       \* how often that happened to a connection in use
  lag,           \* the most answers that were outstanding when a message was sent
  mistimed,      \* an RTT was recorded for the answer to an earlier message
  tally,         \* WsStats and WorkerStats of all slots
  active, peak,  \* _Fleet
  stop,          \* the stop event
  exit           \* exit code, or -1 while the run goes on

wire == <<inbox, owed, pushed, hungUp, hangUps>>
fleet == <<active, peak>>
vars == <<config, slot, reader, wire, lag, mistimed, tally, fleet, stop, exit>>

Open == {"sending", "blocked", "draining", "awaiting", "pausing", "listening", "closing", "joining"}
Shutdown(s) == slot[s].pc \in {"closing", "joining"}

\* A frame is the number of the message it answers, 0 for a push, or its end.
Close == -1
Error == -2

\* answered: the reader has read the end of a socket that is being closed; ended:
\* ws.closed; crashed: an exception ends the task; drained: frames of this _drain_buffered.
Idle(pc, attempts) == [pc |-> pc, attempts |-> attempts, sent |-> 0, desynced |-> FALSE,
                       drained |-> 0, answered |-> FALSE, ended |-> FALSE, crashed |-> FALSE]

\* The last three are no figures of the program but say where its figures are off:
\* connections whose end was recorded twice, not at all, or once more as a drop.
Counters == {"opened", "failed", "dropped", "reconnects", "sent", "received", "timeouts", "unexpected",
             "frames", "unacked", "codes", "transport", "errors", "requests", "timed",
             "twice", "never", "redropped"}

Init ==
  /\ config \in Configs
  /\ slot = [s \in Slot |-> Idle(IF s \notin config.slots THEN "gone" ELSE IF config.ramp THEN "delayed" ELSE "ready", 0)]
  /\ reader = [s \in Slot |-> "none"]
  /\ inbox = [s \in Slot |-> <<>>] /\ owed = [s \in Slot |-> <<>>]
  /\ pushed = [s \in Slot |-> 0] /\ hungUp = [s \in Slot |-> FALSE]
  /\ hangUps = 0 /\ lag = 0 /\ mistimed = FALSE
  /\ tally = [c \in Counters |-> 0]
  /\ active = 0 /\ peak = 0
  /\ stop = FALSE /\ exit = -1

\* One more in each of these counters.
Count(cs) == tally' = [c \in Counters |-> tally[c] + IF c \in cs THEN 1 ELSE 0]
Goes(s, pc) == slot' = [slot EXCEPT ![s].pc = pc]
Same == UNCHANGED <<config, stop, exit>>

-------------------------------------------------------------------------------
(* A slot opens its socket.                                                   *)

\* The wait before the first connection of a ramp-up, or before another attempt.
Waited(s) ==
  /\ slot[s].pc \in {"delayed", "backoff"}
  /\ Goes(s, IF stop THEN "gone" ELSE "ready")
  /\ UNCHANGED <<reader, wire, lag, mistimed, tally, fleet>> /\ Same

Attempt(s) ==
  /\ slot[s].pc = "ready"
  /\ \/ stop /\ Goes(s, "gone") /\ UNCHANGED tally
     \/ /\ ~stop /\ slot[s].attempts < config.maxAttempts
        /\ slot' = [slot EXCEPT ![s] = Idle("connecting", @.attempts + 1)]
        /\ Count(IF slot[s].attempts > 0 THEN {"reconnects"} ELSE {})
  /\ UNCHANGED <<reader, wire, lag, mistimed, fleet>> /\ Same

\* After a connection, and after a refusal with a pause before the next one.
Again(pc) == IF stop \/ ~config.reconnect THEN "gone" ELSE pc

Refused(s) ==
  /\ slot[s].pc = "connecting"
  /\ Goes(s, Again("backoff"))
  /\ Count({"failed", "errors"})
  /\ UNCHANGED <<reader, wire, lag, mistimed, fleet>> /\ Same

Connected(s) ==
  /\ slot[s].pc = "connecting"
  /\ Goes(s, IF config.messages THEN "sending" ELSE "listening")
  /\ reader' = [reader EXCEPT ![s] = IF config.expect THEN "none" ELSE "reading"]
  /\ inbox' = [inbox EXCEPT ![s] = <<>>] /\ owed' = [owed EXCEPT ![s] = <<>>]
  /\ pushed' = [pushed EXCEPT ![s] = 0] /\ hungUp' = [hungUp EXCEPT ![s] = FALSE]
  /\ active' = active + 1
  /\ peak' = IF active + 1 > peak THEN active + 1 ELSE peak
  /\ Count({"opened"} \cup IF config.messages THEN {} ELSE {"requests"})
  /\ UNCHANGED <<hangUps, lag, mistimed>> /\ Same

-------------------------------------------------------------------------------
(* _send_loop.                                                                *)

\* Answers that a socket has not read yet.
Outstanding(s) == Len(owed[s]) + Cardinality({i \in DOMAIN inbox[s] : inbox[s][i] > 0})

\* A message is written, or waits for a peer that does not read: send_str has no
\* timeout and does not look at the stop event.
Send(s) ==
  /\ slot[s].pc = "sending"
  /\ \/ /\ stop
        /\ Goes(s, "closing")
        /\ UNCHANGED <<tally, owed, lag>>
     \/ /\ ~stop /\ ~config.reads
        /\ Goes(s, "blocked")
        /\ UNCHANGED <<tally, owed, lag>>
     \/ /\ ~stop /\ ~slot[s].ended /\ slot[s].sent < config.maxSent
        /\ slot' = [slot EXCEPT ![s].sent = @ + 1, ![s].drained = 0,
             ![s].pc = IF ~config.expect THEN "pausing"
                       ELSE IF slot[s].desynced THEN "draining" ELSE "awaiting"]
        /\ owed' = [owed EXCEPT ![s] = IF hungUp[s] THEN @ ELSE Append(@, slot[s].sent + 1)]
        /\ lag' = IF Outstanding(s) > lag THEN Outstanding(s) ELSE lag
        /\ Count({"sent", "requests"})
  /\ UNCHANGED <<reader, inbox, pushed, hungUp, hangUps, mistimed, fleet>> /\ Same

\* The write fails.  The drop is counted here, though the reader may have done so.
SendFails(s) ==
  /\ (slot[s].pc = "sending" /\ ~stop) \/ slot[s].pc = "blocked"
  /\ hungUp[s]
  /\ Goes(s, "closing")
  /\ Count({"dropped", "errors"} \cup IF slot[s].ended THEN {"redropped"} ELSE {})
  /\ UNCHANGED <<reader, wire, lag, mistimed, fleet>> /\ Same

\* _account_message of the frame at the head, when the socket is not closing.
Received(s) ==
  CASE Head(inbox[s]) >= 0    -> {"received"}
    [] Head(inbox[s]) = Close -> {"dropped", "codes", "errors"}
    [] OTHER                  -> {"transport", "errors"}
Popped(s) == inbox' = [inbox EXCEPT ![s] = Tail(@)]
\* A CLOSE or an error has ended the socket: ws.closed.
Ends(s) == slot' = [slot EXCEPT ![s].pc = "closing", ![s].ended = TRUE]

\* _drain_buffered: frames that are there, until it finds none for a moment.
Drain(s) ==
  /\ slot[s].pc = "draining"
  /\ \/ /\ inbox[s] # <<>>
        /\ Count(Received(s)) /\ Popped(s)
        /\ IF Head(inbox[s]) >= 0 THEN slot' = [slot EXCEPT ![s].drained = @ + 1] ELSE Ends(s)
     \/ /\ inbox[s] = <<>>
        /\ slot' = [slot EXCEPT ![s].pc = IF slot[s].drained > 0 THEN "awaiting" ELSE "pausing",
                                ![s].desynced = slot[s].drained = 0]
        /\ tally' = [tally EXCEPT !.unexpected = @ + slot[s].drained]
        /\ UNCHANGED inbox
  /\ UNCHANGED <<reader, owed, pushed, hungUp, hangUps, lag, mistimed, fleet>> /\ Same

\* _drain_reply returns the time the next frame took.
Reply(s) ==
  /\ slot[s].pc = "awaiting" /\ inbox[s] # <<>>
  /\ Popped(s)
  /\ \/ /\ Head(inbox[s]) >= 0
        /\ Goes(s, "pausing")
        /\ mistimed' = (mistimed \/ Head(inbox[s]) # slot[s].sent)
        /\ Count({"received", "timed"})
     \/ /\ Head(inbox[s]) < 0
        /\ Ends(s)
        /\ Count(Received(s))
        /\ UNCHANGED mistimed
  /\ UNCHANGED <<reader, owed, pushed, hungUp, hangUps, lag, fleet>> /\ Same

\* Fault variant: the next frame is timed as if nothing had been missed.
ReplyTimeoutForgotten(s) ==
  /\ slot[s].pc = "awaiting"
  /\ slot' = [slot EXCEPT ![s].pc = "pausing"]
  /\ Count({"timeouts", "errors"})
  /\ UNCHANGED <<reader, wire, lag, mistimed, fleet>> /\ Same

ReplyTimeout(s) ==
  /\ slot[s].pc = "awaiting"
  /\ slot' = [slot EXCEPT ![s].pc = "pausing", ![s].desynced = TRUE]
  /\ Count({"timeouts", "errors"})
  /\ UNCHANGED <<reader, wire, lag, mistimed, fleet>> /\ Same

\* The message interval has passed, or the stop event cuts it short.
Paused(s) ==
  /\ slot[s].pc = "pausing"
  /\ Goes(s, "sending")
  /\ UNCHANGED <<reader, wire, lag, mistimed, tally, fleet>> /\ Same

-------------------------------------------------------------------------------
(* Listening and closing.                                                     *)

\* Fault variant: a close that this side asked for counts as a dropped connection.
ReadUnexpecting(s) ==
  /\ reader[s] = "reading" /\ inbox[s] # <<>> /\ slot[s].pc # "joining"
  /\ Popped(s)
  /\ reader' = [reader EXCEPT ![s] = IF Head(inbox[s]) >= 0 THEN @ ELSE "ended"]
  /\ Count(Received(s))
  /\ slot' = [slot EXCEPT ![s].ended = @ \/ (Head(inbox[s]) < 0 /\ ~Shutdown(s)),
                          ![s].answered = @ \/ (Head(inbox[s]) < 0 /\ Shutdown(s))]
  /\ UNCHANGED <<owed, pushed, hungUp, hangUps, lag, mistimed, fleet>> /\ Same

\* _receive_loop.  The CLOSE of a socket that is being closed is no drop.
Read(s) ==
  /\ reader[s] = "reading" /\ inbox[s] # <<>> /\ slot[s].pc # "joining"
  /\ Popped(s)
  /\ reader' = [reader EXCEPT ![s] = IF Head(inbox[s]) >= 0 THEN @ ELSE "ended"]
  /\ Count(IF Head(inbox[s]) = Close /\ Shutdown(s) THEN {"codes"} ELSE Received(s))
  /\ slot' = [slot EXCEPT ![s].ended = @ \/ (Head(inbox[s]) < 0 /\ ~Shutdown(s)),
                          ![s].answered = @ \/ (Head(inbox[s]) < 0 /\ Shutdown(s))]
  /\ UNCHANGED <<owed, pushed, hungUp, hangUps, lag, mistimed, fleet>> /\ Same

\* A read raises: a ping, say, that cannot be answered on a lost connection.  The task
\* that waits for a reply raises with it; a reader keeps the exception to itself.
ReadRaises(s) ==
  /\ hungUp[s]
  /\ \/ /\ slot[s].pc \in {"draining", "awaiting"}
        /\ slot' = [slot EXCEPT ![s].pc = "closing", ![s].crashed = TRUE]
        /\ UNCHANGED reader
     \/ /\ reader[s] = "reading" /\ slot[s].pc # "joining"
        /\ reader' = [reader EXCEPT ![s] = "raised"]
        /\ UNCHANGED slot
  /\ UNCHANGED <<wire, lag, mistimed, tally, fleet>> /\ Same

\* Fault variant: a listening socket waits for its reader only.
ListenedToReader(s) ==
  /\ slot[s].pc = "listening"
  /\ reader[s] \in {"ended", "raised"}
  /\ Goes(s, "closing")
  /\ UNCHANGED <<reader, wire, lag, mistimed, tally, fleet>> /\ Same

\* _first_of: the run ends, or the reader does.
Listened(s) ==
  /\ slot[s].pc = "listening"
  /\ stop \/ reader[s] \in {"ended", "raised"}
  /\ Goes(s, "closing")
  /\ UNCHANGED <<reader, wire, lag, mistimed, tally, fleet>> /\ Same

\* _close_socket: nothing to do, or the close frame goes out and is answered, or not in
\* time.  Where the reader has read the end meanwhile, close() finds the socket closed
\* and the code of that end in ws.close_code, and counts it again; where a frame has just
\* woken the reader, it is the reader that waits for the answer, whose code nobody takes.
CloseSocket(s) ==
  /\ slot[s].pc = "closing"
  /\ Goes(s, "joining")
  /\ \/ slot[s].ended /\ UNCHANGED <<tally, inbox>>
     \/ /\ ~slot[s].ended /\ slot[s].answered
        /\ \E end \in {"codes", "unacked"} : Count({"frames", end, "twice"})
        /\ UNCHANGED inbox
     \/ /\ ~slot[s].ended /\ ~slot[s].answered
        /\ \E i \in DOMAIN inbox[s] : inbox[s][i] = Close
        /\ Count({"frames", "codes"}) /\ inbox' = [inbox EXCEPT ![s] = <<>>]
     \/ /\ ~slot[s].ended /\ ~slot[s].answered
        /\ Count({"frames", "unacked"}) /\ inbox' = [inbox EXCEPT ![s] = <<>>]
     \/ /\ ~slot[s].ended /\ ~slot[s].answered
        /\ reader[s] = "reading" /\ inbox[s] # <<>> /\ Head(inbox[s]) >= 0
        /\ Count({"frames", "never"}) /\ inbox' = [inbox EXCEPT ![s] = <<>>]
  /\ UNCHANGED <<reader, owed, pushed, hungUp, hangUps, lag, mistimed, fleet>> /\ Same

\* _drain_reader, and the socket is gone: a close ends the read that is pending.  The
\* exception of a reader comes out here, before the fleet is told.
Joined(s) ==
  /\ slot[s].pc = "joining"
  /\ reader' = [reader EXCEPT ![s] = IF @ = "reading" THEN "ended" ELSE @]
  /\ \/ /\ reader[s] # "raised"
        /\ Goes(s, IF slot[s].crashed THEN "gone" ELSE Again("ready"))
        /\ active' = active - 1
     \/ /\ reader[s] = "raised"
        /\ slot' = [slot EXCEPT ![s].pc = "gone", ![s].crashed = TRUE]
        /\ UNCHANGED active
  /\ UNCHANGED <<wire, lag, mistimed, tally, peak>> /\ Same

-------------------------------------------------------------------------------
(* The peer, the timer, a signal and the report.                              *)

Connection(s) == slot[s].pc \in Open /\ ~hungUp[s]

Peer(s) ==
  /\ Connection(s)
  /\ \/ /\ owed[s] # <<>>
        /\ inbox' = [inbox EXCEPT ![s] = Append(@, Head(owed[s]))]
        /\ owed' = [owed EXCEPT ![s] = Tail(@)]
        /\ UNCHANGED <<pushed, hungUp, hangUps>>
     \/ /\ ~config.expect /\ pushed[s] < MaxPushed
        /\ inbox' = [inbox EXCEPT ![s] = Append(@, 0)]
        /\ pushed' = [pushed EXCEPT ![s] = @ + 1]
        /\ UNCHANGED <<owed, hungUp, hangUps>>
     \/ /\ \E frame \in {Close, Error} : inbox' = [inbox EXCEPT ![s] = Append(@, frame)]
        /\ hungUp' = [hungUp EXCEPT ![s] = TRUE]
        /\ hangUps' = hangUps + IF Shutdown(s) THEN 0 ELSE 1
        /\ UNCHANGED <<owed, pushed>>
  /\ UNCHANGED <<slot, reader, lag, mistimed, tally, fleet>> /\ Same

Others == UNCHANGED <<config, slot, reader, wire, lag, mistimed, tally, fleet>>

TimerFires ==
  /\ config.timed /\ ~stop
  /\ stop' = TRUE
  /\ Others /\ UNCHANGED exit

Signal ==
  /\ ~stop
  /\ stop' = TRUE
  /\ Others /\ UNCHANGED exit

Crashed == {s \in Slot : slot[s].crashed}

\* Thresholds, baseline gate, crashed tasks, exports and sockets nobody could open.
ExitCode(breach, regression, exported) ==
  LET gates == IF breach THEN 2 ELSE regression
      unopened == tally.opened = 0 /\ tally.failed > 0
  IN  IF gates = 0 /\ (Crashed # {} \/ unopened \/ ~exported) THEN 1 ELSE gates

Report ==
  /\ exit = -1
  /\ \A s \in Slot : slot[s].pc = "gone"
  /\ stop' = TRUE
  /\ \E breach, exported \in BOOLEAN, regression \in {0, 1, 3} :
       exit' = ExitCode(breach, regression, exported)
  /\ Others

Timers(s) == Waited(s) \/ Attempt(s) \/ Refused(s) \/ Paused(s) \/ ReplyTimeout(s)
Sockets(s) == Send(s) \/ SendFails(s) \/ Drain(s) \/ Reply(s) \/ Listened(s) \/ CloseSocket(s) \/ Joined(s)

Next ==
  \/ \E s \in Slot : Timers(s) \/ Sockets(s) \/ Connected(s) \/ Read(s) \/ ReadRaises(s) \/ Peer(s)
  \/ TimerFires \/ Signal \/ Report

\* Whatever a slot waits for is bounded by a timeout, but for a write; nothing is
\* asked of the peer.
Fairness ==
  /\ \A s \in Slot : WF_vars(Timers(s) \/ Sockets(s))
  /\ WF_vars(Report)

Spec == Init /\ [][Next]_vars /\ Fairness

-------------------------------------------------------------------------------
(* Properties.                                                                *)

\* The sockets that are open, and those the fleet still counts though they are not:
\* the exception of their reader has overtaken fleet.closed().
OpenSockets == {s \in Slot : slot[s].pc \in Open}
Leaked == {s \in Slot : slot[s].pc = "gone" /\ reader[s] = "raised"}

\* The figures of a run agree (WsStats): every error has a cause, once; requests are
\* what primary_metric says; a connection that has ended left a close code, an
\* unanswered close frame or a transport error, and one code at most; a connection is
\* dropped by the peer, not by our own close.  On a socket that waits for replies there
\* is no exception.  A socket with a reader meets each of the three that its counter
\* stands for, against the docstring of record_close ("Exactly one of the two coroutines
\* ... records it"); no other order of the ends makes a figure wrong.  A run that
\* exits 0 crashed nowhere and opened a socket unless it never tried; and the fleet
\* knows how many sockets are open, and the most that ever were.
FiguresAgree ==
  /\ tally.errors = tally.failed + tally.timeouts + tally.dropped + tally.transport
  /\ tally.requests = IF config.messages THEN tally.sent ELSE tally.opened
  /\ tally.opened - Cardinality(OpenSockets) <= tally.codes + tally.unacked + tally.transport + tally.never
  /\ tally.codes + tally.unacked <= tally.opened + tally.twice
  /\ tally.received >= tally.timed + tally.unexpected
  /\ tally.dropped <= hangUps + tally.redropped
  /\ config.expect => tally.twice = 0 /\ tally.never = 0 /\ tally.redropped = 0
  /\ exit = 0 => Crashed = {} /\ (tally.opened > 0 \/ tally.failed = 0)
  /\ active = Cardinality(OpenSockets) + Cardinality(Leaked)
  /\ active <= peak /\ peak <= Cardinality(config.slots)

\* While no message is sent with more than one answer outstanding, a reply timeout
\* costs its own reading only: every RTT is that of the message just sent.
RttIsOfItsMessage == mistimed => lag > 1

\* A stopped run reports, though a peer never answers a message or a close.
StopEndsTheRun == (stop /\ config.reads) ~> (exit # -1)
===============================================================================
