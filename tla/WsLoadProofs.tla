----------------------------- MODULE WsLoadProofs -----------------------------
(***************************************************************************)
(* Theorems about a WebSocket benchmark, for any number of sockets, any       *)
(* options and any number of messages and attempts.                          *)
(***************************************************************************)
EXTENDS WsLoad, FoldTheorems, SequenceTheorems

USE WsAssumption

-------------------------------------------------------------------------------
(* The inductive invariant.                                                   *)

Places == Open \cup {"delayed", "ready", "connecting", "backoff", "gone"}
SlotState == [pc : Places, attempts : Nat, sent : Nat, desynced : BOOLEAN,
              drained : Nat, answered : BOOLEAN, ended : BOOLEAN, crashed : BOOLEAN]

SlotTyped(s) ==
  /\ slot[s] \in SlotState /\ reader[s] \in {"none", "reading", "ended", "raised"}
  /\ inbox[s] \in Seq(Int) /\ owed[s] \in Seq(Nat \ {0}) /\ hungUp[s] \in BOOLEAN

FiguresTyped ==
  /\ tally \in [Counters -> Nat] /\ hangUps \in Nat /\ lag \in Nat /\ mistimed \in BOOLEAN
  /\ active \in Int /\ peak \in Int /\ stop \in BOOLEAN

Typed ==
  /\ config \in Configs
  /\ DOMAIN slot = Slot /\ DOMAIN reader = Slot /\ DOMAIN inbox = Slot /\ DOMAIN owed = Slot /\ DOMAIN hungUp = Slot
  /\ FiguresTyped

\* A slot that uses its socket, rather than closing it.
InUse(s) == slot[s].pc \in Open \ {"closing", "joining"}

\* The frames of inbox[s] that are answers, on a socket that waits for replies: all but
\* the one that ends the connection.
Answers(s) == Len(inbox[s]) - (IF hungUp[s] THEN 1 ELSE 0)

\* Every answer on the way is to the message just sent, but perhaps the oldest.
Recent(s, butOldest) ==
  /\ \A i \in 1..Answers(s) : inbox[s][i] = slot[s].sent \/ (butOldest /\ i = 1)
  /\ \A j \in 1..Len(owed[s]) : owed[s][j] = slot[s].sent \/ (butOldest /\ j = 1 /\ Answers(s) = 0)

\* What is on the way to a socket that waits for replies, while no message was sent
\* with more than one answer outstanding.
Replies(s) ==
  LET late == Answers(s) + Len(owed[s])
  IN  /\ late <= 2
      /\ slot[s].pc \in {"pausing", "sending"} /\ ~slot[s].desynced => late = 0
      /\ slot[s].pc = "awaiting" => late <= 1 /\ ~slot[s].desynced /\ Recent(s, FALSE)
      /\ slot[s].pc = "draining" => (slot[s].drained > 0 => late <= 1) /\ Recent(s, slot[s].drained = 0)

\* The frame that ends a connection is the last one.
Frames(s) ==
  /\ Answers(s) \in Nat
  /\ \A i \in 1..Answers(s) : inbox[s][i] > 0
  /\ hungUp[s] => inbox[s][Len(inbox[s])] < 0

FlagsInv(s) ==
  /\ s \notin config.slots => slot[s].pc = "gone" /\ reader[s] = "none"
  /\ slot[s].pc = "connecting" => ~slot[s].ended /\ ~slot[s].answered /\ ~slot[s].desynced
  /\ reader[s] = "reading" => ~config.expect /\ slot[s].pc \in Open /\ ~slot[s].ended /\ ~slot[s].answered
  /\ reader[s] = "raised" => slot[s].pc \in Open \cup {"gone"}
  /\ slot[s].pc \in Open /\ config.expect => ~slot[s].answered
  /\ InUse(s) /\ config.expect => ~slot[s].ended
  /\ slot[s].pc \in {"draining", "awaiting"} => config.expect
  /\ InUse(s) => (config.messages <=> slot[s].pc # "listening")

FramesInv(s) ==
  /\ slot[s].pc \in Open => \A i \in DOMAIN inbox[s] : inbox[s][i] < 0 => hungUp[s]
  /\ InUse(s) /\ config.expect => Frames(s)
  /\ InUse(s) /\ config.expect /\ lag <= 1 => Replies(s)

SlotInv(s) == SlotTyped(s) /\ FlagsInv(s) /\ FramesInv(s)

\* A socket that has left neither a code nor an error yet; one that may still count the
\* end of the connection as a drop; one that the fleet counts.
Bare(s) == slot[s].pc \in Open \ {"joining"} /\ ~slot[s].ended /\ ~slot[s].answered
Claims(s) == InUse(s) /\ hungUp[s] /\ ~slot[s].ended
Holds(s) == slot[s].pc \in Open \/ (slot[s].pc = "gone" /\ reader[s] = "raised")

\* Frames of a _drain_buffered that goes on: received, and not yet unexpected.
Drains(s) == IF slot[s].pc = "draining" THEN slot[s].drained ELSE 0

Held == {s \in Slot : Holds(s)}
Unaccounted == {s \in Slot : Bare(s)}
Claimants == {s \in Slot : Claims(s)}
Drained == [s \in Slot |-> Drains(s)]

CausesInv ==
  /\ tally.errors = tally.failed + tally.timeouts + tally.dropped + tally.transport
  /\ tally.requests = IF config.messages THEN tally.sent ELSE tally.opened

EndsInv ==
  /\ tally.opened <= tally.codes + tally.unacked + tally.transport + tally.never + Cardinality(Unaccounted)
  /\ tally.codes + tally.unacked + Cardinality(Unaccounted) <= tally.opened + tally.twice

FramesCounted == tally.timed + tally.unexpected + SumFunctionOnSet(Drained, Slot) <= tally.received

DropsInv == tally.dropped + Cardinality(Claimants) <= hangUps + tally.redropped

\* Where replies are waited for there is no reader, and no figure is off.
ExpectInv == config.expect => tally.twice = 0 /\ tally.never = 0 /\ tally.redropped = 0

FleetInv == active = Cardinality(Held) /\ active <= peak /\ peak <= Cardinality(config.slots)

ExitInv ==
  exit # -1 => /\ \A s \in Slot : slot[s].pc = "gone"
               /\ exit = 0 => Crashed = {} /\ (tally.opened > 0 \/ tally.failed = 0)

WsInv ==
  /\ Typed /\ \A s \in Slot : SlotInv(s)
  /\ CausesInv /\ EndsInv /\ FramesCounted /\ DropsInv /\ ExpectInv /\ FleetInv /\ ExitInv
  /\ RttIsOfItsMessage

-------------------------------------------------------------------------------
(* What a step of one slot does.                                              *)

One(b) == IF b THEN 1 ELSE 0

Elsewhere(s) ==
  /\ config' = config /\ stop' = stop /\ exit' = exit
  /\ DOMAIN slot' = Slot /\ DOMAIN reader' = Slot /\ DOMAIN inbox' = Slot /\ DOMAIN owed' = Slot /\ DOMAIN hungUp' = Slot
  /\ \A r \in Slot \ {s} :
       /\ slot'[r] = slot[r] /\ reader'[r] = reader[r] /\ hungUp'[r] = hungUp[r]
       /\ inbox'[r] = inbox[r] /\ owed'[r] = owed[r]

CausesKept ==
  /\ tally'.errors - tally.errors =
       (tally'.failed - tally.failed) + (tally'.timeouts - tally.timeouts)
       + (tally'.dropped - tally.dropped) + (tally'.transport - tally.transport)
  /\ tally'.requests - tally.requests =
       IF config.messages THEN tally'.sent - tally.sent ELSE tally'.opened - tally.opened

\* What a socket leaves when it is no longer bare.
EndsKept(s) ==
  LET left == One(Bare(s)) - One(Bare(s)')
      codes == (tally'.codes - tally.codes) + (tally'.unacked - tally.unacked)
      opened == tally'.opened - tally.opened
  IN  /\ codes <= opened + left + (tally'.twice - tally.twice)
      /\ opened + left <= codes + (tally'.transport - tally.transport) + (tally'.never - tally.never)

FramesKept(s) ==
  (tally'.timed - tally.timed) + (tally'.unexpected - tally.unexpected) + (Drains(s)' - Drains(s))
    <= tally'.received - tally.received

DropsKept(s) ==
  (tally'.dropped - tally.dropped) + (One(Claims(s)') - One(Claims(s)))
    <= (hangUps' - hangUps) + (tally'.redropped - tally.redropped)

ExpectKept ==
  config.expect => tally'.twice = tally.twice /\ tally'.never = tally.never /\ tally'.redropped = tally.redropped

FleetKept(s) ==
  /\ active' - active = One(Holds(s)') - One(Holds(s))
  /\ peak' = IF active' > peak THEN active' ELSE peak

Stepped(s) ==
  /\ slot[s].pc # "gone"
  /\ Elsewhere(s) /\ SlotInv(s)' /\ FiguresTyped' /\ lag <= lag'
  /\ CausesKept /\ EndsKept(s) /\ FramesKept(s) /\ DropsKept(s) /\ ExpectKept /\ FleetKept(s)
  /\ mistimed' => mistimed \/ lag' > 1

LEMMA Counting ==
  ASSUME tally \in [Counters -> Nat], NEW cs, Count(cs)
  PROVE  /\ tally' \in [Counters -> Nat]
         /\ \A c \in Counters : tally'[c] = tally[c] + One(c \in cs)
BY DEF Count, One

\* A step that counts nothing of what is off.
LEMMA NothingIsOff ==
  ASSUME tally \in [Counters -> Nat], tally' \in [Counters -> Nat],
         \A c \in {"twice", "never", "redropped"} : tally'[c] = tally[c]
  PROVE  /\ tally.twice \in Nat /\ tally.never \in Nat /\ tally.redropped \in Nat
         /\ tally'.twice = tally.twice /\ tally'.never = tally.never /\ tally'.redropped = tally.redropped
         /\ tally'.twice - tally.twice = 0 /\ tally'.never - tally.never = 0 /\ tally'.redropped - tally.redropped = 0
         /\ ExpectKept
<1>1. {"twice", "never", "redropped"} \subseteq Counters
  BY DEF Counters
<1>2. /\ tally.twice \in Nat /\ tally.never \in Nat /\ tally.redropped \in Nat
      /\ tally'.twice = tally.twice /\ tally'.never = tally.never /\ tally'.redropped = tally.redropped
  BY <1>1
<1>3. QED
  BY <1>2 DEF ExpectKept

LEMMA NothingCountedIsOff ==
  ASSUME tally \in [Counters -> Nat], NEW cs, Count(cs), "twice" \notin cs, "never" \notin cs, "redropped" \notin cs
  PROVE  /\ tally.twice \in Nat /\ tally.never \in Nat /\ tally.redropped \in Nat
         /\ tally'.twice = tally.twice /\ tally'.never = tally.never /\ tally'.redropped = tally.redropped
         /\ tally'.twice - tally.twice = 0 /\ tally'.never - tally.never = 0 /\ tally'.redropped - tally.redropped = 0
         /\ ExpectKept
<1>1. {"twice", "never", "redropped"} \subseteq Counters
  BY DEF Counters
<1>2. /\ tally' \in [Counters -> Nat]
      /\ \A c \in Counters : tally'[c] = tally[c] + One(c \in cs)
  BY Counting
<1>3. \A c \in {"twice", "never", "redropped"} : tally'[c] = tally[c] + One(c \in cs) /\ tally[c] \in Nat /\ c \notin cs
  BY <1>1, <1>2
<1>4. \A c \in {"twice", "never", "redropped"} : tally'[c] = tally[c]
  BY <1>3 DEF One
<1>5. QED
  BY <1>2, <1>4, NothingIsOff

\* A step that counts nothing and leaves the wire alone.
Plain(s) == UNCHANGED <<config, reader, wire, lag, mistimed, tally, fleet, stop, exit>>

LEMMA RefusedStep ==
  ASSUME Typed, FleetInv, NEW s \in Slot, SlotInv(s), Refused(s)
  PROVE  Stepped(s)
<1> DEFINE me == slot[s]
           next == [slot[s] EXCEPT !.pc = Again("backoff")]
<1>1. /\ slot'[s] = next /\ DOMAIN slot' = Slot /\ \A r \in Slot \ {s} : slot'[r] = slot[r]
  BY DEF Refused, Goes, Typed
<1>2. Elsewhere(s)
  BY <1>1 DEF Refused, Typed, Elsewhere, Same, wire
<1>3. /\ next \in SlotState /\ next.pc \in {"gone", "backoff"} /\ me.pc = "connecting"
  BY DEF Refused, SlotInv, SlotTyped, SlotState, Again, Places
<1>4. /\ tally' \in [Counters -> Nat]
      /\ \A c \in Counters : tally'[c] = tally[c] + One(c \in {"failed", "errors"})
  BY Counting DEF Refused, Typed, FiguresTyped
<1>5. SlotInv(s)'
  BY <1>1, <1>3 DEF SlotInv, SlotTyped, FlagsInv, FramesInv, Refused, wire, InUse, Open, Same
<1>6. CausesKept
  BY <1>4 DEF CausesKept, Counters, One, Typed, FiguresTyped
<1>7. EndsKept(s)
  BY <1>1, <1>3, <1>4 DEF EndsKept, Counters, One, Typed, FiguresTyped, Bare, Open
<1>8. /\ ~Claims(s) /\ ~Claims(s)' /\ ~Holds(s) /\ ~Holds(s)' /\ Drains(s) = 0 /\ Drains(s)' = 0
  BY <1>1, <1>3 DEF Refused, InUse, Open, Claims, Holds, Drains, SlotInv, FlagsInv
<1>9. FramesKept(s) /\ DropsKept(s) /\ ExpectKept /\ FleetKept(s)
  BY <1>4, <1>8 DEF FramesKept, DropsKept, ExpectKept, FleetKept, Counters, One, Typed, FiguresTyped, Refused, wire, fleet, FleetInv
<1>10. QED
  BY <1>2, <1>3, <1>4, <1>5, <1>6, <1>7, <1>9 DEF Stepped, Typed, FiguresTyped, Refused, wire, fleet, Same

LEMMA PlainStep ==
  ASSUME Typed, FleetInv, NEW s \in Slot, SlotInv(s), Waited(s) \/ Paused(s) \/ Listened(s)
  PROVE  Stepped(s)
<1> DEFINE me == slot[s]
<1>1. PICK pc \in Places :
        /\ slot' = [slot EXCEPT ![s].pc = pc]
        /\ \/ me.pc \in {"delayed", "backoff"} /\ pc \in {"gone", "ready"}
           \/ me.pc = "pausing" /\ pc = "sending"
           \/ me.pc = "listening" /\ pc = "closing"
  BY DEF Waited, Paused, Listened, Goes, Places, Open
<1>2. UNCHANGED <<config, reader, inbox, owed, pushed, hungUp, hangUps, lag, mistimed, tally, active, peak, stop, exit>>
  BY DEF Waited, Paused, Listened, wire, fleet, Same
<1> DEFINE next == [slot[s] EXCEPT !.pc = pc]
<1>3. slot'[s] = next /\ DOMAIN slot' = Slot /\ \A r \in Slot \ {s} : slot'[r] = slot[r]
  BY <1>1 DEF Typed
<1>4. Elsewhere(s)
  BY <1>2, <1>3 DEF Typed, Elsewhere
<1>5. next \in SlotState /\ next.pc = pc
  BY DEF SlotInv, SlotTyped, SlotState
<1>6. SlotInv(s)'
  <2>1. SlotTyped(s)'
    BY <1>2, <1>3, <1>5 DEF SlotInv, SlotTyped
  <2>2. FlagsInv(s)'
    BY <1>1, <1>2, <1>3, <1>5 DEF SlotInv, FlagsInv, InUse, Open
  <2>3. FramesInv(s)'
    <3>1. Answers(s)' = Answers(s) /\ Len(owed[s])' = Len(owed[s])
      BY <1>2 DEF Answers
    <3>2. pc \in Open => me.pc \in Open
      BY <1>1 DEF Open
    <3>3. pc \in Open \ {"closing", "joining"} => me.pc = "pausing" /\ pc = "sending"
      BY <1>1 DEF Open
    <3>4. Frames(s) => Frames(s)'
      BY <1>2, <3>1 DEF Frames
    <3>5. pc = "sending" /\ me.pc = "pausing" /\ Replies(s) => Replies(s)'
      BY <1>2, <1>3, <1>5, <3>1 DEF Replies
    <3>6. InUse(s)' => pc = "sending" /\ me.pc = "pausing" /\ InUse(s)
      BY <1>3, <1>5, <3>3 DEF InUse, Open
    <3>7. QED
      BY <1>2, <1>3, <1>5, <3>2, <3>4, <3>5, <3>6 DEF SlotInv, FramesInv
  <2>4. QED
    BY <2>1, <2>2, <2>3 DEF SlotInv
<1>7. CausesKept /\ EndsKept(s)
  BY <1>1, <1>2, <1>3, <1>5 DEF CausesKept, EndsKept, Counters, One, Typed, FiguresTyped, Bare, Open
<1>8. FramesKept(s) /\ DropsKept(s) /\ ExpectKept /\ FleetKept(s)
  <2>1. (Claims(s)' => Claims(s)) /\ (Holds(s) <=> Holds(s)') /\ Drains(s) = 0 /\ Drains(s)' = 0
    BY <1>1, <1>2, <1>3, <1>5 DEF InUse, Open, Claims, Holds, Drains, SlotInv, FlagsInv
  <2>2. QED
    BY <1>2, <2>1 DEF FramesKept, DropsKept, ExpectKept, FleetKept, FleetInv, Counters, One, Typed, FiguresTyped
<1>9. QED
  BY <1>1, <1>2, <1>4, <1>6, <1>7, <1>8 DEF Stepped, Typed, FiguresTyped

LEMMA AttemptStep ==
  ASSUME Typed, FleetInv, NEW s \in Slot, SlotInv(s), Attempt(s)
  PROVE  Stepped(s)
<1> DEFINE me == slot[s]
           next == slot'[s]
<1>1. /\ UNCHANGED <<config, reader, inbox, owed, pushed, hungUp, hangUps, lag, mistimed, active, peak, stop, exit>>
      /\ me.pc = "ready" /\ s \in config.slots
  BY DEF Attempt, wire, fleet, Same, SlotInv, FlagsInv
<1>2. /\ next \in SlotState /\ DOMAIN slot' = Slot /\ \A r \in Slot \ {s} : slot'[r] = slot[r]
      /\ \/ next.pc = "gone"
         \/ next.pc = "connecting" /\ ~next.ended /\ ~next.answered /\ ~next.desynced
  <2>1. CASE stop /\ Goes(s, "gone")
    <3>1. [me EXCEPT !.pc = "gone"] \in SlotState /\ [me EXCEPT !.pc = "gone"].pc = "gone"
      BY DEF SlotInv, SlotTyped, SlotState, Places
    <3>2. next = [me EXCEPT !.pc = "gone"] /\ DOMAIN slot' = Slot /\ \A r \in Slot \ {s} : slot'[r] = slot[r]
      BY <2>1 DEF Goes, Typed
    <3>3. QED
      BY <3>1, <3>2
  <2>2. CASE slot' = [slot EXCEPT ![s] = Idle("connecting", @.attempts + 1)]
    <3>1. Idle("connecting", me.attempts + 1) \in SlotState
      BY DEF SlotInv, SlotTyped, SlotState, Places, Idle
    <3>2. next = Idle("connecting", me.attempts + 1)
          /\ DOMAIN slot' = Slot /\ \A r \in Slot \ {s} : slot'[r] = slot[r]
      BY <2>2 DEF Typed
    <3>3. QED
      BY <3>1, <3>2 DEF Idle
  <2>3. QED
    BY <2>1, <2>2 DEF Attempt
<1> HIDE DEF next
<1>4. /\ tally' \in [Counters -> Nat]
      /\ \A c \in Counters \ {"reconnects"} : tally'[c] = tally[c]
  <2>1. CASE UNCHANGED tally
    BY <2>1 DEF Typed, FiguresTyped
  <2>2. CASE Count(IF slot[s].attempts > 0 THEN {"reconnects"} ELSE {})
    BY <2>2, Counting DEF Typed, FiguresTyped, One
  <2>3. QED
    BY <2>1, <2>2 DEF Attempt
<1>5. Elsewhere(s)
  BY <1>1, <1>2 DEF Typed, Elsewhere
<1>6. SlotInv(s)'
  BY <1>1, <1>2 DEF SlotInv, SlotTyped, FlagsInv, FramesInv, InUse, Open, next
<1>7. CausesKept /\ EndsKept(s)
  <2>1. ~Bare(s) /\ ~Bare(s)'
    BY <1>1, <1>2 DEF Bare, Open, next
  <2>2. QED
    BY <1>1, <1>4, <2>1 DEF CausesKept, EndsKept, Counters, One, Typed, FiguresTyped
<1>8. FramesKept(s) /\ DropsKept(s) /\ ExpectKept /\ FleetKept(s)
  <2>1. /\ ~Claims(s) /\ ~Claims(s)' /\ Drains(s) = 0 /\ Drains(s)' = 0
        /\ ~Holds(s) /\ ~Holds(s)'
    BY <1>1, <1>2 DEF Claims, Holds, Drains, InUse, Open, next, SlotInv, FlagsInv
  <2>2. QED
    BY <1>1, <1>4, <2>1, SMTT(30) DEF FramesKept, DropsKept, ExpectKept, FleetKept, FleetInv, Counters, One, Typed, FiguresTyped, next
<1>9. QED
  BY <1>1, <1>2, <1>4, <1>5, <1>6, <1>7, <1>8 DEF Stepped, Typed, FiguresTyped

LEMMA ConnectedStep ==
  ASSUME Typed, FleetInv, NEW s \in Slot, SlotInv(s), Connected(s)
  PROVE  Stepped(s)
<1> DEFINE me == slot[s]
           pc == IF config.messages THEN "sending" ELSE "listening"
           next == [slot[s] EXCEPT !.pc = pc]
           counted == {"opened"} \cup IF config.messages THEN {} ELSE {"requests"}
<1>1. /\ UNCHANGED <<config, hangUps, lag, mistimed, stop, exit>>
      /\ active' = active + 1 /\ peak' = IF active' > peak THEN active' ELSE peak
      /\ me.pc = "connecting"
  BY DEF Connected, Same
<1>2. slot'[s] = next /\ DOMAIN slot' = Slot /\ \A r \in Slot \ {s} : slot'[r] = slot[r]
  BY DEF Connected, Goes, Typed
<1>3. /\ reader'[s] = IF config.expect THEN "none" ELSE "reading"
      /\ inbox'[s] = <<>> /\ owed'[s] = <<>> /\ hungUp'[s] = FALSE
  BY DEF Connected, Typed
<1>4. Elsewhere(s)
  BY <1>1, <1>2 DEF Connected, Typed, Elsewhere
<1>5. /\ next \in SlotState /\ next.pc = pc /\ pc \in {"sending", "listening"} /\ (config.expect => config.messages)
      /\ ~next.ended /\ ~next.answered /\ ~next.desynced /\ s \in config.slots
  <2>1. pc \in Places /\ pc \in {"sending", "listening"}
    BY DEF Places, Open
  <2>2. next \in SlotState /\ next.pc = pc
    BY <2>1 DEF SlotInv, SlotTyped, SlotState
  <2>3. config.expect => config.messages
    BY DEF Typed
  <2>4. ~me.ended /\ ~me.answered /\ ~me.desynced /\ s \in config.slots
    BY <1>1 DEF SlotInv, FlagsInv
  <2>5. next.ended = me.ended /\ next.answered = me.answered /\ next.desynced = me.desynced
    BY DEF SlotInv, SlotTyped, SlotState
  <2>6. QED
    BY <2>1, <2>2, <2>3, <2>4, <2>5
<1>6. SlotInv(s)'
  <2>1. SlotTyped(s)'
    <3>1. <<>> \in Seq(Int) /\ <<>> \in Seq(Nat \ {0})
      OBVIOUS
    <3>2. slot'[s] \in SlotState
      BY <1>2, <1>5
    <3>3. QED
      BY <1>3, <3>1, <3>2 DEF SlotTyped
  <2>2. FlagsInv(s)'
    BY <1>1, <1>2, <1>3, <1>5 DEF FlagsInv, InUse, Open
  <2>3. FramesInv(s)'
    <3>1. Len(<<>>) = 0 /\ DOMAIN <<>> = {} /\ 1..0 = {}
      OBVIOUS
    <3>2. Answers(s)' = 0 /\ Len(owed[s])' = 0
      BY <1>3, <3>1 DEF Answers
    <3>3. Frames(s)' /\ Replies(s)'
      BY <1>1, <1>2, <1>3, <1>5, <3>1, <3>2 DEF Frames, Replies
    <3>4. QED
      BY <1>3, <3>1, <3>3 DEF FramesInv
  <2>4. QED
    BY <2>1, <2>2, <2>3 DEF SlotInv
<1>7. /\ tally' \in [Counters -> Nat]
      /\ \A c \in Counters : tally'[c] = tally[c] + One(c \in counted)
  BY Counting DEF Connected, Typed, FiguresTyped
<1>8. CausesKept /\ EndsKept(s)
  BY <1>1, <1>2, <1>5, <1>7 DEF CausesKept, EndsKept, Counters, One, Typed, FiguresTyped, Bare, Open
<1>9. FramesKept(s) /\ DropsKept(s) /\ ExpectKept /\ FleetKept(s)
  <2>1. /\ ~Claims(s) /\ ~Claims(s)' /\ Drains(s) = 0 /\ Drains(s)' = 0
        /\ ~Holds(s) /\ Holds(s)'
    BY <1>1, <1>2, <1>3, <1>5 DEF Claims, Holds, Drains, InUse, Open
  <2>2. QED
    BY <1>1, <1>7, <2>1 DEF FramesKept, DropsKept, ExpectKept, FleetKept, Counters, One, Typed, FiguresTyped
<1>10. QED
  BY <1>1, <1>4, <1>6, <1>7, <1>8, <1>9 DEF Stepped, Typed, FiguresTyped

LEMMA SendFailsStep ==
  ASSUME Typed, FleetInv, NEW s \in Slot, SlotInv(s), SendFails(s)
  PROVE  Stepped(s)
<1> DEFINE me == slot[s]
           next == [slot[s] EXCEPT !.pc = "closing"]
<1>1. /\ UNCHANGED <<config, reader, inbox, owed, pushed, hungUp, hangUps, lag, mistimed, active, peak, stop, exit>>
      /\ me.pc \in {"sending", "blocked"} /\ hungUp[s] /\ s \in config.slots /\ config.messages
  BY DEF SendFails, wire, fleet, Same, SlotInv, FlagsInv, InUse, Open
<1>2. slot'[s] = next /\ DOMAIN slot' = Slot /\ \A r \in Slot \ {s} : slot'[r] = slot[r]
  BY DEF SendFails, Goes, Typed
<1>3. next \in SlotState /\ next.pc = "closing" /\ next.ended = me.ended /\ next.answered = me.answered
  BY DEF SlotInv, SlotTyped, SlotState, Places, Open
<1>4. /\ tally' \in [Counters -> Nat]
      /\ \A c \in Counters : tally'[c] = tally[c] + One(c \in {"dropped", "errors"} \cup IF me.ended THEN {"redropped"} ELSE {})
  BY Counting DEF SendFails, Typed, FiguresTyped
<1>5. Elsewhere(s)
  BY <1>1, <1>2 DEF Typed, Elsewhere
<1>6. SlotInv(s)'
  BY <1>1, <1>2, <1>3 DEF SlotInv, SlotTyped, FlagsInv, FramesInv, InUse, Open
<1>7. CausesKept /\ EndsKept(s)
  <2>1. Bare(s) <=> Bare(s)'
    BY <1>1, <1>2, <1>3 DEF Bare, Open
  <2>2. QED
    BY <1>1, <1>4, <2>1 DEF CausesKept, EndsKept, Counters, One, Typed, FiguresTyped
<1>81. config.expect => ~me.ended
  BY <1>1 DEF SlotInv, FlagsInv, InUse, Open
<1>8. FramesKept(s) /\ DropsKept(s) /\ ExpectKept /\ FleetKept(s)
  <2>1. /\ (Claims(s) <=> ~me.ended) /\ ~Claims(s)' /\ Drains(s) = 0 /\ Drains(s)' = 0
        /\ Holds(s) /\ Holds(s)'
    BY <1>1, <1>2, <1>3 DEF Claims, Holds, Drains, InUse, Open
  <2>2. /\ tally'.dropped = tally.dropped + 1
        /\ tally'.redropped = tally.redropped + One(me.ended)
        /\ \A c \in Counters \ {"dropped", "errors", "redropped"} : tally'[c] = tally[c]
    BY <1>4 DEF Counters, One, Typed, FiguresTyped
  <2>3. tally \in [Counters -> Nat]
    BY DEF Typed, FiguresTyped
  <2>4. FramesKept(s)
    BY <2>1, <2>2, <2>3 DEF FramesKept, Counters
  <2>5. DropsKept(s)
    BY <1>1, <2>1, <2>2, <2>3 DEF DropsKept, Counters, One, Typed, FiguresTyped
  <2>6. ExpectKept
    BY <1>81, <2>2 DEF ExpectKept, Counters, One, Typed, FiguresTyped
  <2>7. FleetKept(s)
    BY <1>1, <2>1 DEF FleetKept, FleetInv, One, Typed, FiguresTyped
  <2>8. QED
    BY <2>4, <2>5, <2>6, <2>7
<1>9. QED
  BY <1>1, <1>2, <1>4, <1>5, <1>6, <1>7, <1>8 DEF Stepped, Typed, FiguresTyped

LEMMA ReplyTimeoutStep ==
  ASSUME Typed, FleetInv, NEW s \in Slot, SlotInv(s), ReplyTimeout(s)
  PROVE  Stepped(s)
<1> DEFINE me == slot[s]
           next == [slot[s] EXCEPT !.pc = "pausing", !.desynced = TRUE]
<1>1. /\ UNCHANGED <<config, reader, inbox, owed, pushed, hungUp, hangUps, lag, mistimed, active, peak, stop, exit>>
      /\ me.pc = "awaiting" /\ s \in config.slots /\ config.messages /\ config.expect
  BY DEF ReplyTimeout, wire, fleet, Same, SlotInv, FlagsInv, InUse, Open
<1>2. slot'[s] = next /\ DOMAIN slot' = Slot /\ \A r \in Slot \ {s} : slot'[r] = slot[r]
  BY DEF ReplyTimeout, Typed
<1>3. /\ next \in SlotState /\ next.pc = "pausing" /\ next.ended = me.ended /\ next.answered = me.answered
      /\ next.desynced
  BY DEF SlotInv, SlotTyped, SlotState, Places, Open
<1>4. /\ tally' \in [Counters -> Nat]
      /\ \A c \in Counters : tally'[c] = tally[c] + One(c \in {"timeouts", "errors"})
  BY Counting DEF ReplyTimeout, Typed, FiguresTyped
<1>5. Elsewhere(s)
  BY <1>1, <1>2 DEF Typed, Elsewhere
<1>6. SlotInv(s)'
  <2>1. SlotTyped(s)' /\ FlagsInv(s)'
    BY <1>1, <1>2, <1>3 DEF SlotInv, SlotTyped, FlagsInv, InUse, Open
  <2>2. Answers(s)' = Answers(s) /\ Len(owed[s])' = Len(owed[s])
    BY <1>1 DEF Answers
  <2>3. Frames(s) => Frames(s)'
    BY <1>1, <2>2 DEF Frames
  <2>4. Replies(s) => Replies(s)'
    BY <1>1, <1>2, <1>3, <2>2 DEF Replies
  <2>5. QED
    BY <1>1, <1>2, <1>3, <2>1, <2>3, <2>4 DEF SlotInv, FramesInv, InUse, Open
<1>7. CausesKept /\ EndsKept(s)
  <2>1. Bare(s) <=> Bare(s)'
    BY <1>1, <1>2, <1>3 DEF Bare, Open
  <2>2. QED
    BY <1>1, <1>4, <2>1 DEF CausesKept, EndsKept, Counters, One, Typed, FiguresTyped
<1>8. FramesKept(s) /\ DropsKept(s) /\ ExpectKept /\ FleetKept(s)
  <2>1. /\ (Claims(s) <=> Claims(s)') /\ Drains(s) = 0 /\ Drains(s)' = 0
        /\ Holds(s) /\ Holds(s)'
    BY <1>1, <1>2, <1>3 DEF Claims, Holds, Drains, InUse, Open
  <2>2. QED
    BY <1>1, <1>4, <2>1 DEF FramesKept, DropsKept, ExpectKept, FleetKept, FleetInv, Counters, One, Typed, FiguresTyped
<1>9. QED
  BY <1>1, <1>2, <1>4, <1>5, <1>6, <1>7, <1>8 DEF Stepped, Typed, FiguresTyped

LEMMA JoinedStep ==
  ASSUME Typed, FleetInv, NEW s \in Slot, SlotInv(s), Joined(s)
  PROVE  Stepped(s)
<1> DEFINE me == slot[s]
           next == slot'[s]
<1>1. /\ UNCHANGED <<config, inbox, owed, pushed, hungUp, hangUps, lag, mistimed, tally, peak, stop, exit>>
      /\ me.pc = "joining" /\ s \in config.slots
  BY DEF Joined, wire, Same, SlotInv, FlagsInv
<1>2. /\ reader'[s] = (IF reader[s] = "reading" THEN "ended" ELSE reader[s]) /\ DOMAIN reader' = Slot
      /\ \A r \in Slot \ {s} : reader'[r] = reader[r]
      /\ reader[s] \in {"none", "reading", "ended", "raised"}
  BY DEF Joined, Typed, SlotInv, SlotTyped
<1>3. /\ next \in SlotState /\ next.pc \in {"gone", "ready"}
      /\ DOMAIN slot' = Slot /\ \A r \in Slot \ {s} : slot'[r] = slot[r]
      /\ \/ reader[s] # "raised" /\ active' = active - 1
         \/ reader[s] = "raised" /\ next.pc = "gone" /\ active' = active
  <2>1. CASE reader[s] # "raised"
    <3> DEFINE pc == IF me.crashed THEN "gone" ELSE Again("ready")
    <3>1. pc \in Places /\ pc \in {"gone", "ready"}
      BY DEF Places, Again
    <3>2. Goes(s, pc) /\ active' = active - 1
      BY <2>1 DEF Joined
    <3> HIDE DEF pc
    <3>3. next = [me EXCEPT !.pc = pc] /\ DOMAIN slot' = Slot /\ \A r \in Slot \ {s} : slot'[r] = slot[r]
      BY <3>2 DEF Goes, Typed
    <3>4. [me EXCEPT !.pc = pc] \in SlotState /\ [me EXCEPT !.pc = pc].pc = pc
      BY <3>1 DEF SlotInv, SlotTyped, SlotState
    <3>5. QED
      BY <2>1, <3>1, <3>2, <3>3, <3>4
  <2>2. CASE reader[s] = "raised"
    <3> DEFINE crash == [me EXCEPT !.pc = "gone", !.crashed = TRUE]
    <3>1. /\ next = crash /\ active' = active
          /\ DOMAIN slot' = Slot /\ \A r \in Slot \ {s} : slot'[r] = slot[r]
      BY <2>2 DEF Joined, Typed
    <3>2. crash \in SlotState /\ crash.pc = "gone"
      BY DEF SlotInv, SlotTyped, SlotState, Places
    <3> HIDE DEF crash
    <3>3. QED
      BY <2>2, <3>1, <3>2
  <2>3. QED
    BY <2>1, <2>2
<1> HIDE DEF next
<1>5. Elsewhere(s)
  BY <1>1, <1>2, <1>3 DEF Typed, Elsewhere
<1>6. SlotInv(s)'
  BY <1>1, <1>2, <1>3 DEF SlotInv, SlotTyped, FlagsInv, FramesInv, InUse, Open, next
<1>7. CausesKept /\ EndsKept(s)
  <2>1. ~Bare(s) /\ ~Bare(s)'
    BY <1>1, <1>3 DEF Bare, Open, next
  <2>2. QED
    BY <1>1, <2>1 DEF CausesKept, EndsKept, Counters, One, Typed, FiguresTyped
<1>8. FramesKept(s) /\ DropsKept(s) /\ ExpectKept /\ FleetKept(s)
  <2>1. /\ ~Claims(s) /\ ~Claims(s)' /\ Drains(s) = 0 /\ Drains(s)' = 0
        /\ Holds(s) /\ (Holds(s)' <=> reader[s] = "raised")
    BY <1>1, <1>2, <1>3 DEF Claims, Holds, Drains, InUse, Open, next
  <2>2. QED
    BY <1>1, <1>3, <2>1 DEF FramesKept, DropsKept, ExpectKept, FleetKept, FleetInv, Counters, One, Typed, FiguresTyped
<1>9. active' \in Int
  BY <1>3 DEF Typed, FiguresTyped
<1>10. QED
  BY <1>1, <1>5, <1>6, <1>7, <1>8, <1>9 DEF Stepped, Typed, FiguresTyped

\* A step that counts neither an error nor a request.
LEMMA CausesStand ==
  ASSUME tally \in [Counters -> Nat], tally' \in [Counters -> Nat],
         \A c \in Counters \ {"frames", "codes", "unacked", "unexpected", "twice", "never"} : tally'[c] = tally[c]
  PROVE  /\ CausesKept /\ tally'.opened - tally.opened = 0 /\ tally'.transport - tally.transport = 0
         /\ tally.codes \in Nat /\ tally'.codes \in Nat /\ tally.unacked \in Nat /\ tally'.unacked \in Nat
         /\ tally.twice \in Nat /\ tally'.twice \in Nat /\ tally.never \in Nat /\ tally'.never \in Nat
         /\ tally'.dropped - tally.dropped = 0 /\ tally'.redropped = tally.redropped
         /\ tally.redropped \in Nat
<1>1. /\ tally.errors \in Nat /\ tally.failed \in Nat /\ tally.timeouts \in Nat /\ tally.dropped \in Nat
      /\ tally.transport \in Nat /\ tally.requests \in Nat /\ tally.sent \in Nat /\ tally.opened \in Nat
      /\ tally.codes \in Nat /\ tally'.codes \in Nat /\ tally.unacked \in Nat /\ tally'.unacked \in Nat
      /\ tally.twice \in Nat /\ tally'.twice \in Nat /\ tally.never \in Nat /\ tally'.never \in Nat
      /\ tally.redropped \in Nat
  BY DEF Counters
<1>2. /\ tally'.errors = tally.errors /\ tally'.failed = tally.failed /\ tally'.timeouts = tally.timeouts
      /\ tally'.dropped = tally.dropped /\ tally'.transport = tally.transport /\ tally'.requests = tally.requests
      /\ tally'.sent = tally.sent /\ tally'.opened = tally.opened /\ tally'.redropped = tally.redropped
  BY DEF Counters
<1>3. QED
  BY ONLY <1>1, <1>2 DEF CausesKept

LEMMA CloseSocketStep ==
  ASSUME Typed, FleetInv, NEW s \in Slot, SlotInv(s), CloseSocket(s)
  PROVE  Stepped(s)
<1> DEFINE me == slot[s]
           next == [slot[s] EXCEPT !.pc = "joining"]
<1>1. /\ UNCHANGED <<config, reader, owed, pushed, hungUp, hangUps, lag, mistimed, active, peak, stop, exit>>
      /\ me.pc = "closing" /\ s \in config.slots
  BY DEF CloseSocket, fleet, Same, SlotInv, FlagsInv
<1>2. slot'[s] = next /\ DOMAIN slot' = Slot /\ \A r \in Slot \ {s} : slot'[r] = slot[r]
  BY DEF CloseSocket, Goes, Typed
<1>3. next \in SlotState /\ next.pc = "joining" /\ next.ended = me.ended /\ next.answered = me.answered
  BY DEF SlotInv, SlotTyped, SlotState, Places, Open
<1>4. inbox'[s] \in {inbox[s], <<>>} /\ DOMAIN inbox' = Slot /\ \A r \in Slot \ {s} : inbox'[r] = inbox[r]
  BY DEF CloseSocket, Typed
<1>5. Elsewhere(s)
  BY <1>1, <1>2, <1>4 DEF Typed, Elsewhere
<1>6. SlotInv(s)'
  <2>1. <<>> \in Seq(Int) /\ DOMAIN <<>> = {}
    OBVIOUS
  <2>2. SlotTyped(s)' /\ FlagsInv(s)'
    BY <1>1, <1>2, <1>3, <1>4, <2>1 DEF SlotInv, SlotTyped, FlagsInv, InUse, Open
  <2>3. FramesInv(s)'
    BY <1>1, <1>2, <1>3, <1>4, <2>1 DEF SlotInv, FramesInv, InUse, Open
  <2>4. QED
    BY <2>2, <2>3 DEF SlotInv
<1>7. \/ me.ended /\ UNCHANGED tally
      \/ /\ ~me.ended /\ me.answered
         /\ \E end \in {"codes", "unacked"} : Count({"frames", end, "twice"})
      \/ /\ ~me.ended /\ ~me.answered
         /\ \E end \in {"codes", "unacked"} : Count({"frames", end})
      \/ /\ ~me.ended /\ ~me.answered /\ reader[s] = "reading"
         /\ Count({"frames", "never"})
  BY DEF CloseSocket
<1>8. /\ tally' \in [Counters -> Nat]
      /\ \A c \in Counters \ {"frames", "codes", "unacked", "twice", "never"} : tally'[c] = tally[c]
      /\ LET more == (tally'.codes - tally.codes) + (tally'.unacked - tally.unacked)
         IN  \/ ~Bare(s) /\ more = 0 /\ tally'.twice = tally.twice /\ tally'.never = tally.never
             \/ ~Bare(s) /\ me.answered /\ more = 1 /\ tally'.twice = tally.twice + 1 /\ tally'.never = tally.never
             \/ Bare(s) /\ more = 1 /\ tally'.twice = tally.twice /\ tally'.never = tally.never
             \/ Bare(s) /\ reader[s] = "reading" /\ more = 0 /\ tally'.twice = tally.twice /\ tally'.never = tally.never + 1
  <2>1. Bare(s) <=> ~me.ended /\ ~me.answered
    BY <1>1 DEF Bare, Open
  <2> DEFINE Counted(cs) == /\ tally' \in [Counters -> Nat]
                            /\ \A c \in Counters : tally'[c] = tally[c] + One(c \in cs)
  <2>2. ASSUME NEW cs, Count(cs) PROVE Counted(cs)
    BY <2>2, Counting DEF Typed, FiguresTyped
  <2>3. tally \in [Counters -> Nat] /\ {"frames", "codes", "unacked", "twice", "never"} \subseteq Counters
    BY DEF Typed, FiguresTyped, Counters
  <2>4. /\ tally.codes \in Nat /\ tally.unacked \in Nat /\ tally.twice \in Nat /\ tally.never \in Nat
    BY <2>3
  <2>5. CASE me.ended /\ UNCHANGED tally
    BY <2>1, <2>3, <2>4, <2>5
  <2>6. ASSUME NEW cs \in SUBSET {"frames", "codes", "unacked", "twice", "never"}, Count(cs)
        PROVE  /\ tally' \in [Counters -> Nat]
               /\ \A c \in Counters \ {"frames", "codes", "unacked", "twice", "never"} : tally'[c] = tally[c]
               /\ tally'.codes = tally.codes + One("codes" \in cs)
               /\ tally'.unacked = tally.unacked + One("unacked" \in cs)
               /\ tally'.twice = tally.twice + One("twice" \in cs)
               /\ tally'.never = tally.never + One("never" \in cs)
    <3>1. Counted(cs)
      BY <2>2, <2>6
    <3>2. \A c \in Counters \ {"frames", "codes", "unacked", "twice", "never"} : c \notin cs /\ tally[c] \in Nat
      BY <2>3
    <3>3. QED
      BY <2>3, <3>1, <3>2 DEF One
  <2> HIDE DEF Counted
  <2>7. CASE ~me.ended /\ me.answered /\ \E end \in {"codes", "unacked"} : Count({"frames", end, "twice"})
    <3>1. PICK end \in {"codes", "unacked"} : Count({"frames", end, "twice"})
      BY <2>7
    <3>2. {"frames", end, "twice"} \in SUBSET {"frames", "codes", "unacked", "twice", "never"}
      OBVIOUS
    <3>3. QED
      BY <2>1, <2>4, <2>6, <2>7, <3>1, <3>2 DEF One
  <2>8. CASE ~me.ended /\ ~me.answered /\ \E end \in {"codes", "unacked"} : Count({"frames", end})
    <3>1. PICK end \in {"codes", "unacked"} : Count({"frames", end})
      BY <2>8
    <3>2. {"frames", end} \in SUBSET {"frames", "codes", "unacked", "twice", "never"}
      OBVIOUS
    <3>3. QED
      BY <2>1, <2>4, <2>6, <2>8, <3>1, <3>2 DEF One
  <2>9. CASE ~me.ended /\ ~me.answered /\ reader[s] = "reading" /\ Count({"frames", "never"})
    <3>1. {"frames", "never"} \in SUBSET {"frames", "codes", "unacked", "twice", "never"}
      OBVIOUS
    <3>2. QED
      BY <2>1, <2>4, <2>6, <2>9, <3>1 DEF One
  <2>10. QED
    BY <1>7, <2>5, <2>7, <2>8, <2>9
<1>9. /\ CausesKept /\ tally'.opened - tally.opened = 0 /\ tally'.transport - tally.transport = 0
      /\ tally.codes \in Nat /\ tally'.codes \in Nat /\ tally.unacked \in Nat /\ tally'.unacked \in Nat
      /\ tally.twice \in Nat /\ tally'.twice \in Nat /\ tally.never \in Nat /\ tally'.never \in Nat
      /\ tally'.dropped - tally.dropped = 0 /\ tally'.redropped = tally.redropped /\ tally.redropped \in Nat
  BY <1>8, CausesStand DEF Typed, FiguresTyped
<1>10. ~Bare(s)'
  BY <1>2, <1>3 DEF Bare
<1>11. EndsKept(s)
  BY ONLY <1>8, <1>9, <1>10 DEF EndsKept, One
<1>12. ExpectKept
  <2>1. config.expect => ~me.answered /\ reader[s] # "reading"
    BY <1>1 DEF SlotInv, FlagsInv, Open
  <2>2. QED
    BY <1>8, <1>9, <2>1 DEF ExpectKept
<1>13. FramesKept(s) /\ DropsKept(s) /\ FleetKept(s)
  <2>1. /\ ~Claims(s) /\ ~Claims(s)' /\ Drains(s) = 0 /\ Drains(s)' = 0
        /\ Holds(s) /\ Holds(s)'
    BY <1>1, <1>2, <1>3 DEF Claims, Holds, Drains, InUse, Open
  <2>2. FramesKept(s)
    BY <1>8, <2>1 DEF FramesKept, Counters, Typed, FiguresTyped
  <2>3. DropsKept(s) /\ FleetKept(s)
    BY <1>1, <1>9, <2>1 DEF DropsKept, FleetKept, FleetInv, One, Typed, FiguresTyped
  <2>4. QED
    BY <2>2, <2>3
<1>14. QED
  BY <1>1, <1>5, <1>6, <1>8, <1>9, <1>11, <1>12, <1>13 DEF Stepped, Typed, FiguresTyped

-------------------------------------------------------------------------------
(* Frames that are read.                                                      *)

LEMMA Popping ==
  ASSUME NEW S, NEW q \in Seq(S), q # <<>>
  PROVE  /\ Len(q) \in Nat \ {0} /\ DOMAIN q = 1..Len(q) /\ Head(q) = q[1] /\ Head(q) \in S
         /\ Tail(q) \in Seq(S) /\ Len(Tail(q)) = Len(q) - 1 /\ DOMAIN Tail(q) = 1..(Len(q) - 1)
         /\ \A i \in 1..(Len(q) - 1) : Tail(q)[i] = q[i + 1]
<1>1. Len(q) \in Nat /\ Len(q) # 0 /\ DOMAIN q = 1..Len(q)
  BY LenProperties, EmptySeq
<1>2. Head(q) = q[1] /\ q[1] \in S
  <2>1. 1 \in 1..Len(q)
    BY <1>1
  <2>2. QED
    BY <2>1, HeadTailProperties, ElementOfSeq
<1>3. Tail(q) \in Seq(S) /\ Len(Tail(q)) = Len(q) - 1 /\ \A i \in 1..Len(Tail(q)) : Tail(q)[i] = q[i + 1]
  BY HeadTailProperties
<1>4. DOMAIN Tail(q) = 1..(Len(q) - 1)
  BY <1>3, LenProperties
<1>5. QED
  BY <1>1, <1>2, <1>3, <1>4

\* What a popped frame counts for, and what remains.
LEMMA Popped1 ==
  ASSUME Typed, NEW s \in Slot, SlotInv(s), inbox[s] # <<>>, Popped(s), slot[s].pc \in Open
  PROVE  /\ Head(inbox[s]) \in Int /\ inbox'[s] \in Seq(Int) /\ DOMAIN inbox' = Slot
         /\ \A r \in Slot \ {s} : inbox'[r] = inbox[r]
         /\ Head(inbox[s]) < 0 => hungUp[s]
         /\ \A i \in DOMAIN inbox'[s] : inbox'[s][i] < 0 => hungUp[s]
<1>1. inbox'[s] = Tail(inbox[s]) /\ DOMAIN inbox' = Slot /\ \A r \in Slot \ {s} : inbox'[r] = inbox[r]
  BY DEF Popped, Typed
<1> DEFINE q == inbox[s]
<1>2. q \in Seq(Int) /\ \A i \in DOMAIN q : q[i] < 0 => hungUp[s]
  BY DEF SlotInv, SlotTyped, FramesInv
<1>3. /\ Len(q) \in Nat \ {0} /\ DOMAIN q = 1..Len(q) /\ Head(q) = q[1] /\ Head(q) \in Int
      /\ Tail(q) \in Seq(Int) /\ DOMAIN Tail(q) = 1..(Len(q) - 1)
      /\ \A i \in 1..(Len(q) - 1) : Tail(q)[i] = q[i + 1]
  BY <1>2, Popping
<1> HIDE DEF q
<1>4. Head(q) < 0 => hungUp[s]
  BY <1>2, <1>3
<1>5. \A i \in DOMAIN Tail(q) : Tail(q)[i] < 0 => hungUp[s]
  BY <1>2, <1>3
<1>6. QED
  BY <1>1, <1>3, <1>4, <1>5 DEF q

LEMMA ReadStep ==
  ASSUME Typed, FleetInv, NEW s \in Slot, SlotInv(s), Read(s)
  PROVE  Stepped(s)
<1> DEFINE me == slot[s]
           frame == Head(inbox[s])
           counted == IF frame = Close /\ Shutdown(s) THEN {"codes"} ELSE Received(s)
<1>1. /\ UNCHANGED <<config, owed, pushed, hungUp, hangUps, lag, mistimed, active, peak, stop, exit>>
      /\ reader[s] = "reading" /\ me.pc \in Open \ {"joining"} /\ ~me.ended /\ ~me.answered /\ ~config.expect
      /\ me.pc \notin {"draining", "awaiting"} /\ s \in config.slots
  BY DEF Read, fleet, Same, SlotInv, FlagsInv, Open
<1>2. /\ frame \in Int /\ inbox'[s] \in Seq(Int) /\ DOMAIN inbox' = Slot
      /\ \A r \in Slot \ {s} : inbox'[r] = inbox[r]
      /\ frame < 0 => hungUp[s]
      /\ \A i \in DOMAIN inbox'[s] : inbox'[s][i] < 0 => hungUp[s]
  BY <1>1, Popped1 DEF Read
<1>3. /\ slot'[s] = [me EXCEPT !.ended = me.ended \/ (frame < 0 /\ ~Shutdown(s)),
                               !.answered = me.answered \/ (frame < 0 /\ Shutdown(s))]
      /\ DOMAIN slot' = Slot /\ \A r \in Slot \ {s} : slot'[r] = slot[r]
  BY DEF Read, Typed
<1>4. /\ reader'[s] = IF frame >= 0 THEN "reading" ELSE "ended"
      /\ DOMAIN reader' = Slot /\ \A r \in Slot \ {s} : reader'[r] = reader[r]
  BY <1>1 DEF Read, Typed
<1>5. /\ slot'[s] \in SlotState /\ slot'[s].pc = me.pc
      /\ slot'[s].ended = (frame < 0 /\ ~Shutdown(s)) /\ slot'[s].answered = (frame < 0 /\ Shutdown(s))
  <2> DEFINE e == me.ended \/ (frame < 0 /\ ~Shutdown(s))
             a == me.answered \/ (frame < 0 /\ Shutdown(s))
  <2>1. e = (frame < 0 /\ ~Shutdown(s)) /\ a = (frame < 0 /\ Shutdown(s)) /\ e \in BOOLEAN /\ a \in BOOLEAN
    BY <1>1
  <2>2. slot'[s] = [me EXCEPT !.ended = e, !.answered = a] /\ me \in SlotState
    BY <1>3 DEF SlotInv, SlotTyped
  <2> HIDE DEF e, a
  <2>3. slot'[s] \in SlotState /\ slot'[s].pc = me.pc /\ slot'[s].ended = e /\ slot'[s].answered = a
    BY <2>1, <2>2 DEF SlotState
  <2>4. QED
    BY <2>1, <2>3
<1>6. /\ tally' \in [Counters -> Nat]
      /\ \A c \in Counters : tally'[c] = tally[c] + One(c \in counted)
  BY Counting DEF Read, Typed, FiguresTyped
<1>7. counted = IF frame >= 0 THEN {"received"}
                ELSE IF frame # Close THEN {"transport", "errors"}
                ELSE IF Shutdown(s) THEN {"codes"} ELSE {"dropped", "codes", "errors"}
  BY <1>2 DEF Received, Close
<1>8. Elsewhere(s)
  BY <1>1, <1>2, <1>3, <1>4 DEF Typed, Elsewhere
<1> HIDE DEF frame, counted
<1>81. /\ frame >= 0 => ~slot'[s].ended /\ ~slot'[s].answered
       /\ ~(frame >= 0) => (slot'[s].ended <=> ~Shutdown(s)) /\ (slot'[s].answered <=> Shutdown(s))
  <2>1. Close = -1 /\ frame \in Int /\ (frame < 0 <=> ~(frame >= 0)) /\ (frame >= 0 => frame # Close)
    BY <1>2 DEF Close
  <2>2. QED
    BY <1>5, <2>1
<1>9. SlotInv(s)'
  <2>1. SlotTyped(s)'
    BY <1>1, <1>2, <1>4, <1>5 DEF SlotInv, SlotTyped
  <2>2. FlagsInv(s)'
    <3>1. InUse(s) => (config.messages <=> me.pc # "listening")
      BY DEF SlotInv, FlagsInv
    <3>2. me.pc # "connecting" /\ (InUse(s)' <=> InUse(s))
      BY <1>1, <1>5 DEF Open, InUse
    <3>3. reader'[s] = "reading" => ~slot'[s].ended /\ ~slot'[s].answered
      BY <1>4, <1>81
    <3>4. QED
      BY <1>1, <1>5, <3>1, <3>2, <3>3 DEF FlagsInv
  <2>3. FramesInv(s)'
    BY <1>1, <1>2, <1>5 DEF FramesInv
  <2>4. QED
    BY <2>1, <2>2, <2>3 DEF SlotInv
<1>10. CausesKept /\ EndsKept(s)
  <2>1. Bare(s) /\ (Bare(s)' <=> frame >= 0)
    BY <1>1, <1>5, <1>81 DEF Bare
  <2>2. CASE frame >= 0
    BY <1>1, <1>6, <1>7, <2>1, <2>2 DEF CausesKept, EndsKept, Counters, One, Typed, FiguresTyped
  <2>3. CASE ~(frame >= 0) /\ frame # Close
    BY <1>1, <1>6, <1>7, <2>1, <2>3 DEF CausesKept, EndsKept, Counters, One, Typed, FiguresTyped
  <2>4. CASE ~(frame >= 0) /\ frame = Close
    BY <1>1, <1>6, <1>7, <2>1, <2>4 DEF CausesKept, EndsKept, Counters, One, Typed, FiguresTyped
  <2>5. QED
    BY <2>2, <2>3, <2>4
<1>11. FramesKept(s) /\ DropsKept(s) /\ ExpectKept /\ FleetKept(s)
  <2>1. /\ (Claims(s)' => Claims(s)) /\ Drains(s) = 0 /\ Drains(s)' = 0
        /\ Holds(s) /\ Holds(s)'
        /\ ~(frame >= 0) /\ ~Shutdown(s) => Claims(s) /\ ~Claims(s)'
    BY <1>1, <1>2, <1>4, <1>5, <1>81 DEF Claims, Holds, Drains, InUse, Shutdown
  <2>2. FramesKept(s) /\ FleetKept(s)
    BY <1>1, <1>6, <1>7, <2>1 DEF FramesKept, FleetKept, FleetInv, Counters, One, Typed, FiguresTyped
  <2>3. DropsKept(s)
    BY <1>1, <1>6, <1>7, <2>1 DEF DropsKept, Counters, One, Typed, FiguresTyped
  <2>4. ExpectKept
    BY <1>1 DEF ExpectKept
  <2>5. QED
    BY <2>2, <2>3, <2>4
<1>12. QED
  BY <1>1, <1>6, <1>8, <1>9, <1>10, <1>11 DEF Stepped, Open, Typed, FiguresTyped

LEMMA ReadRaisesStep ==
  ASSUME Typed, FleetInv, NEW s \in Slot, SlotInv(s), ReadRaises(s)
  PROVE  Stepped(s)
<1> DEFINE me == slot[s]
           next == slot'[s]
<1>1. /\ UNCHANGED <<config, inbox, owed, pushed, hungUp, hangUps, lag, mistimed, tally, active, peak, stop, exit>>
      /\ hungUp[s] /\ me.pc \in Open \ {"joining"}
  BY DEF ReadRaises, wire, fleet, Same, SlotInv, FlagsInv, Open
<1>2. s \in config.slots
  BY <1>1 DEF SlotInv, FlagsInv, Open
<1>3. /\ next \in SlotState /\ next.ended = me.ended /\ next.answered = me.answered /\ next.pc # "joining"
      /\ DOMAIN slot' = Slot /\ \A r \in Slot \ {s} : slot'[r] = slot[r]
      /\ DOMAIN reader' = Slot /\ \A r \in Slot \ {s} : reader'[r] = reader[r]
      /\ \/ next.pc = "closing" /\ me.pc \in {"draining", "awaiting"} /\ reader'[s] = reader[s]
         \/ next = me /\ reader[s] = "reading" /\ reader'[s] = "raised"
  <2>1. CASE /\ me.pc \in {"draining", "awaiting"}
             /\ slot' = [slot EXCEPT ![s].pc = "closing", ![s].crashed = TRUE]
             /\ UNCHANGED reader
    <3> DEFINE crash == [me EXCEPT !.pc = "closing", !.crashed = TRUE]
    <3>1. next = crash /\ DOMAIN slot' = Slot /\ \A r \in Slot \ {s} : slot'[r] = slot[r]
      BY <2>1 DEF Typed
    <3>2. crash \in SlotState /\ crash.pc = "closing" /\ crash.ended = me.ended /\ crash.answered = me.answered
      BY DEF SlotInv, SlotTyped, SlotState, Places, Open
    <3> HIDE DEF crash
    <3>3. QED
      BY <2>1, <3>1, <3>2 DEF Typed
  <2>2. CASE /\ reader[s] = "reading" /\ me.pc # "joining"
             /\ reader' = [reader EXCEPT ![s] = "raised"] /\ UNCHANGED slot
    BY <2>2 DEF Typed, SlotInv, SlotTyped
  <2>3. QED
    BY <2>1, <2>2 DEF ReadRaises
<1> HIDE DEF next
<1>4. Elsewhere(s)
  BY <1>1, <1>3 DEF Typed, Elsewhere
<1>5. SlotInv(s)'
  <2>1. SlotTyped(s)'
    BY <1>1, <1>3 DEF SlotInv, SlotTyped, next
  <2>2. next.pc = "closing" \/ ~config.expect
    BY <1>3 DEF SlotInv, FlagsInv
  <2>3. FlagsInv(s)'
    BY <1>1, <1>2, <1>3, <2>2 DEF SlotInv, FlagsInv, InUse, Open, next
  <2>4. FramesInv(s)'
    BY <1>1, <1>3, <2>2 DEF SlotInv, FramesInv, InUse, Open, next
  <2>5. QED
    BY <2>1, <2>3, <2>4 DEF SlotInv
<1>6. CausesKept /\ EndsKept(s)
  <2>1. Bare(s) <=> Bare(s)'
    BY <1>1, <1>3 DEF Bare, Open, next
  <2>2. QED
    BY <1>1, <2>1 DEF CausesKept, EndsKept, Counters, One, Typed, FiguresTyped
<1>7. FramesKept(s) /\ DropsKept(s) /\ ExpectKept /\ FleetKept(s)
  <2>1. /\ (Claims(s)' => Claims(s)) /\ Drains(s)' <= Drains(s) /\ Drains(s) \in Nat /\ Drains(s)' \in Nat
        /\ Holds(s) /\ Holds(s)'
    BY <1>1, <1>3, <1>5 DEF Claims, Holds, Drains, InUse, Open, next, SlotInv, SlotTyped, SlotState
  <2>2. QED
    BY <1>1, <2>1 DEF FramesKept, DropsKept, ExpectKept, FleetKept, FleetInv, Counters, One, Typed, FiguresTyped
<1>8. QED
  BY <1>1, <1>4, <1>5, <1>6, <1>7 DEF Stepped, Open, Typed, FiguresTyped

\* A socket that waits for replies reads an answer: the others move up.
LEMMA AnswerTaken ==
  ASSUME Typed, NEW s \in Slot, SlotInv(s), InUse(s), config.expect, inbox[s] # <<>>, Popped(s), Head(inbox[s]) >= 0,
         hungUp' = hungUp
  PROVE  /\ Answers(s) \in Nat \ {0} /\ Answers(s)' = Answers(s) - 1 /\ Frames(s)'
         /\ Head(inbox[s]) = inbox[s][1]
         /\ \A i \in 1..(Answers(s) - 1) : inbox'[s][i] = inbox[s][i + 1]
<1> DEFINE q == inbox[s]
           n == Answers(s)
           h == IF hungUp[s] THEN 1 ELSE 0
<1>1. inbox'[s] = Tail(q) /\ Answers(s)' = Len(inbox'[s]) - h /\ hungUp'[s] = hungUp[s]
  BY DEF Popped, Typed, Answers
<1>2. /\ q \in Seq(Int) /\ q # <<>> /\ n = Len(q) - h
      /\ n \in Nat /\ (\A i \in 1..n : q[i] > 0) /\ (hungUp[s] => q[Len(q)] < 0)
  BY DEF SlotInv, SlotTyped, FramesInv, Frames, Answers
<1>3. /\ Len(q) \in Nat \ {0} /\ Head(q) = q[1] /\ Head(q) \in Int /\ DOMAIN q = 1..Len(q)
      /\ Len(Tail(q)) = Len(q) - 1
      /\ \A i \in 1..(Len(q) - 1) : Tail(q)[i] = q[i + 1]
  BY <1>2, Popping
<1>4. \A i \in 1..Len(q) : q[i] \in Int
  BY <1>2, <1>3, ElementOfSeq
<1> DEFINE len == Len(q)
<1>5. len \in Nat \ {0} /\ n = len - h /\ h \in {0, 1} /\ (hungUp[s] <=> h = 1)
  BY <1>2, <1>3
<1>6. n # 0
  <2>1. n = 0 => h = 1 /\ len = 1
    <3> HIDE DEF n, h, len
    <3>1. QED
      BY <1>5
  <2>2. q[1] >= 0 /\ q[1] \in Int
    BY <1>3
  <2>3. QED
    BY <1>2, <1>5, <2>1, <2>2
<1>7. Answers(s)' = n - 1
  BY <1>1, <1>3, <1>5
<1>8. \A i \in 1..(n - 1) : Tail(q)[i] = q[i + 1] /\ q[i + 1] > 0
  <2> SUFFICES ASSUME NEW i \in 1..(n - 1)
               PROVE  Tail(q)[i] = q[i + 1] /\ q[i + 1] > 0
    OBVIOUS
  <2> HIDE DEF n, h, len, q
  <2>1. i \in 1..(len - 1) /\ i + 1 \in 1..n
    BY <1>2, <1>5
  <2>2. QED
    BY <1>2, <1>3, <2>1 DEF len
<1>9. hungUp[s] => Tail(q)[Len(Tail(q))] < 0
  <2> SUFFICES ASSUME hungUp[s]
               PROVE  Tail(q)[Len(Tail(q))] < 0
    OBVIOUS
  <2>1. q[len] < 0 /\ h = 1
    BY <1>2
  <2> HIDE DEF n, h, q
  <2>2. len - 1 \in 1..(len - 1) /\ (len - 1) + 1 = len
    BY <1>2, <1>5, <1>6, <2>1
  <2>3. Tail(q)[len - 1] = q[len]
    BY <1>3, <2>2
  <2>4. QED
    BY <1>3, <2>1, <2>3
<1>10. Frames(s)'
  BY <1>1, <1>2, <1>6, <1>7, <1>8, <1>9 DEF Frames
<1>11. QED
  BY <1>1, <1>2, <1>3, <1>6, <1>7, <1>8, <1>10

\* Nobody has ended a connection whose inbox a waiting socket finds empty.
LEMMA NothingThere ==
  ASSUME NEW s \in Slot, SlotInv(s), InUse(s), config.expect, inbox[s] = <<>>
  PROVE  ~hungUp[s] /\ Answers(s) = 0
<1>1. Answers(s) \in Nat /\ Answers(s) = Len(inbox[s]) - (IF hungUp[s] THEN 1 ELSE 0)
  BY DEF SlotInv, FramesInv, Frames, Answers
<1>2. Len(inbox[s]) = 0
  OBVIOUS
<1>3. QED
  BY <1>1, <1>2

LEMMA ReplyStep ==
  ASSUME Typed, FleetInv, NEW s \in Slot, SlotInv(s), Reply(s)
  PROVE  Stepped(s)
<1> DEFINE me == slot[s]
           frame == Head(inbox[s])
           next == slot'[s]
           counted == IF frame >= 0 THEN {"received", "timed"} ELSE Received(s)
<1>1. /\ UNCHANGED <<config, reader, owed, pushed, hungUp, hangUps, lag, active, peak, stop, exit>>
      /\ me.pc = "awaiting" /\ ~me.ended /\ ~me.answered /\ config.expect /\ config.messages /\ reader[s] # "reading"
      /\ s \in config.slots /\ InUse(s) /\ inbox[s] # <<>> /\ Popped(s)
  BY DEF Reply, fleet, Same, SlotInv, FlagsInv, Open, InUse
<1>2. /\ frame \in Int /\ inbox'[s] \in Seq(Int) /\ DOMAIN inbox' = Slot
      /\ \A r \in Slot \ {s} : inbox'[r] = inbox[r]
      /\ frame < 0 => hungUp[s]
      /\ \A i \in DOMAIN inbox'[s] : inbox'[s][i] < 0 => hungUp[s]
  BY <1>1, Popped1 DEF Open
<1>3. /\ \/ frame >= 0 /\ Goes(s, "pausing") /\ mistimed' = (mistimed \/ frame # me.sent)
         \/ frame < 0 /\ Ends(s) /\ mistimed' = mistimed
      /\ Count(counted)
  BY <1>2 DEF Reply
<1>4. /\ next \in SlotState /\ ~next.answered /\ next.ended = (frame < 0) /\ next.desynced = me.desynced
      /\ next.pc = IF frame >= 0 THEN "pausing" ELSE "closing"
      /\ DOMAIN slot' = Slot /\ \A r \in Slot \ {s} : slot'[r] = slot[r]
  <2>1. CASE frame >= 0
    <3>1. next = [me EXCEPT !.pc = "pausing"]
          /\ DOMAIN slot' = Slot /\ \A r \in Slot \ {s} : slot'[r] = slot[r]
      BY <1>2, <1>3, <2>1 DEF Goes, Typed
    <3>2. [me EXCEPT !.pc = "pausing"] \in SlotState
      BY DEF SlotInv, SlotTyped, SlotState, Places, Open
    <3>3. QED
      BY <1>1, <1>2, <2>1, <3>1, <3>2, SMTT(30) DEF SlotState, SlotInv, SlotTyped
  <2>2. CASE frame < 0
    <3> DEFINE end == [me EXCEPT !.pc = "closing", !.ended = TRUE]
    <3>1. Ends(s)
      BY <1>2, <1>3, <2>2
    <3>2. next = end /\ DOMAIN slot' = Slot /\ \A r \in Slot \ {s} : slot'[r] = slot[r]
      BY <3>1 DEF Ends, Typed
    <3>3. /\ end \in SlotState /\ end.answered = me.answered /\ end.ended = TRUE /\ end.desynced = me.desynced
          /\ end.pc = "closing"
      BY DEF SlotInv, SlotTyped, SlotState, Places, Open
    <3> HIDE DEF end, next
    <3>4. (frame < 0) = TRUE /\ (frame >= 0) = FALSE
      BY <1>2, <2>2
    <3>5. QED
      BY <1>1, <3>2, <3>3, <3>4
  <2>3. QED
    BY <1>2, <2>1, <2>2
<1>5. /\ tally' \in [Counters -> Nat]
      /\ \A c \in Counters : tally'[c] = tally[c] + One(c \in counted)
  BY <1>3, Counting DEF Typed, FiguresTyped
<1>6. counted = IF frame >= 0 THEN {"received", "timed"}
                ELSE IF frame # Close THEN {"transport", "errors"} ELSE {"dropped", "codes", "errors"}
  BY <1>2 DEF Received, Close
<1>7. Elsewhere(s)
  BY <1>1, <1>2, <1>4 DEF Typed, Elsewhere
<1>8. frame >= 0 /\ lag <= 1 => frame = me.sent /\ Replies(s)' 
  <2> SUFFICES ASSUME frame >= 0, lag <= 1
               PROVE  frame = me.sent /\ Replies(s)'
    OBVIOUS
  <2>1. /\ Answers(s) \in Nat \ {0} /\ Answers(s)' = Answers(s) - 1 /\ frame = inbox[s][1]
    BY <1>1, AnswerTaken
  <2>2. Answers(s) + Len(owed[s]) <= 1 /\ Recent(s, FALSE)
    BY <1>1 DEF SlotInv, FramesInv, Replies
  <2>3. Len(owed[s]) \in Nat
    BY LenProperties DEF SlotInv, SlotTyped
  <2>4. Answers(s)' + Len(owed[s])' = 0
    BY <1>1, <2>1, <2>2, <2>3
  <2>5. inbox[s][1] = me.sent
    BY <2>1, <2>2 DEF Recent
  <2>6. QED
    BY <1>4, <2>1, <2>4, <2>5 DEF Replies
<1> HIDE DEF frame, counted, next
<1>80. /\ UNCHANGED <<config, hangUps, active, peak>> /\ config.expect /\ config.messages
       /\ (frame >= 0 => ~next.ended) /\ (~(frame >= 0) => next.ended /\ next.pc = "closing")
  <2>1. frame < 0 <=> ~(frame >= 0)
    BY <1>2
  <2>2. CASE frame >= 0
    BY <1>1, <1>4, <2>1, <2>2
  <2>3. CASE ~(frame >= 0)
    BY <1>1, <1>4, <2>1, <2>3
  <2>4. QED
    BY <2>2, <2>3
<1>9. SlotInv(s)'
  <2>1. SlotTyped(s)'
    BY <1>1, <1>2, <1>4 DEF SlotInv, SlotTyped, next
  <2>2. FlagsInv(s)'
    BY <1>1, <1>4, <1>80 DEF FlagsInv, InUse, Open, next
  <2>3. FramesInv(s)'
    <3>1. CASE frame >= 0
      <4>1. Frames(s)'
        BY <1>1, <3>1, AnswerTaken DEF frame
      <4>2. QED
        BY <1>1, <1>2, <1>8, <3>1, <4>1 DEF FramesInv
    <3>2. CASE frame < 0
      BY <1>1, <1>2, <1>4, <3>2 DEF FramesInv, InUse, next
    <3>3. QED
      BY <1>2, <3>1, <3>2
  <2>4. QED
    BY <2>1, <2>2, <2>3 DEF SlotInv
<1>10. CausesKept /\ EndsKept(s)
  <2>1. Bare(s) /\ (Bare(s)' <=> frame >= 0)
    BY <1>1, <1>4, <1>80 DEF Bare, Open, next
  <2>2. CASE frame >= 0
    BY <1>5, <1>6, <1>80, <2>1, <2>2 DEF CausesKept, EndsKept, Counters, One, Typed, FiguresTyped
  <2>3. CASE ~(frame >= 0) /\ frame # Close
    BY <1>5, <1>6, <1>80, <2>1, <2>3 DEF CausesKept, EndsKept, Counters, One, Typed, FiguresTyped
  <2>4. CASE ~(frame >= 0) /\ frame = Close
    BY <1>5, <1>6, <1>80, <2>1, <2>4 DEF CausesKept, EndsKept, Counters, One, Typed, FiguresTyped
  <2>5. QED
    BY <2>2, <2>3, <2>4
<1>11. FramesKept(s) /\ DropsKept(s) /\ ExpectKept /\ FleetKept(s)
  <2>1. /\ (Claims(s)' => Claims(s)) /\ Drains(s) = 0 /\ Drains(s)' = 0
        /\ Holds(s) /\ Holds(s)'
        /\ ~(frame >= 0) => Claims(s) /\ ~Claims(s)'
    BY <1>1, <1>2, <1>4 DEF Claims, Holds, Drains, InUse, Open, next
  <2>5. /\ tally'.redropped - tally.redropped = 0 /\ ExpectKept
    BY <1>3, <1>6, NothingCountedIsOff DEF Typed, FiguresTyped
  <2>2. FramesKept(s) /\ FleetKept(s)
    BY <1>5, <1>6, <1>80, <2>1 DEF FramesKept, FleetKept, FleetInv, Counters, One, Typed, FiguresTyped, next
  <2>3. DropsKept(s)
    <3>1. tally.dropped \in Nat /\ tally'.dropped = tally.dropped + One("dropped" \in counted)
      BY <1>5 DEF Counters, Typed, FiguresTyped
    <3>2. "dropped" \in counted => ~(frame >= 0)
      BY <1>6
    <3>3. hangUps' - hangUps = 0
      BY <1>80 DEF Typed, FiguresTyped
    <3>4. QED
      BY <2>1, <2>5, <3>1, <3>2, <3>3 DEF DropsKept, One
  <2>4. QED
    BY <2>2, <2>3, <2>5
<1>12. mistimed' \in BOOLEAN /\ (mistimed' => mistimed \/ lag' > 1)
  <2>1. lag \in Nat /\ lag' = lag /\ mistimed \in BOOLEAN
    BY <1>1 DEF Typed, FiguresTyped
  <2>2. CASE mistimed' = mistimed
    BY <2>1, <2>2
  <2>3. CASE frame >= 0 /\ mistimed' = (mistimed \/ frame # me.sent)
    <3>1. frame = me.sent \/ lag' > 1
      BY <1>8, <2>1, <2>3
    <3>2. QED
      BY <2>1, <2>3, <3>1
  <2>4. QED
    BY <1>3, <2>2, <2>3
<1>13. QED
  BY <1>1, <1>5, <1>7, <1>9, <1>10, <1>11, <1>12 DEF Stepped, Typed, FiguresTyped

\* The growth of each counter.
LEMMA Growth ==
  ASSUME Typed, NEW cs, Count(cs)
  PROVE  /\ tally'.opened - tally.opened = One("opened" \in cs)
         /\ tally'.failed - tally.failed = One("failed" \in cs)
         /\ tally'.dropped - tally.dropped = One("dropped" \in cs)
         /\ tally'.sent - tally.sent = One("sent" \in cs)
         /\ tally'.received - tally.received = One("received" \in cs)
         /\ tally'.timeouts - tally.timeouts = One("timeouts" \in cs)
         /\ tally'.unexpected - tally.unexpected = One("unexpected" \in cs)
         /\ tally'.unacked - tally.unacked = One("unacked" \in cs)
         /\ tally'.codes - tally.codes = One("codes" \in cs)
         /\ tally'.transport - tally.transport = One("transport" \in cs)
         /\ tally'.errors - tally.errors = One("errors" \in cs)
         /\ tally'.requests - tally.requests = One("requests" \in cs)
         /\ tally'.timed - tally.timed = One("timed" \in cs)
<1>1. /\ tally \in [Counters -> Nat] /\ tally' \in [Counters -> Nat]
      /\ \A c \in Counters : tally'[c] = tally[c] + One(c \in cs)
  BY Counting DEF Typed, FiguresTyped
<1>2. \A c \in Counters : tally'[c] - tally[c] = One(c \in cs)
  <2> SUFFICES ASSUME NEW c \in Counters
               PROVE  tally'[c] - tally[c] = One(c \in cs)
    OBVIOUS
  <2>1. tally[c] \in Nat /\ tally'[c] = tally[c] + One(c \in cs) /\ One(c \in cs) \in {0, 1}
    BY <1>1 DEF One
  <2>2. QED
    BY <2>1
<1>3. /\ "opened" \in Counters
      /\ "failed" \in Counters
      /\ "dropped" \in Counters
      /\ "sent" \in Counters
      /\ "received" \in Counters
      /\ "timeouts" \in Counters
      /\ "unexpected" \in Counters
      /\ "unacked" \in Counters
      /\ "codes" \in Counters
      /\ "transport" \in Counters
      /\ "errors" \in Counters
      /\ "requests" \in Counters
      /\ "timed" \in Counters
  BY DEF Counters
<1>4. QED
  BY <1>2, <1>3

LEMMA DrainFrameStep ==
  ASSUME Typed, FleetInv, NEW s \in Slot, SlotInv(s), Drain(s), inbox[s] # <<>>
  PROVE  Stepped(s)
<1> DEFINE me == slot[s]
           frame == Head(inbox[s])
           next == slot'[s]
           counted == Received(s)
<1>1. /\ UNCHANGED <<config, reader, owed, pushed, hungUp, hangUps, lag, mistimed, active, peak, stop, exit>>
      /\ me.pc = "draining" /\ ~me.ended /\ ~me.answered /\ config.expect /\ config.messages /\ reader[s] # "reading"
      /\ s \in config.slots /\ InUse(s) /\ Popped(s)
  BY DEF Drain, fleet, Same, SlotInv, FlagsInv, Open, InUse
<1>2. /\ frame \in Int /\ inbox'[s] \in Seq(Int) /\ DOMAIN inbox' = Slot
      /\ \A r \in Slot \ {s} : inbox'[r] = inbox[r]
      /\ frame < 0 => hungUp[s]
      /\ \A i \in DOMAIN inbox'[s] : inbox'[s][i] < 0 => hungUp[s]
  BY <1>1, Popped1 DEF Open
<1>3. /\ IF frame >= 0 THEN slot' = [slot EXCEPT ![s].drained = @ + 1] ELSE Ends(s)
      /\ Count(counted)
  BY DEF Drain
<1>4. /\ next \in SlotState /\ ~next.answered /\ next.desynced = me.desynced /\ next.sent = me.sent
      /\ me.drained \in Nat /\ DOMAIN slot' = Slot /\ \A r \in Slot \ {s} : slot'[r] = slot[r]
      /\ frame >= 0 => next.pc = "draining" /\ ~next.ended /\ next.drained = me.drained + 1
      /\ ~(frame >= 0) => next.pc = "closing" /\ next.ended
  <2>1. CASE frame >= 0
    <3>1. next = [me EXCEPT !.drained = me.drained + 1]
          /\ DOMAIN slot' = Slot /\ \A r \in Slot \ {s} : slot'[r] = slot[r]
      BY <1>3, <2>1 DEF Typed
    <3>2. [me EXCEPT !.drained = me.drained + 1] \in SlotState /\ me.drained \in Nat
      <4> DEFINE more == me.drained + 1
      <4>1. me \in SlotState
        BY DEF SlotInv, SlotTyped
      <4>2. me.drained \in Nat /\ more \in Nat
        BY <4>1 DEF SlotState
      <4> HIDE DEF more
      <4>3. [me EXCEPT !.drained = more] \in SlotState
        BY <4>1, <4>2 DEF SlotState
      <4>4. QED
        BY <4>2, <4>3 DEF more
    <3>3. QED
      BY <1>1, <2>1, <3>1, <3>2 DEF SlotState, SlotInv, SlotTyped
  <2>2. CASE ~(frame >= 0)
    <3> DEFINE end == [me EXCEPT !.pc = "closing", !.ended = TRUE]
    <3>1. Ends(s)
      BY <1>3, <2>2
    <3>2. next = end /\ DOMAIN slot' = Slot /\ \A r \in Slot \ {s} : slot'[r] = slot[r]
      BY <3>1 DEF Ends, Typed
    <3>3. /\ end \in SlotState /\ end.answered = me.answered /\ end.ended = TRUE /\ end.desynced = me.desynced
          /\ end.pc = "closing" /\ end.sent = me.sent /\ me.drained \in Nat
      BY DEF SlotInv, SlotTyped, SlotState, Places, Open
    <3> HIDE DEF end, next
    <3>4. QED
      BY <1>1, <2>2, <3>2, <3>3
  <2>3. QED
    BY <2>1, <2>2
<1>5. /\ tally' \in [Counters -> Nat]
      /\ \A c \in Counters : tally'[c] = tally[c] + One(c \in counted)
  BY <1>3, Counting DEF Typed, FiguresTyped
<1>6. counted = IF frame >= 0 THEN {"received"}
                ELSE IF frame # Close THEN {"transport", "errors"} ELSE {"dropped", "codes", "errors"}
  BY <1>2 DEF Received, Close
<1>7. Elsewhere(s)
  BY <1>1, <1>2, <1>4 DEF Typed, Elsewhere
<1>8. frame >= 0 /\ lag <= 1 => Replies(s)'
  <2> SUFFICES ASSUME frame >= 0, lag <= 1
               PROVE  Replies(s)'
    OBVIOUS
  <2> DEFINE n == Answers(s)
             o == Len(owed[s])
  <2>1. /\ n \in Nat \ {0} /\ Answers(s)' = n - 1
        /\ \A i \in 1..(n - 1) : inbox'[s][i] = inbox[s][i + 1]
    BY <1>1, AnswerTaken
  <2>2. n + o <= 2 /\ (me.drained > 0 => n + o <= 1) /\ Recent(s, me.drained = 0)
    BY <1>1 DEF SlotInv, FramesInv, Replies
  <2>3. o \in Nat /\ owed'[s] = owed[s]
    BY <1>1, LenProperties DEF SlotInv, SlotTyped
  <2>4. /\ \A i \in 1..n : inbox[s][i] = me.sent \/ i = 1
        /\ \A j \in 1..o : owed[s][j] = me.sent \/ n = 0
    BY <2>2 DEF Recent
  <2> HIDE DEF n, o, next, frame
  <2>5. (n - 1) + o <= 1
    BY <2>1, <2>2, <2>3
  <2>6. \A i \in 1..(n - 1) : inbox'[s][i] = me.sent
    <3> SUFFICES ASSUME NEW i \in 1..(n - 1)
                 PROVE  inbox'[s][i] = me.sent
      OBVIOUS
    <3>1. i + 1 \in 1..n /\ i + 1 # 1
      BY <2>1
    <3>2. QED
      BY <2>1, <2>4, <3>1
  <2>7. \A j \in 1..o : owed'[s][j] = me.sent
    BY <2>1, <2>3, <2>4
  <2>8. Recent(s, FALSE)'
    BY <1>4, <2>1, <2>3, <2>6, <2>7 DEF Recent, o, next
  <2>9. next.drained > 0 /\ next.pc = "draining"
    BY <1>4
  <2>10. (next.drained = 0) = FALSE
    BY <1>4
  <2>11. /\ Answers(s)' + Len(owed[s])' <= 1 /\ Answers(s)' + Len(owed[s])' <= 2
         /\ slot'[s].pc = "draining" /\ slot'[s].drained > 0 /\ Recent(s, slot[s].drained = 0)'
    BY <2>1, <2>3, <2>5, <2>8, <2>9, <2>10 DEF o, next, Recent
  <2>12. QED
    BY <2>11 DEF Replies
<1> HIDE DEF frame, counted, next
<1>14. /\ tally'.opened - tally.opened = One("opened" \in counted)
       /\ tally'.failed - tally.failed = One("failed" \in counted)
       /\ tally'.dropped - tally.dropped = One("dropped" \in counted)
       /\ tally'.sent - tally.sent = One("sent" \in counted)
       /\ tally'.received - tally.received = One("received" \in counted)
       /\ tally'.timeouts - tally.timeouts = One("timeouts" \in counted)
       /\ tally'.unexpected - tally.unexpected = One("unexpected" \in counted)
       /\ tally'.unacked - tally.unacked = One("unacked" \in counted)
       /\ tally'.codes - tally.codes = One("codes" \in counted)
       /\ tally'.transport - tally.transport = One("transport" \in counted)
       /\ tally'.errors - tally.errors = One("errors" \in counted)
       /\ tally'.requests - tally.requests = One("requests" \in counted)
       /\ tally'.timed - tally.timed = One("timed" \in counted)
  BY <1>3, Growth
<1>81. /\ tally'.twice - tally.twice = 0 /\ tally'.never - tally.never = 0 /\ tally'.redropped - tally.redropped = 0
       /\ ExpectKept
  BY <1>3, <1>6, NothingCountedIsOff DEF Typed, FiguresTyped
<1>80. UNCHANGED <<config, hangUps, active, peak>> /\ config.expect /\ config.messages
  BY <1>1
<1>9. SlotInv(s)'
  <2>1. SlotTyped(s)'
    BY <1>1, <1>2, <1>4 DEF SlotInv, SlotTyped, next
  <2>2. FlagsInv(s)'
    BY <1>1, <1>4 DEF FlagsInv, InUse, Open, next
  <2>3. FramesInv(s)'
    <3>1. CASE frame >= 0
      <4>1. Frames(s)'
        BY <1>1, <3>1, AnswerTaken DEF frame
      <4>2. QED
        BY <1>1, <1>2, <1>8, <3>1, <4>1 DEF FramesInv
    <3>2. CASE ~(frame >= 0)
      BY <1>1, <1>2, <1>4, <3>2 DEF FramesInv, InUse, next
    <3>3. QED
      BY <3>1, <3>2
  <2>4. QED
    BY <2>1, <2>2, <2>3 DEF SlotInv
<1>10. CausesKept /\ EndsKept(s)
  <2>1. Bare(s) /\ (Bare(s)' <=> frame >= 0)
    BY <1>1, <1>4 DEF Bare, Open, next
  <2>2. CASE frame >= 0
    BY <1>14, <1>6, <1>81, <2>1, <2>2 DEF CausesKept, EndsKept, One
  <2>3. CASE ~(frame >= 0) /\ frame # Close
    BY <1>14, <1>6, <1>81, <2>1, <2>3 DEF CausesKept, EndsKept, One
  <2>4. CASE ~(frame >= 0) /\ frame = Close
    BY <1>14, <1>6, <1>81, <2>1, <2>4 DEF CausesKept, EndsKept, One
  <2>5. QED
    BY <2>2, <2>3, <2>4
<1>11. FramesKept(s) /\ DropsKept(s) /\ ExpectKept /\ FleetKept(s)
  <2>1. /\ (Claims(s)' => Claims(s)) /\ Drains(s) = me.drained
        /\ Drains(s)' = IF frame >= 0 THEN me.drained + 1 ELSE 0
        /\ Holds(s) /\ Holds(s)'
        /\ ~(frame >= 0) => Claims(s) /\ ~Claims(s)'
    BY <1>1, <1>2, <1>4 DEF Claims, Holds, Drains, InUse, Open, next
  <2>5. FramesKept(s)
    <3>1. Drains(s)' - Drains(s) <= One("received" \in counted) /\ Drains(s)' - Drains(s) \in Int
      BY <1>4, <1>6, <2>1 DEF One
    <3>2. "timed" \notin counted /\ "unexpected" \notin counted
      BY <1>6
    <3>3. One("timed" \in counted) = 0 /\ One("unexpected" \in counted) = 0
      BY <3>2 DEF One
    <3>4. QED
      BY <1>14, <3>1, <3>3 DEF FramesKept
  <2>2. FramesKept(s) /\ FleetKept(s)
    BY <1>80, <2>1, <2>5 DEF FleetKept, FleetInv, One, Typed, FiguresTyped, next
  <2>3. DropsKept(s)
    BY <1>14, <1>6, <1>80, <1>81, <2>1, SMTT(30) DEF DropsKept, One, Typed, FiguresTyped
  <2>4. QED
    BY <1>81, <2>2, <2>3
<1>13. QED
  BY <1>1, <1>5, <1>7, <1>9, <1>10, <1>11 DEF Stepped, Typed, FiguresTyped

LEMMA DrainedStep ==
  ASSUME Typed, FleetInv, NEW s \in Slot, SlotInv(s), Drain(s), inbox[s] = <<>>
  PROVE  Stepped(s)
<1> DEFINE me == slot[s]
           pc == IF me.drained > 0 THEN "awaiting" ELSE "pausing"
           next == [me EXCEPT !.pc = pc, !.desynced = (me.drained = 0)]
<1>1. /\ UNCHANGED <<config, reader, inbox, owed, pushed, hungUp, hangUps, lag, mistimed, active, peak, stop, exit>>
      /\ me.pc = "draining" /\ ~me.ended /\ ~me.answered /\ config.expect /\ config.messages /\ reader[s] # "reading"
      /\ s \in config.slots /\ InUse(s)
  BY DEF Drain, fleet, Same, SlotInv, FlagsInv, Open, InUse
<1>2. slot'[s] = next /\ DOMAIN slot' = Slot /\ \A r \in Slot \ {s} : slot'[r] = slot[r]
  BY DEF Drain, Typed
<1>3. /\ next \in SlotState /\ next.pc = pc /\ next.ended = me.ended /\ next.answered = me.answered
      /\ next.sent = me.sent /\ (next.desynced <=> me.drained = 0) /\ me.drained \in Nat
      /\ me.pc \in Open /\ pc \in Open
  <2> DEFINE b == me.drained = 0
  <2>1. b \in BOOLEAN /\ pc \in Places /\ pc \in Open
    BY DEF Places, Open
  <2>2. me \in SlotState
    BY DEF SlotInv, SlotTyped
  <2> HIDE DEF b, pc
  <2>3. [me EXCEPT !.pc = pc, !.desynced = b] \in SlotState
    BY <2>1, <2>2 DEF SlotState
  <2>4. /\ [me EXCEPT !.pc = pc, !.desynced = b].pc = pc /\ [me EXCEPT !.pc = pc, !.desynced = b].desynced = b
        /\ [me EXCEPT !.pc = pc, !.desynced = b].ended = me.ended
        /\ [me EXCEPT !.pc = pc, !.desynced = b].answered = me.answered
        /\ [me EXCEPT !.pc = pc, !.desynced = b].sent = me.sent /\ me.drained \in Nat
    BY <2>2 DEF SlotState
  <2>5. QED
    BY <1>1, <2>1, <2>3, <2>4 DEF b, Open
<1>4. /\ tally' \in [Counters -> Nat] /\ tally \in [Counters -> Nat]
      /\ \A c \in Counters \ {"unexpected"} : tally'[c] = tally[c]
      /\ tally'.unexpected = tally.unexpected + me.drained
  <2>1. tally' = [tally EXCEPT !.unexpected = @ + me.drained]
    BY DEF Drain
  <2>2. tally \in [Counters -> Nat] /\ "unexpected" \in Counters
    BY DEF Typed, FiguresTyped, Counters
  <2>3. tally.unexpected + me.drained \in Nat
    BY <1>3, <2>2
  <2>4. QED
    BY <2>1, <2>2, <2>3
<1>14. /\ tally'.timed - tally.timed = 0 /\ tally'.received - tally.received = 0
       /\ tally'.dropped - tally.dropped = 0 /\ tally'.unexpected - tally.unexpected = me.drained
  <2>1. /\ tally.timed \in Nat /\ tally.received \in Nat /\ tally.dropped \in Nat /\ tally.unexpected \in Nat
        /\ tally'.timed = tally.timed /\ tally'.received = tally.received /\ tally'.dropped = tally.dropped
    BY <1>4 DEF Counters
  <2>2. QED
    BY <1>3, <1>4, <2>1
<1>15. /\ tally.twice \in Nat /\ tally.never \in Nat
       /\ tally'.twice = tally.twice /\ tally'.never = tally.never /\ tally'.redropped - tally.redropped = 0
       /\ ExpectKept
  <2>1. \A c \in {"twice", "never", "redropped"} : tally'[c] = tally[c]
    BY <1>4 DEF Counters
  <2>2. QED
    BY <1>4, <2>1, NothingIsOff
<1> HIDE DEF next
<1>5. Elsewhere(s)
  BY <1>1, <1>2 DEF Typed, Elsewhere
<1>6. SlotInv(s)'
  <2>1. SlotTyped(s)' /\ FlagsInv(s)'
    BY <1>1, <1>2, <1>3 DEF SlotInv, SlotTyped, FlagsInv, InUse, Open
  <2>2. Answers(s)' = Answers(s) /\ Len(owed[s])' = Len(owed[s])
    BY <1>1 DEF Answers
  <2>3. Frames(s) => Frames(s)'
    BY <1>1, <2>2 DEF Frames
  <2>4. Replies(s) => Replies(s)'
    <3> SUFFICES ASSUME Replies(s) PROVE Replies(s)'
      OBVIOUS
    <3>1. Answers(s) + Len(owed[s]) <= 2 /\ (me.drained > 0 => Answers(s) + Len(owed[s]) <= 1)
          /\ Recent(s, me.drained = 0)
      BY <1>1 DEF Replies
    <3>2. me.drained > 0 => Recent(s, FALSE)
      BY <1>3, <3>1 DEF Recent
    <3>3. Recent(s, FALSE) => Recent(s, FALSE)'
      BY <1>1, <1>2, <1>3, <2>2 DEF Recent
    <3>4. CASE me.drained > 0
      <4>1. slot'[s].pc = "awaiting" /\ ~slot'[s].desynced
        BY <1>2, <1>3, <3>4
      <4>2. QED
        BY <2>2, <3>1, <3>2, <3>3, <3>4, <4>1 DEF Replies
    <3>5. CASE ~(me.drained > 0)
      <4>1. slot'[s].pc = "pausing" /\ slot'[s].desynced
        BY <1>2, <1>3, <3>5
      <4>2. QED
        BY <2>2, <3>1, <4>1 DEF Replies
    <3>6. QED
      BY <3>4, <3>5
  <2>5. QED
    BY <1>1, <1>2, <1>3, <2>1, <2>3, <2>4 DEF SlotInv, FramesInv, InUse
<1>7. CausesKept /\ EndsKept(s)
  <2>1. Bare(s) <=> Bare(s)'
    BY <1>1, <1>2, <1>3 DEF Bare
  <2>2. /\ CausesKept /\ tally'.opened - tally.opened = 0 /\ tally'.transport - tally.transport = 0
        /\ tally.codes \in Nat /\ tally'.codes \in Nat /\ tally.unacked \in Nat /\ tally'.unacked \in Nat
    BY <1>4, CausesStand
  <2>3. tally'.codes = tally.codes /\ tally'.unacked = tally.unacked
    BY <1>4 DEF Counters
  <2>4. One(Bare(s)) \in Int /\ One(Bare(s)') = One(Bare(s))
    BY <2>1 DEF One
  <2>5. EndsKept(s)
    BY ONLY <1>15, <2>2, <2>3, <2>4 DEF EndsKept
  <2>6. QED
    BY <2>2, <2>5
<1>8. FramesKept(s) /\ DropsKept(s) /\ ExpectKept /\ FleetKept(s)
  <2>1. /\ (Claims(s) <=> Claims(s)') /\ Drains(s) = me.drained /\ Drains(s)' = 0
        /\ Holds(s) /\ Holds(s)'
    BY <1>1, <1>2, <1>3 DEF Claims, Holds, Drains, InUse
  <2>2. FramesKept(s)
    BY <1>3, <1>14, <2>1 DEF FramesKept
  <2>3. DropsKept(s) /\ FleetKept(s)
    BY <1>1, <1>14, <1>15, <2>1 DEF DropsKept, FleetKept, FleetInv, One, Typed, FiguresTyped
  <2>4. QED
    BY <1>15, <2>2, <2>3
<1>9. QED
  BY <1>1, <1>2, <1>4, <1>5, <1>6, <1>7, <1>8 DEF Stepped, Typed, FiguresTyped

-------------------------------------------------------------------------------
(* Messages that are sent.                                                    *)

\* On a socket that waits for replies, what is outstanding is what is on the way.
LEMMA OutstandingIs ==
  ASSUME NEW s \in Slot, SlotInv(s), InUse(s), config.expect
  PROVE  Outstanding(s) = Answers(s) + Len(owed[s]) /\ Outstanding(s) \in Nat
<1> DEFINE q == inbox[s]
           n == Answers(s)
           len == Len(q)
           h == IF hungUp[s] THEN 1 ELSE 0
<1>1. /\ q \in Seq(Int) /\ n \in Nat /\ n = len - h /\ h \in {0, 1}
      /\ \A i \in 1..n : q[i] > 0
      /\ hungUp[s] => q[len] < 0
  BY DEF SlotInv, SlotTyped, FramesInv, Frames, Answers
<1>2. len \in Nat /\ DOMAIN q = 1..len /\ \A i \in 1..len : q[i] \in Int
  BY <1>1, LenProperties, ElementOfSeq
<1>3. {i \in DOMAIN q : q[i] > 0} = 1..n
  <2>1. \A i \in 1..len : i \in 1..n \/ (i = len /\ hungUp[s])
    BY <1>1, <1>2
  <2>2. 1..n \subseteq 1..len
    <3> HIDE DEF n, len, h, q
    <3>1. QED
      BY <1>1, <1>2
  <2>3. \A i \in 1..len : q[i] > 0 <=> i \in 1..n
    <3> SUFFICES ASSUME NEW i \in 1..len, q[i] > 0, i \notin 1..n
                 PROVE  FALSE
      BY <1>1
    <3>1. q[i] < 0 /\ q[i] \in Int
      BY <1>1, <1>2, <2>1
    <3>2. QED
      BY <3>1
  <2>4. QED
    BY <1>2, <2>2, <2>3
<1>4. Cardinality(1..n) = n
  <2> HIDE DEF n
  <2>1. n \in Nat /\ n \in Int /\ 1 \in Int
    BY <1>1
  <2>2. Cardinality(1..n) = IF 1 > n THEN 0 ELSE n - 1 + 1
    BY <2>1, FS_Interval
  <2>3. QED
    BY <2>1, <2>2
<1>5. Outstanding(s) = Len(owed[s]) + n
  BY <1>3, <1>4 DEF Outstanding
<1>6. Len(owed[s]) \in Nat
  BY LenProperties DEF SlotInv, SlotTyped
<1>7. n \in Nat
  BY <1>1
<1> HIDE DEF n
<1>8. Outstanding(s) = n + Len(owed[s]) /\ Outstanding(s) \in Nat
  BY <1>5, <1>6, <1>7
<1>9. QED
  BY <1>8 DEF n

\* After a write that found one answer outstanding at most.
LEMMA SentReplies ==
  ASSUME NEW s \in Slot, SlotInv(s), InUse(s), config.expect, slot[s].pc = "sending",
         Answers(s) + Len(owed[s]) <= 1, Replies(s),
         UNCHANGED <<inbox, hungUp>>,
         owed'[s] = IF hungUp[s] THEN owed[s] ELSE Append(owed[s], slot[s].sent + 1),
         slot'[s].sent = slot[s].sent + 1, slot'[s].drained = 0, slot'[s].desynced = slot[s].desynced,
         slot'[s].pc = IF slot[s].desynced THEN "draining" ELSE "awaiting"
  PROVE  Replies(s)'
<1> DEFINE n == Answers(s)
           o == Len(owed[s])
           now == slot[s].sent + 1
<1>1. n \in Nat /\ o \in Nat /\ owed[s] \in Seq(Nat \ {0}) /\ now \in Nat \ {0} /\ Answers(s)' = n
  BY LenProperties DEF SlotInv, SlotTyped, SlotState, FramesInv, Frames, Answers
<1>2. Replies(s)' <=>
        /\ n + Len(owed[s])' <= 2
        /\ slot'[s].pc = "awaiting" => n + Len(owed[s])' <= 1 /\ ~slot[s].desynced /\ Recent(s, FALSE)'
        /\ slot'[s].pc = "draining" => Recent(s, TRUE)'
  BY <1>1 DEF Replies, Recent
<1>3. Recent(s, TRUE)' <=>
        /\ \A i \in 1..n : inbox[s][i] = now \/ i = 1
        /\ \A j \in 1..Len(owed'[s]) : owed'[s][j] = now \/ (j = 1 /\ n = 0)
  BY <1>1 DEF Recent
<1>4. Recent(s, FALSE)' <=>
        /\ \A i \in 1..n : inbox[s][i] = now
        /\ \A j \in 1..Len(owed'[s]) : owed'[s][j] = now
  BY <1>1 DEF Recent
<1>5. n + o <= 1 /\ (~slot[s].desynced => n + o = 0)
  BY DEF Replies
<1> HIDE DEF n
<1>6. CASE hungUp[s]
  <2>1. owed'[s] = owed[s]
    BY <1>6
  <2> HIDE DEF o, now
  <2>2. \A j \in 1..o : j = 1 /\ n = 0
    BY <1>1, <1>5
  <2>3. \A i \in 1..n : i = 1
    BY <1>1, <1>5
  <2>4. ~slot[s].desynced => 1..n = {} /\ 1..o = {}
    BY <1>1, <1>5
  <2>9. Len(owed[s])' = o /\ Len(owed'[s]) = o
    BY <2>1 DEF o
  <2>5. Len(owed[s])' = o /\ Len(owed'[s]) = o /\ n + o <= 2 /\ n + o <= 1
    BY <1>1, <1>5, <2>9
  <2>6. Recent(s, TRUE)' /\ (~slot[s].desynced => Recent(s, FALSE)')
    BY <1>3, <1>4, <2>2, <2>3, <2>4, <2>5
  <2>7. slot'[s].pc = "awaiting" => ~slot[s].desynced
    OBVIOUS
  <2>8. QED
    BY <1>2, <2>5, <2>6, <2>7
<1>7. CASE ~hungUp[s]
  <2>1. /\ owed'[s] = Append(owed[s], now) /\ Len(owed'[s]) = o + 1
        /\ owed'[s][o + 1] = now
        /\ \A j \in 1..o : owed'[s][j] = owed[s][j]
    BY <1>1, <1>7, AppendProperties
  <2> HIDE DEF o, now
  <2>2. \A j \in 1..(o + 1) : owed'[s][j] = now \/ (j = 1 /\ n = 0)
    <3> SUFFICES ASSUME NEW j \in 1..(o + 1), j # o + 1
                 PROVE  j = 1 /\ n = 0
      BY <2>1
    <3>1. QED
      BY <1>1, <1>5
  <2>3. \A i \in 1..n : i = 1
    BY <1>1, <1>5
  <2>4. ~slot[s].desynced => 1..n = {} /\ o = 0
    BY <1>1, <1>5
  <2>5. n + (o + 1) <= 2 /\ (~slot[s].desynced => n + (o + 1) <= 1)
    BY <1>1, <1>5
  <2>6. o = 0 => \A j \in 1..(o + 1) : owed'[s][j] = now
    BY <2>1
  <2>7. QED
    BY <1>2, <1>3, <1>4, <2>1, <2>2, <2>3, <2>4, <2>5, <2>6
<1>8. QED
  BY <1>6, <1>7

LEMMA SendStep ==
  ASSUME Typed, FleetInv, NEW s \in Slot, SlotInv(s), Send(s)
  PROVE  Stepped(s)
<1> DEFINE me == slot[s]
<1>1. /\ UNCHANGED <<config, reader, inbox, pushed, hungUp, hangUps, mistimed, active, peak, stop, exit>>
      /\ me.pc = "sending" /\ config.messages /\ s \in config.slots /\ InUse(s)
      /\ config.expect => ~me.ended /\ ~me.answered
  BY DEF Send, fleet, Same, SlotInv, FlagsInv, InUse, Open
<1>2. CASE \E pc \in {"closing", "blocked"} : Goes(s, pc) /\ UNCHANGED <<tally, owed, lag>>
  <2>1. PICK pc \in {"closing", "blocked"} : Goes(s, pc) /\ UNCHANGED <<tally, owed, lag>>
    BY <1>2
  <2> DEFINE next == [me EXCEPT !.pc = pc]
  <2>2. slot'[s] = next /\ DOMAIN slot' = Slot /\ \A r \in Slot \ {s} : slot'[r] = slot[r]
    BY <2>1 DEF Goes, Typed
  <2>3. /\ next \in SlotState /\ next.pc = pc /\ next.ended = me.ended /\ next.answered = me.answered
    BY DEF SlotInv, SlotTyped, SlotState, Places, Open
  <2>4. Elsewhere(s)
    BY <1>1, <2>1, <2>2 DEF Typed, Elsewhere
  <2>5. SlotInv(s)'
    <3>1. SlotTyped(s)' /\ FlagsInv(s)'
      BY <1>1, <2>1, <2>2, <2>3 DEF SlotInv, SlotTyped, FlagsInv, InUse, Open
    <3>2. Answers(s)' = Answers(s) /\ Len(owed[s])' = Len(owed[s])
      BY <1>1, <2>1 DEF Answers
    <3>3. Frames(s) => Frames(s)'
      BY <1>1, <3>2 DEF Frames
    <3>4. Replies(s) => Replies(s)'
      BY <1>1, <2>1, <2>2, <2>3, <3>2 DEF Replies
    <3>5. QED
      BY <1>1, <2>1, <2>2, <2>3, <3>1, <3>3, <3>4 DEF SlotInv, FramesInv, Open
  <2>6. CausesKept /\ EndsKept(s)
    <3>1. Bare(s) <=> Bare(s)'
      BY <1>1, <2>2, <2>3 DEF Bare, Open
    <3>2. QED
      BY <1>1, <2>1, <3>1 DEF CausesKept, EndsKept, Counters, One, Typed, FiguresTyped
  <2>7. FramesKept(s) /\ DropsKept(s) /\ ExpectKept /\ FleetKept(s)
    <3>1. /\ (Claims(s)' => Claims(s)) /\ Drains(s) = 0 /\ Drains(s)' = 0
          /\ Holds(s) /\ Holds(s)'
      BY <1>1, <2>2, <2>3 DEF Claims, Holds, Drains, InUse, Open
    <3>2. QED
      BY <1>1, <2>1, <3>1 DEF FramesKept, DropsKept, ExpectKept, FleetKept, FleetInv, Counters, One, Typed, FiguresTyped
  <2>8. QED
    BY <1>1, <2>1, <2>4, <2>5, <2>6, <2>7 DEF Stepped, Typed, FiguresTyped
<1>3. CASE /\ slot' = [slot EXCEPT ![s].sent = @ + 1, ![s].drained = 0,
                 ![s].pc = IF ~config.expect THEN "pausing"
                           ELSE IF slot[s].desynced THEN "draining" ELSE "awaiting"]
           /\ owed' = [owed EXCEPT ![s] = IF hungUp[s] THEN @ ELSE Append(@, slot[s].sent + 1)]
           /\ lag' = IF Outstanding(s) > lag THEN Outstanding(s) ELSE lag
           /\ Count({"sent", "requests"})
  <2> DEFINE pc == IF ~config.expect THEN "pausing" ELSE IF me.desynced THEN "draining" ELSE "awaiting"
             now == me.sent + 1
             next == [me EXCEPT !.sent = now, !.drained = 0, !.pc = pc]
  <2>1. slot'[s] = next /\ DOMAIN slot' = Slot /\ \A r \in Slot \ {s} : slot'[r] = slot[r]
    BY <1>3 DEF Typed
  <2>2. /\ next \in SlotState /\ next.pc = pc /\ next.ended = me.ended /\ next.answered = me.answered
        /\ next.sent = now /\ next.drained = 0 /\ next.desynced = me.desynced
        /\ pc \in Open \ {"closing", "joining", "listening"} /\ me.pc \in Open /\ now \in Nat \ {0}
    <3>1. me \in SlotState /\ now \in Nat \ {0} /\ pc \in Places /\ pc \in Open \ {"closing", "joining", "listening"}
          /\ me.pc \in Open
      BY <1>1 DEF SlotInv, SlotTyped, SlotState, Places, Open
    <3> HIDE DEF now, pc
    <3>2. next \in SlotState /\ next.pc = pc /\ next.ended = me.ended /\ next.answered = me.answered
          /\ next.sent = now /\ next.drained = 0 /\ next.desynced = me.desynced
      BY <3>1 DEF SlotState
    <3>3. QED
      BY <3>1, <3>2
  <2> HIDE DEF next
  <2>3. /\ owed'[s] = IF hungUp[s] THEN owed[s] ELSE Append(owed[s], now)
        /\ DOMAIN owed' = Slot /\ \A r \in Slot \ {s} : owed'[r] = owed[r]
    BY <1>3 DEF Typed
  <2>4. Elsewhere(s)
    BY <1>1, <2>1, <2>3 DEF Typed, Elsewhere
  <2>5. /\ tally' \in [Counters -> Nat]
        /\ \A c \in Counters : tally'[c] = tally[c] + One(c \in {"sent", "requests"})
    BY <1>3, Counting DEF Typed, FiguresTyped
  <2>6. Outstanding(s) \in Nat
    <3>1. Len(owed[s]) \in Nat
      BY LenProperties DEF SlotInv, SlotTyped
    <3>2. Cardinality({i \in DOMAIN inbox[s] : inbox[s][i] > 0}) \in Nat
      <4>1. IsFiniteSet(1..Len(inbox[s])) /\ DOMAIN inbox[s] = 1..Len(inbox[s])
        <5>1. inbox[s] \in Seq(Int) /\ Len(inbox[s]) \in Int /\ 1 \in Int
          BY LenProperties DEF SlotInv, SlotTyped
        <5>2. QED
          BY <5>1, FS_Interval, LenProperties
      <4>2. {i \in DOMAIN inbox[s] : inbox[s][i] > 0} \subseteq DOMAIN inbox[s]
        OBVIOUS
      <4>3. QED
        BY <4>1, <4>2, FS_Subset, FS_CardinalityType
    <3>3. QED
      BY <3>1, <3>2 DEF Outstanding
  <2>7. lag' \in Nat /\ lag <= lag' /\ Outstanding(s) <= lag'
    BY <1>3, <2>6 DEF Typed, FiguresTyped
  <2>8. SlotInv(s)'
    <3>1. owed'[s] \in Seq(Nat \ {0})
      BY <2>2, <2>3, AppendProperties DEF SlotInv, SlotTyped
    <3>2. SlotTyped(s)'
      BY <1>1, <2>1, <2>2, <3>1 DEF SlotInv, SlotTyped
    <3>3. FlagsInv(s)'
      BY <1>1, <2>1, <2>2 DEF SlotInv, FlagsInv, InUse, Open
    <3>4. Answers(s)' = Answers(s)
      BY <1>1 DEF Answers
    <3>5. Frames(s) => Frames(s)'
      BY <1>1, <3>4 DEF Frames
    <3>6. config.expect /\ lag' <= 1 => Replies(s)'
      <4> SUFFICES ASSUME config.expect, lag' <= 1 PROVE Replies(s)'
        OBVIOUS
      <4>1. Outstanding(s) <= 1 /\ lag <= 1
        BY <2>6, <2>7 DEF Typed, FiguresTyped
      <4>2. Answers(s) + Len(owed[s]) <= 1
        BY <1>1, <4>1, OutstandingIs
      <4>3. Replies(s)
        BY <1>1, <4>1 DEF SlotInv, FramesInv
      <4>4. QED
        BY <1>1, <2>1, <2>2, <2>3, <4>2, <4>3, SentReplies
    <3>7. QED
      BY <1>1, <2>1, <2>2, <3>2, <3>3, <3>5, <3>6 DEF SlotInv, FramesInv, InUse
  <2>9. CausesKept /\ EndsKept(s)
    <3>1. Bare(s) <=> Bare(s)'
      BY <1>1, <2>1, <2>2 DEF Bare, Open
    <3>2. QED
      BY <1>1, <2>5, <3>1 DEF CausesKept, EndsKept, Counters, One, Typed, FiguresTyped
  <2>10. FramesKept(s) /\ DropsKept(s) /\ ExpectKept /\ FleetKept(s)
    <3>1. /\ (Claims(s)' => Claims(s)) /\ Drains(s) = 0 /\ Drains(s)' = 0
          /\ Holds(s) /\ Holds(s)'
      BY <1>1, <2>1, <2>2 DEF Claims, Holds, Drains, InUse, Open
    <3>2. QED
      BY <1>1, <2>5, <3>1 DEF FramesKept, DropsKept, ExpectKept, FleetKept, FleetInv, Counters, One, Typed, FiguresTyped
  <2>11. QED
    BY <1>1, <2>4, <2>5, <2>7, <2>8, <2>9, <2>10 DEF Stepped, Typed, FiguresTyped
<1>4. QED
  BY <1>2, <1>3 DEF Send

-------------------------------------------------------------------------------
(* The peer.                                                                  *)

\* What one more frame does to the frames of a socket that waits for replies.
LEMMA AnswerArrives ==
  ASSUME NEW s \in Slot, SlotInv(s), ~hungUp[s], InUse(s), config.expect, owed[s] # <<>>,
         UNCHANGED <<slot, hungUp>>,
         inbox'[s] = Append(inbox[s], Head(owed[s])), owed'[s] = Tail(owed[s])
  PROVE  Frames(s)' /\ (Replies(s) => Replies(s)')
<1> DEFINE q == inbox[s]
           w == owed[s]
           n == Len(inbox[s])
           o == Len(owed[s])
<1>1. q \in Seq(Int) /\ w \in Seq(Nat \ {0}) /\ n \in Nat /\ o \in Nat \ {0} /\ Answers(s) = n
  <2>1. q \in Seq(Int) /\ w \in Seq(Nat \ {0})
    BY DEF SlotInv, SlotTyped
  <2>2. n \in Nat /\ o \in Nat \ {0}
    BY <2>1, LenProperties, EmptySeq
  <2>3. QED
    BY <2>1, <2>2 DEF Answers
<1>2. Head(w) \in Nat \ {0} /\ Head(w) = w[1]
  BY <1>1, HeadTailProperties
<1>3. Len(inbox'[s]) = n + 1 /\ inbox'[s][n + 1] = w[1] /\ \A i \in 1..n : inbox'[s][i] = q[i]
  BY <1>1, <1>2, AppendProperties
<1>4. Len(owed'[s]) = o - 1 /\ \A j \in 1..(o - 1) : owed'[s][j] = w[j + 1]
  BY <1>1, HeadTailProperties
<1>5. Answers(s)' = n + 1 /\ Len(owed[s])' = o - 1 /\ ~hungUp'[s]
  BY <1>1, <1>3, <1>4 DEF Answers
<1>6. \A i \in 1..n : q[i] > 0
  BY <1>1 DEF SlotInv, FramesInv, Frames
<1>7. Frames(s)'
  <2> HIDE DEF n
  <2>1. \A i \in 1..(n + 1) : inbox'[s][i] > 0
    BY <1>1, <1>2, <1>3, <1>6
  <2>2. n + 1 \in Nat
    BY <1>1
  <2>3. Answers(s)' \in Nat /\ (\A i \in 1..Answers(s)' : inbox'[s][i] > 0) /\ ~hungUp'[s]
    BY <1>5, <2>1, <2>2
  <2>4. QED
    BY <2>3 DEF Frames
<1>8. ASSUME NEW b \in BOOLEAN, Recent(s, b) PROVE Recent(s, b)'
  <2> DEFINE sent == slot[s].sent
  <2>1. \A i \in 1..n : q[i] = sent \/ (b /\ i = 1)
    BY <1>1, <1>8 DEF Recent
  <2>2. \A j \in 1..o : w[j] = sent \/ (b /\ j = 1 /\ n = 0)
    BY <1>1, <1>8 DEF Recent
  <2> HIDE DEF n, o, sent, q, w
  <2>3. \A i \in 1..(n + 1) : inbox'[s][i] = sent \/ (b /\ i = 1)
    <3> SUFFICES ASSUME NEW i \in 1..(n + 1) PROVE inbox'[s][i] = sent \/ (b /\ i = 1)
      OBVIOUS
    <3>1. CASE i \in 1..n
      BY <1>3, <2>1, <3>1
    <3>2. CASE i = n + 1
      <4>1. 1 \in 1..o
        BY <1>1
      <4>2. QED
        BY <1>3, <2>2, <3>2, <4>1
    <3>3. n \in Nat
      BY <1>1
    <3>4. i \in 1..n \/ i = n + 1
      BY <3>3
    <3>5. QED
      BY <3>1, <3>2, <3>4
  <2>4. \A j \in 1..(o - 1) : owed'[s][j] = sent
    <3> SUFFICES ASSUME NEW j \in 1..(o - 1) PROVE owed'[s][j] = sent
      OBVIOUS
    <3>1. j + 1 \in 1..o /\ j + 1 # 1
      BY <1>1
    <3>2. QED
      BY <1>4, <2>2, <3>1
  <2>5. Answers(s)' = n + 1 /\ Len(owed'[s]) = o - 1 /\ slot'[s].sent = sent
    BY <1>4, <1>5 DEF n, o, sent
  <2>6. QED
    BY <2>3, <2>4, <2>5 DEF Recent
<1>9. ASSUME Replies(s) PROVE Replies(s)'
  <2> DEFINE late == n + o
             me == slot[s]
  <2>1. /\ late <= 2
        /\ me.pc \in {"pausing", "sending"} /\ ~me.desynced => late = 0
        /\ me.pc = "awaiting" => late <= 1 /\ ~me.desynced /\ Recent(s, FALSE)
        /\ me.pc = "draining" => (me.drained > 0 => late <= 1) /\ Recent(s, me.drained = 0)
    BY <1>1, <1>9 DEF Replies
  <2>6. n \in Nat /\ o \in Nat
    BY <1>1
  <2>7. (n + 1) + (o - 1) = late
    <3> HIDE DEF n, o
    <3>1. QED
      BY <2>6
  <2>2. (n + 1) + (o - 1) = late /\ slot'[s] = me
    BY <2>7
  <2>3. Answers(s)' + Len(owed[s])' = late
    BY <1>5, <2>2
  <2>4. (Recent(s, FALSE) => Recent(s, FALSE)') /\ (Recent(s, me.drained = 0) => Recent(s, me.drained = 0)')
    BY <1>8
  <2> HIDE DEF late
  <2>5. QED
    BY <2>1, <2>2, <2>3, <2>4 DEF Replies
<1>10. QED
  BY <1>7, <1>9

LEMMA ConnectionEnds ==
  ASSUME NEW s \in Slot, SlotInv(s), ~hungUp[s], InUse(s), config.expect, NEW frame \in {Close, Error},
         UNCHANGED <<slot, owed>>, inbox'[s] = Append(inbox[s], frame), hungUp'[s] = TRUE
  PROVE  Frames(s)' /\ (Replies(s) => Replies(s)')
<1> DEFINE q == inbox[s]
           n == Len(inbox[s])
<1>1. q \in Seq(Int) /\ n \in Nat /\ Answers(s) = n /\ frame \in Int /\ frame < 0
  BY LenProperties DEF SlotInv, SlotTyped, Answers, Close, Error
<1>2. Len(inbox'[s]) = n + 1 /\ inbox'[s][n + 1] = frame /\ \A i \in 1..n : inbox'[s][i] = q[i]
  BY <1>1, AppendProperties
<1>3. Answers(s)' = n /\ Len(owed[s])' = Len(owed[s]) /\ Len(inbox[s])' = n + 1
  <2>1. n \in Nat /\ Len(inbox'[s]) = n + 1 /\ hungUp'[s] = TRUE
    BY <1>1, <1>2
  <2>2. Answers(s)' = Len(inbox'[s]) - 1
    BY <2>1 DEF Answers
  <2> HIDE DEF n
  <2>3. QED
    BY <2>1, <2>2
<1>4. \A i \in 1..n : q[i] > 0
  BY <1>1 DEF SlotInv, FramesInv, Frames
<1>5. Frames(s)'
  BY <1>1, <1>2, <1>3, <1>4 DEF Frames
<1>6. ASSUME NEW b \in BOOLEAN, Recent(s, b) PROVE Recent(s, b)'
  BY <1>1, <1>2, <1>3, <1>6 DEF Recent
<1>7. Recent(s, FALSE) => Recent(s, FALSE)'
  BY <1>6
<1>8. Recent(s, slot[s].drained = 0) => Recent(s, slot[s].drained = 0)'
  BY <1>6
<1>9. Replies(s) => Replies(s)'
  BY <1>1, <1>3, <1>7, <1>8 DEF Replies
<1>10. QED
  BY <1>5, <1>9

LEMMA PeerStep ==
  ASSUME Typed, FleetInv, NEW s \in Slot, SlotInv(s), Peer(s)
  PROVE  Stepped(s)
<1> DEFINE me == slot[s]
<1>1. /\ UNCHANGED <<config, slot, reader, lag, mistimed, tally, active, peak, stop, exit>>
      /\ me.pc \in Open /\ ~hungUp[s] /\ s \in config.slots
  BY DEF Peer, Connection, fleet, Same, SlotInv, FlagsInv, Open
<1>2. PICK frame \in Int :
        /\ inbox' = [inbox EXCEPT ![s] = Append(@, frame)]
        /\ \/ /\ owed[s] # <<>> /\ frame = Head(owed[s]) /\ frame > 0
              /\ owed' = [owed EXCEPT ![s] = Tail(@)]
              /\ UNCHANGED <<hungUp, hangUps>>
           \/ /\ ~config.expect /\ frame = 0
              /\ UNCHANGED <<owed, hungUp, hangUps>>
           \/ /\ frame \in {Close, Error}
              /\ hungUp' = [hungUp EXCEPT ![s] = TRUE]
              /\ hangUps' = hangUps + IF Shutdown(s) THEN 0 ELSE 1
              /\ UNCHANGED owed
  <2>1. CASE /\ owed[s] # <<>>
             /\ inbox' = [inbox EXCEPT ![s] = Append(@, Head(owed[s]))]
             /\ owed' = [owed EXCEPT ![s] = Tail(@)]
             /\ UNCHANGED <<pushed, hungUp, hangUps>>
    <3>1. owed[s] \in Seq(Nat \ {0})
      BY DEF SlotInv, SlotTyped
    <3>2. Head(owed[s]) \in Nat \ {0}
      BY <2>1, <3>1, HeadTailProperties
    <3>3. Head(owed[s]) \in Int /\ Head(owed[s]) > 0
      BY <3>2
    <3>4. QED
      BY <2>1, <3>3
  <2>2. CASE /\ ~config.expect
             /\ inbox' = [inbox EXCEPT ![s] = Append(@, 0)]
             /\ UNCHANGED <<owed, hungUp, hangUps>>
    <3> DEFINE zero == 0
    <3>1. zero \in Int /\ zero = 0
      OBVIOUS
    <3> HIDE DEF zero
    <3>2. inbox' = [inbox EXCEPT ![s] = Append(@, zero)]
      BY <2>2, <3>1
    <3>3. QED
      BY <2>2, <3>1, <3>2
  <2>3. CASE /\ \E frame \in {Close, Error} : inbox' = [inbox EXCEPT ![s] = Append(@, frame)]
             /\ hungUp' = [hungUp EXCEPT ![s] = TRUE]
             /\ hangUps' = hangUps + IF Shutdown(s) THEN 0 ELSE 1
             /\ UNCHANGED owed
    <3>1. Close \in Int /\ Error \in Int
      BY DEF Close, Error
    <3>2. QED
      BY <2>3, <3>1
  <2>4. QED
    BY <2>1, <2>2, <2>3 DEF Peer
<1>3. /\ inbox'[s] = Append(inbox[s], frame)
      /\ DOMAIN inbox' = Slot /\ DOMAIN owed' = Slot /\ DOMAIN hungUp' = Slot
      /\ \A r \in Slot \ {s} : inbox'[r] = inbox[r] /\ owed'[r] = owed[r] /\ hungUp'[r] = hungUp[r]
  BY <1>2 DEF Typed
<1>4. Elsewhere(s)
  BY <1>1, <1>3 DEF Typed, Elsewhere
<1>5. /\ inbox[s] \in Seq(Int) /\ owed[s] \in Seq(Nat \ {0})
      /\ inbox'[s] \in Seq(Int) /\ owed'[s] \in Seq(Nat \ {0}) /\ hungUp'[s] \in BOOLEAN
  <2>1. inbox[s] \in Seq(Int) /\ owed[s] \in Seq(Nat \ {0}) /\ hungUp[s] \in BOOLEAN
    BY DEF SlotInv, SlotTyped
  <2>2. inbox'[s] \in Seq(Int)
    BY <1>3, <2>1, AppendProperties
  <2>3. owed[s] # <<>> => Tail(owed[s]) \in Seq(Nat \ {0})
    BY <2>1, HeadTailProperties
  <2>4. owed'[s] \in Seq(Nat \ {0}) /\ hungUp'[s] \in BOOLEAN
    BY <1>2, <2>1, <2>3 DEF Typed
  <2>5. QED
    BY <2>1, <2>2, <2>4
<1>6. frame < 0 <=> frame \in {Close, Error}
  BY <1>2 DEF Close, Error
<1>7. (frame < 0 => hungUp'[s]) /\ hangUps' \in Nat /\ hangUps \in Nat
      /\ (~(frame < 0) => hungUp'[s] = hungUp[s] /\ hangUps' = hangUps)
      /\ (frame < 0 /\ ~Shutdown(s) => hangUps' = hangUps + 1) /\ hangUps <= hangUps'
  BY <1>2, <1>6 DEF Typed, FiguresTyped, Close, Error
<1>8. SlotInv(s)'
  <2>1. SlotTyped(s)' /\ FlagsInv(s)'
    BY <1>1, <1>5 DEF SlotInv, SlotTyped, FlagsInv, InUse
  <2>2. \A i \in DOMAIN inbox'[s] : inbox'[s][i] < 0 => hungUp'[s]
    <3>1. \A i \in DOMAIN inbox[s] : ~(inbox[s][i] < 0)
      BY <1>1 DEF SlotInv, FramesInv
    <3>2. Len(inbox[s]) \in Nat /\ DOMAIN inbox[s] = 1..Len(inbox[s])
      BY <1>5, LenProperties
    <3>3. Len(inbox'[s]) = Len(inbox[s]) + 1 /\ inbox'[s][Len(inbox[s]) + 1] = frame
          /\ \A i \in 1..Len(inbox[s]) : inbox'[s][i] = inbox[s][i]
      BY <1>3, <1>5, AppendProperties
    <3>4. DOMAIN inbox'[s] = 1..(Len(inbox[s]) + 1)
      BY <1>5, <3>3, LenProperties
    <3>5. QED
      BY <1>7, <3>1, <3>2, <3>3, <3>4
  <2>3. InUse(s) /\ config.expect => Frames(s)' /\ (Replies(s) => Replies(s)')
    <3> SUFFICES ASSUME InUse(s), config.expect PROVE Frames(s)' /\ (Replies(s) => Replies(s)')
      OBVIOUS
    <3>1. CASE frame \in {Close, Error} /\ hungUp' = [hungUp EXCEPT ![s] = TRUE] /\ UNCHANGED owed
      <4>1. hungUp'[s] = TRUE /\ UNCHANGED <<slot, owed>>
        BY <1>1, <3>1 DEF Typed
      <4>2. QED
        BY <1>1, <1>3, <3>1, <4>1, ConnectionEnds
    <3>2. CASE owed[s] # <<>> /\ frame = Head(owed[s]) /\ owed' = [owed EXCEPT ![s] = Tail(@)] /\ UNCHANGED hungUp
      <4>1. owed'[s] = Tail(owed[s]) /\ UNCHANGED <<slot, hungUp>>
        BY <1>1, <3>2 DEF Typed
      <4>2. QED
        BY <1>1, <1>3, <3>2, <4>1, AnswerArrives
    <3>3. QED
      BY <1>2, <3>1, <3>2
  <2>4. InUse(s)' <=> InUse(s)
    BY <1>1 DEF InUse
  <2>5. QED
    BY <1>1, <2>1, <2>2, <2>3, <2>4 DEF SlotInv, FramesInv
<1>9. CausesKept /\ EndsKept(s)
  <2>1. Bare(s) <=> Bare(s)'
    BY <1>1 DEF Bare
  <2>2. QED
    BY <1>1, <2>1 DEF CausesKept, EndsKept, Counters, One, Typed, FiguresTyped
<1>10. FramesKept(s) /\ DropsKept(s) /\ ExpectKept /\ FleetKept(s)
  <2>1. /\ ~Claims(s) /\ Holds(s) /\ Holds(s)' /\ Drains(s)' = Drains(s) /\ Drains(s) \in Nat
        /\ (Claims(s)' => InUse(s) /\ hungUp'[s])
        /\ (InUse(s) => ~Shutdown(s))
    BY <1>1 DEF Claims, Holds, Drains, InUse, Open, Shutdown, SlotInv, FlagsInv, SlotTyped, SlotState
  <2>2. DropsKept(s)
    <3>1. tally'.dropped - tally.dropped = 0
      BY <1>1 DEF Typed, FiguresTyped, Counters
    <3>2. hangUps' - hangUps \in Nat /\ (frame < 0 /\ ~Shutdown(s) => hangUps' - hangUps = 1)
      BY <1>7
    <3>3. Claims(s)' => hangUps' - hangUps = 1
      BY <1>1, <1>7, <2>1, <3>2
    <3>4. tally'.redropped - tally.redropped = 0
      BY <1>1 DEF Typed, FiguresTyped, Counters
    <3>5. QED
      BY <2>1, <3>1, <3>2, <3>3, <3>4 DEF DropsKept, One
  <2>3. FramesKept(s) /\ FleetKept(s)
    BY <1>1, <2>1 DEF FramesKept, FleetKept, FleetInv, Counters, One, Typed, FiguresTyped
  <2>4. ExpectKept
    BY <1>1 DEF ExpectKept
  <2>5. QED
    BY <2>2, <2>3, <2>4
<1>11. QED
  BY <1>1, <1>4, <1>7, <1>8, <1>9, <1>10 DEF Stepped, Typed, FiguresTyped, Open

-------------------------------------------------------------------------------
(* From one slot to the run.                                                  *)

\* Sets of slots that differ in one slot at most differ in size by it.
LEMMA CardMoves ==
  ASSUME NEW s \in Slot, NEW A \in SUBSET Slot, NEW B \in SUBSET Slot,
         \A r \in Slot \ {s} : r \in A <=> r \in B
  PROVE  /\ Cardinality(A) \in Nat /\ Cardinality(B) \in Nat
         /\ Cardinality(B) - Cardinality(A) = One(s \in B) - One(s \in A)
<1>1. IsFiniteSet(A) /\ IsFiniteSet(B)
  BY FS_Subset
<1>2. Cardinality(A) \in Nat /\ Cardinality(B) \in Nat
  BY <1>1, FS_CardinalityType
<1>3. A \ {s} = B \ {s}
  OBVIOUS
<1>4. /\ Cardinality(A \ {s}) = IF s \in A THEN Cardinality(A) - 1 ELSE Cardinality(A)
      /\ Cardinality(B \ {s}) = IF s \in B THEN Cardinality(B) - 1 ELSE Cardinality(B)
  BY <1>1, FS_RemoveElement
<1> DEFINE a == Cardinality(A)
           b == Cardinality(B)
           a0 == Cardinality(A \ {s})
           b0 == Cardinality(B \ {s})
<1>5. /\ a \in Nat /\ b \in Nat /\ a0 = b0
      /\ a0 = a - One(s \in A) /\ b0 = b - One(s \in B)
  BY <1>2, <1>3, <1>4 DEF One
<1>6. One(s \in A) \in Nat /\ One(s \in B) \in Nat
  BY DEF One
<1> DEFINE x == One(s \in A)
           y == One(s \in B)
<1>9. a \in Nat /\ b \in Nat /\ x \in Nat /\ y \in Nat /\ a - x = b - y
  BY <1>5, <1>6
<1> HIDE DEF a, b, a0, b0, x, y
<1>10. b - a = y - x
  BY <1>9
<1>7. b - a = One(s \in B) - One(s \in A)
  BY <1>10 DEF x, y
<1>8. QED
  BY <1>5, <1>7 DEF a, b

LEMMA SumMoves ==
  ASSUME NEW s \in Slot, NEW f, NEW g,
         \A r \in Slot : f[r] \in Int /\ g[r] \in Int,
         \A r \in Slot \ {s} : f[r] = g[r]
  PROVE  /\ SumFunctionOnSet(f, Slot) \in Int /\ SumFunctionOnSet(g, Slot) \in Int
         /\ SumFunctionOnSet(g, Slot) - SumFunctionOnSet(f, Slot) = g[s] - f[s]
<1>1. IsFiniteSet(Slot \ {s})
  BY FS_Subset
<1>2. SumFunctionOnSet(f, Slot \ {s}) = SumFunctionOnSet(g, Slot \ {s})
  BY <1>1, SumIsExtensional
<1>3. SumFunctionOnSet(f, Slot \ {s}) \in Int
  BY <1>1, SumType
<1>4. /\ SumFunctionOnSet(f, Slot) = f[s] + SumFunctionOnSet(f, Slot \ {s})
      /\ SumFunctionOnSet(g, Slot) = g[s] + SumFunctionOnSet(g, Slot \ {s})
  BY SumRemovesElement
<1>5. QED
  BY <1>2, <1>3, <1>4

\* The slots that did not step are as they were.
LEMMA OthersKeepTheirs ==
  ASSUME Typed, NEW s \in Slot, Elsewhere(s), FiguresTyped', lag <= lag', NEW r \in Slot \ {s}, SlotInv(r)
  PROVE  SlotInv(r)'
<1>1. /\ config' = config /\ slot'[r] = slot[r] /\ reader'[r] = reader[r] /\ hungUp'[r] = hungUp[r]
      /\ inbox'[r] = inbox[r] /\ owed'[r] = owed[r]
  BY DEF Elsewhere
<1>2. SlotTyped(r)' /\ FlagsInv(r)' /\ (InUse(r)' <=> InUse(r))
  BY <1>1 DEF SlotInv, SlotTyped, FlagsInv, InUse
<1>3. Answers(r)' = Answers(r) /\ Len(owed[r])' = Len(owed[r])
  BY <1>1 DEF Answers
<1>4. Frames(r) => Frames(r)'
  BY <1>1, <1>3 DEF Frames
<1>5. Replies(r) => Replies(r)'
  BY <1>1, <1>3 DEF Replies, Recent
<1>6. lag' <= 1 => lag <= 1
  BY DEF Typed, FiguresTyped
<1>7. FramesInv(r)'
  BY <1>1, <1>2, <1>4, <1>5, <1>6 DEF SlotInv, FramesInv
<1>8. QED
  BY <1>2, <1>7 DEF SlotInv

LEMMA FiguresAreNumbers ==
  ASSUME FiguresTyped
  PROVE  /\ tally.opened \in Nat /\ tally.failed \in Nat /\ tally.dropped \in Nat /\ tally.sent \in Nat
         /\ tally.received \in Nat /\ tally.timeouts \in Nat /\ tally.unexpected \in Nat
         /\ tally.unacked \in Nat /\ tally.codes \in Nat /\ tally.transport \in Nat /\ tally.errors \in Nat
         /\ tally.requests \in Nat /\ tally.timed \in Nat /\ hangUps \in Nat
      /\ tally.twice \in Nat /\ tally.never \in Nat /\ tally.redropped \in Nat
BY DEF FiguresTyped, Counters

LEMMA SteppedKeepsWsInv ==
  ASSUME WsInv, NEW s \in Slot, Stepped(s)
  PROVE  WsInv'
<1>1. Typed /\ FiguresTyped /\ FiguresTyped' /\ config' = config
  BY DEF WsInv, Typed, Stepped, Elsewhere
<1>2. /\ tally.opened \in Nat /\ tally.failed \in Nat /\ tally.dropped \in Nat /\ tally.sent \in Nat
      /\ tally.received \in Nat /\ tally.timeouts \in Nat /\ tally.unexpected \in Nat
      /\ tally.unacked \in Nat /\ tally.codes \in Nat /\ tally.transport \in Nat /\ tally.errors \in Nat
      /\ tally.requests \in Nat /\ tally.timed \in Nat /\ hangUps \in Nat
      /\ tally.twice \in Nat /\ tally.never \in Nat /\ tally.redropped \in Nat
  BY <1>1, FiguresAreNumbers
<1>3. /\ tally'.opened \in Nat /\ tally'.failed \in Nat /\ tally'.dropped \in Nat /\ tally'.sent \in Nat
      /\ tally'.received \in Nat /\ tally'.timeouts \in Nat /\ tally'.unexpected \in Nat
      /\ tally'.unacked \in Nat /\ tally'.codes \in Nat /\ tally'.transport \in Nat /\ tally'.errors \in Nat
      /\ tally'.requests \in Nat /\ tally'.timed \in Nat /\ hangUps' \in Nat
      /\ tally'.twice \in Nat /\ tally'.never \in Nat /\ tally'.redropped \in Nat
  BY <1>1 DEF FiguresTyped, Counters
<1>4. Typed'
  BY <1>1 DEF Typed, Stepped, Elsewhere
<1>5. \A r \in Slot : SlotInv(r)'
  <2> SUFFICES ASSUME NEW r \in Slot PROVE SlotInv(r)'
    OBVIOUS
  <2>1. CASE r = s
    BY <2>1 DEF Stepped
  <2>2. CASE r \in Slot \ {s}
    BY <1>1, <2>2, OthersKeepTheirs DEF WsInv, Stepped
  <2>3. QED
    BY <2>1, <2>2
<1>6. CausesInv'
  <2>1. CausesKept /\ CausesInv
    BY DEF Stepped, WsInv
  <2>2. tally'.errors = tally'.failed + tally'.timeouts + tally'.dropped + tally'.transport
    <3>1. /\ tally.errors = tally.failed + tally.timeouts + tally.dropped + tally.transport
          /\ tally'.errors - tally.errors =
               (tally'.failed - tally.failed) + (tally'.timeouts - tally.timeouts)
               + (tally'.dropped - tally.dropped) + (tally'.transport - tally.transport)
      BY <2>1 DEF CausesInv, CausesKept
    <3> DEFINE e == tally.errors
               f == tally.failed
               t == tally.timeouts
               d == tally.dropped
               r == tally.transport
               e1 == tally'.errors
               f1 == tally'.failed
               t1 == tally'.timeouts
               d1 == tally'.dropped
               r1 == tally'.transport
    <3>2. /\ e \in Nat /\ f \in Nat /\ t \in Nat /\ d \in Nat /\ r \in Nat
          /\ e1 \in Nat /\ f1 \in Nat /\ t1 \in Nat /\ d1 \in Nat /\ r1 \in Nat
          /\ e = f + t + d + r /\ e1 - e = (f1 - f) + (t1 - t) + (d1 - d) + (r1 - r)
      BY <1>2, <1>3, <3>1
    <3> HIDE DEF e, f, t, d, r, e1, f1, t1, d1, r1
    <3>3. e1 = f1 + t1 + d1 + r1
      BY <3>2
    <3>4. QED
      BY <3>3 DEF e1, f1, t1, d1, r1
  <2>3. tally'.requests = IF config'.messages THEN tally'.sent ELSE tally'.opened
    <3>1. CASE config.messages
      <4>1. tally.requests = tally.sent /\ tally'.requests - tally.requests = tally'.sent - tally.sent
        BY <2>1, <3>1 DEF CausesInv, CausesKept
      <4>2. tally'.requests = tally'.sent
        BY <1>2, <1>3, <4>1
      <4>3. QED
        BY <1>1, <3>1, <4>2
    <3>2. CASE ~config.messages
      <4>1. tally.requests = tally.opened /\ tally'.requests - tally.requests = tally'.opened - tally.opened
        BY <2>1, <3>2 DEF CausesInv, CausesKept
      <4>2. tally'.requests = tally'.opened
        BY <1>2, <1>3, <4>1
      <4>3. QED
        BY <1>1, <3>2, <4>2
    <3>3. QED
      BY <3>1, <3>2
  <2>4. QED
    BY <2>2, <2>3 DEF CausesInv
<1>7. EndsInv'
  <2> DEFINE A == Unaccounted
             B == Unaccounted'
  <2>1. \A r \in Slot \ {s} : Bare(r)' <=> Bare(r)
    BY DEF Stepped, Elsewhere, Bare
  <2>2. A \in SUBSET Slot /\ B \in SUBSET Slot /\ (\A r \in Slot \ {s} : r \in A <=> r \in B)
        /\ (s \in A <=> Bare(s)) /\ (s \in B <=> Bare(s)')
    BY <2>1 DEF Unaccounted
  <2>3. /\ Cardinality(A) \in Nat /\ Cardinality(B) \in Nat
        /\ Cardinality(B) - Cardinality(A) = One(Bare(s)') - One(Bare(s))
    <3> HIDE DEF A, B
    <3>1. /\ Cardinality(A) \in Nat /\ Cardinality(B) \in Nat
          /\ Cardinality(B) - Cardinality(A) = One(s \in B) - One(s \in A)
      BY <2>2, CardMoves
    <3>2. QED
      BY <2>2, <3>1 DEF One
  <2>4. EndsKept(s) /\ EndsInv
    BY DEF Stepped, WsInv
  <2>5. Cardinality(Unaccounted)' = Cardinality(B)
    OBVIOUS
  <2> DEFINE a == Cardinality(A)
             b == Cardinality(B)
             x == One(Bare(s))
             y == One(Bare(s)')
  <2>6. /\ a \in Nat /\ b \in Nat /\ b - a = y - x /\ x \in Int /\ y \in Int
        /\ tally.opened <= tally.codes + tally.unacked + tally.transport + tally.never + a
        /\ tally.codes + tally.unacked + a <= tally.opened + tally.twice
        /\ (tally'.codes - tally.codes) + (tally'.unacked - tally.unacked)
             <= (tally'.opened - tally.opened) + (x - y) + (tally'.twice - tally.twice)
        /\ (tally'.opened - tally.opened) + (x - y) <=
             ((tally'.codes - tally.codes) + (tally'.unacked - tally.unacked))
             + (tally'.transport - tally.transport) + (tally'.never - tally.never)
    BY <2>3, <2>4 DEF EndsInv, EndsKept, One
  <2> HIDE DEF a, b, x, y
  <2>7. /\ tally'.opened <= tally'.codes + tally'.unacked + tally'.transport + tally'.never + b
        /\ tally'.codes + tally'.unacked + b <= tally'.opened + tally'.twice
    BY <1>2, <1>3, <2>6
  <2>8. QED
    BY <2>5, <2>7 DEF EndsInv, b
<1>8. FramesCounted'
  <2> DEFINE f == Drained
             g == Drained'
  <2>1. \A r \in Slot \ {s} : Drains(r)' = Drains(r)
    BY DEF Stepped, Elsewhere, Drains
  <2>2. \A r \in Slot : Drains(r) \in Int /\ Drains(r)' \in Int
    <3>1. \A r \in Slot : SlotTyped(r) /\ SlotTyped(r)'
      BY <1>5 DEF WsInv, SlotInv
    <3>2. QED
      BY <3>1 DEF SlotTyped, SlotState, Drains
  <2>3. /\ \A r \in Slot : f[r] = Drains(r) /\ g[r] = Drains(r)'
    BY DEF Drained
  <2> HIDE DEF f, g
  <2>4. /\ SumFunctionOnSet(f, Slot) \in Int /\ SumFunctionOnSet(g, Slot) \in Int
        /\ SumFunctionOnSet(g, Slot) - SumFunctionOnSet(f, Slot) = g[s] - f[s]
    BY <2>1, <2>2, <2>3, SumMoves
  <2>5. FramesKept(s) /\ FramesCounted
    BY DEF Stepped, WsInv
  <2>6. /\ tally.timed + tally.unexpected + SumFunctionOnSet(f, Slot) <= tally.received
        /\ (tally'.timed - tally.timed) + (tally'.unexpected - tally.unexpected) + (g[s] - f[s])
             <= tally'.received - tally.received
        /\ g[s] \in Int /\ f[s] \in Int
    BY <2>2, <2>3, <2>5 DEF FramesKept, FramesCounted, f
  <2>7. tally'.timed + tally'.unexpected + SumFunctionOnSet(g, Slot) <= tally'.received
    BY <1>2, <1>3, <2>4, <2>6
  <2>8. QED
    BY <2>7 DEF FramesCounted, g
<1>9. DropsInv' /\ ExpectInv'
  <2> DEFINE A == Claimants
             B == Claimants'
  <2>1. \A r \in Slot \ {s} : Claims(r)' <=> Claims(r)
    BY DEF Stepped, Elsewhere, Claims, InUse
  <2>2. /\ A \in SUBSET Slot /\ B \in SUBSET Slot /\ \A r \in Slot \ {s} : r \in A <=> r \in B
        /\ (s \in A <=> Claims(s)) /\ (s \in B <=> Claims(s)')
    BY <2>1 DEF Claimants
  <2>3. /\ Cardinality(A) \in Nat /\ Cardinality(B) \in Nat
        /\ Cardinality(B) - Cardinality(A) = One(Claims(s)') - One(Claims(s))
    <3> HIDE DEF A, B
    <3>1. /\ Cardinality(A) \in Nat /\ Cardinality(B) \in Nat
          /\ Cardinality(B) - Cardinality(A) = One(s \in B) - One(s \in A)
      BY <2>2, CardMoves
    <3>2. QED
      BY <2>2, <3>1 DEF One
  <2>4. DropsKept(s) /\ DropsInv /\ ExpectKept /\ ExpectInv
    BY DEF Stepped, WsInv
  <2> DEFINE a == Cardinality(A)
             b == Cardinality(B)
  <2>5. /\ a \in Nat /\ b \in Nat
        /\ tally.dropped + a <= hangUps + tally.redropped
        /\ (tally'.dropped - tally.dropped) + (b - a) <= (hangUps' - hangUps) + (tally'.redropped - tally.redropped)
    BY <2>3, <2>4 DEF DropsInv, DropsKept
  <2>6. DropsInv' <=> tally'.dropped + b <= hangUps' + tally'.redropped
    BY DEF DropsInv
  <2> HIDE DEF a, b
  <2>7. tally'.dropped + b <= hangUps' + tally'.redropped
    BY <1>2, <1>3, <2>5
  <2>8. ExpectInv'
    BY <1>1, <2>4 DEF ExpectInv, ExpectKept
  <2>9. QED
    BY <2>6, <2>7, <2>8
<1>10. FleetInv'
  <2> DEFINE A == Held
             B == Held'
  <2>1. /\ A \in SUBSET Slot /\ B \in SUBSET Slot /\ \A r \in Slot \ {s} : r \in A <=> r \in B
        /\ (s \in A <=> Holds(s)) /\ (s \in B <=> Holds(s)')
    BY DEF Held, Holds, Stepped, Elsewhere
  <2>2. B \subseteq config.slots
    BY <1>1, <1>5 DEF SlotInv, FlagsInv, Open, Held, Holds
  <2>3. IsFiniteSet(config.slots)
    BY <1>1, FS_Subset DEF Typed
  <2>4. FleetKept(s) /\ FleetInv
    BY DEF Stepped, WsInv
  <2>5. Cardinality(B) = Cardinality(Held)'
    OBVIOUS
  <2>8. active \in Int /\ peak \in Int /\ active' \in Int /\ peak' \in Int
    BY <1>1 DEF FiguresTyped
  <2>9. active = Cardinality(A) /\ active <= peak /\ peak <= Cardinality(config.slots)
    BY <2>4 DEF FleetInv
  <2> HIDE DEF A, B
  <2>6. Cardinality(B) <= Cardinality(config.slots) /\ Cardinality(config.slots) \in Nat
    BY <2>2, <2>3, FS_Subset, FS_CardinalityType
  <2>7. /\ Cardinality(A) \in Nat /\ Cardinality(B) \in Nat
        /\ Cardinality(B) - Cardinality(A) = One(Holds(s)') - One(Holds(s))
    <3>1. /\ Cardinality(A) \in Nat /\ Cardinality(B) \in Nat
          /\ Cardinality(B) - Cardinality(A) = One(s \in B) - One(s \in A)
      BY <2>1, CardMoves
    <3>2. QED
      BY <2>1, <3>1 DEF One
  <2>10. active' - active = Cardinality(B) - Cardinality(A) /\ peak' = IF active' > peak THEN active' ELSE peak
    BY <2>4, <2>7 DEF FleetKept
  <2>11. active' = Cardinality(B) /\ active' <= peak' /\ peak' <= Cardinality(config.slots)
    BY <2>6, <2>7, <2>8, <2>9, <2>10
  <2>12. QED
    BY <1>1, <2>5, <2>11 DEF FleetInv
<1>11. ExitInv'
  <2>1. exit = -1 /\ exit' = exit
    BY DEF Stepped, Elsewhere, WsInv, ExitInv
  <2>2. QED
    BY <2>1 DEF ExitInv
<1>12. RttIsOfItsMessage'
  <2>1. (mistimed => lag > 1) /\ (mistimed' => mistimed \/ lag' > 1) /\ lag <= lag' /\ lag \in Nat /\ lag' \in Nat
    BY <1>1 DEF WsInv, Stepped, RttIsOfItsMessage, FiguresTyped
  <2>2. QED
    BY <2>1 DEF RttIsOfItsMessage
<1>13. QED
  BY <1>4, <1>5, <1>6, <1>7, <1>8, <1>9, <1>10, <1>11, <1>12 DEF WsInv

-------------------------------------------------------------------------------
(* The invariant holds initially and is kept.                                 *)

LEMMA WsInvInitially ==
  ASSUME Init
  PROVE  WsInv
<1>1. /\ config \in Configs /\ DOMAIN slot = Slot /\ DOMAIN reader = Slot /\ DOMAIN inbox = Slot
      /\ DOMAIN owed = Slot /\ DOMAIN hungUp = Slot
      /\ hangUps = 0 /\ lag = 0 /\ mistimed = FALSE /\ tally = [c \in Counters |-> 0]
      /\ active = 0 /\ peak = 0 /\ stop = FALSE /\ exit = -1
  BY DEF Init
<1>2. \A s \in Slot : /\ slot[s] \in SlotState /\ slot[s].pc \in {"gone", "delayed", "ready"}
                      /\ s \notin config.slots => slot[s].pc = "gone"
                      /\ slot[s].pc \notin Open /\ slot[s].pc # "connecting"
                      /\ reader[s] = "none" /\ inbox[s] = <<>> /\ owed[s] = <<>> /\ hungUp[s] = FALSE
  <2> SUFFICES ASSUME NEW s \in Slot
               PROVE  /\ slot[s] \in SlotState /\ slot[s].pc \in {"gone", "delayed", "ready"}
                      /\ s \notin config.slots => slot[s].pc = "gone"
                      /\ slot[s].pc \notin Open /\ slot[s].pc # "connecting"
                      /\ reader[s] = "none" /\ inbox[s] = <<>> /\ owed[s] = <<>> /\ hungUp[s] = FALSE
    OBVIOUS
  <2> DEFINE pc == IF s \notin config.slots THEN "gone" ELSE IF config.ramp THEN "delayed" ELSE "ready"
  <2>1. slot[s] = Idle(pc, 0)
    BY DEF Init
  <2>2. pc \in {"gone", "delayed", "ready"} /\ pc \in Places /\ pc \notin Open /\ pc # "connecting"
        /\ (s \notin config.slots => pc = "gone")
    BY DEF Places, Open
  <2> HIDE DEF pc
  <2>3. Idle(pc, 0) \in SlotState /\ Idle(pc, 0).pc = pc
    BY <2>2 DEF Idle, SlotState
  <2>4. reader[s] = "none" /\ inbox[s] = <<>> /\ owed[s] = <<>> /\ hungUp[s] = FALSE
    BY DEF Init
  <2>5. QED
    BY <2>1, <2>2, <2>3, <2>4
<1>3. Typed
  <2>1. [c \in Counters |-> 0] \in [Counters -> Nat]
    OBVIOUS
  <2>2. tally \in [Counters -> Nat]
    BY <1>1, <2>1
  <2>4. hangUps \in Nat /\ lag \in Nat /\ active \in Int /\ peak \in Int
    BY <1>1
  <2>5. mistimed \in BOOLEAN /\ stop \in BOOLEAN
    BY <1>1
  <2>3. QED
    BY <1>1, <2>2, <2>4, <2>5, Zenon DEF Typed, FiguresTyped
<1>4. \A s \in Slot : SlotInv(s)
  <2> SUFFICES ASSUME NEW s \in Slot PROVE SlotInv(s)
    OBVIOUS
  <2>1. <<>> \in Seq(Int) /\ <<>> \in Seq(Nat \ {0})
    OBVIOUS
  <2>2. slot[s].pc # "draining" /\ slot[s].pc # "awaiting"
    BY <1>2
  <2>3. SlotTyped(s)
    BY <1>2, <2>1 DEF SlotTyped
  <2>4. ~InUse(s) /\ slot[s].pc \notin Open
    BY <1>2 DEF InUse
  <2>5. FlagsInv(s)
    BY <1>2, <2>2, <2>4 DEF FlagsInv
  <2>6. FramesInv(s)
    BY <2>4 DEF FramesInv
  <2>7. QED
    BY <2>3, <2>5, <2>6 DEF SlotInv
<1>5. Held = {} /\ Unaccounted = {} /\ Claimants = {} /\ \A s \in Slot : Drained[s] = 0
  BY <1>2 DEF Held, Unaccounted, Claimants, Drained, Bare, Claims, Holds, Drains, InUse, Open
<1>6. Cardinality({}) = 0 /\ IsFiniteSet({})
  BY FS_EmptySet
<1>7. SumFunctionOnSet(Drained, Slot) = 0
  <2>1. SumFunctionOnSet(Drained, Slot) = SumFunctionOnSet(Drained, {})
    BY <1>5, SumIgnoresZeros
  <2>2. QED
    BY <2>1, SumOfNothing
<1>8. \A c \in Counters : tally[c] = 0
  BY <1>1
<1>9. CausesInv /\ EndsInv /\ FramesCounted /\ DropsInv /\ ExpectInv
  BY <1>1, <1>5, <1>6, <1>7, <1>8 DEF CausesInv, EndsInv, FramesCounted, DropsInv, ExpectInv, Counters
<1>10. FleetInv
  <2>1. Cardinality(config.slots) \in Nat
    BY <1>1, FS_Subset, FS_CardinalityType
  <2>2. QED
    BY <1>1, <1>5, <1>6, <2>1 DEF FleetInv
<1>11. ExitInv /\ RttIsOfItsMessage
  BY <1>1 DEF ExitInv, RttIsOfItsMessage
<1>12. QED
  BY <1>3, <1>4, <1>9, <1>10, <1>11 DEF WsInv

LEMMA SlotStep ==
  ASSUME WsInv, NEW s \in Slot, Timers(s) \/ Sockets(s) \/ Connected(s) \/ Read(s) \/ ReadRaises(s) \/ Peer(s)
  PROVE  Stepped(s)
<1>1. Typed /\ FleetInv /\ SlotInv(s)
  BY DEF WsInv
<1>2. CASE Timers(s)
  BY <1>1, <1>2, PlainStep, AttemptStep, RefusedStep, ReplyTimeoutStep DEF Timers
<1>3. CASE Sockets(s)
  <2>1. CASE Drain(s) /\ inbox[s] # <<>>
    BY <1>1, <2>1, DrainFrameStep
  <2>2. CASE Drain(s) /\ inbox[s] = <<>>
    BY <1>1, <2>2, DrainedStep
  <2>3. CASE ~Drain(s)
    BY <1>1, <1>3, <2>3, SendStep, SendFailsStep, ReplyStep, PlainStep, CloseSocketStep, JoinedStep DEF Sockets
  <2>4. QED
    BY <2>1, <2>2, <2>3
<1>4. CASE Connected(s)
  BY <1>1, <1>4, ConnectedStep
<1>5. CASE Read(s)
  BY <1>1, <1>5, ReadStep
<1>6. CASE ReadRaises(s)
  BY <1>1, <1>6, ReadRaisesStep
<1>7. CASE Peer(s)
  BY <1>1, <1>7, PeerStep
<1>8. QED
  BY <1>2, <1>3, <1>4, <1>5, <1>6, <1>7

\* A step that leaves the slots, the wire and the figures alone.
LEMMA QuietStep ==
  ASSUME WsInv, UNCHANGED <<config, slot, reader, wire, lag, mistimed, tally, fleet>>, stop' \in BOOLEAN, ExitInv'
  PROVE  WsInv'
<1>1. /\ UNCHANGED <<config, slot, reader, inbox, owed, hungUp, hangUps, lag, mistimed, tally, active, peak>>
  BY DEF wire, fleet
<1>2. Typed'
  BY <1>1 DEF WsInv, Typed, FiguresTyped
<1>3. \A s \in Slot : SlotInv(s)'
  <2> SUFFICES ASSUME NEW s \in Slot PROVE SlotInv(s)'
    OBVIOUS
  <2>1. SlotTyped(s) /\ FlagsInv(s) /\ FramesInv(s)
    BY DEF WsInv, SlotInv
  <2>2. SlotTyped(s)' /\ FlagsInv(s)' /\ (InUse(s)' <=> InUse(s))
    BY <1>1, <2>1 DEF SlotTyped, FlagsInv, InUse
  <2>3. Answers(s)' = Answers(s) /\ Len(owed[s])' = Len(owed[s])
    BY <1>1 DEF Answers
  <2>4. Frames(s) => Frames(s)'
    BY <1>1, <2>3 DEF Frames
  <2>5. Replies(s) => Replies(s)'
    BY <1>1, <2>3 DEF Replies, Recent
  <2>6. FramesInv(s)'
    BY <1>1, <2>1, <2>2, <2>4, <2>5 DEF FramesInv
  <2>7. QED
    BY <2>2, <2>6 DEF SlotInv
<1>4. Unaccounted' = Unaccounted /\ Claimants' = Claimants /\ Held' = Held /\ Drained' = Drained
  BY <1>1 DEF Unaccounted, Claimants, Held, Drained, Bare, Claims, Holds, Drains, InUse
<1>5. CausesInv' /\ EndsInv' /\ FramesCounted' /\ DropsInv' /\ ExpectInv' /\ FleetInv' /\ RttIsOfItsMessage'
  BY <1>1, <1>4 DEF WsInv, CausesInv, EndsInv, FramesCounted, DropsInv, ExpectInv, FleetInv, RttIsOfItsMessage
<1>6. QED
  BY <1>2, <1>3, <1>5 DEF WsInv

\* A run that exits 0 opened a socket, unless it never tried in vain.
LEMMA ReportStep ==
  ASSUME WsInv, Report
  PROVE  WsInv'
<1>1. UNCHANGED <<config, slot, reader, wire, lag, mistimed, tally, fleet>> /\ stop' \in BOOLEAN
  BY DEF Report, Others
<1>2. PICK breach \in BOOLEAN, exported \in BOOLEAN, regression \in {0, 1, 3} :
        exit' = ExitCode(breach, regression, exported)
  BY DEF Report
<1>3. tally.opened \in Nat /\ tally.failed \in Nat
  BY DEF WsInv, Typed, FiguresTyped, Counters
<1>4. exit' = 0 => Crashed = {} /\ (tally.opened > 0 \/ tally.failed = 0)
  BY <1>2, <1>3 DEF ExitCode
<1>5. ExitInv'
  <2>1. Crashed' = Crashed
    BY <1>1 DEF Crashed
  <2>2. QED
    BY <1>1, <1>4, <2>1 DEF ExitInv, Report
<1>6. QED
  BY <1>1, <1>5, QuietStep

LEMMA StopStep ==
  ASSUME WsInv, TimerFires \/ Signal
  PROVE  WsInv'
<1>1. UNCHANGED <<config, slot, reader, wire, lag, mistimed, tally, fleet>> /\ stop' \in BOOLEAN /\ exit' = exit
  BY DEF TimerFires, Signal, Others
<1>2. ExitInv'
  BY <1>1 DEF ExitInv, WsInv, Crashed
<1>3. QED
  BY <1>1, <1>2, QuietStep

LEMMA WsInvIsKept ==
  ASSUME WsInv, [Next]_vars
  PROVE  WsInv'
<1>1. CASE \E s \in Slot : Timers(s) \/ Sockets(s) \/ Connected(s) \/ Read(s) \/ ReadRaises(s) \/ Peer(s)
  <2>1. PICK s \in Slot : Timers(s) \/ Sockets(s) \/ Connected(s) \/ Read(s) \/ ReadRaises(s) \/ Peer(s)
    BY <1>1
  <2>2. QED
    BY <2>1, SlotStep, SteppedKeepsWsInv
<1>2. CASE TimerFires \/ Signal
  BY <1>2, StopStep
<1>3. CASE Report
  BY <1>3, ReportStep
<1>4. CASE UNCHANGED vars
  <2>1. UNCHANGED <<config, slot, reader, wire, lag, mistimed, tally, fleet, stop, exit>>
    BY <1>4 DEF vars
  <2>2. stop' \in BOOLEAN /\ ExitInv'
    BY <2>1 DEF WsInv, Typed, FiguresTyped, ExitInv, Crashed
  <2>3. QED
    BY <2>1, <2>2, QuietStep
<1>5. QED
  BY <1>1, <1>2, <1>3, <1>4 DEF Next

LEMMA WsInvAlways == Spec => []WsInv
<1>1. Init => WsInv
  BY WsInvInitially
<1>2. WsInv /\ [Next]_vars => WsInv'
  BY WsInvIsKept
<1>3. QED
  BY <1>1, <1>2, PTL DEF Spec

LEMMA WsInvImpliesFigures ==
  ASSUME WsInv
  PROVE  FiguresAgree
<1>1. /\ tally.opened \in Nat /\ tally.failed \in Nat /\ tally.dropped \in Nat /\ tally.sent \in Nat
      /\ tally.received \in Nat /\ tally.timeouts \in Nat /\ tally.unexpected \in Nat
      /\ tally.unacked \in Nat /\ tally.codes \in Nat /\ tally.transport \in Nat /\ tally.errors \in Nat
      /\ tally.requests \in Nat /\ tally.timed \in Nat /\ hangUps \in Nat
      /\ tally.twice \in Nat /\ tally.never \in Nat /\ tally.redropped \in Nat
  BY FiguresAreNumbers DEF WsInv, Typed
<1>2. /\ Cardinality(Unaccounted) \in Nat /\ Cardinality(OpenSockets) \in Nat /\ Cardinality(Leaked) \in Nat
      /\ Cardinality(Unaccounted) <= Cardinality(OpenSockets)
      /\ Cardinality(Held) = Cardinality(OpenSockets) + Cardinality(Leaked)
  <2>1. /\ Unaccounted \subseteq OpenSockets /\ OpenSockets \subseteq Slot /\ Leaked \subseteq Slot
        /\ Held = OpenSockets \cup Leaked /\ OpenSockets \cap Leaked = {}
    BY DEF Unaccounted, OpenSockets, Leaked, Held, Holds, Bare, Open
  <2>2. IsFiniteSet(OpenSockets) /\ IsFiniteSet(Leaked)
    BY <2>1, FS_Subset
  <2>3. Cardinality(Held) = Cardinality(OpenSockets) + Cardinality(Leaked) - Cardinality({})
    BY <2>1, <2>2, FS_Union
  <2>4. Cardinality(Unaccounted) \in Nat /\ Cardinality(Unaccounted) <= Cardinality(OpenSockets)
    BY <2>1, <2>2, FS_Subset, FS_CardinalityType
  <2>5. Cardinality(OpenSockets) \in Nat /\ Cardinality(Leaked) \in Nat /\ Cardinality({}) = 0
    BY <2>2, FS_CardinalityType, FS_EmptySet
  <2>6. QED
    BY <2>3, <2>4, <2>5
<1>3. Cardinality(Claimants) \in Nat
  <2>1. Claimants \subseteq Slot
    BY DEF Claimants
  <2>2. QED
    BY <2>1, FS_Subset, FS_CardinalityType
<1>4. SumFunctionOnSet(Drained, Slot) \in Nat
  <2>1. \A s \in Slot : Drained[s] \in Nat
    BY DEF WsInv, SlotInv, SlotTyped, SlotState, Drained, Drains
  <2>2. QED
    BY <2>1, SumIsNatural
<1>5. CausesInv /\ EndsInv /\ FramesCounted /\ DropsInv /\ ExpectInv /\ FleetInv /\ ExitInv
  BY DEF WsInv
<1>6. /\ active = Cardinality(OpenSockets) + Cardinality(Leaked)
      /\ active <= peak /\ peak <= Cardinality(config.slots)
  BY <1>2, <1>5 DEF FleetInv
<1>7. /\ tally.opened - Cardinality(OpenSockets) <= tally.codes + tally.unacked + tally.transport + tally.never
      /\ tally.codes + tally.unacked <= tally.opened + tally.twice
  <2> DEFINE a == Cardinality(Unaccounted)
             b == Cardinality(OpenSockets)
  <2>1. /\ a \in Nat /\ b \in Nat /\ a <= b
        /\ tally.opened <= tally.codes + tally.unacked + tally.transport + tally.never + a
        /\ tally.codes + tally.unacked + a <= tally.opened + tally.twice
    BY <1>2, <1>5 DEF EndsInv
  <2> HIDE DEF a, b
  <2>2. /\ tally.opened - b <= tally.codes + tally.unacked + tally.transport + tally.never
        /\ tally.codes + tally.unacked <= tally.opened + tally.twice
    BY <1>1, <2>1
  <2>3. QED
    BY <2>2 DEF b
<1>8. tally.received >= tally.timed + tally.unexpected
  <2> DEFINE d == SumFunctionOnSet(Drained, Slot)
  <2>1. d \in Nat /\ tally.timed + tally.unexpected + d <= tally.received
    BY <1>4, <1>5 DEF FramesCounted
  <2> HIDE DEF d
  <2>2. QED
    BY <1>1, <2>1
<1>9. tally.dropped <= hangUps + tally.redropped
  <2> DEFINE a == Cardinality(Claimants)
  <2>1. a \in Nat /\ tally.dropped + a <= hangUps + tally.redropped
    BY <1>3, <1>5 DEF DropsInv
  <2> HIDE DEF a
  <2>2. QED
    BY <1>1, <2>1
<1>10. exit = 0 => Crashed = {} /\ (tally.opened > 0 \/ tally.failed = 0)
  BY <1>5 DEF ExitInv
<1>11. QED
  BY <1>5, <1>6, <1>7, <1>8, <1>9, <1>10 DEF FiguresAgree, CausesInv, ExpectInv

\* The figures of a WebSocket run agree at every moment, whatever the peers do: errors
\* with their causes, requests with sends or sockets, sockets that ended with close
\* codes, unanswered closes and transport errors, frames with replies, drops with
\* peers that hung up, the exit code with sockets opened, and the fleet with what is open.
THEOREM FiguresAlwaysAgree == Spec => []FiguresAgree
<1>1. WsInv => FiguresAgree
  BY WsInvImpliesFigures
<1>2. QED
  BY <1>1, WsInvAlways, PTL

\* While no message is sent with more than one answer outstanding, every RTT is the one
\* of the message just sent: a reply that came too late is drained, never timed.
THEOREM LateRepliesAreNeverTimed == Spec => []RttIsOfItsMessage
<1>1. WsInv => RttIsOfItsMessage
  BY DEF WsInv
<1>2. QED
  BY <1>1, WsInvAlways, PTL

===============================================================================
