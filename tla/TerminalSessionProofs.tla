------------------------ MODULE TerminalSessionProofs -----------------------
(***************************************************************************)
(* Proofs about TerminalSession, for any number of browsers and all sizes  *)
(* of the buffer, the channels, the pieces of output and the delay.        *)
(***************************************************************************)
EXTENDS TerminalSession, TLAPS

(* A stream that waits has a cursor, which is the last event id of its     *)
(* browser or, before the browser's first event, the common baseline; only *)
(* a stream that has subscribed is registered.                             *)
StreamInv ==
    /\ start <= offset
    /\ \A v \in Viewers :
        /\ conn[v] \in {"first", "loop", "ending"} => replay # None
        /\ conn[v] = "first" => cursor[v] = seen[v]
        /\ conn[v] = "loop" => /\ cursor[v] # None
                               /\ cursor[v] = IF seen[v] = None THEN replay ELSE seen[v]
        /\ seen[v] # None => replay # None /\ replay <= seen[v]

(* How far the one who took the session from the hub has come.             *)
ClosingInv ==
    /\ inHub => closing = "no" /\ phase = "open"
    /\ closing = "no" => ptyCloses = 0 \/ (phase = "refused" /\ ptyCloses = 1)
    /\ closing # "no" => phase = "open"
    /\ closing \in {"taken", "told"} => ptyCloses = 0
    /\ closing = "done" => ptyCloses = 1
    /\ closing \in {"told", "done"} => closed
    /\ phase = "starting" => ptyCloses = 0 /\ closing = "no"

(* While nobody watches a session of the hub, no timer that still counts   *)
(* is older than the silence.                                              *)
IdleInv ==
    inHub /\ watchers = {} => \A t \in timers : t.overtaken \/ t.age <= idleFor

Inv == TypeOK /\ StreamInv /\ ExactOutput /\ NoLostWakeup /\ ClosingInv /\ IdleInv

-----------------------------------------------------------------------------
(* The state of the program before the terminal exists satisfies the       *)
(* invariant.                                                              *)
LEMMA InitInv == Init => Inv
  <1> SUFFICES ASSUME Init PROVE Inv
      OBVIOUS
  <1>1. TypeOK
    <2>1. /\ chan \in [Viewers -> 0 .. ChanCap]
          /\ conn \in [Viewers -> Conn]
          /\ idleFor \in 0 .. Delay
      BY SizesAssumption DEF Init, Conn
    <2>2. shown \in [Viewers -> SUBSET Nat] /\ bytes \in [Viewers -> Nat]
      BY DEF Init
    <2>q. QED  BY Zenon, <2>1, <2>2 DEF Init, TypeOK, None
  <1>2. StreamInv
    BY DEF Init, StreamInv, None
  <1>3. ExactOutput /\ NoLostWakeup
    BY DEF Init, ExactOutput, NoLostWakeup
  <1>4. ClosingInv /\ IdleInv
    BY DEF Init, ClosingInv, IdleInv
  <1>q. QED  BY <1>1, <1>2, <1>3, <1>4 DEF Inv

(* A new timer, one that is overtaken and one that grows older.            *)
LEMMA TimerFacts ==
  /\ NewTimer \in Timer
  /\ \A t \in Timer : /\ [t EXCEPT !.overtaken = TRUE] \in Timer
                      /\ [t EXCEPT !.overtaken = TRUE].overtaken = TRUE
  <1>1. NewTimer \in Timer
    BY SizesAssumption DEF NewTimer, Timer
  <1>2. ASSUME NEW t \in Timer
        PROVE  /\ [t EXCEPT !.overtaken = TRUE] \in Timer
               /\ [t EXCEPT !.overtaken = TRUE].overtaken = TRUE
    BY Zenon DEF Timer
  <1>q. QED  BY <1>1, <1>2

(* writeOutput keeps the types of what it changes.                         *)
LEMMA WriteTypes ==
  ASSUME TypeOK, start <= offset, NEW v \in Viewers, WriteOutput(v)
  PROVE  /\ conn' \in [Viewers -> Conn]
         /\ cursor' \in [Viewers -> Nat \cup {None}]
         /\ seen' \in [Viewers -> Nat \cup {None}]
         /\ shown' \in [Viewers -> SUBSET Nat]
         /\ bytes' \in [Viewers -> Nat]
  <1> USE DEF TypeOK, None
  <1>1. conn' \in [Viewers -> Conn]
    BY DEF WriteOutput, Conn
  <1>2. cursor' \in [Viewers -> Nat \cup {None}]
    BY DEF WriteOutput
  <1>3. CASE UNCHANGED client
    BY <1>1, <1>2, <1>3 DEF client
  <1>4. CASE Retained(v) /\ Deliver(v)
    <2> DEFINE first == IF From(v) < start THEN start ELSE From(v)
    <2>1. first \in Nat /\ first <= offset
      BY <1>4 DEF Retained, From
    <2>2. /\ seen' = [seen EXCEPT ![v] = offset]
          /\ shown' = [shown EXCEPT ![v] = @ \cup (first .. (offset - 1))]
          /\ bytes' = [bytes EXCEPT ![v] = @ + (offset - first)]
      BY <1>4 DEF Deliver
    <2> HIDE DEF first
    <2>3. first .. (offset - 1) \subseteq Nat /\ offset - first \in Nat
      BY <2>1
    <2>q. QED  BY <1>1, <1>2, <2>2, <2>3
  <1>q. QED  BY <1>3, <1>4 DEF WriteOutput

(* Every step keeps the variables in their types.                          *)
LEMMA TypeStep == ASSUME TypeOK, start <= offset, Next PROVE TypeOK'
  <1> USE SizesAssumption DEF TypeOK, hub, output, stream, client, idle, life, None
  <1>1. CASE Output
    BY <1>1 DEF Output, Append, Smaller
  <1>2. CASE Open
    BY <1>2 DEF Open, Append, NewTimer, Timer
  <1>3. CASE Refuse
    BY <1>3 DEF Refuse
  <1>4. CASE CloseRequest
    BY Zenon, <1>4 DEF CloseRequest, Take
  <1>5. CASE Watch
    BY Zenon, <1>5 DEF Watch, Take
  <1>6. CASE CloseWatchers
    BY <1>6 DEF CloseWatchers
  <1>7. CASE ClosePty
    BY <1>7 DEF ClosePty
  <1>8. CASE Fire
    BY ZenonT(30), <1>8 DEF Fire, Timer
  <1>9. CASE Tick
    BY <1>9 DEF Tick, Timer
  <1>10. CASE Unavailable
    BY ZenonT(60), <1>10 DEF Unavailable
  <1>11. ASSUME NEW v \in Viewers, Viewer(v) PROVE TypeOK'
    <2>1. CASE Connect(v)
      BY <2>1 DEF Connect, Conn
    <2>2. CASE Subscribe(v)
      BY <2>2 DEF Subscribe, Conn
    <2>3. CASE First(v)
      BY ZenonT(60), <2>3, WriteTypes DEF First, WriteOutput
    <2>4. CASE Wake(v)
      <3>1. WriteOutput(v) /\ chan' \in [Viewers -> 0 .. ChanCap]
        BY <2>4 DEF Wake
      <3>q. QED  BY ZenonT(60), <3>1, WriteTypes DEF WriteOutput
    <2>5. CASE ChannelClosed(v)
      BY <2>5 DEF ChannelClosed, Conn
    <2>6. CASE Cancel(v)
      <3>1. timers' \subseteq Timer /\ idleFor' \in 0 .. Delay
        BY <2>6, TimerFacts DEF Cancel
      <3>q. QED  BY <2>6, <3>1 DEF Cancel, Conn
    <2>7. CASE StartTimer(v)
      <3>1. timers' \subseteq Timer
        BY <2>7, TimerFacts DEF StartTimer
      <3>q. QED  BY <2>7, <3>1 DEF StartTimer, Conn
    <2>8. CASE Heartbeat(v)
      BY <2>8 DEF Heartbeat
    <2>9. CASE Disconnect(v)
      BY <2>9 DEF Disconnect, Conn
    <2>10. CASE Reload(v)
      BY <2>10 DEF Reload
    <2>q. QED  BY <1>11, <2>1, <2>2, <2>3, <2>4, <2>5, <2>6, <2>7, <2>8, <2>9, <2>10 DEF Viewer, Stream
  <1>q. QED  BY <1>1, <1>2, <1>3, <1>4, <1>5, <1>6, <1>7, <1>8, <1>9, <1>10, <1>11 DEF Next

-----------------------------------------------------------------------------
(* Every step keeps the cursors in order.                                  *)
LEMMA StreamStep == ASSUME TypeOK, StreamInv, Next PROVE StreamInv'
  <1> USE SizesAssumption DEF TypeOK, StreamInv, hub, output, stream, client, idle, life, None
  <1>1. CASE Output
    BY <1>1 DEF Output, Append, Smaller
  <1>2. CASE Open
    BY <1>2 DEF Open, Append, NewTimer, Timer
  <1>3. CASE Refuse
    BY <1>3 DEF Refuse
  <1>4. CASE CloseRequest
    BY <1>4 DEF CloseRequest, Take
  <1>5. CASE Watch
    BY <1>5 DEF Watch, Take
  <1>6. CASE CloseWatchers
    BY <1>6 DEF CloseWatchers
  <1>7. CASE ClosePty
    BY <1>7 DEF ClosePty
  <1>8. CASE Fire
    BY <1>8 DEF Fire
  <1>9. CASE Tick
    BY <1>9 DEF Tick
  <1>10. CASE Unavailable
    BY Zenon, <1>10 DEF Unavailable
  <1>11. ASSUME NEW v \in Viewers, Viewer(v) PROVE StreamInv'
    <2>1. CASE Connect(v)
      BY <2>1 DEF Connect
    <2>2. CASE Subscribe(v)
      BY <2>2 DEF Subscribe
    <2>3. CASE First(v)
      BY <2>3 DEF First, WriteOutput, Deliver, From, Retained
    <2>4. CASE Wake(v)
      BY <2>4 DEF Wake, WriteOutput, Deliver, From, Retained
    <2>5. CASE ChannelClosed(v)
      BY <2>5 DEF ChannelClosed
    <2>6. CASE Cancel(v)
      BY <2>6 DEF Cancel
    <2>7. CASE StartTimer(v)
      BY <2>7 DEF StartTimer
    <2>8. CASE Heartbeat(v)
      BY <2>8 DEF Heartbeat
    <2>9. CASE Disconnect(v)
      BY <2>9 DEF Disconnect
    <2>10. CASE Reload(v)
      BY <2>10 DEF Reload
    <2>q. QED  BY <1>11, <2>1, <2>2, <2>3, <2>4, <2>5, <2>6, <2>7, <2>8, <2>9, <2>10 DEF Viewer, Stream
  <1>q. QED  BY <1>1, <1>2, <1>3, <1>4, <1>5, <1>6, <1>7, <1>8, <1>9, <1>10, <1>11 DEF Next

(* writeOutput sends exactly what the browser has not displayed yet.       *)
LEMMA ExactWrite ==
  ASSUME TypeOK, StreamInv, ExactOutput,
         NEW v \in Viewers, conn[v] \in {"first", "loop"}, WriteOutput(v)
  PROVE  ExactOutput'
  <1>1. replay' = replay
    BY DEF WriteOutput
  <1>2. CASE UNCHANGED client
    BY <1>1, <1>2 DEF client, ExactOutput
  <1>3. CASE Retained(v) /\ From(v) < offset /\ Deliver(v)
    <2> DEFINE had == IF seen[v] = None THEN replay ELSE seen[v]
    <2>1. /\ From(v) = had /\ replay \in Nat /\ had \in Nat
          /\ replay <= had /\ start <= had /\ had < offset
      BY <1>3 DEF Retained, From, TypeOK, StreamInv, None
    <2>2. /\ seen' = [seen EXCEPT ![v] = offset]
          /\ shown' = [shown EXCEPT ![v] = @ \cup (had .. (offset - 1))]
          /\ bytes' = [bytes EXCEPT ![v] = @ + (offset - had)]
      <3> HIDE DEF had
      <3>1. ~(From(v) < start) /\ From(v) = had
        BY <2>1 DEF TypeOK
      <3>q. QED  BY <1>3, <3>1 DEF Deliver
    <2>3. /\ shown[v] = replay .. (had - 1)
          /\ bytes[v] = had - replay
      <3>1. CASE seen[v] # None
        BY <3>1 DEF ExactOutput
      <3>2. CASE seen[v] = None
        <4>1. replay .. (replay - 1) = {} /\ replay - replay = 0
          BY <2>1
        <4>q. QED  BY Zenon, <3>2, <4>1 DEF ExactOutput
      <3>q. QED  BY <3>1, <3>2
    <2> HIDE DEF had
    <2>4. (replay .. (had - 1)) \cup (had .. (offset - 1)) = replay .. (offset - 1)
      BY <2>1 DEF TypeOK
    <2>5. /\ seen'[v] = offset /\ offset # None
          /\ shown'[v] = replay .. (offset - 1)
          /\ bytes'[v] = offset - replay
      BY SMTT(20), <2>1, <2>2, <2>3, <2>4 DEF TypeOK, None
    <2>6. ASSUME NEW w \in Viewers, w # v
          PROVE  seen'[w] = seen[w] /\ shown'[w] = shown[w] /\ bytes'[w] = bytes[w]
      BY Zenon, <2>2, <2>6 DEF TypeOK
    <2>q. QED  BY <1>1, <2>1, <2>5, <2>6 DEF ExactOutput, None
  <1>q. QED  BY <1>2, <1>3 DEF WriteOutput

(* Every step keeps what the browsers display exact.                       *)
LEMMA ExactStep == ASSUME TypeOK, StreamInv, ExactOutput, Next PROVE ExactOutput'
  <1> USE DEF TypeOK, StreamInv, ExactOutput, hub, output, stream, client, idle, life, None
  <1>1. CASE Output
    BY <1>1 DEF Output, Append, Smaller
  <1>2. CASE Open
    BY <1>2 DEF Open, Append, NewTimer, Timer
  <1>3. CASE Refuse
    BY <1>3 DEF Refuse
  <1>4. CASE CloseRequest
    BY <1>4 DEF CloseRequest, Take
  <1>5. CASE Watch
    BY <1>5 DEF Watch, Take
  <1>6. CASE CloseWatchers
    BY <1>6 DEF CloseWatchers
  <1>7. CASE ClosePty
    BY <1>7 DEF ClosePty
  <1>8. CASE Fire
    BY <1>8 DEF Fire
  <1>9. CASE Tick
    BY <1>9 DEF Tick
  <1>10. CASE Unavailable
    BY Zenon, <1>10 DEF Unavailable
  <1>11. ASSUME NEW v \in Viewers, Viewer(v) PROVE ExactOutput'
    <2>1. CASE Connect(v)
      BY <2>1 DEF Connect
    <2>2. CASE Subscribe(v)
      BY Zenon, <2>2 DEF Subscribe
    <2>3. CASE First(v)
      BY SMTT(20), <2>3, ExactWrite DEF First
    <2>4. CASE Wake(v)
      BY Zenon, <2>4, ExactWrite DEF Wake
    <2>5. CASE ChannelClosed(v)
      BY <2>5 DEF ChannelClosed
    <2>6. CASE Cancel(v)
      BY <2>6 DEF Cancel
    <2>7. CASE StartTimer(v)
      BY Zenon, <2>7 DEF StartTimer
    <2>8. CASE Heartbeat(v)
      <3>1. /\ replay' = replay /\ shown' = shown /\ bytes' = bytes
            /\ seen' = [seen EXCEPT ![v] = cursor[v]]
        BY <2>8 DEF Heartbeat
      <3>2. /\ cursor[v] # None
            /\ cursor[v] = IF seen[v] = None THEN replay ELSE seen[v]
        BY <2>8 DEF Heartbeat
      <3>3. CASE seen[v] # None
        BY <3>1, <3>2, <3>3
      <3>4. CASE seen[v] = None
        <4>1. shown[v] = {} /\ bytes[v] = 0 /\ replay \in Nat
          BY <3>2, <3>4
        <4>2. shown[v] = replay .. (replay - 1) /\ bytes[v] = replay - replay
          BY <4>1
        <4>q. QED  BY <3>1, <3>2, <3>4, <4>1, <4>2
      <3>q. QED  BY Zenon, <3>3, <3>4
    <2>9. CASE Disconnect(v)
      BY <2>9 DEF Disconnect
    <2>10. CASE Reload(v)
      BY Zenon, <2>10 DEF Reload
    <2>q. QED  BY <1>11, <2>1, <2>2, <2>3, <2>4, <2>5, <2>6, <2>7, <2>8, <2>9, <2>10 DEF Viewer, Stream
  <1>q. QED  BY <1>1, <1>2, <1>3, <1>4, <1>5, <1>6, <1>7, <1>8, <1>9, <1>10, <1>11 DEF Next

(* Every step leaves a wake-up for a stream that is behind.                *)
LEMMA WakeupStep == ASSUME TypeOK, StreamInv, NoLostWakeup, Next PROVE NoLostWakeup'
  <1> USE SizesAssumption DEF TypeOK, StreamInv, NoLostWakeup, hub, output, stream, client, idle, life, None
  <1>1. CASE Output
    BY <1>1 DEF Output, Append, Smaller
  <1>2. CASE Open
    BY <1>2 DEF Open, Append, NewTimer, Timer
  <1>3. CASE Refuse
    BY <1>3 DEF Refuse
  <1>4. CASE CloseRequest
    BY <1>4 DEF CloseRequest, Take
  <1>5. CASE Watch
    BY <1>5 DEF Watch, Take
  <1>6. CASE CloseWatchers
    BY <1>6 DEF CloseWatchers
  <1>7. CASE ClosePty
    BY <1>7 DEF ClosePty
  <1>8. CASE Fire
    BY <1>8 DEF Fire
  <1>9. CASE Tick
    BY <1>9 DEF Tick
  <1>10. CASE Unavailable
    BY Zenon, <1>10 DEF Unavailable
  <1>11. ASSUME NEW v \in Viewers, Viewer(v) PROVE NoLostWakeup'
    <2>1. CASE Connect(v)
      BY <2>1 DEF Connect
    <2>2. CASE Subscribe(v)
      BY Zenon, <2>2 DEF Subscribe
    <2>3. CASE First(v)
      BY <2>3 DEF First, WriteOutput, Deliver, From, Retained
    <2>4. CASE Wake(v)
      BY <2>4 DEF Wake, WriteOutput, Deliver, From, Retained
    <2>5. CASE ChannelClosed(v)
      BY <2>5 DEF ChannelClosed
    <2>6. CASE Cancel(v)
      BY <2>6 DEF Cancel
    <2>7. CASE StartTimer(v)
      BY <2>7 DEF StartTimer
    <2>8. CASE Heartbeat(v)
      BY <2>8 DEF Heartbeat
    <2>9. CASE Disconnect(v)
      BY <2>9 DEF Disconnect
    <2>10. CASE Reload(v)
      BY Zenon, <2>10 DEF Reload
    <2>q. QED  BY <1>11, <2>1, <2>2, <2>3, <2>4, <2>5, <2>6, <2>7, <2>8, <2>9, <2>10 DEF Viewer, Stream
  <1>q. QED  BY <1>1, <1>2, <1>3, <1>4, <1>5, <1>6, <1>7, <1>8, <1>9, <1>10, <1>11 DEF Next

-----------------------------------------------------------------------------
(* Every step keeps the order in which a session is closed.                *)
LEMMA ClosingStep == ASSUME TypeOK, ClosingInv, Next PROVE ClosingInv'
  <1> USE DEF TypeOK, ClosingInv, hub, output, stream, client, idle, life
  <1>1. CASE Output
    BY <1>1 DEF Output
  <1>2. CASE Open
    BY <1>2 DEF Open
  <1>3. CASE Refuse
    BY <1>3 DEF Refuse
  <1>4. CASE CloseRequest
    BY <1>4 DEF CloseRequest, Take
  <1>5. CASE Watch
    BY <1>5 DEF Watch, Take
  <1>6. CASE CloseWatchers
    BY <1>6 DEF CloseWatchers
  <1>7. CASE ClosePty
    BY <1>7 DEF ClosePty
  <1>8. CASE Fire
    BY <1>8 DEF Fire
  <1>9. CASE Tick
    BY <1>9 DEF Tick
  <1>10. CASE Unavailable
    BY Zenon, <1>10 DEF Unavailable
  <1>11. ASSUME NEW v \in Viewers, Viewer(v) PROVE ClosingInv'
    <2>1. CASE Connect(v)
      BY <2>1 DEF Connect
    <2>2. CASE Subscribe(v)
      BY <2>2 DEF Subscribe
    <2>3. CASE First(v)
      BY <2>3 DEF First, WriteOutput
    <2>4. CASE Wake(v)
      BY <2>4 DEF Wake, WriteOutput
    <2>5. CASE ChannelClosed(v)
      BY <2>5 DEF ChannelClosed
    <2>6. CASE Cancel(v)
      BY <2>6 DEF Cancel
    <2>7. CASE StartTimer(v)
      BY <2>7 DEF StartTimer
    <2>8. CASE Heartbeat(v)
      BY <2>8 DEF Heartbeat
    <2>9. CASE Disconnect(v)
      BY <2>9 DEF Disconnect
    <2>10. CASE Reload(v)
      BY Zenon, <2>10 DEF Reload
    <2>q. QED  BY <1>11, <2>1, <2>2, <2>3, <2>4, <2>5, <2>6, <2>7, <2>8, <2>9, <2>10 DEF Viewer, Stream
  <1>q. QED  BY <1>1, <1>2, <1>3, <1>4, <1>5, <1>6, <1>7, <1>8, <1>9, <1>10, <1>11 DEF Next

(* Every step keeps the timers that count younger than the silence.        *)
LEMMA IdleStep == ASSUME TypeOK, ClosingInv, IdleInv, Next PROVE IdleInv'
  <1> USE SizesAssumption DEF TypeOK, ClosingInv, IdleInv, Timer, hub, output, stream, client, idle, life
  <1>1. CASE Output
    BY <1>1 DEF Output
  <1>2. CASE Open
    BY <1>2 DEF Open, NewTimer
  <1>3. CASE Refuse
    BY <1>3 DEF Refuse
  <1>4. CASE CloseRequest
    BY <1>4 DEF CloseRequest, Take
  <1>5. CASE Watch
    BY Zenon, <1>5 DEF Watch, Take
  <1>6. CASE CloseWatchers
    BY <1>6 DEF CloseWatchers
  <1>7. CASE ClosePty
    BY <1>7 DEF ClosePty
  <1>8. CASE Fire
    BY ZenonT(60), <1>8 DEF Fire
  <1>9. CASE Tick
    BY <1>9 DEF Tick
  <1>10. CASE Unavailable
    BY <1>10 DEF Unavailable
  <1>11. ASSUME NEW v \in Viewers, Viewer(v) PROVE IdleInv'
    <2>1. CASE Connect(v)
      BY <2>1 DEF Connect
    <2>2. CASE Subscribe(v)
      BY <2>2 DEF Subscribe
    <2>3. CASE First(v)
      BY <2>3 DEF First, WriteOutput
    <2>4. CASE Wake(v)
      BY <2>4 DEF Wake, WriteOutput
    <2>5. CASE ChannelClosed(v)
      BY <2>5 DEF ChannelClosed
    <2>6. CASE Cancel(v)
      BY <2>6 DEF Cancel
    <2>7. CASE StartTimer(v)
      BY <2>7 DEF StartTimer, NewTimer
    <2>8. CASE Heartbeat(v)
      BY <2>8 DEF Heartbeat
    <2>9. CASE Disconnect(v)
      BY <2>9 DEF Disconnect
    <2>10. CASE Reload(v)
      BY <2>10 DEF Reload
    <2>q. QED  BY <1>11, <2>1, <2>2, <2>3, <2>4, <2>5, <2>6, <2>7, <2>8, <2>9, <2>10 DEF Viewer, Stream
  <1>q. QED  BY Zenon, <1>1, <1>2, <1>3, <1>4, <1>5, <1>6, <1>7, <1>8, <1>9, <1>10, <1>11 DEF Next

-----------------------------------------------------------------------------
(* The invariant holds in every reachable state.                           *)
THEOREM Invariance == Spec => []Inv
  <1>1. ASSUME Inv, [Next]_vars PROVE Inv'
    <2>1. CASE Next
      <3>1. TypeOK'
        BY Zenon, <1>1, <2>1, TypeStep DEF Inv, StreamInv
      <3>q. QED  BY <1>1, <2>1, <3>1, StreamStep, ExactStep, WakeupStep, ClosingStep,
                    IdleStep DEF Inv
    <2>2. CASE UNCHANGED vars
      BY <1>1, <2>2 DEF vars, hub, output, stream, client, idle, life, Inv, TypeOK, StreamInv,
         ExactOutput, NoLostWakeup, ClosingInv, IdleInv
    <2>q. QED  BY <1>1, <2>1, <2>2
  <1>q. QED  BY <1>1, InitInv, PTL DEF Spec

(* What a browser displays has no gap and no repetition, for any number of *)
(* browsers and any size of the buffer.                                    *)
THEOREM OutputIsExact == Spec => []ExactOutput
  BY Invariance, PTL DEF Inv

(* The bounded channel of a stream never loses the last wake-up.           *)
THEOREM WakeupsSuffice == Spec => []NoLostWakeup
  BY Invariance, PTL DEF Inv

(* The process is closed at most once, and after the session was.          *)
THEOREM ProcessClosedOnce == Spec => []ClosedOnce
  <1>1. Inv => ClosedOnce
    BY DEF Inv, TypeOK, ClosingInv, ClosedOnce
  <1>q. QED  BY <1>1, Invariance, PTL

(* A timer that ends a session has seen it unwatched for the whole delay.  *)
THEOREM TimersAreFair == Spec => IdleForWholeDelay
  <1>1. ASSUME Inv, Next, inHub, ~inHub', timers' # timers
        PROVE  idleFor = Delay /\ watchers = {}
    <2>1. Fire
      BY ZenonT(60), <1>1 DEF Next, Output, Open, Refuse, CloseRequest, Watch, CloseWatchers, ClosePty,
         Tick, Unavailable, Viewer, Stream, Connect, Subscribe, First, Wake, WriteOutput,
         ChannelClosed, Cancel, StartTimer, Heartbeat, Disconnect, Reload, idle, hub
    <2>2. PICK t \in timers : t.age = Delay /\ watchers = {} /\ ~t.overtaken
      BY Zenon, <1>1, <2>1 DEF Fire
    <2>3. t.age <= idleFor /\ idleFor \in 0 .. Delay
      BY <1>1, <2>2 DEF Inv, IdleInv, TypeOK
    <2>q. QED  BY SMTT(30), <2>2, <2>3, SizesAssumption
  <1>2. Inv /\ [Next]_vars =>
            [inHub /\ ~inHub' /\ timers' # timers => idleFor = Delay /\ watchers = {}]_vars
    BY <1>1
  <1>q. QED  BY <1>2, Invariance, PTL DEF Spec, IdleForWholeDelay
=============================================================================
