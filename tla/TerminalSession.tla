-------------------------- MODULE TerminalSession ---------------------------
(***************************************************************************)
(* A browser terminal of runnerd: one session of the terminal hub, the     *)
(* process it shows, the event streams that browsers open on it, the idle  *)
(* timers, and the watcher that ends it with its job or deployment.        *)
(*                                                                         *)
(*   internal/server/server_terminal.go             the hub, the session,  *)
(*                                                  the stream             *)
(*   internal/server/server_deployment_terminal.go  the same session on a  *)
(*                                                  deployment             *)
(*                                                                         *)
(* Output is counted, not spelled out: a position stands for the byte at   *)
(* that offset.  A browser remembers the id of the last event it got and   *)
(* sends it when it connects again (Last-Event-ID).                        *)
(***************************************************************************)
EXTENDS Integers, FiniteSets

CONSTANTS
    Viewers,    \* browsers that may open the event stream
    KeepLen,    \* maxBuffer; the buffer is cut to it when twice as long
    ChanCap,    \* capacity of a watcher's channel
    Chunk,      \* sizes of a piece of output
    Delay,      \* terminalIdleCloseDelay, in ticks
    MaxOut      \* bound on the output of the process

ASSUME SizesAssumption ==
    /\ KeepLen \in Nat \ {0}
    /\ ChanCap \in Nat \ {0}
    /\ Chunk \subseteq Nat \ {0}
    /\ Delay \in Nat
    /\ MaxOut \in Nat

None == -1      \* a nil offset

VARIABLES
    phase,      \* "starting" until StartTerminal returns, "open" or "refused" then
    pending,    \* output that came while the session did not exist yet
    inHub,      \* the hub's map has the session
    closed,     \* session.closed
    closing,    \* what the one who took the session out of the hub has done
    ptyCloses,  \* calls of terminal.Close
    offset,     \* all output so far
    start,      \* offset of the first byte the buffer still has
    replay,     \* session.replayStart
    watchers,   \* viewers whose channel is registered
    chan,       \* wake-ups waiting in each viewer's channel
    conn,       \* where each viewer's stream handler is
    cursor,     \* the handler's cursor
    seen,       \* the viewer's last event id
    shown,      \* positions the viewer has displayed
    bytes,      \* how many bytes the viewer has displayed
    timers,     \* pending idle timers; overtaken: idleSince is after idleBefore
    idleFor,    \* ticks since a viewer was last registered, at most Delay
    available,  \* the sandbox job runs and the account may see it
    watching    \* the watcher goroutine runs

stream == <<watchers, chan, conn, cursor>>
client == <<seen, shown, bytes>>
output == <<offset, start>>
hub == <<inHub, closed, closing, ptyCloses>>
idle == <<timers, idleFor>>
life == <<available, watching>>
vars == <<phase, pending, hub, output, replay, stream, client, idle, life>>

Smaller(m, n) == IF m < n THEN m ELSE n

Timer == [age : 0 .. Delay, overtaken : BOOLEAN]
NewTimer == [age |-> 0, overtaken |-> FALSE]

(* Where a stream handler is: it has found the session ("got"), has        *)
(* subscribed ("first"), waits for wake-ups ("loop"), returns ("ending"),  *)
(* has unsubscribed ("left").                                              *)
Conn == {"off", "got", "first", "loop", "ending", "left"}

TypeOK ==
    /\ phase \in {"starting", "open", "refused"}
    /\ pending \in Nat
    /\ inHub \in BOOLEAN /\ closed \in BOOLEAN
    /\ closing \in {"no", "taken", "told", "done"}
    /\ ptyCloses \in Nat
    /\ offset \in Nat /\ start \in Nat
    /\ replay \in Nat \cup {None}
    /\ watchers \subseteq Viewers
    /\ chan \in [Viewers -> 0 .. ChanCap]
    /\ conn \in [Viewers -> Conn]
    /\ cursor \in [Viewers -> Nat \cup {None}]
    /\ seen \in [Viewers -> Nat \cup {None}]
    /\ shown \in [Viewers -> SUBSET Nat]
    /\ bytes \in [Viewers -> Nat]
    /\ timers \subseteq Timer
    /\ idleFor \in 0 .. Delay
    /\ available \in BOOLEAN /\ watching \in BOOLEAN

Init ==
    /\ phase = "starting" /\ pending = 0
    /\ inHub = FALSE /\ closed = FALSE /\ closing = "no" /\ ptyCloses = 0
    /\ offset = 0 /\ start = 0 /\ replay = None
    /\ watchers = {} /\ chan = [v \in Viewers |-> 0]
    /\ conn = [v \in Viewers |-> "off"] /\ cursor = [v \in Viewers |-> None]
    /\ seen = [v \in Viewers |-> None] /\ shown = [v \in Viewers |-> {}]
    /\ bytes = [v \in Viewers |-> 0]
    /\ timers = {} /\ idleFor = 0
    /\ available = TRUE /\ watching = FALSE

-----------------------------------------------------------------------------
(* The process's output                                                    *)

(* As Append, but nobody is woken up.                                      *)
AppendSilently(n) ==
    /\ offset' = offset + n
    /\ start' = IF offset + n - start > 2 * KeepLen THEN offset + n - KeepLen ELSE start
    /\ UNCHANGED chan

(* session.append: the tail is kept and the watchers are woken up; one     *)
(* whose channel is full is not waited for.                                *)
Append(n) ==
    /\ offset' = offset + n
    /\ start' = IF offset + n - start > 2 * KeepLen THEN offset + n - KeepLen ELSE start
    /\ chan' = [v \in Viewers |-> IF v \in watchers /\ chan[v] < ChanCap
                                  THEN chan[v] + 1 ELSE chan[v]]

(* The callback of StartTerminal, before and after the session exists.     *)
(* A deployment's keeps only the tail of what comes early.                 *)
Output ==
    \E n \in Chunk :
        /\ offset + pending + n <= MaxOut
        /\ \/ /\ phase = "starting"
              /\ pending' \in {pending + n, Smaller(pending + n, KeepLen)}
              /\ UNCHANGED <<output, chan>>
           \/ /\ phase = "open"
              /\ Append(n)
              /\ UNCHANGED pending
        /\ UNCHANGED <<phase, hub, replay, watchers, conn, cursor, client, idle, life>>

(* StartTerminal returns: the session enters the hub, an idle timer starts,*)
(* the output that came early is appended, and the watcher starts.         *)
Open ==
    /\ phase = "starting"
    /\ phase' = "open"
    /\ inHub' = TRUE
    /\ pending' = 0
    /\ IF pending > 0 THEN Append(pending) ELSE UNCHANGED <<output, chan>>
    /\ timers' = {NewTimer}
    /\ idleFor' = 0
    /\ watching' = TRUE
    /\ UNCHANGED <<closed, closing, ptyCloses, replay, watchers, conn, cursor, client, available>>

(* StartTerminal fails, or the deployment changed meanwhile and its        *)
(* process is closed without ever being shown.                             *)
Refuse ==
    /\ phase = "starting"
    /\ phase' = "refused"
    /\ ptyCloses' \in {ptyCloses, ptyCloses + 1}
    /\ UNCHANGED <<pending, inHub, closed, closing, output, replay, stream, client, idle, life>>

-----------------------------------------------------------------------------
(* The event stream                                                        *)

(* The handler finds the session in the hub.                               *)
Connect(v) ==
    /\ conn[v] = "off"
    /\ inHub /\ available
    /\ conn' = [conn EXCEPT ![v] = "got"]
    /\ UNCHANGED <<phase, pending, hub, output, replay, watchers, chan, cursor, client, idle, life>>

(* Subscribe, and the cursor of the Last-Event-ID header.                  *)
Subscribe(v) ==
    /\ conn[v] = "got"
    /\ replay' = IF replay = None THEN start ELSE replay
    /\ watchers' = IF closed THEN watchers ELSE watchers \cup {v}
    /\ chan' = [chan EXCEPT ![v] = 0]
    /\ cursor' = [cursor EXCEPT ![v] = seen[v]]
    /\ conn' = [conn EXCEPT ![v] = "first"]
    /\ UNCHANGED <<phase, pending, hub, output, client, idle, life>>

(* Where outputAfter starts: the cursor, or the first viewer's baseline.   *)
From(v) == IF cursor[v] = None THEN replay ELSE cursor[v]

(* As Retained, but a cursor before the buffer is accepted.                *)
RetainedTail(v) == ~closed /\ From(v) <= offset

(* outputAfter answers only if the buffer still has all that is asked for. *)
Retained(v) == ~closed /\ start <= From(v) /\ From(v) <= offset

(* The browser receives an event with the output from From(v) on.          *)
Deliver(v) ==
    LET first == IF From(v) < start THEN start ELSE From(v) IN
    /\ seen' = [seen EXCEPT ![v] = offset]
    /\ shown' = [shown EXCEPT ![v] = @ \cup (first .. (offset - 1))]
    /\ bytes' = [bytes EXCEPT ![v] = @ + (offset - first)]

(* writeOutput at the start of the stream and after a wake-up.  A write    *)
(* that fails ends the stream; what it carried is lost.                    *)
WriteOutput(v) ==
    /\ \/ Retained(v) /\ From(v) = offset /\ UNCHANGED client
                      /\ conn' = [conn EXCEPT ![v] = "loop"]
       \/ Retained(v) /\ From(v) < offset /\ Deliver(v)
                      /\ conn' = [conn EXCEPT ![v] = "loop"]
       \/ Retained(v) /\ From(v) < offset /\ UNCHANGED client
                      /\ conn' = [conn EXCEPT ![v] = "ending"]
       \/ ~Retained(v) /\ UNCHANGED client
                       /\ conn' = [conn EXCEPT ![v] = "ending"]
    /\ cursor' = [cursor EXCEPT ![v] = IF Retained(v) THEN offset ELSE @]
    /\ UNCHANGED <<phase, pending, hub, output, replay, watchers, idle, life>>

First(v) ==
    /\ conn[v] = "first"
    /\ WriteOutput(v)
    /\ UNCHANGED chan

(* A wake-up is taken from the channel.                                    *)
Wake(v) ==
    /\ conn[v] = "loop"
    /\ chan[v] > 0
    /\ chan' = [chan EXCEPT ![v] = @ - 1]
    /\ WriteOutput(v)

(* The channel is closed and empty: terminal-closed.                       *)
ChannelClosed(v) ==
    /\ conn[v] = "loop"
    /\ chan[v] = 0
    /\ v \notin watchers
    /\ conn' = [conn EXCEPT ![v] = "ending"]
    /\ UNCHANGED <<phase, pending, hub, output, replay, watchers, chan, cursor, client, idle, life>>

(* The heartbeat carries the cursor as its id.                             *)
Heartbeat(v) ==
    /\ conn[v] = "loop"
    /\ seen' = [seen EXCEPT ![v] = cursor[v]]
    /\ UNCHANGED <<phase, pending, hub, output, replay, stream, shown, bytes, idle, life>>

(* The request ends: the browser left, or the header or a heartbeat could  *)
(* not be written.                                                         *)
Disconnect(v) ==
    /\ \/ conn[v] = "got" /\ conn' = [conn EXCEPT ![v] = "off"]
       \/ conn[v] \in {"first", "loop"} /\ conn' = [conn EXCEPT ![v] = "ending"]
    /\ UNCHANGED <<phase, pending, hub, output, replay, watchers, chan, cursor, client, idle, life>>

(* As Cancel, but idleSince is not renewed.                                *)
CancelQuietly(v) ==
    /\ conn[v] = "ending"
    /\ conn' = [conn EXCEPT ![v] = "left"]
    /\ watchers' = watchers \ {v}
    /\ chan' = [chan EXCEPT ![v] = 0]
    /\ cursor' = [cursor EXCEPT ![v] = None]
    /\ idleFor' = IF watchers = {v} THEN 0 ELSE idleFor
    /\ UNCHANGED <<phase, pending, hub, output, replay, client, timers, life>>

(* The deferred cancel.  The last watcher to leave sets idleSince, which   *)
(* overtakes the timers that run.                                          *)
Cancel(v) ==
    /\ conn[v] = "ending"
    /\ conn' = [conn EXCEPT ![v] = "left"]
    /\ watchers' = watchers \ {v}
    /\ chan' = [chan EXCEPT ![v] = 0]
    /\ cursor' = [cursor EXCEPT ![v] = None]
    /\ IF watchers = {v}
       THEN /\ timers' = {[t EXCEPT !.overtaken = TRUE] : t \in timers}
            /\ idleFor' = 0
       ELSE UNCHANGED idle
    /\ UNCHANGED <<phase, pending, hub, output, replay, client, life>>

(* CloseSessionWhenIdle after the cancel.                                  *)
StartTimer(v) ==
    /\ conn[v] = "left"
    /\ conn' = [conn EXCEPT ![v] = "off"]
    /\ timers' = timers \cup {NewTimer}
    /\ UNCHANGED <<phase, pending, hub, output, replay, watchers, chan, cursor, client, idleFor, life>>

(* A client starts afresh, without a last event id.                        *)
Reload(v) ==
    /\ conn[v] = "off"
    /\ seen[v] # None
    /\ seen' = [seen EXCEPT ![v] = None]
    /\ shown' = [shown EXCEPT ![v] = {}]
    /\ bytes' = [bytes EXCEPT ![v] = 0]
    /\ UNCHANGED <<phase, pending, hub, output, replay, stream, idle, life>>

-----------------------------------------------------------------------------
(* The end of the session                                                  *)

(* As Take, but the session stays in the map.                              *)
TakeLeaves ==
    /\ inHub
    /\ UNCHANGED inHub
    /\ closing' = "taken"

(* CloseSession: whoever takes the session out of the map closes it.       *)
Take ==
    /\ inHub
    /\ inHub' = FALSE
    /\ closing' = "taken"

(* A viewer closes the terminal, or a handler finds it unavailable.        *)
CloseRequest ==
    /\ Take
    /\ UNCHANGED <<phase, pending, closed, ptyCloses, output, replay, stream, client, idle, life>>

(* As Watch, but the watcher leaves the session behind.                    *)
WatchLeaves ==
    /\ watching
    /\ ~inHub \/ ~available
    /\ watching' = FALSE
    /\ UNCHANGED <<phase, pending, hub, output, replay, stream, client, idle, available>>

(* The watcher's tick: it ends with the session, and ends the session with *)
(* the job, the deployment, the access or runnerd.                         *)
Watch ==
    /\ watching
    /\ \/ /\ inHub /\ ~available
          /\ Take
       \/ /\ ~inHub
          /\ UNCHANGED <<inHub, closing>>
    /\ watching' = FALSE
    /\ UNCHANGED <<phase, pending, closed, ptyCloses, output, replay, stream, client, idle, available>>

(* closeWatchers.                                                          *)
CloseWatchers ==
    /\ closing = "taken"
    /\ closing' = "told"
    /\ closed' = TRUE
    /\ watchers' = IF closed THEN watchers ELSE {}
    /\ UNCHANGED <<phase, pending, inHub, ptyCloses, output, replay, chan, conn, cursor, client, idle, life>>

(* terminal.Close.                                                         *)
ClosePty ==
    /\ closing = "told"
    /\ closing' = "done"
    /\ ptyCloses' = ptyCloses + 1
    /\ UNCHANGED <<phase, pending, inHub, closed, output, replay, stream, client, idle, life>>

(* An idle timer fires: closeSessionIfIdle.                                *)
Fire ==
    \E t \in timers :
        /\ t.age = Delay
        /\ timers' = timers \ {t}
        /\ IF inHub /\ ~closed /\ watchers = {} /\ ~t.overtaken
           THEN inHub' = FALSE /\ closed' = TRUE /\ closing' = "told"
           ELSE UNCHANGED <<inHub, closed, closing>>
        /\ UNCHANGED <<phase, pending, ptyCloses, output, replay, stream, client, idleFor, life>>

(* Time passes: a timer that is due fires sooner or later.                 *)
Tick ==
    /\ phase = "open"
    /\ timers' = {[t EXCEPT !.age = IF @ < Delay THEN @ + 1 ELSE @] : t \in timers}
    /\ idleFor' = IF watchers = {} /\ idleFor < Delay THEN idleFor + 1 ELSE idleFor
    /\ UNCHANGED <<phase, pending, hub, output, replay, stream, client, life>>

(* The job or deployment ends, access is revoked, or runnerd shuts down.   *)
Unavailable ==
    /\ available
    /\ available' = FALSE
    /\ UNCHANGED <<phase, pending, hub, output, replay, stream, client, idle, watching>>

-----------------------------------------------------------------------------
Stream(v) ==
    \/ Subscribe(v) \/ First(v) \/ Wake(v) \/ ChannelClosed(v)
    \/ Cancel(v) \/ StartTimer(v)

Viewer(v) == Connect(v) \/ Stream(v) \/ Heartbeat(v) \/ Disconnect(v) \/ Reload(v)

Next ==
    \/ Output \/ Open \/ Refuse
    \/ \E v \in Viewers : Viewer(v)
    \/ CloseRequest \/ Watch \/ CloseWatchers \/ ClosePty \/ Fire
    \/ Tick \/ Unavailable

Spec == Init /\ [][Next]_vars

(* Goroutines and timers of runnerd run, and time passes.                  *)
Fairness ==
    /\ WF_vars(Open \/ Refuse)
    /\ \A v \in Viewers : WF_vars(Stream(v))
    /\ WF_vars(Watch)
    /\ WF_vars(CloseWatchers \/ ClosePty)
    /\ WF_vars(Fire)
    /\ WF_vars(Tick)

FairSpec == Spec /\ Fairness

-----------------------------------------------------------------------------
(* Properties                                                              *)

(* What a browser displays is the output from the baseline on, without a   *)
(* gap and without a repetition, however often it connected again and      *)
(* whatever the buffer has dropped meanwhile.                              *)
ExactOutput ==
    \A v \in Viewers :
        IF seen[v] = None THEN shown[v] = {} /\ bytes[v] = 0
        ELSE /\ replay # None
             /\ shown[v] = replay .. (seen[v] - 1)
             /\ bytes[v] = seen[v] - replay

(* No wake-up is lost: a stream that waits and has not sent all the output *)
(* has a wake-up in its channel, though a full channel drops wake-ups.     *)
NoLostWakeup ==
    \A v \in watchers : conn[v] = "loop" /\ cursor[v] < offset => chan[v] > 0

(* The process is closed once, by the one who took the session from the    *)
(* hub, and only after the session refuses new watchers.                   *)
ClosedOnce ==
    /\ ptyCloses <= 1
    /\ ptyCloses = 1 => phase = "refused" \/ (~inHub /\ closed)

(* An idle timer ends a session only if nobody watched it for the whole    *)
(* delay: a timer from an earlier disconnection does not cut it short.     *)
IdleForWholeDelay ==
    [][inHub /\ ~inHub' /\ timers' # timers => idleFor = Delay /\ watchers = {}]_vars

(* A terminal nobody watches any more, or whose job has ended, is closed.  *)
AbandonedCloses ==
    phase = "open" /\ (watchers = {} \/ ~available)
        ~> ptyCloses = 1 \/ (watchers # {} /\ available)

(* A stream catches up with the output or ends.                            *)
CatchesUp ==
    \A v \in Viewers :
        conn[v] = "loop" /\ cursor[v] < offset ~> conn[v] # "loop" \/ cursor[v] = offset
=============================================================================
