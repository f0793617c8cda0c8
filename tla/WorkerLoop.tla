------------------------------ MODULE WorkerLoop ------------------------------
(***************************************************************************)
(* A worker (cmd/worker/main.go), its stream, and the handler of the       *)
(* stream at the coordinator (internal/worker/worker.go).  Time advances   *)
(* by the period of the request ticker.  Sending blocks while the window   *)
(* of the direction is full: UpWindow and DownWindow messages.             *)
(***************************************************************************)
EXTENDS Naturals, Sequences, FiniteSets

CONSTANTS
    Tasks, Execs,           \* tasks, execution ids
    Capacity,               \* --capacity
    UpWindow, DownWindow,   \* messages in flight in each direction
    WaitTime,               \* the NoTask wait, in request periods
    HeartbeatPeriod,        \* in request periods
    Skew,                   \* how far the worker's clock is behind
    MaxBreaks               \* bound on the streams that break

ASSUME WorkerAssumption ==
    /\ {Capacity, UpWindow, DownWindow, WaitTime, HeartbeatPeriod} \subseteq Nat \ {0}
    /\ Skew \in Nat /\ MaxBreaks \in Nat

VARIABLES
    link,       \* "up", "broken" (not noticed yet), "down", "gone" (crashed)
    breaks,     \* streams that broke
    up, down,   \* messages in flight
    sending,    \* the message runOnce is sending, or none: at most one
    reqDue,     \* a tick of the request ticker is pending
    hbIn,       \* time to the next tick of the heartbeat ticker
    hbDue,      \* a tick of the heartbeat ticker is pending
    sleep,      \* what is left of recvLoop's sleep
    running,    \* w.running: task ids
    execs,      \* executeTask goroutines: task, execution, stage, stream lost
    reply       \* the message the handler is sending: at most one

streamVars == <<link, breaks, up, down>>
workerVars == <<sending, reqDue, hbIn, hbDue, sleep, running, execs>>
loopVars == <<link, breaks, up, down, sending, reqDue, hbIn, hbDue, sleep, running, execs, reply>>

Request == [kind |-> "request"]
Heartbeat(age) == [kind |-> "heartbeat", age |-> age]
Result(e) == [kind |-> "result", task |-> e.task, exec |-> e.exec]
NoTask == [kind |-> "none"]
Assignment(t, x) == [kind |-> "task", task |-> t, exec |-> x]

LoopInit ==
    /\ link = "up" /\ breaks = 0
    /\ up = <<>> /\ down = <<>>
    /\ sending = {} /\ reply = {}
    /\ reqDue = FALSE /\ hbDue = FALSE /\ hbIn = HeartbeatPeriod
    /\ sleep = 0
    /\ running = {} /\ execs = {}

\* Send on the stream of runOnce: it blocks while the window is full, and
\* returns io.EOF, which runOnce ignores, when the stream is broken.
Send(msg) ==
    LET accepted == link = "up" /\ Len(up) < UpWindow IN
    /\ up' = IF accepted THEN Append(up, msg) ELSE up
    /\ sending' = IF accepted \/ link = "broken" THEN {} ELSE {msg}
-----------------------------------------------------------------------------
(* runOnce. *)

Looping == link \in {"up", "broken"} /\ sending = {}

SelectHeartbeat ==
    /\ Looping /\ hbDue
    /\ hbDue' = FALSE
    /\ Send(Heartbeat(Skew))
    /\ UNCHANGED <<link, breaks, down, reqDue, hbIn, sleep, running, execs, reply>>

SelectRequest ==
    /\ Looping /\ reqDue
    /\ reqDue' = FALSE
    /\ IF Cardinality(running) < Capacity
       THEN Send(Request)
       ELSE UNCHANGED <<up, sending>>
    /\ UNCHANGED <<link, breaks, down, hbIn, hbDue, sleep, running, execs, reply>>

\* A Send that blocked gets its place in the window.
CanSend(lost) == lost \/ Len(up) < UpWindow

FinishSend ==
    \E msg \in sending :
        /\ CanSend(link = "broken")
        /\ Send(msg)
        /\ UNCHANGED <<link, breaks, down, reqDue, hbIn, hbDue, sleep, running, execs, reply>>
-----------------------------------------------------------------------------
(* recvLoop. *)

Receiving == link = "up" /\ sleep = 0 /\ down # <<>>

RecvNoTask ==
    /\ Receiving /\ Head(down) = NoTask
    /\ sleep' = WaitTime
    /\ down' = Tail(down)
    /\ UNCHANGED <<link, breaks, up, sending, reqDue, hbIn, hbDue, running, execs, reply>>

\* The task is executed by a goroutine of its own.
InlineAssignment ==
    /\ Receiving /\ Head(down).kind = "task"
    /\ execs = {}
    /\ execs' = {[task |-> Head(down).task, exec |-> Head(down).exec,
                  stage |-> "new", lost |-> FALSE]}
    /\ down' = Tail(down)
    /\ UNCHANGED <<link, breaks, up, sending, reqDue, hbIn, hbDue, sleep, running, reply>>
RecvAssignment ==
    /\ Receiving /\ Head(down).kind = "task"
    /\ execs' = execs \cup {[task |-> Head(down).task, exec |-> Head(down).exec,
                             stage |-> "new", lost |-> FALSE]}
    /\ down' = Tail(down)
    /\ UNCHANGED <<link, breaks, up, sending, reqDue, hbIn, hbDue, sleep, running, reply>>

\* Recv fails, which ends runOnce; its tickers stop.
RecvError ==
    /\ link = "broken" /\ sleep = 0
    /\ link' = "down"
    /\ sending' = {} /\ reqDue' = FALSE /\ hbDue' = FALSE /\ hbIn' = HeartbeatPeriod
    /\ UNCHANGED <<breaks, up, down, sleep, running, execs, reply>>

\* Run opens a stream after its backoff.
Reconnect ==
    /\ link = "down"
    /\ link' = "up"
    /\ UNCHANGED <<breaks, up, down, workerVars, reply>>
-----------------------------------------------------------------------------
(* executeTask. *)

Moved(e, stage) == (execs \ {e}) \cup {[e EXCEPT !.stage = stage]}

StartTask(e) ==
    /\ link # "gone" /\ e.stage = "new"
    /\ running' = running \cup {e.task}
    /\ execs' = Moved(e, "run")
    /\ UNCHANGED <<streamVars, sending, reqDue, hbIn, hbDue, sleep, reply>>

FinishTask(e) ==
    /\ link # "gone" /\ e.stage = "run"
    /\ execs' = Moved(e, "send")
    /\ UNCHANGED <<streamVars, sending, reqDue, hbIn, hbDue, sleep, running, reply>>

\* The result is sent on the stream of the assignment or lost with it; the
\* deferred delete follows in both cases.
LeakSendResult(e) ==
    /\ link # "gone" /\ e.stage = "send" /\ CanSend(e.lost)
    /\ up' = IF e.lost THEN up ELSE Append(up, Result(e))
    /\ running' = IF e.lost THEN running ELSE running \ {e.task}
    /\ execs' = execs \ {e}
    /\ UNCHANGED <<link, breaks, down, sending, reqDue, hbIn, hbDue, sleep, reply>>
SendResult(e) ==
    /\ link # "gone" /\ e.stage = "send" /\ CanSend(e.lost)
    /\ up' = IF e.lost THEN up ELSE Append(up, Result(e))
    /\ running' = running \ {e.task}
    /\ execs' = execs \ {e}
    /\ UNCHANGED <<link, breaks, down, sending, reqDue, hbIn, hbDue, sleep, reply>>

WorkerStep ==
    \/ SelectHeartbeat \/ SelectRequest \/ FinishSend
    \/ RecvNoTask \/ RecvAssignment \/ RecvError \/ Reconnect
    \/ \E e \in execs : StartTask(e) \/ FinishTask(e) \/ SendResult(e)
-----------------------------------------------------------------------------
(* HandleStream: a message is taken when the answer to the last is sent. *)

Handling(kind) == reply = {} /\ up # <<>> /\ Head(up).kind = kind

Consumed ==
    /\ up' = Tail(up)
    /\ UNCHANGED <<link, breaks, down, workerVars, reply>>

\* The answer is sent, or waits for the window.
Answered(msg) ==
    /\ up' = Tail(up)
    /\ IF Len(down) < DownWindow
       THEN down' = Append(down, msg) /\ UNCHANGED reply
       ELSE reply' = {msg} /\ UNCHANGED down
    /\ UNCHANGED <<link, breaks, workerVars>>

SendReply ==
    \E msg \in reply :
        /\ Len(down) < DownWindow
        /\ down' = Append(down, msg)
        /\ reply' = {}
        /\ UNCHANGED <<link, breaks, up, workerVars>>
-----------------------------------------------------------------------------
(* The network and the process. *)

\* Everything in flight is lost, and the handler returns with an error.
Disconnected ==
    /\ up' = <<>> /\ down' = <<>> /\ reply' = {}
    /\ execs' = {[e EXCEPT !.lost = TRUE] : e \in execs}

BreakStream ==
    /\ link = "up" /\ breaks < MaxBreaks
    /\ link' = "broken" /\ breaks' = breaks + 1
    /\ Disconnected
    /\ UNCHANGED <<sending, reqDue, hbIn, hbDue, sleep, running>>

CrashWorker ==
    /\ link # "gone"
    /\ link' = "gone"
    /\ up' = <<>> /\ down' = <<>> /\ reply' = {}
    /\ sending' = {} /\ reqDue' = FALSE /\ hbDue' = FALSE /\ hbIn' = HeartbeatPeriod /\ sleep' = 0
    /\ running' = {} /\ execs' = {}
    /\ UNCHANGED breaks

\* Time passes: the tickers of an open stream tick, keeping at most one tick
\* each while runOnce is busy, and recvLoop's sleep goes on.  What time does
\* to the messages on their way is left to the composition.
WorkerTick ==
    /\ sleep' = IF sleep = 0 THEN 0 ELSE sleep - 1
    /\ IF link \in {"up", "broken"}
       THEN /\ reqDue' = TRUE
            /\ hbDue' = (hbDue \/ hbIn = 1)
            /\ hbIn' = IF hbIn = 1 THEN HeartbeatPeriod ELSE hbIn - 1
       ELSE UNCHANGED <<reqDue, hbDue, hbIn>>
    /\ UNCHANGED <<link, breaks, down, running, execs, reply>>

\* Something that takes no time can be done.
LoopBusy ==
    \/ Looping /\ (hbDue \/ reqDue)
    \/ sending # {} /\ CanSend(link = "broken")
    \/ Receiving
    \/ link = "broken" /\ sleep = 0
    \/ \E e \in execs : e.stage = "new" \/ (e.stage = "send" /\ CanSend(e.lost))
    \/ reply = {} /\ up # <<>>
    \/ reply # {} /\ Len(down) < DownWindow
=============================================================================
