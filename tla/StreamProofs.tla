----------------------------- MODULE StreamProofs -----------------------------
(***************************************************************************)
(* Theorems about WorkerStream, for every value of its constants: slots of *)
(* w.running, the time it takes to find a crashed worker, and when a       *)
(* worker that runs can be declared dead.                                  *)
(*                                                                         *)
(*   StreamType  the messages, executions and clocks are what they seem    *)
(*   CrashInv    how old a crashed worker's entry is, and how long the     *)
(*               scan that finds it can still take                         *)
(*   SteadyInv   on an unbroken stream with no backlog an entry is         *)
(*               replaced before it is older than one heartbeat period     *)
(***************************************************************************)
EXTENDS WorkerStream, TLAPS

\* The provers tried at a leaf that names none, in this order.
USE SMTT(30), ZenonT(20), SMTT(40)

UpMessages ==
    {Request} \cup [kind : {"heartbeat"}, age : Nat]
              \cup [kind : {"result"}, task : Tasks, exec : Execs]

DownMessages == {NoTask} \cup [kind : {"task"}, task : Tasks, exec : Execs]

Executions == [task : Tasks, exec : Execs, stage : {"new", "run", "send"}, lost : BOOLEAN]

StreamType ==
    /\ link \in {"up", "broken", "down", "gone"} /\ breaks \in Nat
    /\ up \in Seq(UpMessages) /\ down \in Seq(DownMessages)
    /\ sending \in SUBSET UpMessages /\ reply \in SUBSET DownMessages
    /\ \A m, n \in sending : m = n
    /\ hbDue \in BOOLEAN /\ hbIn \in 1..HeartbeatPeriod
    /\ execs \in SUBSET Executions
    /\ lastHeartbeat \in [Tracked -> Nat] /\ Tracked \subseteq {Worker}
    /\ scanIn \in 0..ScanInterval
    /\ deadWorkers \subseteq {Worker} /\ removing \subseteq {Worker}
    /\ ready \in SUBSET Tasks /\ assigned \in [Tasks -> Execs \cup {None}]
    /\ goneFor \in Nat /\ waited \in BOOLEAN

\* The heartbeats on their way.
Beats == {up[i] : i \in {j \in DOMAIN up : up[j].kind = "heartbeat"}}
             \cup {m \in sending : m.kind = "heartbeat"}

CrashInv ==
    /\ \A m \in Beats : m.age >= Skew
    /\ \A w \in Tracked : lastHeartbeat[w] >= Skew
    /\ goneFor > 0 => link = "gone"
    /\ link = "gone" =>
          /\ up = <<>> /\ sending = {}
          /\ \A w \in Tracked : lastHeartbeat[w] >= MaxAge \/ lastHeartbeat[w] >= Skew + goneFor
    /\ deadWorkers # {} => goneFor <= DetectionTime
    /\ deadWorkers = {} /\ Tracked # {} => goneFor + scanIn <= DetectionTime

\* A worker that heartbeats, on a stream that was never broken and on which
\* no send had to wait.
Steady == link = "up" /\ breaks = 0 /\ ~waited

SteadyInv ==
    /\ breaks = 0 => link \in {"up", "gone"}
    /\ Steady =>
          /\ \A m \in Beats : m.age <= Skew
          /\ \A w \in Tracked : lastHeartbeat[w] <= Skew + HeartbeatPeriod
          /\ ~hbDue /\ Beats = {} =>
                \A w \in Tracked : lastHeartbeat[w] + hbIn <= Skew + HeartbeatPeriod
          /\ deadWorkers = {}
-----------------------------------------------------------------------------
\* The periods are positive, the thresholds natural numbers.
LEMMA Periods ==
    /\ HeartbeatPeriod \in Nat /\ HeartbeatPeriod >= 1 /\ HeartbeatPeriod \in 1..HeartbeatPeriod
    /\ ScanInterval \in Nat /\ ScanInterval >= 1 /\ ScanInterval \in 0..ScanInterval
    /\ Skew \in Nat /\ DeadThreshold \in Nat /\ MaxAge \in Nat /\ MaxAge > DeadThreshold
    /\ DetectionTime \in Nat /\ DetectionTime >= ScanInterval
    /\ DetectionTime + Skew >= DeadThreshold + ScanInterval
<1>1. HeartbeatPeriod \in Nat /\ HeartbeatPeriod # 0
  BY WorkerAssumption
<1> QED
  BY <1>1, WorkerAssumption, MonitorAssumption DEF MaxAge, DetectionTime

(* The messages. *)

\* What runOnce and executeTask send, and what time makes of it.
LEMMA UpFacts ==
    /\ Request \in UpMessages /\ Request.kind = "request"
    /\ \A a \in Nat : /\ Heartbeat(a) \in UpMessages
                      /\ Heartbeat(a).kind = "heartbeat" /\ Heartbeat(a).age = a
    /\ \A e \in Executions : Result(e) \in UpMessages /\ Result(e).kind = "result"
    /\ \A m \in UpMessages : m.kind = "heartbeat" => m.age \in Nat
    /\ \A m \in UpMessages : m.kind = "result" => m.task \in Tasks /\ m.exec \in Execs
BY DEF UpMessages, Request, Heartbeat, Result, Executions

LEMMA AgedFacts ==
    ASSUME NEW m \in UpMessages
    PROVE  /\ Aged(m) \in UpMessages
           /\ Aged(m).kind = m.kind
           /\ m.kind = "heartbeat" => Aged(m).age = Older(m.age)
<1>1. CASE m.kind = "heartbeat"
  <2>1. m.age \in Nat /\ Older(m.age) \in Nat
    BY <1>1, UpFacts, MonitorAssumption DEF Older, MaxAge
  <2> QED
    BY <1>1, <2>1, UpFacts DEF Aged
<1>2. CASE m.kind # "heartbeat"
  BY <1>2 DEF Aged
<1> QED
  BY <1>1, <1>2

LEMMA DownFacts ==
    /\ NoTask \in DownMessages
    /\ \A t \in Tasks, x \in Execs : Assignment(t, x) \in DownMessages
    /\ \A m \in DownMessages : m.kind = "task" => m.task \in Tasks /\ m.exec \in Execs
BY DEF DownMessages, NoTask, Assignment

\* The executions: a new one, and one that moves on or loses its stream.
LEMMA ExecutionFacts ==
    /\ \A t \in Tasks, x \in Execs :
          [task |-> t, exec |-> x, stage |-> "new", lost |-> FALSE] \in Executions
    /\ \A e \in Executions, s \in {"new", "run", "send"} :
          /\ [e EXCEPT !.stage = s] \in Executions
          /\ [e EXCEPT !.stage = s].task = e.task /\ [e EXCEPT !.stage = s].stage = s
    /\ \A e \in Executions :
          /\ [e EXCEPT !.lost = TRUE] \in Executions
          /\ [e EXCEPT !.lost = TRUE].task = e.task
          /\ [e EXCEPT !.lost = TRUE].stage = e.stage
<1>1. \A e \in Executions, s \in {"new", "run", "send"} :
          /\ [e EXCEPT !.stage = s] \in Executions
          /\ [e EXCEPT !.stage = s].task = e.task /\ [e EXCEPT !.stage = s].stage = s
  BY DEF Executions
<1>2. \A e \in Executions :
          /\ [e EXCEPT !.lost = TRUE] \in Executions
          /\ [e EXCEPT !.lost = TRUE].task = e.task
          /\ [e EXCEPT !.lost = TRUE].stage = e.stage
  BY ZenonT(30) DEF Executions
<1>3. \A t \in Tasks, x \in Execs :
          [task |-> t, exec |-> x, stage |-> "new", lost |-> FALSE] \in Executions
  BY DEF Executions
<1> QED
  BY <1>1, <1>2, <1>3

\* A Send keeps the types of the stream and of the message under way.
LEMMA SendType ==
    ASSUME up \in Seq(UpMessages), NEW msg \in UpMessages, Send(msg)
    PROVE  /\ up' \in Seq(UpMessages) /\ sending' \in SUBSET UpMessages
           /\ \A m, n \in sending' : m = n
BY DEF Send

LEMMA TypeInit == Init => StreamType
<1> SUFFICES ASSUME Init PROVE StreamType
  OBVIOUS
<1>1. lastHeartbeat \in [Tracked -> Nat] /\ Tracked \subseteq {Worker}
  BY DEF Init, MonitorInit, Tracked
<1>2. up \in Seq(UpMessages) /\ down \in Seq(DownMessages)
  BY DEF Init, LoopInit
<1>3. assigned \in [Tasks -> Execs \cup {None}]
  BY DEF Init
<1>4. hbIn \in 1..HeartbeatPeriod /\ scanIn \in 0..ScanInterval /\ goneFor \in Nat /\ breaks \in Nat
  BY Periods DEF Init, LoopInit, MonitorInit
<1> QED
  BY ZenonT(30), <1>1, <1>2, <1>3, <1>4 DEF Init, LoopInit, MonitorInit, StreamType

LEMMA WorkerStepType ==
    ASSUME StreamType, WorkerStep, UNCHANGED <<monitorVars, coordVars, clockVars>>
    PROVE  StreamType'
<1> USE DEF StreamType, monitorVars, coordVars, clockVars, Tracked
<1>1. CASE SelectHeartbeat
  <2>1. Heartbeat(Skew) \in UpMessages
    BY UpFacts, WorkerAssumption
  <2> QED
    BY ZenonT(30), <1>1, <2>1, SendType DEF SelectHeartbeat
<1>2. CASE SelectRequest
  <2>1. /\ up' \in Seq(UpMessages) /\ sending' \in SUBSET UpMessages
        /\ \A m, n \in sending' : m = n
    BY <1>2, UpFacts, SendType DEF SelectRequest
  <2> QED
    BY <1>2, <2>1 DEF SelectRequest
<1>3. CASE FinishSend
  BY <1>3, SendType DEF FinishSend
<1>4. CASE RecvNoTask
  BY <1>4 DEF RecvNoTask, Receiving
<1>5. CASE RecvAssignment
  <2>1. Head(down) \in DownMessages /\ Tail(down) \in Seq(DownMessages)
    BY <1>5 DEF RecvAssignment, Receiving
  <2>2. execs' \in SUBSET Executions
    BY <1>5, <2>1, DownFacts, ExecutionFacts DEF RecvAssignment
  <2> QED
    BY <1>5, <2>1, <2>2 DEF RecvAssignment
<1>6. CASE RecvError
  BY ZenonT(30), <1>6, Periods DEF RecvError
<1>7. CASE Reconnect
  BY <1>7 DEF Reconnect, workerVars
<1>8. ASSUME NEW e \in execs, StartTask(e) \/ FinishTask(e)
      PROVE  StreamType'
  <2>1. PICK s \in {"run", "send"} : execs' = (execs \ {e}) \cup {[e EXCEPT !.stage = s]}
    BY <1>8 DEF StartTask, FinishTask, Moved
  <2>2. [e EXCEPT !.stage = s] \in Executions
    BY ZenonT(30), ExecutionFacts
  <2> QED
    BY ZenonT(30), <1>8, <2>1, <2>2 DEF StartTask, FinishTask, streamVars
<1>9. ASSUME NEW e \in execs, SendResult(e)
      PROVE  StreamType'
  <2>1. Result(e) \in UpMessages
    BY UpFacts
  <2> QED
    BY <1>9, <2>1 DEF SendResult
<1> QED
  BY <1>1, <1>2, <1>3, <1>4, <1>5, <1>6, <1>7, <1>8, <1>9 DEF WorkerStep

\* The handler takes the next message.
LEMMA HandlingType ==
    ASSUME StreamType, NEW kind, Handling(kind)
    PROVE  /\ Head(up) \in UpMessages /\ Head(up).kind = kind
           /\ Tail(up) \in Seq(UpMessages) /\ up # <<>>
BY DEF StreamType, Handling

\* An answer keeps the types of what goes down.
LEMMA AnsweredType ==
    ASSUME StreamType, NEW msg \in DownMessages, Answered(msg)
    PROVE  down' \in Seq(DownMessages) /\ reply' \in SUBSET DownMessages
<1>1. \/ down' = Append(down, msg) /\ reply' = reply
      \/ down' = down /\ reply' = {msg}
  BY DEF Answered
<1>2. down \in Seq(DownMessages) /\ reply \in SUBSET DownMessages
  BY DEF StreamType
<1> QED
  BY <1>1, <1>2

LEMMA HandlerType ==
    ASSUME StreamType, StreamStep
    PROVE  StreamType'
<1> USE DEF StreamType, monitorVars, coordVars, clockVars, workerVars, Tracked
<1>1. CASE HandleRequest
  <2>1. up' = Tail(up) /\ UNCHANGED <<link, breaks, workerVars>>
    BY <1>1 DEF HandleRequest, Answered
  <2>2. CASE ready = {} \/ FreshExecs = {}
    BY <1>1, <2>1, <2>2, HandlingType, AnsweredType, DownFacts DEF HandleRequest
  <2>3. CASE ~(ready = {} \/ FreshExecs = {})
    <3>1. PICK t \in ready, x \in FreshExecs :
                /\ Answered(Assignment(t, x))
                /\ ready' = ready \ {t}
                /\ assigned' = [assigned EXCEPT ![t] = x]
      BY <1>1, <2>3 DEF HandleRequest
    <3>2. t \in Tasks /\ x \in Execs /\ Assignment(t, x) \in DownMessages
      BY DownFacts DEF FreshExecs
    <3> QED
      BY <1>1, <2>1, <3>1, <3>2, HandlingType, AnsweredType DEF HandleRequest
  <2> QED
    BY <2>2, <2>3
<1>2. CASE HandleHeartbeat
  <2>1. Head(up).age \in Nat
    BY <1>2, HandlingType, UpFacts DEF HandleHeartbeat
  <2>2. lastHeartbeat' = [v \in Tracked \cup {Worker} |-> IF v = Worker THEN Head(up).age ELSE lastHeartbeat[v]]
    BY <1>2 DEF HandleHeartbeat, UpdateHeartbeat
  <2>3. lastHeartbeat' \in [Tracked' -> Nat] /\ Tracked' \subseteq {Worker}
    BY <2>1, <2>2
  <2> QED
    BY ZenonT(30), <1>2, <2>3, HandlingType DEF HandleHeartbeat, UpdateHeartbeat, Consumed
<1>3. CASE HandleResult
  <2>1. assigned' \in [Tasks -> Execs \cup {None}]
    BY <1>3 DEF HandleResult
  <2> QED
    BY <1>3, <2>1, HandlingType DEF HandleResult, Consumed
<1>4. CASE SendReply /\ UNCHANGED <<monitorVars, coordVars, clockVars>>
  BY <1>4 DEF SendReply
<1>5. CASE WorkerStep /\ UNCHANGED <<monitorVars, coordVars, clockVars>>
  BY <1>5, WorkerStepType
<1> HIDE DEF StreamType, monitorVars, coordVars, clockVars, workerVars, Tracked
<1> QED
  BY <1>1, <1>2, <1>3, <1>4, <1>5 DEF StreamStep

LEMMA MonitorType ==
    ASSUME StreamType, MonitorStep
    PROVE  StreamType'
<1> USE DEF StreamType, loopVars, coordVars, clockVars, Tracked
<1>1. CASE RequeueDead
  <2>1. assigned' \in [Tasks -> Execs \cup {None}]
    BY <1>1 DEF RequeueDead
  <2>2. lastHeartbeat' \in [Tracked' -> Nat] /\ Tracked' \subseteq {Worker}
    BY <1>1 DEF RequeueDead, HandleDeadWorker, Untracked
  <2> QED
    BY <1>1, <2>1, <2>2 DEF RequeueDead, HandleDeadWorker
<1>2. CASE Scan /\ UNCHANGED <<loopVars, coordVars, clockVars>>
  BY <1>2, Periods DEF Scan, GetDeadWorkers
<1>3. CASE DeleteDeadWorker(Worker) /\ UNCHANGED <<loopVars, coordVars, clockVars>>
  <2>1. lastHeartbeat' \in [Tracked' -> Nat] /\ Tracked' \subseteq {Worker}
    BY <1>3 DEF DeleteDeadWorker, Untracked
  <2> QED
    BY <1>3, <2>1 DEF DeleteDeadWorker
<1> QED
  BY <1>1, <1>2, <1>3 DEF MonitorStep

LEMMA OlderType == \A a \in Nat : Older(a) \in Nat /\ Older(a) >= a /\ Older(a) <= a + 1
BY Periods DEF Older

LEMMA TickType ==
    ASSUME StreamType, Tick
    PROVE  StreamType'
<1>1. up' \in Seq(UpMessages) /\ sending' \in SUBSET UpMessages
  <2>1. \A i \in 1..Len(up) : Aged(up[i]) \in UpMessages
    BY AgedFacts DEF StreamType
  <2>2. up' = [i \in 1..Len(up) |-> Aged(up[i])] /\ Len(up) \in Nat
    BY DEF Tick, StreamType
  <2>3. sending' \in SUBSET UpMessages
    BY AgedFacts DEF Tick, StreamType
  <2> QED
    BY <2>1, <2>2, <2>3
<1>2. lastHeartbeat' \in [Tracked' -> Nat] /\ Tracked' \subseteq {Worker}
  BY OlderType DEF Tick, MonitorTick, StreamType, Tracked
<1>3. hbDue' \in BOOLEAN /\ hbIn' \in 1..HeartbeatPeriod
  <2>1. hbIn' = hbIn \/ hbIn' = HeartbeatPeriod \/ (hbIn # 1 /\ hbIn' = hbIn - 1)
    BY DEF Tick, WorkerTick
  <2>2. hbIn' \in 1..HeartbeatPeriod
    BY <2>1, Periods DEF StreamType
  <2>3. hbDue' \in BOOLEAN
    BY ZenonT(30) DEF Tick, WorkerTick, StreamType
  <2> QED
    BY <2>2, <2>3
<1>4. scanIn' \in 0..ScanInterval /\ goneFor' \in Nat
  BY Periods DEF Tick, MonitorTick, StreamType
<1>5. waited' \in BOOLEAN
  BY DEF Tick
<1> QED
  BY <1>1, <1>2, <1>3, <1>4, <1>5 DEF Tick, WorkerTick, MonitorTick, coordVars, StreamType

LEMMA FaultType ==
    ASSUME StreamType, Fault
    PROVE  StreamType'
<1> USE DEF StreamType, monitorVars, coordVars, clockVars, Tracked
<1>1. CASE BreakStream
  <2>1. \A e \in execs : [e EXCEPT !.lost = TRUE] \in Executions
    BY ZenonT(30), ExecutionFacts
  <2>2. execs' \in SUBSET Executions
    BY <1>1, <2>1 DEF BreakStream, Disconnected
  <2>3. up' \in Seq(UpMessages) /\ down' \in Seq(DownMessages) /\ breaks' \in Nat
    BY <1>1 DEF BreakStream, Disconnected
  <2> QED
    BY ZenonT(30), <1>1, <2>2, <2>3 DEF BreakStream, Disconnected, Fault
<1>2. CASE CrashWorker
  <2>1. up' \in Seq(UpMessages) /\ down' \in Seq(DownMessages)
    BY <1>2 DEF CrashWorker
  <2> QED
    BY ZenonT(30), <1>2, <2>1, Periods DEF CrashWorker, Fault
<1> QED
  BY <1>1, <1>2 DEF Fault

LEMMA TypeNext ==
    ASSUME StreamType, [Next]_vars
    PROVE  StreamType'
<1>1. CASE StreamStep
  BY <1>1, HandlerType
<1>2. CASE MonitorStep
  BY <1>2, MonitorType
<1>3. CASE Tick
  BY <1>3, TickType
<1>4. CASE Fault
  BY <1>4, FaultType
<1>5. ASSUME NEW t \in Tasks, SubmitTask(t) PROVE StreamType'
  BY <1>5 DEF SubmitTask, StreamType, loopVars, monitorVars, clockVars, Tracked
<1>6. CASE UNCHANGED vars
  BY <1>6 DEF vars, StreamType, loopVars, monitorVars, coordVars, clockVars, Tracked
<1> QED
  BY <1>1, <1>2, <1>3, <1>4, <1>5, <1>6 DEF Next
-----------------------------------------------------------------------------
(* The slots of w.running. *)

\* Only three steps of executeTask, the arrival of an assignment and a fault
\* change the executions or the slots.
LEMMA SlotNext ==
    ASSUME StreamType, NoSlotLeak, [Next]_vars
    PROVE  NoSlotLeak'
<1> USE DEF NoSlotLeak
<1>1. CASE UNCHANGED <<running, execs>>
  BY <1>1
<1>2. ASSUME NEW e \in execs, StartTask(e) \/ FinishTask(e)
      PROVE  NoSlotLeak'
  <2>1. PICK s \in {"run", "send"} : execs' = (execs \ {e}) \cup {[e EXCEPT !.stage = s]}
    BY <1>2 DEF StartTask, FinishTask, Moved
  <2>2. e \in Executions /\ s # "new"
    BY DEF StreamType
  <2>3. [e EXCEPT !.stage = s].task = e.task /\ [e EXCEPT !.stage = s].stage # "new"
    BY <2>2, ExecutionFacts
  <2>4. running' \subseteq running \cup {e.task}
    BY <1>2 DEF StartTask, FinishTask
  <2> QED
    BY ZenonT(30), <2>1, <2>3, <2>4
<1>3. ASSUME NEW e \in execs, SendResult(e)
      PROVE  NoSlotLeak'
  BY <1>3 DEF SendResult
<1>4. CASE RecvAssignment
  BY <1>4 DEF RecvAssignment
<1>5. CASE BreakStream
  <2>1. \A e \in execs : [e EXCEPT !.lost = TRUE].task = e.task /\ [e EXCEPT !.lost = TRUE].stage = e.stage
    BY ZenonT(30), ExecutionFacts DEF StreamType
  <2>2. execs' = {[e EXCEPT !.lost = TRUE] : e \in execs} /\ running' = running
    BY <1>5 DEF BreakStream, Disconnected
  <2>3. ASSUME NEW t \in running
        PROVE  \E f \in execs' : f.stage # "new" /\ f.task = t
    <3>1. PICK e \in execs : e.stage # "new" /\ e.task = t
      OBVIOUS
    <3>2. [e EXCEPT !.lost = TRUE] \in execs'
      BY ZenonT(30), <2>2
    <3> QED
      BY ZenonT(30), <2>1, <3>1, <3>2
  <2> QED
    BY <2>2, <2>3
<1>6. CASE CrashWorker
  BY <1>6 DEF CrashWorker
<1>7. CASE WorkerStep
  <2>1. CASE SelectHeartbeat \/ SelectRequest \/ FinishSend \/ RecvNoTask \/ RecvError \/ Reconnect
    BY <2>1, <1>1 DEF SelectHeartbeat, SelectRequest, FinishSend, RecvNoTask, RecvError, Reconnect, workerVars
  <2> QED
    BY <1>2, <1>3, <1>4, <1>7, <2>1 DEF WorkerStep
<1>8. CASE StreamStep
  <2>1. CASE HandleRequest \/ HandleHeartbeat \/ HandleResult \/ SendReply
    BY <2>1, <1>1 DEF HandleRequest, Answered, HandleHeartbeat, HandleResult, Consumed, SendReply, workerVars
  <2> QED
    BY <1>7, <1>8, <2>1 DEF StreamStep
<1>9. CASE MonitorStep
  BY <1>9, <1>1 DEF MonitorStep, RequeueDead, loopVars
<1>10. CASE Tick
  BY <1>10, <1>1 DEF Tick, WorkerTick
<1>11. ASSUME NEW t \in Tasks, SubmitTask(t) PROVE NoSlotLeak'
  BY <1>11, <1>1 DEF SubmitTask, loopVars
<1>12. CASE UNCHANGED vars
  BY <1>12, <1>1 DEF vars, loopVars
<1> QED
  BY <1>5, <1>6, <1>8, <1>9, <1>10, <1>11, <1>12 DEF Next, Fault

\* executeTask gives its slot back however it ends: every entry of w.running
\* belongs to an execution that is under way.
THEOREM SlotsAreReturned == StreamSpec => []NoSlotLeak
<1>1. Init => NoSlotLeak
  BY DEF Init, LoopInit, NoSlotLeak
<1> QED
  BY <1>1, TypeInit, TypeNext, SlotNext, PTL DEF StreamSpec
-----------------------------------------------------------------------------
(* The heartbeats on their way. *)

LEMMA BeatsMember ==
    /\ \A m : m \in Beats <=> m.kind = "heartbeat" /\ (m \in sending \/ \E i \in DOMAIN up : up[i] = m)
    /\ \A m : m \in Beats' <=> m.kind = "heartbeat" /\ (m \in sending' \/ \E i \in DOMAIN up' : up'[i] = m)
BY DEF Beats

\* Sending adds the message and drops none while the stream is up.
LEMMA SendBeats ==
    ASSUME StreamType, NEW msg \in UpMessages, Send(msg), sending \subseteq {msg}
    PROVE  /\ \A m \in Beats' : m \in Beats \/ (m = msg /\ msg.kind = "heartbeat")
           /\ link = "up" => \A m \in Beats : m \in Beats'
           /\ link = "up" /\ msg.kind = "heartbeat" => msg \in Beats'
<1>1. up \in Seq(UpMessages)
  BY DEF StreamType
<1>2. CASE up' = Append(up, msg) /\ sending' = {}
  <2>1. Len(up) \in Nat /\ DOMAIN up = 1..Len(up) /\ DOMAIN up' = 1..(Len(up) + 1)
    BY <1>1, <1>2
  <2>2. \A i \in DOMAIN up' : up'[i] = IF i = Len(up) + 1 THEN msg ELSE up[i]
    BY <1>1, <1>2
  <2>3. \A i \in DOMAIN up : i \in DOMAIN up' /\ up'[i] = up[i]
    BY <2>1, <2>2
  <2>4. Len(up) + 1 \in DOMAIN up' /\ up'[Len(up) + 1] = msg
    BY <2>1, <2>2
  <2>5. ASSUME NEW i \in DOMAIN up', up'[i] # msg
        PROVE  i \in DOMAIN up /\ up'[i] = up[i]
    BY <2>1, <2>2, <2>5
  <2>6. ASSUME NEW m \in Beats'
        PROVE  m \in Beats \/ (m = msg /\ msg.kind = "heartbeat")
    <3>1. m.kind = "heartbeat" /\ \E i \in DOMAIN up' : up'[i] = m
      BY ZenonT(30), <1>2, <2>6, BeatsMember
    <3>2. m # msg => \E i \in DOMAIN up : up[i] = m
      BY <3>1, <2>5
    <3> QED
      BY ZenonT(30), <3>1, <3>2, BeatsMember
  <2>7. ASSUME NEW m \in Beats
        PROVE  m \in Beats'
    <3>1. m.kind = "heartbeat" /\ (m = msg \/ \E i \in DOMAIN up : up[i] = m)
      BY ZenonT(30), <2>7, BeatsMember
    <3>2. \E i \in DOMAIN up' : up'[i] = m
      BY <3>1, <2>3, <2>4
    <3> QED
      BY ZenonT(30), <3>1, <3>2, BeatsMember
  <2>8. msg.kind = "heartbeat" => msg \in Beats'
    BY <2>4, BeatsMember
  <2> QED
    BY <2>6, <2>7, <2>8
<1>3. CASE up' = up /\ sending' = {msg}
  BY ZenonT(30), <1>3, BeatsMember
<1>4. CASE up' = up /\ sending' = {} /\ link # "up"
  BY ZenonT(30), <1>4, BeatsMember
<1> QED
  BY <1>2, <1>3, <1>4 DEF Send

\* Taking the first message off the stream loses only that one.
LEMMA TailBeats ==
    ASSUME StreamType, up # <<>>, up' = Tail(up), sending' = sending
    PROVE  /\ \A m \in Beats' : m \in Beats
           /\ \A m \in Beats : m \in Beats' \/ m = Head(up)
<1>1. up \in Seq(UpMessages) /\ Len(up) \in Nat \ {0} /\ DOMAIN up = 1..Len(up)
  BY DEF StreamType
<1>2. DOMAIN up' = 1..(Len(up) - 1) /\ \A i \in DOMAIN up' : up'[i] = up[i + 1]
  BY <1>1
<1>3. \A i \in DOMAIN up' : i + 1 \in DOMAIN up /\ up[i + 1] = up'[i]
  BY <1>1, <1>2
<1>4. \A i \in DOMAIN up : up[i] = Head(up) \/ \E j \in DOMAIN up' : up'[j] = up[i]
  <2> SUFFICES ASSUME NEW i \in DOMAIN up, i # 1 PROVE \E j \in DOMAIN up' : up'[j] = up[i]
    BY <1>1
  <2>1. i - 1 \in DOMAIN up' /\ up'[i - 1] = up[i]
    BY <1>1, <1>2
  <2> QED
    BY <2>1
<1>5. ASSUME NEW m \in Beats' PROVE m \in Beats
  <2>1. m.kind = "heartbeat" /\ (m \in sending \/ \E i \in DOMAIN up' : up'[i] = m)
    BY ZenonT(30), <1>5, BeatsMember
  <2>2. m \in sending \/ \E i \in DOMAIN up : up[i] = m
    BY <1>3, <2>1
  <2> QED
    BY ZenonT(30), <2>1, <2>2, BeatsMember
<1>6. ASSUME NEW m \in Beats PROVE m \in Beats' \/ m = Head(up)
  BY ZenonT(30), <1>4, <1>6, BeatsMember
<1> QED
  BY <1>5, <1>6

\* A request or a result is taken: the monitor and the clocks are left alone.
LEMMA PlainHandling ==
    ASSUME StreamType, HandleRequest \/ HandleResult
    PROVE  /\ up # <<>> /\ up' = Tail(up) /\ Head(up).kind # "heartbeat"
           /\ UNCHANGED <<link, breaks, sending, hbDue, hbIn>>
           /\ UNCHANGED <<lastHeartbeat, scanIn, deadWorkers, goneFor, waited>>
<1>1. CASE HandleRequest
  <2>1. up' = Tail(up) /\ UNCHANGED <<link, breaks, workerVars>>
    BY <1>1 DEF HandleRequest, Answered
  <2>2. UNCHANGED <<monitorVars, clockVars>>
    BY <1>1 DEF HandleRequest
  <2>3. up # <<>> /\ Head(up).kind = "request"
    BY <1>1 DEF HandleRequest, Handling
  <2> QED
    BY <2>1, <2>2, <2>3 DEF workerVars, monitorVars, clockVars
<1>2. CASE HandleResult
  <2>1. up' = Tail(up) /\ UNCHANGED <<link, breaks, workerVars>>
    BY <1>2 DEF HandleResult, Consumed
  <2>2. UNCHANGED <<monitorVars, clockVars>>
    BY <1>2 DEF HandleResult
  <2>3. up # <<>> /\ Head(up).kind = "result"
    BY <1>2 DEF HandleResult, Handling
  <2> QED
    BY <2>1, <2>2, <2>3 DEF workerVars, monitorVars, clockVars
<1> QED
  BY <1>1, <1>2

\* A step that leaves the messages alone.
LEMMA SameBeats == UNCHANGED <<up, sending>> => Beats' = Beats
BY DEF Beats

\* A result on its way is no heartbeat.
LEMMA ResultBeats ==
    ASSUME StreamType, NEW e \in execs, SendResult(e)
    PROVE  Beats' = Beats
<1>1. Result(e) \in UpMessages /\ Result(e).kind = "result"
  BY UpFacts DEF StreamType
<1>2. CASE up' = up
  BY <1>2, SameBeats DEF SendResult
<1>3. CASE up' = Append(up, Result(e))
  <2>1. up \in Seq(UpMessages) /\ sending' = sending
    BY DEF StreamType, SendResult
  <2>2. \A i \in DOMAIN up : i \in DOMAIN up' /\ up'[i] = up[i]
    BY <1>3, <2>1
  <2>3. ASSUME NEW i \in DOMAIN up', up'[i].kind = "heartbeat"
        PROVE  i \in DOMAIN up /\ up'[i] = up[i]
    BY <1>1, <1>3, <2>1, <2>3
  <2>4. \A m : m \in Beats' <=> m \in Beats
    <3>1. ASSUME NEW m, m.kind = "heartbeat"
          PROVE  (\E i \in DOMAIN up' : up'[i] = m) <=> \E i \in DOMAIN up : up[i] = m
      BY ZenonT(30), <2>2, <2>3, <3>1
    <3> QED
      BY ZenonT(30), <2>1, <3>1, BeatsMember
  <2> QED
    BY ZenonT(30), <2>4
<1> QED
  BY <1>2, <1>3 DEF SendResult

\* Time makes every heartbeat older and adds none.
LEMMA AgedBeats ==
    ASSUME StreamType, Tick
    PROVE  /\ \A m \in Beats' : \E n \in Beats : n.age \in Nat /\ m.age = Older(n.age)
           /\ up = <<>> /\ sending = {} => up' = <<>> /\ sending' = {}
<1>1. ASSUME NEW m \in UpMessages, m.kind = "heartbeat"
      PROVE  m.age \in Nat /\ Aged(m).age = Older(m.age)
  BY <1>1, UpFacts, AgedFacts
<1>2. /\ DOMAIN up' = DOMAIN up
      /\ \A i \in DOMAIN up : up[i] \in UpMessages /\ up'[i] = Aged(up[i]) /\ up'[i].kind = up[i].kind
  BY AgedFacts DEF Tick, StreamType
<1>3. \A m \in sending' : \E n \in sending : n \in UpMessages /\ m = Aged(n) /\ m.kind = n.kind
  BY AgedFacts DEF Tick, StreamType
<1>4. ASSUME NEW m \in Beats'
      PROVE  \E n \in Beats : n.age \in Nat /\ m.age = Older(n.age)
  <2>1. CASE m \in sending'
    <3>1. PICK n \in sending : n \in UpMessages /\ m = Aged(n) /\ m.kind = n.kind
      BY <1>3, <2>1
    <3>2. m.kind = "heartbeat" /\ n \in Beats
      BY ZenonT(30), <3>1, <1>4, BeatsMember
    <3> QED
      BY ZenonT(30), <3>1, <3>2, <1>1
  <2>2. CASE \E i \in DOMAIN up' : up'[i] = m
    <3>1. PICK i \in DOMAIN up' : up'[i] = m
      BY <2>2
    <3>2. m.kind = "heartbeat" /\ up[i] \in UpMessages /\ up[i].kind = "heartbeat" /\ m = Aged(up[i])
      BY ZenonT(30), <3>1, <1>2, <1>4, BeatsMember
    <3>3. up[i] \in Beats
      BY ZenonT(30), <1>2, <3>2, BeatsMember
    <3> QED
      BY <3>2, <3>3, <1>1
  <2> QED
    BY ZenonT(30), <1>4, <2>1, <2>2, BeatsMember
<1>5. up = <<>> /\ sending = {} => up' = <<>> /\ sending' = {}
  BY DEF Tick
<1> QED
  BY <1>4, <1>5
-----------------------------------------------------------------------------
(* How long a crash can go unnoticed. *)

\* A step that does not touch the monitor, and sends only heartbeats with the
\* worker's clock.
LEMMA CrashFrame ==
    ASSUME CrashInv, UNCHANGED <<lastHeartbeat, scanIn, deadWorkers, goneFor>>,
           \A m \in Beats' : m \in Beats \/ m.age >= Skew,
           link' = "gone" <=> link = "gone",
           link = "gone" => up' = <<>> /\ sending' = {}
    PROVE  CrashInv'
BY DEF CrashInv, Tracked

\* What runOnce and the executions do while the process runs.
LEMMA WorkerStepCrash ==
    ASSUME StreamType, CrashInv, WorkerStep, UNCHANGED <<monitorVars, coordVars, clockVars>>
    PROVE  CrashInv'
<1>1. UNCHANGED <<lastHeartbeat, scanIn, deadWorkers, goneFor>>
  BY DEF monitorVars, clockVars
<1>2. link = "gone" => up = <<>> /\ sending = {}
  BY DEF CrashInv
<1>3. CASE SelectHeartbeat
  <2>1. link # "gone" /\ link' = link /\ sending = {} /\ Send(Heartbeat(Skew))
    BY <1>3 DEF SelectHeartbeat, Looping
  <2>2. Heartbeat(Skew) \in UpMessages /\ Heartbeat(Skew).age >= Skew
    BY UpFacts, Periods
  <2>3. \A m \in Beats' : m \in Beats \/ m.age >= Skew
    BY <2>1, <2>2, SendBeats
  <2> QED
    BY <1>1, <2>1, <2>3, CrashFrame
<1>4. CASE SelectRequest
  <2>1. link # "gone" /\ link' = link /\ sending = {}
    BY <1>4 DEF SelectRequest, Looping
  <2>2. \A m \in Beats' : m \in Beats
    BY <1>4, <2>1, UpFacts, SendBeats, SameBeats DEF SelectRequest
  <2> QED
    BY <1>1, <2>1, <2>2, CrashFrame
<1>5. CASE FinishSend
  <2>1. PICK msg \in sending : Send(msg)
    BY <1>5 DEF FinishSend
  <2>2. msg \in UpMessages /\ sending \subseteq {msg} /\ (msg.kind = "heartbeat" => msg \in Beats)
    BY <2>1, BeatsMember DEF StreamType
  <2>3. \A m \in Beats' : m \in Beats
    BY <2>1, <2>2, SendBeats
  <2>4. link # "gone" /\ link' = link
    BY <1>2, <1>5, <2>1 DEF FinishSend
  <2> QED
    BY <1>1, <2>3, <2>4, CrashFrame
<1>6. CASE RecvNoTask \/ RecvAssignment
  BY <1>1, <1>2, <1>6, SameBeats, CrashFrame DEF RecvNoTask, RecvAssignment
<1>7. CASE RecvError
  <2>1. link = "broken" /\ link' = "down" /\ up' = up /\ sending' = {}
    BY <1>7 DEF RecvError
  <2>2. \A m \in Beats' : m \in Beats
    BY ZenonT(30), <2>1, BeatsMember
  <2> QED
    BY <1>1, <2>1, <2>2, CrashFrame
<1>8. CASE Reconnect
  BY <1>1, <1>2, <1>8, SameBeats, CrashFrame DEF Reconnect, workerVars
<1>9. ASSUME NEW e \in execs, StartTask(e) \/ FinishTask(e)
      PROVE  CrashInv'
  BY <1>1, <1>2, <1>9, SameBeats, CrashFrame DEF StartTask, FinishTask, streamVars
<1>10. ASSUME NEW e \in execs, SendResult(e)
       PROVE  CrashInv'
  <2>1. link # "gone" /\ link' = link
    BY <1>10 DEF SendResult
  <2>2. \A m \in Beats' : m \in Beats
    BY <1>10, ResultBeats
  <2> QED
    BY <1>1, <2>1, <2>2, CrashFrame
<1> QED
  BY <1>3, <1>4, <1>5, <1>6, <1>7, <1>8, <1>9, <1>10 DEF WorkerStep

LEMMA StreamStepCrash ==
    ASSUME StreamType, CrashInv, StreamStep
    PROVE  CrashInv'
<1>1. CASE HandleRequest \/ HandleResult
  <2>1. /\ up # <<>> /\ up' = Tail(up) /\ UNCHANGED <<link, sending>>
        /\ UNCHANGED <<lastHeartbeat, scanIn, deadWorkers, goneFor>>
    BY <1>1, PlainHandling
  <2>2. link # "gone"
    BY <2>1 DEF CrashInv
  <2>3. \A m \in Beats' : m \in Beats
    BY <2>1, TailBeats
  <2> QED
    BY <2>1, <2>2, <2>3, CrashFrame
<1>2. CASE HandleHeartbeat
  <2>1. up # <<>> /\ up' = Tail(up) /\ UNCHANGED <<link, sending, scanIn, deadWorkers, goneFor>>
    BY <1>2, HandlingType DEF HandleHeartbeat, UpdateHeartbeat, Consumed, workerVars, clockVars
  <2>2. link # "gone" /\ goneFor = 0
    BY <2>1 DEF CrashInv, StreamType
  <2>3. Head(up) \in Beats /\ Head(up).age >= Skew
    <3>1. Head(up).kind = "heartbeat" /\ 1 \in DOMAIN up /\ up[1] = Head(up)
      BY <1>2, HandlingType DEF HandleHeartbeat, StreamType
    <3>2. Head(up) \in Beats
      BY ZenonT(30), <3>1, BeatsMember
    <3> QED
      BY <3>2 DEF CrashInv
  <2>4. \A w \in Tracked' : lastHeartbeat'[w] >= Skew
    BY <1>2, <2>3 DEF HandleHeartbeat, UpdateHeartbeat, CrashInv, Tracked
  <2>5. goneFor + scanIn <= DetectionTime /\ goneFor <= DetectionTime
    BY <2>2, Periods DEF StreamType
  <2>6. \A m \in Beats' : m.age >= Skew
    BY <2>1, TailBeats DEF CrashInv
  <2> QED
    BY <2>1, <2>2, <2>4, <2>5, <2>6 DEF CrashInv
<1>3. CASE SendReply /\ UNCHANGED <<monitorVars, coordVars, clockVars>>
  BY <1>3, SameBeats, CrashFrame DEF SendReply, CrashInv, workerVars, monitorVars, clockVars
<1>4. CASE WorkerStep /\ UNCHANGED <<monitorVars, coordVars, clockVars>>
  BY <1>4, WorkerStepCrash
<1> QED
  BY <1>1, <1>2, <1>3, <1>4 DEF StreamStep

\* The scan that finds an entry of a crashed worker young enough leaves it a
\* whole scan interval; the scan that finds it dead is in time.
LEMMA MonitorStepCrash ==
    ASSUME StreamType, CrashInv, MonitorStep
    PROVE  CrashInv'
<1>1. UNCHANGED <<link, up, sending, goneFor>>
  BY DEF MonitorStep, RequeueDead, loopVars, clockVars
<1>2. Beats' = Beats
  BY <1>1, SameBeats
<1>3. CASE RequeueDead
  <2>1. deadWorkers' = {} /\ Tracked' = {}
    BY <1>3 DEF RequeueDead, HandleDeadWorker, Untracked, StreamType, Tracked
  <2> QED
    BY <1>1, <1>2, <2>1 DEF CrashInv
<1>4. CASE DeleteDeadWorker(Worker)
  <2>1. deadWorkers' = deadWorkers /\ Tracked' = {}
    BY <1>4 DEF DeleteDeadWorker, Untracked, StreamType, Tracked
  <2> QED
    BY <1>1, <1>2, <2>1 DEF CrashInv
<1>5. CASE Scan
  <2>1. /\ scanIn = 0 /\ deadWorkers = {} /\ scanIn' = ScanInterval
        /\ lastHeartbeat' = lastHeartbeat /\ Tracked' = Tracked
        /\ deadWorkers' = {w \in Tracked : lastHeartbeat[w] > DeadThreshold}
    BY <1>5 DEF Scan, ScanDue, GetDeadWorkers, Tracked
  <2>2. deadWorkers' # {} => goneFor <= DetectionTime
    BY <2>1 DEF CrashInv, StreamType
  <2>3. ASSUME deadWorkers' = {}, Tracked # {}
        PROVE  goneFor + ScanInterval <= DetectionTime
    <3>1. PICK w \in Tracked : lastHeartbeat[w] <= DeadThreshold /\ lastHeartbeat[w] \in Nat
      BY <2>1, <2>3, Periods DEF StreamType
    <3>2. CASE link = "gone"
      <4>1. Skew + goneFor <= DeadThreshold
        BY <3>1, <3>2, Periods DEF CrashInv, StreamType
      <4> QED
        BY <4>1, Periods DEF StreamType
    <3>3. CASE link # "gone"
      BY <3>3, Periods DEF CrashInv, StreamType
    <3> QED
      BY <3>2, <3>3
  <2> QED
    BY <1>1, <1>2, <2>1, <2>2, <2>3 DEF CrashInv
<1> QED
  BY <1>3, <1>4, <1>5 DEF MonitorStep

\* Time passes only when no scan is due and no dead worker is left.
LEMMA TickCrash ==
    ASSUME StreamType, CrashInv, Tick
    PROVE  CrashInv'
<1>1. deadWorkers = {} /\ deadWorkers' = {} /\ scanIn # 0 /\ scanIn' = scanIn - 1 /\ scanIn \in Nat
  BY DEF Tick, MonitorBusy, ScanDue, MonitorTick, StreamType
<1>2. Tracked' = Tracked /\ \A w \in Tracked : lastHeartbeat'[w] = Older(lastHeartbeat[w])
  BY DEF Tick, MonitorTick, Tracked
<1>3. ASSUME NEW m \in Beats' PROVE m.age >= Skew
  <2>1. PICK n \in Beats : n.age \in Nat /\ m.age = Older(n.age)
    BY AgedBeats
  <2>2. n.age >= Skew
    BY DEF CrashInv
  <2> QED
    BY <2>1, <2>2, Periods DEF Older
<1>4. \A w \in Tracked : lastHeartbeat[w] \in Nat
  BY DEF StreamType
<1>5. ASSUME NEW w \in Tracked PROVE Older(lastHeartbeat[w]) >= Skew
  <2>1. lastHeartbeat[w] \in Nat /\ lastHeartbeat[w] >= Skew
    BY <1>4 DEF CrashInv
  <2> QED
    BY <2>1, Periods DEF Older
<1>6. link' = link /\ goneFor' \in Nat /\ (goneFor' = goneFor \/ (link = "gone" /\ goneFor' = goneFor + 1))
  <2>1. goneFor' = goneFor \/ (link = "gone" /\ goneFor' = goneFor + 1)
    BY DEF Tick
  <2>2. goneFor \in Nat
    BY DEF StreamType
  <2>3. link' = link
    BY DEF Tick, WorkerTick
  <2> QED
    BY <2>1, <2>2, <2>3
<1>7. ASSUME link = "gone", NEW w \in Tracked
      PROVE  Older(lastHeartbeat[w]) >= MaxAge \/ Older(lastHeartbeat[w]) >= Skew + goneFor'
  BY <1>4, <1>6, <1>7, Periods DEF CrashInv, Older, StreamType
<1>8. ASSUME Tracked # {} PROVE goneFor' + scanIn' <= DetectionTime
  <2>1. goneFor + scanIn <= DetectionTime /\ goneFor \in Nat
    BY <1>1, <1>8 DEF CrashInv, StreamType
  <2>2. goneFor' <= goneFor + 1
    BY <1>6, <2>1
  <2>3. scanIn \in Nat /\ scanIn' \in Nat /\ scanIn = scanIn' + 1
    BY <1>1
  <2>4. goneFor' \in Nat /\ DetectionTime \in Nat
    BY <1>6, Periods
  <2>5. \A a, b, c, d, n \in Nat : a + b <= n /\ c <= a + 1 /\ b = d + 1 => c + d <= n
    OBVIOUS
  <2> QED
    BY ZenonT(30), <2>1, <2>2, <2>3, <2>4, <2>5
<1>9. link = "gone" => up' = <<>> /\ sending' = {}
  BY AgedBeats DEF CrashInv
<1>10. goneFor' > 0 => link' = "gone"
  BY <1>6 DEF CrashInv
<1> QED
  BY <1>1, <1>2, <1>3, <1>5, <1>6, <1>7, <1>8, <1>9, <1>10 DEF CrashInv

LEMMA FaultCrash ==
    ASSUME StreamType, CrashInv, Fault
    PROVE  CrashInv'
<1>1. UNCHANGED <<lastHeartbeat, scanIn, deadWorkers, goneFor>> /\ Tracked' = Tracked
  BY DEF Fault, monitorVars, clockVars, Tracked
<1>2. CASE BreakStream
  <2>1. link = "up" /\ link' = "broken" /\ up' = <<>> /\ sending' = sending
    BY <1>2 DEF BreakStream, Disconnected
  <2>2. \A m \in Beats' : m \in Beats
    BY <2>1, BeatsMember
  <2> QED
    BY <1>1, <2>1, <2>2, CrashFrame
<1>3. CASE CrashWorker
  <2>1. link # "gone" /\ link' = "gone" /\ up' = <<>> /\ sending' = {}
    BY <1>3 DEF CrashWorker
  <2>2. Beats' = {}
    BY <2>1, BeatsMember
  <2>3. goneFor = 0 /\ \A w \in Tracked : lastHeartbeat[w] >= Skew + goneFor
    BY <2>1, Periods DEF CrashInv, StreamType
  <2> QED
    BY <1>1, <2>1, <2>2, <2>3 DEF CrashInv
<1> QED
  BY <1>2, <1>3 DEF Fault

LEMMA CrashNext ==
    ASSUME StreamType, CrashInv, [Next]_vars
    PROVE  CrashInv'
<1>1. CASE UNCHANGED <<loopVars, monitorVars, clockVars>>
  BY <1>1, SameBeats, CrashFrame DEF CrashInv, loopVars, monitorVars, clockVars
<1>2. ASSUME NEW t \in Tasks, SubmitTask(t) PROVE CrashInv'
  BY <1>1, <1>2 DEF SubmitTask
<1>3. CASE UNCHANGED vars
  BY <1>1, <1>3 DEF vars
<1> QED
  BY <1>2, <1>3, StreamStepCrash, MonitorStepCrash, TickCrash, FaultCrash DEF Next

\* HeartbeatMonitor.Run finds a crashed worker and HandleDeadWorker takes its
\* tasks back within dead-threshold + scan-interval of the crash, less what
\* the worker's clock is behind, whatever the thresholds and the periods are.
THEOREM CrashIsFound == StreamSpec => []DetectionBound
<1>1. Init => CrashInv
  BY Periods DEF Init, LoopInit, MonitorInit, CrashInv, Beats, Tracked
<1>2. StreamType /\ CrashInv => DetectionBound
  BY Periods DEF StreamType, CrashInv, DetectionBound
<1> QED
  BY <1>1, <1>2, TypeInit, TypeNext, CrashNext, PTL DEF StreamSpec
-----------------------------------------------------------------------------
(* When a worker that runs can be declared dead. *)

\* A step that does not touch the monitor or the heartbeat ticker, and after
\* which a heartbeat is on its way if one was before.
LEMMA SteadyFrame ==
    ASSUME SteadyInv, UNCHANGED <<lastHeartbeat, deadWorkers, waited, hbIn, breaks, link>>,
           Steady => \A m \in Beats' : m \in Beats \/ m.age <= Skew,
           Steady => (~hbDue' /\ Beats' = {} => ~hbDue /\ Beats = {})
    PROVE  SteadyInv'
BY DEF SteadyInv, Steady, Tracked

LEMMA WorkerStepSteady ==
    ASSUME StreamType, SteadyInv, WorkerStep, UNCHANGED <<monitorVars, coordVars, clockVars>>
    PROVE  SteadyInv'
<1>1. UNCHANGED <<lastHeartbeat, deadWorkers, waited>>
  BY DEF monitorVars, clockVars
<1>2. CASE SelectHeartbeat
  <2>1. sending = {} /\ Send(Heartbeat(Skew)) /\ UNCHANGED <<hbIn, breaks, link>>
    BY <1>2 DEF SelectHeartbeat, Looping
  <2>2. /\ Heartbeat(Skew) \in UpMessages /\ Heartbeat(Skew).age <= Skew
        /\ Heartbeat(Skew).kind = "heartbeat"
    BY UpFacts, Periods
  <2>3. /\ \A m \in Beats' : m \in Beats \/ m.age <= Skew
        /\ Steady => Beats' # {}
    BY <2>1, <2>2, SendBeats DEF Steady
  <2> QED
    BY <1>1, <2>1, <2>3, SteadyFrame
<1>3. CASE SelectRequest
  <2>1. sending = {} /\ UNCHANGED <<hbIn, hbDue, breaks, link>>
    BY <1>3 DEF SelectRequest, Looping
  <2>2. \/ Send(Request)
        \/ UNCHANGED <<up, sending>>
    BY <1>3 DEF SelectRequest
  <2>3. /\ \A m \in Beats' : m \in Beats
        /\ Steady => \A m \in Beats : m \in Beats'
    BY <2>1, <2>2, UpFacts, SendBeats, SameBeats DEF Steady
  <2> QED
    BY <1>1, <2>1, <2>3, SteadyFrame
<1>4. CASE FinishSend
  <2>1. PICK msg \in sending : Send(msg)
    BY <1>4 DEF FinishSend
  <2>2. msg \in UpMessages /\ sending \subseteq {msg} /\ (msg.kind = "heartbeat" => msg \in Beats)
    BY <2>1, BeatsMember DEF StreamType
  <2>3. /\ \A m \in Beats' : m \in Beats
        /\ Steady => \A m \in Beats : m \in Beats'
    BY <2>1, <2>2, SendBeats DEF Steady
  <2>4. UNCHANGED <<hbIn, hbDue, breaks, link>>
    BY <1>4 DEF FinishSend
  <2> QED
    BY <1>1, <2>3, <2>4, SteadyFrame
<1>5. CASE RecvNoTask \/ RecvAssignment
  BY <1>1, <1>5, SameBeats, SteadyFrame DEF RecvNoTask, RecvAssignment
<1>6. CASE RecvError \/ Reconnect
  BY <1>6 DEF RecvError, Reconnect, SteadyInv, Steady
<1>7. ASSUME NEW e \in execs, StartTask(e) \/ FinishTask(e)
      PROVE  SteadyInv'
  BY <1>1, <1>7, SameBeats, SteadyFrame DEF StartTask, FinishTask, streamVars
<1>8. ASSUME NEW e \in execs, SendResult(e)
      PROVE  SteadyInv'
  BY <1>1, <1>8, ResultBeats, SteadyFrame DEF SendResult
<1> QED
  BY <1>2, <1>3, <1>4, <1>5, <1>6, <1>7, <1>8 DEF WorkerStep

LEMMA StreamStepSteady ==
    ASSUME StreamType, SteadyInv, StreamStep
    PROVE  SteadyInv'
<1>1. CASE HandleRequest \/ HandleResult
  <2>1. /\ up # <<>> /\ up' = Tail(up) /\ Head(up).kind # "heartbeat"
        /\ UNCHANGED <<link, breaks, sending, hbDue, hbIn>>
        /\ UNCHANGED <<lastHeartbeat, deadWorkers, waited>>
    BY <1>1, PlainHandling
  <2>2. Head(up) \notin Beats
    BY <2>1, BeatsMember
  <2>3. /\ \A m \in Beats' : m \in Beats
        /\ \A m \in Beats : m \in Beats'
    BY <2>1, <2>2, TailBeats
  <2> QED
    BY <2>1, <2>3, SteadyFrame
<1>2. CASE HandleHeartbeat
  <2>1. up # <<>> /\ up' = Tail(up) /\ UNCHANGED <<link, breaks, sending, hbIn, deadWorkers, waited>>
    BY <1>2, HandlingType DEF HandleHeartbeat, UpdateHeartbeat, Consumed, workerVars, clockVars
  <2>2. Head(up) \in Beats /\ Head(up).age \in Nat
    <3>1. Head(up).kind = "heartbeat" /\ 1 \in DOMAIN up /\ up[1] = Head(up)
      BY <1>2, HandlingType DEF HandleHeartbeat, StreamType
    <3>2. Head(up) \in Beats
      BY ZenonT(30), <3>1, BeatsMember
    <3> QED
      BY <3>1, <3>2, <1>2, HandlingType, UpFacts DEF HandleHeartbeat
  <2>3. Tracked' \subseteq {Worker} /\ lastHeartbeat'[Worker] = Head(up).age
    BY <1>2 DEF HandleHeartbeat, UpdateHeartbeat, StreamType, Tracked
  <2>4. ASSUME Steady PROVE \A w \in Tracked' : lastHeartbeat'[w] <= Skew /\ lastHeartbeat'[w] \in Nat
    BY <2>2, <2>3, <2>4 DEF SteadyInv
  <2>5. ASSUME Steady
        PROVE  \A w \in Tracked' : /\ lastHeartbeat'[w] <= Skew + HeartbeatPeriod
                                   /\ lastHeartbeat'[w] + hbIn <= Skew + HeartbeatPeriod
    BY <2>4, <2>5, Periods DEF StreamType
  <2> QED
    BY <2>1, <2>5, TailBeats DEF SteadyInv, Steady
<1>3. CASE SendReply /\ UNCHANGED <<monitorVars, coordVars, clockVars>>
  BY <1>3, SameBeats, SteadyFrame DEF SendReply, workerVars, monitorVars, clockVars
<1>4. CASE WorkerStep /\ UNCHANGED <<monitorVars, coordVars, clockVars>>
  BY <1>4, WorkerStepSteady
<1> QED
  BY <1>1, <1>2, <1>3, <1>4 DEF StreamStep

\* A scan finds nothing dead when a heartbeat period and the clock fit in the
\* dead threshold.
LEMMA MonitorStepSteady ==
    ASSUME Skew + HeartbeatPeriod <= DeadThreshold, StreamType, SteadyInv, MonitorStep
    PROVE  SteadyInv'
<1>1. UNCHANGED <<link, breaks, up, sending, hbDue, hbIn, waited>>
  BY DEF MonitorStep, RequeueDead, loopVars, clockVars
<1>2. Beats' = Beats
  BY <1>1, SameBeats
<1>3. CASE RequeueDead \/ DeleteDeadWorker(Worker)
  <2>1. deadWorkers' \subseteq deadWorkers /\ Tracked' = {}
    BY ZenonT(30), <1>3 DEF RequeueDead, HandleDeadWorker, DeleteDeadWorker, Untracked, StreamType, Tracked
  <2> QED
    BY <1>1, <1>2, <2>1 DEF SteadyInv, Steady
<1>4. CASE Scan
  <2>1. lastHeartbeat' = lastHeartbeat /\ deadWorkers' = {w \in Tracked : lastHeartbeat[w] > DeadThreshold}
    BY <1>4 DEF Scan, GetDeadWorkers
  <2>2. Steady => deadWorkers' = {}
    BY <2>1, Periods DEF SteadyInv, StreamType
  <2> QED
    BY <1>1, <1>2, <2>1, <2>2 DEF SteadyInv, Steady, Tracked
<1> QED
  BY <1>3, <1>4 DEF MonitorStep

\* Time passes with no heartbeat due, under way or waiting.
LEMMA TickSteady ==
    ASSUME StreamType, SteadyInv, Tick
    PROVE  SteadyInv'
<1>1. UNCHANGED <<link, breaks, deadWorkers>>
  BY DEF Tick, WorkerTick, MonitorTick
<1> SUFFICES ASSUME Steady' PROVE SteadyInv'
  BY <1>1 DEF SteadyInv
<1>2. Steady /\ sending = {} /\ reply = {}
  BY ZenonT(30), <1>1 DEF Steady, Tick, StreamType
<1>3. up = <<>> /\ ~hbDue
  BY <1>2 DEF Tick, LoopBusy, Looping, Steady
<1>4. Beats = {} /\ Beats' = {}
  BY <1>2, <1>3, AgedBeats, BeatsMember
<1>5. Tracked' = Tracked /\ \A w \in Tracked : lastHeartbeat'[w] = Older(lastHeartbeat[w])
  BY DEF Tick, MonitorTick, Tracked
<1>6. \/ hbIn = 1 /\ hbDue'
      \/ hbIn # 1 /\ hbIn' = hbIn - 1
  BY ZenonT(30), <1>2 DEF Tick, WorkerTick, Steady
<1>7. ASSUME NEW w \in Tracked
      PROVE  /\ lastHeartbeat'[w] <= Skew + HeartbeatPeriod
             /\ ~hbDue' => lastHeartbeat'[w] + hbIn' <= Skew + HeartbeatPeriod
  <2>1. lastHeartbeat[w] \in Nat /\ lastHeartbeat[w] + hbIn <= Skew + HeartbeatPeriod
    BY <1>2, <1>3, <1>4 DEF SteadyInv, StreamType
  <2>2. lastHeartbeat'[w] \in Nat /\ lastHeartbeat'[w] <= lastHeartbeat[w] + 1
    BY <1>5, <2>1, OlderType
  <2>3. hbIn \in Nat /\ hbIn >= 1
    BY Periods DEF StreamType
  <2> QED
    BY <1>6, <2>1, <2>2, <2>3, Periods
<1> QED
  BY <1>1, <1>2, <1>4, <1>5, <1>7 DEF SteadyInv

LEMMA SteadyNext ==
    ASSUME Skew + HeartbeatPeriod <= DeadThreshold, StreamType, SteadyInv, [Next]_vars
    PROVE  SteadyInv'
<1>1. CASE UNCHANGED <<loopVars, monitorVars, clockVars>>
  BY <1>1, SameBeats, SteadyFrame DEF loopVars, monitorVars, clockVars
<1>2. ASSUME NEW t \in Tasks, SubmitTask(t) PROVE SteadyInv'
  BY <1>1, <1>2 DEF SubmitTask
<1>3. CASE UNCHANGED vars
  BY <1>1, <1>3 DEF vars
<1>4. CASE Fault
  BY <1>4 DEF Fault, BreakStream, CrashWorker, SteadyInv, Steady, StreamType
<1> QED
  BY <1>2, <1>3, <1>4, StreamStepSteady, MonitorStepSteady, TickSteady DEF Next

\* A worker that heartbeats often enough for the dead threshold, by a clock
\* that is not too far behind, is declared dead only if it crashed, lost a
\* stream or had to wait for a full window: runOnce sends heartbeats and
\* requests from one loop, behind each other.
THEOREM FalseDeathsExplained ==
    ASSUME Skew + HeartbeatPeriod <= DeadThreshold
    PROVE  StreamSpec => []FalseDeathNeedsBacklog
<1>1. Init => SteadyInv
  BY DEF Init, LoopInit, MonitorInit, SteadyInv, Steady, Beats, Tracked
<1>2. StreamType /\ SteadyInv => FalseDeathNeedsBacklog
  BY DEF StreamType, SteadyInv, Steady, FalseDeathNeedsBacklog
<1> QED
  BY <1>1, <1>2, TypeInit, TypeNext, SteadyNext, PTL DEF StreamSpec
=============================================================================
