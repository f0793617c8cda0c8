---------------------------- MODULE Serialization ----------------------------
(***************************************************************************)
(* The record encoding of internal/store/serialization.go.  Encoded data   *)
(* is a sequence of cells: a fixed-width integer is one cell, a string is  *)
(* a cell with its length and one cell for each byte.  A reader consumes   *)
(* cells and is a record [rest, ok, vals]: what is left to read, whether   *)
(* an error occurred, and the values read so far.                          *)
(***************************************************************************)
EXTENDS Integers, Sequences, SequencesExt

TaskStates == <<"PENDING", "QUEUED", "RUNNING", "COMPLETE", "FAILED", "SKIPPED">>
WorkflowStates == <<"RUNNING", "COMPLETE", "FAILED", "CANCELLED">>

\* The number of an enum value in scheduler.pb.go; they start at 0.
Number(enum, name) == (CHOOSE i \in DOMAIN enum : enum[i] = name) - 1

writeString(str) == <<Len(str)>> \o str
Write(kind, v) == IF kind = "int" THEN <<v>> ELSE writeString(v)
Encode(layout, vals) == FlattenSeq([i \in DOMAIN layout |-> Write(layout[i], vals[i])])

Reader(data) == [rest |-> data, ok |-> TRUE, vals |-> <<>>]
Failure(r) == [r EXCEPT !.ok = FALSE]

readInt(r) ==
    IF r.rest = <<>> THEN Failure(r)
    ELSE [r EXCEPT !.rest = Tail(@), !.vals = Append(@, Head(r.rest))]

\* bytes.Reader.Read fails at the end of the data, even for an empty string,
\* and returns fewer bytes than asked for without an error: the string then
\* keeps the zeros it was made with.
readString(r) ==
    IF Len(r.rest) <= 1 THEN Failure(r)
    ELSE LET len == Head(r.rest)
             body == Tail(r.rest)
             n == IF len <= Len(body) THEN len ELSE Len(body)
         IN  [r EXCEPT !.rest = SubSeq(body, n + 1, Len(body)),
                       !.vals = Append(@, [i \in 1..len |-> IF i <= n THEN body[i] ELSE 0])]

\* An error ends the reading; what was read before it is kept.
Read(r, kind) ==
    IF ~r.ok THEN r ELSE IF kind = "int" THEN readInt(r) ELSE readString(r)
Decode(layout, data) == FoldLeft(Read, Reader(data), layout)
-----------------------------------------------------------------------------
\* TaskID, WorkflowID, State, ExecutionID, AttemptCount, LastUpdated, Output,
\* Error, InDegree; the downstream list follows.
TaskLayout == <<"str", "str", "int", "str", "int", "int", "str", "str", "int">>

MutTaskFields(r) ==
    <<r.taskID, r.workflowID, Number(TaskStates, r.state), r.executionID,
      r.attemptCount, r.lastUpdated, r.error, r.output, r.inDegree>>
TaskFields(r) ==
    <<r.taskID, r.workflowID, Number(TaskStates, r.state), r.executionID,
      r.attemptCount, r.lastUpdated, r.output, r.error, r.inDegree>>

marshalTaskRecord(r) ==
    Encode(TaskLayout, TaskFields(r)) \o <<Len(r.downstreamTaskIDs)>>
    \o FlattenSeq([i \in DOMAIN r.downstreamTaskIDs |-> writeString(r.downstreamTaskIDs[i])])

\* The list is new: a record without it, or cut off in it, is no error.
DownstreamList(data) ==
    IF data = <<>> THEN <<>>
    ELSE Decode([i \in 1..Head(data) |-> "str"], Tail(data)).vals

\* Whether unmarshalTaskRecord returns a record, and the record it returns.
Decodable(data) == Decode(TaskLayout, data).ok
unmarshalTaskRecord(data) ==
    LET r == Decode(TaskLayout, data) IN
    [taskID |-> r.vals[1], workflowID |-> r.vals[2], state |-> TaskStates[r.vals[3] + 1],
     executionID |-> r.vals[4], attemptCount |-> r.vals[5], lastUpdated |-> r.vals[6],
     output |-> r.vals[7], error |-> r.vals[8], inDegree |-> r.vals[9],
     downstreamTaskIDs |-> DownstreamList(r.rest)]

\* WorkflowID, State, SubmittedAtMs, CompletedAtMs.
WorkflowLayout == <<"str", "int", "int", "int">>

marshalWorkflowState(w) ==
    Encode(WorkflowLayout, <<w.workflowID, Number(WorkflowStates, w.state),
                             w.submittedAt, w.completedAt>>)
unmarshalWorkflowState(data) ==
    LET r == Decode(WorkflowLayout, data) IN
    [workflowID |-> r.vals[1], state |-> WorkflowStates[r.vals[2] + 1],
     submittedAt |-> r.vals[3], completedAt |-> r.vals[4]]
=============================================================================
