---------------------------- MODULE UploadStream ----------------------------
(***************************************************************************)
(* S3MultipartUploader::upload_stream (crypto/pme_encrypt.rs) and the      *)
(* storage service it talks to.  A feeder puts StreamItems on a bounded    *)
(* tokio mpsc channel; the uploader turns every Data item into one part of *)
(* a multipart upload, at most Permits of them in flight, and completes    *)
(* the upload only after the explicit Success item.  Leaving the function  *)
(* on any other path drops MultipartUploadGuard, which aborts the upload   *)
(* in a detached task.                                                     *)
(*                                                                         *)
(* The feeders (the Parquet serializer of write(), flush_partition, the    *)
(* Python Writer) are modules that EXTEND this one and own the sending end.*)
(*                                                                         *)
(* Bounds: the feeder bounds the number of Data items; requests are        *)
(* answered at most once, so every counter is bounded by it.               *)
(***************************************************************************)
EXTENDS Integers, Sequences, FiniteSets

CONSTANTS
    Payloads,   \* what a Data item can carry
    Permits,    \* Semaphore::new(8): upload_part requests in flight
    NoObject    \* the key holds no object of this write

ASSUME PermitsAssumption == Permits \in Nat \ {0}

ASSUME NoObjectAssumption == NoObject \notin Seq(Payloads)

VARIABLES
    chan,       \* the mpsc channel, oldest item first
    senders,    \* live Sender handles
    rxOpen,     \* the Receiver has not been dropped
    up,         \* where upload_stream is
    permitOpt,  \* permit_opt.is_some()
    body,       \* body[p] is the payload of part p; part_number = Len(body) + 1
    task,       \* task[p]: the join_set task uploading part p
    completed,  \* completed_parts_with_index: part numbers in the order joined
    success,    \* success_signal_received
    mpu,        \* the multipart upload, as the service sees it
    stored,     \* part numbers the service holds for it
    object,     \* what a reader of the key gets
    completeReq,\* the complete_multipart_upload request
    abortReq,   \* the abort_multipart_upload request of the guard
    faults      \* history: the failures of the environment so far

channelVars == <<chan, senders, rxOpen>>
uploaderVars == <<up, permitOpt, body, task, completed, success>>
storageVars == <<mpu, stored, object, completeReq, abortReq>>
uploadVars == <<channelVars, uploaderVars, storageVars, faults>>

Data(p) == [type |-> "Data", payload |-> p]
Success == [type |-> "Success"]
StreamItem == {Data(p) : p \in Payloads} \cup {Success}

TaskState == {"running", "ok", "err", "joined", "orphan", "gone"}
UploaderState == {"idle", "create", "loop", "drain", "completing", "ok", "err", "dead"}
FaultKind == {"serializer", "create", "part", "complete", "timeout", "abort", "crash"}

UploadTypeOK ==
    /\ chan \in Seq(StreamItem)
    /\ rxOpen \in BOOLEAN
    /\ up \in UploaderState
    /\ permitOpt \in BOOLEAN
    /\ body \in Seq(Payloads)
    /\ task \in Seq(TaskState)
    /\ Len(task) = Len(body)
    /\ completed \in Seq(Nat)
    /\ success \in BOOLEAN
    /\ mpu \in {"none", "open", "completed", "aborted"}
    /\ stored \subseteq Nat
    /\ object \in Seq(Payloads) \cup {NoObject}
    /\ completeReq \in {"none", "sent", "committed", "rejected"}
    /\ abortReq \in {"none", "sent", "done", "failed"}
    /\ faults \subseteq FaultKind

UploadInit ==
    /\ chan = <<>>
    /\ senders = {}
    /\ rxOpen = TRUE
    /\ up = "idle"
    /\ permitOpt = FALSE
    /\ body = <<>>
    /\ task = <<>>
    /\ completed = <<>>
    /\ success = FALSE
    /\ mpu = "none"
    /\ stored = {}
    /\ object = NoObject
    /\ completeReq = "none"
    /\ abortReq = "none"
    /\ faults = {}

-----------------------------------------------------------------------------
(* The join set and the permits.                                           *)

TasksIn(state) == {p \in DOMAIN task : task[p] = state}

\* join_set: spawned tasks whose result has not been taken by join_next
JoinSet == TasksIn("running") \cup TasksIn("ok") \cup TasksIn("err")

\* a task drops its permit when its request has been answered; the loop holds
\* one more while it waits for the next item
PermitsInUse == Cardinality(TasksIn("running")) + (IF permitOpt THEN 1 ELSE 0)

\* JoinSet::drop aborts the tasks; a request already sent may still arrive
TasksDropped(ts) == [p \in DOMAIN ts |-> IF ts[p] = "running" THEN "orphan" ELSE ts[p]]

Elements(s) == {s[i] : i \in DOMAIN s}

\* sort_by_key over distinct part numbers: the i-th element is the one with
\* i - 1 smaller ones
SortedParts_unsorted(s) == s
SortedParts(s) ==
    LET parts == Elements(s)
    IN  [i \in 1 .. Cardinality(parts) |->
            CHOOSE p \in parts : Cardinality({q \in parts : q < p}) = i - 1]

-----------------------------------------------------------------------------
(* Leaving upload_stream.  The locals are dropped in reverse order: the    *)
(* join set, then the guard, then the receiver.                            *)

ReturnErr_noAbort ==
    /\ up' = "err"
    /\ rxOpen' = FALSE
    /\ chan' = <<>>
    /\ permitOpt' = FALSE
    /\ task' = TasksDropped(task)
    /\ UNCHANGED abortReq

ReturnErr ==
    /\ up' = "err"
    /\ rxOpen' = FALSE
    /\ chan' = <<>>
    /\ permitOpt' = FALSE
    /\ task' = TasksDropped(task)
    /\ abortReq' = "sent"

-----------------------------------------------------------------------------
(* create_multipart_upload                                                 *)

Create ==
    /\ up = "create"
    /\ mpu' = "open"
    /\ up' = "loop"
    /\ UNCHANGED <<channelVars, permitOpt, body, task, completed, success,
                   stored, object, completeReq, abortReq, faults>>

\* the request failed, or its response was lost, or carried no upload id: the
\* guard does not exist yet, so nothing will abort an upload that was created
CreateFails ==
    /\ up = "create"
    /\ mpu' \in {"none", "open"}
    /\ up' = "err"
    /\ rxOpen' = FALSE
    /\ chan' = <<>>
    /\ faults' = faults \cup {"create"}
    /\ UNCHANGED <<senders, permitOpt, body, task, completed, success,
                   stored, object, completeReq, abortReq>>

-----------------------------------------------------------------------------
(* The select loop.                                                        *)

AcquirePermit ==
    /\ up = "loop"
    /\ ~permitOpt
    /\ PermitsInUse < Permits
    /\ permitOpt' = TRUE
    /\ UNCHANGED <<channelVars, up, body, task, completed, success, storageVars, faults>>

RecvData_notJoined ==
    /\ up = "loop"
    /\ permitOpt
    /\ chan # <<>>
    /\ Head(chan).type = "Data"
    /\ chan' = Tail(chan)
    /\ body' = Append(body, Head(chan).payload)
    /\ permitOpt' = FALSE
    /\ UNCHANGED <<senders, rxOpen, up, task, completed, success, storageVars, faults>>

RecvData ==
    /\ up = "loop"
    /\ permitOpt
    /\ chan # <<>>
    /\ Head(chan).type = "Data"
    /\ chan' = Tail(chan)
    /\ body' = Append(body, Head(chan).payload)
    /\ task' = Append(task, "running")
    /\ permitOpt' = FALSE
    /\ UNCHANGED <<senders, rxOpen, up, completed, success, storageVars, faults>>

RecvSuccess ==
    /\ up = "loop"
    /\ permitOpt
    /\ chan # <<>>
    /\ Head(chan).type = "Success"
    /\ chan' = Tail(chan)
    /\ success' = TRUE
    /\ up' = "drain"
    /\ UNCHANGED <<senders, rxOpen, permitOpt, body, task, completed, storageVars, faults>>

\* recv() yields None once the channel is empty and every Sender is dropped
RecvNone ==
    /\ up = "loop"
    /\ permitOpt
    /\ chan = <<>>
    /\ senders = {}
    /\ up' = "drain"
    /\ UNCHANGED <<channelVars, permitOpt, body, task, completed, success, storageVars, faults>>

\* join_next, in the select loop and in the drain loop after it
JoinOk(p) ==
    /\ up \in {"loop", "drain"}
    /\ p \in TasksIn("ok")
    /\ completed' = Append(completed, p)
    /\ task' = [task EXCEPT ![p] = "joined"]
    /\ UNCHANGED <<channelVars, up, permitOpt, body, success, storageVars, faults>>

JoinErr(p) ==
    /\ up \in {"loop", "drain"}
    /\ p \in TasksIn("err")
    /\ ReturnErr
    /\ UNCHANGED <<senders, body, completed, success, mpu, stored, object, completeReq, faults>>

\* drained without a Success item: the stream was cut short
AbortIncomplete ==
    /\ up = "drain"
    /\ JoinSet = {}
    /\ ~success
    /\ ReturnErr
    /\ UNCHANGED <<senders, body, completed, success, mpu, stored, object, completeReq, faults>>

SendComplete_ignoresSuccess ==
    /\ up = "drain"
    /\ JoinSet = {}
    /\ up' = "completing"
    /\ completeReq' = "sent"
    /\ UNCHANGED <<channelVars, permitOpt, body, task, completed, success,
                   mpu, stored, object, abortReq, faults>>

SendComplete ==
    /\ up = "drain"
    /\ JoinSet = {}
    /\ success
    /\ up' = "completing"
    /\ completeReq' = "sent"
    /\ UNCHANGED <<channelVars, permitOpt, body, task, completed, success,
                   mpu, stored, object, abortReq, faults>>

\* guard.completed = true, Ok(())
CompleteAcked ==
    /\ up = "completing"
    /\ completeReq = "committed"
    /\ up' = "ok"
    /\ rxOpen' = FALSE
    /\ permitOpt' = FALSE
    /\ UNCHANGED <<chan, senders, body, task, completed, success, storageVars, faults>>

CompleteRefused ==
    /\ up = "completing"
    /\ completeReq = "rejected"
    /\ ReturnErr
    /\ UNCHANGED <<senders, body, completed, success, mpu, stored, object, completeReq, faults>>

\* the client gives up on the request, which the service may have carried out
\* already or may carry out later
CompleteTimesOut ==
    /\ up = "completing"
    /\ completeReq \in {"sent", "committed"}
    /\ ReturnErr
    /\ faults' = faults \cup {"timeout"}
    /\ UNCHANGED <<senders, body, completed, success, mpu, stored, object, completeReq>>

-----------------------------------------------------------------------------
(* The storage service, and the spawned tasks that wait for its answers.   *)

PartStored(p) ==
    /\ p \in TasksIn("running")
    /\ task' = [task EXCEPT ![p] = "ok"]
    /\ stored' = stored \cup {p}
    /\ UNCHANGED <<channelVars, up, permitOpt, body, completed, success,
                   mpu, object, completeReq, abortReq, faults>>

\* refused, or stored with the answer lost, or the task panicked
PartFails(p) ==
    /\ p \in TasksIn("running")
    /\ task' = [task EXCEPT ![p] = "err"]
    /\ stored' \in {stored, stored \cup {p}}
    /\ faults' = faults \cup {"part"}
    /\ UNCHANGED <<channelVars, up, permitOpt, body, completed, success,
                   mpu, object, completeReq, abortReq>>

\* the request of a task that was aborted reaches the service after all
OrphanLands(p) ==
    /\ p \in TasksIn("orphan")
    /\ mpu = "open"
    /\ task' = [task EXCEPT ![p] = "gone"]
    /\ stored' = stored \cup {p}
    /\ UNCHANGED <<channelVars, up, permitOpt, body, completed, success,
                   mpu, object, completeReq, abortReq, faults>>

\* the service accepts a non-empty, ascending list of parts it holds
Acceptable(parts) ==
    /\ parts # <<>>
    /\ \A i \in DOMAIN parts : parts[i] \in stored
    /\ \A i, j \in DOMAIN parts : i < j => parts[i] < parts[j]

Commit ==
    LET parts == SortedParts(completed)
    IN  /\ completeReq = "sent"
        /\ mpu = "open"
        /\ Acceptable(parts)
        /\ object' = [i \in DOMAIN parts |-> body[parts[i]]]
        /\ mpu' = "completed"
        /\ completeReq' = "committed"
        /\ UNCHANGED <<channelVars, uploaderVars, stored, abortReq, faults>>

\* an upload that was aborted first, or a list the service does not accept
CommitRefused ==
    /\ completeReq = "sent"
    /\ mpu # "open" \/ ~Acceptable(SortedParts(completed))
    /\ completeReq' = "rejected"
    /\ UNCHANGED <<channelVars, uploaderVars, mpu, stored, object, abortReq, faults>>

CommitFails ==
    /\ completeReq = "sent"
    /\ completeReq' = "rejected"
    /\ faults' = faults \cup {"complete"}
    /\ UNCHANGED <<channelVars, uploaderVars, mpu, stored, object, abortReq>>

\* the guard's detached task; its result is discarded
Abort ==
    /\ abortReq = "sent"
    /\ abortReq' = "done"
    /\ mpu' = IF mpu = "open" THEN "aborted" ELSE mpu
    /\ stored' = IF mpu = "open" THEN {} ELSE stored
    /\ UNCHANGED <<channelVars, uploaderVars, object, completeReq, faults>>

AbortFails ==
    /\ abortReq = "sent"
    /\ abortReq' = "failed"
    /\ faults' = faults \cup {"abort"}
    /\ UNCHANGED <<channelVars, uploaderVars, mpu, stored, object, completeReq>>

-----------------------------------------------------------------------------

Uploader ==
    \/ Create \/ CreateFails
    \/ AcquirePermit \/ RecvData \/ RecvSuccess \/ RecvNone
    \/ \E p \in DOMAIN task : JoinOk(p) \/ JoinErr(p)
    \/ AbortIncomplete \/ SendComplete
    \/ CompleteAcked \/ CompleteRefused \/ CompleteTimesOut

Storage ==
    \/ \E p \in DOMAIN task : PartStored(p) \/ PartFails(p) \/ OrphanLands(p)
    \/ Commit \/ CommitRefused \/ CommitFails
    \/ Abort \/ AbortFails

\* Requests that were sent are answered, one way or the other: the SDK's
\* timeouts turn silence into an error.
PartAnswered(p) == PartStored(p) \/ PartFails(p)
CommitAnswered == Commit \/ CommitRefused \/ CommitFails
AbortAnswered == Abort \/ AbortFails
=============================================================================
