---------------------------- MODULE WritePipeline ----------------------------
(***************************************************************************)
(* WriteOrchestrator::write (manager/write_orchestrator.rs): one call      *)
(* writes one Parquet object.  A blocking serializer thread (ArrowWriter   *)
(* over the ChannelWriter sink) cuts the encrypted file into chunks of     *)
(* chunk_size and sends them on a bounded channel to upload_stream, which  *)
(* runs in the caller's task (UploadStream).  write() records the audit    *)
(* event, drops its own Sender and joins the two.                          *)
(*                                                                         *)
(* The file is abstracted to its chunks 1 .. NumChunks, the last one cut   *)
(* by the flush of close(); what a dying writer flushes from its buffer on *)
(* Drop is the chunk Torn.                                                 *)
(***************************************************************************)
EXTENDS UploadStream

CONSTANTS
    NumChunks,    \* chunks of the serialized file
    ChannelCap    \* mpsc::channel(10)

ASSUME NumChunksAssumption == NumChunks \in Nat \ {0}
ASSUME ChannelCapAssumption == ChannelCap \in Nat \ {0}

Torn == 0

ASSUME PayloadsAssumption == Payloads = 0 .. NumChunks

VARIABLES
    pc,         \* where write() is
    ser,        \* where the serializer thread is
    next,       \* the next chunk it has to send
    audited,    \* the Write event is in the audit buffer
    result      \* what write() returned

writeVars == <<pc, ser, next, audited, result>>
vars == <<uploadVars, writeVars>>

Handles == {"main", "task"}     \* tx, and tx_clone with the sink's clone of it

RejectError == {"MissingPurpose", "MissingContract", "InvalidContract",
                "LintFailed", "EncryptionFailed"}
JoinError == {"SerializationError", "UploadFailed"}
Outcome == {"none", "Ok"} \cup RejectError \cup JoinError

WholeFile == [i \in 1 .. NumChunks |-> i]

TypeOK ==
    /\ UploadTypeOK
    /\ senders \subseteq Handles
    /\ pc \in {"start", "spawned", "audited", "joining", "returned", "crashed"}
    /\ ser \in {"idle", "run", "unwind", "ok", "err", "panic", "dead"}
    /\ next \in 1 .. NumChunks + 1
    /\ audited \in BOOLEAN
    /\ result \in Outcome

Init ==
    /\ UploadInit
    /\ pc = "start"
    /\ ser = "idle"
    /\ next = 1
    /\ audited = FALSE
    /\ result = "none"

-----------------------------------------------------------------------------
(* write(), up to the join.                                                *)

\* purpose, contract resolution, linter, policy and key generation guards
Reject(e) ==
    /\ pc = "start"
    /\ pc' = "returned"
    /\ result' = e
    /\ UNCHANGED <<uploadVars, ser, next, audited>>

\* the channel is created and spawn_blocking starts the serializer
SpawnSerializer ==
    /\ pc = "start"
    /\ pc' = "spawned"
    /\ ser' = "run"
    /\ senders' = Handles
    /\ UNCHANGED <<chan, rxOpen, uploaderVars, storageVars, faults, next, audited, result>>

PushAudit ==
    /\ pc = "spawned"
    /\ pc' = "audited"
    /\ audited' = TRUE
    /\ UNCHANGED <<uploadVars, ser, next, result>>

\* drop(tx); tokio::join!(upload_future, write_task)
StartUpload ==
    /\ pc = "audited"
    /\ pc' = "joining"
    /\ senders' = senders \ {"main"}
    /\ up' = "create"
    /\ UNCHANGED <<chan, rxOpen, permitOpt, body, task, completed, success,
                   storageVars, faults, ser, next, audited, result>>

Return_ignoresUpload ==
    /\ pc = "joining"
    /\ up \in {"ok", "err"}
    /\ ser \in {"ok", "err", "panic"}
    /\ pc' = "returned"
    /\ result' = IF ser # "ok" THEN "SerializationError" ELSE "Ok"
    /\ UNCHANGED <<uploadVars, ser, next, audited>>

\* write_res is looked at first, then upload_res
Return ==
    /\ pc = "joining"
    /\ up \in {"ok", "err"}
    /\ ser \in {"ok", "err", "panic"}
    /\ pc' = "returned"
    /\ result' = IF ser # "ok" THEN "SerializationError"
                 ELSE IF up = "err" THEN "UploadFailed" ELSE "Ok"
    /\ UNCHANGED <<uploadVars, ser, next, audited>>

-----------------------------------------------------------------------------
(* The serializer thread.                                                  *)

HasRoom == rxOpen /\ Len(chan) < ChannelCap

\* one blocking_send of ChannelWriter::write or ChannelWriter::flush
SendChunk ==
    /\ ser = "run"
    /\ next <= NumChunks
    /\ HasRoom
    /\ chan' = Append(chan, Data(next))
    /\ next' = next + 1
    /\ UNCHANGED <<senders, rxOpen, uploaderVars, storageVars, faults, pc, ser, audited, result>>

\* the receiver is gone: has_failed, the closure returns Err and drops its tx
SendRefused ==
    /\ ser = "run"
    /\ next <= NumChunks
    /\ ~rxOpen
    /\ ser' = "err"
    /\ senders' = senders \ {"task"}
    /\ UNCHANGED <<chan, rxOpen, uploaderVars, storageVars, faults, pc, next, audited, result>>

\* try_new, write or close fails, or the closure panics
SerializerFails ==
    /\ ser = "run"
    /\ next <= NumChunks
    /\ ser' = "unwind"
    /\ faults' = faults \cup {"serializer"}
    /\ UNCHANGED <<channelVars, uploaderVars, storageVars, pc, next, audited, result>>

\* dropping the ArrowWriter drops the sink, whose Drop flushes what it holds;
\* the send is skipped when the buffer is empty and ignored when it fails
Unwind(o) ==
    /\ ser = "unwind"
    /\ \/ HasRoom /\ chan' = Append(chan, Data(Torn))
       \/ UNCHANGED chan
    /\ ser' = o
    /\ senders' = senders \ {"task"}
    /\ UNCHANGED <<rxOpen, uploaderVars, storageVars, faults, pc, next, audited, result>>

\* let _ = tx_clone.blocking_send(StreamItem::Success); Ok(())
SignalSuccess ==
    /\ ser = "run"
    /\ next = NumChunks + 1
    /\ \/ HasRoom /\ chan' = Append(chan, Success)
       \/ ~rxOpen /\ UNCHANGED chan
    /\ ser' = "ok"
    /\ senders' = senders \ {"task"}
    /\ UNCHANGED <<rxOpen, uploaderVars, storageVars, faults, pc, next, audited, result>>

-----------------------------------------------------------------------------

\* The process dies.  What it sent to the service may still be carried out;
\* the audit buffer is lost with it, but the event had been recorded.
Crash ==
    /\ pc # "crashed"
    /\ pc' = "crashed"
    /\ ser' = "dead"
    /\ up' = "dead"
    /\ rxOpen' = FALSE
    /\ chan' = <<>>
    /\ senders' = {}
    /\ permitOpt' = FALSE
    /\ task' = TasksDropped(task)
    /\ faults' = faults \cup {"crash"}
    /\ UNCHANGED <<body, completed, success, storageVars, next, audited, result>>

Serializer ==
    \/ SendChunk \/ SendRefused \/ SerializerFails \/ SignalSuccess
    \/ \E o \in {"err", "panic"} : Unwind(o)

Writer ==
    \/ \E e \in RejectError : Reject(e)
    \/ SpawnSerializer \/ PushAudit \/ StartUpload \/ Return

Quiescent ==
    /\ pc \in {"returned", "crashed"}
    /\ completeReq # "sent"
    /\ abortReq # "sent"

\* nothing is left to do
Done == Quiescent /\ UNCHANGED vars

Next ==
    \/ Writer
    \/ Serializer
    \/ Uploader /\ UNCHANGED writeVars
    \/ Storage /\ UNCHANGED writeVars
    \/ Crash
    \/ Done

(***************************************************************************)
(* Fairness.  The tokio runtime and the blocking pool run what is ready,   *)
(* select! starts at a random branch, and the service (or the SDK, by a    *)
(* timeout) answers every request.  Failures and crashes are never forced: *)
(* they occur only as one of the answers.                                  *)
(***************************************************************************)
UploaderStep ==
    \/ AcquirePermit \/ RecvData \/ RecvSuccess \/ RecvNone
    \/ \E p \in DOMAIN task : JoinOk(p) \/ JoinErr(p)
    \/ AbortIncomplete \/ SendComplete
    \/ CompleteAcked \/ CompleteRefused

Fairness ==
    /\ WF_vars(Writer)
    /\ WF_vars(Serializer)
    /\ WF_vars(UploaderStep /\ UNCHANGED writeVars)
    /\ WF_vars((Create \/ CreateFails) /\ UNCHANGED writeVars)
    /\ \A p \in 1 .. NumChunks :
            WF_vars(p \in DOMAIN task /\ PartAnswered(p) /\ UNCHANGED writeVars)
    /\ WF_vars(CommitAnswered /\ UNCHANGED writeVars)
    /\ WF_vars(AbortAnswered /\ UNCHANGED writeVars)

Spec == Init /\ [][Next]_vars

FairSpec == Spec /\ Fairness

-----------------------------------------------------------------------------
(* Safety.                                                                 *)

UploadFaults == {"create", "part", "complete", "timeout"}

\* A reader of the key sees no object or the whole file: never the chunks of a
\* serializer that died, never parts in the order they happened to finish,
\* never without a part that was still in flight (pme_encrypt.rs:451-504).
WholeOrNothing == object \in {NoObject, WholeFile}

\* "Record write audit event *before* remote side effect"
\* (write_orchestrator.rs:284): nothing exists at the service unaudited.
AuditBeforeEffect == mpu # "none" \/ object # NoObject => audited

\* write() answers Ok only when the whole object is visible, whatever failed,
\* timed out or was dropped on the way.
OkMeansVisible == result = "Ok" => object = WholeFile

\* The put is atomic, audited first and truthfully acknowledged: what the
\* serializer, the uploader and the guard must achieve together.
Safe == WholeOrNothing /\ AuditBeforeEffect /\ OkMeansVisible

\* Only a completion whose answer was lost can make a write visible that
\* reported an error; every other failure leaves the key as it was, for good.
FailedMeansInvisible ==
    result \in RejectError \cup JoinError /\ "timeout" \notin faults => object = NoObject

\* No interleaving of serializer, uploader and parts fails by itself: an error
\* can be traced to a failure of the environment, and UploadFailed to one of
\* the upload's requests (a serializer failure is never reported as such).
NoSpuriousFailure ==
    /\ result = "UploadFailed" => faults \cap UploadFaults # {}
    /\ result = "SerializationError" => faults \cap (UploadFaults \cup {"serializer"}) # {}

\* An error of write() means what it says: nothing was written, and there was
\* a failure that caused it.
HonestErrors == FailedMeansInvisible /\ NoSpuriousFailure

-----------------------------------------------------------------------------
(* Liveness, under FairSpec.                                               *)

\* write() returns: no wait of the serializer on a full channel, of the loop
\* on a permit or an item, or of the join on either of them lasts for ever.
Returns == <>(pc \in {"returned", "crashed"})

\* A write that returned leaves no multipart upload behind at the service
\* unless the abort itself failed, the upload id never arrived, or the
\* process died.
NoOrphanUpload ==
    pc = "returned" ~> (mpu # "open" \/ faults \cap {"create", "abort", "crash"} # {})

\* Every write settles: the call returns and the service is left tidy.
Settles == Returns /\ NoOrphanUpload

-----------------------------------------------------------------------------
(* The pipeline implements the atomic put.                                 *)

AP == INSTANCE AtomicPut WITH
    Whole <- WholeFile,
    Errors <- RejectError \cup JoinError,
    outcome <- result

\* The steps of the pipeline are steps of an atomic put to the key.
ImplementsAtomicPut == AP!Spec
=============================================================================
