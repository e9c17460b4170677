------------------------------ MODULE PyWriter ------------------------------
(***************************************************************************)
(* The Python context manager holonomy.Writer (holonomy-py/src/writer.rs)  *)
(* over manager::channel_writer::ChannelWriter.  write_batch hands batches *)
(* to a background thread that serializes them into one buffer; a clean    *)
(* __exit__ closes the batch channel, waits on a oneshot for the buffer,   *)
(* feeds it to upload_stream (UploadStream) and then records the audit     *)
(* event; an exception in the with block drops everything.                 *)
(*                                                                         *)
(* A batch is the number of its write_batch call and whether the contract  *)
(* accepts it.  The caller may catch an error of write_batch and go on.    *)
(* Bounds: MaxBatches calls of write_batch, one with block per Writer.     *)
(***************************************************************************)
EXTENDS UploadStream

CONSTANTS
    MaxBatches,     \* bound: calls of write_batch
    BatchCap        \* mpsc::channel::<RecordBatch>(10)

ASSUME MaxBatchesAssumption == MaxBatches \in Nat
ASSUME BatchCapAssumption == BatchCap \in Nat \ {0}

Batches == (1 .. MaxBatches) \X BOOLEAN

\* what one serialized file holds
Files == UNION {[1 .. n -> Batches] : n \in 0 .. MaxBatches}

ASSUME PayloadsAssumption == Payloads = Files

FeedCap_one == 1
FeedCap == 2        \* the channel __exit__ fills before anyone receives

VARIABLES
    w,          \* where the with block is
    calls,      \* write_batch calls made
    accepted,   \* batches whose write_batch returned Ok, in order
    bchan,      \* the batch channel
    thread,     \* the serialization thread
    buffer,     \* what it has serialized
    oneshot,    \* its result channel
    audited,
    result      \* what __exit__ gave the caller

writerVars == <<w, calls, accepted, bchan, thread, buffer, oneshot, audited, result>>
vars == <<uploadVars, writerVars>>

TypeOK ==
    /\ UploadTypeOK
    /\ senders \subseteq {"exit"}
    /\ w \in {"empty", "open", "closing", "feedData", "feedSuccess", "uploading", "exited", "crashed"}
    /\ calls \in 0 .. MaxBatches
    /\ accepted \in Files
    /\ bchan \in Files
    /\ Len(bchan) <= BatchCap
    /\ thread \in {"none", "run", "done"}
    /\ buffer \in Files
    /\ oneshot \in {"empty", "buffer", "err"}
    /\ audited \in BOOLEAN
    /\ result \in {"none", "Ok", "Exception", "Err"}

Init ==
    /\ UploadInit
    /\ w = "empty"
    /\ calls = 0
    /\ accepted = <<>>
    /\ bchan = <<>>
    /\ thread = "none"
    /\ buffer = <<>>
    /\ oneshot = "empty"
    /\ audited = FALSE
    /\ result = "none"

-----------------------------------------------------------------------------
(* write_batch                                                             *)

\* state is None: purpose, contract, linter, policy or keys fail, state stays
\* None; the linter looks at this batch only
FirstBatchFails ==
    /\ w = "empty"
    /\ calls < MaxBatches
    /\ calls' = calls + 1
    /\ UNCHANGED <<uploadVars, w, accepted, bchan, thread, buffer, oneshot, audited, result>>

FirstBatch(ok) ==
    /\ w = "empty"
    /\ calls < MaxBatches
    /\ ok
    /\ calls' = calls + 1
    /\ w' = "open"
    /\ thread' = "run"
    /\ bchan' = <<<<calls + 1, ok>>>>
    /\ accepted' = <<<<calls + 1, ok>>>>
    /\ UNCHANGED <<uploadVars, buffer, oneshot, audited, result>>

\* the thread could not build its ArrowWriter and is gone before the send:
\* write_batch fails, but the state stays
FirstSendFails ==
    /\ w = "empty"
    /\ calls < MaxBatches
    /\ calls' = calls + 1
    /\ w' = "open"
    /\ thread' = "done"
    /\ oneshot' = "err"
    /\ faults' = faults \cup {"serializer"}
    /\ UNCHANGED <<channelVars, uploaderVars, storageVars, accepted, bchan, buffer, audited, result>>

\* state is Some: the batch goes straight to the thread
NextBatch_ignoresCapacity(ok) ==
    /\ w = "open"
    /\ calls < MaxBatches
    /\ thread = "run"
    /\ calls' = calls + 1
    /\ bchan' = Append(bchan, <<calls + 1, ok>>)
    /\ accepted' = Append(accepted, <<calls + 1, ok>>)
    /\ UNCHANGED <<uploadVars, w, thread, buffer, oneshot, audited, result>>

NextBatch(ok) ==
    /\ w = "open"
    /\ calls < MaxBatches
    /\ thread = "run"
    /\ Len(bchan) < BatchCap
    /\ calls' = calls + 1
    /\ bchan' = Append(bchan, <<calls + 1, ok>>)
    /\ accepted' = Append(accepted, <<calls + 1, ok>>)
    /\ UNCHANGED <<uploadVars, w, thread, buffer, oneshot, audited, result>>

\* the thread is gone, and with it the receiver of the channel
NextBatchFails ==
    /\ w = "open"
    /\ calls < MaxBatches
    /\ thread = "done"
    /\ calls' = calls + 1
    /\ UNCHANGED <<uploadVars, w, accepted, bchan, thread, buffer, oneshot, audited, result>>

-----------------------------------------------------------------------------
(* ChannelWriter's thread                                                  *)

SerializeBatch ==
    /\ thread = "run"
    /\ bchan # <<>>
    /\ buffer' = Append(buffer, Head(bchan))
    /\ bchan' = Tail(bchan)
    /\ UNCHANGED <<uploadVars, w, calls, accepted, thread, oneshot, audited, result>>

\* try_new, write or close fails, or the thread panics (which drops result_tx)
SerializationFails ==
    /\ thread = "run"
    /\ thread' = "done"
    /\ oneshot' = "err"
    /\ bchan' = <<>>
    /\ faults' = faults \cup {"serializer"}
    /\ UNCHANGED <<channelVars, uploaderVars, storageVars, w, calls, accepted, buffer, audited, result>>

TxDropped == w \notin {"empty", "open"}

FinishFile_early ==
    /\ thread = "run"
    /\ TxDropped
    /\ thread' = "done"
    /\ oneshot' = "buffer"
    /\ UNCHANGED <<uploadVars, w, calls, accepted, bchan, buffer, audited, result>>

\* the channel is closed and drained: ArrowWriter::close, result_tx.send(Ok)
FinishFile ==
    /\ thread = "run"
    /\ bchan = <<>>
    /\ TxDropped
    /\ thread' = "done"
    /\ oneshot' = "buffer"
    /\ UNCHANGED <<uploadVars, w, calls, accepted, bchan, buffer, audited, result>>

-----------------------------------------------------------------------------
(* __exit__                                                                *)

\* exc_type.is_some(): the state is dropped; the thread drains what it was
\* sent and finds nobody to give the buffer to
ExitException ==
    /\ w \in {"empty", "open"}
    /\ w' = "exited"
    /\ result' = "Exception"
    /\ UNCHANGED <<uploadVars, calls, accepted, bchan, thread, buffer, oneshot, audited>>

\* no batch was ever accepted: nothing is written
ExitEmpty ==
    /\ w = "empty"
    /\ w' = "exited"
    /\ result' = "Ok"
    /\ UNCHANGED <<uploadVars, calls, accepted, bchan, thread, buffer, oneshot, audited>>

ExitClose ==
    /\ w = "open"
    /\ w' = "closing"
    /\ UNCHANGED <<uploadVars, calls, accepted, bchan, thread, buffer, oneshot, audited, result>>

ReceiveBuffer ==
    /\ w = "closing"
    /\ oneshot = "buffer"
    /\ w' = "feedData"
    /\ senders' = {"exit"}
    /\ UNCHANGED <<chan, rxOpen, uploaderVars, storageVars, faults,
                   calls, accepted, bchan, thread, buffer, oneshot, audited, result>>

ReceiveError ==
    /\ w = "closing"
    /\ oneshot = "err"
    /\ w' = "exited"
    /\ result' = "Err"
    /\ UNCHANGED <<uploadVars, calls, accepted, bchan, thread, buffer, oneshot, audited>>

Feed(from, item, to) ==
    /\ w = from
    /\ Len(chan) < FeedCap
    /\ chan' = Append(chan, item)
    /\ w' = to
    /\ UNCHANGED <<senders, rxOpen, storageVars, faults, permitOpt, body, task, completed, success,
                   calls, accepted, bchan, thread, buffer, oneshot, audited, result>>

\* two sends that nobody receives yet, then upload_stream; tx outlives it
FeedData == Feed("feedData", Data(buffer), "feedSuccess") /\ UNCHANGED up
FeedSuccess == Feed("feedSuccess", Success, "uploading") /\ up' = "create"

\* the audit event follows the upload
ExitOk ==
    /\ w = "uploading"
    /\ up = "ok"
    /\ audited' = TRUE
    /\ w' = "exited"
    /\ result' = "Ok"
    /\ UNCHANGED <<uploadVars, calls, accepted, bchan, thread, buffer, oneshot>>

ExitErr ==
    /\ w = "uploading"
    /\ up = "err"
    /\ w' = "exited"
    /\ result' = "Err"
    /\ UNCHANGED <<uploadVars, calls, accepted, bchan, thread, buffer, oneshot, audited>>

Crash ==
    /\ w # "crashed"
    /\ w' = "crashed"
    /\ thread' = "done"
    /\ bchan' = <<>>
    /\ up' = "dead"
    /\ rxOpen' = FALSE
    /\ chan' = <<>>
    /\ senders' = {}
    /\ permitOpt' = FALSE
    /\ task' = TasksDropped(task)
    /\ faults' = faults \cup {"crash"}
    /\ UNCHANGED <<body, completed, success, storageVars,
                   calls, accepted, buffer, oneshot, audited, result>>

-----------------------------------------------------------------------------

Caller ==
    \/ \E ok \in BOOLEAN : FirstBatch(ok) \/ NextBatch(ok)
    \/ FirstBatchFails \/ FirstSendFails \/ NextBatchFails
    \/ ExitException \/ ExitEmpty \/ ExitClose

Exit ==
    \/ ReceiveBuffer \/ ReceiveError \/ FeedData \/ FeedSuccess \/ ExitOk \/ ExitErr

Thread == SerializeBatch \/ FinishFile

Done ==
    /\ w \in {"exited", "crashed"}
    /\ thread # "run" /\ completeReq # "sent" /\ abortReq # "sent"
    /\ UNCHANGED vars

Next ==
    \/ Caller
    \/ Exit
    \/ Thread \/ SerializationFails
    \/ Uploader /\ UNCHANGED writerVars
    \/ Storage /\ UNCHANGED writerVars
    \/ Crash
    \/ Done

Spec == Init /\ [][Next]_vars

\* The runtime schedules what is ready and requests are answered; the caller
\* is free to stay in the with block.
FairSpec ==
    /\ Spec
    /\ WF_vars(Exit) /\ WF_vars(Thread)
    /\ WF_vars(Uploader /\ UNCHANGED writerVars)
    /\ WF_vars((1 \in DOMAIN task /\ PartAnswered(1)) /\ UNCHANGED writerVars)
    /\ WF_vars(CommitAnswered /\ UNCHANGED writerVars)
    /\ WF_vars(AbortAnswered /\ UNCHANGED writerVars)

-----------------------------------------------------------------------------
(* Safety.                                                                 *)

\* The object is the batches whose write_batch returned Ok, all of them, once,
\* in order: none is left in the channel, cut off by a failing thread, or
\* added after the file was closed.
WrittenInOrder == object \in {NoObject, <<accepted>>}

\* "If an exception occurs inside the with block, the upload is aborted"
\* (docs/api/python_sdk.md:96): nothing of it ever reaches the service.
ExceptionWritesNothing == result = "Exception" => mpu = "none" /\ object = NoObject /\ ~audited

\* A clean exit of a block that wrote something means a visible object and a
\* recorded event.
OkMeansStored ==
    result = "Ok" => (accepted = <<>> \/ (object = <<accepted>> /\ audited))

\* After the exit the audit trail agrees with the store: an event only for a
\* visible object, and a visible object without one only if the answer of the
\* completion was lost or the process died between the two.
AuditAgrees ==
    /\ audited => object # NoObject
    /\ object # NoObject /\ w \in {"exited", "crashed"} =>
            audited \/ faults \cap {"timeout", "crash"} # {}

\* The batch that decides the schema of the file and the keys it is encrypted
\* under is one the contract accepted; of later ones nothing is known
\* (writer.rs:65-227).
OpenedByLintedBatch == object # NoObject => object[1][1][2]

\* How the with block ended says what is stored: the store, the audit trail and
\* the result agree on every way out of it.
ExitTellsTruth ==
    /\ WrittenInOrder /\ ExceptionWritesNothing
    /\ OkMeansStored /\ AuditAgrees /\ OpenedByLintedBatch

-----------------------------------------------------------------------------
(* Liveness, under FairSpec.                                               *)

\* A clean exit ends: it waits neither on a thread that is gone nor on a
\* channel nobody reads (writer.rs:268-275).
ExitEnds == w = "closing" ~> w \in {"exited", "crashed"}
=============================================================================
