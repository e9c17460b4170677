----------------------------- MODULE ScanPipeline -----------------------------
(***************************************************************************)
(* ScanOrchestrator::scan (manager/scan_orchestrator.rs).  After its       *)
(* guards, the call opens the first file, records one Read event and       *)
(* spawns two tasks.  The prefetch task opens up to OpenAhead files at     *)
(* once, in order (futures::StreamExt::buffered), and sends each opened    *)
(* stream, or the error, on a bounded channel.  The scan task takes one    *)
(* stream after the other, filters and masks its batches and sends them on *)
(* a second bounded channel, from which ScanIterator::next reads on the    *)
(* caller's thread.  The caller may drop the iterator at any point.        *)
(*                                                                         *)
(* A file is the number of batches its surviving row groups give; the      *)
(* filter, masking and padding of a batch succeed, or fail as one step.    *)
(* Bound: the files and their sizes, Shapes.                               *)
(*                                                                         *)
(* ScanProofs extends this module and ScanRows, so the usual names carry   *)
(* the prefix Pipe.                                                        *)
(***************************************************************************)
EXTENDS Integers, Sequences, FiniteSets

CONSTANTS
    NumFiles,   \* targets.len()
    Shapes,     \* the sizes the files may have
    OpenAhead,  \* .buffered(2)
    StreamCap,  \* mpsc::channel(2), of opened streams
    OutCap      \* mpsc::channel(10), of batches

Targets == 1 .. NumFiles

ASSUME NumFilesAssumption == NumFiles \in Nat \ {0}
ASSUME ShapesAssumption == Shapes \subseteq [Targets -> Nat]
ASSUME CapAssumption == OpenAhead \in Nat \ {0} /\ StreamCap \in Nat \ {0} /\ OutCap \in Nat \ {0}

VARIABLES
    size,       \* size[f]: batches of file f
    opened,     \* opened[f]: "no", "ok", or "err": the builder or the stream failed
    yielded,    \* files `buffered` has handed over, in order
    prefetch,   \* the prefetch task
    streams,    \* the channel of opened streams, by file
    task,       \* the scan task
    cur,        \* the file it is in
    pos,        \* batches of it that were sent
    batches,    \* the channel of batches
    reader,     \* the iterator
    got,        \* what it has yielded
    audited,    \* the Read event is in the audit buffer
    broken      \* a task panicked

fileVars == <<opened, yielded, prefetch>>
taskVars == <<task, cur, pos>>
readerVars == <<reader, got>>
pipeVars == <<size, fileVars, streams, taskVars, batches, readerVars, audited, broken>>

Batch(f, b) == [kind |-> "batch", file |-> f, number |-> b]
Error(f) == [kind |-> "error", file |-> f]
Fatal(f) == [kind |-> "fatal", file |-> f]
Items ==
    UNION {{Error(f), Fatal(f)} \cup {Batch(f, b) : b \in 1 .. size[f]} : f \in Targets}

PipeTypeOK ==
    /\ size \in Shapes
    /\ opened \in [Targets -> {"no", "ok", "err"}]
    /\ yielded \in 0 .. NumFiles
    /\ prefetch \in {"none", "poll", "send", "done"}
    /\ streams \in Seq(Targets) /\ Len(streams) <= StreamCap
    /\ task \in {"none", "recv", "read", "batch", "error", "fatal", "done"}
    /\ cur \in Targets
    /\ pos \in 0 .. size[cur]
    /\ batches \in Seq(Items) /\ Len(batches) <= OutCap
    /\ reader \in {"none", "open", "ended", "closed"}
    /\ got \in Seq(Items)
    /\ audited \in BOOLEAN
    /\ broken \in BOOLEAN

PipeInit ==
    /\ size \in Shapes
    /\ opened = [f \in Targets |-> "no"]
    /\ yielded = 0
    /\ prefetch = "none"
    /\ streams = <<>>
    /\ task = "none"
    /\ cur = 1
    /\ pos = 0
    /\ batches = <<>>
    /\ reader = "none"
    /\ got = <<>>
    /\ audited = FALSE
    /\ broken = FALSE

-----------------------------------------------------------------------------
(* scan(), up to its return.                                               *)

\* purpose, targets, policies, the first file's footer, a global row filter on
\* a column the first file lacks
Reject ==
    /\ reader = "none"
    /\ reader' = "closed"
    /\ UNCHANGED <<size, fileVars, streams, taskVars, batches, got, audited, broken>>

Start ==
    /\ reader = "none"
    /\ audited' = TRUE
    /\ prefetch' = "poll"
    /\ task' = "recv"
    /\ reader' = "open"
    /\ UNCHANGED <<size, opened, yielded, streams, cur, pos, batches, got, broken>>

-----------------------------------------------------------------------------
(* The prefetch task.                                                      *)

\* the futures in flight; they make progress only while `buffered` is polled
Ahead_one(f) == prefetch = "poll" /\ f \in yielded + 1 .. yielded + OpenAhead + 1
Ahead(f) == prefetch = "poll" /\ f \in yielded + 1 .. yielded + OpenAhead

OpenFile(f, how) ==
    /\ Ahead(f)
    /\ opened[f] = "no"
    /\ opened' = [opened EXCEPT ![f] = how]
    /\ UNCHANGED <<size, yielded, prefetch, streams, taskVars, batches, readerVars, audited, broken>>

\* buffered keeps the order of the targets, whichever is opened first
Yield ==
    /\ prefetch = "poll"
    /\ yielded < NumFiles
    /\ opened[yielded + 1] # "no"
    /\ yielded' = yielded + 1
    /\ prefetch' = "send"
    /\ UNCHANGED <<size, opened, streams, taskVars, batches, readerVars, audited, broken>>

PrefetchEnds ==
    /\ prefetch = "poll"
    /\ yielded = NumFiles
    /\ prefetch' = "done"
    /\ UNCHANGED <<size, opened, yielded, streams, taskVars, batches, readerVars, audited, broken>>

SendStream ==
    /\ prefetch = "send"
    /\ task # "done"
    /\ Len(streams) < StreamCap
    /\ streams' = Append(streams, yielded)
    /\ prefetch' = "poll"
    /\ UNCHANGED <<size, opened, yielded, taskVars, batches, readerVars, audited, broken>>

\* the scan task has dropped stream_rx
SendStreamRefused ==
    /\ prefetch = "send"
    /\ task = "done"
    /\ prefetch' = "done"
    /\ UNCHANGED <<size, opened, yielded, streams, taskVars, batches, readerVars, audited, broken>>

-----------------------------------------------------------------------------
(* The scan task.                                                          *)

TakeStream ==
    /\ task = "recv"
    /\ streams # <<>>
    /\ cur' = Head(streams)
    /\ pos' = 0
    /\ streams' = Tail(streams)
    /\ task' = IF opened[Head(streams)] = "ok" THEN "read" ELSE "fatal"
    /\ UNCHANGED <<size, fileVars, batches, readerVars, audited, broken>>

\* recv() yields None: the end of the targets, or a prefetch task that panicked
StreamsEnd ==
    /\ task = "recv"
    /\ streams = <<>>
    /\ prefetch = "done"
    /\ task' = "done"
    /\ UNCHANGED <<size, fileVars, streams, cur, pos, batches, readerVars, audited, broken>>

ReadBatch ==
    /\ task = "read"
    /\ pos < size[cur]
    /\ task' = "batch"
    /\ UNCHANGED <<size, fileVars, streams, cur, pos, batches, readerVars, audited, broken>>

\* the read, a row filter, the projection, a mask or the assembly fails
BatchFails_unseen ==
    /\ task = "read"
    /\ pos < size[cur]
    /\ task' = "recv"
    /\ UNCHANGED <<size, fileVars, streams, cur, pos, batches, readerVars, audited, broken>>

BatchFails ==
    /\ task = "read"
    /\ pos < size[cur]
    /\ task' = "error"
    /\ UNCHANGED <<size, fileVars, streams, cur, pos, batches, readerVars, audited, broken>>

StreamRead ==
    /\ task = "read"
    /\ pos = size[cur]
    /\ task' = "recv"
    /\ UNCHANGED <<size, fileVars, streams, cur, pos, batches, readerVars, audited, broken>>

HasRoom_always == TRUE
HasRoom == Len(batches) < OutCap

SendBatch ==
    /\ task = "batch"
    /\ reader = "open" /\ HasRoom
    /\ batches' = Append(batches, Batch(cur, pos + 1))
    /\ pos' = pos + 1
    /\ task' = "read"
    /\ UNCHANGED <<size, fileVars, streams, cur, readerVars, audited, broken>>

SendBatchRefused_retried ==
    /\ task = "batch"
    /\ reader # "open"
    /\ UNCHANGED pipeVars

\* the iterator is gone: this file is left, but the next one is still read
SendBatchRefused ==
    /\ task = "batch"
    /\ reader # "open"
    /\ task' = "recv"
    /\ UNCHANGED <<size, fileVars, streams, cur, pos, batches, readerVars, audited, broken>>

\* let _ = tx.send(Err(e)).await, then break out of the loop it is in
SendError(item, to) ==
    /\ \/ reader = "open" /\ HasRoom /\ batches' = Append(batches, item)
       \/ reader # "open" /\ UNCHANGED batches
    /\ task' = to
    /\ streams' = IF to = "done" THEN <<>> ELSE streams
    /\ UNCHANGED <<size, fileVars, cur, pos, readerVars, audited, broken>>

\* an error inside a file leaves the file, one at its opening ends the scan
SendFileError == task = "error" /\ SendError(Error(cur), "recv")
SendOpenError == task = "fatal" /\ SendError(Fatal(cur), "done")

-----------------------------------------------------------------------------
(* ScanIterator, on the caller's thread.                                   *)

NextItem ==
    /\ reader = "open"
    /\ batches # <<>>
    /\ got' = Append(got, Head(batches))
    /\ batches' = Tail(batches)
    /\ UNCHANGED <<size, fileVars, streams, taskVars, reader, audited, broken>>

NextNone ==
    /\ reader = "open"
    /\ batches = <<>>
    /\ task = "done"
    /\ reader' = "ended"
    /\ UNCHANGED <<size, fileVars, streams, taskVars, batches, got, audited, broken>>

DropIterator ==
    /\ reader = "open"
    /\ reader' = "closed"
    /\ batches' = <<>>
    /\ UNCHANGED <<size, fileVars, streams, taskVars, got, audited, broken>>

-----------------------------------------------------------------------------
(* A panic inside a spawned task is caught by the runtime, and nobody      *)
(* joins the tasks: it only drops their ends of the channels.              *)

PrefetchPanics ==
    /\ prefetch = "poll"
    /\ yielded < NumFiles
    /\ prefetch' = "done"
    /\ broken' = TRUE
    /\ UNCHANGED <<size, opened, yielded, streams, taskVars, batches, readerVars, audited>>

TaskPanics ==
    /\ task = "read"
    /\ task' = "done"
    /\ streams' = <<>>
    /\ broken' = TRUE
    /\ UNCHANGED <<size, fileVars, cur, pos, batches, readerVars, audited>>

-----------------------------------------------------------------------------

Prefetch ==
    \/ \E f \in Targets : OpenFile(f, "ok") \/ OpenFile(f, "err")
    \/ Yield \/ PrefetchEnds \/ SendStream \/ SendStreamRefused

Task ==
    \/ TakeStream \/ StreamsEnd
    \/ ReadBatch \/ BatchFails \/ StreamRead
    \/ SendBatch \/ SendBatchRefused \/ SendFileError \/ SendOpenError

Iterator == NextItem \/ NextNone

PipeDone ==
    /\ reader \in {"ended", "closed"}
    /\ prefetch \in {"none", "done"}
    /\ task \in {"none", "done"}
    /\ UNCHANGED pipeVars

PipeNext ==
    \/ Reject \/ Start
    \/ Prefetch \/ Task
    \/ Iterator \/ DropIterator
    \/ PrefetchPanics \/ TaskPanics
    \/ PipeDone

PipeSpec == PipeInit /\ [][PipeNext]_pipeVars

\* The runtime polls both tasks, requests are answered, and a caller that did
\* not drop the iterator goes on reading it.  Nobody has to drop it or panic.
PipeFairSpec == PipeSpec /\ WF_pipeVars(Prefetch) /\ WF_pipeVars(Task) /\ WF_pipeVars(Iterator)

-----------------------------------------------------------------------------
(* Safety.                                                                 *)

\* files whose stream is open and not yet finished with
OpenFiles ==
    {f \in Targets : opened[f] = "ok" /\ prefetch # "done"
                        /\ (f > yielded \/ (f = yielded /\ prefetch = "send"))}
        \cup {f \in Targets : \E i \in DOMAIN streams : streams[i] = f}
        \cup (IF task \in {"read", "batch", "error"} THEN {cur} ELSE {})

\* However slow the caller, prefetching stops at a fixed number of open files
\* (scan_orchestrator.rs:1090-1094): those in flight, those in the channel and
\* the one being read.
BoundedOpenFiles == Cardinality(OpenFiles) <= OpenAhead + StreamCap + 1

\* The pipeline implements the sequential scan.
SR == INSTANCE ScanResult WITH log <- got, status <- reader

\* What the iterator yields is a sequential scan of the files, in which
\* nothing is reordered, doubled or missing without an error.
ImplementsScanResult == SR!Spec

-----------------------------------------------------------------------------
(* Liveness, under FairSpec.                                               *)

\* A scan ends, and both tasks with it, whether the caller reads to the end or
\* drops the iterator while they wait on the full channels.
ScanEnds ==
    reader = "open" ~> (reader \in {"ended", "closed"} /\ prefetch = "done" /\ task = "done")
=============================================================================
