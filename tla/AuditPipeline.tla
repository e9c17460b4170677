---------------------------- MODULE AuditPipeline ----------------------------
(***************************************************************************)
(* The audit path: AuditRingBuffer (audit/ring_buffer.rs), a bounded       *)
(* lock-free queue that every reader, writer and key administrator pushes  *)
(* into, and AuditBroadcaster (audit/broadcaster.rs), the one task that    *)
(* pops batches and hands them to a sink.                                  *)
(*                                                                         *)
(* The queue's own push and pop are atomic (crossbeam's ArrayQueue); the   *)
(* loop of AuditRingBuffer::push around them is not: between a push that   *)
(* found the queue full and the pop that makes room, other pushers and the *)
(* broadcaster run.                                                        *)
(*                                                                         *)
(* Bound: every pusher records at most MaxEvents events.  The sleeps of an *)
(* idle broadcaster and of the backoff change no state and are left out.   *)
(***************************************************************************)
EXTENDS Integers, Sequences, FiniteSets

CONSTANTS
    Pushers,     \* threads that record audit events
    MaxEvents,   \* bound: events per pusher
    Capacity,    \* AuditRingBuffer::new(capacity)
    BatchSize,   \* batch_size
    MaxRetries   \* max_retries

ASSUME MaxEventsAssumption == MaxEvents \in Nat
ASSUME CapacityAssumption == Capacity \in Nat \ {0}
ASSUME BatchSizeAssumption == BatchSize \in Nat \ {0}
ASSUME MaxRetriesAssumption == MaxRetries \in Nat

VARIABLES
    begun,      \* begun[p]: pushes p has started
    pushing,    \* pushing[p]: where p is in push()
    queue,      \* the ArrayQueue, oldest event first
    dropped,    \* events popped by a pusher to make room
    batch,      \* the broadcaster's batch
    sending,    \* it has left the collecting loop
    retries,
    pool,       \* batches handed to the blocking pool, not yet in the file
    received,   \* what the sink got, in order
    acked,      \* events of batches that were delivered
    lost,       \* events of batches that were given up
    sink        \* SinkConfig

bufferVars == <<begun, pushing, queue, dropped>>
broadcasterVars == <<batch, sending, retries, pool, received, acked, lost, sink>>
vars == <<bufferVars, broadcasterVars>>

\* the k-th event of pusher p
Events == Pushers \X (1 .. MaxEvents)

SinkConfig == {"Stdout", "LocalFile", "SaaS"}

Elements(s) == {s[i] : i \in DOMAIN s}

TypeOK ==
    /\ begun \in [Pushers -> 0 .. MaxEvents]
    /\ pushing \in [Pushers -> {"idle", "push", "evict"}]
    /\ queue \in Seq(Events)
    /\ Len(queue) <= Capacity
    /\ dropped \subseteq Events
    /\ batch \in Seq(Events)
    /\ Len(batch) <= BatchSize
    /\ sending \in BOOLEAN
    /\ retries \in 0 .. MaxRetries
    /\ \A b \in pool : b \in Seq(Events)
    /\ received \in Seq(Events)
    /\ acked \subseteq Events
    /\ lost \subseteq Events
    /\ sink \in SinkConfig

Init ==
    /\ begun = [p \in Pushers |-> 0]
    /\ pushing = [p \in Pushers |-> "idle"]
    /\ queue = <<>>
    /\ dropped = {}
    /\ batch = <<>>
    /\ sending = FALSE
    /\ retries = 0
    /\ pool = {}
    /\ received = <<>>
    /\ acked = {}
    /\ lost = {}
    /\ sink \in SinkConfig

-----------------------------------------------------------------------------
(* AuditRingBuffer::push                                                   *)

BeginPush(p) ==
    /\ pushing[p] = "idle"
    /\ begun[p] < MaxEvents
    /\ begun' = [begun EXCEPT ![p] = @ + 1]
    /\ pushing' = [pushing EXCEPT ![p] = "push"]
    /\ UNCHANGED <<queue, dropped, broadcasterVars>>

PushOk_unchecked(p) ==
    /\ pushing[p] = "push"
    /\ Len(queue) <= Capacity
    /\ queue' = Append(queue, <<p, begun[p]>>)
    /\ pushing' = [pushing EXCEPT ![p] = "idle"]
    /\ UNCHANGED <<begun, dropped, broadcasterVars>>

\* self.queue.push(e): Err hands the event back
PushOk(p) ==
    /\ pushing[p] = "push"
    /\ Len(queue) < Capacity
    /\ queue' = Append(queue, <<p, begun[p]>>)
    /\ pushing' = [pushing EXCEPT ![p] = "idle"]
    /\ UNCHANGED <<begun, dropped, broadcasterVars>>

PushFull(p) ==
    /\ pushing[p] = "push"
    /\ Len(queue) = Capacity
    /\ pushing' = [pushing EXCEPT ![p] = "evict"]
    /\ UNCHANGED <<begun, queue, dropped, broadcasterVars>>

\* the popped event is returned to the caller's loop in place of its own
Evict_forgetsOwn(p) ==
    /\ pushing[p] = "evict"
    /\ IF queue = <<>>
       THEN UNCHANGED <<queue, dropped>>
       ELSE /\ queue' = Tail(queue)
            /\ dropped' = dropped \cup {Head(queue)}
    /\ pushing' = [pushing EXCEPT ![p] = "idle"]
    /\ UNCHANGED <<begun, broadcasterVars>>

\* let _ = self.queue.pop(): None when the broadcaster emptied the queue since
Evict(p) ==
    /\ pushing[p] = "evict"
    /\ IF queue = <<>>
       THEN UNCHANGED <<queue, dropped>>
       ELSE /\ queue' = Tail(queue)
            /\ dropped' = dropped \cup {Head(queue)}
    /\ pushing' = [pushing EXCEPT ![p] = "push"]
    /\ UNCHANGED <<begun, broadcasterVars>>

-----------------------------------------------------------------------------
(* AuditBroadcaster::run                                                   *)

Collect_newest ==
    /\ ~sending
    /\ queue # <<>>
    /\ queue' = SubSeq(queue, 1, Len(queue) - 1)
    /\ batch' = Append(batch, queue[Len(queue)])
    /\ sending' = (Len(batch) + 1 >= BatchSize)
    /\ UNCHANGED <<begun, pushing, dropped, retries, pool, received, acked, lost, sink>>

Collect ==
    /\ ~sending
    /\ queue # <<>>
    /\ queue' = Tail(queue)
    /\ batch' = Append(batch, Head(queue))
    /\ sending' = (Len(batch) + 1 >= BatchSize)
    /\ UNCHANGED <<begun, pushing, dropped, retries, pool, received, acked, lost, sink>>

\* the queue ran dry before the batch was full; an empty batch sleeps instead
CloseBatch ==
    /\ ~sending
    /\ queue = <<>>
    /\ batch # <<>>
    /\ sending' = TRUE
    /\ UNCHANGED <<bufferVars, batch, retries, pool, received, acked, lost, sink>>

NextBatch ==
    /\ batch' = <<>>
    /\ sending' = FALSE
    /\ retries' = 0

\* println!, or a success status
Deliver ==
    /\ sending
    /\ sink # "LocalFile"
    /\ received' = received \o batch
    /\ acked' = acked \cup Elements(batch)
    /\ NextBatch
    /\ UNCHANGED <<bufferVars, pool, lost, sink>>

\* write_all of a tokio File hands its buffer to the blocking pool and is done;
\* the file is dropped without a flush
WriteFile ==
    /\ sending
    /\ sink = "LocalFile"
    /\ pool' = pool \cup {batch}
    /\ NextBatch
    /\ UNCHANGED <<bufferVars, received, acked, lost, sink>>

\* open fails: the error is printed and the batch is gone
FileFails ==
    /\ sending
    /\ sink = "LocalFile"
    /\ lost' = lost \cup Elements(batch)
    /\ NextBatch
    /\ UNCHANGED <<bufferVars, pool, received, acked, sink>>

\* the pool's threads get to the writes in any order; nobody is told when one
\* of them fails
PoolWrites(b) ==
    /\ pool' = pool \ {b}
    /\ received' = received \o b
    /\ acked' = acked \cup Elements(b)
    /\ UNCHANGED <<bufferVars, batch, sending, retries, lost, sink>>

PoolFails(b) ==
    /\ pool' = pool \ {b}
    /\ lost' = lost \cup Elements(b)
    /\ UNCHANGED <<bufferVars, batch, sending, retries, received, acked, sink>>

PostFails_forever ==
    /\ sending
    /\ sink = "SaaS"
    /\ retries' = (retries + 1) % (MaxRetries + 1)
    /\ UNCHANGED <<bufferVars, batch, sending, pool, received, acked, lost, sink>>

\* an error, a non-success status, or a success whose response was lost (the
\* sink has the batch, the broadcaster does not know)
PostFails ==
    /\ sending
    /\ sink = "SaaS"
    /\ received' \in {received, received \o batch}
    /\ IF retries + 1 > MaxRetries
       THEN /\ lost' = lost \cup Elements(batch)
            /\ NextBatch
       ELSE /\ retries' = retries + 1
            /\ UNCHANGED <<lost, batch, sending>>
    /\ UNCHANGED <<bufferVars, pool, acked, sink>>

-----------------------------------------------------------------------------

Push(p) == BeginPush(p) \/ PushOk(p) \/ PushFull(p) \/ Evict(p)

Broadcast == Collect \/ CloseBatch \/ Deliver \/ WriteFile \/ FileFails \/ PostFails

Pool == \E b \in pool : PoolWrites(b) \/ PoolFails(b)

Idle == \A p \in Pushers : pushing[p] = "idle"

\* no event left anywhere, and none to come within the bound: the broadcaster
\* sleeps
Done ==
    /\ \A p \in Pushers : begun[p] = MaxEvents
    /\ Idle /\ queue = <<>> /\ batch = <<>> /\ pool = {}
    /\ UNCHANGED vars

Next == (\E p \in Pushers : Push(p)) \/ Broadcast \/ Pool \/ Done

Spec == Init /\ [][Next]_vars

\* what the broadcaster does without waiting for the other end of a POST
OwnSteps == Collect \/ CloseBatch \/ WriteFile \/ FileFails \/ (sink = "Stdout" /\ Deliver)

\* Every thread that is in push() keeps running, the broadcaster task and the
\* blocking pool are scheduled, and stdout and the file system take what they
\* are given.  Nobody has to start another push, and no POST has to be
\* answered: the client has no timeout (broadcaster.rs:45 and 132).
Fairness ==
    /\ \A p \in Pushers : WF_vars(PushOk(p) \/ PushFull(p) \/ Evict(p))
    /\ WF_vars(OwnSteps)
    /\ WF_vars(Pool)

FairSpec == Spec /\ Fairness

-----------------------------------------------------------------------------
(* Safety.                                                                 *)

InPool == UNION {Elements(b) : b \in pool}
InHand == {<<p, begun[p]>> : p \in {q \in Pushers : pushing[q] # "idle"}}
Begun == {e \in Events : e[2] <= begun[e[1]]}

\* Every recorded event is in exactly one place: with its pusher, queued, in
\* the batch or the blocking pool, or settled as evicted, delivered or given
\* up.  Nothing vanishes or is taken twice, however pushers and broadcaster
\* interleave (ring_buffer.rs:43-49, broadcaster.rs:55-61).
Conservation ==
    LET places == <<InHand, Elements(queue), Elements(batch), InPool, dropped, acked, lost>>
    IN  /\ UNION Elements(places) = Begun
        /\ \A i, j \in DOMAIN places : i # j => places[i] \cap places[j] = {}
        /\ Cardinality(Elements(queue)) = Len(queue)
        /\ Cardinality(Elements(batch)) = Len(batch)

\* Overflow drops the oldest: an event is evicted only after every earlier
\* event of the same thread has left the queue.
OldestFirst ==
    \A d \in dropped : \A i \in DOMAIN queue : queue[i][1] = d[1] => queue[i][2] > d[2]

\* Eviction costs no more than it must: if the broadcaster took nothing, then
\* once no push is under way an eviction has left the buffer full
\* (tests/audit_tests.rs:44-68, for any interleaving of pushers).
FullAfterOverflow ==
    Idle /\ batch = <<>> /\ InPool \cup acked \cup lost = {} /\ dropped # {} => Len(queue) = Capacity

\* The sink sees the events of one thread in the order they were recorded; an
\* older event after a newer one is the repetition of a retried batch.  Only a
\* file may get the batches out of order, because nobody waits for its writes.
SinkOrder ==
    \A i, j \in DOMAIN received :
        /\ sink # "LocalFile"
        /\ i < j
        /\ received[i][1] = received[j][1]
        /\ received[i][2] > received[j][2]
        => \E k \in 1 .. i - 1 : received[k] = received[j]

\* At least once within the retry budget: what is considered delivered was
\* received, and no event reaches the sink more than MaxRetries + 1 times.
RetryBudget ==
    /\ acked \subseteq Elements(received)
    /\ \A e \in Elements(received) :
            Cardinality({i \in DOMAIN received : received[i] = e}) <= MaxRetries + 1

\* What survives an overflow and what the sink sees are the newest events of
\* each thread, in order, repeated no more often than batches are retried.
DeliveryOrder == OldestFirst /\ FullAfterOverflow /\ SinkOrder /\ RetryBudget

-----------------------------------------------------------------------------
(* Liveness, under FairSpec.                                               *)

\* the sink answers every POST, be it with an error each time
PostsAnswered == WF_vars(sink = "SaaS" /\ (Deliver \/ PostFails))

\* Stdout, a file, and an endpoint that answers, if only with errors for ever,
\* do not stop the pipeline: every recorded event is eventually evicted,
\* delivered or given up (broadcaster.rs:138-149).  An endpoint that is silent
\* holds the broadcaster in one POST for good, but nobody who records: every
\* push returns, by eviction in the end, once the other threads leave it the
\* room it makes (each records at most MaxEvents events).
Drained ==
    /\ PostsAnswered => \A e \in Events : e \in Begun ~> e \in dropped \cup acked \cup lost
    /\ \A p \in Pushers : pushing[p] # "idle" ~> pushing[p] = "idle"
=============================================================================
