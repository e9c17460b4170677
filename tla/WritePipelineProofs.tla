------------------------ MODULE WritePipelineProofs ------------------------
(***************************************************************************)
(* Theorems about WritePipeline, for every number of chunks, channel       *)
(* capacity and number of permits: type correctness, the atomicity of the  *)
(* object, the order of audit event and effect, the meaning of Ok, the     *)
(* refinement of AtomicPut, and the meaning of an error.  All but the last *)
(* follow from one inductive invariant; errors need a second one.          *)
(***************************************************************************)
EXTENDS WritePipeline, TLAPS, FiniteSetTheorems, SequenceTheorems

-----------------------------------------------------------------------------
(* The inductive invariant.                                                *)

Active == up \in {"idle", "create", "loop", "drain", "completing"}
BeforeComplete == up \in {"idle", "create", "loop", "drain"}
Serving == rxOpen /\ ser \in {"idle", "run", "unwind", "ok"}

\* Where write() is determines what has been audited and returned.
CallInv ==
    /\ Active => rxOpen
    /\ pc = "start" => ser = "idle"
    /\ pc \in {"start", "spawned"} => ~audited
    /\ pc \in {"start", "spawned", "audited"} => up = "idle"
    /\ pc \in {"start", "spawned", "audited", "joining"} => result = "none"
    /\ pc \in {"audited", "joining"} => audited
    /\ up \notin {"idle", "dead"} => audited
    /\ mpu # "none" => audited

\* While the receiver lives and the serializer has not failed, the parts and
\* the queued items are the chunks 1, 2, ... that were sent; Success is the
\* last item of a whole file.
StreamInv ==
    /\ Serving => /\ \A i \in DOMAIN body : body[i] = i
                  /\ \A j \in DOMAIN chan : chan[j] \in {Data(Len(body) + j), Success}
    /\ Serving /\ ser # "ok" => Len(body) + Len(chan) = next - 1
    /\ \A j \in DOMAIN chan : chan[j] = Success =>
            ser = "ok" /\ j = Len(chan) /\ Len(body) + j = NumChunks + 1
    /\ success => body = WholeFile /\ chan = <<>> /\ ser \in {"ok", "dead"}

\* A part leaves the join set only into completed, as long as the set lives.
TasksInv ==
    /\ Elements(completed) \subseteq DOMAIN body
    /\ \A p \in DOMAIN task : task[p] = "joined" => p \in Elements(completed)
    /\ BeforeComplete => \A p \in DOMAIN task : task[p] \notin {"orphan", "gone"}

\* The completion is requested for all parts of the whole file; the object is
\* what it committed, and Ok is its answer.
CompleteInv ==
    /\ BeforeComplete => completeReq = "none"
    /\ completeReq # "none" => success /\ audited /\ Elements(completed) = DOMAIN body
    /\ object = (IF completeReq = "committed" THEN WholeFile ELSE NoObject)
    /\ up = "ok" => completeReq = "committed"
    /\ result = "Ok" => completeReq = "committed"

IInv == TypeOK /\ CallInv /\ StreamInv /\ TasksInv /\ CompleteInv

-----------------------------------------------------------------------------
(* Sequences of parts.                                                     *)

\* Joining a task adds its part to the completed ones and nothing else.
LEMMA ElementsAppend ==
    ASSUME NEW s \in Seq(Nat), NEW p \in Nat
    PROVE  Elements(Append(s, p)) = Elements(s) \cup {p}
<1>1. DOMAIN Append(s, p) = 1 .. Len(s) + 1 /\ DOMAIN s = 1 .. Len(s) /\ Len(s) \in Nat
    OBVIOUS
<1>2. /\ \A i \in 1 .. Len(s) : Append(s, p)[i] = s[i]
      /\ Append(s, p)[Len(s) + 1] = p
    OBVIOUS
<1>3. ASSUME NEW x
      PROVE  x \in Elements(Append(s, p)) <=> x \in Elements(s) \cup {p}
    <2>1. ASSUME x \in Elements(Append(s, p))
          PROVE  x \in Elements(s) \cup {p}
        <3>1. PICK i \in 1 .. Len(s) + 1 : x = Append(s, p)[i]
            BY <1>1, <2>1 DEF Elements
        <3>2. i \in 1 .. Len(s) \/ i = Len(s) + 1
            BY <1>1
        <3> QED
            BY <1>1, <1>2, <3>1, <3>2 DEF Elements
    <2>2. ASSUME x \in Elements(s)
          PROVE  x \in Elements(Append(s, p))
        <3>1. PICK i \in 1 .. Len(s) : x = s[i]
            BY <1>1, <2>2 DEF Elements
        <3>2. i \in 1 .. Len(s) + 1 /\ x = Append(s, p)[i]
            BY <1>1, <1>2, <3>1
        <3> QED
            BY <1>1, <3>2 DEF Elements
    <2>3. p \in Elements(Append(s, p))
        <3>1. Len(s) + 1 \in 1 .. Len(s) + 1
            BY <1>1
        <3> QED
            BY <1>1, <1>2, <3>1 DEF Elements
    <2> QED
        BY <2>1, <2>2, <2>3
<1> QED
    BY <1>3

\* Sorting the numbers of all parts, in whatever order they were joined,
\* yields them in ascending order.
LEMMA SortedParts1N ==
    ASSUME NEW n \in Nat, NEW s, Elements(s) = 1 .. n
    PROVE  SortedParts(s) = [i \in 1 .. n |-> i]
<1>1. Cardinality(1 .. n) = n
    BY FS_Interval
<1>2. ASSUME NEW p \in 1 .. n
      PROVE  Cardinality({q \in 1 .. n : q < p}) = p - 1
    <2>1. {q \in 1 .. n : q < p} = 1 .. p - 1
        OBVIOUS
    <2>2. p - 1 \in Int /\ 1 \in Int
        OBVIOUS
    <2>3. Cardinality(1 .. p - 1) = IF 1 > p - 1 THEN 0 ELSE (p - 1) - 1 + 1
        BY <2>2, FS_Interval
    <2>4. Cardinality(1 .. p - 1) = p - 1
        BY <2>3
    <2> QED
        BY <2>1, <2>4, Zenon
<1>3. ASSUME NEW i \in 1 .. n
      PROVE  (CHOOSE p \in 1 .. n : Cardinality({q \in 1 .. n : q < p}) = i - 1) = i
    <2>1. \A p \in 1 .. n : Cardinality({q \in 1 .. n : q < p}) = i - 1 <=> p = i
        BY <1>2
    <2> QED
        BY <2>1
<1> DEFINE Ranked(parts) == [i \in 1 .. Cardinality(parts) |->
            CHOOSE p \in parts : Cardinality({q \in parts : q < p}) = i - 1]
<1>4. SortedParts(s) = Ranked(1 .. n)
    <2>1. SortedParts(s) = Ranked(Elements(s))
        BY Zenon DEF SortedParts
    <2> HIDE DEF Ranked
    <2> QED
        BY <2>1, Zenon
<1>5. [i \in 1 .. n |-> CHOOSE p \in 1 .. n : Cardinality({q \in 1 .. n : q < p}) = i - 1]
        = [i \in 1 .. n |-> i]
    BY <1>3, Zenon
<1> QED
    BY <1>1, <1>4, <1>5, Zenon

\* Dropping the join set touches no task but the running ones.
LEMMA DroppedTasks ==
    ASSUME NEW ts \in Seq(TaskState)
    PROVE  /\ TasksDropped(ts) \in Seq(TaskState)
           /\ Len(TasksDropped(ts)) = Len(ts)
           /\ \A p \in DOMAIN ts : TasksDropped(ts)[p] = "joined" => ts[p] = "joined"
<1> DEFINE e(p) == IF ts[p] = "running" THEN "orphan" ELSE ts[p]
<1>1. DOMAIN ts = 1 .. Len(ts) /\ Len(ts) \in Nat
    BY LenProperties
<1>2. \A p \in 1 .. Len(ts) : e(p) \in TaskState
    BY ElementOfSeq DEF TaskState
<1>3. TasksDropped(ts) = [p \in 1 .. Len(ts) |-> e(p)]
    BY <1>1 DEF TasksDropped
<1>4. TasksDropped(ts) \in Seq(TaskState)
    BY <1>1, <1>2, <1>3, SeqDef
<1>5. Len(TasksDropped(ts)) = Len(ts)
    BY <1>1, <1>3, <1>4, LenProperties
<1> QED
    BY <1>1, <1>3, <1>4, <1>5

\* Storing a task's outcome keeps the join set's shape.
LEMMA TaskUpdated ==
    ASSUME NEW ts \in Seq(TaskState), NEW p \in DOMAIN ts, NEW state \in TaskState
    PROVE  /\ [ts EXCEPT ![p] = state] \in Seq(TaskState)
           /\ Len([ts EXCEPT ![p] = state]) = Len(ts)
           /\ DOMAIN [ts EXCEPT ![p] = state] = DOMAIN ts
<1>1. p \in 1 .. Len(ts)
    BY LenProperties
<1> QED
    BY <1>1, ExceptSeq

-----------------------------------------------------------------------------
(* The object.                                                             *)

\* The whole file is a possible object, and is not the absence of one.
LEMMA WholeFileType == WholeFile \in Seq(Payloads) /\ WholeFile # NoObject
<1>1. WholeFile \in [1 .. NumChunks -> Payloads]
    BY NumChunksAssumption, PayloadsAssumption DEF WholeFile
<1>2. WholeFile \in Seq(Payloads)
    BY <1>1, NumChunksAssumption, SeqDef
<1> QED
    BY <1>2, NoObjectAssumption

\* Whatever the order in which the parts were joined, a completion puts the
\* whole file under the key.
LEMMA CommitWhole == IInv /\ Commit => object' = WholeFile
<1> SUFFICES ASSUME IInv, Commit PROVE object' = WholeFile
    OBVIOUS
<1>1. success /\ Elements(completed) = DOMAIN body
    BY DEF IInv, CompleteInv, Commit
<1>2. body = WholeFile
    BY <1>1 DEF IInv, StreamInv
<1>3. Elements(completed) = 1 .. NumChunks
    BY <1>1, <1>2 DEF WholeFile
<1>4. SortedParts(completed) = [i \in 1 .. NumChunks |-> i]
    BY <1>3, SortedParts1N, NumChunksAssumption
<1>5. object' = [i \in 1 .. NumChunks |-> body[i]]
    BY <1>4 DEF Commit
<1> QED
    BY <1>2, <1>5 DEF WholeFile

-----------------------------------------------------------------------------
(* Type correctness, the flags apart from the rest.                        *)

FlagsOK ==
    /\ rxOpen \in BOOLEAN
    /\ permitOpt \in BOOLEAN
    /\ success \in BOOLEAN
    /\ audited \in BOOLEAN

ShapeOK ==
    /\ chan \in Seq(StreamItem)
    /\ senders \subseteq Handles
    /\ up \in UploaderState
    /\ body \in Seq(Payloads)
    /\ task \in Seq(TaskState)
    /\ Len(task) = Len(body)
    /\ completed \in Seq(Nat)
    /\ mpu \in {"none", "open", "completed", "aborted"}
    /\ stored \subseteq Nat
    /\ object \in Seq(Payloads) \cup {NoObject}
    /\ completeReq \in {"none", "sent", "committed", "rejected"}
    /\ abortReq \in {"none", "sent", "done", "failed"}
    /\ faults \subseteq FaultKind
    /\ pc \in {"start", "spawned", "audited", "joining", "returned", "crashed"}
    /\ ser \in {"idle", "run", "unwind", "ok", "err", "panic", "dead"}
    /\ next \in 1 .. NumChunks + 1
    /\ result \in Outcome

LEMMA TypeParts == TypeOK <=> FlagsOK /\ ShapeOK
BY Zenon DEF TypeOK, UploadTypeOK, FlagsOK, ShapeOK

\* Every action sets a flag to a truth value or leaves it alone.
LEMMA FlagsNext == FlagsOK /\ Next => FlagsOK'
<1> SUFFICES ASSUME FlagsOK, Next PROVE FlagsOK'
    OBVIOUS
<1> USE DEF FlagsOK, uploadVars, channelVars, uploaderVars, storageVars, writeVars
<1>1. CASE Writer
    BY <1>1, Zenon DEF Writer, Reject, SpawnSerializer, PushAudit, StartUpload, Return
<1>2. CASE Serializer
    BY <1>2, Zenon DEF Serializer, SendChunk, SendRefused, SerializerFails, SignalSuccess, Unwind
<1>3. CASE Uploader /\ UNCHANGED writeVars
    BY <1>3, Zenon DEF Uploader, Create, CreateFails, AcquirePermit, RecvData, RecvSuccess, RecvNone,
        JoinOk, JoinErr, AbortIncomplete, SendComplete, CompleteAcked, CompleteRefused,
        CompleteTimesOut, ReturnErr
<1>4. CASE Storage /\ UNCHANGED writeVars
    BY <1>4, Zenon DEF Storage, PartStored, PartFails, OrphanLands, Commit, CommitRefused,
        CommitFails, Abort, AbortFails
<1>5. CASE Crash
    BY <1>5, Zenon DEF Crash
<1>6. CASE Done
    BY <1>6, Zenon DEF Done, vars
<1> QED
    BY <1>1, <1>2, <1>3, <1>4, <1>5, <1>6 DEF Next

-----------------------------------------------------------------------------
(* The invariant holds initially and is preserved by every step.           *)

\* The initial state has no part, no item and no request.
LEMMA InitIInv == Init => IInv
<1> SUFFICES ASSUME Init PROVE IInv
    OBVIOUS
<1> USE DEF Init, UploadInit
<1>1. TypeOK
    <2>1. FlagsOK
        BY Zenon DEF FlagsOK
    <2>2. ShapeOK
        BY NumChunksAssumption DEF ShapeOK, UploaderState, Outcome
    <2> QED
        BY <2>1, <2>2, TypeParts
<1>2. CallInv
    BY DEF CallInv
<1>3. StreamInv
    BY DEF StreamInv
<1>4. TasksInv
    BY DEF TasksInv, Elements
<1>5. CompleteInv
    BY DEF CompleteInv
<1> QED
    BY <1>1, <1>2, <1>3, <1>4, <1>5 DEF IInv

\* Every action keeps every variable in its type.
LEMMA ShapeNext == IInv /\ Next => ShapeOK'
<1> SUFFICES ASSUME IInv, Next PROVE ShapeOK'
    OBVIOUS
<1>0. ShapeOK
    BY TypeParts DEF IInv
<1> USE <1>0, NumChunksAssumption DEF ShapeOK, UploaderState, FaultKind
<1>1. CASE Writer
    <2> USE DEF uploadVars, channelVars, uploaderVars, storageVars
    <2>1. ASSUME NEW e \in RejectError, Reject(e)
          PROVE  ShapeOK'
        BY <2>1 DEF Reject, Outcome
    <2>2. CASE SpawnSerializer
        BY <2>2 DEF SpawnSerializer
    <2>3. CASE PushAudit
        BY <2>3 DEF PushAudit
    <2>4. CASE StartUpload
        BY <2>4 DEF StartUpload
    <2>5. CASE Return
        <3>1. result' \in Outcome
            BY <2>5 DEF Return, Outcome, JoinError
        <3> QED
            BY <2>5, <3>1 DEF Return
    <2> QED
        BY <1>1, <2>1, <2>2, <2>3, <2>4, <2>5 DEF Writer
<1>2. CASE SendChunk
    <2>1. Data(next) \in StreamItem
        BY <1>2, PayloadsAssumption DEF SendChunk, StreamItem
    <2> QED
        BY <1>2, <2>1 DEF SendChunk, uploaderVars, storageVars
<1>3. CASE SendRefused \/ SerializerFails
    <2>1. CASE SendRefused
        BY <2>1 DEF SendRefused, uploaderVars, storageVars
    <2>2. CASE SerializerFails
        BY <2>2 DEF SerializerFails, channelVars, uploaderVars, storageVars
    <2> QED
        BY <1>3, <2>1, <2>2
<1>4. ASSUME NEW o \in {"err", "panic"}, Unwind(o)
      PROVE  ShapeOK'
    <2>1. Data(Torn) \in StreamItem
        BY PayloadsAssumption, NumChunksAssumption DEF StreamItem, Torn
    <2>2. chan' \in {chan, Append(chan, Data(Torn))}
        BY <1>4 DEF Unwind
    <2>3. Append(chan, Data(Torn)) \in Seq(StreamItem)
        BY <2>1, AppendProperties
    <2>4. chan' \in Seq(StreamItem)
        BY <2>2, <2>3, <1>0, Zenon
    <2> QED
        BY <1>4, <2>4 DEF Unwind, uploaderVars, storageVars
<1>5. CASE SignalSuccess
    <2>1. Success \in StreamItem
        BY DEF StreamItem
    <2>2. chan' \in {chan, Append(chan, Success)}
        BY <1>5, Zenon DEF SignalSuccess
    <2>3. Append(chan, Success) \in Seq(StreamItem)
        BY <2>1, AppendProperties
    <2>4. chan' \in Seq(StreamItem)
        BY <2>2, <2>3, <1>0, Zenon
    <2> QED
        BY <1>5, <2>4 DEF SignalSuccess, uploaderVars, storageVars
<1>6. CASE Uploader /\ UNCHANGED writeVars
    <2> USE DEF writeVars, channelVars, storageVars, uploaderVars
    <2>1. CASE Create
        BY <1>6, <2>1 DEF Create
    <2>7. CASE CreateFails
        BY <1>6, <2>7 DEF CreateFails
    <2>5. CASE RecvSuccess
        BY <1>6, <2>5 DEF RecvSuccess
    <2>6. CASE AcquirePermit
        BY <1>6, <2>6 DEF AcquirePermit
    <2>8. CASE RecvNone
        BY <1>6, <2>8 DEF RecvNone
    <2>9. CASE SendComplete
        BY <1>6, <2>9 DEF SendComplete
    <2>10. CASE CompleteAcked
        BY <1>6, <2>10 DEF CompleteAcked
    <2>2. CASE RecvData
        <3>1. Head(chan).payload \in Payloads
            BY <2>2 DEF RecvData, StreamItem, Data, Success
        <3>2. body' \in Seq(Payloads) /\ Len(body') = Len(body) + 1
            BY <2>2, <3>1 DEF RecvData
        <3>3. task' \in Seq(TaskState) /\ Len(task') = Len(task) + 1
            BY <2>2 DEF RecvData, TaskState
        <3> QED
            BY <1>6, <2>2, <3>2, <3>3 DEF RecvData
    <2>3. ASSUME NEW p \in DOMAIN task, JoinOk(p)
          PROVE  ShapeOK'
        <3>1. task' \in Seq(TaskState) /\ Len(task') = Len(task)
            BY <2>3, TaskUpdated DEF JoinOk, TaskState
        <3> QED
            BY <1>6, <2>3, <3>1 DEF JoinOk
    <2>4. CASE ReturnErr /\ UNCHANGED <<senders, body, completed, success, mpu, stored, object, completeReq>>
                         /\ faults' \in {faults, faults \cup {"timeout"}}
        BY <1>6, <2>4, DroppedTasks DEF ReturnErr
    <2> QED
        BY <1>6, <2>1, <2>2, <2>3, <2>4, <2>5, <2>6, <2>7, <2>8, <2>9, <2>10 DEF Uploader, JoinErr, AbortIncomplete, CompleteRefused, CompleteTimesOut
<1>7. CASE Storage /\ UNCHANGED writeVars
    <2> USE DEF writeVars, channelVars, storageVars, uploaderVars
    <2>1. ASSUME NEW p \in DOMAIN task, PartStored(p) \/ PartFails(p) \/ OrphanLands(p)
          PROVE  ShapeOK'
        <3>1. task' \in Seq(TaskState) /\ Len(task') = Len(task)
            <4>1. \E state \in TaskState : task' = [task EXCEPT ![p] = state]
                BY <2>1 DEF PartStored, PartFails, OrphanLands, TaskState
            <4> QED
                BY <4>1, TaskUpdated
        <3>2. stored' \subseteq Nat
            BY <2>1, LenProperties DEF PartStored, PartFails, OrphanLands
        <3>3. faults' \subseteq FaultKind
            BY <2>1 DEF PartStored, PartFails, OrphanLands
        <3> QED
            BY <1>7, <2>1, <3>1, <3>2, <3>3 DEF PartStored, PartFails, OrphanLands
    <2>2. CASE Commit
        <3>1. object' = WholeFile
            BY <2>2, CommitWhole
        <3> QED
            BY <1>7, <2>2, <3>1, WholeFileType DEF Commit
    <2>3. CASE CommitRefused
        BY <1>7, <2>3 DEF CommitRefused
    <2>4. CASE CommitFails
        BY <1>7, <2>4 DEF CommitFails
    <2>6. CASE AbortFails
        BY <1>7, <2>6 DEF AbortFails
    <2>5. CASE Abort
        <3>1. stored' \subseteq Nat
            BY <2>5 DEF Abort
        <3>2. mpu' \in {"none", "open", "completed", "aborted"}
            BY <2>5 DEF Abort
        <3> QED
            BY <1>7, <2>5, <3>1, <3>2 DEF Abort
    <2> QED
        BY <1>7, <2>1, <2>2, <2>3, <2>4, <2>5, <2>6 DEF Storage
<1>8. CASE Crash
    BY <1>8, DroppedTasks DEF Crash, storageVars
<1>9. CASE Done
    BY <1>9 DEF Done, vars, uploadVars, writeVars, channelVars, storageVars, uploaderVars
<1> QED
    BY <1>1, <1>2, <1>3, <1>4, <1>5, <1>6, <1>7, <1>8, <1>9 DEF Next, Serializer

\* The progress of write() is preserved.
LEMMA CallNext == IInv /\ Next => CallInv'
<1> SUFFICES ASSUME IInv, Next PROVE CallInv'
    OBVIOUS
<1>0. CallInv /\ FlagsOK /\ pc \in {"start", "spawned", "audited", "joining", "returned", "crashed"}
    BY TypeParts, Zenon DEF IInv, ShapeOK
<1> USE <1>0 DEF CallInv, Active, FlagsOK, uploadVars, channelVars, uploaderVars, storageVars, writeVars
<1>1. CASE Writer
    <2>1. ASSUME NEW e \in RejectError, Reject(e)
          PROVE  CallInv'
        BY <2>1 DEF Reject
    <2>2. CASE SpawnSerializer
        BY <2>2 DEF SpawnSerializer
    <2>3. CASE PushAudit
        BY <2>3 DEF PushAudit
    <2>4. CASE StartUpload
        BY <2>4 DEF StartUpload
    <2>5. CASE Return
        BY <2>5 DEF Return
    <2> QED
        BY <1>1, <2>1, <2>2, <2>3, <2>4, <2>5 DEF Writer
<1>2. CASE Serializer
    BY <1>2 DEF Serializer, SendChunk, SendRefused, SerializerFails, SignalSuccess, Unwind
<1>3. CASE Uploader /\ UNCHANGED writeVars
    <2>1. CASE Create
        BY <1>3, <2>1 DEF Create
    <2>2. CASE CreateFails
        BY <1>3, <2>2 DEF CreateFails
    <2>3. CASE AcquirePermit
        BY <1>3, <2>3 DEF AcquirePermit
    <2>4. CASE RecvData
        BY <1>3, <2>4 DEF RecvData
    <2>5. CASE RecvSuccess \/ RecvNone
        BY <1>3, <2>5 DEF RecvSuccess, RecvNone
    <2>6. ASSUME NEW p \in DOMAIN task, JoinOk(p)
          PROVE  CallInv'
        BY <1>3, <2>6 DEF JoinOk
    <2>7. CASE SendComplete
        BY <1>3, <2>7 DEF SendComplete
    <2>8. CASE CompleteAcked
        BY <1>3, <2>8 DEF CompleteAcked
    <2>9. CASE up # "idle" /\ up # "dead" /\ ReturnErr /\ UNCHANGED mpu
        BY <1>3, <2>9 DEF ReturnErr
    <2> QED
        BY <1>3, <2>1, <2>2, <2>3, <2>4, <2>5, <2>6, <2>7, <2>8, <2>9
        DEF Uploader, JoinErr, AbortIncomplete, CompleteRefused, CompleteTimesOut
<1>4. CASE Storage /\ UNCHANGED writeVars
    <2>1. ASSUME NEW p \in DOMAIN task, PartStored(p) \/ PartFails(p) \/ OrphanLands(p)
          PROVE  CallInv'
        BY <1>4, <2>1 DEF PartStored, PartFails, OrphanLands
    <2>2. CASE Commit
        BY <1>4, <2>2 DEF Commit
    <2>3. CASE CommitRefused \/ CommitFails \/ AbortFails
        BY <1>4, <2>3 DEF CommitRefused, CommitFails, AbortFails
    <2>4. CASE Abort
        BY <1>4, <2>4 DEF Abort
    <2> QED
        BY <1>4, <2>1, <2>2, <2>3, <2>4 DEF Storage
<1>5. CASE Crash
    BY <1>5 DEF Crash
<1>6. CASE Done
    BY <1>6 DEF Done, vars
<1> QED
    BY <1>1, <1>2, <1>3, <1>4, <1>5, <1>6 DEF Next

\* Sending appends chunk number next, receiving moves the head of the channel
\* to the parts, and nothing enters the channel after Success.
LEMMA StreamNext == IInv /\ Next => StreamInv'
<1> SUFFICES ASSUME IInv, Next PROVE StreamInv'
    OBVIOUS
<1>0. StreamInv /\ CallInv /\ ShapeOK
    BY TypeParts, Zenon DEF IInv
<1> USE DEF StreamInv, Serving, CallInv, Active,
        uploadVars, channelVars, uploaderVars, storageVars, writeVars
<1>a. DOMAIN chan = 1 .. Len(chan) /\ DOMAIN body = 1 .. Len(body)
    BY <1>0, LenProperties DEF ShapeOK
<1>n. Len(chan) \in Nat /\ Len(body) \in Nat /\ next \in Nat /\ NumChunks \in Nat
    BY <1>0, NumChunksAssumption, LenProperties DEF ShapeOK
<1>b. \A k : Data(k) # Success /\ Data(k).type = "Data" /\ Success.type = "Success" /\ Data(k).payload = k
    BY DEF Data, Success
<1> HIDE DEF Data, Success
<1>1. CASE Writer
    <2>1. CASE UNCHANGED <<chan, rxOpen, body, success, next, ser>>
        BY <1>0, <2>1
    <2>2. ASSUME NEW e \in RejectError, Reject(e)
          PROVE  UNCHANGED <<chan, rxOpen, body, success, next, ser>>
        BY <2>2 DEF Reject
    <2>3. CASE SpawnSerializer
        BY <1>0, <2>3 DEF SpawnSerializer
    <2>4. ASSUME PushAudit \/ StartUpload \/ Return
          PROVE  UNCHANGED <<chan, rxOpen, body, success, next, ser>>
        BY <2>4 DEF PushAudit, StartUpload, Return
    <2> QED
        BY <1>1, <2>1, <2>2, <2>3, <2>4 DEF Writer
<1>2. ASSUME NEW x, x = Data(next) \/ (x = Success /\ next = NumChunks + 1), ser = "run", rxOpen,
             chan' = Append(chan, x), rxOpen' = rxOpen, body' = body, success' = success,
             x = Success => ser' = "ok",
             x # Success => ser' = "run" /\ next' = next + 1
      PROVE  StreamInv'
    <2>1. /\ Len(chan') = Len(chan) + 1 /\ DOMAIN chan' = 1 .. Len(chan) + 1
          /\ \A j \in 1 .. Len(chan) : chan'[j] = chan[j]
          /\ chan'[Len(chan) + 1] = x
        BY <1>0, <1>2, <1>a
    <2>2. Len(body) + Len(chan) = next - 1 /\ ~success
        BY <1>0, <1>2
    <2>3. (\A j \in DOMAIN chan : chan[j] \in {Data(Len(body) + j), Success})'
        BY <1>0, <1>a, <1>n, <1>2, <2>1, <2>2
    <2>4. (\A j \in DOMAIN chan : chan[j] = Success =>
            ser = "ok" /\ j = Len(chan) /\ Len(body) + j = NumChunks + 1)'
        BY <1>0, <1>a, <1>n, <1>b, <1>2, <2>1, <2>2
    <2>5. (Serving => \A i \in DOMAIN body : body[i] = i)'
        BY <1>0, <1>2
    <2>6. (Serving /\ ser # "ok" => Len(body) + Len(chan) = next - 1)'
        BY <1>0, <1>a, <1>n, <1>2, <2>1, <2>2
    <2>7. ~success'
        BY <1>0, <1>2, <2>2
    <2> QED
        BY <2>3, <2>4, <2>5, <2>6, <2>7
<1>3. CASE SendChunk
    BY <1>0, <1>2, <1>3, <1>b DEF SendChunk, HasRoom
<1>4. CASE SendRefused
    BY <1>0, <1>4 DEF SendRefused
<1>5. CASE SerializerFails
    BY <1>0, <1>5 DEF SerializerFails
<1>6. ASSUME NEW o \in {"err", "panic"}, Unwind(o)
      PROVE  StreamInv'
    <2>1. \A j \in DOMAIN chan : chan[j] # Success
        BY <1>0, <1>6 DEF Unwind
    <2>2. \A j \in DOMAIN chan' : chan'[j] # Success
        BY <1>0, <1>6, <1>a, <1>n, <1>b, <2>1 DEF Unwind
    <2> QED
        BY <1>0, <1>6, <2>2 DEF Unwind
<1>7. CASE SignalSuccess
    <2>1. CASE rxOpen
        BY <1>0, <1>2, <1>7, <2>1, <1>b DEF SignalSuccess, HasRoom
    <2>2. CASE ~rxOpen
        BY <1>0, <1>7, <2>2 DEF SignalSuccess, HasRoom
    <2> QED
        BY <2>1, <2>2
<1>8. CASE Uploader /\ UNCHANGED writeVars
    <2>1. CASE RecvData
        <3>0. Len(chan') = Len(chan) - 1
            BY <1>0, <2>1, <1>a, <1>n DEF RecvData, ShapeOK
        <3>1. /\ DOMAIN chan' = 1 .. Len(chan) - 1
              /\ \A j \in 1 .. Len(chan) - 1 : chan'[j] = chan[j + 1]
              /\ Head(chan) = chan[1] /\ 1 \in 1 .. Len(chan)
            BY <1>0, <2>1, <1>a, <1>n DEF RecvData, ShapeOK
        <3>l. Len(body') = Len(body) + 1
            BY <1>0, <2>1, <1>a, <1>n DEF RecvData, ShapeOK
        <3>2. /\ DOMAIN body' = 1 .. Len(body) + 1
              /\ \A i \in 1 .. Len(body) : body'[i] = body[i]
              /\ body'[Len(body) + 1] = Head(chan).payload
            BY <1>0, <2>1, <1>a, <1>n DEF RecvData, ShapeOK
        <3>3. Serving => Head(chan) = Data(Len(body) + 1)
            BY <1>0, <2>1, <1>a, <1>n, <1>b, <3>1 DEF RecvData
        <3>4. ~success /\ success' = success /\ rxOpen' = rxOpen /\ ser' = ser /\ next' = next
            BY <1>0, <1>8, <2>1 DEF RecvData
        <3>5. (Serving => \A i \in DOMAIN body : body[i] = i)'
            BY <1>0, <1>a, <1>n, <1>b, <3>2, <3>3, <3>4
        <3>6. (Serving => \A j \in DOMAIN chan : chan[j] \in {Data(Len(body) + j), Success})'
            <4>1. SUFFICES ASSUME Serving', NEW j \in DOMAIN chan'
                           PROVE  chan'[j] \in {Data(Len(body') + j), Success}
                OBVIOUS
            <4>2. j + 1 \in DOMAIN chan /\ chan'[j] = chan[j + 1] /\ j \in Int
                BY <1>a, <1>n, <3>1
            <4>4. Len(body') + j = Len(body) + (j + 1)
                BY <1>n, <3>l, <4>2
            <4>3. chan[j + 1] \in {Data(Len(body) + (j + 1)), Success}
                BY <1>0, <3>4, <4>1, <4>2
            <4> QED
                BY <4>2, <4>3, <4>4
        <3>7. (Serving /\ ser # "ok" => Len(body) + Len(chan) = next - 1)'
            BY <1>0, <1>n, <3>0, <3>l, <3>4
        <3>8. (\A j \in DOMAIN chan : chan[j] = Success =>
                ser = "ok" /\ j = Len(chan) /\ Len(body) + j = NumChunks + 1)'
            <4>1. SUFFICES ASSUME NEW j \in 1 .. Len(chan) - 1, chan'[j] = Success
                           PROVE  ser' = "ok" /\ j = Len(chan') /\ Len(body') + j = NumChunks + 1
                BY <3>1
            <4>2. j + 1 \in DOMAIN chan /\ chan'[j] = chan[j + 1]
                BY <1>a, <1>n, <3>1
            <4>3. ser = "ok" /\ j + 1 = Len(chan) /\ Len(body) + (j + 1) = NumChunks + 1
                BY <1>0, <4>1, <4>2
            <4>4. j = Len(chan') /\ Len(body') + j = NumChunks + 1
                BY <1>n, <3>0, <3>l, <4>3
            <4> QED
                BY <3>4, <4>3, <4>4
        <3> QED
            BY <3>4, <3>5, <3>6, <3>7, <3>8
    <2>2. CASE RecvSuccess
        <3>1. Head(chan) = chan[1] /\ 1 \in DOMAIN chan
            BY <1>0, <2>2, <1>a, <1>n DEF RecvSuccess, ShapeOK
        <3>2. chan[1] = Success
            BY <1>0, <3>1, <2>2, <1>b DEF RecvSuccess, ShapeOK, StreamItem
        <3>3. ser = "ok" /\ Len(chan) = 1 /\ Len(body) = NumChunks
            <4>1. ser = "ok" /\ 1 = Len(chan) /\ Len(body) + 1 = NumChunks + 1
                BY <1>0, <3>1, <3>2
            <4> QED
                BY <1>n, <4>1
        <3>4. rxOpen
            BY <1>0, <2>2 DEF RecvSuccess
        <3>5. body = WholeFile
            <4>1. \A i \in 1 .. NumChunks : body[i] = WholeFile[i]
                BY <1>0, <1>a, <1>n, <3>3, <3>4 DEF WholeFile
            <4>2. Len(WholeFile) = NumChunks
                BY NumChunksAssumption DEF WholeFile
            <4> QED
                BY <1>0, <3>3, <4>1, <4>2, WholeFileType, SeqEqual DEF ShapeOK
        <3>6. chan' = <<>>
            <4>1. Len(Tail(chan)) = 0 /\ Tail(chan) \in Seq(StreamItem)
                BY <1>0, <2>2, <3>3, HeadTailProperties DEF RecvSuccess, ShapeOK
            <4>2. Tail(chan) = <<>>
                BY <4>1, EmptySeq
            <4> QED
                BY <2>2, <4>2 DEF RecvSuccess
        <3> QED
            BY <1>0, <1>8, <2>2, <3>3, <3>5, <3>6 DEF RecvSuccess
    <2>3. CASE Create
        BY <1>0, <1>8, <2>3 DEF Create
    <2>4. CASE CreateFails
        BY <1>0, <1>8, <2>4 DEF CreateFails
    <2>5. CASE AcquirePermit \/ RecvNone \/ SendComplete
        BY <1>0, <1>8, <2>5 DEF AcquirePermit, RecvNone, SendComplete
    <2>6. ASSUME NEW p \in DOMAIN task, JoinOk(p)
          PROVE  StreamInv'
        BY <1>0, <1>8, <2>6 DEF JoinOk
    <2>7. CASE CompleteAcked
        BY <1>0, <1>8, <2>7 DEF CompleteAcked
    <2>8. CASE ReturnErr /\ UNCHANGED <<body, success>>
        BY <1>0, <1>8, <2>8 DEF ReturnErr
    <2> QED
        BY <1>8, <2>1, <2>2, <2>3, <2>4, <2>5, <2>6, <2>7, <2>8
        DEF Uploader, JoinErr, AbortIncomplete, CompleteRefused, CompleteTimesOut
<1>9. CASE Storage /\ UNCHANGED writeVars
    <2>1. UNCHANGED <<chan, rxOpen, body, success, ser, next>>
        BY <1>0, <1>9 DEF Storage, PartStored, PartFails, OrphanLands, Commit, CommitRefused,
            CommitFails, Abort, AbortFails
    <2> QED
        BY <1>0, <2>1
<1>10. CASE Crash
    BY <1>0, <1>10 DEF Crash
<1>11. CASE Done
    BY <1>0, <1>11 DEF Done, vars
<1> QED
    BY <1>1, <1>3, <1>4, <1>5, <1>6, <1>7, <1>8, <1>9, <1>10, <1>11 DEF Next, Serializer

\* The join set loses no part while upload_stream may still complete.
LEMMA TasksNext == IInv /\ Next => TasksInv'
<1> SUFFICES ASSUME IInv, Next PROVE TasksInv'
    OBVIOUS
<1>0. TasksInv /\ ShapeOK
    BY TypeParts, Zenon DEF IInv
<1>a. DOMAIN body = 1 .. Len(body) /\ DOMAIN task = 1 .. Len(body) /\ Len(body) \in Nat
    BY <1>0, LenProperties DEF ShapeOK
<1> USE DEF TasksInv, BeforeComplete, uploadVars, channelVars, uploaderVars, storageVars, writeVars
<1>1. ASSUME UNCHANGED <<body, task, completed>>, up' = up \/ up \in {"create", "loop"} \/ ~BeforeComplete'
      PROVE  TasksInv'
    BY <1>0, <1>1
<1>2. ASSUME task' = TasksDropped(task), UNCHANGED <<body, completed>>, up' \in {"err", "dead"}
      PROVE  TasksInv'
    <2>1. DOMAIN task' = DOMAIN task
        BY <1>2 DEF TasksDropped
    <2>2. \A p \in DOMAIN task : task'[p] = "joined" => task[p] = "joined"
        BY <1>0, <1>2, DroppedTasks DEF ShapeOK
    <2> QED
        BY <1>0, <1>2, <2>1, <2>2
<1>3. CASE Writer
    <2>1. ASSUME NEW e \in RejectError, Reject(e)
          PROVE  UNCHANGED <<body, task, completed, up>>
        BY <2>1 DEF Reject
    <2>2. ASSUME SpawnSerializer \/ PushAudit \/ Return
          PROVE  UNCHANGED <<body, task, completed, up>>
        BY <2>2 DEF SpawnSerializer, PushAudit, Return
    <2>3. CASE StartUpload
        <3>1. up = "idle"
            BY <2>3 DEF StartUpload, IInv, CallInv
        <3> QED
            BY <1>0, <2>3, <3>1 DEF StartUpload
    <2> QED
        BY <1>1, <1>3, <2>1, <2>2, <2>3 DEF Writer
<1>4. CASE Serializer
    <2>1. UNCHANGED <<body, task, completed, up>>
        BY <1>4 DEF Serializer, SendChunk, SendRefused, SerializerFails, SignalSuccess, Unwind
    <2> QED
        BY <1>1, <2>1
<1>5. CASE Uploader /\ UNCHANGED writeVars
    <2>1. CASE RecvData
        <3>1. body' = Append(body, Head(chan).payload) /\ task' = Append(task, "running")
            BY <2>1 DEF RecvData
        <3>2. /\ DOMAIN body' = 1 .. Len(body) + 1 /\ DOMAIN task' = 1 .. Len(body) + 1
              /\ \A p \in 1 .. Len(body) : task'[p] = task[p]
              /\ task'[Len(body) + 1] = "running"
            BY <1>0, <1>a, <3>1 DEF ShapeOK
        <3>3. completed' = completed /\ up' = up
            BY <2>1 DEF RecvData
        <3>4. \A p \in DOMAIN task' : p \in DOMAIN task \/ task'[p] = "running"
            BY <1>a, <3>2
        <3> QED
            BY <1>0, <1>a, <3>2, <3>3, <3>4
    <2>2. ASSUME NEW p \in DOMAIN task, JoinOk(p)
          PROVE  TasksInv'
        <3>1. Elements(completed') = Elements(completed) \cup {p}
            BY <1>0, <1>a, <2>2, ElementsAppend DEF JoinOk, ShapeOK
        <3>2. /\ DOMAIN task' = DOMAIN task
              /\ \A q \in DOMAIN task : task'[q] = IF q = p THEN "joined" ELSE task[q]
            BY <2>2 DEF JoinOk
        <3>3. body' = body /\ up' = up
            BY <2>2 DEF JoinOk
        <3> QED
            BY <1>0, <1>a, <3>1, <3>2, <3>3
    <2>3. CASE ReturnErr /\ UNCHANGED <<body, completed>>
        BY <1>2, <2>3 DEF ReturnErr
    <2>4. CASE Create
        BY <1>1, <2>4 DEF Create
    <2>5. CASE CreateFails
        BY <1>1, <2>5 DEF CreateFails
    <2>6. CASE AcquirePermit
        BY <1>1, <2>6 DEF AcquirePermit
    <2>7. CASE RecvSuccess
        BY <1>1, <2>7 DEF RecvSuccess
    <2>8. CASE RecvNone
        BY <1>1, <2>8 DEF RecvNone
    <2>9. CASE SendComplete
        BY <1>1, <2>9 DEF SendComplete
    <2>10. CASE CompleteAcked
        BY <1>1, <2>10 DEF CompleteAcked
    <2> QED
        BY <1>5, <2>1, <2>2, <2>3, <2>4, <2>5, <2>6, <2>7, <2>8, <2>9, <2>10
        DEF Uploader, JoinErr, AbortIncomplete, CompleteRefused, CompleteTimesOut
<1>6. CASE Storage /\ UNCHANGED writeVars
    <2>1. ASSUME NEW p \in DOMAIN task, PartStored(p) \/ PartFails(p) \/ OrphanLands(p)
          PROVE  TasksInv'
        <3>1. PICK state \in {"ok", "err", "gone"} :
                    task' = [task EXCEPT ![p] = state] /\ (state = "gone" => task[p] = "orphan")
            BY <2>1 DEF PartStored, PartFails, OrphanLands, TasksIn
        <3>2. /\ DOMAIN task' = DOMAIN task
              /\ \A q \in DOMAIN task : task'[q] = IF q = p THEN state ELSE task[q]
            BY <3>1
        <3>3. UNCHANGED <<body, completed, up>>
            BY <2>1 DEF PartStored, PartFails, OrphanLands
        <3> QED
            BY <1>0, <3>1, <3>2, <3>3
    <2>2. ASSUME Commit \/ CommitRefused \/ CommitFails \/ Abort \/ AbortFails
          PROVE  UNCHANGED <<body, task, completed, up>>
        BY <2>2 DEF Commit, CommitRefused, CommitFails, Abort, AbortFails
    <2> QED
        BY <1>1, <1>6, <2>1, <2>2 DEF Storage
<1>7. CASE Crash
    BY <1>2, <1>7 DEF Crash
<1>8. CASE Done
    BY <1>1, <1>8 DEF Done, vars
<1> QED
    BY <1>3, <1>4, <1>5, <1>6, <1>7, <1>8 DEF Next

\* The completion lists every part, and nothing but its commit changes the
\* object.
LEMMA CompleteNext == IInv /\ Next => CompleteInv'
<1> SUFFICES ASSUME IInv, Next PROVE CompleteInv'
    OBVIOUS
<1>0. CompleteInv /\ ShapeOK
    BY TypeParts, Zenon DEF IInv
<1> USE DEF CompleteInv, BeforeComplete, uploadVars, channelVars, uploaderVars, storageVars, writeVars
<1>1. ASSUME UNCHANGED <<body, completed, success, audited, object, completeReq, result>>,
             up' = up \/ up \in {"idle", "create", "loop"} \/ up' \in {"err", "dead"},
             up' = up \/ up' # "ok"
      PROVE  CompleteInv'
    BY <1>0, <1>1
<1>2. CASE Writer
    <2>1. ASSUME NEW e \in RejectError, Reject(e)
          PROVE  CompleteInv'
        BY <1>0, <2>1 DEF Reject, RejectError
    <2>2. CASE SpawnSerializer
        BY <1>1, <2>2 DEF SpawnSerializer
    <2>3. CASE PushAudit
        BY <1>0, <2>3 DEF PushAudit
    <2>4. CASE StartUpload
        <3>1. up = "idle"
            BY <2>4 DEF StartUpload, IInv, CallInv
        <3> QED
            BY <1>0, <2>4, <3>1 DEF StartUpload
    <2>5. CASE Return
        BY <1>0, <2>5 DEF Return
    <2> QED
        BY <1>2, <2>1, <2>2, <2>3, <2>4, <2>5 DEF Writer
<1>3. CASE Serializer
    <2>1. UNCHANGED <<body, completed, success, audited, object, completeReq, result, up>>
        BY <1>3 DEF Serializer, SendChunk, SendRefused, SerializerFails, SignalSuccess, Unwind
    <2> QED
        BY <1>1, <2>1
<1>4. CASE Uploader /\ UNCHANGED writeVars
    <2>1. CASE Create
        BY <1>1, <1>4, <2>1 DEF Create
    <2>2. CASE CreateFails
        BY <1>1, <1>4, <2>2 DEF CreateFails
    <2>3. CASE AcquirePermit
        BY <1>1, <1>4, <2>3 DEF AcquirePermit
    <2>4. CASE RecvData
        BY <1>0, <1>4, <2>4 DEF RecvData
    <2>5. CASE RecvSuccess
        BY <1>0, <1>4, <2>5 DEF RecvSuccess
    <2>6. CASE RecvNone
        BY <1>0, <1>4, <2>6 DEF RecvNone
    <2>7. ASSUME NEW p \in DOMAIN task, JoinOk(p)
          PROVE  CompleteInv'
        BY <1>0, <1>4, <2>7 DEF JoinOk
    <2>8. CASE SendComplete
        <3>1. DOMAIN task = DOMAIN body
            BY <1>0, LenProperties DEF ShapeOK
        <3>2. \A p \in DOMAIN task : task[p] = "joined"
            <4>1. \A p \in DOMAIN task : task[p] \in TaskState
                BY <1>0, LenProperties DEF ShapeOK
            <4>2. \A p \in DOMAIN task : task[p] \notin {"running", "ok", "err"}
                BY <2>8 DEF SendComplete, JoinSet, TasksIn
            <4>3. \A p \in DOMAIN task : task[p] \notin {"orphan", "gone"}
                BY <2>8 DEF SendComplete, IInv, TasksInv
            <4> QED
                BY <4>1, <4>2, <4>3 DEF TaskState
        <3>3. Elements(completed) = DOMAIN body
            BY <3>1, <3>2 DEF IInv, TasksInv
        <3>4. audited
            BY <2>8 DEF SendComplete, IInv, CallInv
        <3> QED
            BY <1>0, <1>4, <2>8, <3>3, <3>4 DEF SendComplete
    <2>9. CASE CompleteAcked
        BY <1>0, <1>4, <2>9 DEF CompleteAcked
    <2>10. CASE ReturnErr /\ UNCHANGED <<body, completed, success, object, completeReq>>
        BY <1>1, <1>4, <2>10 DEF ReturnErr
    <2> QED
        BY <1>4, <2>1, <2>2, <2>3, <2>4, <2>5, <2>6, <2>7, <2>8, <2>9, <2>10
        DEF Uploader, JoinErr, AbortIncomplete, CompleteRefused, CompleteTimesOut
<1>5. CASE Storage /\ UNCHANGED writeVars
    <2>1. ASSUME NEW p \in DOMAIN task, PartStored(p) \/ PartFails(p) \/ OrphanLands(p)
          PROVE  UNCHANGED <<body, completed, success, audited, object, completeReq, result, up>>
        BY <1>5, <2>1 DEF PartStored, PartFails, OrphanLands
    <2>2. CASE Commit
        BY <1>0, <1>5, <2>2, CommitWhole DEF Commit
    <2>3. CASE CommitRefused
        BY <1>0, <1>5, <2>3 DEF CommitRefused
    <2>4. CASE CommitFails
        BY <1>0, <1>5, <2>4 DEF CommitFails
    <2>5. ASSUME Abort \/ AbortFails
          PROVE  UNCHANGED <<body, completed, success, audited, object, completeReq, result, up>>
        BY <1>5, <2>5 DEF Abort, AbortFails
    <2> QED
        BY <1>1, <1>5, <2>1, <2>2, <2>3, <2>4, <2>5 DEF Storage
<1>6. CASE Crash
    BY <1>1, <1>6 DEF Crash
<1>7. CASE Done
    BY <1>1, <1>7 DEF Done, vars
<1> QED
    BY <1>2, <1>3, <1>4, <1>5, <1>6, <1>7 DEF Next

-----------------------------------------------------------------------------
(* The theorems.                                                           *)

\* The inductive invariant holds in every reachable state.
THEOREM Invariance == Spec => []IInv
<1>1. Init => IInv
    BY InitIInv
<1>2. IInv /\ [Next]_vars => IInv'
    <2> SUFFICES ASSUME IInv, [Next]_vars PROVE IInv'
        OBVIOUS
    <2>1. CASE Next
        <3>1. FlagsOK' /\ ShapeOK'
            BY <2>1, FlagsNext, ShapeNext, TypeParts, Zenon DEF IInv
        <3>2. TypeOK'
            BY <3>1, TypeParts, Zenon DEF FlagsOK, ShapeOK, TypeOK, UploadTypeOK
        <3> QED
            BY <2>1, <3>2, CallNext, StreamNext, TasksNext, CompleteNext DEF IInv
    <2>2. CASE UNCHANGED vars
        <3> USE <2>2 DEF vars, uploadVars, channelVars, uploaderVars, storageVars, writeVars
        <3>1. TypeOK'
            BY DEF IInv, TypeOK, UploadTypeOK
        <3>2. CallInv'
            BY DEF IInv, CallInv, Active
        <3>3. StreamInv'
            BY DEF IInv, StreamInv, Serving
        <3>4. TasksInv' /\ CompleteInv'
            BY DEF IInv, TasksInv, CompleteInv, BeforeComplete
        <3> QED
            BY <3>1, <3>2, <3>3, <3>4 DEF IInv
    <2> QED
        BY <2>1, <2>2
<1> QED
    BY <1>1, <1>2, PTL DEF Spec

\* Every variable keeps its type: in particular the tasks are one per part and
\* the channel carries only stream items.
THEOREM TypeCorrect == Spec => []TypeOK
<1>1. IInv => TypeOK
    BY DEF IInv
<1> QED
    BY <1>1, Invariance, PTL

\* A reader of the key sees no object or the whole file, whatever the number
\* of chunks, the capacity of the channel and the number of permits, and
\* whatever fails or crashes.
THEOREM Atomicity == Spec => []WholeOrNothing
<1>1. IInv => WholeOrNothing
    BY DEF IInv, CompleteInv, WholeOrNothing
<1> QED
    BY <1>1, Invariance, PTL

\* Nothing exists at the service before the audit event was recorded.
THEOREM AuditFirst == Spec => []AuditBeforeEffect
<1>1. IInv => AuditBeforeEffect
    BY DEF IInv, CallInv, CompleteInv, AuditBeforeEffect
<1> QED
    BY <1>1, Invariance, PTL

\* Ok is returned only for an object that is visible, and whole.
THEOREM OkVisible == Spec => []OkMeansVisible
<1>1. IInv => OkMeansVisible
    BY DEF IInv, CompleteInv, OkMeansVisible
<1> QED
    BY <1>1, Invariance, PTL

\* The put is atomic, audited first and truthfully acknowledged.
THEOREM Safety == Spec => []Safe
<1>1. WholeOrNothing /\ AuditBeforeEffect /\ OkMeansVisible => Safe
    BY DEF Safe
<1> QED
    BY <1>1, Atomicity, AuditFirst, OkVisible, PTL

-----------------------------------------------------------------------------
(* The refinement.                                                         *)

\* Every step of the pipeline is a step of the atomic put or changes nothing
\* that it shows.
LEMMA StepRefines == IInv /\ [Next]_vars => [AP!Next]_(AP!vars)
<1> SUFFICES ASSUME IInv, [Next]_vars PROVE [AP!Next]_(AP!vars)
    OBVIOUS
<1>0. CallInv /\ CompleteInv
    BY DEF IInv
<1> USE DEF AP!vars, uploadVars, channelVars, uploaderVars, storageVars, writeVars
<1>1. CASE Writer
    <2>1. ASSUME NEW e \in RejectError, Reject(e)
          PROVE  AP!ReturnError
        BY <1>0, <2>1 DEF Reject, CallInv, AP!ReturnError
    <2>2. ASSUME SpawnSerializer \/ StartUpload
          PROVE  UNCHANGED AP!vars
        BY <2>2 DEF SpawnSerializer, StartUpload
    <2>3. ASSUME PushAudit
          PROVE  AP!Audit
        BY <1>0, <2>3 DEF PushAudit, CallInv, AP!Audit
    <2>4. ASSUME Return
          PROVE  AP!ReturnOk \/ AP!ReturnError
        <3>1. result = "none" /\ UNCHANGED <<object, audited>>
            BY <1>0, <2>4 DEF Return, CallInv
        <3>2. CASE ser = "ok" /\ up = "ok"
            <4>1. object = WholeFile
                BY <1>0, <3>2 DEF CompleteInv
            <4> QED
                BY <2>4, <3>1, <3>2, <4>1 DEF Return, AP!ReturnOk
        <3>3. CASE ser # "ok" \/ up = "err"
            <4>1. result' \in JoinError
                BY <2>4, <3>3 DEF Return, JoinError
            <4> QED
                BY <3>1, <4>1 DEF AP!ReturnError
        <3> QED
            BY <2>4, <3>2, <3>3 DEF Return
    <2> QED
        BY <1>1, <2>1, <2>2, <2>3, <2>4 DEF Writer, AP!Next
<1>2. ASSUME Serializer
      PROVE  UNCHANGED AP!vars
    BY <1>2 DEF Serializer, SendChunk, SendRefused, SerializerFails, SignalSuccess, Unwind
<1>3. ASSUME Uploader /\ UNCHANGED writeVars
      PROVE  UNCHANGED AP!vars
    BY <1>3 DEF Uploader, Create, CreateFails, AcquirePermit, RecvData, RecvSuccess, RecvNone,
        JoinOk, JoinErr, AbortIncomplete, SendComplete, CompleteAcked, CompleteRefused,
        CompleteTimesOut, ReturnErr
<1>4. CASE Storage /\ UNCHANGED writeVars
    <2>1. ASSUME Commit
          PROVE  AP!Put
        <3>1. object' = WholeFile
            BY <2>1, CommitWhole
        <3>2. audited /\ object = NoObject
            BY <1>0, <2>1 DEF Commit, CompleteInv
        <3> QED
            BY <1>4, <3>1, <3>2 DEF AP!Put
    <2>2. ASSUME Storage, ~Commit
          PROVE  UNCHANGED AP!vars
        BY <1>4, <2>2 DEF Storage, PartStored, PartFails, OrphanLands, CommitRefused, CommitFails, Abort, AbortFails
    <2> QED
        BY <1>4, <2>1, <2>2 DEF AP!Next
<1>5. ASSUME Crash
      PROVE  UNCHANGED AP!vars
    BY <1>5 DEF Crash
<1>6. ASSUME Done \/ UNCHANGED vars
      PROVE  UNCHANGED AP!vars
    BY <1>6 DEF Done, vars
<1> QED
    BY <1>1, <1>2, <1>3, <1>4, <1>5, <1>6 DEF Next

\* One call of write() implements the atomic put: with channels, parts and
\* threads hidden, the key changes at most once, to the whole object, after
\* the audit event, and Ok follows the change.
THEOREM Refinement == Spec => ImplementsAtomicPut
<1>1. Init => AP!Init
    BY DEF Init, UploadInit, AP!Init
<1>2. IInv /\ [Next]_vars => [AP!Next]_(AP!vars)
    BY StepRefines
<1> QED
    BY <1>1, <1>2, Invariance, PTL DEF Spec, ImplementsAtomicPut, AP!Spec

-----------------------------------------------------------------------------
(* Errors.  A second invariant, inductive together with the first, traces  *)
(* every error to a failure of the environment.                            *)

Working == up \in {"create", "loop", "drain", "completing"}
Caused == faults \cap UploadFaults # {}
Invisible == completeReq \in {"none", "rejected"}

\* Uploader and serializer live between the join's beginning and the return.
PlaceInv ==
    /\ Working => pc = "joining"
    /\ pc = "returned" => up \in {"idle", "ok", "err"}
    /\ pc = "crashed" <=> up = "dead"
    /\ pc = "crashed" <=> ser = "dead"
    /\ ~rxOpen => up \in {"ok", "err", "dead"}
    /\ pc \in {"spawned", "audited", "joining"} => ser # "idle"
    /\ ser \in {"run", "unwind"} => "task" \in senders

\* A serializer that ended well leaves Success behind; one that did not had a
\* failure of its own or lost its receiver.
SerializerInv ==
    /\ ser = "unwind" => "serializer" \in faults
    /\ ser \in {"err", "panic"} => "serializer" \in faults \/ (~rxOpen /\ Caused)
    /\ rxOpen /\ ser = "ok" /\ ~success => chan # <<>> /\ chan[Len(chan)] = Success
    /\ up = "drain" /\ ~success => ser \in {"err", "panic"} /\ "serializer" \in faults

\* While the uploader works the service holds every part it was told of, so
\* that only a failure makes it refuse the completion.
ServiceInv ==
    /\ Active => abortReq = "none"
    /\ Active => \A p \in DOMAIN task : task[p] \in {"ok", "joined"} => p \in stored
    /\ Active => Elements(completed) \subseteq stored
    /\ \A p \in DOMAIN task : task[p] = "err" => "part" \in faults
    /\ up \in {"loop", "drain", "completing"} => mpu = "open" \/ completeReq = "committed"
    /\ up = "completing" /\ completeReq = "rejected" => "complete" \in faults

ErrorInv ==
    /\ up = "err" => Caused \/ (ser \in {"err", "panic"} /\ "serializer" \in faults)
    /\ up = "err" /\ "timeout" \notin faults => Invisible
    /\ result \in RejectError \cup JoinError /\ "timeout" \notin faults => Invisible
    /\ NoSpuriousFailure

HonestInv == PlaceInv /\ SerializerInv /\ ServiceInv /\ ErrorInv

\* No step takes a failure back.
LEMMA FaultsGrow == [Next]_vars => faults \subseteq faults'
<1> USE DEF uploadVars, channelVars, uploaderVars, storageVars, writeVars
<1>1. Writer => faults' = faults
    BY DEF Writer, Reject, SpawnSerializer, PushAudit, StartUpload, Return
<1>2. Serializer => faults \subseteq faults'
    BY DEF Serializer, SendChunk, SendRefused, SerializerFails, SignalSuccess, Unwind
<1>3. Uploader => faults \subseteq faults'
    BY DEF Uploader, Create, CreateFails, AcquirePermit, RecvData, RecvSuccess, RecvNone,
        JoinOk, JoinErr, AbortIncomplete, SendComplete, CompleteAcked, CompleteRefused,
        CompleteTimesOut
<1>4. Storage => faults \subseteq faults'
    BY DEF Storage, PartStored, PartFails, OrphanLands, Commit, CommitRefused,
        CommitFails, Abort, AbortFails
<1> QED
    BY <1>1, <1>2, <1>3, <1>4 DEF Next, vars, Crash, Done

\* Every step keeps uploader, serializer and call in step.
LEMMA PlaceNext == IInv /\ HonestInv /\ Next => PlaceInv'
<1> SUFFICES ASSUME IInv, PlaceInv, Next PROVE PlaceInv'
    BY DEF HonestInv
<1>0. CallInv
    BY DEF IInv
<1> USE <1>0 DEF PlaceInv, CallInv, Active, Working,
        uploadVars, channelVars, uploaderVars, storageVars, writeVars
<1>1. CASE Writer
    <2>1. ASSUME NEW e \in RejectError, Reject(e)
          PROVE  PlaceInv'
        BY <2>1 DEF Reject
    <2>2. CASE SpawnSerializer
        BY <2>2 DEF SpawnSerializer, Handles
    <2>3. CASE PushAudit
        BY <2>3 DEF PushAudit
    <2>4. CASE StartUpload
        BY <2>4 DEF StartUpload
    <2>5. CASE Return
        BY <2>5 DEF Return
    <2> QED
        BY <1>1, <2>1, <2>2, <2>3, <2>4, <2>5 DEF Writer
<1>2. CASE Serializer
    BY <1>2 DEF Serializer, SendChunk, SendRefused, SerializerFails, SignalSuccess, Unwind
<1>3. CASE Uploader /\ UNCHANGED writeVars
    BY <1>3 DEF Uploader, Create, CreateFails, AcquirePermit, RecvData, RecvSuccess, RecvNone,
        JoinOk, JoinErr, AbortIncomplete, SendComplete, CompleteAcked, CompleteRefused,
        CompleteTimesOut, ReturnErr
<1>4. CASE Storage /\ UNCHANGED writeVars
    BY <1>4 DEF Storage, PartStored, PartFails, OrphanLands, Commit, CommitRefused,
        CommitFails, Abort, AbortFails
<1>5. CASE Crash
    BY <1>5 DEF Crash
<1>6. CASE Done
    BY <1>6 DEF Done, vars
<1> QED
    BY <1>1, <1>2, <1>3, <1>4, <1>5, <1>6 DEF Next

\* The last item of the channel stays the last one.
LEMMA LastStays ==
    ASSUME NEW S, NEW s \in Seq(S), s # <<>>
    PROVE  Head(s) = s[Len(s)] \/ (Tail(s) # <<>> /\ Tail(s)[Len(Tail(s))] = s[Len(s)])
<1>1. Len(s) \in Nat \ {0} /\ Head(s) = s[1] /\ Len(Tail(s)) = Len(s) - 1
    OBVIOUS
<1>2. \A i \in 1 .. Len(s) - 1 : Tail(s)[i] = s[i + 1]
    OBVIOUS
<1>3. CASE Len(s) = 1
    BY <1>1, <1>3
<1>4. CASE Len(s) # 1
    <2>1. Len(s) - 1 \in 1 .. Len(s) - 1 /\ (Len(s) - 1) + 1 = Len(s)
        BY <1>1, <1>4
    <2>2. Tail(s)[Len(s) - 1] = s[Len(s)]
        BY <1>2, <2>1
    <2>3. Len(Tail(s)) # 0
        BY <1>1, <2>1
    <2>4. Tail(s) # <<>>
        BY <2>3, EmptySeq
    <2> QED
        BY <1>1, <2>2, <2>4
<1> QED
    BY <1>3, <1>4

\* What is appended is last.
LEMMA LastAppended ==
    ASSUME NEW S, NEW s \in Seq(S), NEW x \in S
    PROVE  Append(s, x) # <<>> /\ Append(s, x)[Len(Append(s, x))] = x
OBVIOUS

\* How a serializer ended shows in the channel or in the failures.
LEMMA SerializerNext == IInv /\ HonestInv /\ Next => SerializerInv'
<1> SUFFICES ASSUME IInv, PlaceInv, SerializerInv, ErrorInv, Next PROVE SerializerInv'
    BY DEF HonestInv
<1>0. CallInv /\ StreamInv /\ CompleteInv /\ ShapeOK
    BY TypeParts, Zenon DEF IInv
<1>a. DOMAIN chan = 1 .. Len(chan) /\ Len(chan) \in Nat
    BY <1>0, LenProperties DEF ShapeOK
<1>f. faults \subseteq faults' /\ (Caused => Caused')
    BY FaultsGrow DEF Caused
<1> USE <1>f DEF SerializerInv, uploadVars, channelVars, uploaderVars, storageVars, writeVars
<1> HIDE DEF Caused, Success, Data
<1>1. ASSUME UNCHANGED <<chan, rxOpen, success, ser>>, up' = up \/ up' # "drain"
      PROVE  SerializerInv'
    BY <1>1
<1>2. CASE Writer
    <2>1. CASE SpawnSerializer
        BY <1>0, <2>1 DEF SpawnSerializer, CallInv
    <2>2. ASSUME NEW e \in RejectError, Reject(e)
          PROVE  SerializerInv'
        BY <1>1, <2>2 DEF Reject
    <2>3. CASE PushAudit \/ StartUpload \/ Return
        BY <1>1, <2>3 DEF PushAudit, StartUpload, Return
    <2> QED
        BY <1>2, <2>1, <2>2, <2>3 DEF Writer
<1>3. CASE SendRefused
    <2>1. ser = "run" /\ ~rxOpen
        BY <1>3 DEF SendRefused
    <2>2. up # "ok"
        BY <1>0, <2>1 DEF CompleteInv, StreamInv
    <2>3. Caused
        BY <2>1, <2>2 DEF PlaceInv, ErrorInv
    <2> QED
        BY <1>3, <2>1, <2>3 DEF SendRefused
<1>4. CASE SendChunk \/ SerializerFails
    BY <1>4 DEF SendChunk, SerializerFails
<1>5. ASSUME NEW o \in {"err", "panic"}, Unwind(o)
      PROVE  SerializerInv'
    BY <1>5 DEF Unwind
<1>6. CASE SignalSuccess
    <2>1. CASE rxOpen
        <3>1. chan' = Append(chan, Success)
            BY <1>6, <2>1 DEF SignalSuccess
        <3>2. Success \in StreamItem /\ chan \in Seq(StreamItem)
            BY <1>0 DEF StreamItem, ShapeOK
        <3>3. Append(chan, Success) # <<>> /\ Append(chan, Success)[Len(Append(chan, Success))] = Success
            BY <3>2, LastAppended
        <3> QED
            BY <1>6, <3>1, <3>3 DEF SignalSuccess
    <2>2. CASE ~rxOpen
        BY <1>6, <2>2 DEF SignalSuccess
    <2> QED
        BY <2>1, <2>2
<1>7. CASE Uploader /\ UNCHANGED writeVars
    <2>1. CASE RecvData
        <3>1. chan # <<>> /\ chan' = Tail(chan) /\ Head(chan) # Success
            BY <2>1 DEF RecvData, Success
        <3>2. \/ Head(chan) = chan[Len(chan)]
              \/ chan' # <<>> /\ chan'[Len(chan')] = chan[Len(chan)]
            BY <1>0, <3>1, LastStays DEF ShapeOK
        <3>3. rxOpen /\ ser = "ok" /\ ~success => chan' # <<>> /\ chan'[Len(chan')] = Success
            BY <3>1, <3>2
        <3> QED
            BY <1>7, <2>1, <3>3 DEF RecvData
    <2>2. CASE RecvSuccess
        BY <1>7, <2>2 DEF RecvSuccess
    <2>3. CASE RecvNone
        <3>1. pc = "joining" /\ rxOpen /\ chan = <<>> /\ senders = {}
            BY <1>0, <2>3 DEF RecvNone, PlaceInv, Working, CallInv, Active
        <3>2. ser \in {"ok", "err", "panic"}
            BY <1>0, <3>1 DEF PlaceInv, ShapeOK
        <3> QED
            BY <1>7, <2>3, <3>1, <3>2 DEF RecvNone
    <2>4. ASSUME rxOpen, rxOpen' = FALSE, up' # "drain", UNCHANGED ser
          PROVE  SerializerInv'
        BY <2>4
    <2>5. CASE CreateFails \/ CompleteAcked
        BY <1>0, <1>7, <2>4, <2>5 DEF CreateFails, CompleteAcked, CallInv, Active
    <2>6. CASE ReturnErr /\ up \in {"loop", "drain", "completing"}
        BY <1>0, <1>7, <2>4, <2>6 DEF ReturnErr, CallInv, Active
    <2>7. CASE Create \/ AcquirePermit \/ SendComplete
        BY <1>1, <1>7, <2>7 DEF Create, AcquirePermit, SendComplete
    <2>8. ASSUME NEW p \in DOMAIN task, JoinOk(p)
          PROVE  SerializerInv'
        BY <1>1, <1>7, <2>8 DEF JoinOk
    <2> QED
        BY <1>7, <2>1, <2>2, <2>3, <2>5, <2>6, <2>7, <2>8
        DEF Uploader, JoinErr, AbortIncomplete, CompleteRefused, CompleteTimesOut
<1>8. CASE Storage /\ UNCHANGED writeVars
    BY <1>1, <1>8 DEF Storage, PartStored, PartFails, OrphanLands, Commit, CommitRefused,
        CommitFails, Abort, AbortFails
<1>9. CASE Crash
    BY <1>9 DEF Crash
<1>10. CASE Done
    BY <1>1, <1>10 DEF Done, vars
<1> QED
    BY <1>2, <1>3, <1>4, <1>5, <1>6, <1>7, <1>8, <1>9, <1>10 DEF Next, Serializer

\* A list of all the parts, all held by the service, is accepted.
LEMMA WholeAccepted ==
    ASSUME IInv, ServiceInv, up = "completing", completeReq = "sent"
    PROVE  mpu = "open" /\ Acceptable(SortedParts(completed))
<1>1. Elements(completed) = 1 .. NumChunks
    BY DEF IInv, CompleteInv, StreamInv, WholeFile
<1>2. SortedParts(completed) = [i \in 1 .. NumChunks |-> i]
    BY <1>1, SortedParts1N, NumChunksAssumption
<1>3. 1 .. NumChunks \subseteq stored
    BY <1>1 DEF ServiceInv, Active
<1>4. Acceptable([i \in 1 .. NumChunks |-> i])
    BY <1>3, NumChunksAssumption DEF Acceptable
<1> QED
    BY <1>2, <1>4 DEF ServiceInv

\* What the uploader believes of the service stays true while it works.
LEMMA ServiceNext == IInv /\ HonestInv /\ Next => ServiceInv'
<1> SUFFICES ASSUME IInv, PlaceInv, ServiceInv, Next PROVE ServiceInv'
    BY DEF HonestInv
<1>0. CallInv /\ CompleteInv /\ TasksInv /\ ShapeOK
    BY TypeParts, Zenon DEF IInv
<1>a. DOMAIN body = 1 .. Len(body) /\ DOMAIN task = 1 .. Len(body) /\ Len(body) \in Nat
    BY <1>0, LenProperties DEF ShapeOK
<1>f. faults \subseteq faults'
    BY FaultsGrow
<1> USE <1>f DEF ServiceInv, Active, uploadVars, channelVars, uploaderVars, storageVars, writeVars
<1>1. ASSUME UNCHANGED <<task, completed, stored, abortReq, mpu, completeReq>>,
             Active' => Active,
             up' \in {"loop", "drain"} => up \in {"loop", "drain", "completing"},
             up' = "completing" => up = "completing"
      PROVE  ServiceInv'
    BY <1>1
<1>2. ASSUME ~Active', task' = TasksDropped(task)
      PROVE  ServiceInv'
    <2>1. DOMAIN task' = DOMAIN task /\ \A p \in DOMAIN task : task'[p] = "err" => task[p] = "err"
        BY <1>2 DEF TasksDropped
    <2> QED
        BY <1>2, <2>1
<1>3. CASE Writer
    <2>1. CASE StartUpload
        BY <1>0, <2>1 DEF StartUpload, CallInv
    <2>2. ASSUME NEW e \in RejectError, Reject(e)
          PROVE  ServiceInv'
        BY <1>1, <2>2 DEF Reject
    <2>3. CASE SpawnSerializer \/ PushAudit \/ Return
        BY <1>1, <2>3 DEF SpawnSerializer, PushAudit, Return
    <2> QED
        BY <1>3, <2>1, <2>2, <2>3 DEF Writer
<1>4. CASE Serializer
    BY <1>1, <1>4 DEF Serializer, SendChunk, SendRefused, SerializerFails, SignalSuccess, Unwind
<1>5. CASE Uploader /\ UNCHANGED writeVars
    <2>1. CASE Create
        BY <2>1 DEF Create
    <2>2. CASE RecvData
        <3>1. /\ DOMAIN task' = 1 .. Len(body) + 1
              /\ \A p \in 1 .. Len(body) : task'[p] = task[p]
              /\ task'[Len(body) + 1] = "running"
            BY <1>0, <1>a, <2>2 DEF RecvData, ShapeOK
        <3>2. \A p \in DOMAIN task' : p \in DOMAIN task \/ task'[p] = "running"
            BY <1>a, <3>1
        <3> QED
            BY <1>a, <2>2, <3>1, <3>2 DEF RecvData
    <2>3. ASSUME NEW p \in DOMAIN task, JoinOk(p)
          PROVE  ServiceInv'
        <3>1. task[p] = "ok"
            BY <2>3 DEF JoinOk, TasksIn
        <3>2. Elements(completed') = Elements(completed) \cup {p}
            <4>1. completed \in Seq(Nat) /\ p \in Nat /\ completed' = Append(completed, p)
                BY <1>0, <1>a, <2>3 DEF JoinOk, ShapeOK
            <4> QED
                BY <4>1, ElementsAppend
        <3>3. /\ DOMAIN task' = DOMAIN task
              /\ \A q \in DOMAIN task : task'[q] = IF q = p THEN "joined" ELSE task[q]
            BY <2>3 DEF JoinOk
        <3> QED
            BY <2>3, <3>1, <3>2, <3>3 DEF JoinOk
    <2>4. CASE SendComplete
        BY <1>0, <2>4 DEF SendComplete, CompleteInv, BeforeComplete
    <2>5. CASE CreateFails
        BY <2>5 DEF CreateFails
    <2>6. CASE CompleteAcked
        BY <2>6 DEF CompleteAcked
    <2>7. CASE ReturnErr
        BY <1>2, <2>7 DEF ReturnErr
    <2>8. CASE AcquirePermit \/ RecvSuccess \/ RecvNone
        BY <1>1, <2>8 DEF AcquirePermit, RecvSuccess, RecvNone
    <2> QED
        BY <1>5, <2>1, <2>2, <2>3, <2>4, <2>5, <2>6, <2>7, <2>8
        DEF Uploader, JoinErr, AbortIncomplete, CompleteRefused, CompleteTimesOut
<1>6. CASE Storage /\ UNCHANGED writeVars
    <2>1. ASSUME NEW p \in DOMAIN task, PartStored(p) \/ PartFails(p) \/ OrphanLands(p)
          PROVE  ServiceInv'
        <3>1. PICK state \in {"ok", "err", "gone"} :
                    /\ task' = [task EXCEPT ![p] = state]
                    /\ state = "ok" => stored' = stored \cup {p}
                    /\ state = "err" => "part" \in faults'
            BY <2>1 DEF PartStored, PartFails, OrphanLands
        <3>2. /\ DOMAIN task' = DOMAIN task
              /\ \A q \in DOMAIN task : task'[q] = IF q = p THEN state ELSE task[q]
            BY <3>1
        <3>3. stored \subseteq stored' /\ UNCHANGED <<up, completed, abortReq, mpu, completeReq>>
            BY <2>1 DEF PartStored, PartFails, OrphanLands
        <3> QED
            BY <3>1, <3>2, <3>3
    <2>2. CASE Commit
        BY <2>2 DEF Commit
    <2>3. CASE CommitRefused
        BY <2>3, WholeAccepted DEF CommitRefused
    <2>4. CASE CommitFails
        BY <2>4 DEF CommitFails
    <2>5. CASE Abort \/ AbortFails
        BY <2>5 DEF Abort, AbortFails
    <2> QED
        BY <1>6, <2>1, <2>2, <2>3, <2>4, <2>5 DEF Storage
<1>7. CASE Crash
    BY <1>2, <1>7 DEF Crash
<1>8. CASE Done
    BY <1>1, <1>8 DEF Done, vars
<1> QED
    BY <1>3, <1>4, <1>5, <1>6, <1>7, <1>8 DEF Next

\* Every way to an error passes a failure.
LEMMA ErrorNext == IInv /\ HonestInv /\ Next => ErrorInv'
<1> SUFFICES ASSUME IInv, HonestInv, Next PROVE ErrorInv'
    OBVIOUS
<1>0. /\ CallInv /\ StreamInv /\ CompleteInv
      /\ PlaceInv /\ SerializerInv /\ ServiceInv /\ ErrorInv
    BY DEF IInv, HonestInv
<1>f. faults \subseteq faults' /\ (Caused => Caused')
    BY FaultsGrow DEF Caused
<1> USE <1>f DEF ErrorInv, Invisible, uploadVars, channelVars, uploaderVars, storageVars, writeVars
<1>c. faults' \cap (UploadFaults \cup {"serializer"}) # {} <=> Caused' \/ "serializer" \in faults'
    BY DEF Caused
<1>n. NoSpuriousFailure' <=>
        /\ result' = "UploadFailed" => Caused'
        /\ result' = "SerializationError" => Caused' \/ "serializer" \in faults'
    BY <1>c DEF NoSpuriousFailure, Caused
<1>e. \A k \in UploadFaults : k \in faults' => Caused'
    BY DEF Caused
<1>o. RejectError \cap {"Ok", "UploadFailed", "SerializationError"} = {} /\ "Ok" \notin JoinError
    BY DEF RejectError, JoinError
<1> HIDE DEF Caused, NoSpuriousFailure
<1>s. /\ result = "UploadFailed" => Caused
      /\ result = "SerializationError" => Caused \/ "serializer" \in faults
    BY <1>0 DEF NoSpuriousFailure, Caused
<1>1. ASSUME UNCHANGED <<completeReq, result>>,
             up' # "err" \/ (up' = up /\ (ser \in {"err", "panic"} => ser' = ser))
      PROVE  ErrorInv'
    BY <1>0, <1>1, <1>n, <1>s
<1>2. CASE Writer
    <2>1. ASSUME NEW e \in RejectError, Reject(e)
          PROVE  ErrorInv'
        <3>1. up = "idle" /\ completeReq = "none"
            BY <1>0, <2>1 DEF Reject, CallInv, CompleteInv, BeforeComplete
        <3> QED
            BY <1>n, <1>o, <2>1, <3>1 DEF Reject
    <2>2. CASE Return
        <3>1. CASE up = "ok"
            <4>1. ser = "ok"
                BY <1>0, <2>2, <3>1 DEF Return, CompleteInv, StreamInv
            <4> QED
                BY <1>n, <1>o, <2>2, <3>1, <4>1 DEF Return
        <3>2. CASE up = "err"
            BY <1>0, <1>n, <2>2, <3>2 DEF Return
        <3> QED
            BY <2>2, <3>1, <3>2 DEF Return
    <2>3. CASE SpawnSerializer \/ PushAudit \/ StartUpload
        BY <1>0, <1>1, <2>3 DEF SpawnSerializer, PushAudit, StartUpload, CallInv
    <2> QED
        BY <1>2, <2>1, <2>2, <2>3 DEF Writer
<1>3. CASE Serializer
    BY <1>1, <1>3 DEF Serializer, SendChunk, SendRefused, SerializerFails, SignalSuccess, Unwind
<1>4. CASE Uploader /\ UNCHANGED writeVars
    <2>1. ASSUME Working
          PROVE  result = "none"
        BY <1>0, <2>1 DEF PlaceInv, CallInv
    <2>2. ASSUME Working, UNCHANGED <<completeReq, result, ser>>,
                 Caused' \/ (ser \in {"err", "panic"} /\ "serializer" \in faults),
                 "timeout" \notin faults' => Invisible
          PROVE  ErrorInv'
        BY <1>n, <1>f, <2>1, <2>2 DEF RejectError, JoinError
    <2>3. CASE CreateFails
        BY <1>0, <1>4, <1>e, <2>2, <2>3 DEF CreateFails, Working, UploadFaults, CompleteInv, BeforeComplete
    <2>4. ASSUME NEW p \in DOMAIN task, JoinErr(p)
          PROVE  ErrorInv'
        BY <1>0, <1>4, <1>e, <2>2, <2>4 DEF JoinErr, TasksIn, ServiceInv, Working, UploadFaults, CompleteInv, BeforeComplete
    <2>5. CASE AbortIncomplete
        BY <1>0, <1>4, <2>2, <2>5 DEF AbortIncomplete, SerializerInv, Working, CompleteInv, BeforeComplete
    <2>6. CASE CompleteRefused
        BY <1>0, <1>4, <1>e, <2>2, <2>6 DEF CompleteRefused, ServiceInv, Working, UploadFaults
    <2>7. CASE CompleteTimesOut
        BY <1>4, <1>e, <2>2, <2>7 DEF CompleteTimesOut, Working, UploadFaults
    <2>8. CASE SendComplete
        BY <1>4, <1>n, <2>1, <2>8 DEF SendComplete, Working, RejectError, JoinError
    <2>9. CASE Create \/ AcquirePermit \/ RecvData \/ RecvSuccess \/ RecvNone \/ CompleteAcked
        BY <1>1, <1>4, <2>9 DEF Create, AcquirePermit, RecvData, RecvSuccess, RecvNone, CompleteAcked
    <2>10. ASSUME NEW p \in DOMAIN task, JoinOk(p)
           PROVE  ErrorInv'
        BY <1>1, <1>4, <2>10 DEF JoinOk
    <2> QED
        BY <1>4, <2>3, <2>4, <2>5, <2>6, <2>7, <2>8, <2>9, <2>10 DEF Uploader
<1>5. CASE Storage /\ UNCHANGED writeVars
    <2>1. CASE Commit \/ CommitRefused \/ CommitFails
        BY <1>0, <1>5, <1>n, <1>s, <2>1 DEF Commit, CommitRefused, CommitFails
    <2>2. ASSUME NEW p \in DOMAIN task, PartStored(p) \/ PartFails(p) \/ OrphanLands(p)
          PROVE  ErrorInv'
        BY <1>1, <1>5, <2>2 DEF PartStored, PartFails, OrphanLands
    <2>3. CASE Abort \/ AbortFails
        BY <1>1, <1>5, <2>3 DEF Abort, AbortFails
    <2> QED
        BY <1>5, <2>1, <2>2, <2>3 DEF Storage
<1>6. CASE Crash
    BY <1>1, <1>6 DEF Crash
<1>7. CASE Done
    BY <1>1, <1>7 DEF Done, vars
<1> QED
    BY <1>2, <1>3, <1>4, <1>5, <1>6, <1>7 DEF Next

\* An error of write() means what it says, for every file, channel and number
\* of permits: nothing was written, unless the answer to the completion was
\* lost, and there was a failure that caused it (pme_encrypt.rs:451-504,
\* write_orchestrator.rs:288-296).
THEOREM Honesty == Spec => []HonestErrors
<1>1. Init => HonestInv
    BY DEF Init, UploadInit, HonestInv, PlaceInv, SerializerInv, ServiceInv, ErrorInv, Working,
        Active, Invisible, NoSpuriousFailure, Elements, RejectError, JoinError
<1>2. IInv /\ HonestInv /\ [Next]_vars => HonestInv'
    <2>1. CASE UNCHANGED vars
        <3> USE <2>1 DEF vars, uploadVars, channelVars, uploaderVars, storageVars, writeVars
        <3>1. HonestInv => PlaceInv' /\ SerializerInv'
            BY DEF HonestInv, PlaceInv, SerializerInv, Working, Caused
        <3>2. HonestInv => ServiceInv' /\ ErrorInv'
            BY DEF HonestInv, ServiceInv, ErrorInv, Active, Caused, Invisible, NoSpuriousFailure
        <3> QED
            BY <3>1, <3>2 DEF HonestInv
    <2>2. CASE Next
        BY <2>2, PlaceNext, SerializerNext, ServiceNext, ErrorNext DEF HonestInv
    <2> QED
        BY <2>1, <2>2
<1>3. IInv /\ HonestInv => HonestErrors
    <2> SUFFICES ASSUME IInv, HonestInv PROVE FailedMeansInvisible /\ NoSpuriousFailure
        BY DEF HonestErrors
    <2>1. object = (IF completeReq = "committed" THEN WholeFile ELSE NoObject)
        BY DEF IInv, CompleteInv
    <2> QED
        BY <2>1 DEF HonestInv, ErrorInv, FailedMeansInvisible, Invisible
<1> QED
    BY <1>1, <1>2, <1>3, Invariance, PTL DEF Spec
=============================================================================
