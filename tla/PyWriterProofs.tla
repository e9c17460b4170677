--------------------------- MODULE PyWriterProofs ---------------------------
(***************************************************************************)
(* holonomy.Writer, for all batches, all capacities of its batch channel   *)
(* and any number of permits.                                              *)
(*                                                                         *)
(* __exit__ puts both items on the upload's channel before upload_stream   *)
(* receives, and keeps a sender until it returns, so the upload has the    *)
(* whole file as its one part, finds the Success item behind it, and never *)
(* sees a stream cut short (StreamInv, StoreInv).  The thread's buffer     *)
(* followed by its channel is what the caller was told is accepted         *)
(* (ThreadInv), and is all of it by the time __exit__ takes the buffer.    *)
(***************************************************************************)
EXTENDS PyWriter, FiniteSetTheorems, SequenceTheorems, TLAPS

-----------------------------------------------------------------------------
(* Sequences of one and two elements.                                      *)

LEMMA OneItem ==
    ASSUME NEW S, NEW e \in S
    PROVE  /\ <<e>> \in Seq(S) /\ Len(<<e>>) = 1 /\ DOMAIN <<e>> = {1} /\ <<e>>[1] = e /\ <<e>> # <<>>
           /\ Head(<<e>>) = e /\ Tail(<<e>>) = <<>> /\ Append(<<>>, e) = <<e>>
OBVIOUS

LEMMA TwoItems ==
    ASSUME NEW S, NEW d \in S, NEW e \in S
    PROVE  /\ Append(<<d>>, e) = <<d, e>> /\ <<d, e>> # <<>>
           /\ Head(<<d, e>>) = d /\ Tail(<<d, e>>) = <<e>>
<1>1. Append(<<d>>, e) = <<d, e>>
  <2>1. <<d>> \in Seq(S) /\ <<d, e>> \in Seq(S) /\ Len(<<d>>) = 1 /\ Len(<<d, e>>) = 2
        OBVIOUS
  <2>2. /\ Append(<<d>>, e) \in Seq(S) /\ Len(Append(<<d>>, e)) = 2
        /\ Append(<<d>>, e)[1] = d /\ Append(<<d>>, e)[2] = e
        BY <2>1, AppendProperties
  <2>3. \A i \in 1 .. 2 : Append(<<d>>, e)[i] = <<d, e>>[i]
    <3>1. \A i \in 1 .. 2 : i = 1 \/ i = 2
          OBVIOUS
    <3> QED BY <2>2, <3>1
  <2> QED BY <2>1, <2>2, <2>3, SeqEqual
<1>2. <<d, e>> # <<>> /\ Head(<<d, e>>) = d
      OBVIOUS
<1>3. Tail(<<d, e>>) = <<e>>
  <2>1. Tail(<<d, e>>) = [i \in 1 .. 1 |-> <<d, e>>[i + 1]]
        OBVIOUS
  <2>2. \A i \in 1 .. 1 : <<d, e>>[i + 1] = e /\ i = 1
        OBVIOUS
  <2> QED BY <2>1, <2>2
<1> QED BY <1>1, <1>2, <1>3

LEMMA SingletonPart == SortedParts(<<1>>) = <<1>>
<1>1. Elements(<<1>>) = {1}
      BY DEF Elements
<1>2. Cardinality({1}) = 1
      BY FS_Singleton
<1>3. (CHOOSE p \in {1} : Cardinality({q \in {1} : q < p}) = 1 - 1) = 1
  <2>1. {q \in {1} : q < 1} = {}
        OBVIOUS
  <2>2. Cardinality({q \in {1} : q < 1}) = 0
        BY <2>1, FS_EmptySet
  <2> QED BY <2>2
<1>4. SortedParts(<<1>>) = [i \in 1 .. 1 |-> CHOOSE p \in {1} : Cardinality({q \in {1} : q < p}) = i - 1]
      BY <1>1, <1>2 DEF SortedParts
<1>5. \A i \in 1 .. 1 : (CHOOSE p \in {1} : Cardinality({q \in {1} : q < p}) = i - 1) = 1
  <2> SUFFICES ASSUME NEW i \in 1 .. 1
               PROVE  (CHOOSE p \in {1} : Cardinality({q \in {1} : q < p}) = i - 1) = 1
      OBVIOUS
  <2>1. i = 1
        OBVIOUS
  <2> QED BY <1>3, <2>1
<1>6. SortedParts(<<1>>) = [i \in 1 .. 1 |-> 1]
      BY <1>4, <1>5
<1> QED BY <1>6

LEMMA FilesAre == \A s : s \in Files <=> s \in Seq(Batches) /\ Len(s) <= MaxBatches
<1>1. ASSUME NEW s \in Files PROVE s \in Seq(Batches) /\ Len(s) <= MaxBatches
  <2>1. PICK n \in 0 .. MaxBatches : s \in [1 .. n -> Batches]
        BY DEF Files
  <2> QED BY <2>1, MaxBatchesAssumption
<1>2. ASSUME NEW s \in Seq(Batches), Len(s) <= MaxBatches PROVE s \in Files
  <2>1. Len(s) \in 0 .. MaxBatches /\ s \in [1 .. Len(s) -> Batches]
        BY <1>2, MaxBatchesAssumption
  <2> QED BY <2>1 DEF Files
<1> QED BY <1>1, <1>2

LEMMA TaskReplaced ==
    ASSUME NEW s, NEW t
    PROVE  [<<s>> EXCEPT ![1] = t] = <<t>>
OBVIOUS

LEMMA Dropped == TasksDropped(<<>>) = <<>> /\ \A s : TasksDropped(<<s>>) = <<IF s = "running" THEN "orphan" ELSE s>>
BY DEF TasksDropped
-----------------------------------------------------------------------------
(* The inductive invariant.                                                *)

\* Where the program is; the types of the small sequences follow from StoreInv.
UploadBase ==
    /\ rxOpen \in BOOLEAN /\ up \in UploaderState /\ permitOpt \in BOOLEAN /\ success \in BOOLEAN
    /\ mpu \in {"none", "open", "completed", "aborted"}
    /\ completeReq \in {"none", "sent", "committed", "rejected"}
    /\ abortReq \in {"none", "sent", "done", "failed"}
    /\ faults \subseteq FaultKind /\ senders \subseteq {"exit"}
WriterBase ==
    /\ w \in {"empty", "open", "closing", "feedData", "feedSuccess", "uploading", "exited", "crashed"}
    /\ calls \in 0 .. MaxBatches
    /\ accepted \in Seq(Batches) /\ buffer \in Seq(Batches)
    /\ bchan \in Seq(Batches) /\ Len(bchan) <= BatchCap
    /\ thread \in {"none", "run", "done"}
    /\ oneshot \in {"empty", "buffer", "err"}
    /\ audited \in BOOLEAN
    /\ result \in {"none", "Ok", "Exception", "Err"}
BaseOK == UploadBase /\ WriterBase

\* While the thread runs, what was accepted is what it has serialized and what
\* is in the channel; once it has handed over a file, that is everything.
ThreadInv ==
    /\ Len(accepted) <= calls /\ Len(buffer) <= Len(accepted)
    /\ w = "empty" => thread = "none" /\ accepted = <<>>
    /\ thread = "none" => w \notin {"open", "closing"} /\ accepted = <<>> /\ oneshot = "empty"
    /\ thread # "run" => bchan = <<>>
    /\ thread = "run" =>
        /\ oneshot = "empty"
        /\ accepted # <<>>
        /\ Len(accepted) = Len(buffer) + Len(bchan)
        /\ \A i \in 1 .. Len(buffer) : buffer[i] = accepted[i]
        /\ \A i \in 1 .. Len(bchan) : bchan[i] = accepted[Len(buffer) + i]
    /\ oneshot = "buffer" => buffer = accepted /\ accepted # <<>> /\ w \notin {"empty", "open"}
    /\ accepted # <<>> => accepted[1][2]

Untouched ==
    /\ body = <<>> /\ task = <<>> /\ completed = <<>> /\ ~success
    /\ mpu = "none" /\ stored = {} /\ object = NoObject
    /\ completeReq = "none" /\ abortReq = "none"

Full == <<Data(buffer), Success>>

\* upload_stream begins on a full channel and takes the whole file as one part
StreamInv ==
    /\ w \in {"empty", "open", "closing", "feedData"} => chan = <<>>
    /\ w = "feedSuccess" => chan = <<Data(buffer)>>
    /\ up \in {"idle", "create"} => Untouched
    /\ up = "create" => chan = Full
    /\ up = "loop" =>
        /\ \/ chan = Full /\ body = <<>> /\ completed = <<>>
           \/ chan = <<Success>> /\ body = <<buffer>>
        /\ mpu = "open" /\ completeReq = "none" /\ abortReq = "none" /\ ~success
    /\ up = "drain" =>
        /\ chan = <<>> /\ body = <<buffer>> /\ success
        /\ mpu = "open" /\ completeReq = "none" /\ abortReq = "none"
    /\ up = "completing" => completed = <<1>> /\ abortReq = "none" /\ (completeReq = "sent" => mpu = "open")
    /\ up = "ok" => completeReq = "committed"

\* one part at most, committed at most once
StoreInv ==
    /\ body \in {<<>>, <<buffer>>}
    /\ chan \in {<<>>, <<Data(buffer)>>, Full, <<Success>>}
    /\ completed = <<>> \/ (completed = <<1>> /\ body = <<buffer>> /\ task = <<"joined">>)
    /\ IF body = <<>> THEN task = <<>> ELSE task \in {<<s>> : s \in TaskState}
    /\ task = <<"joined">> => completed = <<1>>
    /\ up \in {"loop", "drain"} => task \notin {<<"orphan">>, <<"gone">>}
    /\ completeReq # "none" => completed = <<1>>
    /\ stored \subseteq {1}
    /\ body = <<>> => stored = {}
    /\ object = IF completeReq = "committed" THEN <<buffer>> ELSE NoObject
    /\ up = "err" /\ completeReq \in {"sent", "committed"} => "timeout" \in faults
    /\ up = "dead" => "crash" \in faults

\* where the with block is, and what its exit has said
ExitInv ==
    /\ w \in {"empty", "open", "closing", "feedData", "feedSuccess"} => up = "idle"
    /\ w = "uploading" => up \notin {"idle", "dead"}
    /\ w = "exited" => up \in {"idle", "ok", "err"}
    /\ w = "crashed" <=> up = "dead"
    /\ w \in {"feedData", "feedSuccess", "uploading"} \/ chan # <<>> \/ body # <<>> \/ up \notin {"idle", "dead"} => oneshot = "buffer"
    /\ result # "none" => w \in {"exited", "crashed"}
    /\ w = "exited" /\ up = "ok" => audited
    /\ result = "Exception" => Untouched /\ ~audited /\ up \in {"idle", "dead"}
    /\ result = "Ok" => accepted = <<>> \/ (completeReq = "committed" /\ oneshot = "buffer" /\ audited)
    /\ audited => completeReq = "committed"

IInv == BaseOK /\ ThreadInv /\ StreamInv /\ StoreInv /\ ExitInv

-----------------------------------------------------------------------------
(* Types.                                                                  *)

LEMMA BufferIsFile == BaseOK /\ ThreadInv => buffer \in Payloads /\ accepted \in Files /\ bchan \in Files
<1> SUFFICES ASSUME BaseOK, ThreadInv PROVE buffer \in Payloads /\ accepted \in Files /\ bchan \in Files
    OBVIOUS
<1>1. /\ accepted \in Seq(Batches) /\ buffer \in Seq(Batches) /\ bchan \in Seq(Batches)
      /\ Len(accepted) \in Nat /\ Len(buffer) \in Nat /\ Len(bchan) \in Nat
      /\ calls \in Nat /\ calls <= MaxBatches
      BY MaxBatchesAssumption DEF BaseOK, WriterBase
<1>2. Len(accepted) <= MaxBatches /\ Len(buffer) <= MaxBatches
      BY <1>1, MaxBatchesAssumption DEF ThreadInv
<1>3. Len(bchan) <= MaxBatches
  <2>1. CASE thread = "run"
        BY <1>1, <1>2, <2>1, MaxBatchesAssumption DEF ThreadInv
  <2>2. CASE thread # "run"
        BY <2>2, MaxBatchesAssumption DEF ThreadInv
  <2> QED BY <2>1, <2>2
<1> QED BY <1>1, <1>2, <1>3, FilesAre, PayloadsAssumption

LEMMA TypeFollows == BaseOK /\ ThreadInv /\ StoreInv => TypeOK
<1> SUFFICES ASSUME BaseOK, ThreadInv, StoreInv PROVE TypeOK
    OBVIOUS
<1>a. buffer \in Payloads /\ accepted \in Files /\ bchan \in Files /\ buffer \in Files
      BY BufferIsFile, PayloadsAssumption
<1>1. chan \in Seq(StreamItem)
  <2>1. Data(buffer) \in StreamItem /\ Success \in StreamItem
        BY <1>a DEF StreamItem
  <2>2. <<>> \in Seq(StreamItem) /\ <<Data(buffer)>> \in Seq(StreamItem) /\ <<Success>> \in Seq(StreamItem)
            /\ <<Data(buffer), Success>> \in Seq(StreamItem)
        BY <2>1
  <2> QED BY <2>2 DEF StoreInv, Full
<1>2. body \in Seq(Payloads) /\ Len(body) = (IF body = <<>> THEN 0 ELSE 1)
  <2>1. CASE body = <<>>
        BY <2>1
  <2>2. CASE body = <<buffer>>
        BY <1>a, <2>2, OneItem
  <2> QED BY <2>1, <2>2 DEF StoreInv
<1>3. task \in Seq(TaskState) /\ Len(task) = (IF body = <<>> THEN 0 ELSE 1)
  <2>1. CASE body = <<>>
        BY <2>1 DEF StoreInv
  <2>2. CASE body # <<>>
        BY <2>2, OneItem DEF StoreInv
  <2> QED BY <2>1, <2>2
<1>4. completed \in Seq(Nat)
  <2>1. <<>> \in Seq(Nat) /\ <<1>> \in Seq(Nat)
        OBVIOUS
  <2> QED BY <2>1 DEF StoreInv
<1>5. stored \subseteq Nat
      BY DEF StoreInv
<1>6. object \in Seq(Payloads) \cup {NoObject}
      BY <1>a, OneItem DEF StoreInv
<1> QED BY <1>a, <1>1, <1>2, <1>3, <1>4, <1>5, <1>6 DEF BaseOK, UploadBase, WriterBase, TypeOK, UploadTypeOK

LEMMA BaseInit == Init => BaseOK
<1> SUFFICES ASSUME Init PROVE BaseOK
    OBVIOUS
<1>1. UploadBase
      BY DEF Init, UploadInit, UploadBase, UploaderState, FaultKind
<1>2. 0 \in 0 .. MaxBatches /\ <<>> \in Seq(Batches) /\ Len(<<>>) <= BatchCap
      BY MaxBatchesAssumption, BatchCapAssumption
<1>3. WriterBase
      BY <1>2 DEF Init, WriterBase
<1> QED BY <1>1, <1>3 DEF BaseOK

LEMMA UploadBaseStep == UploadBase /\ [Next]_vars => UploadBase'
<1> SUFFICES ASSUME UploadBase, [Next]_vars PROVE UploadBase'
    OBVIOUS
<1> USE DEF UploadBase, UploaderState, FaultKind
<1>1. CASE UNCHANGED uploadVars
      BY <1>1 DEF uploadVars, channelVars, uploaderVars, storageVars
<1>2. CASE FirstSendFails \/ SerializationFails
  <2>1. /\ faults' = faults \cup {"serializer"}
        /\ UNCHANGED <<senders, rxOpen, up, permitOpt, success, mpu, completeReq, abortReq>>
        BY <1>2 DEF FirstSendFails, SerializationFails, channelVars, uploaderVars, storageVars
  <2> QED BY <2>1
<1>3. CASE ReceiveBuffer \/ FeedData \/ FeedSuccess
  <2>1. ReceiveBuffer => UploadBase'
        BY DEF ReceiveBuffer, uploaderVars, storageVars
  <2>2. FeedData => UploadBase'
        BY DEF FeedData, Feed, uploaderVars, storageVars
  <2>3. FeedSuccess => UploadBase'
        BY DEF FeedSuccess, Feed, uploaderVars, storageVars
  <2> QED BY <1>3, <2>1, <2>2, <2>3
<1>4. CASE Create \/ AcquirePermit \/ RecvData \/ RecvSuccess \/ RecvNone \/ SendComplete \/ CompleteAcked
  <2>1. Create => UploadBase'
        BY DEF Create, channelVars, storageVars
  <2>2. AcquirePermit => UploadBase'
        BY DEF AcquirePermit, channelVars, storageVars
  <2>3. RecvData => UploadBase'
        BY DEF RecvData, channelVars, storageVars
  <2>4. RecvSuccess => UploadBase'
        BY DEF RecvSuccess, channelVars, storageVars
  <2>5. RecvNone => UploadBase'
        BY DEF RecvNone, channelVars, storageVars
  <2>6. SendComplete => UploadBase'
        BY DEF SendComplete, channelVars, storageVars
  <2>7. CompleteAcked => UploadBase'
        BY DEF CompleteAcked, channelVars, storageVars
  <2> QED BY <1>4, <2>1, <2>2, <2>3, <2>4, <2>5, <2>6, <2>7
<1>5. CASE CreateFails
      BY <1>5 DEF CreateFails
<1>6. ASSUME NEW p \in DOMAIN task, JoinOk(p) \/ JoinErr(p) PROVE UploadBase'
      BY <1>6 DEF JoinOk, JoinErr, ReturnErr, channelVars, storageVars
<1>7. CASE AbortIncomplete \/ CompleteRefused \/ CompleteTimesOut
      BY <1>7 DEF AbortIncomplete, CompleteRefused, CompleteTimesOut, ReturnErr
<1>8. ASSUME NEW p \in DOMAIN task, PartStored(p) \/ PartFails(p) \/ OrphanLands(p) PROVE UploadBase'
      BY <1>8 DEF PartStored, PartFails, OrphanLands, channelVars
<1>9. CASE Commit \/ CommitRefused \/ CommitFails \/ Abort \/ AbortFails
  <2>1. Commit => UploadBase'
        BY DEF Commit, channelVars, uploaderVars
  <2>2. CommitRefused => UploadBase'
        BY DEF CommitRefused, channelVars, uploaderVars
  <2>3. CommitFails => UploadBase'
        BY DEF CommitFails, channelVars, uploaderVars
  <2>4. Abort => UploadBase'
        BY DEF Abort, channelVars, uploaderVars
  <2>5. AbortFails => UploadBase'
        BY DEF AbortFails, channelVars, uploaderVars
  <2> QED BY <1>9, <2>1, <2>2, <2>3, <2>4, <2>5
<1>10. CASE Crash
  <2>1. /\ faults' = faults \cup {"crash"} /\ up' = "dead" /\ senders' = {}
        /\ UNCHANGED <<success, mpu, completeReq, abortReq>>
        BY <1>10 DEF Crash, storageVars
  <2>2. rxOpen' \in BOOLEAN /\ permitOpt' \in BOOLEAN
        BY <1>10 DEF Crash
  <2> QED BY <2>1, <2>2
<1> QED BY <1>1, <1>2, <1>3, <1>4, <1>5, <1>6, <1>7, <1>8, <1>9, <1>10
        DEF Next, Caller, Exit, Thread, Done, Uploader, Storage, vars, FirstBatch, NextBatch, FirstBatchFails,
            NextBatchFails, ExitException, ExitEmpty, ExitClose, ReceiveError, ExitOk, ExitErr, SerializeBatch, FinishFile

LEMMA WriterBaseStep == WriterBase /\ [Next]_vars => WriterBase'
<1> SUFFICES ASSUME WriterBase, [Next]_vars PROVE WriterBase'
    OBVIOUS
<1>a. MaxBatches \in Nat /\ BatchCap \in Nat \ {0}
      BY MaxBatchesAssumption, BatchCapAssumption
<1> USE DEF WriterBase
<1>1. CASE UNCHANGED writerVars
      BY <1>1 DEF writerVars
<1>2. CASE FirstBatchFails \/ FirstSendFails \/ NextBatchFails
      BY <1>2, <1>a DEF FirstBatchFails, FirstSendFails, NextBatchFails
<1>3. ASSUME NEW ok \in BOOLEAN, FirstBatch(ok) \/ NextBatch(ok) PROVE WriterBase'
  <2>1. calls + 1 \in 0 .. MaxBatches /\ <<calls + 1, ok>> \in Batches
        BY <1>3, <1>a DEF FirstBatch, NextBatch, Batches
  <2>2. FirstBatch(ok) => WriterBase'
    <3>1. <<<<calls + 1, ok>>>> \in Seq(Batches) /\ Len(<<<<calls + 1, ok>>>>) <= BatchCap
          BY <2>1, <1>a, OneItem
    <3> QED BY <2>1, <3>1 DEF FirstBatch
  <2>3. NextBatch(ok) => WriterBase'
    <3> SUFFICES ASSUME NextBatch(ok) PROVE WriterBase'
        OBVIOUS
    <3>1. bchan' \in Seq(Batches) /\ Len(bchan') <= BatchCap /\ accepted' \in Seq(Batches)
          BY <2>1, <1>a DEF NextBatch
    <3> QED BY <2>1, <3>1 DEF NextBatch
  <2> QED BY <1>3, <2>2, <2>3
<1>4. CASE SerializeBatch
  <2>1. buffer' \in Seq(Batches) /\ bchan' \in Seq(Batches) /\ Len(bchan') <= BatchCap
        BY <1>4, <1>a DEF SerializeBatch
  <2> QED BY <1>4, <2>1 DEF SerializeBatch
<1>5. CASE SerializationFails \/ Crash
  <2>1. bchan' = <<>>
        BY <1>5 DEF SerializationFails, Crash
  <2>2. bchan' \in Seq(Batches) /\ Len(bchan') <= BatchCap
        BY <1>a, <2>1
  <2> QED BY <1>5, <2>2 DEF SerializationFails, Crash
<1>6. CASE FinishFile \/ ExitException \/ ExitEmpty \/ ExitClose
      BY <1>6 DEF FinishFile, ExitException, ExitEmpty, ExitClose
<1>7. CASE Exit
      BY <1>7 DEF Exit, ReceiveBuffer, ReceiveError, FeedData, FeedSuccess, Feed, ExitOk, ExitErr
<1> QED BY <1>1, <1>2, <1>3, <1>4, <1>5, <1>6, <1>7 DEF Next, Caller, Thread, Done, vars

LEMMA BaseStep == BaseOK /\ [Next]_vars => BaseOK'
BY UploadBaseStep, WriterBaseStep DEF BaseOK

-----------------------------------------------------------------------------
(* The thread.                                                             *)

LEMMA ThreadInit == Init => ThreadInv
BY DEF Init, ThreadInv

LEMMA ThreadStep == BaseOK /\ ThreadInv /\ [Next]_vars => ThreadInv'
<1> SUFFICES ASSUME BaseOK, ThreadInv, [Next]_vars PROVE ThreadInv'
    OBVIOUS
<1>a. /\ accepted \in Seq(Batches) /\ buffer \in Seq(Batches) /\ bchan \in Seq(Batches)
      /\ Len(accepted) \in Nat /\ Len(buffer) \in Nat /\ Len(bchan) \in Nat /\ calls \in Nat
      BY MaxBatchesAssumption DEF BaseOK, WriterBase
<1>1. ASSUME UNCHANGED <<calls, accepted, bchan, thread, buffer, oneshot>>,
             w' = w \/ (w = "open" /\ w' = "closing") \/ w' \notin {"empty", "open", "closing"}
      PROVE  ThreadInv'
      BY <1>1 DEF ThreadInv
<1>2. CASE FirstBatchFails \/ NextBatchFails
      BY <1>2, <1>a DEF FirstBatchFails, NextBatchFails, ThreadInv
<1>3. CASE FirstSendFails
      BY <1>3, <1>a DEF FirstSendFails, ThreadInv
<1>4. ASSUME NEW ok \in BOOLEAN, FirstBatch(ok) PROVE ThreadInv'
  <2> DEFINE b == <<calls + 1, ok>>
  <2>1. accepted' = <<b>> /\ bchan' = <<b>> /\ Len(<<b>>) = 1 /\ <<b>>[1] = b /\ b[2] = ok /\ ok /\ <<b>> # <<>>
        BY <1>4 DEF FirstBatch
  <2>2. buffer' = buffer /\ Len(buffer) = 0
        BY <1>4, <1>a DEF FirstBatch, ThreadInv
  <2>3. calls' = calls + 1 /\ thread' = "run" /\ w' = "open" /\ oneshot' = "empty"
        BY <1>4 DEF FirstBatch, ThreadInv
  <2> HIDE DEF b
  <2>4. /\ Len(accepted') <= calls' /\ Len(buffer') = 0 /\ Len(buffer') <= Len(accepted')
        /\ Len(accepted') = Len(buffer') + Len(bchan')
        BY <1>a, <2>1, <2>2, <2>3
  <2>5. \A i \in 1 .. Len(buffer') : buffer'[i] = accepted'[i]
        BY <2>4
  <2>6. \A i \in 1 .. Len(bchan') : bchan'[i] = accepted'[Len(buffer') + i]
        BY <2>1, <2>4
  <2>7. accepted'[1][2] /\ accepted' # <<>>
        BY <2>1
  <2> QED BY <2>3, <2>4, <2>5, <2>6, <2>7 DEF ThreadInv
<1>5. ASSUME NEW ok \in BOOLEAN, NextBatch(ok) PROVE ThreadInv'
  <2> DEFINE b == <<calls + 1, ok>>
  <2>1. b \in Batches /\ accepted' = Append(accepted, b) /\ bchan' = Append(bchan, b)
    <3>1. calls + 1 \in 1 .. MaxBatches
          BY <1>5, <1>a, MaxBatchesAssumption DEF NextBatch
    <3> QED BY <1>5, <3>1 DEF NextBatch, Batches
  <2> HIDE DEF b
  <2>2. /\ Len(accepted') = Len(accepted) + 1 /\ accepted'[Len(accepted) + 1] = b /\ accepted' # <<>>
        /\ \A i \in 1 .. Len(accepted) : accepted'[i] = accepted[i]
        BY <1>a, <2>1, AppendProperties
  <2>3. /\ Len(bchan') = Len(bchan) + 1 /\ bchan'[Len(bchan) + 1] = b
        /\ \A i \in 1 .. Len(bchan) : bchan'[i] = bchan[i]
        BY <1>a, <2>1, AppendProperties
  <2>4. /\ calls' = calls + 1 /\ thread = "run" /\ UNCHANGED <<w, thread, buffer, oneshot>>
        /\ w = "open"
        BY <1>5 DEF NextBatch
  <2>5. /\ Len(accepted) = Len(buffer) + Len(bchan) /\ accepted # <<>> /\ oneshot = "empty"
        /\ \A i \in 1 .. Len(buffer) : buffer[i] = accepted[i]
        /\ \A i \in 1 .. Len(bchan) : bchan[i] = accepted[Len(buffer) + i]
        BY <2>4 DEF ThreadInv
  <2>6. accepted'[1] = accepted[1] /\ accepted'[1][2]
    <3>1. 1 \in 1 .. Len(accepted)
          BY <1>a, <2>5, EmptySeq
    <3> QED BY <2>2, <2>5, <3>1 DEF ThreadInv
  <2>7. \A i \in 1 .. Len(buffer') : buffer'[i] = accepted'[i]
        BY <1>a, <2>2, <2>4, <2>5
  <2>8. ASSUME NEW i \in 1 .. Len(bchan') PROVE bchan'[i] = accepted'[Len(buffer') + i]
    <3>1. CASE i = Len(bchan) + 1
          BY <1>a, <2>2, <2>3, <2>4, <2>5, <3>1
    <3>2. CASE i # Len(bchan) + 1
      <4>1. i \in 1 .. Len(bchan) /\ Len(buffer) + i \in 1 .. Len(accepted)
            BY <1>a, <2>3, <2>5, <3>2
      <4> QED BY <2>2, <2>3, <2>4, <2>5, <4>1
    <3> QED BY <3>1, <3>2
  <2>9. Len(accepted') = Len(buffer') + Len(bchan') /\ Len(accepted') <= calls' /\ Len(buffer') <= Len(accepted')
        BY <1>a, <2>2, <2>3, <2>4, <2>5 DEF ThreadInv
  <2>10. \A i \in 1 .. Len(bchan') : bchan'[i] = accepted'[Len(buffer') + i]
         BY <2>8
  <2> QED BY <2>2, <2>4, <2>5, <2>6, <2>7, <2>9, <2>10 DEF ThreadInv
<1>6. CASE SerializeBatch
  <2>1. /\ thread = "run" /\ bchan # <<>> /\ UNCHANGED <<w, calls, accepted, thread, oneshot>>
        /\ buffer' = Append(buffer, Head(bchan)) /\ bchan' = Tail(bchan)
        BY <1>6 DEF SerializeBatch
  <2>2. /\ Head(bchan) \in Batches /\ Head(bchan) = bchan[1] /\ Len(bchan) >= 1
        /\ Len(bchan') = Len(bchan) - 1
        /\ \A i \in 1 .. Len(bchan) - 1 : bchan'[i] = bchan[i + 1]
        BY <1>a, <2>1
  <2>3. /\ Len(buffer') = Len(buffer) + 1 /\ buffer'[Len(buffer) + 1] = bchan[1]
        /\ \A i \in 1 .. Len(buffer) : buffer'[i] = buffer[i]
        BY <1>a, <2>1, <2>2, AppendProperties
  <2>4. /\ Len(accepted) = Len(buffer) + Len(bchan) /\ accepted # <<>> /\ oneshot = "empty"
        /\ \A i \in 1 .. Len(buffer) : buffer[i] = accepted[i]
        /\ \A i \in 1 .. Len(bchan) : bchan[i] = accepted[Len(buffer) + i]
        BY <2>1 DEF ThreadInv
  <2>5. ASSUME NEW i \in 1 .. Len(buffer') PROVE buffer'[i] = accepted'[i]
    <3>1. CASE i = Len(buffer) + 1
      <4>1. bchan[1] = accepted[Len(buffer) + 1]
            BY <1>a, <2>2, <2>4
      <4> QED BY <2>1, <2>3, <3>1, <4>1
    <3>2. CASE i # Len(buffer) + 1
      <4>1. i \in 1 .. Len(buffer)
            BY <1>a, <2>3, <3>2
      <4> QED BY <2>1, <2>3, <2>4, <4>1
    <3> QED BY <3>1, <3>2
  <2>6. ASSUME NEW i \in 1 .. Len(bchan') PROVE bchan'[i] = accepted'[Len(buffer') + i]
    <3>1. i \in 1 .. Len(bchan) - 1 /\ i + 1 \in 1 .. Len(bchan)
          BY <1>a, <2>2
    <3>2. bchan'[i] = bchan[i + 1] /\ bchan[i + 1] = accepted[Len(buffer) + (i + 1)]
          BY <2>2, <2>4, <3>1
    <3>3. Len(buffer) + (i + 1) = Len(buffer') + i
          BY <1>a, <2>3, <3>1
    <3> QED BY <2>1, <3>2, <3>3
  <2>7. Len(accepted') = Len(buffer') + Len(bchan') /\ Len(buffer') <= Len(accepted')
        BY <1>a, <2>1, <2>2, <2>3, <2>4
  <2>8. /\ \A i \in 1 .. Len(buffer') : buffer'[i] = accepted'[i]
        /\ \A i \in 1 .. Len(bchan') : bchan'[i] = accepted'[Len(buffer') + i]
        BY <2>5, <2>6
  <2> QED BY <2>1, <2>4, <2>7, <2>8 DEF ThreadInv
<1>7. CASE SerializationFails \/ Crash
      BY <1>7, <1>a DEF SerializationFails, Crash, ThreadInv
<1>8. CASE FinishFile
  <2>1. buffer = accepted
    <3>1. /\ Len(accepted) = Len(buffer) /\ \A i \in 1 .. Len(buffer) : buffer[i] = accepted[i]
          BY <1>8, <1>a DEF FinishFile, ThreadInv
    <3> QED BY <1>a, <3>1, SeqEqual
  <2> QED BY <1>8, <1>a, <2>1 DEF FinishFile, TxDropped, ThreadInv
<1>9. CASE ExitException \/ ExitEmpty \/ ExitClose \/ Exit
      BY <1>9, <1>1 DEF ExitException, ExitEmpty, ExitClose, Exit, ReceiveBuffer, ReceiveError, FeedData, FeedSuccess, Feed,
             ExitOk, ExitErr
<1>10. CASE UNCHANGED writerVars
       BY <1>1, <1>10 DEF writerVars
<1> QED BY <1>2, <1>3, <1>4, <1>5, <1>6, <1>7, <1>8, <1>9, <1>10 DEF Next, Caller, Thread, Done, vars

-----------------------------------------------------------------------------
(* The upload and the exit.                                                *)

UploadInv == StreamInv /\ StoreInv /\ ExitInv

\* the sequences of this upload are told apart by their contents
LEMMA Shapes ==
    /\ <<buffer>> # <<>> /\ <<1>> # <<>> /\ Full # <<>> /\ <<Data(buffer)>> # <<>> /\ <<Success>> # <<>>
    /\ Full # <<Success>> /\ Full # <<Data(buffer)>> /\ <<Data(buffer)>> # <<Success>>
    /\ Head(Full) = Data(buffer) /\ Tail(Full) = <<Success>>
    /\ Head(<<Success>>) = Success /\ Tail(<<Success>>) = <<>>
    /\ Data(buffer).type = "Data" /\ Data(buffer).payload = buffer /\ Success.type = "Success"
<1>1. Data(buffer).type = "Data" /\ Data(buffer).payload = buffer /\ Success.type = "Success"
      BY DEF Data, Success
<1>2. Head(<<Success>>) = Success /\ Tail(<<Success>>) = <<>> /\ <<Success>> # <<>>
      BY OneItem
<1>3. Head(Full) = Data(buffer) /\ Tail(Full) = <<Success>> /\ Full # <<>>
      BY TwoItems DEF Full
<1>4. Full # <<Success>> /\ Full # <<Data(buffer)>>
      BY DEF Full
<1>5. <<Data(buffer)>> # <<Success>>
      BY <1>1, OneItem
<1> QED BY <1>1, <1>2, <1>3, <1>4, <1>5

LEMMA UploadInitially == Init => UploadInv
BY DEF Init, UploadInit, UploadInv, StreamInv, StoreInv, ExitInv, Untouched

\* The thread works only while nothing of the file is in the upload.
LEMMA BufferFixed ==
    ASSUME BaseOK, ThreadInv, UploadInv, oneshot # "buffer"
    PROVE  /\ chan = <<>> /\ body = <<>> /\ task = <<>> /\ completed = <<>> /\ completeReq = "none"
           /\ up \in {"idle", "dead"} /\ w \notin {"feedData", "feedSuccess", "uploading"}
BY Shapes DEF UploadInv, ExitInv, StoreInv

\* What the with block and the thread do before and after the upload.
LEMMA BlockStep ==
    ASSUME BaseOK, ThreadInv, UploadInv, UNCHANGED uploadVars,
           UNCHANGED buffer \/ oneshot # "buffer",
           oneshot = "buffer" => oneshot' = "buffer"
    PROVE  StoreInv' /\ (up \in {"create", "loop", "drain"} => UNCHANGED buffer)
<1>a. /\ UNCHANGED <<chan, senders, rxOpen, up, permitOpt, body, task, completed, success>>
      /\ UNCHANGED <<mpu, stored, object, completeReq, abortReq, faults>>
      BY DEF uploadVars, channelVars, uploaderVars, storageVars
<1>1. CASE UNCHANGED buffer
      BY <1>a, <1>1 DEF UploadInv, StoreInv, Full
<1>2. CASE oneshot # "buffer"
      BY <1>a, <1>2, BufferFixed DEF UploadInv, StoreInv, Full
<1> QED BY <1>1, <1>2

LEMMA StreamStays ==
    ASSUME BaseOK, ThreadInv, UploadInv, UNCHANGED uploadVars, UNCHANGED buffer \/ oneshot # "buffer",
           w' \in {"empty", "open", "closing", "feedData"} => chan = <<>>,
           w' = "feedSuccess" => w = "feedSuccess"
    PROVE  StreamInv'
<1>a. /\ UNCHANGED <<chan, senders, rxOpen, up, permitOpt, body, task, completed, success>>
      /\ UNCHANGED <<mpu, stored, object, completeReq, abortReq, faults>>
      BY DEF uploadVars, channelVars, uploaderVars, storageVars
<1>1. CASE UNCHANGED buffer
      BY <1>a, <1>1 DEF UploadInv, StreamInv, Full, Untouched
<1>2. CASE oneshot # "buffer"
      BY <1>a, <1>2, BufferFixed DEF UploadInv, StreamInv, Full, Untouched
<1> QED BY <1>1, <1>2

LEMMA BlockUploadInv ==
    ASSUME BaseOK, ThreadInv, UploadInv,
           \/ \E ok \in BOOLEAN : FirstBatch(ok) \/ NextBatch(ok)
           \/ FirstBatchFails \/ NextBatchFails \/ SerializeBatch \/ FinishFile
           \/ ExitException \/ ExitEmpty \/ ExitClose \/ ReceiveError \/ ExitOk \/ ExitErr
    PROVE  UploadInv'
<1>a. /\ UNCHANGED uploadVars
      /\ UNCHANGED <<chan, senders, rxOpen, up, permitOpt, body, task, completed, success>>
      /\ UNCHANGED <<mpu, stored, object, completeReq, abortReq, faults>>
      BY DEF FirstBatch, NextBatch, FirstBatchFails, NextBatchFails, SerializeBatch, FinishFile, ExitException, ExitEmpty,
             ExitClose, ReceiveError, ExitOk, ExitErr, uploadVars, channelVars, uploaderVars, storageVars
<1>b. (UNCHANGED buffer \/ oneshot # "buffer") /\ (oneshot = "buffer" => oneshot' = "buffer")
      BY DEF FirstBatch, NextBatch, FirstBatchFails, NextBatchFails, SerializeBatch, FinishFile, ExitException, ExitEmpty,
             ExitClose, ReceiveError, ExitOk, ExitErr, ThreadInv
<1>1. StoreInv'
      BY <1>a, <1>b, BlockStep
<1>2. StreamInv'
  <2>1. /\ w' \in {"empty", "open", "closing", "feedData"} => w \in {"empty", "open", "closing", "feedData"}
        /\ w' = "feedSuccess" => w = "feedSuccess"
        BY DEF FirstBatch, NextBatch, FirstBatchFails, NextBatchFails, SerializeBatch, FinishFile, ExitException, ExitEmpty,
             ExitClose, ReceiveError, ExitOk, ExitErr
  <2>2. w' \in {"empty", "open", "closing", "feedData"} => chan = <<>>
        BY <2>1 DEF UploadInv, StreamInv
  <2> QED BY <1>a, <1>b, <2>1, <2>2, StreamStays
<1>3. ExitInv'
  <2> USE DEF UploadInv, ExitInv
  <2>1. ASSUME NEW ok \in BOOLEAN, FirstBatch(ok) \/ NextBatch(ok) PROVE ExitInv'
        BY <2>1, <1>a DEF FirstBatch, NextBatch, Untouched
  <2>2. FirstBatchFails \/ NextBatchFails => ExitInv'
        BY <1>a DEF FirstBatchFails, NextBatchFails, Untouched
  <2>3. SerializeBatch \/ FinishFile => ExitInv'
        BY <1>a DEF SerializeBatch, FinishFile, Untouched, ThreadInv
  <2>4. ExitException => ExitInv'
    <3> SUFFICES ASSUME ExitException PROVE ExitInv'
        OBVIOUS
    <3>1. Untouched /\ up = "idle" /\ ~audited
          BY DEF ExitException, StreamInv, Untouched
    <3> QED BY <1>a, <3>1 DEF ExitException, Untouched
  <2>5. ExitEmpty => ExitInv'
        BY <1>a DEF ExitEmpty, Untouched, ThreadInv
  <2>6. ExitClose \/ ReceiveError => ExitInv'
        BY <1>a DEF ExitClose, ReceiveError, Untouched
  <2>7. ExitOk => ExitInv'
        BY <1>a DEF ExitOk, Untouched, StreamInv
  <2>8. ExitErr => ExitInv'
        BY <1>a DEF ExitErr, Untouched
  <2> QED BY <2>1, <2>2, <2>3, <2>4, <2>5, <2>6, <2>7, <2>8
<1> QED BY <1>1, <1>2, <1>3 DEF UploadInv

\* The thread ends with an error: only the list of faults grows.
LEMMA FailureUploadInv ==
    ASSUME BaseOK, ThreadInv, UploadInv, FirstSendFails \/ SerializationFails
    PROVE  UploadInv'
<1>a. /\ UNCHANGED <<chan, senders, rxOpen, up, permitOpt, body, task, completed, success>>
      /\ UNCHANGED <<mpu, stored, object, completeReq, abortReq, accepted, buffer, audited, result>>
      /\ faults \subseteq faults' /\ oneshot # "buffer"
      /\ w' = w \/ (w = "empty" /\ w' = "open")
      BY DEF FirstSendFails, SerializationFails, channelVars, uploaderVars, storageVars, ThreadInv
<1>1. StoreInv'
      BY <1>a DEF UploadInv, StoreInv, Full
<1>2. StreamInv'
      BY <1>a DEF UploadInv, StreamInv, Full, Untouched
<1>3. ExitInv'
      BY <1>a, BufferFixed DEF UploadInv, ExitInv, Untouched
<1> QED BY <1>1, <1>2, <1>3 DEF UploadInv

\* From the thread's buffer to a full channel.
LEMMA FeedUploadInv ==
    ASSUME BaseOK, ThreadInv, UploadInv, ReceiveBuffer \/ FeedData \/ FeedSuccess
    PROVE  UploadInv'
<1>a. /\ UNCHANGED <<permitOpt, body, task, completed, success, mpu, stored, object, completeReq, abortReq, faults>>
      /\ UNCHANGED <<accepted, buffer, oneshot, audited, result>>
      /\ w \in {"closing", "feedData", "feedSuccess"} /\ up = "idle" /\ Untouched
      BY DEF ReceiveBuffer, FeedData, FeedSuccess, Feed, uploaderVars, storageVars, UploadInv, StreamInv, ExitInv
<1>b. oneshot = "buffer"
      BY DEF ReceiveBuffer, FeedData, FeedSuccess, Feed, UploadInv, ExitInv
<1>c. Untouched'
      BY <1>a DEF Untouched
<1>1. CASE ReceiveBuffer
  <2>1. w' = "feedData" /\ up' = "idle" /\ chan' = <<>>
        BY <1>1, <1>a DEF ReceiveBuffer, uploaderVars, UploadInv, StreamInv
  <2> QED BY <1>a, <1>b, <1>c, <2>1 DEF UploadInv, StreamInv, StoreInv, ExitInv, Untouched
<1>2. CASE FeedData
  <2>1. w' = "feedSuccess" /\ up' = "idle" /\ chan' = <<Data(buffer)>>
    <3>1. w = "feedData" /\ chan = <<>> /\ chan' = Append(chan, Data(buffer)) /\ w' = "feedSuccess" /\ up' = up
          BY <1>2 DEF FeedData, Feed, UploadInv, StreamInv
    <3> QED BY <1>a, <3>1, OneItem
  <2> QED BY <1>a, <1>b, <1>c, <2>1, Shapes DEF UploadInv, StreamInv, StoreInv, ExitInv, Untouched
<1>3. CASE FeedSuccess
  <2>1. w' = "uploading" /\ up' = "create" /\ chan' = Full'
    <3>1. w = "feedSuccess" /\ chan = <<Data(buffer)>> /\ chan' = Append(chan, Success) /\ w' = "uploading" /\ up' = "create"
          BY <1>3 DEF FeedSuccess, Feed, UploadInv, StreamInv
    <3>2. Append(<<Data(buffer)>>, Success) = <<Data(buffer), Success>>
      <4>1. Data(buffer) \in {Data(buffer), Success} /\ Success \in {Data(buffer), Success}
            OBVIOUS
      <4> QED BY <4>1, TwoItems
    <3> QED BY <1>a, <3>1, <3>2 DEF Full
  <2> QED BY <1>a, <1>b, <1>c, <2>1, Shapes DEF UploadInv, StreamInv, StoreInv, ExitInv, Untouched, BaseOK, WriterBase
<1> QED BY <1>1, <1>2, <1>3

\* While upload_stream runs, __exit__ waits for it.
LEMMA Waiting ==
    ASSUME BaseOK, UploadInv, up \in {"create", "loop", "drain", "completing"}
    PROVE  w = "uploading" /\ oneshot = "buffer" /\ result = "none"
BY DEF BaseOK, WriterBase, UploadInv, ExitInv

LEMMA ExitWaits ==
    ASSUME BaseOK, UploadInv, UNCHANGED writerVars, w = "uploading",
           up' \notin {"idle", "dead"}, completeReq' = completeReq
    PROVE  ExitInv'
<1>1. UNCHANGED <<w, accepted, oneshot, audited, result>>
      BY DEF writerVars
<1> QED BY <1>1 DEF UploadInv, ExitInv

LEMMA StorageExit ==
    ASSUME BaseOK, UploadInv, UNCHANGED writerVars, UNCHANGED <<chan, body, up>>, ~Untouched,
           completeReq = "committed" => completeReq' = "committed"
    PROVE  ExitInv'
<1>1. UNCHANGED <<w, accepted, oneshot, audited, result>>
      BY DEF writerVars
<1>2. result # "Exception"
      BY DEF UploadInv, ExitInv
<1> QED BY <1>1, <1>2 DEF UploadInv, ExitInv

\* upload_stream gives up: it closes its channel and drops its tasks.
LEMMA ReturnErrUploadInv ==
    ASSUME BaseOK, UploadInv, UNCHANGED writerVars, ReturnErr,
           UNCHANGED <<body, completed, mpu, stored, object, completeReq>>,
           up \in {"loop", "drain", "completing"},
           faults \subseteq faults',
           completeReq \in {"sent", "committed"} => "timeout" \in faults'
    PROVE  UploadInv'
<1>a. /\ w = "uploading" /\ w' = w /\ buffer' = buffer
      /\ up' = "err" /\ chan' = <<>> /\ task' = TasksDropped(task)
      BY Waiting DEF ReturnErr, writerVars
<1>1. ExitInv'
      BY <1>a, ExitWaits
<1>2. StreamInv'
      BY <1>a DEF StreamInv
<1>3. StoreInv'
  <2> USE DEF UploadInv, StoreInv
  <2>1. IF body = <<>> THEN task' = <<>> ELSE task' \in {<<s>> : s \in TaskState}
    <3>1. CASE body = <<>>
          BY <1>a, <3>1, Dropped
    <3>2. CASE body # <<>>
      <4>1. PICK s \in TaskState : task = <<s>>
            BY <3>2
      <4>2. task' = <<IF s = "running" THEN "orphan" ELSE s>>
            BY <1>a, <4>1, Dropped
      <4>3. (IF s = "running" THEN "orphan" ELSE s) \in TaskState
            BY <4>1 DEF TaskState
      <4> QED BY <3>2, <4>2, <4>3
    <3> QED BY <3>1, <3>2
  <2>2. task = <<"joined">> => task' = <<"joined">>
        BY <1>a, Dropped
  <2>3. task' = <<"joined">> => task = <<"joined">>
    <3>1. CASE body = <<>>
          BY <1>a, <3>1, Dropped
    <3>2. CASE body # <<>>
      <4>1. PICK s \in TaskState : task = <<s>>
            BY <3>2
      <4>2. task' = <<IF s = "running" THEN "orphan" ELSE s>>
            BY <1>a, <4>1, Dropped
      <4> QED BY <4>1, <4>2
    <3> QED BY <3>1, <3>2
  <2>4. \/ completed' = <<>>
        \/ completed' = <<1>> /\ body' = <<buffer'>> /\ task' = <<"joined">>
        BY <1>a, <2>2
  <2>5. /\ body' \in {<<>>, <<buffer'>>} /\ chan' = <<>>
        /\ task' = <<"joined">> => completed' = <<1>>
        /\ completeReq' # "none" => completed' = <<1>>
        /\ stored' \subseteq {1} /\ (body' = <<>> => stored' = {})
        /\ object' = IF completeReq' = "committed" THEN <<buffer'>> ELSE NoObject
        BY <1>a, <2>3
  <2>6. up' = "err" /\ (completeReq' \in {"sent", "committed"} => "timeout" \in faults')
        BY <1>a
  <2>7. IF body' = <<>> THEN task' = <<>> ELSE task' \in {<<s>> : s \in TaskState}
        BY <2>1
  <2> HIDE DEF UploadInv
  <2> QED BY <2>4, <2>5, <2>6, <2>7
<1> QED BY <1>1, <1>2, <1>3 DEF UploadInv

LEMMA OpeningUploadInv ==
    ASSUME BaseOK, UploadInv, UNCHANGED writerVars, Create \/ CreateFails
    PROVE  UploadInv'
<1>a. /\ up = "create" /\ w = "uploading" /\ Untouched /\ chan = Full
      /\ UNCHANGED <<w, buffer, body, task, completed, success, stored, object, completeReq, abortReq>>
      /\ up' \in {"loop", "err"} /\ faults \subseteq faults'
      BY Waiting DEF Create, CreateFails, writerVars, UploadInv, StreamInv
<1>1. ExitInv'
      BY <1>a, ExitWaits
<1>2. StreamInv'
  <2>1. CASE Create
    <3>1. up' = "loop" /\ chan' = Full' /\ mpu' = "open"
          BY <1>a, <2>1 DEF Create, channelVars, Full
    <3> QED BY <1>a, <3>1 DEF StreamInv, Untouched
  <2>2. CASE CreateFails
        BY <1>a, <2>2 DEF StreamInv, CreateFails
  <2> QED BY <2>1, <2>2
<1>3. StoreInv'
  <2>1. chan' \in {<<>>, Full'}
        BY <1>a DEF Create, CreateFails, channelVars, Full
  <2> QED BY <1>a, <2>1 DEF UploadInv, StoreInv, Untouched
<1> QED BY <1>1, <1>2, <1>3 DEF UploadInv

LEMMA PermitUploadInv ==
    ASSUME BaseOK, UploadInv, UNCHANGED writerVars, AcquirePermit
    PROVE  UploadInv'
<1>a. /\ UNCHANGED <<chan, w, buffer, up, body, task, completed, success, mpu, stored, object, completeReq, abortReq, faults>>
      /\ up = "loop" /\ w = "uploading"
      BY Waiting DEF AcquirePermit, channelVars, storageVars, writerVars
<1>1. ExitInv'
      BY <1>a, ExitWaits
<1> QED BY <1>a, <1>1 DEF UploadInv, StreamInv, StoreInv, Full, Untouched

\* the one Data item becomes part 1
LEMMA RecvDataUploadInv ==
    ASSUME BaseOK, UploadInv, UNCHANGED writerVars, RecvData
    PROVE  UploadInv'
<1>a. /\ UNCHANGED <<w, buffer, up, completed, success, mpu, stored, object, completeReq, abortReq, faults>>
      /\ up = "loop" /\ w = "uploading"
      BY Waiting DEF RecvData, storageVars, writerVars
<1>b. chan = Full /\ body = <<>> /\ completed = <<>> /\ task = <<>>
  <2>1. chan # <<Success>>
        BY Shapes DEF RecvData
  <2> QED BY <1>a, <2>1 DEF UploadInv, StreamInv, StoreInv
<1>c. chan' = <<Success>> /\ body' = <<buffer>> /\ task' = <<"running">>
  <2>1. chan' = Tail(chan) /\ body' = Append(body, Head(chan).payload) /\ task' = Append(task, "running")
        BY DEF RecvData
  <2> QED BY <1>b, <2>1, Shapes, OneItem
<1>d. <<"running">> # <<"joined">> /\ <<"running">> # <<"orphan">> /\ <<"running">> # <<"gone">> /\ "running" \in TaskState
      /\ <<buffer>> # <<>>
      BY DEF TaskState
<1>1. ExitInv'
      BY <1>a, ExitWaits
<1>2. StreamInv'
      BY <1>a, <1>b, <1>c DEF UploadInv, StreamInv
<1>3. StoreInv'
      BY <1>a, <1>b, <1>c, <1>d DEF UploadInv, StoreInv
<1> QED BY <1>1, <1>2, <1>3 DEF UploadInv

\* the Success item comes last, and no sender is missed before it
LEMMA RecvEndUploadInv ==
    ASSUME BaseOK, UploadInv, UNCHANGED writerVars, RecvSuccess \/ RecvNone
    PROVE  UploadInv'
<1>a. /\ up = "loop" /\ chan # <<>>
      BY Shapes DEF RecvSuccess, RecvNone, UploadInv, StreamInv
<1>b. /\ UNCHANGED <<w, buffer, body, task, completed, mpu, stored, object, completeReq, abortReq, faults>>
      /\ w = "uploading" /\ success' /\ up' = "drain" /\ chan' = Tail(chan) /\ Head(chan).type = "Success"
      BY <1>a, Waiting DEF RecvSuccess, RecvNone, storageVars, writerVars
<1>c. chan = <<Success>> /\ body = <<buffer>> /\ chan' = <<>>
  <2>1. chan # Full
        BY <1>b, Shapes
  <2>2. chan = <<Success>> /\ body = <<buffer>>
        BY <1>a, <2>1 DEF UploadInv, StreamInv
  <2> QED BY <1>b, <2>2, Shapes
<1>1. ExitInv'
      BY <1>b, ExitWaits
<1>2. StreamInv'
      BY <1>a, <1>b, <1>c DEF UploadInv, StreamInv
<1>3. StoreInv'
      BY <1>a, <1>b, <1>c DEF UploadInv, StoreInv
<1> QED BY <1>1, <1>2, <1>3 DEF UploadInv

\* the only task there is
LEMMA OneTask ==
    ASSUME UploadInv, NEW p \in DOMAIN task
    PROVE  /\ p = 1 /\ body = <<buffer>> /\ task \in {<<s>> : s \in TaskState} /\ task = <<task[1]>>
<1>1. CASE body = <<>>
  <2>1. task = <<>>
        BY <1>1 DEF UploadInv, StoreInv
  <2> QED BY <2>1
<1>2. CASE body # <<>>
  <2>1. body = <<buffer>> /\ task \in {<<s>> : s \in TaskState}
        BY <1>2 DEF UploadInv, StoreInv
  <2>2. PICK s \in TaskState : task = <<s>>
        BY <2>1
  <2> QED BY <2>1, <2>2
<1> QED BY <1>1, <1>2

LEMMA JoinUploadInv ==
    ASSUME BaseOK, UploadInv, UNCHANGED writerVars, NEW p \in DOMAIN task, JoinOk(p) \/ JoinErr(p)
    PROVE  UploadInv'
<1>1. CASE JoinErr(p)
  <2>1. /\ up \in {"loop", "drain"} /\ ReturnErr
        /\ UNCHANGED <<body, completed, mpu, stored, object, completeReq>> /\ faults' = faults
        BY <1>1 DEF JoinErr
  <2>2. completeReq = "none"
        BY <2>1 DEF UploadInv, StreamInv
  <2> QED BY <2>1, <2>2, ReturnErrUploadInv
<1>2. CASE JoinOk(p)
  <2>a. /\ UNCHANGED <<chan, w, buffer, up, body, success, mpu, stored, object, completeReq, abortReq, faults>>
        /\ up \in {"loop", "drain"} /\ w = "uploading" /\ p = 1 /\ task = <<"ok">> /\ body = <<buffer>>
        /\ task' = [task EXCEPT ![1] = "joined"] /\ completed' = Append(completed, 1)
        BY <1>2, Waiting, OneTask DEF JoinOk, TasksIn, channelVars, storageVars, writerVars
  <2>b. completed = <<>>
    <3>1. <<"ok">> # <<"joined">>
          OBVIOUS
    <3> QED BY <2>a, <3>1 DEF UploadInv, StoreInv
  <2>c. task' = <<"joined">> /\ completed' = <<1>>
        BY <2>a, <2>b, TaskReplaced, OneItem
  <2>d. "joined" \in TaskState /\ <<"joined">> # <<"orphan">> /\ <<"joined">> # <<"gone">> /\ <<buffer>> # <<>>
        BY DEF TaskState
  <2>1. ExitInv'
        BY <2>a, ExitWaits
  <2>2. StreamInv'
    <3>1. chan' = chan /\ (up = "loop" => chan = <<Success>>)
          BY <2>a, <2>d DEF UploadInv, StreamInv
    <3> QED BY <2>a, <3>1 DEF UploadInv, StreamInv
  <2>3. StoreInv'
        BY <2>a, <2>c, <2>d DEF UploadInv, StoreInv, Full
  <2> QED BY <2>1, <2>2, <2>3 DEF UploadInv
<1> QED BY <1>1, <1>2

\* Success was received, so the stream is never found incomplete
LEMMA IncompleteUploadInv ==
    ASSUME UploadInv
    PROVE  ~AbortIncomplete
BY DEF AbortIncomplete, UploadInv, StreamInv

LEMMA CompleteUploadInv ==
    ASSUME BaseOK, UploadInv, UNCHANGED writerVars, SendComplete
    PROVE  UploadInv'
<1>a. /\ UNCHANGED <<chan, w, buffer, body, task, completed, success, mpu, stored, object, abortReq, faults>>
      /\ up = "drain" /\ w = "uploading" /\ up' = "completing" /\ completeReq' = "sent" /\ JoinSet = {}
      BY Waiting DEF SendComplete, channelVars, storageVars, writerVars
<1>b. completeReq = "none" /\ mpu = "open" /\ abortReq = "none" /\ body = <<buffer>>
      BY <1>a DEF UploadInv, StreamInv
<1>c. completed = <<1>>
  <2>1. body # <<>> /\ task \in {<<s>> : s \in TaskState} /\ task # <<"orphan">> /\ task # <<"gone">>
        BY <1>a, <1>b DEF UploadInv, StoreInv
  <2>2. PICK s \in TaskState : task = <<s>>
        BY <2>1
  <2>3. s \notin {"running", "ok", "err"}
    <3>1. 1 \in DOMAIN task /\ task[1] = s
          BY <2>2
    <3> QED BY <1>a, <3>1 DEF JoinSet, TasksIn
  <2>4. s = "joined"
        BY <2>1, <2>2, <2>3 DEF TaskState
  <2> QED BY <2>2, <2>4 DEF UploadInv, StoreInv
<1>1. ExitInv'
  <2>1. UNCHANGED <<accepted, oneshot, audited, result>> /\ ~audited /\ result = "none"
        BY <1>a, <1>b, Waiting DEF writerVars, UploadInv, ExitInv
  <2> QED BY <1>a, <1>b, <2>1 DEF UploadInv, ExitInv
<1>2. StreamInv'
      BY <1>a, <1>b, <1>c DEF StreamInv
<1>3. StoreInv'
      BY <1>a, <1>b, <1>c DEF UploadInv, StoreInv, Full
<1> QED BY <1>1, <1>2, <1>3 DEF UploadInv

LEMMA AckUploadInv ==
    ASSUME BaseOK, UploadInv, UNCHANGED writerVars, CompleteAcked
    PROVE  UploadInv'
<1>a. /\ UNCHANGED <<chan, w, buffer, body, task, completed, success, mpu, stored, object, completeReq, abortReq, faults>>
      /\ up = "completing" /\ w = "uploading" /\ up' = "ok" /\ completeReq = "committed"
      BY Waiting DEF CompleteAcked, storageVars, writerVars
<1>1. ExitInv'
      BY <1>a, ExitWaits
<1>2. StreamInv'
      BY <1>a DEF StreamInv
<1>3. StoreInv'
      BY <1>a DEF UploadInv, StoreInv, Full
<1> QED BY <1>1, <1>2, <1>3 DEF UploadInv

LEMMA RefusedUploadInv ==
    ASSUME BaseOK, UploadInv, UNCHANGED writerVars, CompleteRefused \/ CompleteTimesOut
    PROVE  UploadInv'
<1>1. /\ up = "completing" /\ ReturnErr
      /\ UNCHANGED <<body, completed, mpu, stored, object, completeReq>>
      BY DEF CompleteRefused, CompleteTimesOut
<1>2. faults \subseteq faults' /\ (completeReq \in {"sent", "committed"} => "timeout" \in faults')
      BY DEF CompleteRefused, CompleteTimesOut
<1> QED BY <1>1, <1>2, ReturnErrUploadInv

LEMMA UploaderUploadInv ==
    ASSUME BaseOK, UploadInv, UNCHANGED writerVars, Uploader
    PROVE  UploadInv'
BY OpeningUploadInv, PermitUploadInv, RecvDataUploadInv, RecvEndUploadInv, JoinUploadInv, IncompleteUploadInv,
   CompleteUploadInv, AckUploadInv, RefusedUploadInv
   DEF Uploader

\* The service answers a part: the one task is answered once.
LEMMA PartUploadInv ==
    ASSUME BaseOK, UploadInv, UNCHANGED writerVars,
           NEW p \in DOMAIN task, PartStored(p) \/ PartFails(p) \/ OrphanLands(p)
    PROVE  UploadInv'
<1>a. /\ UNCHANGED <<chan, w, buffer, up, body, completed, success, mpu, object, completeReq, abortReq>>
      /\ p = 1 /\ body = <<buffer>> /\ task = <<task[1]>> /\ faults \subseteq faults'
      /\ stored' \in {stored, stored \cup {1}}
      BY OneTask DEF PartStored, PartFails, OrphanLands, channelVars, writerVars
<1>b. task[1] \in {"running", "orphan"}
      BY <1>a DEF PartStored, PartFails, OrphanLands, TasksIn
<1>c. PICK t \in {"ok", "err", "gone"} : task' = <<t>> /\ (t = "gone" => task[1] = "orphan")
      BY <1>a, TaskReplaced DEF PartStored, PartFails, OrphanLands, TasksIn
<1>d. <<buffer>> # <<>> /\ task # <<"joined">> /\ task' # <<"joined">> /\ completed # <<1>>
  <2>1. task # <<"joined">> /\ task' # <<"joined">> /\ <<buffer>> # <<>>
        BY <1>a, <1>b, <1>c
  <2> QED BY <2>1 DEF UploadInv, StoreInv
<1>e. completed = <<>> /\ completeReq = "none" /\ <<>> # <<1>>
      BY <1>d DEF UploadInv, StoreInv
<1>f. ~Untouched
      BY <1>a, <1>d DEF Untouched
<1>1. ExitInv'
      BY <1>a, <1>f, StorageExit
<1>2. StreamInv'
      BY <1>a, <1>f DEF UploadInv, StreamInv, Full
<1>3. StoreInv'
  <2>1. t \in TaskState
        BY DEF TaskState
  <2>2. up \in {"loop", "drain"} => t # "gone"
    <3>1. up \in {"loop", "drain"} => task[1] # "orphan"
          BY <1>a DEF UploadInv, StoreInv
    <3> QED BY <1>c, <3>1
  <2>3. task' \in {<<s>> : s \in TaskState} /\ (up \in {"loop", "drain"} => task' \notin {<<"orphan">>, <<"gone">>})
        BY <1>c, <2>1, <2>2
  <2>4. stored' \subseteq {1} /\ task' # <<"joined">>
        BY <1>a, <1>d DEF UploadInv, StoreInv
  <2> QED BY <1>a, <1>d, <1>e, <2>3, <2>4 DEF UploadInv, StoreInv, Full
<1> QED BY <1>1, <1>2, <1>3 DEF UploadInv

\* The service commits the one part: the object is the file.
LEMMA CommitUploadInv ==
    ASSUME BaseOK, UploadInv, UNCHANGED writerVars, Commit
    PROVE  UploadInv'
<1>a. completeReq = "sent" /\ completed = <<1>> /\ body = <<buffer>> /\ object = NoObject
  <2>1. completeReq = "sent"
        BY DEF Commit
  <2>2. completed = <<1>>
        BY <2>1 DEF UploadInv, StoreInv
  <2>3. completed # <<>>
        BY <2>2
  <2> QED BY <2>1, <2>2, <2>3 DEF UploadInv, StoreInv
<1>b. UNCHANGED <<chan, w, buffer, up, body, task, completed, success, stored, abortReq, faults>>
      BY DEF Commit, channelVars, uploaderVars, writerVars
<1>c. completeReq' = "committed" /\ object' = <<buffer>>
  <2>1. object' = [i \in DOMAIN <<1>> |-> body[<<1>>[i]]] /\ completeReq' = "committed"
        BY <1>a, SingletonPart DEF Commit
  <2>2. DOMAIN <<1>> = 1 .. 1 /\ \A i \in 1 .. 1 : body[<<1>>[i]] = buffer
        BY <1>a
  <2>3. object' = [i \in 1 .. 1 |-> buffer]
        BY <2>1, <2>2
  <2> QED BY <2>1, <2>3
<1>d. ~Untouched
      BY <1>a DEF Untouched
<1>1. ExitInv'
      BY <1>a, <1>b, <1>c, <1>d, StorageExit
<1>2. StreamInv'
      BY <1>a, <1>b, <1>c, <1>d DEF UploadInv, StreamInv, Full
<1>3. StoreInv'
      BY <1>a, <1>b, <1>c DEF UploadInv, StoreInv, Full
<1> QED BY <1>1, <1>2, <1>3 DEF UploadInv

LEMMA NoCommitUploadInv ==
    ASSUME BaseOK, UploadInv, UNCHANGED writerVars, CommitRefused \/ CommitFails
    PROVE  UploadInv'
<1>a. /\ UNCHANGED <<chan, w, buffer, up, body, task, completed, success, mpu, stored, object, abortReq>>
      /\ completeReq = "sent" /\ completeReq' = "rejected" /\ faults \subseteq faults'
      BY DEF CommitRefused, CommitFails, channelVars, uploaderVars, writerVars
<1>d. ~Untouched
      BY <1>a DEF Untouched
<1>1. ExitInv'
      BY <1>a, <1>d, StorageExit
<1>2. StreamInv'
      BY <1>a, <1>d DEF UploadInv, StreamInv, Full
<1>3. StoreInv'
      BY <1>a DEF UploadInv, StoreInv, Full
<1> QED BY <1>1, <1>2, <1>3 DEF UploadInv

\* The guard's abort: nothing of the upload is used any more.
LEMMA AbortUploadInv ==
    ASSUME BaseOK, UploadInv, UNCHANGED writerVars, Abort \/ AbortFails
    PROVE  UploadInv'
<1>a. /\ UNCHANGED <<chan, w, buffer, up, body, task, completed, success, object, completeReq>>
      /\ abortReq = "sent" /\ stored' \subseteq stored /\ faults \subseteq faults'
      BY DEF Abort, AbortFails, channelVars, uploaderVars, writerVars
<1>d. ~Untouched
      BY <1>a DEF Untouched
<1>1. ExitInv'
      BY <1>a, <1>d, StorageExit
<1>2. StreamInv'
      BY <1>a, <1>d DEF UploadInv, StreamInv, Full
<1>3. StoreInv'
  <2>1. stored' \subseteq {1} /\ (body' = <<>> => stored' = {})
        BY <1>a DEF UploadInv, StoreInv
  <2> QED BY <1>a, <2>1 DEF UploadInv, StoreInv, Full
<1> QED BY <1>1, <1>2, <1>3 DEF UploadInv

LEMMA StorageUploadInv ==
    ASSUME BaseOK, UploadInv, UNCHANGED writerVars, Storage
    PROVE  UploadInv'
BY PartUploadInv, CommitUploadInv, NoCommitUploadInv, AbortUploadInv DEF Storage

\* The process dies: what the service was sent it may still carry out.
LEMMA CrashUploadInv ==
    ASSUME BaseOK, UploadInv, Crash
    PROVE  UploadInv'
<1>a. /\ UNCHANGED <<body, completed, success, mpu, stored, object, completeReq, abortReq>>
      /\ UNCHANGED <<accepted, buffer, oneshot, audited, result>>
      /\ w' = "crashed" /\ up' = "dead" /\ chan' = <<>> /\ task' = TasksDropped(task)
      /\ "crash" \in faults'
      BY DEF Crash, storageVars
<1>1. ExitInv'
  <2>1. Untouched => Untouched'
        BY <1>a, Dropped DEF Untouched
  <2> QED BY <1>a, <2>1 DEF UploadInv, ExitInv
<1>2. StreamInv'
      BY <1>a DEF StreamInv
<1>3. StoreInv'
  <2> USE DEF UploadInv, StoreInv
  <2>1. IF body = <<>> THEN task' = <<>> /\ task = <<>> ELSE \E s \in TaskState : task = <<s>> /\ task' = <<IF s = "running" THEN "orphan" ELSE s>>
    <3>1. CASE body = <<>>
          BY <1>a, <3>1, Dropped
    <3>2. CASE body # <<>>
      <4>1. PICK s \in TaskState : task = <<s>>
            BY <3>2
      <4> QED BY <1>a, <3>2, <4>1, Dropped
    <3> QED BY <3>1, <3>2
  <2>2. task = <<"joined">> <=> task' = <<"joined">>
        BY <2>1
  <2>3. IF body = <<>> THEN task' = <<>> ELSE task' \in {<<s>> : s \in TaskState}
    <3>1. \A s \in TaskState : (IF s = "running" THEN "orphan" ELSE s) \in TaskState
          BY DEF TaskState
    <3> QED BY <2>1, <3>1
  <2> QED BY <1>a, <2>2, <2>3
<1> QED BY <1>1, <1>2, <1>3 DEF UploadInv

-----------------------------------------------------------------------------
(* The theorems.                                                           *)

LEMMA UploadStep ==
    ASSUME BaseOK, ThreadInv, UploadInv, [Next]_vars
    PROVE  UploadInv'
<1>1. CASE UNCHANGED vars
  <2>1. /\ UNCHANGED <<chan, senders, rxOpen, up, permitOpt, body, task, completed, success>>
        /\ UNCHANGED <<mpu, stored, object, completeReq, abortReq, faults, w, accepted, buffer, oneshot, audited, result>>
        BY <1>1 DEF vars, uploadVars, channelVars, uploaderVars, storageVars, writerVars
  <2> QED BY <2>1 DEF UploadInv, StreamInv, StoreInv, ExitInv, Untouched, Full
<1>2. CASE Caller
      BY <1>2, BlockUploadInv, FailureUploadInv DEF Caller
<1>3. CASE Exit
      BY <1>3, BlockUploadInv, FeedUploadInv DEF Exit
<1>4. CASE Thread \/ SerializationFails
      BY <1>4, BlockUploadInv, FailureUploadInv DEF Thread
<1>5. CASE Uploader /\ UNCHANGED writerVars
      BY <1>5, UploaderUploadInv
<1>6. CASE Storage /\ UNCHANGED writerVars
      BY <1>6, StorageUploadInv
<1>7. CASE Crash
      BY <1>7, CrashUploadInv
<1>8. CASE Done
      BY <1>8, <1>1 DEF Done
<1> QED BY <1>1, <1>2, <1>3, <1>4, <1>5, <1>6, <1>7, <1>8 DEF Next

LEMMA Inductive == Spec => []IInv
<1>1. Init => IInv
      BY BaseInit, ThreadInit, UploadInitially DEF IInv, UploadInv
<1>2. IInv /\ [Next]_vars => IInv'
      BY BaseStep, ThreadStep, UploadStep DEF IInv, UploadInv
<1> QED BY <1>1, <1>2, PTL DEF Spec

\* Every variable of the Writer and of the upload it drives keeps its type:
\* the batches a caller sends never outgrow the calls, the batch channel never
\* holds more than its capacity, and a part is numbered as the body it stands
\* for (writer.rs, channel_writer.rs, upload_stream).
THEOREM TypeCorrect == Spec => []TypeOK
<1>1. IInv => TypeOK
      BY TypeFollows DEF IInv
<1> QED BY <1>1, Inductive, PTL

\* Once a file has been handed over, it is what was accepted, and no file is
\* the absence of one.
LEMMA FileIsAccepted ==
    ASSUME IInv, completeReq = "committed"
    PROVE  /\ oneshot = "buffer" /\ buffer = accepted /\ accepted # <<>> /\ accepted[1][2]
           /\ object = <<accepted>> /\ object # NoObject
<1>1. body # <<>>
  <2>1. completed = <<1>> /\ <<1>> # <<>>
        BY DEF IInv, StoreInv
  <2> QED BY <2>1 DEF IInv, StoreInv
<1>2. oneshot = "buffer"
      BY <1>1 DEF IInv, ExitInv
<1>3. buffer = accepted /\ accepted # <<>> /\ accepted[1][2]
      BY <1>2 DEF IInv, ThreadInv
<1>4. object = <<accepted>>
      BY <1>3 DEF IInv, StoreInv
<1>5. <<accepted>> \in Seq(Payloads)
  <2>1. accepted \in Payloads
        BY <1>3, BufferIsFile DEF IInv
  <2> QED BY <2>1
<1>6. object # NoObject
      BY <1>4, <1>5, NoObjectAssumption
<1> QED BY <1>2, <1>3, <1>4, <1>6

\* However the with block ends, the result, the store and the audit trail
\* agree: the object is every batch whose write_batch returned Ok, in order,
\* the first of them one the linter accepted; an exception writes nothing; a
\* clean exit of a block that wrote means a visible object and a recorded
\* event; and an object without an event only after a completion whose answer
\* was lost or a crash (Writer::__exit__, ChannelWriter, upload_stream).
THEOREM ExitTruthful == Spec => []ExitTellsTruth
<1>1. ASSUME IInv PROVE ExitTellsTruth
  <2> USE <1>1
  <2>1. object # NoObject => completeReq = "committed"
        BY DEF IInv, StoreInv
  <2>2. completeReq = "committed" => /\ object = <<accepted>> /\ accepted[1][2] /\ object # NoObject
        BY FileIsAccepted
  <2>3. WrittenInOrder
        BY <2>1, <2>2 DEF WrittenInOrder
  <2>4. ExceptionWritesNothing
        BY DEF ExceptionWritesNothing, IInv, ExitInv, Untouched
  <2>5. OkMeansStored
        BY <2>2 DEF OkMeansStored, IInv, ExitInv
  <2>6. AuditAgrees
    <3>1. audited => object # NoObject
          BY <2>2 DEF IInv, ExitInv
    <3>2. ASSUME object # NoObject, w \in {"exited", "crashed"}
          PROVE  audited \/ faults \cap {"timeout", "crash"} # {}
      <4>1. completeReq = "committed"
            BY <2>1, <3>2
      <4>2. up \notin {"idle"} \/ w # "exited"
            BY <4>1 DEF IInv, StreamInv, Untouched
      <4>3. CASE up = "ok"
        <5>1. w = "exited"
              BY <3>2, <4>3 DEF IInv, ExitInv
        <5> QED BY <4>3, <5>1 DEF IInv, ExitInv
      <4>4. CASE up = "err"
            BY <4>1, <4>4 DEF IInv, StoreInv
      <4>5. CASE up = "dead"
            BY <4>5 DEF IInv, StoreInv
      <4> QED BY <3>2, <4>2, <4>3, <4>4, <4>5 DEF IInv, ExitInv
    <3> QED BY <3>1, <3>2 DEF AuditAgrees
  <2>7. OpenedByLintedBatch
    <3>1. completeReq = "committed" => object[1][1][2]
      <4>1. <<accepted>>[1] = accepted
            OBVIOUS
      <4> QED BY <2>2, <4>1
    <3> QED BY <2>1, <3>1 DEF OpenedByLintedBatch
  <2> QED BY <2>3, <2>4, <2>5, <2>6, <2>7 DEF ExitTellsTruth
<1> QED BY <1>1, Inductive, PTL
=============================================================================
