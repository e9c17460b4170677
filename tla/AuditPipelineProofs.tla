------------------------ MODULE AuditPipelineProofs ------------------------
(***************************************************************************)
(* Theorems about AuditPipeline, for every set of pushers, every capacity, *)
(* batch size, number of events and of retries.                            *)
(*                                                                         *)
(* Types, and that no event vanishes or is in two places: every step but   *)
(* BeginPush moves events from one of seven places to another (Moved);     *)
(* what makes it so is that the queue and the batch hold no event twice    *)
(* (Distinct), and that two batches in the pool share none.                *)
(*                                                                         *)
(* Delivery: a second invariant (DeliveryInv), inductive together with the *)
(* first, on the order of queue, batch and what was sent, on how often the *)
(* sink can have an event of the batch, and on the free places an overflow *)
(* leaves behind.                                                          *)
(***************************************************************************)
EXTENDS AuditPipeline, FunctionTheorems, FiniteSetTheorems, TLAPS

Distinct(s) == \A i, j \in DOMAIN s : s[i] = s[j] => i = j

Places == <<InHand, Elements(queue), Elements(batch), InPool, dropped, acked, lost>>

\* P is a partition of N into seven places
Parts(P, N) ==
    /\ UNION {P[k] : k \in 1 .. 7} = N
    /\ \A k, l \in 1 .. 7 : k # l => P[k] \cap P[l] = {}

PoolApart == \A b, c \in pool : b # c => Elements(b) \cap Elements(c) = {}

Placed ==
    /\ Parts(Places, Begun)
    /\ Distinct(queue)
    /\ Distinct(batch)
    /\ PoolApart

\* a batch that is still collected has room
Room == ~sending => Len(batch) < BatchSize

IInv == TypeOK /\ Room /\ Placed

-----------------------------------------------------------------------------
(* Sequences.                                                              *)

LEMMA ElementsEmpty == Elements(<<>>) = {} /\ Distinct(<<>>)
BY DEF Elements, Distinct

LEMMA ElementsAppend ==
    ASSUME NEW S, NEW s \in Seq(S), NEW e \in S
    PROVE  /\ Elements(Append(s, e)) = Elements(s) \cup {e}
           /\ Distinct(s) /\ e \notin Elements(s) => Distinct(Append(s, e))
<1>1. /\ DOMAIN Append(s, e) = 1 .. Len(s) + 1
      /\ DOMAIN s = 1 .. Len(s)
      /\ Append(s, e)[Len(s) + 1] = e
      /\ \A i \in 1 .. Len(s) : Append(s, e)[i] = s[i]
      OBVIOUS
<1>2. Len(s) \in Nat /\ 1 .. Len(s) + 1 = (1 .. Len(s)) \cup {Len(s) + 1}
      OBVIOUS
<1>3. Elements(Append(s, e)) = Elements(s) \cup {e}
      BY <1>1, <1>2 DEF Elements
<1>4. ASSUME Distinct(s), e \notin Elements(s) PROVE Distinct(Append(s, e))
      BY <1>1, <1>2, <1>4 DEF Elements, Distinct
<1> QED BY <1>3, <1>4

LEMMA ElementsTail ==
    ASSUME NEW S, NEW s \in Seq(S), s # <<>>, Distinct(s)
    PROVE  /\ Head(s) \in Elements(s)
           /\ Elements(Tail(s)) = Elements(s) \ {Head(s)}
           /\ Distinct(Tail(s))
<1>1. /\ Len(s) \in Nat \ {0} /\ DOMAIN s = 1 .. Len(s)
      /\ Head(s) = s[1]
      /\ DOMAIN Tail(s) = 1 .. Len(s) - 1
      /\ \A i \in 1 .. Len(s) - 1 : Tail(s)[i] = s[i + 1]
      OBVIOUS
<1>2. Head(s) \in Elements(s)
      BY <1>1 DEF Elements
<1>3. ASSUME NEW x \in Elements(Tail(s)) PROVE x \in Elements(s) \ {Head(s)}
  <2>1. PICK i \in 1 .. Len(s) - 1 : x = s[i + 1]
        BY <1>1 DEF Elements
  <2>2. i + 1 \in 1 .. Len(s) /\ 1 \in 1 .. Len(s) /\ i + 1 # 1
        BY <1>1
  <2>3. x # s[1]
        BY <1>1, <2>1, <2>2 DEF Distinct
  <2> QED BY <1>1, <2>1, <2>2, <2>3 DEF Elements
<1>4. ASSUME NEW x \in Elements(s), x # Head(s) PROVE x \in Elements(Tail(s))
  <2>1. PICK i \in 1 .. Len(s) : x = s[i]
        BY <1>1 DEF Elements
  <2>2. i - 1 \in 1 .. Len(s) - 1 /\ s[(i - 1) + 1] = x
        BY <1>1, <1>4, <2>1
  <2> QED BY <1>1, <2>2 DEF Elements
<1>5. Distinct(Tail(s))
  <2> SUFFICES ASSUME NEW i \in 1 .. Len(s) - 1, NEW j \in 1 .. Len(s) - 1, Tail(s)[i] = Tail(s)[j]
               PROVE  i = j
      BY <1>1 DEF Distinct
  <2>1. i + 1 \in 1 .. Len(s) /\ j + 1 \in 1 .. Len(s) /\ s[i + 1] = s[j + 1]
        BY <1>1
  <2>2. i + 1 = j + 1
        BY <1>1, <2>1 DEF Distinct
  <2> QED BY <2>2
<1> QED BY <1>2, <1>3, <1>4, <1>5

LEMMA ElementsTyped ==
    ASSUME NEW S, NEW s \in Seq(S) PROVE Elements(s) \subseteq S
BY DEF Elements

LEMMA DistinctLen ==
    ASSUME NEW S, NEW s \in Seq(S), Distinct(s)
    PROVE  Cardinality(Elements(s)) = Len(s)
<1>1. Len(s) \in Nat /\ DOMAIN s = 1 .. Len(s)
      OBVIOUS
<1>2. s \in [1 .. Len(s) -> Elements(s)]
      BY <1>1 DEF Elements
<1>3. s \in Bijection(1 .. Len(s), Elements(s))
      BY <1>1, <1>2 DEF Bijection, Injection, Surjection, IsInjective, Distinct, Elements
<1>4. IsFiniteSet(1 .. Len(s)) /\ Cardinality(1 .. Len(s)) = Len(s)
      BY <1>1, FS_Interval
<1> QED BY <1>3, <1>4, FS_Bijection DEF ExistsBijection

-----------------------------------------------------------------------------
(* Seven places.                                                           *)

LEMMA Seven ==
    ASSUME NEW a, NEW b, NEW c, NEW d, NEW e, NEW f, NEW g
    PROVE  LET P == <<a, b, c, d, e, f, g>>
           IN  P[1] = a /\ P[2] = b /\ P[3] = c /\ P[4] = d /\ P[5] = e /\ P[6] = f /\ P[7] = g
OBVIOUS

\* X goes from place k to place l
Transfer(P, Q, k, l, X) ==
    /\ X \subseteq P[k]
    /\ Q[k] = P[k] \ X
    /\ Q[l] = P[l] \cup X
    /\ \A m \in 1 .. 7 : m \notin {k, l} => Q[m] = P[m]

LEMMA Moved ==
    ASSUME NEW P, NEW Q, NEW N, NEW k \in 1 .. 7, NEW l \in 1 .. 7, k # l, NEW X,
           Parts(P, N), Transfer(P, Q, k, l, X)
    PROVE  Parts(Q, N)
<1> USE DEF Transfer
<1>1. \A x : (\E m \in 1 .. 7 : x \in Q[m]) <=> (\E m \in 1 .. 7 : x \in P[m])
  <2> SUFFICES ASSUME NEW x PROVE (\E m \in 1 .. 7 : x \in Q[m]) <=> (\E m \in 1 .. 7 : x \in P[m])
      OBVIOUS
  <2>1. ASSUME NEW m \in 1 .. 7, x \in Q[m] PROVE \E n \in 1 .. 7 : x \in P[n]
        BY <2>1
  <2>2. ASSUME NEW m \in 1 .. 7, x \in P[m] PROVE \E n \in 1 .. 7 : x \in Q[n]
        BY <2>2
  <2> QED BY <2>1, <2>2
<1>2. UNION {Q[m] : m \in 1 .. 7} = UNION {P[m] : m \in 1 .. 7}
      BY <1>1, Zenon
<1>3. ASSUME NEW m \in 1 .. 7, NEW n \in 1 .. 7, m # n PROVE Q[m] \cap Q[n] = {}
  <2>1. \A x : \A i, j \in 1 .. 7 : x \in P[i] /\ x \in P[j] => i = j
        BY DEF Parts
  <2> QED BY <1>3, <2>1
<1> QED BY <1>2, <1>3 DEF Parts

LEMMA Grown ==
    ASSUME NEW P, NEW Q, NEW N, Parts(P, N), NEW k \in 1 .. 7, NEW x, x \notin N,
           Q[k] = P[k] \cup {x},
           \A m \in 1 .. 7 : m # k => Q[m] = P[m]
    PROVE  Parts(Q, N \cup {x})
<1>1. \A m \in 1 .. 7 : x \notin P[m]
      BY DEF Parts
<1>2. UNION {Q[m] : m \in 1 .. 7} = N \cup {x}
  <2>1. \A y : (\E m \in 1 .. 7 : y \in Q[m]) <=> (\E m \in 1 .. 7 : y \in P[m]) \/ y = x
        OBVIOUS
  <2> QED BY <2>1 DEF Parts
<1>3. ASSUME NEW m \in 1 .. 7, NEW n \in 1 .. 7, m # n PROVE Q[m] \cap Q[n] = {}
  <2>1. \A y : \A i, j \in 1 .. 7 : y \in P[i] /\ y \in P[j] => i = j
        BY DEF Parts
  <2> QED BY <1>1, <1>3, <2>1
<1> QED BY <1>2, <1>3 DEF Parts

-----------------------------------------------------------------------------
(* Types.                                                                  *)

BufferTyped ==
    /\ begun \in [Pushers -> 0 .. MaxEvents]
    /\ pushing \in [Pushers -> {"idle", "push", "evict"}]
    /\ queue \in Seq(Events)
    /\ Len(queue) <= Capacity
    /\ dropped \subseteq Events
BatchTyped ==
    /\ batch \in Seq(Events)
    /\ Len(batch) <= BatchSize
    /\ retries \in 0 .. MaxRetries
    /\ \A b \in pool : b \in Seq(Events)
SinkTyped ==
    /\ received \in Seq(Events)
    /\ acked \subseteq Events
    /\ lost \subseteq Events
    /\ sink \in SinkConfig
SendingTyped == sending \in BOOLEAN

LEMMA TypeParts == TypeOK <=> BufferTyped /\ BatchTyped /\ SinkTyped /\ SendingTyped
BY Zenon DEF TypeOK, BufferTyped, BatchTyped, SinkTyped, SendingTyped

LEMMA NoEvents == <<>> \in Seq(Events) /\ Len(<<>>) = 0
OBVIOUS

LEMMA Initially == Init => IInv
<1> SUFFICES ASSUME Init PROVE IInv
    OBVIOUS
<1>1. BufferTyped
      BY NoEvents, MaxEventsAssumption, CapacityAssumption DEF Init, BufferTyped
<1>2. BatchTyped
      BY NoEvents, BatchSizeAssumption, MaxRetriesAssumption DEF Init, BatchTyped
<1>3. SinkTyped
      BY NoEvents DEF Init, SinkTyped
<1>4. SendingTyped
      BY Zenon DEF Init, SendingTyped
<1>5. InHand = {} /\ InPool = {} /\ Elements(queue) = {} /\ Elements(batch) = {} /\ Begun = {}
      BY ElementsEmpty DEF Init, InHand, InPool, Begun, Events
<1>6. \A k \in 1 .. 7 : Places[k] = {}
      BY <1>5, Seven DEF Places, Init
<1>7. Parts(Places, Begun)
      BY <1>5, <1>6 DEF Parts
<1>8. Room
      BY BatchSizeAssumption DEF Init, Room
<1> QED BY <1>1, <1>2, <1>3, <1>4, <1>7, <1>8, TypeParts, ElementsEmpty DEF IInv, Placed, PoolApart, Init

LEMMA EventOf ==
    ASSUME TypeOK, Placed, NEW p \in Pushers, pushing[p] # "idle"
    PROVE  /\ <<p, begun[p]>> \in InHand
           /\ <<p, begun[p]>> \in Events
<1>1. <<p, begun[p]>> \in InHand
      BY DEF InHand
<1>2. InHand \subseteq Begun
      BY Seven DEF Placed, Parts, Places
<1> QED BY <1>1, <1>2 DEF Begun

LEMMA ComparisonTyped == ASSUME NEW a, NEW b PROVE (a >= b) \in BOOLEAN
OBVIOUS

LEMMA CollectSends == ASSUME Collect PROVE sending' \in BOOLEAN
<1>1. sending' = (Len(batch) + 1 >= BatchSize)
      BY DEF Collect
<1>2. (Len(batch) + 1 >= BatchSize) \in BOOLEAN
      BY ComparisonTyped
<1> QED BY <1>1, <1>2, Zenon

LEMMA SendingStep == TypeOK /\ [Next]_vars => SendingTyped'
<1> SUFFICES ASSUME SendingTyped, [Next]_vars PROVE SendingTyped'
    BY TypeParts
<1>1. ASSUME sending' = sending PROVE SendingTyped'
      BY <1>1 DEF SendingTyped
<1>2. CASE Collect
      BY <1>2, CollectSends DEF SendingTyped
<1>3. ASSUME NextBatch PROVE SendingTyped'
      BY <1>3 DEF NextBatch, SendingTyped
<1>4. CASE Broadcast
  <2>1. CASE CloseBatch
        BY <2>1 DEF CloseBatch, SendingTyped
  <2> QED BY <1>1, <1>2, <1>3, <1>4, <2>1 DEF Broadcast, Deliver, WriteFile, FileFails, PostFails
<1>5. CASE Pool
      BY <1>1, <1>5 DEF Pool, PoolWrites, PoolFails
<1> QED BY <1>1, <1>4, <1>5 DEF Next, vars, broadcasterVars, Push, BeginPush, PushOk, PushFull, Evict, Done

LEMMA BufferStep == TypeOK /\ Placed /\ [Next]_vars => BufferTyped'
<1> SUFFICES ASSUME TypeOK, Placed, [Next]_vars PROVE BufferTyped'
    OBVIOUS
<1>a. BufferTyped
      BY TypeParts
<1> USE <1>a, MaxEventsAssumption, CapacityAssumption DEF BufferTyped
<1>1. ASSUME UNCHANGED bufferVars PROVE BufferTyped'
      BY <1>1 DEF bufferVars
<1>2. ASSUME NEW p \in Pushers, BeginPush(p) PROVE BufferTyped'
  <2>1. begun[p] + 1 \in 0 .. MaxEvents
        BY <1>2 DEF BeginPush
  <2>2. begun' \in [Pushers -> 0 .. MaxEvents]
        BY <1>2, <2>1 DEF BeginPush
  <2> QED BY <1>2, <2>2 DEF BeginPush
<1>3. ASSUME NEW p \in Pushers, PushOk(p) PROVE BufferTyped'
  <2>1. <<p, begun[p]>> \in Events
        BY <1>3, EventOf DEF PushOk
  <2>2. queue' \in Seq(Events) /\ Len(queue') <= Capacity
        BY <1>3, <2>1 DEF PushOk
  <2> QED BY <1>3, <2>2 DEF PushOk
<1>4. ASSUME NEW p \in Pushers, PushFull(p) PROVE BufferTyped'
      BY <1>4 DEF PushFull
<1>5. queue # <<>> => Head(queue) \in Events /\ Tail(queue) \in Seq(Events) /\ Len(Tail(queue)) <= Capacity
      OBVIOUS
<1>6. ASSUME NEW p \in Pushers, Evict(p) PROVE BufferTyped'
  <2>1. CASE queue = <<>>
        BY <1>6, <2>1 DEF Evict
  <2>2. CASE queue # <<>>
        BY <1>5, <1>6, <2>2 DEF Evict
  <2> QED BY <2>1, <2>2
<1>7. CASE Collect
      BY <1>5, <1>7 DEF Collect
<1> QED BY <1>1, <1>2, <1>3, <1>4, <1>6, <1>7 DEF Next, vars, Push, Broadcast, CloseBatch, Deliver,
           WriteFile, FileFails, PostFails, Pool, PoolWrites, PoolFails, Done

LEMMA BatchTypeStep == TypeOK /\ Room /\ [Next]_vars => BatchTyped'
<1> SUFFICES ASSUME TypeOK, Room, [Next]_vars PROVE BatchTyped'
    OBVIOUS
<1>a. BatchTyped /\ queue \in Seq(Events)
      BY TypeParts DEF BufferTyped
<1> USE <1>a, BatchSizeAssumption, MaxRetriesAssumption DEF BatchTyped
<1>1. ASSUME UNCHANGED <<batch, retries, pool>> PROVE BatchTyped'
      BY <1>1
<1>2. CASE Collect
  <2>1. Head(queue) \in Events
        BY <1>2 DEF Collect
  <2>2. batch' \in Seq(Events) /\ Len(batch') <= BatchSize
        BY <1>2, <2>1 DEF Collect, Room
  <2> QED BY <1>2, <2>2 DEF Collect
<1>3. ASSUME NextBatch, pool' \in {pool, pool \cup {batch}} PROVE BatchTyped'
      BY <1>3, NoEvents DEF NextBatch
<1>4. CASE PostFails
  <2>1. CASE retries + 1 > MaxRetries
        BY <1>3, <1>4, <2>1 DEF PostFails
  <2>2. CASE ~(retries + 1 > MaxRetries)
        BY <1>4, <2>2 DEF PostFails
  <2> QED BY <2>1, <2>2
<1>5. CASE Broadcast
      BY <1>1, <1>2, <1>3, <1>4, <1>5 DEF Broadcast, CloseBatch, Deliver, WriteFile, FileFails
<1>6. CASE Pool
      BY <1>6 DEF Pool, PoolWrites, PoolFails
<1> QED BY <1>1, <1>5, <1>6 DEF Next, vars, broadcasterVars, Push, BeginPush, PushOk, PushFull, Evict, Done

LEMMA SinkStep == TypeOK /\ [Next]_vars => SinkTyped'
<1> SUFFICES ASSUME TypeOK, [Next]_vars PROVE SinkTyped'
    OBVIOUS
<1>a. SinkTyped /\ batch \in Seq(Events) /\ \A b \in pool : b \in Seq(Events)
      BY TypeParts DEF BatchTyped
<1>b. ASSUME NEW b \in Seq(Events) PROVE received \o b \in Seq(Events) /\ Elements(b) \subseteq Events
      BY <1>a, ElementsTyped DEF SinkTyped
<1> USE <1>a, <1>b DEF SinkTyped
<1>1. ASSUME UNCHANGED <<received, acked, lost, sink>> PROVE SinkTyped'
      BY <1>1
<1>2. CASE Deliver \/ FileFails \/ PostFails
      BY <1>2 DEF Deliver, FileFails, PostFails
<1>3. CASE Pool
      BY <1>3 DEF Pool, PoolWrites, PoolFails
<1> QED BY <1>1, <1>2, <1>3 DEF Next, vars, broadcasterVars, Broadcast, Collect, CloseBatch, WriteFile,
           Push, BeginPush, PushOk, PushFull, Evict, Done

LEMMA TypeStep == IInv /\ [Next]_vars => TypeOK'
<1>1. TypeOK' <=> BufferTyped' /\ BatchTyped' /\ SinkTyped' /\ SendingTyped'
      BY TypeParts, PTL
<1> QED BY <1>1, BufferStep, BatchTypeStep, SinkStep, SendingStep DEF IInv

LEMMA RoomStep == IInv /\ [Next]_vars => Room'
<1> SUFFICES ASSUME TypeOK, Room, [Next]_vars PROVE Room'
    BY DEF IInv
<1> USE BatchSizeAssumption DEF Room, bufferVars, broadcasterVars
<1>1. ASSUME batch' = batch, sending' \/ sending' = sending PROVE Room'
      BY <1>1
<1>2. CASE Collect
  <2>1. Len(batch') = Len(batch) + 1 /\ Len(batch) \in Nat
        BY <1>2 DEF Collect, TypeOK
  <2>2. ~sending' => ~(Len(batch) + 1 >= BatchSize)
        BY <1>2, Zenon DEF Collect
  <2> QED BY <2>1, <2>2
<1>3. ASSUME NextBatch PROVE Room'
      BY <1>3, NoEvents DEF NextBatch
<1>4. CASE Broadcast
      BY <1>1, <1>2, <1>3, <1>4 DEF Broadcast, CloseBatch, Deliver, WriteFile, FileFails, PostFails
<1>5. CASE Pool
      BY <1>1, <1>5 DEF Pool, PoolWrites, PoolFails
<1> QED BY <1>1, <1>4, <1>5 DEF Next, vars, Push, BeginPush, PushOk, PushFull, Evict, Done

-----------------------------------------------------------------------------
(* Conservation.                                                           *)

LEMMA PlacesAre ==
    /\ Places[1] = InHand /\ Places[2] = Elements(queue) /\ Places[3] = Elements(batch)
    /\ Places[4] = InPool /\ Places[5] = dropped /\ Places[6] = acked /\ Places[7] = lost
BY Seven DEF Places

LEMMA PlacesWillBe ==
    /\ Places'[1] = InHand' /\ Places'[2] = Elements(queue') /\ Places'[3] = Elements(batch')
    /\ Places'[4] = InPool' /\ Places'[5] = dropped' /\ Places'[6] = acked' /\ Places'[7] = lost'
BY Seven DEF Places

LEMMA OneOfSeven == \A m : m \in 1 .. 7 <=> m \in {1, 2, 3, 4, 5, 6, 7}
OBVIOUS

LEMMA SameHand ==
    ASSUME begun' = begun, \A q \in Pushers : pushing'[q] # "idle" <=> pushing[q] # "idle"
    PROVE  InHand' = InHand /\ Begun' = Begun
BY DEF InHand, Begun

LEMMA SamePlaces ==
    ASSUME Placed, begun' = begun, \A q \in Pushers : pushing'[q] # "idle" <=> pushing[q] # "idle",
           UNCHANGED <<queue, dropped, batch, pool, acked, lost>>
    PROVE  Placed'
<1>1. InPool' = InPool
      BY DEF InPool
<1>2. Places' = Places
      BY <1>1, SameHand DEF Places
<1> QED BY <1>2, SameHand DEF Placed, PoolApart

LEMMA BeginStep ==
    ASSUME TypeOK, Placed, NEW p \in Pushers, BeginPush(p) PROVE Placed'
<1> DEFINE e == <<p, begun[p] + 1>>
<1>1. UNCHANGED <<queue, dropped, batch, pool, acked, lost>>
      BY DEF BeginPush, broadcasterVars
<1>2. begun[p] \in 0 .. MaxEvents /\ begun[p] + 1 \in 1 .. MaxEvents
      BY MaxEventsAssumption DEF BeginPush, TypeOK
<1>3. \A q \in Pushers : begun'[q] = (IF q = p THEN begun[p] + 1 ELSE begun[q])
                         /\ (pushing'[q] # "idle" <=> q = p \/ pushing[q] # "idle")
      BY DEF BeginPush, TypeOK
<1>4. InHand' = InHand \cup {e}
  <2>1. pushing[p] = "idle"
        BY DEF BeginPush
  <2>2. ASSUME NEW x \in InHand' PROVE x \in InHand \cup {e}
    <3>1. PICK q \in Pushers : pushing'[q] # "idle" /\ x = <<q, begun'[q]>>
          BY <2>2 DEF InHand
    <3> QED BY <3>1, <1>3 DEF InHand
  <2>3. ASSUME NEW x \in InHand PROVE x \in InHand'
    <3>1. PICK q \in Pushers : pushing[q] # "idle" /\ x = <<q, begun[q]>>
          BY <2>3 DEF InHand
    <3> QED BY <3>1, <2>1, <1>3 DEF InHand
  <2>4. e \in InHand'
        BY <1>3 DEF InHand
  <2> QED BY <2>2, <2>3, <2>4
<1>5. Begun' = Begun \cup {e} /\ e \notin Begun
  <2>1. e \in Events /\ e[1] = p /\ e[2] = begun[p] + 1
        BY <1>2 DEF Events
  <2>2. \A x \in Events : /\ x[1] \in Pushers /\ x[2] \in Nat /\ x = <<x[1], x[2]>>
                          /\ begun[x[1]] \in Nat
        BY MaxEventsAssumption DEF Events, TypeOK
  <2>3. e \notin Begun
        BY <1>2, <2>1 DEF Begun
  <2>4. e \in Begun'
        BY <1>2, <1>3, <2>1 DEF Begun
  <2>5. ASSUME NEW x \in Events PROVE x \in Begun' <=> x \in Begun \/ x = e
    <3>1. CASE x[1] # p
          BY <1>3, <2>1, <2>2, <3>1 DEF Begun
    <3>2. CASE x[1] = p
      <4>1. x \in Begun' <=> x[2] <= begun[p] + 1
            BY <1>3, <2>2, <3>2 DEF Begun
      <4>2. x \in Begun <=> x[2] <= begun[p]
            BY <2>2, <3>2 DEF Begun
      <4>3. x = e <=> x[2] = begun[p] + 1
            BY <2>1, <2>2, <3>2
      <4> QED BY <1>2, <2>2, <3>2, <4>1, <4>2, <4>3
    <3> QED BY <3>1, <3>2
  <2> QED BY <2>1, <2>3, <2>5 DEF Begun
<1>6. InPool' = InPool
      BY <1>1 DEF InPool
<1> HIDE DEF e
<1>7. Parts(Places', Begun')
  <2>1. Places'[1] = Places[1] \cup {e} /\ \A m \in 1 .. 7 : m # 1 => Places'[m] = Places[m]
        BY <1>1, <1>4, <1>6, PlacesAre, PlacesWillBe, OneOfSeven
  <2>2. Parts(Places', Begun \cup {e})
        BY <1>5, <2>1, Grown DEF Placed
  <2> QED BY <1>5, <2>2
<1> QED BY <1>1, <1>7 DEF Placed, PoolApart

LEMMA PushStep ==
    ASSUME TypeOK, Placed, NEW p \in Pushers, PushOk(p) PROVE Placed'
<1> DEFINE e == <<p, begun[p]>>
<1>1. UNCHANGED <<begun, dropped, batch, pool, acked, lost>> /\ pushing[p] # "idle"
      BY DEF PushOk, broadcasterVars
<1>2. \A q \in Pushers : pushing'[q] # "idle" <=> q # p /\ pushing[q] # "idle"
      BY DEF PushOk, TypeOK
<1>3. e \in InHand /\ e \in Events
      BY <1>1, EventOf
<1>4. InHand' = InHand \ {e}
  <2>1. ASSUME NEW x PROVE x \in InHand' <=> x \in InHand /\ x # e
    <3>1. x \in InHand' <=> \E q \in Pushers : pushing'[q] # "idle" /\ x = <<q, begun[q]>>
          BY <1>1 DEF InHand
    <3>2. x \in InHand <=> \E q \in Pushers : pushing[q] # "idle" /\ x = <<q, begun[q]>>
          BY DEF InHand
    <3> QED BY <1>2, <3>1, <3>2
  <2> QED BY <2>1
<1>5. Begun' = Begun /\ InPool' = InPool
      BY <1>1 DEF Begun, InPool
<1> HIDE DEF e
<1>6. queue' = Append(queue, e)
      BY DEF PushOk, e
<1>7. e \notin Elements(queue)
      BY <1>3, PlacesAre DEF Placed, Parts
<1>8. Elements(queue') = Elements(queue) \cup {e} /\ Distinct(queue')
      BY <1>3, <1>6, <1>7, ElementsAppend DEF TypeOK, Placed
<1>9. Parts(Places', Begun')
  <2>1. /\ Places'[1] = Places[1] \ {e} /\ Places'[2] = Places[2] \cup {e}
        /\ \A m \in 1 .. 7 : m \notin {1, 2} => Places'[m] = Places[m]
        BY <1>1, <1>4, <1>5, <1>8, PlacesAre, PlacesWillBe, OneOfSeven
  <2>2. Transfer(Places, Places', 1, 2, {e})
        BY <1>3, <2>1, PlacesAre DEF Transfer
  <2> QED BY <1>5, <2>2, Moved DEF Placed
<1> QED BY <1>1, <1>8, <1>9 DEF Placed, PoolApart

\* The oldest event leaves the queue for one of the other places.
LEMMA HeadLeaves ==
    ASSUME TypeOK, Placed, queue # <<>>, queue' = Tail(queue)
    PROVE  /\ Head(queue) \in Events
           /\ {Head(queue)} \subseteq Places[2]
           /\ Places'[2] = Places[2] \ {Head(queue)}
           /\ Distinct(queue')
BY ElementsTail, ElementsTyped, PlacesAre, PlacesWillBe DEF TypeOK, Placed

LEMMA EvictStep ==
    ASSUME TypeOK, Placed, NEW p \in Pushers, Evict(p) PROVE Placed'
<1>1. UNCHANGED <<begun, batch, pool, acked, lost>>
      BY DEF Evict, broadcasterVars
<1>2. \A q \in Pushers : pushing'[q] # "idle" <=> pushing[q] # "idle"
      BY DEF Evict, TypeOK
<1>3. CASE queue = <<>>
      BY <1>1, <1>2, <1>3, SamePlaces DEF Evict
<1>4. CASE queue # <<>>
  <2>1. queue' = Tail(queue) /\ dropped' = dropped \cup {Head(queue)}
        BY <1>4 DEF Evict
  <2>2. InHand' = InHand /\ Begun' = Begun /\ InPool' = InPool
        BY <1>1, <1>2, SameHand DEF InPool
  <2>3. /\ Places'[5] = Places[5] \cup {Head(queue)}
        /\ \A m \in 1 .. 7 : m \notin {2, 5} => Places'[m] = Places[m]
        BY <1>1, <2>1, <2>2, PlacesAre, PlacesWillBe, OneOfSeven
  <2>4. Transfer(Places, Places', 2, 5, {Head(queue)})
        BY <1>4, <2>1, <2>3, HeadLeaves DEF Transfer
  <2>5. Parts(Places', Begun')
        BY <2>2, <2>4, Moved DEF Placed
  <2> QED BY <1>1, <1>4, <2>1, <2>5, HeadLeaves DEF Placed, PoolApart
<1> QED BY <1>3, <1>4

LEMMA CollectStep ==
    ASSUME TypeOK, Placed, Collect PROVE Placed'
<1>1. /\ UNCHANGED <<begun, pushing, dropped, pool, acked, lost>> /\ queue # <<>>
      /\ queue' = Tail(queue) /\ batch' = Append(batch, Head(queue))
      BY DEF Collect
<1>2. InHand' = InHand /\ Begun' = Begun /\ InPool' = InPool
      BY <1>1, SameHand DEF InPool
<1>3. Head(queue) \notin Elements(batch)
      BY <1>1, HeadLeaves, PlacesAre DEF Placed, Parts
<1>4. Elements(batch') = Elements(batch) \cup {Head(queue)} /\ Distinct(batch')
      BY <1>1, <1>3, HeadLeaves, ElementsAppend DEF TypeOK, Placed
<1>5. /\ Places'[3] = Places[3] \cup {Head(queue)}
      /\ \A m \in 1 .. 7 : m \notin {2, 3} => Places'[m] = Places[m]
      BY <1>1, <1>2, <1>4, PlacesAre, PlacesWillBe, OneOfSeven
<1>6. Transfer(Places, Places', 2, 3, {Head(queue)})
      BY <1>1, <1>5, HeadLeaves DEF Transfer
<1>7. Parts(Places', Begun')
      BY <1>2, <1>6, Moved DEF Placed
<1> QED BY <1>1, <1>4, <1>7, HeadLeaves DEF Placed, PoolApart

\* The batch leaves as a whole, for the sink, the pool or for good.
LEMMA BatchStep ==
    ASSUME TypeOK, Placed, Deliver \/ WriteFile \/ FileFails \/ PostFails PROVE Placed'
<1>1. UNCHANGED <<begun, pushing, queue, dropped>>
      BY DEF Deliver, WriteFile, FileFails, PostFails, bufferVars
<1>2. InHand' = InHand /\ Begun' = Begun
      BY <1>1, SameHand
<1>3. ASSUME batch' = <<>> PROVE Places'[3] = Places[3] \ Elements(batch) /\ Distinct(batch')
      BY <1>3, ElementsEmpty, PlacesAre, PlacesWillBe
<1>4. Elements(batch) \subseteq Places[3]
      BY PlacesAre
<1>5. ASSUME batch' = <<>>, UNCHANGED <<pool, lost>>, acked' = acked \cup Elements(batch) PROVE Placed'
  <2>1. /\ Places'[6] = Places[6] \cup Elements(batch)
        /\ \A m \in 1 .. 7 : m \notin {3, 6} => Places'[m] = Places[m]
        BY <1>1, <1>2, <1>5, PlacesAre, PlacesWillBe, OneOfSeven DEF InPool
  <2>2. Transfer(Places, Places', 3, 6, Elements(batch))
        BY <1>3, <1>4, <1>5, <2>1 DEF Transfer
  <2>3. Parts(Places', Begun')
        BY <1>2, <2>2, Moved DEF Placed
  <2> QED BY <1>1, <1>3, <1>5, <2>3 DEF Placed, PoolApart
<1>6. ASSUME batch' = <<>>, UNCHANGED <<pool, acked>>, lost' = lost \cup Elements(batch) PROVE Placed'
  <2>1. /\ Places'[7] = Places[7] \cup Elements(batch)
        /\ \A m \in 1 .. 7 : m \notin {3, 7} => Places'[m] = Places[m]
        BY <1>1, <1>2, <1>6, PlacesAre, PlacesWillBe, OneOfSeven DEF InPool
  <2>2. Transfer(Places, Places', 3, 7, Elements(batch))
        BY <1>3, <1>4, <1>6, <2>1 DEF Transfer
  <2>3. Parts(Places', Begun')
        BY <1>2, <2>2, Moved DEF Placed
  <2> QED BY <1>1, <1>3, <1>6, <2>3 DEF Placed, PoolApart
<1>7. CASE WriteFile
  <2>1. batch' = <<>> /\ pool' = pool \cup {batch} /\ UNCHANGED <<acked, lost>>
        BY <1>7 DEF WriteFile, NextBatch
  <2>2. InPool' = InPool \cup Elements(batch)
        BY <2>1 DEF InPool
  <2>3. /\ Places'[4] = Places[4] \cup Elements(batch)
        /\ \A m \in 1 .. 7 : m \notin {3, 4} => Places'[m] = Places[m]
        BY <1>1, <1>2, <2>1, <2>2, PlacesAre, PlacesWillBe, OneOfSeven
  <2>4. Transfer(Places, Places', 3, 4, Elements(batch))
        BY <1>3, <1>4, <2>1, <2>3 DEF Transfer
  <2>5. Parts(Places', Begun')
        BY <1>2, <2>4, Moved DEF Placed
  <2>6. Elements(batch) \cap InPool = {}
        BY PlacesAre DEF Placed, Parts
  <2>7. \A b \in pool : Elements(b) \subseteq InPool
        BY DEF InPool
  <2>8. PoolApart'
    <3> SUFFICES ASSUME NEW b \in pool', NEW c \in pool', b # c PROVE Elements(b) \cap Elements(c) = {}
        BY DEF PoolApart
    <3> QED BY <2>1, <2>6, <2>7 DEF Placed, PoolApart
  <2> QED BY <1>1, <1>3, <2>1, <2>5, <2>8 DEF Placed
<1>8. CASE PostFails
  <2>1. CASE retries + 1 > MaxRetries
        BY <1>6, <1>8, <2>1 DEF PostFails, NextBatch
  <2>2. CASE ~(retries + 1 > MaxRetries)
        BY <1>1, <1>8, <2>2, SamePlaces DEF PostFails
  <2> QED BY <2>1, <2>2
<1> QED BY <1>5, <1>6, <1>7, <1>8 DEF Deliver, FileFails, NextBatch

LEMMA PoolStep ==
    ASSUME TypeOK, Placed, NEW b \in pool, PoolWrites(b) \/ PoolFails(b) PROVE Placed'
<1>1. UNCHANGED <<begun, pushing, queue, dropped, batch>> /\ pool' = pool \ {b}
      BY DEF PoolWrites, PoolFails, bufferVars
<1>2. InHand' = InHand /\ Begun' = Begun
      BY <1>1, SameHand
<1>3. InPool' = InPool \ Elements(b) /\ Elements(b) \subseteq InPool
  <2>1. \A x : x \in InPool <=> \E c \in pool : x \in Elements(c)
        BY DEF InPool
  <2>2. \A x : x \in InPool' <=> \E c \in pool : c # b /\ x \in Elements(c)
        BY <1>1 DEF InPool
  <2>3. \A x : \A c \in pool : c # b /\ x \in Elements(c) => x \notin Elements(b)
        BY DEF Placed, PoolApart
  <2>4. \A x : x \in InPool' <=> x \in InPool /\ x \notin Elements(b)
        BY <2>1, <2>2, <2>3
  <2> QED BY <2>1, <2>4
<1>4. Elements(b) \subseteq Places[4] /\ Places'[4] = Places[4] \ Elements(b)
      BY <1>3, PlacesAre, PlacesWillBe
<1>5. CASE PoolWrites(b)
  <2>1. /\ Places'[6] = Places[6] \cup Elements(b)
        /\ \A m \in 1 .. 7 : m \notin {4, 6} => Places'[m] = Places[m]
        BY <1>1, <1>2, <1>5, PlacesAre, PlacesWillBe, OneOfSeven DEF PoolWrites
  <2>2. Transfer(Places, Places', 4, 6, Elements(b))
        BY <1>4, <2>1 DEF Transfer
  <2>3. Parts(Places', Begun')
        BY <1>2, <2>2, Moved DEF Placed
  <2> QED BY <1>1, <2>3 DEF Placed, PoolApart
<1>6. CASE PoolFails(b)
  <2>1. /\ Places'[7] = Places[7] \cup Elements(b)
        /\ \A m \in 1 .. 7 : m \notin {4, 7} => Places'[m] = Places[m]
        BY <1>1, <1>2, <1>6, PlacesAre, PlacesWillBe, OneOfSeven DEF PoolFails
  <2>2. Transfer(Places, Places', 4, 7, Elements(b))
        BY <1>4, <2>1 DEF Transfer
  <2>3. Parts(Places', Begun')
        BY <1>2, <2>2, Moved DEF Placed
  <2> QED BY <1>1, <2>3 DEF Placed, PoolApart
<1> QED BY <1>5, <1>6

LEMMA PlacedStep == IInv /\ [Next]_vars => Placed'
<1> SUFFICES ASSUME TypeOK, Placed, [Next]_vars PROVE Placed'
    BY DEF IInv
<1>1. CASE UNCHANGED vars
      BY <1>1, SamePlaces DEF vars, bufferVars, broadcasterVars
<1>2. ASSUME NEW p \in Pushers, PushFull(p) PROVE Placed'
  <2>1. \A q \in Pushers : pushing'[q] # "idle" <=> pushing[q] # "idle"
        BY <1>2 DEF PushFull, TypeOK
  <2> QED BY <1>2, <2>1, SamePlaces DEF PushFull, broadcasterVars
<1>3. CASE CloseBatch
      BY <1>3, SamePlaces DEF CloseBatch, bufferVars
<1> QED BY <1>1, <1>2, <1>3, BeginStep, PushStep, EvictStep, CollectStep, BatchStep, PoolStep
        DEF Next, Push, Broadcast, Pool, Done

LEMMA Inductive == Spec => []IInv
<1>1. IInv /\ [Next]_vars => IInv'
      BY TypeStep, RoomStep, PlacedStep DEF IInv
<1> QED BY Initially, <1>1, PTL DEF Spec

\* Every variable of buffer and broadcaster keeps its type: the queue never
\* exceeds its capacity, nor the batch its size.
THEOREM TypeCorrect == Spec => []TypeOK
BY Inductive, PTL DEF IInv

\* Every recorded event is in exactly one place, however many pushers and the
\* broadcaster interleave (ring_buffer.rs:38-50, broadcaster.rs:54-61).
THEOREM NothingVanishes == Spec => []Conservation
<1>1. IInv => Conservation
  <2> SUFFICES ASSUME TypeOK, Placed PROVE Conservation
      BY DEF IInv
  <2>1. DOMAIN Places = 1 .. 7
        BY DEF Places
  <2>2. UNION Elements(Places) = Begun /\ \A i, j \in DOMAIN Places : i # j => Places[i] \cap Places[j] = {}
        BY <2>1 DEF Elements, Placed, Parts
  <2>3. Cardinality(Elements(queue)) = Len(queue) /\ Cardinality(Elements(batch)) = Len(batch)
        BY DistinctLen DEF TypeOK, Placed
  <2>4. Conservation <=>
            /\ UNION Elements(Places) = Begun
            /\ \A i, j \in DOMAIN Places : i # j => Places[i] \cap Places[j] = {}
            /\ Cardinality(Elements(queue)) = Len(queue)
            /\ Cardinality(Elements(batch)) = Len(batch)
        BY Zenon DEF Conservation, Places
  <2> QED BY <2>2, <2>3, <2>4
<1> QED BY Inductive, <1>1, PTL

-----------------------------------------------------------------------------
(* Order.  A second invariant, inductive together with the first.          *)

Before(d, e) == d[1] = e[1] => d[2] < e[2]
Ascending(s) == \A i, j \in DOMAIN s : i < j => Before(s[i], s[j])
At(s, e) == {i \in DOMAIN s : s[i] = e}

Handled == InPool \cup acked \cup lost
Waiting == {p \in Pushers : pushing[p] = "push"}

\* Queue and batch keep each thread's order, what is handled comes before the
\* batch, and whatever left the queue before what is in it.
OrderInv ==
    /\ Ascending(queue)
    /\ \A q \in Elements(queue) : \A e \in Elements(batch) \cup dropped \cup Handled : Before(e, q)
    /\ Ascending(batch)
    /\ \A b \in Elements(batch) : \A e \in Handled : Before(e, b)

\* The sink has nothing the broadcaster did not take, and of a batch it has
\* in part an event only after the ones before it.
SinkInv ==
    /\ pool # {} => sink = "LocalFile"
    /\ Elements(received) \subseteq Elements(batch) \cup acked \cup lost
    /\ sink = "LocalFile" => Elements(received) \subseteq acked \cup lost
    /\ sink # "LocalFile" => \A i \in DOMAIN received, m \in DOMAIN batch : received[i] = batch[m] =>
            \A l \in 1 .. m - 1 : \E k \in 1 .. i - 1 : received[k] = batch[l]
    /\ SinkOrder

\* An event of the batch was received at most once per attempt.
CountInv ==
    /\ acked \subseteq Elements(received)
    /\ \A e \in Events : IsFiniteSet(At(received, e)) /\ Cardinality(At(received, e)) <= MaxRetries + 1
    /\ \A e \in Elements(batch) : Cardinality(At(received, e)) <= retries
    /\ \A b \in pool : Distinct(b)

\* Before the broadcaster takes anything, free places are at most as many as
\* pushers about to fill them, once there was an overflow.
OverflowInv ==
    /\ IsFiniteSet(Waiting)
    /\ batch = <<>> /\ Handled = {} /\ (dropped # {} \/ \E p \in Pushers : pushing[p] = "evict")
       => Len(queue) + Cardinality(Waiting) >= Capacity

DeliveryInv == OrderInv /\ SinkInv /\ CountInv /\ OverflowInv

LEMMA Apart ==
    ASSUME Placed
    PROVE  /\ \A e \in Elements(queue) \cup Elements(batch) \cup dropped \cup Handled : e \in Begun /\ e \notin InHand
           /\ \A e \in Elements(queue) : e \notin Elements(batch) \cup dropped \cup Handled
           /\ \A e \in Elements(batch) : e \notin dropped \cup Handled
           /\ \A e \in InPool : e \notin acked \cup lost
BY PlacesAre DEF Placed, Parts, Handled

LEMMA EventPair ==
    ASSUME NEW e \in Events PROVE e[1] \in Pushers /\ e[2] \in Int
BY MaxEventsAssumption DEF Events

\* Batch and handled events change together: nothing, one more in the batch,
\* or the whole batch handled.
LEMMA HandledStep ==
    ASSUME [Next]_vars
    PROVE  \/ Collect /\ Handled' = Handled
           \/ Handled' = Handled /\ batch' = batch /\ ~Collect
           \/ /\ Handled' = Handled \cup Elements(batch) /\ batch' = <<>>
              /\ UNCHANGED <<begun, pushing, queue, dropped>>
<1> USE DEF Handled, bufferVars, broadcasterVars
<1>1. CASE pool' = pool /\ acked' = acked /\ lost' = lost /\ batch' = batch
    BY <1>1 DEF InPool, Collect
<1>2. CASE Collect
    BY <1>2 DEF Collect, InPool
<1>3. CASE Deliver \/ WriteFile \/ FileFails \/ PostFails
  <2>1. pool' = pool \cup {batch} => InPool' = InPool \cup Elements(batch)
        BY DEF InPool
  <2>2. pool' = pool => InPool' = InPool
        BY DEF InPool
  <2>3. CASE PostFails
        BY <1>1, <2>2, <2>3 DEF PostFails, NextBatch
  <2> QED BY <1>3, <2>1, <2>2, <2>3 DEF Deliver, WriteFile, FileFails, NextBatch
<1>4. ASSUME NEW b \in pool, PoolWrites(b) \/ PoolFails(b) PROVE Handled' = Handled /\ batch' = batch
  <2>1. InPool' \cup Elements(b) = InPool
        BY <1>4 DEF PoolWrites, PoolFails, InPool
  <2> QED BY <1>4, <2>1 DEF PoolWrites, PoolFails
<1>5. ASSUME NEW b \in pool, PoolWrites(b) \/ PoolFails(b) PROVE ~Collect
      BY <1>5 DEF PoolWrites, PoolFails, Collect
<1> QED BY <1>1, <1>2, <1>3, <1>4, <1>5 DEF Next, vars, Push, BeginPush, PushOk, PushFull, Evict, Broadcast,
           CloseBatch, Pool, Done

LEMMA AscendingAppend ==
    ASSUME NEW S, NEW s \in Seq(S), NEW e \in S, Ascending(s), \A d \in Elements(s) : Before(d, e)
    PROVE  Ascending(Append(s, e))
<1>1. /\ Len(s) \in Nat /\ DOMAIN s = 1 .. Len(s) /\ DOMAIN Append(s, e) = 1 .. Len(s) + 1
      /\ Append(s, e)[Len(s) + 1] = e
      /\ \A i \in 1 .. Len(s) : Append(s, e)[i] = s[i]
      OBVIOUS
<1>2. \A i \in 1 .. Len(s) : Before(s[i], e)
      BY <1>1 DEF Elements
<1> SUFFICES ASSUME NEW i \in 1 .. Len(s) + 1, NEW j \in 1 .. Len(s) + 1, i < j
             PROVE  Before(Append(s, e)[i], Append(s, e)[j])
    BY <1>1 DEF Ascending
<1>3. CASE j = Len(s) + 1
      BY <1>1, <1>2, <1>3
<1>4. CASE j # Len(s) + 1
      BY <1>1, <1>4 DEF Ascending
<1> QED BY <1>3, <1>4

LEMMA AscendingTail ==
    ASSUME NEW S, NEW s \in Seq(S), s # <<>>, Ascending(s)
    PROVE  /\ Head(s) \in Elements(s)
           /\ Elements(Tail(s)) \subseteq Elements(s)
           /\ \A e \in Elements(Tail(s)) : Before(Head(s), e)
           /\ Ascending(Tail(s))
<1>1. /\ Len(s) \in Nat \ {0} /\ DOMAIN s = 1 .. Len(s) /\ DOMAIN Tail(s) = 1 .. Len(s) - 1
      /\ Head(s) = s[1]
      /\ \A i \in 1 .. Len(s) - 1 : Tail(s)[i] = s[i + 1]
      OBVIOUS
<1>2. 1 \in DOMAIN s /\ \A i \in 1 .. Len(s) - 1 : i + 1 \in DOMAIN s /\ 1 < i + 1
      BY <1>1
<1>3. ASSUME NEW e \in Elements(Tail(s)) PROVE e \in Elements(s) /\ Before(Head(s), e)
  <2>1. PICK i \in 1 .. Len(s) - 1 : e = s[i + 1]
        BY <1>1 DEF Elements
  <2> QED BY <1>1, <1>2, <2>1 DEF Ascending, Elements
<1>4. ASSUME NEW i \in 1 .. Len(s) - 1, NEW j \in 1 .. Len(s) - 1, i < j
      PROVE  Before(Tail(s)[i], Tail(s)[j])
  <2>1. i + 1 < j + 1
        BY <1>4
  <2>2. Before(s[i + 1], s[j + 1])
        BY <1>2, <2>1 DEF Ascending
  <2> QED BY <1>1, <2>2
<1> QED BY <1>1, <1>2, <1>3, <1>4 DEF Ascending, Elements

LEMMA OrderStep == IInv /\ DeliveryInv /\ [Next]_vars => OrderInv'
<1> SUFFICES ASSUME TypeOK, Placed, OrderInv, [Next]_vars PROVE OrderInv'
    BY DEF IInv, DeliveryInv
<1> DEFINE Gone == Elements(batch) \cup dropped \cup Handled
<1>a. /\ queue \in Seq(Events) /\ batch \in Seq(Events)
      /\ DOMAIN queue = 1 .. Len(queue) /\ Len(queue) \in Nat
      /\ DOMAIN batch = 1 .. Len(batch) /\ Len(batch) \in Nat
      BY DEF TypeOK
<1>1. ASSUME queue' = queue, Gone' \subseteq Gone,
             batch' = <<>> \/ (batch' = batch /\ Handled' \subseteq Handled)
      PROVE  OrderInv'
  <2>1. Ascending(<<>>) /\ Elements(<<>>) = {}
        BY ElementsEmpty DEF Ascending
  <2> QED BY <1>1, <2>1 DEF OrderInv
<1>2. ASSUME NEW p \in Pushers, PushOk(p) PROVE OrderInv'
  <2> DEFINE e == <<p, begun[p]>>
  <2>1. queue' = Append(queue, e) /\ batch' = batch /\ Handled' = Handled /\ dropped' = dropped
        BY <1>2 DEF PushOk, broadcasterVars, Handled, InPool
  <2>2. e \in InHand /\ e \in Events
        BY <1>2, EventOf DEF PushOk
  <2>3. ASSUME NEW d \in Elements(queue) \cup Gone PROVE Before(d, e)
    <3>1. d \in Begun /\ d # e
          BY <2>2, Apart
    <3>2. d \in Events /\ d[2] <= begun[d[1]] /\ d = <<d[1], d[2]>>
          BY <3>1 DEF Begun, Events
    <3> QED BY <3>1, <3>2, <2>2, EventPair DEF Before
  <2> HIDE DEF e
  <2>4. Elements(queue') = Elements(queue) \cup {e}
        BY <1>a, <2>1, <2>2, ElementsAppend
  <2>5. Ascending(queue')
        BY <1>a, <2>1, <2>2, <2>3, AscendingAppend DEF OrderInv
  <2> QED BY <2>1, <2>3, <2>4, <2>5 DEF OrderInv
<1>3. ASSUME queue # <<>>, queue' = Tail(queue)
      PROVE  /\ Head(queue) \in Elements(queue)
             /\ Elements(queue') \subseteq Elements(queue)
             /\ \A q \in Elements(queue') : Before(Head(queue), q)
             /\ Ascending(queue')
      BY <1>3, <1>a, AscendingTail DEF OrderInv
<1>4. ASSUME NEW p \in Pushers, Evict(p) PROVE OrderInv'
  <2>1. batch' = batch /\ Handled' = Handled
        BY <1>4 DEF Evict, broadcasterVars, Handled, InPool
  <2>2. CASE queue = <<>>
        BY <1>1, <1>4, <2>1, <2>2 DEF Evict
  <2>3. CASE queue # <<>>
    <3>1. queue' = Tail(queue) /\ dropped' = dropped \cup {Head(queue)}
          BY <1>4, <2>3 DEF Evict
    <3> QED BY <1>3, <2>1, <2>3, <3>1 DEF OrderInv
  <2> QED BY <2>2, <2>3
<1>5. CASE Collect
  <2> DEFINE e == Head(queue)
  <2>1. /\ queue # <<>> /\ queue' = Tail(queue) /\ batch' = Append(batch, e)
        /\ Handled' = Handled /\ dropped' = dropped
        BY <1>5 DEF Collect, Handled, InPool
  <2>2. e \in Elements(queue) /\ e \in Events
        BY <1>3, <1>a, <2>1
  <2>3. \A d \in Gone : Before(d, e)
        BY <2>2 DEF OrderInv
  <2> HIDE DEF e
  <2>4. Elements(batch') = Elements(batch) \cup {e}
        BY <1>a, <2>1, <2>2, ElementsAppend
  <2>5. Ascending(batch')
        BY <1>a, <2>1, <2>2, <2>3, AscendingAppend DEF OrderInv
  <2>6. \A q \in Elements(queue') : Before(e, q) /\ q \in Elements(queue)
        BY <1>3, <2>1 DEF e
  <2>7. Ascending(queue')
        BY <1>3, <2>1
  <2> QED BY <2>1, <2>3, <2>4, <2>5, <2>6, <2>7 DEF OrderInv
<1>6. ASSUME UNCHANGED <<queue, dropped>>, ~Collect PROVE OrderInv'
      BY <1>1, <1>6, HandledStep, ElementsEmpty
<1> QED BY <1>2, <1>4, <1>5, <1>6 DEF Next, vars, bufferVars, broadcasterVars, Push, BeginPush, PushFull, Broadcast, CloseBatch,
           Deliver, WriteFile, FileFails, PostFails, Pool, PoolWrites, PoolFails, Done

\* c is r followed by b
Joined(r, b, c) ==
    /\ Len(r) \in Nat /\ Len(b) \in Nat
    /\ DOMAIN r = 1 .. Len(r) /\ DOMAIN b = 1 .. Len(b)
    /\ DOMAIN c = 1 .. Len(r) + Len(b)
    /\ \A i \in 1 .. Len(r) : c[i] = r[i]
    /\ \A i \in 1 .. Len(b) : c[Len(r) + i] = b[i]
    /\ \A i \in DOMAIN c : i \in 1 .. Len(r) \/ \E j \in 1 .. Len(b) : i = Len(r) + j

LEMMA ConcatIs ==
    ASSUME NEW S, NEW r \in Seq(S), NEW b \in Seq(S) PROVE Joined(r, b, r \o b)
<1>1. /\ Len(r) \in Nat /\ Len(b) \in Nat
      /\ DOMAIN r = 1 .. Len(r) /\ DOMAIN b = 1 .. Len(b)
      /\ DOMAIN (r \o b) = 1 .. Len(r) + Len(b)
      OBVIOUS
<1>2. /\ \A i \in 1 .. Len(r) : (r \o b)[i] = r[i]
      /\ \A i \in 1 .. Len(b) : (r \o b)[Len(r) + i] = b[i]
      OBVIOUS
<1>3. ASSUME NEW i \in 1 .. Len(r) + Len(b), i \notin 1 .. Len(r) PROVE \E j \in 1 .. Len(b) : i = Len(r) + j
  <2>1. i - Len(r) \in 1 .. Len(b) /\ i = Len(r) + (i - Len(r))
        BY <1>1, <1>3
  <2> QED BY <2>1
<1> QED BY <1>1, <1>2, <1>3 DEF Joined

LEMMA ElementsConcat ==
    ASSUME NEW S, NEW r \in Seq(S), NEW b \in Seq(S)
    PROVE  Elements(r \o b) = Elements(r) \cup Elements(b)
<1> DEFINE c == r \o b
<1>1. Joined(r, b, c)
      BY ConcatIs
<1> HIDE DEF c
<1> USE DEF Joined
<1>2. ASSUME NEW i \in DOMAIN c PROVE c[i] \in Elements(r) \cup Elements(b)
      BY <1>1 DEF Elements
<1>3. ASSUME NEW i \in 1 .. Len(r) PROVE r[i] \in Elements(c)
      BY <1>1 DEF Elements
<1>4. ASSUME NEW i \in 1 .. Len(b) PROVE b[i] \in Elements(c)
  <2>1. Len(r) + i \in DOMAIN c
        BY <1>1
  <2> QED BY <1>1, <2>1 DEF Elements
<1> USE DEF Elements
<1>5. /\ Elements(c) = {c[i] : i \in DOMAIN c}
      /\ Elements(r) = {r[i] : i \in 1 .. Len(r)} /\ Elements(b) = {b[i] : i \in 1 .. Len(b)}
      BY <1>1
<1> HIDE DEF Elements, Joined
<1>6. Elements(c) \subseteq Elements(r) \cup Elements(b)
  <2> SUFFICES ASSUME NEW x \in Elements(c) PROVE x \in Elements(r) \cup Elements(b)
      OBVIOUS
  <2>1. PICK i \in DOMAIN c : x = c[i]
        BY <1>5
  <2> QED BY <1>2, <2>1
<1>7. Elements(r) \cup Elements(b) \subseteq Elements(c)
      BY <1>3, <1>4, <1>5
<1>8. Elements(c) = Elements(r) \cup Elements(b)
      BY <1>6, <1>7
<1> QED BY <1>8 DEF c

\* A sequence without repetition adds at most one occurrence of an event.
LEMMA OneMore ==
    ASSUME NEW S, NEW r \in Seq(S), NEW b \in Seq(S), Distinct(b), NEW e, IsFiniteSet(At(r, e))
    PROVE  /\ IsFiniteSet(At(r \o b, e))
           /\ Cardinality(At(r, e)) \in Nat
           /\ Cardinality(At(r \o b, e)) \in Nat
           /\ Cardinality(At(r \o b, e)) <= Cardinality(At(r, e)) + 1
           /\ e \notin Elements(b) => Cardinality(At(r \o b, e)) = Cardinality(At(r, e))
<1> DEFINE c == r \o b
<1>1. Joined(r, b, c)
      BY ConcatIs
<1> HIDE DEF c
<1> USE DEF Joined
<1>2. Cardinality(At(r, e)) \in Nat
      BY FS_CardinalityType
<1>3. CASE e \notin Elements(b)
  <2>1. At(c, e) = At(r, e)
        BY <1>1, <1>3 DEF At, Elements
  <2> QED BY <1>2, <2>1 DEF c
<1>4. CASE e \in Elements(b)
  <2>1. PICK j \in 1 .. Len(b) : e = b[j]
        BY <1>1, <1>4 DEF Elements
  <2>2. \A i \in 1 .. Len(b) : b[i] = e <=> i = j
        BY <1>1, <2>1 DEF Distinct
  <2>3. Len(r) + j \in DOMAIN c /\ Len(r) + j \notin At(r, e)
        BY <1>1 DEF At
  <2>4. At(c, e) = At(r, e) \cup {Len(r) + j}
    <3>1. ASSUME NEW i \in DOMAIN c PROVE c[i] = e <=> i \in At(r, e) \/ i = Len(r) + j
      <4>1. CASE i \in 1 .. Len(r)
            BY <1>1, <4>1 DEF At
      <4>2. ASSUME NEW k \in 1 .. Len(b), i = Len(r) + k PROVE c[i] = e <=> i \in At(r, e) \/ i = Len(r) + j
        <5>1. i \notin 1 .. Len(r) /\ (i = Len(r) + j <=> k = j)
          <6>1. k \in Nat \ {0} /\ j \in Nat /\ Len(r) \in Nat
                BY <1>1
          <6> QED BY <4>2, <6>1
        <5> QED BY <1>1, <2>2, <4>2, <5>1 DEF At
      <4> QED BY <1>1, <4>1, <4>2
    <3>2. At(r, e) \subseteq DOMAIN c
          BY <1>1 DEF At
    <3> QED BY <2>3, <3>1, <3>2 DEF At
  <2>5. Cardinality(At(c, e)) = Cardinality(At(r, e)) + 1 /\ IsFiniteSet(At(c, e))
        BY <2>3, <2>4, FS_AddElement
  <2> QED BY <1>2, <1>4, <2>5 DEF c
<1> QED BY <1>3, <1>4

\* What happens when the whole batch reaches the sink.
LEMMA BatchSent ==
    ASSUME TypeOK, Placed, OrderInv, SinkInv, sink # "LocalFile", sink' = sink, received' = received \o batch
    PROVE  /\ SinkOrder'
           /\ \A i \in DOMAIN received', m \in DOMAIN batch : received'[i] = batch[m] =>
                \A l \in 1 .. m - 1 : \E k \in 1 .. i - 1 : received'[k] = batch[l]
<1>1. Joined(received, batch, received')
      BY ConcatIs DEF TypeOK
<1> DEFINE n == Len(received)
<1>2. /\ \A i \in 1 .. n : received[i] \in Events /\ received[i] \in Elements(batch) \cup acked \cup lost
      /\ \A m \in 1 .. Len(batch) : batch[m] \in Events /\ batch[m] \in Elements(batch)
  <2>1. DOMAIN received = 1 .. n /\ DOMAIN batch = 1 .. Len(batch)
        BY <1>1 DEF Joined
  <2>2. \A i \in 1 .. n : received[i] \in Elements(received)
        BY <2>1 DEF Elements
  <2>3. \A m \in 1 .. Len(batch) : batch[m] \in Elements(batch)
        BY <2>1 DEF Elements
  <2>4. Elements(received) \subseteq Events /\ Elements(batch) \subseteq Events
        BY ElementsTyped DEF TypeOK
  <2> QED BY <2>2, <2>3, <2>4 DEF SinkInv
<1>3. \A e \in Events : e[2] \in Int
      BY EventPair
<1>4. \A l, m \in 1 .. Len(batch) : batch[l][1] = batch[m][1] => (batch[l][2] > batch[m][2] => l > m)
  <2> SUFFICES ASSUME NEW l \in 1 .. Len(batch), NEW m \in 1 .. Len(batch),
                      batch[l][1] = batch[m][1], batch[l][2] > batch[m][2], ~(l > m)
               PROVE  FALSE
      OBVIOUS
  <2>1. l # m
        BY <1>2, <1>3
  <2>2. l < m
        BY <1>1, <2>1 DEF Joined
  <2>3. batch[l][2] < batch[m][2]
        BY <1>1, <2>2 DEF OrderInv, Ascending, Before, Joined
  <2> QED BY <1>2, <1>3, <2>3
<1>5. ASSUME NEW i \in DOMAIN received', NEW j \in DOMAIN received', i < j,
             received'[i][1] = received'[j][1], received'[i][2] > received'[j][2]
      PROVE  \E k \in 1 .. i - 1 : received'[k] = received'[j]
  <2>1. CASE j \in 1 .. n
    <3>1. i \in 1 .. n /\ received'[i] = received[i] /\ received'[j] = received[j]
          BY <1>1, <1>5, <2>1 DEF Joined
    <3>2. PICK k \in 1 .. i - 1 : received[k] = received[j]
          BY <1>1, <1>5, <2>1, <3>1 DEF SinkInv, SinkOrder, Joined
    <3>3. k \in 1 .. n
          BY <1>1, <3>1, <3>2 DEF Joined
    <3> QED BY <1>1, <3>1, <3>2, <3>3 DEF Joined
  <2>2. ASSUME NEW m \in 1 .. Len(batch), j = n + m, i \in 1 .. n
        PROVE  \E k \in 1 .. i - 1 : received'[k] = received'[j]
    <3>1. received'[i] = received[i] /\ received'[j] = batch[m]
          BY <1>1, <2>2 DEF Joined
    <3>2. received[i] \notin Handled
      <4>1. ~Before(received[i], batch[m])
            BY <1>2, <1>3, <1>5, <2>2, <3>1 DEF Before
      <4> QED BY <1>2, <4>1 DEF OrderInv
    <3>3. PICK l \in 1 .. Len(batch) : received[i] = batch[l]
          BY <1>1, <1>2, <2>2, <3>2 DEF Handled, Elements, Joined
    <3>4. m \in 1 .. l - 1
          BY <1>1, <1>4, <1>5, <3>1, <3>3 DEF Joined
    <3>5. PICK k \in 1 .. i - 1 : received[k] = batch[m]
          BY <1>1, <2>2, <3>3, <3>4 DEF SinkInv, Joined
    <3>6. k \in 1 .. n
          BY <1>1, <2>2, <3>5 DEF Joined
    <3> QED BY <1>1, <3>1, <3>5, <3>6 DEF Joined
  <2>3. ASSUME NEW m \in 1 .. Len(batch), NEW l \in 1 .. Len(batch), j = n + m, i = n + l PROVE FALSE
    <3>1. received'[i] = batch[l] /\ received'[j] = batch[m]
          BY <1>1, <2>3 DEF Joined
    <3>2. l > m
          BY <1>4, <1>5, <3>1
    <3>3. n \in Nat /\ l \in Nat /\ m \in Nat
          BY <1>1 DEF Joined
    <3> QED BY <1>5, <2>3, <3>2, <3>3
  <2> QED BY <1>1, <2>1, <2>2, <2>3 DEF Joined
<1>6. ASSUME NEW i \in DOMAIN received', NEW m \in DOMAIN batch, received'[i] = batch[m], NEW l \in 1 .. m - 1
      PROVE  \E k \in 1 .. i - 1 : received'[k] = batch[l]
  <2>1. CASE i \in 1 .. n
    <3>1. PICK k \in 1 .. i - 1 : received[k] = batch[l]
          BY <1>1, <1>6, <2>1 DEF SinkInv, Joined
    <3>2. k \in 1 .. n
          BY <1>1, <2>1, <3>1 DEF Joined
    <3> QED BY <1>1, <3>1, <3>2 DEF Joined
  <2>2. ASSUME NEW h \in 1 .. Len(batch), i = n + h PROVE \E k \in 1 .. i - 1 : received'[k] = batch[l]
    <3>1. h = m
          BY <1>1, <1>6, <2>2 DEF Placed, Distinct, Joined
    <3>2. l \in 1 .. Len(batch) /\ n + l \in 1 .. i - 1
          BY <1>1, <1>6, <2>2, <3>1 DEF Joined
    <3> QED BY <1>1, <3>2 DEF Joined
  <2> QED BY <1>1, <2>1, <2>2 DEF Joined
<1> QED BY <1>5, <1>6 DEF SinkOrder

LEMMA SinkOrderStep == IInv /\ DeliveryInv /\ [Next]_vars => SinkInv'
<1> SUFFICES ASSUME TypeOK, Placed, OrderInv, SinkInv, [Next]_vars PROVE SinkInv'
    BY DEF IInv, DeliveryInv
<1>a. received \in Seq(Events) /\ batch \in Seq(Events) /\ queue \in Seq(Events) /\ \A b \in pool : b \in Seq(Events)
      BY DEF TypeOK
<1>e. DOMAIN <<>> = {} /\ Elements(<<>>) = {}
      BY ElementsEmpty
<1>1. ASSUME received' = received, sink' = sink, pool' # {} => sink = "LocalFile",
             batch' \in {batch, <<>>},
             Elements(batch) \cup acked \cup lost \subseteq Elements(batch') \cup acked' \cup lost',
             acked \cup lost \subseteq acked' \cup lost'
      PROVE  SinkInv'
      BY <1>1, <1>e DEF SinkInv, SinkOrder
<1>2. CASE Collect
  <2> DEFINE e == Head(queue)
  <2>1. /\ queue # <<>> /\ batch' = Append(batch, e)
        /\ UNCHANGED <<received, sink, pool, acked, lost>>
        BY <1>2 DEF Collect
  <2>2. e \in Elements(queue) /\ e \in Events
        BY <1>a, <2>1, AscendingTail DEF OrderInv
  <2>3. e \notin Elements(received)
        BY <2>2, Apart DEF SinkInv, Handled
  <2> HIDE DEF e
  <2>4. Elements(batch') = Elements(batch) \cup {e}
        BY <1>a, <2>1, <2>2, ElementsAppend
  <2>5. /\ DOMAIN batch = 1 .. Len(batch) /\ DOMAIN batch' = 1 .. Len(batch) + 1 /\ Len(batch) \in Nat
        /\ batch'[Len(batch) + 1] = e /\ \A m \in 1 .. Len(batch) : batch'[m] = batch[m]
        BY <1>a, <2>1, <2>2
  <2>6. ASSUME sink # "LocalFile", NEW i \in DOMAIN received, NEW m \in DOMAIN batch', received[i] = batch'[m],
               NEW l \in 1 .. m - 1
        PROVE  \E k \in 1 .. i - 1 : received[k] = batch'[l]
    <3>1. m # Len(batch) + 1
          BY <2>3, <2>5, <2>6 DEF Elements
    <3>2. m \in DOMAIN batch /\ l \in 1 .. Len(batch)
          BY <2>5, <2>6, <3>1
    <3> QED BY <2>5, <2>6, <3>2 DEF SinkInv
  <2> QED BY <2>1, <2>4, <2>6 DEF SinkInv, SinkOrder
<1>3. ASSUME sink # "LocalFile", sink' = sink, pool' = pool, received' = received \o batch,
             batch' \in {batch, <<>>},
             Elements(batch) \cup acked \cup lost \subseteq Elements(batch') \cup acked' \cup lost'
      PROVE  SinkInv'
  <2>1. Elements(received') = Elements(received) \cup Elements(batch)
        BY <1>3, <1>a, ElementsConcat
  <2>2. /\ pool' # {} => sink' = "LocalFile"
        /\ Elements(received') \subseteq Elements(batch') \cup acked' \cup lost'
        BY <1>3, <2>1 DEF SinkInv
  <2>3. /\ SinkOrder'
        /\ \A i \in DOMAIN received', m \in DOMAIN batch : received'[i] = batch[m] =>
                \A l \in 1 .. m - 1 : \E k \in 1 .. i - 1 : received'[k] = batch[l]
        BY <1>3, BatchSent
  <2>4. CASE batch' = batch
    <3>1. \A i \in DOMAIN received', m \in DOMAIN batch' : received'[i] = batch'[m] =>
                \A l \in 1 .. m - 1 : \E k \in 1 .. i - 1 : received'[k] = batch'[l]
          BY <2>3, <2>4, Zenon
    <3>2. sink' # "LocalFile"
          BY <1>3
    <3> QED BY <2>2, <2>3, <3>1, <3>2, Zenon DEF SinkInv
  <2>5. CASE batch' = <<>>
        BY <1>3, <1>e, <2>2, <2>3, <2>5 DEF SinkInv
  <2> QED BY <1>3, <2>4, <2>5
<1>4. CASE Deliver
      BY <1>3, <1>4 DEF Deliver, NextBatch
<1>5. CASE PostFails
  <2>1. /\ sink = "SaaS" /\ sink' = sink /\ pool' = pool /\ batch' \in {batch, <<>>}
        /\ Elements(batch) \cup acked \cup lost \subseteq Elements(batch') \cup acked' \cup lost'
        /\ acked \cup lost \subseteq acked' \cup lost'
        BY <1>5 DEF PostFails, NextBatch
  <2>2. received' = received \/ received' = received \o batch
        BY <1>5 DEF PostFails
  <2>3. pool' # {} => sink = "LocalFile"
        BY <2>1 DEF SinkInv
  <2> QED BY <1>1, <1>3, <2>1, <2>2, <2>3
<1>6. CASE FileFails
      BY <1>1, <1>6 DEF FileFails, NextBatch, SinkInv
<1>7. CASE WriteFile
  <2>1. sink = "LocalFile" /\ batch' = <<>> /\ UNCHANGED <<received, acked, lost, sink>>
        BY <1>7 DEF WriteFile, NextBatch
  <2> QED BY <2>1, <1>e DEF SinkInv, SinkOrder
<1>8. ASSUME NEW b \in pool, PoolWrites(b) PROVE SinkInv'
  <2>1. /\ sink = "LocalFile" /\ sink' = sink /\ batch' = batch /\ lost' = lost
        /\ received' = received \o b /\ acked' = acked \cup Elements(b)
        BY <1>8 DEF PoolWrites, SinkInv
  <2>2. Elements(received') = Elements(received) \cup Elements(b)
        BY <1>a, <2>1, ElementsConcat
  <2> QED BY <2>1, <2>2 DEF SinkInv, SinkOrder
<1>9. ASSUME NEW b \in pool, PoolFails(b) PROVE SinkInv'
      BY <1>1, <1>9 DEF PoolFails, SinkInv
<1>10. ASSUME UNCHANGED <<received, sink, pool, batch, acked, lost>> PROVE SinkInv'
      BY <1>1, <1>10 DEF SinkInv
<1> QED BY <1>2, <1>4, <1>5, <1>6, <1>7, <1>8, <1>9, <1>10 DEF Next, vars, bufferVars, broadcasterVars, Push, BeginPush, PushOk,
           PushFull, Evict, Broadcast, CloseBatch, Pool, Done

LEMMA CountStep == IInv /\ DeliveryInv /\ [Next]_vars => CountInv'
<1> SUFFICES ASSUME TypeOK, Placed, SinkInv, CountInv, [Next]_vars PROVE CountInv'
    BY DEF IInv, DeliveryInv
<1>a. /\ received \in Seq(Events) /\ batch \in Seq(Events) /\ queue \in Seq(Events)
      /\ \A b \in pool : b \in Seq(Events)
      /\ retries \in Nat /\ retries <= MaxRetries
      BY MaxRetriesAssumption DEF TypeOK
<1>b. Elements(batch) \subseteq Events
      BY <1>a, ElementsTyped
<1>e. Elements(<<>>) = {}
      BY ElementsEmpty
<1>1. ASSUME UNCHANGED <<received, acked, retries>>, Elements(batch') \subseteq Elements(batch),
             \A b \in pool' : Distinct(b)
      PROVE  CountInv'
      BY <1>1 DEF CountInv, At
<1>2. ASSUME UNCHANGED <<received, acked>>, batch' = <<>>, \A b \in pool' : Distinct(b)
      PROVE  CountInv'
      BY <1>2, <1>e DEF CountInv, At
<1>3. CASE Collect
  <2> DEFINE e == Head(queue)
  <2>1. /\ queue # <<>> /\ batch' = Append(batch, e)
        /\ UNCHANGED <<received, retries, pool, acked>>
        BY <1>3 DEF Collect
  <2>2. e \in Elements(queue) /\ e \in Events
        BY <1>a, <2>1, ElementsTail DEF Placed
  <2>3. e \notin Elements(received)
        BY <2>2, Apart DEF SinkInv, Handled
  <2> HIDE DEF e
  <2>4. Cardinality(At(received, e)) <= retries
    <3>1. At(received, e) = {}
          BY <2>3 DEF At, Elements
    <3>2. Cardinality(At(received, e)) = 0
          BY <3>1, FS_EmptySet
    <3> QED BY <1>a, <3>2
  <2>5. Elements(batch') = Elements(batch) \cup {e}
        BY <1>a, <2>1, <2>2, ElementsAppend
  <2> QED BY <2>1, <2>4, <2>5 DEF CountInv, At
<1>4. ASSUME received' = received \o batch, UNCHANGED pool, acked' \subseteq acked \cup Elements(batch),
             batch' = <<>> \/ (batch' = batch /\ retries' = retries + 1)
      PROVE  CountInv'
  <2>1. Elements(received') = Elements(received) \cup Elements(batch)
        BY <1>4, <1>a, ElementsConcat
  <2>2. ASSUME NEW e \in Events
        PROVE  /\ IsFiniteSet(At(received', e))
               /\ Cardinality(At(received', e)) <= MaxRetries + 1
               /\ e \in Elements(batch) => Cardinality(At(received', e)) <= retries + 1
    <3> DEFINE n == Cardinality(At(received, e))
               m == Cardinality(At(received', e))
    <3>1. /\ IsFiniteSet(At(received', e)) /\ n \in Nat /\ m \in Nat /\ m <= n + 1
          /\ e \notin Elements(batch) => m = n
          BY <1>4, <1>a, OneMore DEF CountInv, Placed
    <3>2. n <= MaxRetries + 1 /\ (e \in Elements(batch) => n <= retries)
          BY DEF CountInv
    <3> HIDE DEF n, m
    <3>3. m <= MaxRetries + 1 /\ (e \in Elements(batch) => m <= retries + 1)
          BY <1>a, <3>1, <3>2, MaxRetriesAssumption
    <3> QED BY <3>1, <3>3 DEF m
  <2>3. acked' \subseteq Elements(received')
        BY <1>4, <2>1 DEF CountInv
  <2>4. \A b \in pool' : Distinct(b)
        BY <1>4 DEF CountInv
  <2>5. \A e \in Elements(batch') : Cardinality(At(received', e)) <= retries'
        BY <1>4, <1>b, <1>e, <2>2
  <2> QED BY <2>2, <2>3, <2>4, <2>5 DEF CountInv
<1>5. CASE Deliver
      BY <1>4, <1>5 DEF Deliver, NextBatch
<1>6. CASE PostFails
  <2>1. /\ pool' = pool /\ acked' = acked /\ received' \in {received, received \o batch}
        /\ batch' = <<>> \/ (batch' = batch /\ retries' = retries + 1)
        BY <1>6 DEF PostFails, NextBatch
  <2>2. CASE received' = received /\ batch' = batch /\ retries' = retries + 1
    <3>1. ASSUME NEW e \in Elements(batch) PROVE Cardinality(At(received, e)) <= retries + 1
      <4>1. IsFiniteSet(At(received, e)) /\ Cardinality(At(received, e)) <= retries
            BY <1>b, <3>1 DEF CountInv
      <4>2. Cardinality(At(received, e)) \in Nat
            BY <4>1, FS_CardinalityType
      <4> QED BY <1>a, <4>1, <4>2
    <3> QED BY <2>1, <2>2, <3>1 DEF CountInv, At
  <2>3. \A b \in pool' : Distinct(b)
        BY <2>1 DEF CountInv
  <2> QED BY <1>2, <1>4, <2>1, <2>2, <2>3
<1>7. CASE WriteFile \/ FileFails
  <2>1. batch' = <<>> /\ UNCHANGED <<received, acked>> /\ pool' \subseteq pool \cup {batch}
        BY <1>7 DEF WriteFile, FileFails, NextBatch
  <2> QED BY <1>2, <2>1 DEF CountInv, Placed
<1>8. ASSUME NEW b \in pool, PoolWrites(b) PROVE CountInv'
  <2>1. /\ batch' = batch /\ retries' = retries /\ pool' \subseteq pool
        /\ received' = received \o b /\ acked' = acked \cup Elements(b)
        BY <1>8 DEF PoolWrites
  <2>2. Elements(received') = Elements(received) \cup Elements(b)
        BY <1>a, <2>1, ElementsConcat
  <2>3. \A e \in Elements(b) : e \notin Elements(received) /\ e \notin Elements(batch)
    <3>1. Elements(b) \subseteq InPool
          BY DEF InPool
    <3>2. Elements(received) \subseteq acked \cup lost
          BY DEF SinkInv
    <3> QED BY <3>1, <3>2, Apart DEF Handled
  <2>4. ASSUME NEW e \in Events
        PROVE  /\ IsFiniteSet(At(received', e))
               /\ Cardinality(At(received', e)) <= MaxRetries + 1
               /\ e \notin Elements(b) => Cardinality(At(received', e)) = Cardinality(At(received, e))
    <3> DEFINE n == Cardinality(At(received, e))
               m == Cardinality(At(received', e))
    <3>1. /\ IsFiniteSet(At(received', e)) /\ n \in Nat /\ m \in Nat /\ m <= n + 1
          /\ e \notin Elements(b) => m = n
          BY <1>a, <2>1, OneMore DEF CountInv
    <3>2. n <= MaxRetries + 1
          BY DEF CountInv
    <3>3. e \in Elements(b) => n = 0
      <4>1. e \in Elements(b) => At(received, e) = {}
            BY <2>3 DEF At, Elements
      <4> QED BY <4>1, FS_EmptySet
    <3> HIDE DEF n, m
    <3>4. m <= MaxRetries + 1
          BY <3>1, <3>2, <3>3, MaxRetriesAssumption
    <3> QED BY <3>1, <3>4 DEF n, m
  <2>5. acked' \subseteq Elements(received')
        BY <2>1, <2>2 DEF CountInv
  <2>6. \A e \in Elements(batch') : Cardinality(At(received', e)) <= retries'
        BY <1>b, <2>1, <2>3, <2>4 DEF CountInv
  <2>7. \A c \in pool' : Distinct(c)
        BY <2>1 DEF CountInv
  <2> QED BY <2>4, <2>5, <2>6, <2>7 DEF CountInv
<1>9. ASSUME NEW b \in pool, PoolFails(b) PROVE CountInv'
      BY <1>1, <1>9 DEF PoolFails, CountInv
<1>10. ASSUME UNCHANGED <<received, acked, retries, batch, pool>> PROVE CountInv'
      BY <1>1, <1>10 DEF CountInv
<1> QED BY <1>3, <1>5, <1>6, <1>7, <1>8, <1>9, <1>10 DEF Next, vars, bufferVars, broadcasterVars, Push, BeginPush, PushOk,
           PushFull, Evict, Broadcast, CloseBatch, Pool, Done

\* A pusher enters or leaves the loop's push.
LEMMA WaitingStep ==
    ASSUME NEW p \in Pushers, NEW v, pushing \in [Pushers -> {"idle", "push", "evict"}],
           pushing' = [pushing EXCEPT ![p] = v], IsFiniteSet(Waiting)
    PROVE  /\ IsFiniteSet(Waiting')
           /\ Cardinality(Waiting) \in Nat /\ Cardinality(Waiting') \in Nat
           /\ pushing[p] # "push" /\ v = "push" => Cardinality(Waiting') = Cardinality(Waiting) + 1
           /\ pushing[p] = "push" /\ v # "push" => Cardinality(Waiting') = Cardinality(Waiting) - 1
<1>1. \A q \in Pushers : pushing'[q] = IF q = p THEN v ELSE pushing[q]
      OBVIOUS
<1>2. Waiting' = IF v = "push" THEN Waiting \cup {p} ELSE Waiting \ {p}
      BY <1>1 DEF Waiting
<1>3. p \in Waiting <=> pushing[p] = "push"
      BY DEF Waiting
<1>4. /\ IsFiniteSet(Waiting \cup {p}) /\ IsFiniteSet(Waiting \ {p})
      /\ p \notin Waiting => Cardinality(Waiting \cup {p}) = Cardinality(Waiting) + 1
      /\ p \in Waiting => Cardinality(Waiting \ {p}) = Cardinality(Waiting) - 1
      BY FS_AddElement, FS_RemoveElement
<1>5. IsFiniteSet(Waiting')
      BY <1>2, <1>4
<1>6. Cardinality(Waiting) \in Nat /\ Cardinality(Waiting') \in Nat
      BY <1>5, FS_CardinalityType
<1> QED BY <1>2, <1>3, <1>4, <1>5, <1>6

LEMMA OverflowStep == IInv /\ DeliveryInv /\ [Next]_vars => OverflowInv'
<1> SUFFICES ASSUME TypeOK, OverflowInv, [Next]_vars PROVE OverflowInv'
    BY DEF IInv, DeliveryInv
<1> DEFINE Overflowed == dropped # {} \/ \E p \in Pushers : pushing[p] = "evict"
           Untouched == batch = <<>> /\ Handled = {}
           Spare == Len(queue) + Cardinality(Waiting) >= Capacity
<1>a. /\ queue \in Seq(Events) /\ batch \in Seq(Events) /\ Len(queue) \in Nat
      /\ pushing \in [Pushers -> {"idle", "push", "evict"}]
      /\ Capacity \in Nat /\ IsFiniteSet(Waiting) /\ Cardinality(Waiting) \in Nat
      BY FS_CardinalityType, CapacityAssumption DEF TypeOK, OverflowInv
<1>b. Untouched /\ Overflowed => Spare
      BY DEF OverflowInv
<1>c. Untouched' => Untouched /\ ~Collect
  <2>1. ASSUME Elements(batch) = {} PROVE batch = <<>>
    <3>1. DOMAIN batch = 1 .. Len(batch) /\ Len(batch) \in Nat
          BY <1>a
    <3>2. 1 \notin 1 .. Len(batch)
          BY <2>1, <3>1 DEF Elements
    <3> QED BY <1>a, <3>1, <3>2
  <2>2. ASSUME Collect PROVE batch' # <<>>
    <3>1. queue # <<>> /\ batch' = Append(batch, Head(queue))
          BY <2>2 DEF Collect
    <3>2. Head(queue) \in Events
          BY <1>a, <3>1
    <3> QED BY <1>a, <3>1, <3>2
  <2> QED BY <2>1, <2>2, HandledStep
<1>1. ASSUME UNCHANGED <<pushing, queue, dropped>> PROVE OverflowInv'
  <2>1. Waiting' = Waiting
        BY <1>1 DEF Waiting
  <2> QED BY <1>1, <1>a, <1>b, <1>c, <2>1 DEF OverflowInv
<1>2. CASE Collect
  <2>1. Waiting' = Waiting
        BY <1>2 DEF Collect, Waiting
  <2> QED BY <1>2, <1>a, <1>c, <2>1 DEF OverflowInv
<1>3. ASSUME NEW p \in Pushers, BeginPush(p) PROVE OverflowInv'
  <2>1. /\ pushing[p] = "idle" /\ pushing' = [pushing EXCEPT ![p] = "push"]
        /\ queue' = queue /\ dropped' = dropped
        BY <1>3 DEF BeginPush
  <2>2. IsFiniteSet(Waiting') /\ Cardinality(Waiting') = Cardinality(Waiting) + 1
        BY <1>a, <2>1, WaitingStep
  <2>3. Overflowed' => Overflowed
        BY <1>a, <2>1
  <2>4. Spare => Spare'
        BY <1>a, <2>1, <2>2
  <2> QED BY <1>b, <1>c, <2>2, <2>3, <2>4 DEF OverflowInv
<1>4. ASSUME NEW p \in Pushers, PushOk(p) PROVE OverflowInv'
  <2>1. /\ pushing[p] = "push" /\ pushing' = [pushing EXCEPT ![p] = "idle"]
        /\ queue' = Append(queue, <<p, begun[p]>>) /\ dropped' = dropped
        BY <1>4 DEF PushOk
  <2>2. IsFiniteSet(Waiting') /\ Cardinality(Waiting') = Cardinality(Waiting) - 1
    <3>1. "idle" # "push"
          OBVIOUS
    <3> QED BY <1>a, <2>1, <3>1, WaitingStep, Zenon
  <2>3. Overflowed' => Overflowed
        BY <1>a, <2>1
  <2>4. Len(queue') = Len(queue) + 1
        BY <1>a, <2>1
  <2>5. Spare => Spare'
        BY <1>a, <2>2, <2>4
  <2> QED BY <1>b, <1>c, <2>2, <2>3, <2>5 DEF OverflowInv
<1>5. ASSUME NEW p \in Pushers, PushFull(p) PROVE OverflowInv'
  <2>1. /\ pushing[p] = "push" /\ pushing' = [pushing EXCEPT ![p] = "evict"]
        /\ queue' = queue /\ Len(queue) = Capacity
        BY <1>5 DEF PushFull
  <2>2. IsFiniteSet(Waiting') /\ Cardinality(Waiting') \in Nat
        BY <1>a, <2>1, WaitingStep
  <2>3. Spare'
        BY <1>a, <2>1, <2>2
  <2> QED BY <2>2, <2>3 DEF OverflowInv
<1>6. ASSUME NEW p \in Pushers, Evict(p) PROVE OverflowInv'
  <2>1. pushing[p] = "evict" /\ pushing' = [pushing EXCEPT ![p] = "push"]
        BY <1>6 DEF Evict
  <2>2. IsFiniteSet(Waiting') /\ Cardinality(Waiting') = Cardinality(Waiting) + 1
        BY <1>a, <2>1, WaitingStep
  <2>3. Len(queue') \in Nat /\ Len(queue') >= Len(queue) - 1
        BY <1>6, <1>a DEF Evict
  <2>4. Spare => Spare'
        BY <1>a, <2>2, <2>3
  <2> QED BY <1>b, <1>c, <2>1, <2>2, <2>4 DEF OverflowInv
<1> QED BY <1>1, <1>2, <1>3, <1>4, <1>5, <1>6 DEF Next, vars, bufferVars, Push, Broadcast, CloseBatch, Deliver, WriteFile,
           FileFails, PostFails, Pool, PoolWrites, PoolFails, Done

LEMMA DeliveryInitially == Init => DeliveryInv
<1> SUFFICES ASSUME Init PROVE DeliveryInv
    OBVIOUS
<1>1. /\ queue = <<>> /\ batch = <<>> /\ received = <<>> /\ pool = {} /\ dropped = {} /\ acked = {} /\ lost = {}
      /\ pushing = [p \in Pushers |-> "idle"]
      BY DEF Init
<1>2. InPool = {} /\ Handled = {} /\ Waiting = {}
      BY <1>1 DEF InPool, Handled, Waiting
<1>3. /\ DOMAIN <<>> = {} /\ Elements(<<>>) = {}
      /\ IsFiniteSet({}) /\ Cardinality({}) = 0
      BY ElementsEmpty, FS_EmptySet
<1>4. OrderInv
      BY <1>1, <1>2, <1>3 DEF OrderInv, Ascending
<1>5. SinkInv
      BY <1>1, <1>3 DEF SinkInv, SinkOrder
<1>6. CountInv
  <2>1. \A e \in Events : At(received, e) = {}
        BY <1>1, <1>3 DEF At
  <2> QED BY <1>1, <1>3, <2>1, MaxRetriesAssumption DEF CountInv
<1>7. OverflowInv
      BY <1>1, <1>2, <1>3 DEF OverflowInv
<1> QED BY <1>4, <1>5, <1>6, <1>7 DEF DeliveryInv

\* What survives an overflow and what the sink sees are the newest events of
\* each thread, in order and within the retry budget, for every number of
\* pushers (ring_buffer.rs:38-50, broadcaster.rs:54-149).
THEOREM Delivered == Spec => []DeliveryOrder
<1>1. IInv /\ DeliveryInv => DeliveryOrder
  <2> SUFFICES ASSUME TypeOK, OrderInv, SinkInv, CountInv, OverflowInv PROVE DeliveryOrder
      BY DEF IInv, DeliveryInv
  <2>1. OldestFirst
    <3> SUFFICES ASSUME NEW d \in dropped, NEW i \in DOMAIN queue, queue[i][1] = d[1] PROVE queue[i][2] > d[2]
        BY DEF OldestFirst
    <3>1. queue[i] \in Elements(queue) /\ queue[i] \in Events /\ d \in Events
          BY ElementsTyped DEF Elements, TypeOK
    <3>2. d[2] < queue[i][2]
          BY <3>1 DEF OrderInv, Before
    <3> QED BY <3>1, <3>2, EventPair
  <2>2. FullAfterOverflow
    <3> SUFFICES ASSUME Idle, batch = <<>>, Handled = {}, dropped # {} PROVE Len(queue) = Capacity
        BY DEF FullAfterOverflow, Handled
    <3>1. Waiting = {} /\ Cardinality({}) = 0
          BY FS_EmptySet DEF Idle, Waiting
    <3> QED BY <3>1, CapacityAssumption DEF OverflowInv, TypeOK
  <2>3. SinkOrder
        BY DEF SinkInv
  <2>4. RetryBudget
    <3>1. Elements(received) \subseteq Events
          BY ElementsTyped DEF TypeOK
    <3> QED BY <3>1 DEF RetryBudget, CountInv, At
  <2> QED BY <2>1, <2>2, <2>3, <2>4 DEF DeliveryOrder
<1>2. IInv /\ DeliveryInv /\ [Next]_vars => DeliveryInv'
      BY OrderStep, SinkOrderStep, CountStep, OverflowStep DEF DeliveryInv
<1> QED BY Inductive, DeliveryInitially, <1>1, <1>2, PTL DEF Spec
=============================================================================
