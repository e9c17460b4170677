------------------------------- MODULE KeyProofs -------------------------------
(***************************************************************************)
(* Theorems about the keys on their two sides.                             *)
(*                                                                         *)
(* WriteKeys, for every set of calls, flushes, datasets, users and         *)
(* columns.  The argument: a key sits in the cache's slot, in a call's     *)
(* hands or in a file only under the joined names it was minted under      *)
(* (MintedFor), and four names without a separator are the only ones that  *)
(* join to what they join to (PlainNames); only the leader of a slot wraps *)
(* for it, while the slot is empty (OneLeader); and what a call filed is   *)
(* in the map or was taken up (Filed).                                     *)
(*                                                                         *)
(* KeyCache, for every set of keys, users and readers and every time to    *)
(* live: types, the order of a shred's record and deed, and that a sealed  *)
(* key stays sealed.  The first two are inductive together (a shred past   *)
(* its record is recorded); the third is one step's worth.                 *)
(***************************************************************************)
EXTENDS WriteKeys, KeyCache, SequenceTheorems, TLAPS

\* the slot key k was minted for
MintedSlot(k) == Slot(minted[k], minted[k].column)

MintedFor(k, j, c) == k \in 1 .. Len(minted) /\ MintedSlot(k) = Slot(j, c)

CacheBound ==
    \A s \in Slots : cache[s] # NoKey =>
        cache[s] \in 1 .. Len(minted) /\ MintedSlot(cache[s]) = s

CallsBound ==
    \A p \in Writers, c \in AnyColumn : got[p][c] # NoKey => MintedFor(got[p][c], job[p], c)

FilesBound ==
    \A f \in files : \A m \in f.keys :
        /\ m.dataset = f.job.dataset
        /\ MintedFor(m.key, f.job, m.column)

Complete ==
    \A p \in Writers : pc[p] = "store" => \A c \in Wanted(p) : got[p][c] # NoKey

Filed(r, e) == e \in sidecar[r] \cup sent[r]
CallsFiled ==
    \A p \in Writers : pc[p] = "store" /\ job[p].registers =>
        \A c \in Wanted(p) : Filed(job[p].root, [who |-> job[p].who, column |-> c, key |-> got[p][c]])

\* a slot has at most one call wrapping for it, and none once it has a key
OneLeader ==
    /\ \A p \in Writers : pc[p] = "wrapping" => leader[SlotOf(p)] = p
    /\ \A s \in Slots : leader[s] # Nobody =>
            cache[s] = NoKey /\ pc[leader[s]] = "wrapping" /\ SlotOf(leader[s]) = s

IInv == OneLeader /\ TypeOK /\ CacheBound /\ CallsBound /\ FilesBound /\ Complete /\ CallsFiled /\ NoEntryForgotten

-----------------------------------------------------------------------------
(* Lemmas about the operators.                                             *)

LEMMA JobFields ==
    ASSUME NEW j \in Jobs
    PROVE  /\ j.root \in Roots /\ j.dataset \in Datasets /\ j.who \in Whos
           /\ j.columns \subseteq Columns /\ j.registers \in BOOLEAN
BY JobsAssumption DEF Job

LEMMA SlotTyped ==
    ASSUME NEW j \in Jobs, NEW c \in AnyColumn
    PROVE  Slot(j, c) \in Slots
BY DEF Slots

\* two names, and four, joined
LEMMA Pair ==
    ASSUME NEW S, NEW x \in Seq(S), NEW s \in Seq(S)
    PROVE  /\ x \o s \in Seq(S)
           /\ Len(x \o s) = Len(x) + Len(s) /\ Len(x) \in Nat /\ Len(s) \in Nat
BY ConcatProperties, LenProperties

\* names for the prover, which loses its way in equations of sequences
OnePiece(n) == Len(n) = 1
JoinAlike(x, s, y, t) == x \o s = y \o t
AllJoinAlike(d, p, c, u, dd, pp, cc, uu) == d \o p \o c \o u = dd \o pp \o cc \o uu

\* the last of joined pieces can be taken off
LEMMA LastPiece ==
    ASSUME NEW x \in Seq(Pieces), NEW y \in Seq(Pieces), NEW s \in Seq(Pieces), NEW t \in Seq(Pieces),
           OnePiece(s), OnePiece(t), JoinAlike(x, s, y, t)
    PROVE  x = y /\ s = t
<1> USE DEF OnePiece, JoinAlike
<1>1. Len(x \o s) = Len(x) + 1 /\ Len(y \o t) = Len(y) + 1 /\ Len(x) \in Nat /\ Len(y) \in Nat
  BY Pair
<1>2. Len(x) = Len(y)
  BY <1>1
<1>3. \A i \in 1 .. Len(x) + 1 : (x \o s)[i] = IF i <= Len(x) THEN x[i] ELSE s[i - Len(x)]
  <2>1. \A i \in 1 .. Len(x) + Len(s) : (x \o s)[i] = IF i <= Len(x) THEN x[i] ELSE s[i - Len(x)]
    BY ConcatProperties
  <2> QED BY <2>1
<1>4. \A i \in 1 .. Len(y) + 1 : (y \o t)[i] = IF i <= Len(y) THEN y[i] ELSE t[i - Len(y)]
  <2>1. \A i \in 1 .. Len(y) + Len(t) : (y \o t)[i] = IF i <= Len(y) THEN y[i] ELSE t[i - Len(y)]
    BY ConcatProperties
  <2> QED BY <2>1
<1>5. (x \o s)[Len(x) + 1] = s[1] /\ (y \o t)[Len(y) + 1] = t[1]
  BY <1>1, <1>3, <1>4
<1>6. x = y
  <2>1. \A i \in 1 .. Len(x) : x[i] = y[i]
    BY <1>1, <1>2, <1>3, <1>4
  <2> QED BY <1>2, <2>1, SeqEqual
<1>7. s[1] = t[1]
  BY <1>2, <1>5
<1> QED BY <1>6, <1>7, SeqEqual

LEMMA Joined ==
    ASSUME NEW d \in Seq(Pieces), NEW p \in Seq(Pieces), NEW c \in Seq(Pieces), NEW u \in Seq(Pieces)
    PROVE  /\ d \o p \in Seq(Pieces) /\ d \o p \o c \in Seq(Pieces)
           /\ Len(d \o p \o c \o u) = Len(d) + Len(p) + Len(c) + Len(u)
<1>1. d \o p \in Seq(Pieces) /\ Len(d \o p) = Len(d) + Len(p)
  OBVIOUS
<1> DEFINE x == d \o p
<1>2. x \o c \in Seq(Pieces) /\ Len(x \o c) = Len(x) + Len(c)
  BY <1>1
<1> DEFINE y == x \o c
<1>3. Len(y \o u) = Len(y) + Len(u)
  BY <1>2
<1> HIDE DEF x, y
<1> QED BY <1>1, <1>2, <1>3 DEF x, y

\* A name without a separator is one piece, any other name at least two: four
\* names that join to four pieces are these pieces.
LEMMA PlainNames ==
    ASSUME NEW d \in Name, NEW p \in Name, NEW c \in Name, NEW u \in Name,
           NEW dd \in Name, NEW pp \in Name, NEW cc \in Name, NEW uu \in Name,
           OnePiece(d), OnePiece(p), OnePiece(c), OnePiece(u),
           AllJoinAlike(d, p, c, u, dd, pp, cc, uu)
    PROVE  d = dd /\ p = pp /\ c = cc /\ u = uu
<1>1. /\ d \in Seq(Pieces) /\ p \in Seq(Pieces) /\ c \in Seq(Pieces) /\ u \in Seq(Pieces)
      /\ dd \in Seq(Pieces) /\ pp \in Seq(Pieces) /\ cc \in Seq(Pieces) /\ uu \in Seq(Pieces)
  BY DEF Name
<1>2. Len(dd) \in Nat \ {0} /\ Len(pp) \in Nat \ {0} /\ Len(cc) \in Nat \ {0} /\ Len(uu) \in Nat \ {0}
  BY EmptySeq DEF Name
<1>3. /\ d \o p \in Seq(Pieces) /\ d \o p \o c \in Seq(Pieces)
      /\ Len(d \o p \o c \o u) = Len(d) + Len(p) + Len(c) + Len(u)
  BY <1>1, Joined
<1>4. /\ dd \o pp \in Seq(Pieces) /\ dd \o pp \o cc \in Seq(Pieces)
      /\ Len(dd \o pp \o cc \o uu) = Len(dd) + Len(pp) + Len(cc) + Len(uu)
  BY <1>1, Joined
<1>5. Len(dd) + Len(pp) + Len(cc) + Len(uu) = 4
  BY <1>3, <1>4 DEF OnePiece, AllJoinAlike
<1>6. OnePiece(dd) /\ OnePiece(pp) /\ OnePiece(cc) /\ OnePiece(uu)
  BY <1>2, <1>5 DEF OnePiece
<1>7. d \o p \o c = dd \o pp \o cc /\ u = uu
  <2> DEFINE x == d \o p \o c  y == dd \o pp \o cc
  <2>1. x \in Seq(Pieces) /\ y \in Seq(Pieces) /\ JoinAlike(x, u, y, uu)
    BY <1>3, <1>4 DEF JoinAlike, AllJoinAlike
  <2> HIDE DEF x, y
  <2>2. x = y /\ u = uu
    BY <1>1, <1>6, <2>1, LastPiece
  <2> QED BY <2>2 DEF x, y
<1>8. d \o p = dd \o pp /\ c = cc
  <2> DEFINE x == d \o p  y == dd \o pp
  <2>1. x \in Seq(Pieces) /\ y \in Seq(Pieces) /\ JoinAlike(x, c, y, cc)
    BY <1>3, <1>4, <1>7 DEF JoinAlike
  <2> HIDE DEF x, y
  <2>2. x = y /\ c = cc
    BY <1>1, <1>6, <2>1, LastPiece
  <2> QED BY <2>2 DEF x, y
<1>9. JoinAlike(d, p, dd, pp)
  BY <1>8 DEF JoinAlike
<1>10. d = dd /\ p = pp
  BY <1>1, <1>6, <1>9, LastPiece
<1> QED BY <1>7, <1>8, <1>10

LEMMA WantedColumns ==
    ASSUME TypeOK, NEW p \in Writers
    PROVE  Wanted(p) \subseteq AnyColumn /\ Missing(p) \subseteq Wanted(p)
BY JobFields DEF TypeOK, Wanted, Missing, AnyColumn

-----------------------------------------------------------------------------
(* Steps: what every step leaves alone, and that types are kept.           *)

LEMMA Steady ==
    ASSUME TypeOK, [Next]_vars
    PROVE  /\ job' = job
           /\ \A k \in 1 .. Len(minted) : k \in 1 .. Len(minted') /\ minted'[k] = minted[k]
<1>1. minted \in Seq(Mint) /\ Len(minted) \in Nat
  BY DEF TypeOK
<1>2. CASE UNCHANGED minted
  <2>1. job' = job
    BY <1>2 DEF Next, Call, Ask, Wrap, Store, Flush, vars, callVars, cacheVars, flushVars, Begin, Hit, Lead, Follow,
       WrapSucceeds, WrapFails, Register, StoreSucceeds, StoreFails, FlushTakes, FlushEnds, FlushFails, Expire
  <2> QED BY <1>1, <1>2, <2>1
<1>3. CASE \E p \in Writers : WrapSucceeds(p)
  <2>1. PICK p \in Writers : WrapSucceeds(p)
    BY <1>3
  <2> DEFINE m == [dataset |-> job[p].dataset, who |-> job[p].who, column |-> column[p]]
  <2>2. m \in Mint
    BY JobFields DEF TypeOK, Mint
  <2>3. job' = job /\ minted' = Append(minted, m)
    BY <2>1 DEF WrapSucceeds
  <2> HIDE DEF m
  <2> QED BY <1>1, <2>2, <2>3
<1>4. UNCHANGED minted \/ \E p \in Writers : WrapSucceeds(p)
  BY DEF Next, Call, Ask, Wrap, Store, Flush, vars, callVars, cacheVars, flushVars, Begin, Hit, Lead, Follow,
     WrapFails, Register, StoreSucceeds, StoreFails, FlushTakes, FlushEnds, FlushFails, Expire
<1> QED BY <1>2, <1>3, <1>4

\* the entry WrapSucceeds(p) adds, and where
LEMMA Wrapped ==
    ASSUME TypeOK, NEW p \in Writers, WrapSucceeds(p)
    PROVE  /\ Len(minted') = Len(minted) + 1
           /\ Len(minted') \in Keys /\ Len(minted') <= MaxKeys /\ Len(minted') \in 1 .. Len(minted')
           /\ minted' \in Seq(Mint)
           /\ Slot(minted'[Len(minted')], minted'[Len(minted')].column) = Slot(job[p], column[p])
<1> DEFINE m == [dataset |-> job[p].dataset, who |-> job[p].who, column |-> column[p]]
<1>1. m \in Mint
  BY JobFields DEF TypeOK, Mint
<1>2. minted \in Seq(Mint) /\ Len(minted) \in Nat /\ Len(minted) < MaxKeys /\ minted' = Append(minted, m)
  BY DEF TypeOK, WrapSucceeds
<1> HIDE DEF m
<1>3. /\ Len(minted') = Len(minted) + 1 /\ minted' \in Seq(Mint) /\ minted'[Len(minted')] = m
  BY <1>1, <1>2
<1>4. Len(minted') \in Keys /\ Len(minted') <= MaxKeys /\ Len(minted') \in 1 .. Len(minted')
  BY <1>2, <1>3, MaxKeysAssumption DEF Keys
<1>5. Slot(m, m.column) = Slot(job[p], column[p])
  BY DEF m, Slot
<1> QED BY <1>3, <1>4, <1>5

LEMMA ServedColumns ==
    ASSUME TypeOK, NEW p \in Writers, pc[p] = "wrapping", NEW q \in Served(p)
    PROVE  /\ q \in Writers /\ pc[q] \in {"wrapping", "waiting"}
           /\ SlotOf(q) = SlotOf(p)
BY DEF Served, SlotOf

LEMMA TypeStep ==
    ASSUME TypeOK, Complete, [Next]_vars
    PROVE  TypeOK'
<1> USE DEF TypeOK
<1>1. ASSUME NEW p \in Writers, Begin(p) PROVE TypeOK'
  BY <1>1 DEF Begin, GoTo, PC, cacheVars, flushVars
<1>2. ASSUME NEW p \in Writers, NEW c \in AnyColumn, Hit(p, c) PROVE TypeOK'
  <2>1. cache[Slot(job[p], c)] \in {NoKey} \cup Keys
    BY SlotTyped
  <2>2. got' \in [Writers -> [AnyColumn -> {NoKey} \cup Keys]]
    BY <1>2, <2>1 DEF Hit
  <2>3. column' \in [Writers -> AnyColumn]
    BY <1>2 DEF Hit
  <2> QED BY <1>2, <2>2, <2>3 DEF Hit, cacheVars, flushVars
<1>3. ASSUME NEW p \in Writers, NEW c \in AnyColumn, Lead(p, c) PROVE TypeOK'
  BY <1>3, SlotTyped DEF Lead, GoTo, PC, flushVars
<1>4. ASSUME NEW p \in Writers, NEW c \in AnyColumn, Follow(p, c) PROVE TypeOK'
  BY <1>4 DEF Follow, GoTo, PC, cacheVars, flushVars
<1>5. ASSUME NEW p \in Writers, WrapSucceeds(p) PROVE TypeOK'
  <2>1. SlotOf(p) \in Slots
    BY SlotTyped DEF SlotOf
  <2>2. minted' \in Seq(Mint) /\ Len(minted') \in Keys /\ Len(minted') <= MaxKeys
    BY ONLY TypeOK, <1>5, Wrapped
  <2> DEFINE k == Len(minted')
  <2>3. k \in Keys
    BY <2>2
  <2> HIDE DEF k
  <2>4. /\ cache' = [cache EXCEPT ![SlotOf(p)] = k]
        /\ leader' = [leader EXCEPT ![SlotOf(p)] = Nobody]
        /\ got' = [q \in Writers |-> IF q \in Served(p) THEN [got[q] EXCEPT ![column[q]] = k] ELSE got[q]]
        /\ pc' = [q \in Writers |-> IF q \in Served(p) THEN "ask" ELSE pc[q]]
        /\ UNCHANGED <<job, column, sidecar, flushVars, files>>
    BY <1>5 DEF WrapSucceeds, k
  <2>5. got' \in [Writers -> [AnyColumn -> {NoKey} \cup Keys]]
    BY <2>3, <2>4
  <2>6. pc' \in [Writers -> PC]
    BY <2>4 DEF PC
  <2>7. cache' \in [Slots -> {NoKey} \cup Keys] /\ leader' \in [Slots -> {Nobody} \cup Writers]
    BY <2>1, <2>3, <2>4
  <2> QED BY <2>2, <2>4, <2>5, <2>6, <2>7 DEF flushVars
<1>6. ASSUME NEW p \in Writers, WrapFails(p) PROVE TypeOK'
  <2>1. pc' \in [Writers -> PC]
    BY <1>6 DEF WrapFails, PC, Ended
  <2>2. leader' \in [Slots -> {Nobody} \cup Writers]
    BY <1>6, SlotTyped DEF WrapFails, SlotOf
  <2> QED BY <1>6, <2>1, <2>2 DEF WrapFails, flushVars
<1>7. ASSUME NEW p \in Writers, Register(p) PROVE TypeOK'
  <2>1. \A c \in Wanted(p) : got[p][c] \in Keys
    BY <1>7, JobFields DEF Register, Missing, Wanted, AnyColumn
  <2>2. Entries(p) \subseteq SidecarKeyEntry
    BY <2>1, WantedColumns, JobFields DEF Entries, SidecarKeyEntry
  <2>3. sidecar' \in [Roots -> SUBSET SidecarKeyEntry]
    BY <1>7, <2>2, JobFields DEF Register
  <2> QED BY <1>7, <2>3 DEF Register, GoTo, PC, cacheVars, flushVars
<1>8. ASSUME NEW p \in Writers, Complete, StoreSucceeds(p) \/ StoreFails(p) PROVE TypeOK'
  <2>1. \A c \in Wanted(p) : got[p][c] \in Keys /\ c \in AnyColumn
    BY <1>8, WantedColumns DEF Complete, StoreSucceeds, StoreFails
  <2>2. Stored(p) \in File
    BY <2>1, JobFields DEF Stored, FileKeys, File, Metadata
  <2>3. files' \subseteq File
    BY <1>8, <2>2 DEF StoreSucceeds, StoreFails
  <2>4. pc' \in [Writers -> PC]
    BY <1>8 DEF StoreSucceeds, StoreFails, GoTo, PC, Ended
  <2> QED BY <1>8, <2>3, <2>4 DEF StoreSucceeds, StoreFails, cacheVars, flushVars
<1>9. ASSUME NEW f \in Flushers, NEW r \in Roots, FlushTakes(f, r) PROVE TypeOK'
  BY <1>9 DEF FlushTakes, cacheVars, callVars
<1>10. ASSUME NEW f \in Flushers, FlushEnds(f) \/ FlushFails(f) PROVE TypeOK'
  <2>1. taken[f].root \in Roots \cup {Absent} /\ taken[f].keys \subseteq SidecarKeyEntry
    OBVIOUS
  <2>2. object' \in [Roots -> SUBSET SidecarKeyEntry]
    BY <1>10, <2>1 DEF FlushEnds, FlushFails
  <2>3. taken' \in [Flushers -> [root : Roots \cup {Absent}, keys : SUBSET SidecarKeyEntry]]
    BY <1>10 DEF FlushEnds, FlushFails, Nothing
  <2> QED BY <1>10, <2>2, <2>3 DEF FlushEnds, FlushFails, cacheVars, callVars
<1>11. ASSUME NEW s \in Slots, Expire(s) PROVE TypeOK'
  BY <1>11 DEF Expire, callVars, flushVars
<1>12. CASE UNCHANGED vars
  BY <1>12 DEF vars, cacheVars, callVars, flushVars
<1> QED BY <1>1, <1>2, <1>3, <1>4, <1>5, <1>6, <1>7, <1>8, <1>9, <1>10, <1>11, <1>12
       DEF Next, Call, Ask, Wrap, Store, Flush

-----------------------------------------------------------------------------
(* Keys stay with what they were minted for.                               *)

LEMMA MintedStays ==
    ASSUME TypeOK, [Next]_vars, NEW k, NEW j, NEW c, MintedFor(k, j, c)
    PROVE  /\ k \in 1 .. Len(minted')
           /\ Slot(minted'[k], minted'[k].column) = Slot(j, c)
BY Steady DEF MintedFor, MintedSlot

LEMMA CacheStep ==
    ASSUME TypeOK, TypeOK', CacheBound, [Next]_vars
    PROVE  CacheBound'
<1> SUFFICES ASSUME NEW s \in Slots, cache'[s] # NoKey
             PROVE  /\ cache'[s] \in 1 .. Len(minted')
                    /\ Slot(minted'[cache'[s]], minted'[cache'[s]].column) = s
  BY DEF CacheBound, MintedSlot
<1>1. CASE cache'[s] = cache[s]
  BY <1>1, Steady DEF CacheBound, MintedSlot
<1>2. ASSUME NEW p \in Writers, WrapSucceeds(p), cache'[s] # cache[s] PROVE s = SlotOf(p) /\ cache'[s] = Len(minted')
  BY <1>2 DEF WrapSucceeds, TypeOK
<1>3. ASSUME NEW p \in Writers, WrapSucceeds(p), cache'[s] # cache[s]
      PROVE  /\ cache'[s] \in 1 .. Len(minted')
             /\ Slot(minted'[cache'[s]], minted'[cache'[s]].column) = s
  <2>1. s = Slot(job[p], column[p]) /\ cache'[s] = Len(minted')
    BY <1>2, <1>3 DEF SlotOf
  <2> QED BY <1>3, <2>1, Wrapped
<1>4. ASSUME NEW t \in Slots, Expire(t) PROVE cache'[s] = cache[s]
  BY <1>4 DEF Expire, TypeOK
<1>5. cache'[s] = cache[s] \/ (\E p \in Writers : WrapSucceeds(p)) \/ (\E t \in Slots : Expire(t))
  BY DEF Next, Call, Ask, Wrap, Store, Flush, vars, callVars, cacheVars, flushVars, Begin, Hit, Lead, Follow,
     WrapFails, Register, StoreSucceeds, StoreFails, FlushTakes, FlushEnds, FlushFails
<1> QED BY <1>1, <1>3, <1>4, <1>5

\* what a step that is neither of Lead, WrapSucceeds and WrapFails does to them
LEMMA LeaderStays ==
    ASSUME TypeOK, TypeOK', OneLeader, [Next]_vars,
           leader' = leader, \A s \in Slots : cache'[s] # NoKey => cache[s] # NoKey,
           \A p \in Writers : pc'[p] = "wrapping" <=> pc[p] = "wrapping",
           \A p \in Writers : pc[p] = "wrapping" => column'[p] = column[p]
    PROVE  OneLeader'
<1>1. \A p \in Writers : pc[p] = "wrapping" => SlotOf(p)' = SlotOf(p)
  BY Steady DEF SlotOf, Slot
<1>2. ASSUME NEW p \in Writers, pc'[p] = "wrapping" PROVE leader'[SlotOf(p)'] = p
  BY <1>1, <1>2 DEF OneLeader
<1>3. ASSUME NEW s \in Slots, leader'[s] # Nobody
      PROVE  cache'[s] = NoKey /\ pc'[leader'[s]] = "wrapping" /\ SlotOf(leader[s])' = s
  <2>1. leader[s] \in Writers /\ cache[s] = NoKey /\ pc[leader[s]] = "wrapping" /\ SlotOf(leader[s]) = s
    BY <1>3 DEF OneLeader, TypeOK
  <2> QED BY <1>1, <2>1
<1> QED BY <1>2, <1>3 DEF OneLeader, SlotOf

LEMMA LeaderStep ==
    ASSUME TypeOK, TypeOK', OneLeader, [Next]_vars
    PROVE  OneLeader'
<1>1. ASSUME NEW p \in Writers, NEW c \in AnyColumn, Lead(p, c) PROVE OneLeader'
  <2> DEFINE s == Slot(job[p], c)
  <2>1. /\ pc[p] = "ask" /\ cache[s] = NoKey /\ leader[s] = Nobody
        /\ column' = [column EXCEPT ![p] = c] /\ leader' = [leader EXCEPT ![s] = p]
        /\ pc' = [pc EXCEPT ![p] = "wrapping"] /\ cache' = cache /\ job' = job
    BY <1>1 DEF Lead, GoTo
  <2>2. s \in Slots
    BY SlotTyped DEF TypeOK
  <2>3. Slot(job'[p], column'[p]) = s
    BY <2>1 DEF SlotOf, TypeOK
  <2>4. \A q \in Writers \ {p} : pc'[q] = pc[q] /\ Slot(job'[q], column'[q]) = SlotOf(q)
    BY <2>1 DEF SlotOf, Slot, TypeOK
  <2> HIDE DEF s
  <2>5. ASSUME NEW q \in Writers, pc'[q] = "wrapping" PROVE leader'[Slot(job'[q], column'[q])] = q
    <3>1. CASE q = p
      BY <2>1, <2>2, <2>3, <3>1 DEF TypeOK
    <3>2. CASE q # p
      <4>1. leader[SlotOf(q)] = q /\ Slot(job'[q], column'[q]) = SlotOf(q)
        BY <2>4, <2>5, <3>2 DEF OneLeader
      <4>2. SlotOf(q) # s /\ SlotOf(q) \in Slots
        BY <2>1, <4>1, NamesAssumption, SlotTyped DEF SlotOf, TypeOK
      <4> QED BY <2>1, <4>1, <4>2 DEF TypeOK
    <3> QED BY <3>1, <3>2
  <2>6. ASSUME NEW t \in Slots, leader'[t] # Nobody
        PROVE  cache'[t] = NoKey /\ pc'[leader'[t]] = "wrapping" /\ Slot(job'[leader'[t]], column'[leader'[t]]) = t
    <3>1. CASE t = s
      <4>1. leader'[t] = p
        BY <2>1, <2>2, <3>1 DEF TypeOK
      <4> QED BY <2>1, <2>3, <3>1, <4>1 DEF TypeOK
    <3>2. CASE t # s
      <4>1. leader'[t] = leader[t] /\ leader[t] \in Writers
        BY <2>1, <2>6, <3>2 DEF TypeOK
      <4>2. cache[t] = NoKey /\ pc[leader[t]] = "wrapping" /\ SlotOf(leader[t]) = t /\ leader[t] # p
        BY <2>1, <2>6, <4>1 DEF OneLeader
      <4> QED BY <2>1, <2>4, <4>1, <4>2
    <3> QED BY <3>1, <3>2
  <2> QED BY <2>5, <2>6 DEF OneLeader, SlotOf
<1>2. ASSUME NEW p \in Writers, Wrap(p) PROVE OneLeader'
  <2> DEFINE s == SlotOf(p)
  <2>1. /\ pc[p] = "wrapping" /\ leader' = [leader EXCEPT ![s] = Nobody]
        /\ job' = job /\ column' = column
        /\ \A q \in Writers : pc'[q] = "wrapping" => pc[q] = "wrapping" /\ q # p
        /\ \A q \in Writers \ Served(p) : pc'[q] = pc[q]
        /\ \A t \in Slots \ {s} : cache'[t] = cache[t]
    BY <1>2 DEF Wrap, WrapSucceeds, WrapFails, Served, TypeOK
  <2>2. s \in Slots /\ \A q \in Writers : Slot(job'[q], column'[q]) = SlotOf(q)
    BY <2>1, SlotTyped DEF SlotOf, TypeOK
  <2>3. ASSUME NEW q \in Writers, pc'[q] = "wrapping" PROVE leader'[Slot(job'[q], column'[q])] = q
    <3>1. leader[SlotOf(q)] = q /\ leader[s] = p /\ q # p /\ SlotOf(q) \in Slots
      BY <2>1, <2>3, SlotTyped DEF OneLeader, SlotOf, TypeOK
    <3> QED BY <2>1, <2>2, <3>1 DEF TypeOK
  <2>4. ASSUME NEW t \in Slots, leader'[t] # Nobody
        PROVE  cache'[t] = NoKey /\ pc'[leader'[t]] = "wrapping" /\ Slot(job'[leader'[t]], column'[leader'[t]]) = t
    <3>1. t # s /\ leader'[t] = leader[t] /\ leader[t] \in Writers
      BY <2>1, <2>2, <2>4 DEF TypeOK
    <3>2. cache[t] = NoKey /\ pc[leader[t]] = "wrapping" /\ SlotOf(leader[t]) = t
      BY <2>4, <3>1 DEF OneLeader
    <3>3. leader[t] \notin Served(p)
      BY <3>1, <3>2 DEF Served
    <3> QED BY <2>1, <2>2, <3>1, <3>2, <3>3
  <2> QED BY <2>3, <2>4 DEF OneLeader, SlotOf
<1>3. ASSUME NEW p \in Writers, NEW c \in AnyColumn, Hit(p, c) \/ Follow(p, c) PROVE OneLeader'
  BY <1>3, LeaderStays DEF Hit, Follow, GoTo, cacheVars, TypeOK
<1>4. ASSUME NEW p \in Writers, Begin(p) \/ Register(p) \/ Store(p) PROVE OneLeader'
  BY <1>4, LeaderStays DEF Begin, Register, Store, StoreSucceeds, StoreFails, GoTo, cacheVars, TypeOK
<1>5. ASSUME NEW f \in Flushers, Flush(f) PROVE OneLeader'
  BY <1>5, LeaderStays DEF Flush, FlushTakes, FlushEnds, FlushFails, cacheVars, callVars
<1>6. ASSUME NEW s \in Slots, Expire(s) PROVE OneLeader'
  <2>1. \A t \in Slots : cache'[t] # NoKey => cache[t] # NoKey
    BY <1>6 DEF Expire, TypeOK
  <2> QED BY <1>6, <2>1, LeaderStays DEF Expire, callVars
<1>7. CASE UNCHANGED vars
  BY <1>7, LeaderStays DEF vars, cacheVars, callVars
<1> QED BY <1>1, <1>2, <1>3, <1>4, <1>5, <1>6, <1>7 DEF Next, Call, Ask

LEMMA CallsStep ==
    ASSUME TypeOK, TypeOK', CacheBound, CallsBound, [Next]_vars
    PROVE  CallsBound'
<1> SUFFICES ASSUME NEW q \in Writers, NEW c \in AnyColumn, got'[q][c] # NoKey
             PROVE  /\ got'[q][c] \in 1 .. Len(minted')
                    /\ Slot(minted'[got'[q][c]], minted'[got'[q][c]].column) = Slot(job[q], c)
  BY Steady DEF CallsBound, MintedFor, MintedSlot
<1>1. CASE got'[q][c] = got[q][c]
  BY <1>1, MintedStays DEF CallsBound
<1>2. ASSUME NEW p \in Writers, NEW b \in AnyColumn, Hit(p, b), got'[q][c] # got[q][c]
      PROVE  /\ got'[q][c] \in 1 .. Len(minted')
             /\ Slot(minted'[got'[q][c]], minted'[got'[q][c]].column) = Slot(job[q], c)
  <2>1. p = q /\ b = c /\ got'[q][c] = cache[Slot(job[q], c)] /\ minted' = minted
    BY <1>2 DEF Hit, TypeOK, cacheVars
  <2>2. Slot(job[q], c) \in Slots
    BY SlotTyped DEF TypeOK
  <2> QED BY <2>1, <2>2 DEF CacheBound, MintedSlot
<1>3. ASSUME NEW p \in Writers, WrapSucceeds(p), got'[q][c] # got[q][c]
      PROVE  /\ got'[q][c] \in 1 .. Len(minted')
             /\ Slot(minted'[got'[q][c]], minted'[got'[q][c]].column) = Slot(job[q], c)
  <2> DEFINE k == Len(minted')
  <2>1. got' = [r \in Writers |-> IF r \in Served(p) THEN [got[r] EXCEPT ![column[r]] = k] ELSE got[r]]
    BY <1>3 DEF WrapSucceeds
  <2>2. k \in 1 .. k /\ Slot(minted'[k], minted'[k].column) = Slot(job[p], column[p])
    BY <1>3, Wrapped DEF TypeOK, Keys
  <2> HIDE DEF k
  <2>3. q \in Served(p) /\ c = column[q] /\ got'[q][c] = k
    BY <1>3, <2>1 DEF TypeOK
  <2>4. Slot(job[q], column[q]) = Slot(job[p], column[p])
    BY <1>3, <2>3, ServedColumns DEF WrapSucceeds, SlotOf
  <2> QED BY <2>2, <2>3, <2>4 DEF k
<1>4. \/ got' = got \/ \E p \in Writers : WrapSucceeds(p)
      \/ \E p \in Writers, b \in AnyColumn : Hit(p, b)
  BY DEF Next, Call, Ask, Wrap, Store, Flush, vars, callVars, cacheVars, flushVars, Begin, Lead, Follow,
     WrapFails, Register, StoreSucceeds, StoreFails, FlushTakes, FlushEnds, FlushFails, Expire
<1> QED BY <1>1, <1>2, <1>3, <1>4

\* A call that stores its file has every key it wants, and its keys stay.
LEMMA CompleteStep ==
    ASSUME TypeOK, TypeOK', Complete, [Next]_vars
    PROVE  /\ Complete'
           /\ \A q \in Writers : pc'[q] = "store" =>
                \/ pc[q] = "store" /\ got'[q] = got[q]
                \/ Register(q) /\ got'[q] = got[q]
<1>1. \A q \in Writers : Wanted(q)' = Wanted(q)
  BY Steady DEF Wanted
<1>2. ASSUME NEW q \in Writers, pc'[q] = "store"
      PROVE  \/ pc[q] = "store" /\ got'[q] = got[q]
             \/ Register(q) /\ got'[q] = got[q]
  <2>1. ASSUME NEW p \in Writers, Begin(p) \/ Store(p)
        PROVE  pc[q] = "store" /\ got'[q] = got[q]
    BY <1>2, <2>1 DEF Begin, Store, StoreSucceeds, StoreFails, GoTo, TypeOK
  <2>2. ASSUME NEW p \in Writers, NEW c \in AnyColumn, Lead(p, c) \/ Follow(p, c)
        PROVE  pc[q] = "store" /\ got'[q] = got[q]
    BY <1>2, <2>2 DEF Lead, Follow, GoTo, TypeOK
  <2>3. ASSUME NEW p \in Writers, NEW c \in AnyColumn, Hit(p, c)
        PROVE  pc[q] = "store" /\ got'[q] = got[q]
    BY <1>2, <2>3 DEF Hit, TypeOK
  <2>4. ASSUME NEW p \in Writers, WrapSucceeds(p)
        PROVE  pc[q] = "store" /\ got'[q] = got[q]
    <3>1. /\ pc' = [r \in Writers |-> IF r \in Served(p) THEN "ask" ELSE pc[r]]
          /\ got' = [r \in Writers |->
                IF r \in Served(p) THEN [got[r] EXCEPT ![column[r]] = Len(minted')] ELSE got[r]]
      BY <2>4 DEF WrapSucceeds
    <3> QED BY <1>2, <3>1
  <2>5. ASSUME NEW p \in Writers, WrapFails(p)
        PROVE  pc[q] = "store" /\ got'[q] = got[q]
    BY <1>2, <2>5 DEF WrapFails
  <2>6. ASSUME NEW p \in Writers, Register(p)
        PROVE  \/ pc[q] = "store" /\ got'[q] = got[q]
               \/ Register(q) /\ got'[q] = got[q]
    <3>1. got' = got /\ pc' = [pc EXCEPT ![p] = "store"]
      BY <2>6 DEF Register, GoTo
    <3>2. CASE p = q
      BY <2>6, <3>1, <3>2
    <3>3. CASE p # q
      BY <1>2, <3>1, <3>3 DEF TypeOK
    <3> QED BY <3>2, <3>3
  <2>7. CASE UNCHANGED <<pc, got>>
    BY <1>2, <2>7
  <2>8. \/ UNCHANGED <<pc, got>>
        \/ \E p \in Writers : Begin(p) \/ Call(p)
    BY DEF Next, Flush, vars, callVars, FlushTakes, FlushEnds, FlushFails, Expire
  <2> QED BY <2>1, <2>2, <2>3, <2>4, <2>5, <2>6, <2>7, <2>8 DEF Call, Ask, Wrap
<1>3. ASSUME NEW q \in Writers, Register(q) PROVE \A c \in Wanted(q) : got[q][c] # NoKey
  BY <1>3 DEF Register, Missing, Wanted
<1> QED BY <1>1, <1>2, <1>3 DEF Complete

-----------------------------------------------------------------------------
(* Files and entries.                                                      *)

LEMMA FilesStep ==
    ASSUME TypeOK, CallsBound, FilesBound, Complete, [Next]_vars
    PROVE  FilesBound'
<1> SUFFICES ASSUME NEW f \in files', NEW m \in f.keys
             PROVE  /\ m.dataset = f.job.dataset
                    /\ m.key \in 1 .. Len(minted')
                    /\ Slot(minted'[m.key], minted'[m.key].column) = Slot(f.job, m.column)
  BY DEF FilesBound, MintedFor, MintedSlot
<1>1. CASE f \in files
  <2>1. m.dataset = f.job.dataset /\ MintedFor(m.key, f.job, m.column)
    BY <1>1 DEF FilesBound
  <2> QED BY <2>1, MintedStays
<1>2. ASSUME NEW p \in Writers, Store(p), f = Stored(p)
      PROVE  /\ m.dataset = f.job.dataset
             /\ m.key \in 1 .. Len(minted')
             /\ Slot(minted'[m.key], minted'[m.key].column) = Slot(f.job, m.column)
  <2>1. f.job = job[p] /\ f.keys = FileKeys(p)
    BY <1>2 DEF Stored
  <2>2. PICK c \in Wanted(p) : m = [dataset |-> job[p].dataset, column |-> c, key |-> got[p][c]]
    BY <2>1 DEF FileKeys
  <2>3. c \in AnyColumn /\ got[p][c] # NoKey
    BY <1>2, WantedColumns DEF Complete, Store, StoreSucceeds, StoreFails
  <2>4. MintedFor(m.key, f.job, m.column) /\ m.dataset = f.job.dataset
    BY <2>1, <2>2, <2>3 DEF CallsBound
  <2> QED BY <2>4, MintedStays
<1>3. f \in files \/ \E p \in Writers : Store(p) /\ f = Stored(p)
  BY DEF Next, Call, Ask, Wrap, Store, Flush, vars, callVars, cacheVars, flushVars, Begin, Hit, Lead, Follow,
     WrapSucceeds, WrapFails, Register, StoreSucceeds, StoreFails, FlushTakes, FlushEnds, FlushFails, Expire
<1> QED BY <1>1, <1>2, <1>3

\* An entry in the map or taken up stays so: only a flush removes it from the
\* map, and takes it up in the same step.
LEMMA FiledStays ==
    ASSUME TypeOK, [Next]_vars, NEW r \in Roots, NEW e, Filed(r, e)
    PROVE  e \in sidecar'[r] \cup sent'[r]
<1>1. ASSUME NEW p \in Writers, Register(p) PROVE e \in sidecar'[r] \cup sent'[r]
  BY <1>1 DEF Register, Filed, TypeOK, flushVars
<1>2. ASSUME NEW f \in Flushers, NEW q \in Roots, FlushTakes(f, q) PROVE e \in sidecar'[r] \cup sent'[r]
  <2>1. CASE q = r
    BY <1>2, <2>1 DEF FlushTakes, Filed, TypeOK
  <2>2. CASE q # r
    BY <1>2, <2>2 DEF FlushTakes, Filed, TypeOK
  <2> QED BY <2>1, <2>2
<1>3. CASE UNCHANGED <<sidecar, sent>>
  BY <1>3 DEF Filed
<1>4. \/ UNCHANGED <<sidecar, sent>>
      \/ \E p \in Writers : Register(p)
      \/ \E f \in Flushers, q \in Roots : FlushTakes(f, q)
  BY DEF Next, Call, Ask, Wrap, Store, Flush, vars, callVars, cacheVars, flushVars, Begin, Hit, Lead, Follow,
     WrapSucceeds, WrapFails, StoreSucceeds, StoreFails, FlushEnds, FlushFails, Expire
<1> QED BY <1>1, <1>2, <1>3, <1>4

LEMMA FiledStep ==
    ASSUME TypeOK, TypeOK', Complete, CallsFiled, NoEntryForgotten, [Next]_vars
    PROVE  CallsFiled' /\ NoEntryForgotten'
<1>1. CallsFiled'
  <2> SUFFICES ASSUME NEW q \in Writers, pc'[q] = "store", job[q].registers, NEW c \in Wanted(q)
               PROVE  [who |-> job[q].who, column |-> c, key |-> got'[q][c]]
                            \in sidecar'[job[q].root] \cup sent'[job[q].root]
    BY Steady DEF CallsFiled, Filed, Wanted
  <2> DEFINE e == [who |-> job[q].who, column |-> c, key |-> got[q][c]]
  <2>1. job[q].root \in Roots /\ got'[q] = got[q]
    BY JobFields, CompleteStep DEF TypeOK
  <2>2. CASE pc[q] = "store"
    <3>1. Filed(job[q].root, e)
      BY <2>2 DEF CallsFiled
    <3> QED BY <2>1, <3>1, FiledStays
  <2>3. CASE Register(q)
    <3>1. e \in Entries(q)
      BY DEF Entries
    <3>2. sidecar'[job[q].root] = sidecar[job[q].root] \cup Entries(q)
      BY <2>1, <2>3 DEF Register, TypeOK
    <3> QED BY <2>1, <3>1, <3>2
  <2> QED BY <2>2, <2>3, CompleteStep
<1>2. NoEntryForgotten'
  <2> SUFFICES ASSUME NEW f \in files', f.job.registers, NEW m \in f.keys
               PROVE  [who |-> f.job.who, column |-> m.column, key |-> m.key]
                            \in sidecar'[f.job.root] \cup sent'[f.job.root]
    BY DEF NoEntryForgotten
  <2> DEFINE e == [who |-> f.job.who, column |-> m.column, key |-> m.key]
  <2>1. f.job \in Jobs /\ f.job.root \in Roots
    BY JobFields DEF TypeOK, File
  <2>2. CASE f \in files
    <3>1. Filed(f.job.root, e)
      BY <2>2 DEF NoEntryForgotten, Filed
    <3> QED BY <2>1, <3>1, FiledStays
  <2>3. ASSUME NEW p \in Writers, Store(p), f = Stored(p)
        PROVE  e \in sidecar'[f.job.root] \cup sent'[f.job.root]
    <3>1. PICK c \in Wanted(p) : m = [dataset |-> job[p].dataset, column |-> c, key |-> got[p][c]]
      BY <2>3 DEF Stored, FileKeys
    <3>2. f.job = job[p] /\ pc[p] = "store"
      BY <2>3 DEF Stored, Store, StoreSucceeds, StoreFails
    <3>3. Filed(f.job.root, e)
      BY <3>1, <3>2 DEF CallsFiled
    <3> QED BY <2>1, <3>3, FiledStays
  <2>4. f \in files \/ \E p \in Writers : Store(p) /\ f = Stored(p)
    BY DEF Next, Call, Ask, Wrap, Store, Flush, vars, callVars, cacheVars, flushVars, Begin, Hit, Lead, Follow,
       WrapSucceeds, WrapFails, Register, StoreSucceeds, StoreFails, FlushTakes, FlushEnds, FlushFails, Expire
  <2> QED BY <2>2, <2>3, <2>4
<1> QED BY <1>1, <1>2

-----------------------------------------------------------------------------
(* The theorems.                                                           *)

LEMMA Initially == Init => IInv
<1> SUFFICES ASSUME Init PROVE IInv
  OBVIOUS
<1>1. TypeOK
  <2>1. minted \in Seq(Mint) /\ Len(minted) <= MaxKeys
    BY MaxKeysAssumption DEF Init
  <2>2. taken \in [Flushers -> [root : Roots \cup {Absent}, keys : SUBSET SidecarKeyEntry]]
    BY DEF Init, Nothing
  <2> QED BY <2>1, <2>2 DEF Init, TypeOK, PC, AnyColumn
<1>2. OneLeader /\ CacheBound /\ CallsBound /\ FilesBound /\ Complete /\ CallsFiled /\ NoEntryForgotten
  BY DEF Init, OneLeader, CacheBound, CallsBound, FilesBound, Complete, CallsFiled, NoEntryForgotten
<1> QED BY <1>1, <1>2 DEF IInv

LEMMA Inductive == IInv /\ [Next]_vars => IInv'
<1> SUFFICES ASSUME IInv, [Next]_vars PROVE IInv'
  OBVIOUS
<1>1. TypeOK'
  BY TypeStep DEF IInv
<1>2. OneLeader' /\ CacheBound' /\ CallsBound' /\ FilesBound'
  BY <1>1, LeaderStep, CacheStep, CallsStep, FilesStep DEF IInv
<1>3. Complete' /\ CallsFiled' /\ NoEntryForgotten'
  BY <1>1, CompleteStep, FiledStep DEF IInv
<1> QED BY <1>1, <1>2, <1>3 DEF IInv

LEMMA Invariance == Spec => []IInv
  BY Initially, Inductive, PTL DEF Spec

\* Every variable keeps its type, for any calls, flushes and users.
THEOREM TypeCorrect == Spec => []TypeOK
<1>1. IInv => TypeOK
  BY DEF IInv
<1> QED BY <1>1, Invariance, PTL

\* Keys asked for under plain names are of the names they were minted for,
\* whoever else asked and with whatever names.
LEMMA PlainMinted ==
    ASSUME TypeOK, NEW j \in Jobs, NEW c \in AnyColumn, Plain(j, c),
           NEW i, NEW b \in AnyColumn, i.dataset \in Datasets, i.who \in Whos,
           Slot(i, b) = Slot(j, c)
    PROVE  i.dataset = j.dataset /\ i.who = j.who /\ b = c
<1>1. /\ j.dataset \in Name /\ j.who.purpose \in Name /\ c \in Name /\ j.who.user \in Name
      /\ i.dataset \in Name /\ i.who.purpose \in Name /\ b \in Name /\ i.who.user \in Name
  BY FooterAssumption, JobFields, DatasetsAssumption, WhosAssumption, ColumnsAssumption DEF AnyColumn
<1>2. OnePiece(j.dataset) /\ OnePiece(j.who.purpose) /\ OnePiece(c) /\ OnePiece(j.who.user)
  BY DEF Plain, OnePiece
<1>3. j.dataset \o j.who.purpose \o c \o j.who.user = i.dataset \o i.who.purpose \o b \o i.who.user
  BY DEF Slot
<1> DEFINE d == j.dataset  p == j.who.purpose  u == j.who.user
           dd == i.dataset  pp == i.who.purpose  uu == i.who.user
<1>4. d = dd /\ p = pp /\ c = b /\ u = uu
  <2>1. AllJoinAlike(d, p, c, u, dd, pp, b, uu)
    BY <1>3 DEF AllJoinAlike
  <2>2. /\ d \in Name /\ p \in Name /\ u \in Name /\ dd \in Name /\ pp \in Name /\ uu \in Name
        /\ c \in Name /\ b \in Name /\ OnePiece(d) /\ OnePiece(p) /\ OnePiece(c) /\ OnePiece(u)
    BY <1>1, <1>2
  <2> HIDE DEF d, p, u, dd, pp, uu
  <2> QED BY <2>1, <2>2, PlainNames
<1>5. j.who = i.who
  BY <1>4, JobFields, WhosAssumption
<1> QED BY <1>4, <1>5

\* A file's metadata unwraps each of its keys that was asked for under names
\* without a separator, and such a key serves no two purposes, users, datasets
\* or columns, separators in the other names or not (pme_encrypt.rs:132-156).
THEOREM KeysStayBound == Spec => []KeysBound
<1>1. IInv => KeysBound
  <2> SUFFICES ASSUME IInv PROVE FilesUnwrap /\ KeysNotShared
    BY DEF KeysBound
  <2>1. ASSUME NEW f \in files, NEW m \in f.keys
        PROVE  /\ f.job \in Jobs /\ m.column \in AnyColumn /\ m.dataset = f.job.dataset
               /\ m.key \in 1 .. Len(minted) /\ MintedSlot(m.key) = Slot(f.job, m.column)
    <3>1. m.dataset = f.job.dataset /\ MintedFor(m.key, f.job, m.column)
      BY DEF IInv, FilesBound
    <3>2. f.job \in Jobs /\ m.column \in AnyColumn
      BY DEF IInv, TypeOK, File, Metadata
    <3> QED BY <3>1, <3>2 DEF MintedFor
  <2>2. FilesUnwrap
    <3> SUFFICES ASSUME NEW f \in files, NEW m \in f.keys, Plain(f.job, m.column)
                 PROVE  /\ m.key \in 1 .. Len(minted)
                        /\ minted[m.key].dataset = m.dataset /\ minted[m.key].column = m.column
      BY DEF FilesUnwrap
    <3>1. minted[m.key] \in Mint
      BY <2>1 DEF IInv, TypeOK
    <3> QED BY <2>1, <3>1, PlainMinted DEF IInv, Mint, MintedSlot
  <2>3. KeysNotShared
    <3> SUFFICES ASSUME NEW f \in files, NEW g \in files, NEW m \in f.keys, NEW n \in g.keys,
                        m.key = n.key, Plain(f.job, m.column)
                 PROVE  f.job.who = g.job.who /\ m.dataset = n.dataset /\ m.column = n.column
      BY DEF KeysNotShared
    <3>1. Slot(g.job, n.column) = Slot(f.job, m.column)
      BY <2>1
    <3>2. g.job.dataset \in Datasets /\ g.job.who \in Whos
      BY <2>1, JobFields
    <3> QED BY <2>1, <3>1, <3>2, PlainMinted DEF IInv
  <2> QED BY <2>2, <2>3
<1> QED BY <1>1, Invariance, PTL

\* Callers that ask at the same time get one key: a cached key is replaced by
\* another only after it expired (pme_encrypt.rs:134-137).
THEOREM OneKeyAtATime == Spec => CachedKeyKept
<1>1. IInv /\ [Next]_vars =>
        \A s \in Slots : cache[s] # NoKey /\ cache'[s] # cache[s] => cache'[s] = NoKey
  <2> SUFFICES ASSUME IInv, [Next]_vars, NEW s \in Slots, cache[s] # NoKey, cache'[s] # cache[s]
               PROVE  cache'[s] = NoKey
    OBVIOUS
  <2>1. ASSUME NEW p \in Writers, WrapSucceeds(p) PROVE FALSE
    <3>1. SlotOf(p) = s
      BY <2>1 DEF WrapSucceeds, IInv, TypeOK
    <3>2. leader[s] = p
      BY <2>1, <3>1 DEF WrapSucceeds, IInv, OneLeader
    <3> QED BY <3>2, NamesAssumption DEF IInv, OneLeader
  <2>2. ASSUME NEW t \in Slots, Expire(t) PROVE cache'[s] = NoKey
    BY <2>2 DEF Expire, IInv, TypeOK
  <2>3. cache' = cache \/ (\E p \in Writers : WrapSucceeds(p)) \/ (\E t \in Slots : Expire(t))
    BY DEF Next, Call, Ask, Wrap, Store, Flush, vars, callVars, cacheVars, flushVars, Begin, Hit, Lead, Follow,
       WrapFails, Register, StoreSucceeds, StoreFails, FlushTakes, FlushEnds, FlushFails
  <2> QED BY <2>1, <2>2, <2>3
<1> QED BY <1>1, Invariance, PTL DEF Spec, CachedKeyKept

\* No key of a stored file is dropped between registration and flushes
\* (write_orchestrator.rs:211-221 and 313).
THEOREM NothingForgotten == Spec => []NoEntryForgotten
<1>1. IInv => NoEntryForgotten
  BY DEF IInv
<1> QED BY <1>1, Invariance, PTL

\* Whoever finds a stored file finds its keys: in its metadata, the right ones
\* where no name holds a separator, and the same ones on their way to the
\* sidecar.
THEOREM Recoverable == Spec => []KeysRecoverable
<1>1. KeysBound /\ NoEntryForgotten => KeysRecoverable
  BY DEF KeysRecoverable
<1> QED BY <1>1, KeysStayBound, NothingForgotten, PTL

-----------------------------------------------------------------------------
(* The read side: KeyCache.                                                *)

\* who is past RecordShred has recorded
Ordered ==
    /\ \A d \in Deks : shred[d] \in {"recorded", "deleted", "ok"} => d \in recorded
    /\ RecordedBeforeDestroyed

DekIInv == DekTypeOK /\ Ordered

LEMMA CacheKeysTyped ==
    ASSUME NEW d \in Deks, NEW u \in Users PROVE <<d, u>> \in CacheKeys /\ <<d>> \in CacheKeys
BY DEF CacheKeys, CacheKey, IdKey

LEMMA WantedTyped ==
    ASSUME DekTypeOK, NEW r \in Readers
    PROVE  /\ want[r] \in Deks \X Users
           /\ want[r][1] \in Deks /\ want[r][2] \in Users
           /\ CacheKeyOf(r) \in CacheKeys
BY CacheKeysTyped DEF DekTypeOK, CacheKeyOf, CacheKey

LEMMA DekInitially == DekInit => DekIInv
BY TtlAssumption DEF DekInit, DekIInv, DekTypeOK, Ordered, RecordedBeforeDestroyed, ReaderState, ShredState

LEMMA DekTypeStep == DekTypeOK /\ [DekNext]_dekVars => DekTypeOK'
<1> SUFFICES ASSUME DekTypeOK, [DekNext]_dekVars PROVE DekTypeOK'
    OBVIOUS
<1> USE TtlAssumption DEF DekTypeOK, ReaderState, ShredState, NotCached
<1>1. CASE UNCHANGED dekVars
      BY <1>1 DEF dekVars, readerVars, shredVars
<1>2. ASSUME NEW r \in Readers, NEW d \in Deks, NEW u \in Users, BeginUnwrap(r, d, u) PROVE DekTypeOK'
      BY <1>2 DEF BeginUnwrap, Goto, shredVars
<1>3. ASSUME NEW r \in Readers,
             CacheHit(r) \/ FindExpired(r) \/ Miss(r) \/ KmsUnwraps(r) \/ KmsRefuses(r)
      PROVE  DekTypeOK'
      BY <1>3 DEF CacheHit, FindExpired, Miss, KmsUnwraps, KmsRefuses, Goto, shredVars
<1>4. ASSUME NEW r \in Readers, LazyRemove(r) \/ Insert(r) PROVE DekTypeOK'
      BY <1>4, WantedTyped DEF LazyRemove, Insert, Goto, shredVars
<1>5. ASSUME NEW d \in Deks, RecordShred(d) \/ DeleteKey(d) \/ DeleteFails(d) PROVE DekTypeOK'
      BY <1>5 DEF RecordShred, DeleteKey, DeleteFails, readerVars
<1>6. ASSUME NEW d \in Deks, DropFromCache(d) PROVE DekTypeOK'
      BY <1>6 DEF DropFromCache, readerVars
<1>7. CASE Sweep \/ Tick
      BY <1>7 DEF Sweep, Tick, readerVars, shredVars
<1> QED BY <1>1, <1>2, <1>3, <1>4, <1>5, <1>6, <1>7 DEF DekNext, Unwrap, Shred

LEMMA OrderedStep == DekIInv /\ [DekNext]_dekVars => Ordered'
<1> SUFFICES ASSUME DekIInv, [DekNext]_dekVars PROVE Ordered'
    OBVIOUS
<1> USE DEF DekIInv, DekTypeOK, Ordered, RecordedBeforeDestroyed
<1>1. ASSUME UNCHANGED shredVars PROVE Ordered'
      BY <1>1 DEF shredVars
<1>2. ASSUME NEW d \in Deks, Shred(d) PROVE Ordered'
      BY <1>2 DEF Shred, RecordShred, DeleteKey, DeleteFails, DropFromCache
<1> QED BY <1>1, <1>2 DEF DekNext, Unwrap, dekVars, BeginUnwrap, CacheHit, FindExpired, LazyRemove, Miss, KmsUnwraps,
                          KmsRefuses, Insert, Sweep, Tick

LEMMA DekInductive == DekSpec => []DekIInv
<1>1. DekIInv /\ [DekNext]_dekVars => DekIInv'
      BY DekTypeStep, OrderedStep DEF DekIInv
<1> QED BY DekInitially, <1>1, PTL DEF DekSpec

\* Every variable of the cache, its readers and the shreds keeps its type.
THEOREM DekTypeCorrect == DekSpec => []DekTypeOK
BY DekInductive, PTL DEF DekIInv

\* No key is destroyed without a recorded event, however often a shred failed
\* and was repeated (kms_admin.rs:37-60).
THEOREM Recorded == DekSpec => []RecordedBeforeDestroyed
BY DekInductive, PTL DEF DekIInv, Ordered

-----------------------------------------------------------------------------
(* A sealed key.                                                           *)

\* a slot that is empty or expired stays so unless an unwrapped key is put there
LEMMA StaysEmpty ==
    ASSUME DekTypeOK, [DekNext]_dekVars, NEW s \in CacheKeys, ~(cached[s] > 0),
           \A r \in Readers : at[r] = "unwrapped" => CacheKeyOf(r) # s
    PROVE  ~(cached'[s] > 0)
<1>a. cached[s] \in {NotCached} \cup 0 .. Ttl /\ cached \in [CacheKeys -> {NotCached} \cup 0 .. Ttl]
      BY DEF DekTypeOK
<1> USE TtlAssumption DEF NotCached
<1>1. CASE cached' = cached
      BY <1>1
<1>2. ASSUME NEW r \in Readers, LazyRemove(r) PROVE ~(cached'[s] > 0)
      BY <1>2, <1>a, WantedTyped DEF LazyRemove
<1>3. ASSUME NEW r \in Readers, Insert(r) PROVE ~(cached'[s] > 0)
      BY <1>3, <1>a, WantedTyped DEF Insert
<1>4. ASSUME NEW e \in Deks, DropFromCache(e) PROVE ~(cached'[s] > 0)
      BY <1>4, <1>a, CacheKeysTyped DEF DropFromCache, IdKey
<1>5. CASE Sweep
      BY <1>5, <1>a DEF Sweep
<1>6. CASE Tick
      BY <1>6, <1>a DEF Tick
<1> QED BY <1>1, <1>2, <1>3, <1>4, <1>5, <1>6 DEF DekNext, Unwrap, Shred, dekVars, BeginUnwrap, CacheHit, FindExpired,
           Miss, KmsUnwraps, KmsRefuses, RecordShred, DeleteKey, DeleteFails

LEMMA SealedCache ==
    ASSUME DekTypeOK, NEW d \in Deks, Sealed(d), [DekNext]_dekVars
    PROVE  ~Fresh(d)'
<1> SUFFICES ASSUME NEW u \in Users PROVE ~(cached'[<<d, u>>] > 0)
    BY DEF Fresh, CacheKey
<1>1. ~(cached[<<d, u>>] > 0)
      BY DEF Sealed, Fresh, CacheKey
<1>2. ASSUME NEW r \in Readers, at[r] = "unwrapped" PROVE CacheKeyOf(r) # <<d, u>>
      BY <1>2 DEF Sealed, InFlight, CacheKeyOf, CacheKey, DekOf
<1> QED BY <1>1, <1>2, CacheKeysTyped, StaysEmpty

\* What a step does to a reader that wants a sealed key: it begins, or it goes
\* on without being given the key.
LEMMA SealedReader ==
    ASSUME DekTypeOK, NEW d \in Deks, Sealed(d), [DekNext]_dekVars, NEW r \in Readers, want'[r][1] = d
    PROVE  /\ at'[r] # "unwrapped"
           /\ at'[r] = "granted" => at[r] = "granted" /\ want'[r] = want[r]
<1> USE DEF Goto
<1>1. ASSUME at' = at, want' = want PROVE at'[r] # "unwrapped"
      BY <1>1 DEF Sealed, InFlight, DekOf
<1>2. ASSUME NEW q \in Readers, NEW e \in Deks, NEW u \in Users, BeginUnwrap(q, e, u)
      PROVE  /\ at'[r] # "unwrapped"
             /\ at'[r] = "granted" => at[r] = "granted" /\ want'[r] = want[r]
  <2>1. CASE q = r
        BY <1>2, <2>1 DEF BeginUnwrap, DekTypeOK
  <2>2. CASE q # r
        BY <1>2, <2>2 DEF BeginUnwrap, DekTypeOK, Sealed, InFlight, DekOf
  <2> QED BY <2>1, <2>2
<1>3. ASSUME NEW q \in Readers, Unwrap(q)
      PROVE  /\ at'[r] # "unwrapped"
             /\ at'[r] = "granted" => at[r] = "granted" /\ want'[r] = want[r]
  <2>1. want' = want
        BY <1>3 DEF Unwrap, CacheHit, FindExpired, LazyRemove, Miss, KmsUnwraps, KmsRefuses, Insert
  <2>2. CASE q # r
    <3>1. at'[r] = at[r]
          BY <1>3, <2>2 DEF Unwrap, CacheHit, FindExpired, LazyRemove, Miss, KmsUnwraps, KmsRefuses,
             Insert, DekTypeOK
    <3> QED BY <2>1, <3>1 DEF Sealed, InFlight, DekOf
  <2>3. CASE q = r
    <3>1. d \in destroyed /\ DekOf(r) = d /\ at[r] # "unwrapped"
          BY <2>1 DEF Sealed, InFlight, DekOf
    <3>2. ~(cached[CacheKeyOf(r)] > 0)
          BY <3>1, WantedTyped DEF Sealed, Fresh, CacheKeyOf, DekOf
    <3> QED BY <1>3, <2>3, <3>1, <3>2 DEF Unwrap, CacheHit, FindExpired, LazyRemove, Miss, KmsUnwraps,
               KmsRefuses, Insert, DekTypeOK
  <2> QED BY <2>2, <2>3
<1>4. CASE at' = at /\ want' = want
      BY <1>1, <1>4
<1> QED BY <1>2, <1>3, <1>4 DEF DekNext, dekVars, readerVars, Shred, RecordShred, DeleteKey, DeleteFails,
                               DropFromCache, Sweep, Tick

LEMMA DestroyedStays == [DekNext]_dekVars => destroyed \subseteq destroyed'
BY DEF DekNext, dekVars, shredVars, Unwrap, BeginUnwrap, CacheHit, FindExpired, LazyRemove, Miss, KmsUnwraps, KmsRefuses,
       Insert, Shred, RecordShred, DeleteKey, DeleteFails, DropFromCache, Sweep, Tick

\* A destroyed key that has left the cache with no answer on its way never
\* comes back, and no read is granted it (crypto_manager.rs:99-130).
THEOREM StaysSealed == DekSpec => SealedForGood
<1>1. DekTypeOK /\ [DekNext]_dekVars =>
        [\A d \in Deks : Sealed(d) =>
            /\ Sealed(d)'
            /\ \A r \in Readers :
                    DekOf(r)' = d /\ at'[r] = "granted" => at[r] = "granted" /\ want'[r] = want[r]]_dekVars
  <2> SUFFICES ASSUME DekTypeOK, [DekNext]_dekVars, NEW d \in Deks, Sealed(d)
               PROVE  /\ Sealed(d)'
                      /\ \A r \in Readers : DekOf(r)' = d /\ at'[r] = "granted" =>
                            at[r] = "granted" /\ want'[r] = want[r]
      OBVIOUS
  <2>1. d \in destroyed'
        BY DestroyedStays DEF Sealed
  <2>2. ~InFlight(d)'
        BY SealedReader DEF InFlight, DekOf
  <2> QED BY <2>1, <2>2, SealedCache, SealedReader DEF Sealed, DekOf
<1> QED BY <1>1, DekTypeCorrect, PTL DEF DekSpec, SealedForGood
=============================================================================
