------------------------------ MODULE WriteKeys ------------------------------
(***************************************************************************)
(* The write side of the keys: PmeEncryptor::generate_or_get_dek           *)
(* (crypto/pme_encrypt.rs), which mints a data key per dataset, purpose,   *)
(* column and user and keeps it in a moka cache; write()                   *)
(* (manager/write_orchestrator.rs), which asks for the keys of a file,     *)
(* files their wrapped form under the partition's root and stores the      *)
(* file; the Python Writer, which asks for keys the same way and files     *)
(* none; and flush_partition, which uploads what is filed under a root as  *)
(* that partition's sidecar object.                                        *)
(*                                                                         *)
(* A key is its position in minted.  A purpose and a user form one who:    *)
(* both are part of the cache's key, and neither is of the associated data *)
(* the key is wrapped with.                                                *)
(*                                                                         *)
(* The cache's key joins four names with the separator "|", which any name *)
(* may hold as well.  A name is therefore the sequence of the pieces its   *)
(* separators cut it into, <<"ssn">> or, for a|b, <<"a", "b">>: joining is *)
(* concatenation, and different names may join to the same key.            *)
(***************************************************************************)
EXTENDS Naturals, Sequences, FiniteSets

CONSTANTS
    Writers,    \* calls of write(), or of write_batch of a Python Writer
    Flushers,   \* callers of flush_partition
    Roots,      \* partition roots
    Pieces,     \* texts without a separator
    Datasets,   \* contract names
    Whos,       \* purposes and users, each who a record of both
    Columns,    \* columns a policy may ask to encrypt
    Jobs,       \* what the calls may be about
    MaxKeys     \* bound: keys the KMS wraps

Name == Seq(Pieces) \ {<<>>}
Footer == <<"__footer__">>
AnyColumn == Columns \cup {Footer}
Keys == 1 .. MaxKeys
NoKey == 0
Nobody == "nobody"
Absent == "absent"

\* registers: the call files its keys for the sidecar, as write() does
Job == [root : Roots, dataset : Datasets, who : Whos, columns : SUBSET Columns, registers : BOOLEAN]

ASSUME DatasetsAssumption == Datasets \subseteq Name
ASSUME WhosAssumption == Whos \subseteq [purpose : Name, user : Name]
ASSUME ColumnsAssumption == Columns \subseteq Name
ASSUME FooterAssumption == Footer \in Name \ Columns
ASSUME MaxKeysAssumption == MaxKeys \in Nat
ASSUME JobsAssumption == Jobs \subseteq Job
ASSUME NamesAssumption == Nobody \notin Writers /\ Absent \notin Roots

\* what the KMS wrapped: a key for a dataset and a column, and who asked
Mint == [dataset : Datasets, who : Whos, column : AnyColumn]
SidecarKeyEntry == [who : Whos, column : AnyColumn, key : Keys]
\* the key metadata a file carries: the wrapped key and its associated data
Metadata == [dataset : Datasets, column : AnyColumn, key : Keys]
File == [job : Jobs, keys : SUBSET Metadata]

\* without the user
Slot_anyUser(j, c) == j.dataset \o j.who.purpose \o c

\* cache_key of generate_or_get_dek, for the names of j and column c
Slot(j, c) == j.dataset \o j.who.purpose \o c \o j.who.user
Slots == {Slot(j, c) : j \in Jobs, c \in AnyColumn}

VARIABLES
    minted,     \* the keys the KMS has wrapped, in order
    cache,      \* cache[s]: the key write_dek_cache holds for slot s
    leader,     \* leader[s]: the call whose closure mints the key of slot s
    pc,         \* pc[p]: where call p is
    job,        \* job[p]: what it is about
    column,     \* column[p]: the column it last asked a key for
    got,        \* got[p][c]: the key it has for column c
    sidecar,    \* sidecar_deks: the entries filed under each root
    taken,      \* taken[f]: the root and the entries flush f carries
    object,     \* object[r]: the keys of r/_holonomy_keys.json
    sent,       \* sent[r]: history, every entry a flush of r took up
    files       \* files in the store

cacheVars == <<minted, cache, leader>>
callVars == <<pc, job, column, got>>
flushVars == <<taken, object, sent>>
vars == <<cacheVars, callVars, sidecar, flushVars, files>>

Ended == {"ok", "failed"}
PC == {"idle", "ask", "wrapping", "waiting", "store"} \cup Ended
Nothing == [root |-> Absent, keys |-> {}]

TypeOK ==
    /\ minted \in Seq(Mint) /\ Len(minted) <= MaxKeys
    /\ cache \in [Slots -> {NoKey} \cup Keys]
    /\ leader \in [Slots -> {Nobody} \cup Writers]
    /\ pc \in [Writers -> PC]
    /\ job \in [Writers -> Jobs]
    /\ column \in [Writers -> AnyColumn]
    /\ got \in [Writers -> [AnyColumn -> {NoKey} \cup Keys]]
    /\ sidecar \in [Roots -> SUBSET SidecarKeyEntry]
    /\ taken \in [Flushers -> [root : Roots \cup {Absent}, keys : SUBSET SidecarKeyEntry]]
    /\ object \in [Roots -> SUBSET SidecarKeyEntry]
    /\ sent \in [Roots -> SUBSET SidecarKeyEntry]
    /\ files \subseteq File

Init ==
    /\ minted = <<>>
    /\ cache = [s \in Slots |-> NoKey]
    /\ leader = [s \in Slots |-> Nobody]
    /\ pc = [p \in Writers |-> "idle"]
    /\ job \in [Writers -> Jobs]
    /\ column = [p \in Writers |-> Footer]
    /\ got = [p \in Writers |-> [c \in AnyColumn |-> NoKey]]
    /\ sidecar = [r \in Roots |-> {}]
    /\ taken = [f \in Flushers |-> Nothing]
    /\ object = [r \in Roots |-> {}]
    /\ sent = [r \in Roots |-> {}]
    /\ files = {}

GoTo(p, state) == pc' = [pc EXCEPT ![p] = state]

-----------------------------------------------------------------------------
(* generate_or_get_dek: try_get_with of the moka cache runs one closure    *)
(* per slot at a time; who asks meanwhile waits and gets its result, a key *)
(* or an error, and an error is not kept.                                  *)

Begin(p) ==
    /\ pc[p] = "idle"
    /\ GoTo(p, "ask")
    /\ UNCHANGED <<cacheVars, job, column, got, sidecar, flushVars, files>>

\* the footer's key alone
Missing_footer(p) == IF got[p][Footer] = NoKey THEN {Footer} ELSE {}

\* the footer's key first, then one column after the other
Missing(p) ==
    IF got[p][Footer] = NoKey THEN {Footer} ELSE {c \in job[p].columns : got[p][c] = NoKey}

SlotOf(p) == Slot(job[p], column[p])

Hit(p, c) ==
    /\ pc[p] = "ask" /\ c \in Missing(p)
    /\ cache[Slot(job[p], c)] # NoKey
    /\ column' = [column EXCEPT ![p] = c]
    /\ got' = [got EXCEPT ![p][c] = cache[Slot(job[p], c)]]
    /\ UNCHANGED <<cacheVars, pc, job, sidecar, flushVars, files>>

\* look up, then wrap, with nothing that keeps a second caller out
Lead_unguarded(p, c) ==
    /\ pc[p] = "ask" /\ c \in Missing(p)
    /\ cache[Slot(job[p], c)] = NoKey
    /\ column' = [column EXCEPT ![p] = c]
    /\ leader' = [leader EXCEPT ![Slot(job[p], c)] = p]
    /\ GoTo(p, "wrapping")
    /\ UNCHANGED <<minted, cache, job, got, sidecar, flushVars, files>>

Lead(p, c) ==
    /\ pc[p] = "ask" /\ c \in Missing(p)
    /\ cache[Slot(job[p], c)] = NoKey
    /\ leader[Slot(job[p], c)] = Nobody
    /\ column' = [column EXCEPT ![p] = c]
    /\ leader' = [leader EXCEPT ![Slot(job[p], c)] = p]
    /\ GoTo(p, "wrapping")
    /\ UNCHANGED <<minted, cache, job, got, sidecar, flushVars, files>>

Follow(p, c) ==
    /\ pc[p] = "ask" /\ c \in Missing(p)
    /\ cache[Slot(job[p], c)] = NoKey
    /\ leader[Slot(job[p], c)] # Nobody
    /\ column' = [column EXCEPT ![p] = c]
    /\ GoTo(p, "waiting")
    /\ UNCHANGED <<cacheVars, job, got, sidecar, flushVars, files>>

\* those a result of p's closure is for
Served(p) == {p} \cup {q \in Writers : pc[q] = "waiting" /\ SlotOf(q) = SlotOf(p)}

WrapSucceeds(p) ==
    /\ pc[p] = "wrapping"
    /\ Len(minted) < MaxKeys
    /\ minted' = Append(minted,
            [dataset |-> job[p].dataset, who |-> job[p].who, column |-> column[p]])
    /\ cache' = [cache EXCEPT ![SlotOf(p)] = Len(minted')]
    /\ leader' = [leader EXCEPT ![SlotOf(p)] = Nobody]
    /\ got' = [q \in Writers |->
            IF q \in Served(p) THEN [got[q] EXCEPT ![column[q]] = Len(minted')] ELSE got[q]]
    /\ pc' = [q \in Writers |-> IF q \in Served(p) THEN "ask" ELSE pc[q]]
    /\ UNCHANGED <<job, column, sidecar, flushVars, files>>

\* the error ends p's call alone
WrapFails_untold(p) ==
    /\ pc[p] = "wrapping"
    /\ leader' = [leader EXCEPT ![SlotOf(p)] = Nobody]
    /\ GoTo(p, "failed")
    /\ UNCHANGED <<minted, cache, job, column, got, sidecar, flushVars, files>>

\* the KMS refuses or is not there: every call it was for ends with the error
WrapFails(p) ==
    /\ pc[p] = "wrapping"
    /\ leader' = [leader EXCEPT ![SlotOf(p)] = Nobody]
    /\ pc' = [q \in Writers |-> IF q \in Served(p) THEN "failed" ELSE pc[q]]
    /\ UNCHANGED <<minted, cache, job, column, got, sidecar, flushVars, files>>

\* time_to_live
Expire(s) ==
    /\ cache[s] # NoKey
    /\ cache' = [cache EXCEPT ![s] = NoKey]
    /\ UNCHANGED <<minted, leader, callVars, sidecar, flushVars, files>>

-----------------------------------------------------------------------------
(* The rest of write(): the wrapped keys are filed under the partition's   *)
(* root, then the file is written with its key metadata.  Whether and when *)
(* an upload commits is WritePipeline's concern.                           *)

Wanted(p) == {Footer} \cup job[p].columns

Entries(p) ==
    {[who |-> job[p].who, column |-> c, key |-> got[p][c]] : c \in Wanted(p)}

\* get_writer_properties_builder
FileKeys(p) ==
    {[dataset |-> job[p].dataset, column |-> c, key |-> got[p][c]] : c \in Wanted(p)}

Register(p) ==
    /\ pc[p] = "ask" /\ Missing(p) = {}
    /\ sidecar' = IF job[p].registers
                  THEN [sidecar EXCEPT ![job[p].root] = @ \cup Entries(p)]
                  ELSE sidecar
    /\ GoTo(p, "store")
    /\ UNCHANGED <<cacheVars, job, column, got, flushVars, files>>

Stored(p) == [job |-> job[p], keys |-> FileKeys(p)]

StoreSucceeds(p) ==
    /\ pc[p] = "store"
    /\ files' = files \cup {Stored(p)}
    /\ GoTo(p, "ok")
    /\ UNCHANGED <<cacheVars, job, column, got, sidecar, flushVars>>

\* an error, after which the file may be there all the same
StoreFails(p) ==
    /\ pc[p] = "store"
    /\ files' \in {files, files \cup {Stored(p)}}
    /\ GoTo(p, "failed")
    /\ UNCHANGED <<cacheVars, job, column, got, sidecar, flushVars>>

-----------------------------------------------------------------------------
(* flush_partition: the entries leave the map before they are uploaded,    *)
(* and each upload replaces the whole object.                              *)

FlushTakes(f, r) ==
    /\ taken[f] = Nothing
    /\ sidecar[r] # {}
    /\ taken' = [taken EXCEPT ![f] = [root |-> r, keys |-> sidecar[r]]]
    /\ sent' = [sent EXCEPT ![r] = @ \cup sidecar[r]]
    /\ sidecar' = [sidecar EXCEPT ![r] = {}]
    /\ UNCHANGED <<cacheVars, callVars, object, files>>

FlushEnds(f) ==
    /\ taken[f] # Nothing
    /\ object' = [object EXCEPT ![taken[f].root] = taken[f].keys]
    /\ taken' = [taken EXCEPT ![f] = Nothing]
    /\ UNCHANGED <<cacheVars, callVars, sidecar, sent, files>>

\* the entries are lost, unless the object was replaced all the same
FlushFails(f) ==
    /\ taken[f] # Nothing
    /\ object' \in {object, [object EXCEPT ![taken[f].root] = taken[f].keys]}
    /\ taken' = [taken EXCEPT ![f] = Nothing]
    /\ UNCHANGED <<cacheVars, callVars, sidecar, sent, files>>

-----------------------------------------------------------------------------

Ask(p) == \E c \in AnyColumn : Hit(p, c) \/ Lead(p, c) \/ Follow(p, c)
Wrap(p) == WrapSucceeds(p) \/ WrapFails(p)
Store(p) == StoreSucceeds(p) \/ StoreFails(p)
Call(p) == Ask(p) \/ Wrap(p) \/ Register(p) \/ Store(p)
Flush(f) == FlushEnds(f) \/ FlushFails(f) \/ \E r \in Roots : FlushTakes(f, r)

Next ==
    \/ \E p \in Writers : Begin(p) \/ Call(p)
    \/ \E f \in Flushers : Flush(f)
    \/ \E s \in Slots : Expire(s)

Spec == Init /\ [][Next]_vars

\* A call that was begun goes on, and the KMS and the store answer it, with an
\* error at worst.  Nothing has to be begun, flushed or to expire.
FairSpec == Spec /\ \A p \in Writers : WF_vars(Call(p))

-----------------------------------------------------------------------------
(* Safety.                                                                 *)

\* none of the names the key of column c is asked with holds the separator
Plain(j, c) == \A n \in {j.dataset, j.who.purpose, c, j.who.user} : Len(n) = 1

\* the associated data a file names for a key is what it was wrapped with
FilesUnwrap ==
    \A f \in files : \A m \in f.keys :
        Plain(f.job, m.column) =>
            /\ m.key \in 1 .. Len(minted)
            /\ minted[m.key].dataset = m.dataset
            /\ minted[m.key].column = m.column

KeysNotShared ==
    \A f, g \in files : \A m \in f.keys, n \in g.keys :
        m.key = n.key /\ Plain(f.job, m.column) =>
            f.job.who = g.job.who /\ m.dataset = n.dataset /\ m.column = n.column

\* A key asked for with names that hold no "|" is unwrapped by the file's
\* metadata (pme_encrypt.rs:74 and 99), and shared by two files only for one
\* dataset, column, purpose and user, however many caches, waits and calls with
\* names of any kind it came through.  The associated data names no purpose and
\* no user: only the cache's key (pme_encrypt.rs:132) keeps these apart.  Of
\* names with a "|" nothing is promised: two of them may share a key, wrapped
\* for the column or the contract of one.
KeysBound == FilesUnwrap /\ KeysNotShared

\* Every key of a file that write() stored is on its way to the sidecar, or
\* was taken up by a flush: calls that register while a flush is uploading
\* lose nothing, whatever the order in which they and several flushes go.
NoEntryForgotten ==
    \A f \in files : f.job.registers =>
        \A m \in f.keys :
            [who |-> f.job.who, column |-> m.column, key |-> m.key]
                \in sidecar[f.job.root] \cup sent[f.job.root]

\* Whoever finds a stored file finds keys for it: in its metadata, the right
\* ones where no name holds the separator, and the same ones on their way to
\* its partition's sidecar.
KeysRecoverable == KeysBound /\ NoEntryForgotten

\* A cached key stays until it expires: callers that ask at the same time get
\* one key, and none is minted next to it.
CachedKeyKept ==
    [][\A s \in Slots : cache[s] # NoKey /\ cache'[s] # cache[s] => cache'[s] = NoKey]_vars

-----------------------------------------------------------------------------
(* Liveness, under FairSpec.                                               *)

\* Every call returns, those that waited for another call's key included.
CallsReturn == \A p \in Writers : pc[p] = "ask" ~> pc[p] \in Ended
=============================================================================
