------------------------------ MODULE KeyCache ------------------------------
(***************************************************************************)
(* The read side of the keys: DekCache (crypto/dek_cache.rs), a concurrent *)
(* map whose entries expire; CryptoManager::unwrap_key                     *)
(* (manager/crypto_manager.rs), which looks a wrapped DEK up in it and     *)
(* asks the KMS on a miss; and KmsAdmin::shred_partition                   *)
(* (crypto/kms_admin.rs), which destroys a key at the KMS and then removes *)
(* it from the cache.  Any number of readers run unwrap_key concurrently   *)
(* (read, scan, the Parquet key retriever, the sidecar warm-up).           *)
(*                                                                         *)
(* unwrap_key files an entry under sha256(wrapped DEK, user);              *)
(* shred_partition removes the entry filed under the key's id.  Both kinds *)
(* of cache key are modelled as what they are, tuples that are never       *)
(* equal.                                                                  *)
(*                                                                         *)
(* An entry is its remaining time to live; Tick is the clock.  Nothing     *)
(* else is counted, so the model needs no bound.                           *)
(*                                                                         *)
(* KeyProofs extends this module and WriteKeys, so the usual names carry   *)
(* the prefix Dek.                                                         *)
(***************************************************************************)
EXTENDS Integers, FiniteSets

CONSTANTS
    Deks,       \* wrapped keys
    Users,      \* user contexts
    Readers,    \* threads in unwrap_key
    Ttl         \* default_ttl, in ticks

ASSUME TtlAssumption == Ttl \in Nat \ {0}

NotCached == -1

CacheKey(d, u) == <<d, u>>  \* the hash unwrap_key computes
IdKey(d) == <<d>>           \* the dek_id given to shred_partition
CacheKeys == {CacheKey(d, u) : d \in Deks, u \in Users} \cup {IdKey(d) : d \in Deks}

VARIABLES
    cached,     \* cached[s]: remaining ticks, 0 when expired, NotCached
    at,         \* at[r]: where reader r is in unwrap_key
    want,       \* want[r]: the DEK it wants, for which user
    late,       \* late[r]: its call began after shred_partition returned Ok
    shred,      \* shred[d]: where shred_partition(d) is
    recorded,   \* keys with a Shred event in the audit buffer
    destroyed   \* keys the KMS no longer has

readerVars == <<at, want, late>>
shredVars == <<shred, recorded, destroyed>>
dekVars == <<cached, readerVars, shredVars>>

ReaderState == {"idle", "check", "expired", "calling", "unwrapped", "granted", "denied"}
ShredState == {"idle", "recorded", "deleted", "ok", "err"}

DekTypeOK ==
    /\ cached \in [CacheKeys -> {NotCached} \cup (0 .. Ttl)]
    /\ at \in [Readers -> ReaderState]
    /\ want \in [Readers -> Deks \X Users]
    /\ late \in [Readers -> BOOLEAN]
    /\ shred \in [Deks -> ShredState]
    /\ recorded \subseteq Deks
    /\ destroyed \subseteq Deks

DekInit ==
    /\ cached = [s \in CacheKeys |-> NotCached]
    /\ at = [r \in Readers |-> "idle"]
    /\ want \in [Readers -> Deks \X Users]
    /\ late = [r \in Readers |-> FALSE]
    /\ shred = [d \in Deks |-> "idle"]
    /\ recorded = {}
    /\ destroyed = {}

DekOf(r) == want[r][1]
CacheKeyOf(r) == CacheKey(want[r][1], want[r][2])
Goto(r, state) == at' = [at EXCEPT ![r] = state]

-----------------------------------------------------------------------------
(* CryptoManager::unwrap_key and DekCache::get                             *)

BeginUnwrap(r, d, u) ==
    /\ at[r] \in {"idle", "granted", "denied"}
    /\ want' = [want EXCEPT ![r] = <<d, u>>]
    /\ late' = [late EXCEPT ![r] = (shred[d] = "ok")]
    /\ Goto(r, "check")
    /\ UNCHANGED <<cached, shredVars>>

CacheHit_inclusive(r) ==
    /\ at[r] = "check"
    /\ cached[CacheKeyOf(r)] >= 0
    /\ Goto(r, "granted")
    /\ UNCHANGED <<cached, want, late, shredVars>>

CacheHit_renewsTtl(r) ==
    /\ at[r] = "check"
    /\ cached[CacheKeyOf(r)] > 0
    /\ cached' = [cached EXCEPT ![CacheKeyOf(r)] = Ttl]
    /\ Goto(r, "granted")
    /\ UNCHANGED <<want, late, shredVars>>

CacheHit(r) ==
    /\ at[r] = "check"
    /\ cached[CacheKeyOf(r)] > 0
    /\ Goto(r, "granted")
    /\ UNCHANGED <<cached, want, late, shredVars>>

\* seen expired under the read guard, which is released before the removal
FindExpired(r) ==
    /\ at[r] = "check"
    /\ cached[CacheKeyOf(r)] = 0
    /\ Goto(r, "expired")
    /\ UNCHANGED <<cached, want, late, shredVars>>

LazyRemove(r) ==
    /\ at[r] = "expired"
    /\ cached' = [cached EXCEPT ![CacheKeyOf(r)] = NotCached]
    /\ Goto(r, "calling")
    /\ UNCHANGED <<want, late, shredVars>>

Miss(r) ==
    /\ at[r] = "check"
    /\ cached[CacheKeyOf(r)] = NotCached
    /\ Goto(r, "calling")
    /\ UNCHANGED <<cached, want, late, shredVars>>

\* kms_provider.decrypt_dek(..).await
KmsUnwraps(r) ==
    /\ at[r] = "calling"
    /\ DekOf(r) \notin destroyed
    /\ Goto(r, "unwrapped")
    /\ UNCHANGED <<cached, want, late, shredVars>>

\* the key is gone, the context does not match, or the KMS is unavailable
KmsRefuses(r) ==
    /\ at[r] = "calling"
    /\ Goto(r, "denied")
    /\ UNCHANGED <<cached, want, late, shredVars>>

Insert_extraTick(r) ==
    /\ at[r] = "unwrapped"
    /\ cached' = [cached EXCEPT ![CacheKeyOf(r)] = Ttl + 1]
    /\ Goto(r, "granted")
    /\ UNCHANGED <<want, late, shredVars>>

Insert(r) ==
    /\ at[r] = "unwrapped"
    /\ cached' = [cached EXCEPT ![CacheKeyOf(r)] = Ttl]
    /\ Goto(r, "granted")
    /\ UNCHANGED <<want, late, shredVars>>

-----------------------------------------------------------------------------
(* KmsAdmin::shred_partition, which may be repeated after an error         *)

RecordShred_after(d) ==
    /\ shred[d] \in {"idle", "err"}
    /\ shred' = [shred EXCEPT ![d] = "recorded"]
    /\ UNCHANGED <<cached, readerVars, destroyed, recorded>>

RecordShred(d) ==
    /\ shred[d] \in {"idle", "err"}
    /\ recorded' = recorded \cup {d}
    /\ shred' = [shred EXCEPT ![d] = "recorded"]
    /\ UNCHANGED <<cached, readerVars, destroyed>>

DeleteKey(d) ==
    /\ shred[d] = "recorded"
    /\ destroyed' = destroyed \cup {d}
    /\ shred' = [shred EXCEPT ![d] = "deleted"]
    /\ UNCHANGED <<cached, readerVars, recorded>>

\* an error status, or no answer: the key may be gone all the same
DeleteFails(d) ==
    /\ shred[d] = "recorded"
    /\ destroyed' \in {destroyed, destroyed \cup {d}}
    /\ shred' = [shred EXCEPT ![d] = "err"]
    /\ UNCHANGED <<cached, readerVars, recorded>>

DropFromCache(d) ==
    /\ shred[d] = "deleted"
    /\ cached' = [cached EXCEPT ![IdKey(d)] = NotCached]
    /\ shred' = [shred EXCEPT ![d] = "ok"]
    /\ UNCHANGED <<readerVars, recorded, destroyed>>

-----------------------------------------------------------------------------

\* DekCache::sweep
Sweep ==
    /\ cached' = [s \in CacheKeys |-> IF cached[s] = 0 THEN NotCached ELSE cached[s]]
    /\ UNCHANGED <<readerVars, shredVars>>

Tick ==
    /\ \E s \in CacheKeys : cached[s] > 0
    /\ cached' = [s \in CacheKeys |-> IF cached[s] > 0 THEN cached[s] - 1 ELSE cached[s]]
    /\ UNCHANGED <<readerVars, shredVars>>

Unwrap(r) ==
    \/ CacheHit(r) \/ FindExpired(r) \/ LazyRemove(r) \/ Miss(r)
    \/ KmsUnwraps(r) \/ KmsRefuses(r) \/ Insert(r)

Shred(d) == RecordShred(d) \/ DeleteKey(d) \/ DeleteFails(d) \/ DropFromCache(d)

DekNext ==
    \/ \E r \in Readers : Unwrap(r) \/ \E d \in Deks, u \in Users : BeginUnwrap(r, d, u)
    \/ \E d \in Deks : Shred(d)
    \/ Sweep
    \/ Tick

DekSpec == DekInit /\ [][DekNext]_dekVars

\* Time passes and a call that was begun goes on; nobody has to begin a call,
\* shred a key or run a sweep.
DekFairSpec == DekSpec /\ WF_dekVars(Tick) /\ \A r \in Readers : WF_dekVars(Unwrap(r))

-----------------------------------------------------------------------------
(* Safety.                                                                 *)

\* "Record Action::Shred in the audit logs BEFORE the irreversible action"
\* (kms_admin.rs:37), also across failed and repeated calls.
RecordedBeforeDestroyed == destroyed \subseteq recorded

\* a plaintext copy of d that a read could still be given
Fresh(d) == \E u \in Users : cached[CacheKey(d, u)] > 0
InFlight(d) == \E r \in Readers : DekOf(r) = d /\ at[r] = "unwrapped"
Sealed(d) == d \in destroyed /\ ~Fresh(d) /\ ~InFlight(d)

\* Once a destroyed key has left the cache and no answer of the KMS is on its
\* way to it, it never comes back, and no read is granted it.
SealedForGood ==
    [][\A d \in Deks : Sealed(d) =>
            /\ Sealed(d)'
            /\ \A r \in Readers :
                    DekOf(r)' = d /\ at'[r] = "granted" => at[r] = "granted" /\ want'[r] = want[r]]_dekVars

\* "Drop key from local cache to ensure subsequent reads fail."
\* (kms_admin.rs:62): a read that begins after the shred returned Ok is denied.
ShredStopsReads == \A r \in Readers : late[r] => at[r] # "granted"

-----------------------------------------------------------------------------
(* Liveness, under DekFairSpec.                                             *)

\* Whatever the readers do, hits included, a destroyed key is sealed after a
\* while: entries expire and are not renewed, and calls in flight end.
EventuallySealed == \A d \in Deks : d \in destroyed ~> Sealed(d)
=============================================================================
