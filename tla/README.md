# Holonomy: TLA+ models, checks and proofs

Holonomy is a governance layer for Parquet files in object stores. A Rust core
(`src/holonomy-core`) encrypts, audits, filters and masks; a Python extension
(`src/holonomy-py`) and a command line (`src/holonomy-cli`) sit on top of it. This
directory holds TLA+ models of the core's concurrent and fault-prone parts, TLC
configurations that check them on small instances, and TLAPS proofs for every value
of the constants.

Every definition is translated from the source; `PROJECT.json` maps each one to its
lines and lists the runs, the mutants that show each property can fail, the hazards of
the code and the theorems.

    tlc -config WritePipeline.cfg MCWritePipeline     # a run
    tlapm WritePipelineProofs.tla                     # proofs (a minute or two each)
    tlapm ScanProofs.tla                              # and so the other *Proofs.tla

## 1. Inventory

Paths are relative to `src/holonomy-core/src` unless they start with `src/`.

| Component | State | Operations | Talks to | Hard behaviour | What makes it correct |
|---|---|---|---|---|---|
| **WriteOrchestrator** `manager/write_orchestrator.rs` | per call: a bounded channel, a blocking serializer thread; `sidecar_deks` | `write`, `flush_partition` | linter, policies, keys, audit buffer, uploader | the serializer runs beside the upload; either can fail first; the dying sink flushes on Drop | one audited, all-or-nothing put with an honest result that always returns |
| **S3 multipart uploader** `crypto/pme_encrypt.rs` 166-510 | join set, semaphore of 8, part list, abort guard | `upload_stream`, `upload_file` | object store | parts finish out of order; lost answers; the abort is detached | complete only after the explicit `Success` item, parts sorted, otherwise abort |
| **Python Writer** `src/holonomy-py/src/writer.rs`, `manager/channel_writer.rs` | `WriterState` between calls, a serialization thread | `write_batch`, `__exit__` | linter, uploader, audit buffer | errors between calls; exceptions in the block; the exit fills a channel nobody reads yet | the stored file is exactly the accepted batches, an exception stores nothing |
| **AuditRingBuffer** `audit/ring_buffer.rs` | bounded lock-free queue (1000) | `push`, `pop`, `len` | every operation; broadcaster | the push-evict loop is not atomic | nothing vanishes, the oldest goes first |
| **AuditBroadcaster** `audit/broadcaster.rs` | batch, retry counter, sink | `run` | ring buffer, stdout / file / HTTP sink | lost answers, endless failure, unflushed file writes, no shutdown | per-thread order, at-least-once within a budget, progress |
| **DekCache** `crypto/dek_cache.rs` | concurrent map with expiry | `insert`, `get`, `remove`, `sweep` | CryptoManager, KmsAdmin | check-then-remove without the lock | no expired key is handed out |
| **CryptoManager** `manager/crypto_manager.rs` | none of its own | `resolve_dek`, `unwrap_key`, `wrap_key`, `warm_dek_cache`, `retrieve_key` | KMS, DekCache | a KMS answer is inserted after the key was destroyed | a destroyed key is unreadable in the end |
| **KmsAdmin** `crypto/kms_admin.rs` | none of its own | `shred_partition` | KMS, DekCache, audit buffer | partial failure between audit, delete and cache | recorded before destroyed; later reads fail |
| **PmeEncryptor, WriteDekCache** `crypto/pme_encrypt.rs` 23-163 | write keys by (dataset, purpose, column, user), 900 s | `generate_or_get_dek`, `configure_*` | KMS | concurrent misses (moka single flight), expiry | one live key per slot, failures are not cached |
| **Sidecar** `manager/sidecar.rs`, write_orchestrator 194-221, 312-332 | wrapped keys per partition | register, flush, read back on scan | object store | flush removes before it uploads, while calls register and other flushes run | every key of a written file is filed, and taken up by a flush |
| **ReadOrchestrator** `manager/read_orchestrator.rs` | none | `read` | policies, keys, governance, audit | audit on some failure paths only | nothing unmasked or unfiltered leaves |
| **ScanOrchestrator** `manager/scan_orchestrator.rs` | prefetch pipeline: `buffered(2)`, `mpsc(2)`, `mpsc(10)` | `scan`, `ScanIterator::next` | the same | two bounded channels, an iterator that may be dropped, errors inside and between files | batches in file order, filtered, no hang |
| **GovernanceManager** `manager/governance_manager.rs`, `governance/simd_ops.rs` | none | `resolve_active_role`, `apply_rls`, `evaluate_filter` | manifests, JWT roles | several matching roles; integer casts | deterministic role, masks and filters |
| **PolicyManager, manifests** `manager/policy_manager.rs`, `policy/manifest.rs` | none | `verify`, `merge_layers`, `resolve_columns_to_encrypt` | providers, signer | merge order, tag matching | a lower layer never weakens encryption by accident |
| **Policy providers, signer** `policy/*_provider.rs`, `policy/signer.rs` | none | fetch, sign, verify | object store, files | missing layers | only verified manifests are used |
| **Predicates and pruning** `ingestion/s3_client.rs` 441-712 | none | `parse_filter`, `evaluate_statistics`, `get_pruned_*` | footers | off-by-one, type mismatch | never skips a row group that holds a matching row |
| **Ingestion clients** `ingestion/*` | none | ranged fetches, footer parsing | object store, files | byte arithmetic at the end of a file | the right bytes |
| **Linter** `linter/validator.rs` | none | `validate` | contracts | rules that do not fit a type, types it has no name for | what it lets in fits the schema a scan makes of the contract |
| **Engine, configuration** `src/holonomy-py/src/lib.rs`, `config/resolver.rs` | process-wide `OnceLock`s | `init`, `get_engine_state`, the cascade | everything | two threads build the engine at once | one configuration, one engine |
| **Authentication** `auth/jwt_validator.rs`, `src/holonomy-cli/src/cmd_auth.rs`, `src/holonomy-py/python/holonomy/__init__.py` | token file | validate, device login poll, write identity | identity provider | polling, expiry, slow-down | no unvalidated role is used |
| **License** `manager/license_manager.rs` | one flag | `validate`, `is_enterprise` | engine | the flag is never cleared | a configured license decides |
| **Schema tools** `schema/*` | none | drift, footers, listing, registry | object store | pagination | drift is reported |
| **KMS adapters** `adapters/*` | clients | wrap, unwrap, delete | AWS, GCP, Vault | outages | pure I/O; modelled as nondeterministic answers |
| **Command line** `src/holonomy-cli/src` | none | commands, contract generation, output | core | | formatting |

How they interact. `write()` lints the batch against its contract, picks the columns to
encrypt from the merged policies, obtains write keys (PmeEncryptor, which asks the KMS
and caches), spawns the serializer, records a Write event in the ring buffer and joins
serializer and `upload_stream` over a channel. `read()` and `scan()` unwrap keys through
CryptoManager and DekCache (the Parquet reader calls back into `retrieve_key`), apply
filters and masks, and record Read or Deny events. The broadcaster empties the ring
buffer in the background. `shred_partition` destroys a key at the KMS. All of it runs on
one tokio runtime plus its blocking pool.

## 2. Modules

    AtomicPut          <-- WritePipeline (refinement)
    UploadStream       <-- WritePipeline, PyWriter (EXTENDS)
    WritePipeline      <-- MCWritePipeline, WritePipelineProofs
    PyWriter           <-- MCPyWriter, PyWriterProofs
    WriteKeys          <-- MCWriteKeys
    ScanResult         <-- ScanPipeline (refinement) <-- MCScanPipeline
    Predicates         <-- ScanRows (EXTENDS)        <-- MCScanRows
    Policy             <-- GovernedRead (EXTENDS)    <-- MCGovernedRead, GovernedReadProofs
    Policy, Linter     <-- GovernedScan              <-- MCGovernedScan, GovernedScanProofs
    EngineStart        <-- MCEngineStart, EngineStartProofs
    AuditPipeline      <-- AuditPipelineProofs
    ScanRows, ScanPipeline  <-- ScanProofs
    WriteKeys, KeyCache     <-- KeyProofs

Where one proof module extends two specifications, the second one's common names carry a
prefix: `PipeSpec`, `PipeTypeOK` in `ScanPipeline`, `DekSpec`, `DekTypeOK` in `KeyCache`.

**UploadStream** models `upload_stream`, its channel, its spawned part tasks, its guard
and the multipart API of the store. The loop of `select!` is `AcquirePermit`, `RecvData`,
`RecvSuccess`, `RecvNone`, `JoinOk`, `JoinErr`; the drain and the completion are
`AbortIncomplete`, `SendComplete`, `CompleteAcked`, `CompleteRefused`,
`CompleteTimesOut`. A request and its answer are separate steps, so the service may
commit after the client gave up, a dropped task's request may still land, and the
guard's abort may come before or after a commit. Payloads are abstract values. The
sending end belongs to the modules that extend it.

**WritePipeline** adds `write()` and the serializer thread with its `ChannelWriter` sink.
The guards before the serializer are one action, `Reject`, with one error each. The file
is its chunks `1..NumChunks`; what a dying sink flushes on Drop is the chunk `Torn`.
`Crash` ends the process at any point, `Storage` goes on.

**AtomicPut** is what a caller may rely on: the event is recorded, then the object may
appear once and whole, the outcome `Ok` requires that it did, and an error says nothing
either way. `ImplementsAtomicPut` maps channels, parts and threads away.

**PyWriter** adds the `with` block of `holonomy.Writer` over the same uploader:
`write_batch` (first call and later calls differ), the thread of
`manager::channel_writer`, the oneshot, and the exit paths.

**WriteKeys** is what `write()` and the Python writer do before they serialize:
`generate_or_get_dek` over moka's single flight, where one call leads (`Lead`,
`WrapSucceeds`, `WrapFails`) and the others for the same slot wait (`Follow`), with
expiry at any time; then the registration of the wrapped keys under the partition's root
and `flush_partition`, whose take and upload are separate steps. A key is its position in
the order of minting; `minted` remembers what each was wrapped for, so that a file's
metadata can be held against it. The Python writer asks for keys and registers none. A
name is a sequence of pieces, none of which holds a `|`, and a slot is the sequence of all
four names' pieces: two different asks may have one slot, as they may in the code, which
joins the names with `|` and does not escape it.

**AuditPipeline** is the ring buffer with its non-atomic push loop, and the broadcaster
with its three sinks. The file sink's writes sit in `pool` until the blocking pool gets
to them, because the code never flushes.

**KeyCache** is `DekCache` with a clock, `unwrap_key` split at every point where another
thread can run, and `shred_partition` with its partial failures. Slots are tuples:
`<<dek, user>>` as `unwrap_key` hashes them, `<<dek>>` as `shred_partition` removes them.

**ScanPipeline** is the control of `scan()`: its guards (`Reject`), the prefetch task
(`OpenFile`, `Yield`, `SendStream`: futures make progress only while `buffered` is
polled, and it hands them over in order), the scan task (`TakeStream` to `SendOpenError`;
an error inside a file goes on with the next one, one at opening ends the scan), and
`ScanIterator` on the caller's thread, which may be dropped at any point. A panic drops
a task's channel ends and nothing else, since nobody joins the tasks. A file is the
number of batches its surviving row groups give.

**ScanResult** is what a caller may rely on: the batches file by file in order, cut short
only by an error, or a panic. `ImplementsScanResult` hides tasks, channels and prefetching.

**Predicates** holds the two readings of a predicate: `evaluate_statistics`, in 64 bits
and in bytes, and `evaluate_filter`, in the column's own type after a cast. Both keep the
code's case distinctions; text is a rank, an `i32` has `2 * Half` values, a byte `Base`.
**ScanRows** uses them to decide which rows leave: `Plan` chooses the filters against the
first file, `PruneGroup` is the loop of `get_pruned_row_groups`, `ReadGroup` and
`FilterFails` the filter loop of the scan task. User predicates only prune, as
documented. Schemas are flat.

**Policy** holds the governance operators: `Merge` (`PolicyManifest::merge`, where masks
and bindings override, filters and encryption requirements add up, the least sampling cap
wins), `ToEncrypt` (`resolve_columns_to_encrypt`), `ActiveRole` (`resolve_active_role`)
and `apply_rls` with its leak check and the choice of the strongest mask. Whether a
policy's key matches a column name is a relation given twice, since the write side looks
for a substring and the read side for a word between underscores; tags keep their case,
which only the write side folds. **GovernedRead** puts them under `write()` and `read()`:
each call discovers its layers anew (`Discover`), folds them one by one in precedence
(`MergeLayer`), and then stores a file, encrypting what the merge asks for (`Store`), or
opens one and passes it through filters (`Plan`, `Prune`, `ReadGroup`) and masks
(`Mask`), with every early return and the audit events on the way. The file
provider answers with any number of `Local` layers in directory order, the S3 provider
with one `Global` layer; the trait lets a provider mix levels in any order, and the
manager sorts and folds whatever it gets. The properties speak about the
unmerged layers, so that a fault of the merge shows in what a caller receives.

**Linter** is `validate` and `to_arrow_schema` as operators: the errors of a batch are a
set of kinds and columns; which values break which rule is part of the batch.
**GovernedScan** puts it in front of `write()` and `scan()`: files come into the store
through the linter, or from another tool (`Deposit`); `Plan` settles filters, columns,
schema and the audit event on the first file; then every file is opened with its own
encryption and tags (`OpenFile`), filtered, masked or padded column by column
(`MaskColumn`, `PadColumn`, `ColumnDenied`), and fitted to the schema (`SendBatch`,
`SchemaFails`). A request has the columns of its own predicates; which columns'
statistics ruled out row groups of a file is chosen when it is opened, among those of
policy filters and predicates the file has. The merged policy is taken as given, since `GovernedRead` makes it, and
files are handled in turn, since `ScanPipeline` shows that this is what a caller sees.

**EngineStart** is the start of a process: `init()` and `get_config()` over one
`OnceLock`, `get_engine_state()` over another, called by any threads. A configuration is
a function of the fields the engine's start depends on; a layer sets some of them, a
file may be missing or malformed. `resolve_configuration` is the cascade of the code;
`ConfigAgreed` holds it against the ranking of the sources. An audit buffer is a number,
and `listened` are those a broadcaster drains.

## 3. Runs

| Run | Bounds | Shows (distinct states) |
|---|---|---|
| `write` | 4 chunks, channel 1, 2 permits | `Safe`, `HonestErrors`, `ImplementsAtomicPut`, `Settles` (61 237) |
| `audit` | 2 pushers x 2 events, buffer 2, batch 2, 1 retry, every sink | `Conservation`, `DeliveryOrder`, `Drained` (21 718) |
| `keys` | 1 key, 2 users, 2 readers, TTL 2 | `RecordedBeforeDestroyed`, `SealedForGood`, `EventuallySealed` (18 462) |
| `key_shred` | same | violated: a read that begins after a shred returned Ok is granted the key |
| `write_keys` | 2 calls of 3 jobs, 2 users, 2 columns and the footer, 2 flushes, 4 keys | `KeysRecoverable`, `CachedKeyKept`, `CallsReturn` (183 763) |
| `pywriter` | 4 batches, batch channel 2, 2 permits | `ExitTellsTruth`, `ExitEnds` (5 036) |
| `scan` | 6 files of 0 to 2 batches, 2 open ahead, channels of 2 and 1 | `BoundedOpenFiles`, `ImplementsScanResult`, `ScanEnds` (90 768) |
| `rows` | 3 columns, 1 or 2 files of 1 or 2 row groups, up to 2 predicates, `i32` of 16 values | `GlobalFiltersEnforced`, `NoMatchingRowLost` (24 571) |
| `rows_date` | same | violated: equality with a date prunes row groups that hold it |
| `governed_read` | 2 calls, 9 answers of discovery of 0 to 4 layers, 2 contracts, 18 requests, 2 files | `UnmaskedIsGranted`, `FiltersAccumulate`, `EncryptionAgrees`, `TrailIsTruthful` (129 687) |
| `governed_scan` | 2 files of 5 batches, 4 contracts, 4 policies, 7 requests | `EachFileGoverned`, `LintedFilesFit`, `AuditCoversAccess` (487 871) |
| `engine` | 2 threads x 2 calls, 4 surroundings, 4 argument layers | `ConfigAgreed`, `EngineAgreed`, `CallsReturn` (31 566) |

Every run also checks its module's `TypeOK` (`PipeTypeOK`, `DekTypeOK`). Some properties
are conjunctions of named parts, each with a comment of its own where it is defined: `Safe` of `WholeOrNothing`,
`AuditBeforeEffect`, `OkMeansVisible`; `HonestErrors` of `FailedMeansInvisible`,
`NoSpuriousFailure`; `Settles` of `Returns`, `NoOrphanUpload`; `DeliveryOrder` of
`OldestFirst`, `FullAfterOverflow`, `SinkOrder`, `RetryBudget`; `KeysRecoverable` of
`FilesUnwrap`, `KeysNotShared`, `NoEntryForgotten`; `ExitTellsTruth` of `WrittenInOrder`,
`ExceptionWritesNothing`, `OkMeansStored`, `AuditAgrees`, `OpenedByLintedBatch`;
`UnmaskedIsGranted` of `GrantedByAName`, `HighestStands`; `EncryptionAgrees` of
`WrittenSealed`, `RequiredNeverBare`, `OwnPoliciesReadable`. `Drained` has a premise for
its first half, `PostsAnswered`.

`write_keys` and `engine` do not check for deadlock, because they may stop: calls are
made once, or up to a bound, and nobody has to flush. That nobody waits for ever is
`CallsReturn`.

Why these bounds are enough to meet the interesting cases. Four chunks over a channel of
one and two permits make the serializer block on the channel, the loop block on a permit
and parts finish in every order, with a failure before, between and after. Four events
over a buffer of two make both pushers find it full while the broadcaster drains it, and
two batches of two show reordering. Two readers are what a race on one cache entry
needs; a TTL of two separates fresh, ageing and expired. Two calls of three jobs share a
slot, share only the dataset, or have different names that join to one cache key, one of
them through the Python writer; a key may expire between them, hence four keys. Four batches over a channel of two make the caller wait for the
thread. Six files with two ahead, two in the channel
and one being read fill the scan to its limit; empty files come first, last and between.
Two calls are what it takes to write a file under one set of policies and read it under
another, or the same; the layers of `governed_read` agree, override one another upwards
and downwards, tie on a level, bind a purpose to different roles, and one fails its
signature; columns are matched by word, by substring only, by a tag in another case, or
not at all, and a column may answer to two names on which the layers differ.
The contracts of `governed_scan` add a column, change a type and name one the linter does
not know; a file may lack a column, hold another type, nulls or broken rules, be tagged
or encrypted unlike the first one, or have passed no linter. Its requests have predicates
on a column they ask for, on one they do not, on a hidden one, or none. The surroundings of `engine`
have a provider of each kind, a malformed file in front of a good one, a weaker layer set
against a stronger one, and settings that can, cannot or may be built from; two calls let
a thread fail first and come back.
The literals of `rows` lie inside, at the edge of and beyond an `i32`; its files have
statistics or not, nulls, an all-null column, and lack columns in the first or a later
file.

What the violated runs say:

* `kms_admin.rs:62` drops the key from the cache "to ensure subsequent reads fail", but
  under an id no reader uses: reads succeed until the entry expires. `EventuallySealed`
  and `SealedForGood` say what does hold.
* `s3_client.rs:587`, "we must not prune to avoid dropping valid data": an equality with
  a date literal compares text with the little-endian statistics of a Date32 column.

`GlobalFiltersEnforced` has a proviso the code needs. A literal outside `i32` is cast
before it is compared with an Int32 or Date32 column (`simd_ops.rs:62`), so
`x > 2147483648` filters by `x > -2147483648`. Where a row group has statistics they rule
it out first, and the property holds (theorem `FilterSound`); without statistics it does
not. Two more things `ScanRows` shows: a file with none of the projected columns yields
no rows, where `read()` yields one null per row of the file, and a global filter on a
column a later file lacks ends that file with an error rather than the scan.

What the code leaves open, and the properties therefore do not say:

* The cache key joins contract, purpose, column and user by `|` (`pme_encrypt.rs:132`) and
  nothing keeps a `|` out of them. Two users, or two columns, whose names join to the same
  text share a slot, and a file may get a key wrapped for the other. `FilesUnwrap` and
  `KeysNotShared` speak of plain names (`Plain`); the run has a pair that is not.
* Of several keys and tags that name one column the most permissive mask wins, whatever
  layers they come from (`governance_manager.rs:161-181`), so a lower layer's PLAINTEXT
  under another key or tag lifts a higher layer's mask. Keys match as words of the name,
  where `docs/policy_authoring.md:30` maps exact names. `GrantedByAName` says what a grant
  needs, `HighestStands` when the highest layer's word is final.
* Write and read match encryption requirements differently (`policy_manager.rs:143,154`,
  `governance_manager.rs:122-146`). A column a policy names only by a part, or by a tag in
  another case, is encrypted by a write under that policy and handed out bare from a file
  written before it. `WrittenSealed` holds the write's sense against the policies of the
  write, `RequiredNeverBare` the read's sense against those of the read.
* The caller's predicates choose row groups by their columns' statistics
  (`scan_orchestrator.rs:472-476`, `906-918`), but the audit event names only
  the columns asked for and those of policy filters (`scan_orchestrator.rs:496-508`), where
  `docs/api/audit_api.md:14` lists the columns "requested/processed". `AuditCoversAccess`
  says what is exempt: columns of the caller's own predicates that are not asked for.
* A POST that is never answered holds the broadcaster for good, since its client has no
  timeout (`broadcaster.rs:45`, `132`); from then on the buffer only evicts. `Drained`
  promises that events are settled if posts are answered, and that pushes return anyway.
* A call with no role, or with several and no choice among them, gets columns in the clear
  unfiltered; `FiltersAccumulate` speaks of the role a call acts under.
* `PruningSound` leaves out dates compared for equality, the case of `rows_date`. `Prune`
  of `GovernedRead` drops only row groups without a matching row, so what it shows of
  the rows of such a filter has the same exception.
* Two threads meet inside a build of the engine only on a Python without a global
  interpreter lock: with one, the lock is held through the build. `engine` has both.

Observations without a run:

* The eviction in `push` may hit a buffer the broadcaster has drained meanwhile
  (`ring_buffer.rs:45` calls it full), and the lazy removal in `DekCache::get` may remove
  an entry another reader has just renewed (one more KMS call, nothing else).
* A process that dies leaves its upload open at the store: the guard's Drop and its
  detached abort run in that process (`docs/4_producer_path_secure_data_ingestion.md:63`).
  A panic in a task of a scan closes its channel ends, and the iterator ends as after a
  finished scan (`docs/8_troubleshooting_safety_and_best_practices.md:10`).
* A caller with several matching roles and nothing to choose between them is refused only
  for encrypted columns: role filters are skipped and public columns returned
  (`docs/policy_authoring.md:99` says the query is rejected). `ActsAs` names no role then.
* `write_batch` lints only while it has no state (`writer.rs:65`): later batches are
  stored unchecked, where `docs/contract_authoring.md:7` has a contract evaluated at
  write time. What holds is `OpenedByLintedBatch`.
* `scan()` looks for the column of a selective filter in the first target only
  (`scan_orchestrator.rs:454`): a later one that has it is delivered unfiltered, where
  `docs/policy_authoring.md:29` applies the filter if the dataset contains the column.
  Policies, too, are discovered for the first target only.
* `sampling_cap`, a hard limit in `docs/policy_authoring.md:32`, is merged to the least of
  the layers, and nothing on the read path looks at it.
* A column absent from the first file and from the contract gets Arrow's Null type, so a
  later file that has it ends with a schema error; so does a file in which a required
  numeric column is masked to nulls (the proviso of `LintedFilesFit`), and one with
  nothing but hidden columns left (`DropFails`).
* Errors of `scan()` before its event, a denial by a filter included, leave no event.
* `flush_partition` uploads a `SidecarMetadata` object (`sidecar.rs:11`) and the scan's
  warm-up parses a bare list (`scan_orchestrator.rs:262-276`), ignoring failures: it warms
  nothing. A flush replaces the object, and a failed one loses what it took, so what
  `KeysRecoverable` promises of the sidecar ends with the flush's taking the keys up; the
  keys a reader needs are in the file itself.
* Every build of an engine that fails or loses the race leaves its broadcaster running on
  a buffer nobody pushes to (`lib.rs:210-223`).
* `init()` after any first use fails. It has no argument for the license, and a configured
  license that is invalid ends the search (`license_manager.rs:39-129`), before the
  bucket is asked. A malformed TOML file counts as absent, yet in the project crawl it
  hides the files above it (`resolver.rs:243-257`).
* The linter has no name for `LargeUtf8`, and compares a range as `f64`.
* Files of one directory of policies are layers in the order the file system lists them
  (`local_provider.rs:35`). With nested columns a field's position is used as a leaf's
  (`s3_client.rs:683`).
* The CLI truncates the token file and writes it again, so that a Python call at the same
  time may find it empty (`cmd_auth.rs`).
* A filter `parse_filter` finds no operator in is dropped; `FiltersAccumulate` says so.
* A mask of any other name, standing alone, leaves values as they are, which
  `UnmaskedIsGranted` admits as `"NULL"`. `HASH` nulls columns that are not text, where
  `docs/policy_authoring.md:39` has them untouched.
* A tag required in upper case is never encrypted on the write side, which folds the
  column's tags and not the policy's, and is matched on the read side: files written
  under such a policy are refused as leaks. Hence `LowerCase` in `OwnPoliciesReadable`.
* Layers of one level override each other in the order the provider lists them.

## 4. Fairness

* The runtime and the blocking pool run what is ready: weak fairness of the caller, the
  serializer, the upload loop, the broadcaster, the pool and a reader inside a call.
  `select!` polls its branches from a random start, so one weak fairness for the loop as
  a whole is enough: every branch makes progress towards the end of the stream.
* Requests to the object store and the KMS are answered, successfully or not; their SDKs
  turn silence into an error. Weak fairness is on the disjunction of the answers, so
  failures are never forced. The broadcaster's POST has no such client: nothing in
  `FairSpec` of `AuditPipeline` forces an answer, and the half of `Drained` that needs one
  has it as its premise.
* `scan`: the runtime polls both tasks, and a caller that did not drop the iterator goes
  on reading; it may drop it instead, which fairness never forces. `ScanRows`,
  `GovernedRead` and `GovernedScan` are sequential and have only safety properties.
* `write_keys`: a call that began goes on while it can, that is, its task is polled and
  the KMS and the store answer, with an error at worst (`WF_vars(Call(p))`). A waiting
  call has no step of its own; only its leader ends its wait. `engine`: a thread inside a
  call is scheduled, and what it awaits in `block_on` answers or fails
  (`WF_vars(Runs(t))`). No call has to be made, no key to expire, no flush to be begun.
* Time passes (`Tick`). Nobody is forced to call, shred, sweep, fail or crash.

## 5. Proofs

`WritePipelineProofs` proves, for every file length, channel capacity and number of
permits: `TypeCorrect` (`TypeOK`), `Safety` (`Safe`, from `Atomicity`, `AuditFirst` and
`OkVisible`, one for each part), `Refinement` (`ImplementsAtomicPut`) and `Honesty`
(`HonestErrors`). They rest only on the named assumptions of the modules.

None of the properties is inductive. `IInv` strengthens them with four parts:

* `CallInv` relates where `write()` is to what may exist: nothing is sent before the
  event is recorded, nothing is returned before both sides ended.
* `StreamInv` is the heart of atomicity. While the stream is intact, what the uploader
  took (`body`), then what is in the channel, is the prefix of the file the serializer
  has sent; a `Torn` chunk or the `Success` item can only be last, after `Torn` no
  `Success` ever follows, and `success` therefore means `body = WholeFile`.
* `TasksInv` relates tasks, parts and the completed list: each joined part occurs once,
  so when the join set is empty and nothing failed the list is a permutation of
  `1..Len(body)`.
* `CompleteInv`: a completion was sent only for the whole file, and only a commit makes
  the object visible.

`CommitWhole` combines them: sorting a permutation of `1..n` gives `1..n`
(`SortedParts1N`, by cardinality), so a commit writes exactly `WholeFile`. The step
lemmas (`CallNext`, `StreamNext`, `TasksNext`, `CompleteNext`) have one case per action;
`Refinement` maps each step to a step of `AtomicPut` or a stutter.

`Honesty` needs a second invariant, `HonestInv`, that accounts for failures: `PlaceInv`
says which stages of call, serializer and uploader go together; `SerializerInv` that a
serializer which ended well leaves `Success` behind, so that a drained stream without it
means a serializer failure; `ServiceInv` that the service holds what the uploader was
told of and nobody aborts while it works, so that the completion of a whole file is
accepted (`WholeAccepted`) unless it fails; `ErrorInv` adds up the causes.

`ScanProofs` has two parts. Of the rows (`ScanRows`) it proves, for every set of files and
queries and every width, that
statistics never rule out a row group with a matching row (`PruningSound`), that what
passes both halves of a predicate satisfies it (`FilterSound`), `TypeCorrect`,
`FiltersEnforced` (`GlobalFiltersEnforced`) and `NothingLost` (`NoMatchingRowLost`). The
assumptions are that columns are typed and that a writer's statistics bound its values.
The lemmas about one predicate are arithmetic: `WrapInRange` (a literal that fits
survives the cast) is what makes the halves agree, and a literal that does not fit is
beyond every bound, so the statistics decide as the predicate says. The invariant adds
what the loops have done so far: `OutInv` (a delivered row survived pruning and filter)
gives enforcement, `ProgressInv` (every row group behind the loop is settled: pruned
with cause, or delivered) gives completeness, `PolicyInv` and `KeptInv` tie policy and
kept row groups to the query.

Of the tasks (`ScanPipeline`) it proves, for every list of files, all three capacities and
every interleaving, `PipeTypeCorrect` (`PipeTypeOK`), `FilesBounded` (`BoundedOpenFiles`)
and `ScanRefinement` (`ImplementsScanResult`). `FlowInv` counts a file through the
pipeline: what was handed over is in the channel of streams, in the prefetch task's hands
or taken, in order, and the scan task is in the file it took last. `AheadInv` keeps what
`buffered` opened within `OpenAhead` of what it handed over, which with the channel's
capacity bounds the open files (`Cardinality` of an interval and three singletons).
`ChainInv` says that the last item the caller got, followed by the channel of batches, is
a chain in which each item `Follows` the one before; `SenderInv` that the scan task stands
where the last item it sent left it, so that the next one it sends extends the chain. The
refinement then has one case per action: taking the head of the channel is a step of
`ScanResult` because the chain says so, its end is allowed because a task that ended
unbroken sent everything or a fatal error, and all else is a stutter.

`PyWriterProofs` proves, for every set of batches, every capacity of the batch channel and
any number of permits, `TypeCorrect` (`TypeOK`) and `ExitTruthful` (`ExitTellsTruth`, all
five parts). `ThreadInv`: the thread's buffer followed by its channel is what the caller
was told is accepted, and a buffer that was handed over is all of it; a first batch is
one the linter let in. `StreamInv` and `StoreInv`: `__exit__` puts both items on the
upload's channel before `upload_stream` starts and keeps a sender until it returns, so
the upload has the file as its one part, always finds `Success` behind it, and is
completed only after that part was joined; that a commit then stores the file is
`SingletonPart`. `ExitInv` ties the block's place and result to the upload's:
an exception leaves the service untouched, `Ok` follows commit and event, and a commit
without an event has a timeout or a crash behind it. `TypeOK` itself is not inductive (a
batch appended to a full file would leave `Files`): its bounds come from the count of
calls.

`GovernedReadProofs` proves, for all policies, contracts, requests and files, every
property of `governed_read`: `TypeCorrect`, `Granted` (`UnmaskedIsGranted`), `Filtered`
(`FiltersAccumulate`), `Agreed` (`EncryptionAgrees`, from `SealedAsWritten`, `NeverBare`
and `Readable`) and `Truthful` (`TrailIsTruthful`). The assumptions are that
constants are typed, that `None` is no value, and `KeysAssumption`: a key that stands
between underscores in a padded column name is a substring of the name. The heart is
`MergeInv`, that the policy under construction is the `MergeOf` the layers folded so far:
each overriding entry `Represents` the last of them that says anything (`OrRepresents`
extends this by one layer, because a layer is folded after all its predecessors), and
requirements and filters are in the merge if and only if a layer has them (`AddsUp`).
When all layers are folded, `Decides` identifies the last speaker with the `CHOOSE` of
the properties, since precedence is antisymmetric, and `ActiveIsActing` turns the code's
search for a role into `ActsAs`. For `Granted`, `WordsAreMasks` identifies what the merged
manifest says of the column with the words the layers leave standing, name by name, and
`Highest` with `OnlySay` that a layer above all others whose names cover theirs is the one
that speaks under each name, so that merged masks are its masks (`MaskedFor`). `EncryptInv` keeps for the stored file what its own
layers wanted encrypted. `CallInv`, `OutInv` and `ResultInv` tie the call's place, rows
and result to the merge.

`GovernedScanProofs` proves, for all contracts, batches, policies and requests, every
property of `governed_scan`: `TypeCorrect`, `Governed` (`EachFileGoverned`), `LintedFit`
(`LintedFilesFit`) and `Covered` (`AuditCoversAccess`), from the assumptions that
constants are typed and that a batch has nulls only in nullable fields. The invariant
remembers in the store what the linter let in (`LintInv`), says that what was settled on
the first file does not change (`SettledInv`) and that maps and batch are those of the
file at hand (`PlaceInv`); so each array is what this file, the contract and the policy
make of it (`CellsInv`), and what was sent is such a batch (`ItemInv`). `PrunedInv`
keeps what ruled out row groups of the open file within policy filters, which the event
names, and the caller's predicates.

`KeyProofs` has two parts. Of the write keys (`WriteKeys`) it proves, for every set of
calls, flushes, users and columns,
`TypeCorrect`, `Recoverable` (`KeysRecoverable`, from `KeysStayBound` and
`NothingForgotten`) and `OneKeyAtATime` (`CachedKeyKept`). `OneLeader` is the heart: a
slot has at most one call that wraps for it, and none once it has a key. A key then sits
in a slot, in a call's hands or in a file only for what it was minted for (`CacheBound`,
`CallsBound`, `FilesBound`), up to the joined text of its four names. What turns this into
`KeysBound` is `PlainNames`: four names of one piece each can be read back from what they
join to, so a plain ask shares its slot with no other. What a call filed stays in the map
or was taken up (`CallsFiled`).

Of the key cache (`KeyCache`) it proves, for every set of keys, users and readers and every
time to live, `DekTypeCorrect` (`DekTypeOK`), `Recorded` (`RecordedBeforeDestroyed`, which
needs that a shred past its first step is recorded) and `StaysSealed` (`SealedForGood`:
`SlotStaysEmpty` and `SealedReader` say what one step may do to a slot and to a reader).

`EngineStartProofs` proves, for every set of threads, surroundings and arguments,
`TypeCorrect`, `OneConfiguration` (`ConfigAgreed`) and `OneEngine` (`EngineAgreed`). The
cascade is unfolded once: `Merged` says that a merge takes each field from the last layer
that sets it, and the strongest source of a field exists by well-founded induction on the
natural numbers (`LeastOf`). `Configured` ties a call to the cell it read or filled,
`Drained` a building call past its broadcaster to a drained buffer.

`AuditPipelineProofs` proves, for every set of pushers, every capacity, batch size and
number of retries, `TypeCorrect`, `NothingVanishes` (`Conservation`) and `Delivered`
(`DeliveryOrder`). The seven places
of an event are a partition (`Parts`); `BeginPush` adds one event to it (`Grown`), and
every other step moves some from one place to another (`Moved`, of which each action is
an instance). That a move takes along exactly what it should needs `Distinct` (queue and
batch hold no event twice), `PoolApart` (nor do two batches in the pool), and, for the
batch's length, `Room`.

`Delivered` needs a second invariant with four parts. `OrderInv`: queue and batch keep
each thread's order, and whatever left one of them came before what is still in it.
`SinkInv`: the sink has of a batch it knows in part an event only after the ones before
it (which is what makes a retried batch a repetition), and with a file sink nothing that
is still in batch or pool. `CountInv`: an event of the batch was received at most
`retries` times, by `OneMore` (a batch holds no event twice, so each attempt adds at most
one). `OverflowInv`: before the broadcaster takes anything, the free places are at most as
many as the pushers about to fill them.

Every invariant and every refinement the runs check is a theorem, and so is every action
property without fairness. Only model-checked are the liveness properties: `Settles`,
`Drained`, `EventuallySealed`, `CallsReturn`, `ScanEnds` and `ExitEnds`. They
rest on fairness, and the enabledness behind it is beyond the prover.

## 6. Not modelled

In the modelled components: `upload_file` (no writer uses it), the file://
`MockStorageUploader` of the Python writer, `len` of the ring buffer, a panic of
`println!` in the stdout sink, and the end of the process for the audit path (the code
has no shutdown). `DekCache::sweep` and `KmsAdmin` are never called by the engine itself;
they are modelled because they are part of the core's interface. In the scan: the
sidecar warm-up, which has no effect, nested schemas, and `parse_filter`, which reads
`a >= 5` as an equality on a column `a >`. In governance: the version of a manifest,
which nothing reads, the cryptography of signatures, tokens and licenses, and what a hash
or a redaction writes. In the configuration: the fields that only carry a value to one
place.

Components left out, because they keep no state that two steps could disagree on:

* Authentication. Token validation is a sequence of checks whose result is the caller of
  `GovernedRead` and `GovernedScan`; the device login is a loop of one process.
* Ingestion clients, schema tools and KMS adapters. Requests and parsing; their failures
  are the failing steps of the models that use them.
* Command line. Arguments and output.

## 7. What is left

1. `parse_filter` over token sequences, and leaf positions of nested schemas.
2. One policy engine under `ScanRows` and `GovernedScan`: rows, statistics and masks of
   one scan in one state.
