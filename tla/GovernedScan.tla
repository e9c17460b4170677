----------------------------- MODULE GovernedScan -----------------------------
(***************************************************************************)
(* scan() over several files (manager/scan_orchestrator.rs), from the      *)
(* linter that let them in to the batches handed out: the policies, the    *)
(* filters and the schema are settled on the first file and applied to all *)
(* of them, the masks on what each file is.                                *)
(*                                                                         *)
(* The tasks and channels that carry the batches are ScanPipeline's, rows  *)
(* and statistics ScanRows', the merging of layers GovernedRead's: here    *)
(* files are handled in turn, `policy` is the merged manifest, and of the  *)
(* rows only their nulls, whether any are left and which columns had a say *)
(* in that matter.  A target_schema is a contract whose types are all      *)
(* known.                                                                  *)
(*                                                                         *)
(* Bounds: Contracts, Batches, Policies, Requests and MaxFiles.            *)
(***************************************************************************)
EXTENDS Policy, Sequences

CONSTANTS
    Contracts, Batches,     \* of Linter
    Policies,               \* what the layers may merge to
    Requests,               \* what scan() may be called with
    MaxFiles

INSTANCE Linter

Contract ==
    [cols : SUBSET Columns, type : [Columns -> TypeNames], required : SUBSET Columns,
     rules : [Columns -> SUBSET Rules], tags : [Columns -> SUBSET Tags]]
Batch ==
    [cols : SUBSET Columns, type : [Columns -> Types], nullable : SUBSET Columns,
     nulls : SUBSET Columns, breaks : [Columns -> SUBSET Rules]]
Request ==
    [caller : SUBSET Roles, purpose : Purposes, assumed : Roles \cup {None},
     mode : {"StrictError", "GracefulMasking"},
     columns : {None} \cup SUBSET Columns, contract : {None} \cup Contract,
     predicates : SUBSET Columns]   \* the caller's, by the column each compares

ASSUME ContractsAssumption ==
    Contracts \subseteq Contract /\ \A k \in Contracts : k.required \subseteq k.cols
\* Arrow: nulls only in nullable fields; Text are the columns of a string type
ASSUME BatchesAssumption ==
    /\ Batches \subseteq Batch
    /\ \A b \in Batches :
        /\ b.nulls \subseteq b.nullable
        /\ \A c \in Columns : b.type[c] \in {"utf8", "large_utf8"} <=> c \in Text
ASSUME PoliciesAssumption == Policies \subseteq Manifest
ASSUME RequestsAssumption == Requests \subseteq Request
ASSUME MaxFilesAssumption == MaxFiles \in Nat
ASSUME NoneAssumption ==
    /\ None \notin Contracts /\ None \notin Types /\ None \notin Requests
    /\ \A cols \in SUBSET Columns : cols # None

VARIABLES
    store,      \* the targets, in order
    pc,         \* "idle", "policies", "open", "plan", "file", "batch", "mask", "done"
    req, policy,
    preds,      \* policy_predicates
    schema,     \* task_schema; its columns are requested_cols
    event,      \* the columns named by the audit event, or None
    n,          \* the file at hand
    maps,       \* physical_encryption_map, column_tags_map, and the columns whose
                \* statistics ruled row groups out
    batch,      \* [nulls, empty]: the batch at hand, filtered
    cells,      \* final_arrays so far: what became of the values, type, nulls
    item,       \* what was just sent: [file, kind, cells]
    result      \* of scan() itself

vars == <<store, pc, req, policy, preds, schema, event, n, maps, batch, cells, item, result>>
plan == <<req, policy, preds, schema, event>>
sent == <<item, result>>

NoMaps == [encrypted |-> {}, tags |-> [c \in Columns |-> {}], pruned |-> {}]
NoBatch == [nulls |-> {}, empty |-> TRUE]
NoColumn == [c \in {} |-> None]

Init ==
    /\ store = <<>>
    /\ pc = "idle"
    /\ req = None
    /\ policy = EmptyManifest
    /\ preds = {}
    /\ schema = NoColumn
    /\ event = None
    /\ n = 0
    /\ maps = NoMaps
    /\ batch = NoBatch
    /\ cells = NoColumn
    /\ item = None
    /\ result = None

-----------------------------------------------------------------------------
(* The files.                                                              *)

File(b, tags, encrypted, linted) ==
    [cols |-> b.cols, type |-> b.type, nullable |-> b.nullable, nulls |-> b.nulls,
     tags |-> tags, encrypted |-> encrypted, linted |-> linted]

Put(file) ==
    /\ pc = "idle"
    /\ Len(store) < MaxFiles
    /\ store' = Append(store, file)
    /\ UNCHANGED <<pc, plan, n, maps, batch, cells, sent>>

Write_anyKeys ==
    /\ pc = "idle"
    /\ \E k \in Contracts : \E b \in Batches : \E m \in Policies :
        /\ validate(k, b) = {}
        /\ Put(File(b, k.tags, Sealed(b.cols, ToEncrypt(m, k.cols, k.tags)), k))
\* write(), whose steps are WritePipeline's and GovernedRead's; the encryptor
\* refuses a key for a column the batch lacks
Write ==
    /\ pc = "idle"
    /\ \E k \in Contracts : \E b \in Batches : \E m \in Policies :
        /\ validate(k, b) = {}
        /\ ToEncrypt(m, k.cols, k.tags) \subseteq b.cols
        /\ Put(File(b, k.tags, Sealed(b.cols, ToEncrypt(m, k.cols, k.tags)), k))

\* a file put there by another tool
Deposit == \E b \in Batches : Put(File(b, [c \in Columns |-> {}], {}, None))

-----------------------------------------------------------------------------
(* scan(), up to its return.                                               *)

Begin ==
    /\ pc = "idle"
    /\ store # <<>>
    /\ req' \in Requests
    /\ pc' = "policies"
    /\ UNCHANGED <<store, policy, preds, schema, event, n, maps, batch, cells, sent>>

Return(r) == pc' = "done" /\ result' = r

Discover ==
    /\ pc = "policies"
    /\ policy' \in Policies
    /\ pc' = "open"
    /\ UNCHANGED <<store, req, preds, schema, event, n, maps, batch, cells, sent>>

\* discovery, verification or merging; the footer of the first file or its key
ScanFails ==
    /\ pc \in {"policies", "open"}
    /\ Return("Failed")
    /\ UNCHANGED <<store, plan, n, maps, batch, cells, item>>

OpenFirst ==
    /\ pc = "open"
    /\ pc' = "plan"
    /\ UNCHANGED <<store, plan, n, maps, batch, cells, sent>>

Active == ActiveRole(policy, req.caller, req.assumed, req.purpose) \cap policy.principals
FiltersOf(filters) == {f \in UNION {filters[r] : r \in Active} : FilterColumn[f] # None}
GlobalFilters == FiltersOf(policy.global_row_filters)
SelectiveFilters == FiltersOf(policy.selective_row_filters)

\* the contract has a type that is none, or the first file lacks the column of
\* a global filter
Deny ==
    /\ pc = "plan"
    /\ \/ req.contract # None /\ ~Known(req.contract)
       \/ \E f \in GlobalFilters : FilterColumn[f] \notin store[1].cols
    /\ Return("Denied")
    /\ UNCHANGED <<store, plan, n, maps, batch, cells, item>>

InContract(c) == req.contract # None /\ c \in req.contract.cols
requested_cols ==
    IF req.columns # None THEN req.columns
    ELSE IF req.contract # None THEN req.contract.cols ELSE store[1].cols
projected_cols(fs) == requested_cols \cup {FilterColumn[f] : f \in fs}

Null == [type |-> "null", nullable |-> TRUE]
Unified(c) ==
    IF InContract(c) THEN Field(req.contract, c)
    ELSE IF c \in store[1].cols
            THEN [type |-> store[1].type[c], nullable |-> c \in store[1].nullable]
            ELSE Null

Plan_recordsRequested ==
    /\ pc = "plan"
    /\ req.contract # None => Known(req.contract)
    /\ \A f \in GlobalFilters : FilterColumn[f] \in store[1].cols
    /\ preds' = GlobalFilters
            \cup {f \in SelectiveFilters : FilterColumn[f] \in store[1].cols}
    /\ schema' = [c \in requested_cols |-> Unified(c)]
    /\ event' = requested_cols
    /\ n' = 1
    /\ pc' = "file"
    /\ result' = "Ok"
    /\ UNCHANGED <<store, req, policy, maps, batch, cells, item>>
\* everything between the first footer and the return, the audit event included
Plan ==
    /\ pc = "plan"
    /\ req.contract # None => Known(req.contract)
    /\ \A f \in GlobalFilters : FilterColumn[f] \in store[1].cols
    /\ preds' = GlobalFilters
            \cup {f \in SelectiveFilters : FilterColumn[f] \in store[1].cols}
    /\ schema' = [c \in requested_cols |-> Unified(c)]
    /\ event' = projected_cols(preds')
    /\ n' = 1
    /\ pc' = "file"
    /\ result' = "Ok"
    /\ UNCHANGED <<store, req, policy, maps, batch, cells, item>>

-----------------------------------------------------------------------------
(* The files, one after the other.                                         *)

Requested == DOMAIN schema
Hidden_cols == {FilterColumn[f] : f \in preds}

\* combined_predicates: a row group goes when the statistics of a column rule out
\* a filter of the policy or a predicate of the caller; only the former are applied
\* to the rows that are left
Prunable == (Hidden_cols \cup req.predicates) \cap store[n].cols

OpenFile_firstMaps ==
    /\ pc = "file"
    /\ n <= Len(store)
    /\ \E pruned \in SUBSET Prunable :
        maps' = [encrypted |-> store[1].encrypted, tags |-> store[1].tags, pruned |-> pruned]
    /\ pc' = "batch"
    /\ item' = None
    /\ UNCHANGED <<store, plan, n, batch, cells, result>>
OpenFile ==
    /\ pc = "file"
    /\ n <= Len(store)
    /\ \E pruned \in SUBSET Prunable :
        maps' = [encrypted |-> store[n].encrypted, tags |-> store[n].tags, pruned |-> pruned]
    /\ pc' = "batch"
    /\ item' = None
    /\ UNCHANGED <<store, plan, n, batch, cells, result>>

\* through the channel; the item is taken before the next one is begun
Send(kind) == item' = [file |-> n, kind |-> kind, cells |-> cells]

\* an error at opening ends the scan
OpenFails ==
    /\ pc = "file"
    /\ n <= Len(store)
    /\ Send("Open")
    /\ pc' = "done"
    /\ UNCHANGED <<store, plan, n, maps, batch, cells, result>>

ScanEnds ==
    /\ pc = "file"
    /\ n > Len(store)
    /\ pc' = "done"
    /\ UNCHANGED <<store, plan, n, maps, batch, cells, sent>>

NextFile ==
    /\ pc' = "file"
    /\ n' = n + 1
    /\ cells' = NoColumn
    /\ batch' = NoBatch

FileEnds ==
    /\ pc = "batch"
    /\ NextFile
    /\ UNCHANGED <<store, plan, maps, sent>>

\* get_pruned_row_groups keeps none of a file without any of the projected columns
HasRowGroups == (Requested \cup Hidden_cols) \cap store[n].cols # {}

\* the batch cannot be read or decrypted, or a filter lacks its column or does
\* not fit it
BatchFails ==
    /\ pc = "batch"
    /\ HasRowGroups
    /\ Send("Batch")
    /\ NextFile
    /\ UNCHANGED <<store, plan, maps, result>>

\* once the hidden columns are dropped, none is left to make a batch of
NothingLeft == ~(Hidden_cols \subseteq Requested) /\ Requested \cap store[n].cols = {}

Filter ==
    /\ pc = "batch"
    /\ HasRowGroups
    /\ Hidden_cols \subseteq store[n].cols
    /\ ~NothingLeft
    /\ \E nulls \in SUBSET (store[n].nulls \cap Requested) : \E empty \in BOOLEAN :
        /\ empty => nulls = {}
        /\ preds = {} => ~empty
        /\ batch' = [nulls |-> nulls, empty |-> empty]
    /\ pc' = "mask"
    /\ item' = None
    /\ UNCHANGED <<store, plan, n, maps, cells, result>>

DropFails ==
    /\ pc = "batch"
    /\ Hidden_cols \subseteq store[n].cols
    /\ NothingLeft
    /\ Send("Empty")
    /\ NextFile
    /\ UNCHANGED <<store, plan, maps, result>>

Outcome(c) ==
    apply_rls(policy, req.caller, req.assumed, req.purpose, req.mode, c,
              c \in maps.encrypted, maps.tags[c])

Column(c, cell) == cells' = [d \in DOMAIN cells \cup {c} |-> IF d = c THEN cell ELSE cells[d]]

MaskColumn ==
    /\ pc = "mask"
    /\ \E c \in (Requested \ DOMAIN cells) \cap store[n].cols :
        /\ Outcome(c) \in {"values", "hashed", "redacted", "nulls"}
        /\ Column(c, [became |-> Outcome(c), type |-> store[n].type[c],
                      nulls |-> IF Outcome(c) = "nulls" THEN ~batch.empty ELSE c \in batch.nulls])
    /\ UNCHANGED <<store, pc, plan, n, maps, batch, sent>>

\* "Schema Evolution: Pad missing column with Nulls"
PadColumn ==
    /\ pc = "mask"
    /\ \E c \in (Requested \ DOMAIN cells) \ store[n].cols :
        Column(c, [became |-> "padded", nulls |-> ~batch.empty,
                   type |-> IF InContract(c) THEN Field(req.contract, c).type ELSE "null"])
    /\ UNCHANGED <<store, pc, plan, n, maps, batch, sent>>

\* the error of one column ends the file
ColumnDenied ==
    /\ pc = "mask"
    /\ \E c \in (Requested \ DOMAIN cells) \cap store[n].cols :
        Outcome(c) \notin {"values", "hashed", "redacted", "nulls"}
    /\ Send("Denied")
    /\ NextFile
    /\ UNCHANGED <<store, plan, maps, result>>

\* RecordBatch::try_new
FitsSchema ==
    \A c \in Requested :
        /\ cells[c].type = schema[c].type
        /\ cells[c].nulls => schema[c].nullable

SendBatch ==
    /\ pc = "mask"
    /\ DOMAIN cells = Requested
    /\ FitsSchema
    /\ Send("Values")
    /\ cells' = NoColumn
    /\ batch' = NoBatch
    /\ pc' = "batch"
    /\ UNCHANGED <<store, plan, n, maps, result>>

SchemaFails ==
    /\ pc = "mask"
    /\ DOMAIN cells = Requested
    /\ ~FitsSchema
    /\ Send("Schema")
    /\ NextFile
    /\ UNCHANGED <<store, plan, maps, result>>

Done == pc = "done" /\ UNCHANGED vars

Call == Begin \/ Discover \/ ScanFails \/ OpenFirst \/ Deny \/ Plan
Task ==
    \/ OpenFile \/ OpenFails \/ ScanEnds \/ FileEnds \/ BatchFails \/ Filter \/ DropFails
    \/ MaskColumn \/ PadColumn \/ ColumnDenied \/ SendBatch \/ SchemaFails

Next == Write \/ Deposit \/ Call \/ Task \/ Done

Spec == Init /\ [][Next]_vars

-----------------------------------------------------------------------------
(* Properties.                                                             *)

FileType ==
    [cols : SUBSET Columns, type : [Columns -> Types], nullable : SUBSET Columns,
     nulls : SUBSET Columns, tags : [Columns -> SUBSET Tags], encrypted : SUBSET Columns,
     linted : Contracts \cup {None}]
Cell ==
    [became : {"values", "hashed", "redacted", "nulls", "padded"},
     type : Types, nulls : BOOLEAN]
StoreOK ==
    /\ store \in Seq(FileType)
    /\ Len(store) <= MaxFiles
    /\ \A i \in DOMAIN store : store[i].encrypted \subseteq store[i].cols
PlanOK ==
    /\ req \in Requests \cup {None}
    /\ policy \in Manifest
    /\ preds \subseteq Filters
    /\ \A f \in preds : FilterColumn[f] \in Columns
    /\ Requested \subseteq Columns
    /\ schema \in [Requested -> [type : Types, nullable : BOOLEAN]]
    /\ event = None \/ event \subseteq Columns
FileAtHandOK ==
    /\ n \in 0 .. Len(store) + 1
    /\ maps \in [encrypted : SUBSET Columns, tags : [Columns -> SUBSET Tags],
                 pruned : SUBSET Columns]
    /\ batch \in [nulls : SUBSET Columns, empty : BOOLEAN]
    /\ DOMAIN cells \subseteq Requested
    /\ cells \in [DOMAIN cells -> Cell]
ItemOK ==
    item # None =>
        /\ item.file \in DOMAIN store
        /\ item.kind \in {"Values", "Open", "Batch", "Empty", "Denied", "Schema"}
        /\ item.kind \in {"Values", "Schema"} => DOMAIN item.cells = Requested
TypeOK ==
    /\ StoreOK
    /\ PlanOK
    /\ FileAtHandOK
    /\ ItemOK
    /\ pc \in {"idle", "policies", "open", "plan", "file", "batch", "mask", "done"}
    /\ result \in {None, "Ok", "Failed", "Denied"}

Delivered == item # None /\ item.kind = "Values"
Misfit == item # None /\ item.kind = "Schema"

\* a mask of the role the scan is made under leaves column c as it is
Granted(c, tags) ==
    \E r \in Active :
        \/ \E k \in Keys : /\ <<k, c>> \in ContainsWord
                          /\ policy.column_masks[r][k] \in {"PLAINTEXT", "NULL"}
        \/ \E t \in tags : policy.tag_masks[r][t] \in {"PLAINTEXT", "NULL"}

\* What leaves a file depends on that file, not on the first one (the maps of
\* scan_orchestrator.rs:994-1070): values of a column that is encrypted there are
\* granted by the tags it has there, and a column required to be encrypted is
\* never delivered from a file that holds it in the clear.
EachFileGoverned ==
    Delivered =>
        \A c \in Requested \cap store[item.file].cols :
            IF c \in store[item.file].encrypted
                THEN item.cells[c].became = "values" => Granted(c, store[item.file].tags[c])
                ELSE ~Required(policy, c, store[item.file].tags[c])

\* the contract of the scan reads what the contract of a write let in
Evolves(new, old) ==
    /\ new.required \subseteq old.required
    /\ \A c \in new.cols \cap old.cols :
            expected_data_type[new.type[c]] = expected_data_type[old.type[c]]

\* What the linter lets in fits what a scan makes of the contract: a file written
\* under an older contract ends with a schema error only if a column the contract
\* requires is masked to nulls (test_schema_evolution.rs).
LintedFilesFit ==
    Misfit /\ store[item.file].linted # None /\ req.contract # None
        /\ Requested \subseteq req.contract.cols
        /\ Evolves(req.contract, store[item.file].linted) =>
            \E c \in Requested \cap req.contract.required : item.cells[c].became = "nulls"

\* The audit event comes before the first batch and names every column whose
\* values are delivered or that a filter of the policy read, in the rows or in the
\* statistics of any of the files.  A column that decides which rows are delivered
\* and is not named is one only the caller's own predicates compare: they prune row
\* groups (scan_orchestrator.rs:472-476, 918) and are not recorded (496-508, 686).
AuditCoversAccess ==
    Delivered =>
        /\ event # None
        /\ DOMAIN item.cells \subseteq event
        /\ Hidden_cols \subseteq event
        /\ maps.pruned \ event \subseteq req.predicates \ Hidden_cols
=============================================================================
