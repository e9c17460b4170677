-------------------------- MODULE GovernedScanProofs --------------------------
(***************************************************************************)
(* What GovernedScan promises for all contracts, batches, policies and     *)
(* requests: types (TypeCorrect), masks by file (Governed), the agreement  *)
(* of linter and scan (LintedFit) and the audit event (Covered).           *)
(*                                                                         *)
(* The inductive invariant is IInv.  The linter's answer is remembered in  *)
(* the store (LintInv); what the scan settled on the first file never      *)
(* changes while it runs (SettledInv); the maps and the batch are those of *)
(* the file at hand (PlaceInv), whose statistics were held against filters *)
(* and predicates only (PrunedInv); so every array built from it is what   *)
(* the file, the contract and the policy say (CellsInv), and what was sent *)
(* is such a batch (ItemInv).                                              *)
(***************************************************************************)
EXTENDS GovernedScan, TLAPS

EarlyInv ==
    pc \in {"idle", "policies", "open", "plan"} => item = None /\ event = None /\ cells = NoColumn

StartedInv == pc # "idle" => req \in Requests /\ store # <<>>

SettledInv ==
    /\ pc \in {"file", "batch", "mask"} \/ item # None => event # None
    /\ event # None =>
        /\ Hidden_cols \cup Requested \subseteq event
        /\ \A c \in Requested : InContract(c) => schema[c] = Field(req.contract, c)

PlaceInv ==
    /\ pc = "file" => n >= 1
    /\ pc # "mask" => cells = NoColumn
    /\ pc \in {"batch", "mask"} =>
        /\ n \in DOMAIN store
        /\ maps.encrypted = store[n].encrypted /\ maps.tags = store[n].tags
    /\ pc = "mask" => batch.nulls \subseteq store[n].nulls

\* statistics are held against the filters and the caller's predicates only
PrunedInv ==
    /\ pc \in {"idle", "policies", "open", "plan"} => maps = NoMaps
    /\ event # None => maps.pruned \subseteq Hidden_cols \cup req.predicates

LintOf(f) ==
    f.linted # None =>
        /\ f.linted \in Contracts
        /\ f.cols \subseteq f.linted.cols
        /\ f.linted.required \subseteq f.cols
        /\ f.linted.required \cap f.nulls = {}
        /\ \A c \in f.cols : expected_data_type[f.linted.type[c]] = f.type[c]
LintInv == \A i \in DOMAIN store : LintOf(store[i])

\* the array of column c is what file f, contract k and policy m make of it
Array(f, k, m, q, c, cell) ==
    IF c \in f.cols
        THEN /\ cell.type = f.type[c]
             /\ cell.became \in {"values", "hashed", "redacted", "nulls"}
             /\ cell.nulls => cell.became = "nulls" \/ c \in f.nulls
             /\ cell.became = apply_rls(m, q.caller, q.assumed, q.purpose, q.mode, c,
                                        c \in f.encrypted, f.tags[c])
        ELSE k # None /\ c \in k.cols => cell.type = Field(k, c).type
Arrays(f, cs) == \A c \in DOMAIN cs : Array(f, req.contract, policy, req, c, cs[c])
CellsInv == pc = "mask" => Arrays(store[n], cells)
ItemInv ==
    /\ Delivered \/ Misfit => Arrays(store[item.file], item.cells)
    /\ Misfit => \E c \in Requested :
                    \/ item.cells[c].type # schema[c].type
                    \/ item.cells[c].nulls /\ ~schema[c].nullable

IInv ==
    /\ TypeOK /\ EarlyInv /\ StartedInv /\ SettledInv /\ PlaceInv
    /\ PrunedInv /\ LintInv /\ CellsInv /\ ItemInv

-----------------------------------------------------------------------------
(* Types.                                                                  *)

LEMMA EmptyTyped == EmptyManifest \in Manifest
  BY MasksAssumption DEF EmptyManifest, Manifest

\* the columns of a batch keep their types on the way into the store
LEMMA FileTyped ==
  ASSUME NEW b \in Batches, NEW tags \in [Columns -> SUBSET Tags], NEW enc \in SUBSET b.cols,
         NEW k \in Contracts \cup {None}
  PROVE  /\ File(b, tags, enc, k) \in FileType
         /\ File(b, tags, enc, k).encrypted \subseteq File(b, tags, enc, k).cols
  BY BatchesAssumption DEF Batch, File, FileType

LEMMA PutTyped ==
  ASSUME StoreOK, NEW f \in FileType, f.encrypted \subseteq f.cols, Put(f)
  PROVE  StoreOK'
<1>1. store' \in Seq(FileType) /\ Len(store') = Len(store) + 1
  BY DEF StoreOK, Put
<1>2. \A i \in DOMAIN store' : store'[i] = IF i = Len(store) + 1 THEN f ELSE store[i]
  BY DEF StoreOK, Put
<1>3. \A i \in DOMAIN store' : i = Len(store) + 1 \/ i \in DOMAIN store
  BY <1>1 DEF StoreOK
<1>4. Len(store') <= MaxFiles
  BY <1>1, MaxFilesAssumption DEF StoreOK, Put
<1> QED BY <1>1, <1>2, <1>3, <1>4 DEF StoreOK

LEMMA SealedWithin == ASSUME NEW cols, NEW keyed \in SUBSET cols PROVE Sealed(cols, keyed) \in SUBSET cols
  BY DEF Sealed

LEMMA StoreNext == StoreOK /\ [Next]_vars => StoreOK'
<1> SUFFICES ASSUME StoreOK, [Next]_vars PROVE StoreOK'
  OBVIOUS
<1>1. CASE Write
  <2>1. PICK k \in Contracts, b \in Batches, m \in Policies :
          /\ ToEncrypt(m, k.cols, k.tags) \subseteq b.cols
          /\ Put(File(b, k.tags, Sealed(b.cols, ToEncrypt(m, k.cols, k.tags)), k))
    BY <1>1 DEF Write
  <2>2. k.tags \in [Columns -> SUBSET Tags]
    BY ContractsAssumption DEF Contract
  <2> QED BY <2>1, <2>2, SealedWithin, FileTyped, PutTyped
<1>2. CASE Deposit
  <2>1. PICK b \in Batches : Put(File(b, [c \in Columns |-> {}], {}, None))
    BY <1>2 DEF Deposit
  <2> QED BY <2>1, FileTyped, PutTyped
<1>3. CASE UNCHANGED store
  BY <1>3 DEF StoreOK
<1> QED
  BY <1>1, <1>2, <1>3 DEF Next, Call, Task, Done, vars, Begin, Discover, ScanFails, OpenFirst,
     Deny, Plan, OpenFile, OpenFails, ScanEnds, FileEnds, BatchFails, Filter, DropFails,
     MaskColumn, PadColumn, ColumnDenied, SendBatch, SchemaFails

\* a file is added, or the store stays as it is; and only before the scan
LEMMA StoreGrows ==
  ASSUME StoreOK, [Next]_vars
  PROVE  \/ UNCHANGED store
         \/ /\ pc = "idle" /\ UNCHANGED <<pc, plan, n, maps, batch, cells, sent>>
            /\ \E f : store' = Append(store, f)
  BY DEF Next, Call, Task, Done, vars, Write, Deposit, Put, Begin, Discover, ScanFails, OpenFirst,
     Deny, Plan, OpenFile, OpenFails, ScanEnds, FileEnds, BatchFails, Filter, DropFails,
     MaskColumn, PadColumn, ColumnDenied, SendBatch, SchemaFails

LEMMA FieldTyped ==
  ASSUME NEW k \in Contract, Known(k), NEW c \in k.cols
  PROVE  Field(k, c) \in [type : Types, nullable : BOOLEAN]
<1>1. k.type[c] \in TypeNames
  BY DEF Contract
<1>2. \A name \in TypeNames : expected_data_type[name] \in Types \cup {None}
  BY DEF expected_data_type, TypeNames, Types
<1> QED BY <1>1, <1>2 DEF Known, Field

LEMMA FiltersTyped ==
  ASSUME policy \in Manifest
  PROVE  \A f \in GlobalFilters \cup SelectiveFilters : f \in Filters /\ FilterColumn[f] \in Columns
<1>1. Active \subseteq Roles
  BY DEF Active, Manifest
<1>2. \A fs \in [Roles -> SUBSET Filters] :
        \A f \in FiltersOf(fs) : f \in Filters /\ FilterColumn[f] # None
  BY <1>1 DEF FiltersOf
<1> QED BY <1>2, FiltersAssumption DEF GlobalFilters, SelectiveFilters, Manifest

LEMMA PlanTyped ==
  ASSUME TypeOK, StartedInv, Plan
  PROVE  /\ requested_cols \subseteq Columns
         /\ schema' = [c \in requested_cols |-> Unified(c)]
         /\ \A c \in requested_cols : Unified(c) \in [type : Types, nullable : BOOLEAN]
<1>1. req \in Request /\ 1 \in DOMAIN store /\ store[1] \in FileType
  BY RequestsAssumption DEF StartedInv, Plan, TypeOK, StoreOK
<1>2. req.contract # None => req.contract \in Contract /\ Known(req.contract)
  BY <1>1 DEF Plan, Request
<1>3. requested_cols \subseteq Columns
  BY <1>1, <1>2 DEF requested_cols, Request, Contract, FileType
<1>4. ASSUME NEW c \in requested_cols
      PROVE  Unified(c) \in [type : Types, nullable : BOOLEAN]
  <2>1. CASE InContract(c)
    BY <2>1, <1>2, FieldTyped DEF InContract, Unified
  <2>2. CASE ~InContract(c) /\ c \in store[1].cols
    BY <2>2, <1>1, <1>3 DEF Unified, FileType
  <2>3. CASE ~InContract(c) /\ c \notin store[1].cols
    BY <2>3 DEF Unified, Null, Types
  <2> QED BY <2>1, <2>2, <2>3
<1> QED BY <1>3, <1>4 DEF Plan

LEMMA PlanNext == TypeOK /\ StartedInv /\ [Next]_vars => PlanOK'
<1> SUFFICES ASSUME TypeOK, StartedInv, [Next]_vars PROVE PlanOK'
  OBVIOUS
<1>1. CASE Plan
  <2>1. Requested' = requested_cols
    BY <1>1, PlanTyped DEF Requested
  <2>2. preds' \subseteq Filters /\ \A f \in preds' : FilterColumn[f] \in Columns
    BY <1>1, FiltersTyped DEF Plan, TypeOK, PlanOK
  <2>3. event' \subseteq Columns
    BY <1>1, <2>2, PlanTyped DEF Plan, projected_cols
  <2> QED BY <1>1, <2>1, <2>2, <2>3, PlanTyped DEF Plan, PlanOK, TypeOK
<1>2. CASE Begin \/ Discover
  BY <1>2, PoliciesAssumption DEF Begin, Discover, TypeOK, PlanOK, Requested
<1>3. CASE UNCHANGED plan
  BY <1>3 DEF plan, TypeOK, PlanOK, Requested
<1> QED
  BY <1>1, <1>2, <1>3 DEF Next, Call, Task, Done, vars, Write, Deposit, Put, ScanFails, OpenFirst,
     Deny, OpenFile, OpenFails, ScanEnds, FileEnds, BatchFails, Filter, DropFails,
     MaskColumn, PadColumn, ColumnDenied, SendBatch, SchemaFails, plan

LEMMA StartedNext == TypeOK /\ StartedInv /\ [Next]_vars => StartedInv'
<1> SUFFICES ASSUME TypeOK, StartedInv, [Next]_vars PROVE StartedInv'
  OBVIOUS
<1>1. CASE Begin
  BY <1>1 DEF Begin, StartedInv
<1>2. pc' # "idle" => Begin \/ (pc # "idle" /\ UNCHANGED <<store, req>>)
  BY DEF Next, Call, Task, Done, vars, plan, Write, Deposit, Put, Begin, Discover, ScanFails,
     OpenFirst, Deny, Plan, OpenFile, OpenFails, ScanEnds, FileEnds, BatchFails, Filter, DropFails,
     MaskColumn, PadColumn, ColumnDenied, SendBatch, SchemaFails
<1> QED BY <1>1, <1>2 DEF StartedInv

LEMMA NoColumnTyped == DOMAIN NoColumn = {} /\ NoColumn \in [DOMAIN NoColumn -> Cell]
  BY DEF NoColumn

LEMMA ColumnTyped ==
  ASSUME NEW c \in Requested, NEW cell \in Cell, Column(c, cell), FileAtHandOK
  PROVE  DOMAIN cells' \subseteq Requested /\ cells' \in [DOMAIN cells' -> Cell]
  BY DEF Column, FileAtHandOK

LEMMA MemberTyped == ASSUME NEW c, NEW S PROVE (c \in S) \in BOOLEAN
<1>1. CASE c \in S
  <2>1. (c \in S) = TRUE
    BY <1>1
  <2> QED BY <2>1
<1>2. CASE c \notin S
  <2>1. (c \in S) = FALSE
    BY <1>2
  <2> QED BY <2>1
<1> QED BY <1>1, <1>2

LEMMA NotTyped == ASSUME NEW x \in BOOLEAN PROVE (~x) \in BOOLEAN
  BY Zenon

LEMMA EitherTyped ==
  ASSUME NEW P, NEW x \in BOOLEAN, NEW c, NEW S
  PROVE  (IF P THEN ~x ELSE c \in S) \in BOOLEAN
<1>1. CASE P
  BY <1>1, NotTyped, Zenon
<1>2. CASE ~P
  BY <1>2, MemberTyped, Zenon
<1> QED BY <1>1, <1>2

LEMMA CellTyped ==
  ASSUME NEW b \in {"values", "hashed", "redacted", "nulls"}, NEW t \in Types, NEW x \in BOOLEAN
  PROVE  [became |-> b, type |-> t, nulls |-> x] \in Cell
  BY DEF Cell

\* the arrays of the columns of a batch are typed
LEMMA CellsNext ==
  ASSUME TypeOK, StartedInv, SettledInv, PlaceInv, MaskColumn \/ PadColumn
  PROVE  DOMAIN cells' \subseteq Requested /\ cells' \in [DOMAIN cells' -> Cell]
<1>1. store[n] \in FileType /\ FileAtHandOK /\ batch.empty \in BOOLEAN /\ batch.nulls \subseteq Columns
  BY DEF MaskColumn, PadColumn, PlaceInv, TypeOK, StoreOK, FileAtHandOK
<1>2. Requested \subseteq Columns
  BY DEF TypeOK, PlanOK
<1>3. CASE MaskColumn
  <2>1. PICK c \in (Requested \ DOMAIN cells) \cap store[n].cols :
          /\ Outcome(c) \in {"values", "hashed", "redacted", "nulls"}
          /\ Column(c, [became |-> Outcome(c), type |-> store[n].type[c],
                        nulls |-> IF Outcome(c) = "nulls" THEN ~batch.empty ELSE c \in batch.nulls])
    BY <1>3 DEF MaskColumn
  <2>2. [became |-> Outcome(c), type |-> store[n].type[c],
         nulls |-> IF Outcome(c) = "nulls" THEN ~batch.empty ELSE c \in batch.nulls] \in Cell
    <3>1. (IF Outcome(c) = "nulls" THEN ~batch.empty ELSE c \in batch.nulls) \in BOOLEAN
      BY <1>1, EitherTyped
    <3>2. store[n].type[c] \in Types
      BY <1>1, <1>2, <2>1 DEF FileType
    <3> QED BY <2>1, <3>1, <3>2, CellTyped
  <2> QED BY <1>1, <2>1, <2>2, ColumnTyped
<1>4. CASE PadColumn
  <2>1. PICK c \in (Requested \ DOMAIN cells) \ store[n].cols :
          Column(c, [became |-> "padded", nulls |-> ~batch.empty,
                     type |-> IF InContract(c) THEN Field(req.contract, c).type ELSE "null"])
    BY <1>4 DEF PadColumn
  <2>2. InContract(c) => Field(req.contract, c).type \in Types
    BY <1>4, <2>1 DEF SettledInv, PadColumn, TypeOK, PlanOK
  <2>3. [became |-> "padded", nulls |-> ~batch.empty,
         type |-> IF InContract(c) THEN Field(req.contract, c).type ELSE "null"] \in Cell
    BY <1>1, <2>2 DEF Cell, Types
  <2> QED BY <1>1, <2>1, <2>3, ColumnTyped
<1> QED BY <1>3, <1>4

LEMMA FileAtHandNext ==
  TypeOK /\ EarlyInv /\ StartedInv /\ SettledInv /\ PlaceInv /\ StoreOK' /\ [Next]_vars => FileAtHandOK'
<1> SUFFICES ASSUME TypeOK, EarlyInv, StartedInv, SettledInv, PlaceInv, StoreOK', [Next]_vars
             PROVE  FileAtHandOK'
  OBVIOUS
<1>1. CASE MaskColumn \/ PadColumn
  <2>1. UNCHANGED <<store, schema, n, maps, batch>>
    BY <1>1 DEF MaskColumn, PadColumn, plan
  <2> QED BY <1>1, <2>1, CellsNext DEF TypeOK, FileAtHandOK, Requested
<1>2. CASE OpenFile
  <2>1. store[n] \in FileType
    BY <1>2 DEF OpenFile, PlaceInv, TypeOK, StoreOK, FileAtHandOK
  <2>2. maps' \in [encrypted : SUBSET Columns, tags : [Columns -> SUBSET Tags],
                   pruned : SUBSET Columns]
    BY <1>2, <2>1 DEF OpenFile, Prunable, FileType
  <2> QED BY <1>2, <2>2 DEF OpenFile, TypeOK, FileAtHandOK, Requested, plan
<1>3. CASE Filter
  BY <1>3 DEF Filter, TypeOK, FileAtHandOK, PlanOK, Requested, plan
<1>4. CASE FileEnds \/ BatchFails \/ DropFails \/ ColumnDenied \/ SchemaFails
  <2>1. n \in DOMAIN store /\ n' = n + 1 /\ cells' = NoColumn /\ batch' = NoBatch
        /\ UNCHANGED <<store, maps, schema>>
    BY <1>4 DEF FileEnds, BatchFails, DropFails, ColumnDenied, SchemaFails, NextFile, PlaceInv, plan
  <2>2. n' \in 0 .. Len(store') + 1
    BY <2>1 DEF TypeOK, StoreOK
  <2> QED BY <2>1, <2>2, NoColumnTyped DEF TypeOK, FileAtHandOK, Requested, NoBatch
<1>5. CASE SendBatch
  BY <1>5, NoColumnTyped DEF SendBatch, TypeOK, FileAtHandOK, Requested, NoBatch, plan
<1>6. CASE Plan
  <2>1. n' = 1 /\ cells' = NoColumn /\ UNCHANGED <<store, maps, batch>>
    BY <1>6 DEF Plan, EarlyInv
  <2>2. n' \in 0 .. Len(store') + 1
    BY <2>1 DEF TypeOK, StoreOK
  <2> QED BY <2>1, <2>2, NoColumnTyped DEF TypeOK, FileAtHandOK, Requested
<1>7. CASE Write \/ Deposit
  <2>1. Len(store) \in Nat /\ Len(store') = Len(store) + 1
    BY <1>7 DEF Write, Deposit, Put, TypeOK, StoreOK
  <2>2. UNCHANGED <<n, maps, batch, cells, schema>>
    BY <1>7 DEF Write, Deposit, Put, plan
  <2> QED BY <2>1, <2>2 DEF TypeOK, FileAtHandOK, Requested
<1>8. CASE UNCHANGED <<store, schema, n, maps, batch, cells>>
  BY <1>8 DEF TypeOK, FileAtHandOK, Requested
<1> QED
  BY <1>1, <1>2, <1>3, <1>4, <1>5, <1>6, <1>7, <1>8 DEF Next, Call, Task, Done, vars, plan, Begin,
     Discover, ScanFails, OpenFirst, Deny, OpenFails, ScanEnds

LEMMA ItemOKNext ==
  TypeOK /\ EarlyInv /\ PlaceInv /\ [Next]_vars => ItemOK'
<1> SUFFICES ASSUME TypeOK, EarlyInv, PlaceInv, [Next]_vars PROVE ItemOK'
  OBVIOUS
<1>1. CASE BatchFails \/ DropFails \/ ColumnDenied \/ SchemaFails \/ SendBatch
  <2>1. n \in DOMAIN store /\ UNCHANGED <<store, schema>>
    BY <1>1 DEF BatchFails, DropFails, ColumnDenied, SchemaFails, SendBatch, PlaceInv, plan
  <2>2. /\ item'.file = n /\ item'.cells = cells
        /\ item'.kind \in {"Batch", "Empty", "Denied", "Schema", "Values"}
        /\ item'.kind \in {"Values", "Schema"} => DOMAIN cells = Requested
    BY <1>1 DEF BatchFails, DropFails, ColumnDenied, SchemaFails, SendBatch, Send
  <2> QED BY <2>1, <2>2 DEF ItemOK, Requested
<1>2. CASE OpenFails
  <2>1. n \in DOMAIN store
    BY <1>2 DEF OpenFails, PlaceInv, TypeOK, FileAtHandOK, StoreOK
  <2> QED BY <1>2, <2>1 DEF OpenFails, Send, ItemOK, Requested, plan
<1>3. CASE item' = None
  BY <1>3 DEF ItemOK
<1>4. CASE UNCHANGED <<store, schema, item>>
  BY <1>4 DEF TypeOK, ItemOK, Requested
<1>5. CASE Plan \/ Write \/ Deposit
  BY <1>5, <1>3 DEF Plan, Write, Deposit, Put, EarlyInv, sent
<1> QED
  BY <1>1, <1>2, <1>3, <1>4, <1>5 DEF Next, Call, Task, Done, vars, plan, sent, Begin, Discover,
     ScanFails, OpenFirst, Deny, ScanEnds, FileEnds, Filter, MaskColumn, PadColumn, OpenFile

LEMMA EarlyNext == EarlyInv /\ PlaceInv /\ [Next]_vars => EarlyInv'
  BY DEF EarlyInv, Next, Call, Task, Done, vars, plan, sent, Write, Deposit, Put, Begin, Discover,
     ScanFails, Return, OpenFirst, Deny, Plan, OpenFile, OpenFails, ScanEnds, FileEnds, NextFile,
     BatchFails, Filter, DropFails, MaskColumn, PadColumn, ColumnDenied, SendBatch, SchemaFails

LEMMA SettledNext == TypeOK /\ StartedInv /\ EarlyInv /\ SettledInv /\ [Next]_vars => SettledInv'
<1> SUFFICES ASSUME TypeOK, StartedInv, EarlyInv, SettledInv, [Next]_vars PROVE SettledInv'
  OBVIOUS
<1>1. CASE Plan
  <2>1. Requested' = requested_cols /\ event' = requested_cols \cup Hidden_cols'
    BY <1>1 DEF Plan, Requested, projected_cols, Hidden_cols
  <2>2. event' # None
    BY <1>1, <2>1, PlanNext, NoneAssumption DEF PlanOK, projected_cols, Plan, Hidden_cols, Requested
  <2>3. \A c \in requested_cols : InContract(c) => schema'[c] = Field(req.contract, c)
    BY <1>1 DEF Plan, Unified
  <2> QED BY <1>1, <2>1, <2>2, <2>3 DEF Plan, SettledInv, InContract
<1>2. CASE pc = "idle" \/ pc = "policies" \/ pc = "open"
  BY <1>2 DEF SettledInv, EarlyInv, Next, Call, Task, Done, vars, plan, sent, Write, Deposit, Put,
     Begin, Discover, ScanFails, Return, OpenFirst, Deny, Plan, OpenFile, OpenFails, ScanEnds,
     FileEnds, NextFile, BatchFails, Filter, DropFails, MaskColumn, PadColumn, ColumnDenied,
     SendBatch, SchemaFails
<1>3. CASE pc \notin {"idle", "policies", "open"} /\ ~Plan
  <2>1. UNCHANGED plan
    BY <1>3 DEF Next, Call, Task, Done, vars, plan, Write, Deposit, Put,
     Begin, Discover, ScanFails, OpenFirst, Deny, OpenFile, OpenFails, ScanEnds,
     FileEnds, BatchFails, Filter, DropFails, MaskColumn, PadColumn, ColumnDenied,
     SendBatch, SchemaFails
  <2>2. pc' \in {"file", "batch", "mask"} \/ item' # None =>
            pc \in {"file", "batch", "mask"} \/ item # None
    BY <1>3 DEF Next, Call, Task, Done, vars, sent, Write, Deposit, Put, Begin, Discover, ScanFails,
     Return, OpenFirst, Deny, OpenFile, OpenFails, ScanEnds, FileEnds, NextFile, BatchFails, Filter,
     DropFails, MaskColumn, PadColumn, ColumnDenied, SendBatch, SchemaFails
  <2> QED BY <2>1, <2>2 DEF SettledInv, plan, Hidden_cols, Requested, InContract
<1> QED BY <1>1, <1>2, <1>3

LEMMA PlaceNext == TypeOK /\ EarlyInv /\ PlaceInv /\ [Next]_vars => PlaceInv'
<1> SUFFICES ASSUME TypeOK, EarlyInv, PlaceInv, [Next]_vars PROVE PlaceInv'
  OBVIOUS
<1>1. CASE OpenFile
  <2>1. n \in DOMAIN store
    BY <1>1 DEF OpenFile, PlaceInv, TypeOK, FileAtHandOK, StoreOK
  <2> QED BY <1>1, <2>1 DEF OpenFile, PlaceInv, plan
<1>2. CASE Filter
  BY <1>2 DEF Filter, PlaceInv, plan
<1>3. CASE FileEnds \/ BatchFails \/ DropFails \/ ColumnDenied \/ SchemaFails
  <2>1. n \in Nat /\ pc' = "file" /\ n' = n + 1 /\ cells' = NoColumn
    BY <1>3 DEF FileEnds, BatchFails, DropFails, ColumnDenied, SchemaFails, NextFile, TypeOK,
       FileAtHandOK, StoreOK
  <2>2. n >= 1
    BY <1>3 DEF FileEnds, BatchFails, DropFails, ColumnDenied, SchemaFails, PlaceInv, TypeOK, StoreOK
  <2> QED BY <2>1, <2>2 DEF PlaceInv
<1>4. CASE MaskColumn \/ PadColumn \/ SendBatch
  BY <1>4 DEF MaskColumn, PadColumn, SendBatch, PlaceInv, plan
<1>5. CASE Plan
  BY <1>5 DEF Plan, PlaceInv, EarlyInv
<1>6. CASE pc' \notin {"file", "batch", "mask"} /\ pc # "mask" /\ UNCHANGED cells
  BY <1>6 DEF PlaceInv
<1>7. CASE UNCHANGED vars
  BY <1>7 DEF PlaceInv, vars
<1> QED
  BY <1>1, <1>2, <1>3, <1>4, <1>5, <1>6, <1>7 DEF Next, Call, Task, Done, Write, Deposit,
     Put, Begin, Discover, ScanFails, Return, OpenFirst, Deny, OpenFails, ScanEnds

LEMMA PrunedNext == EarlyInv /\ PrunedInv /\ [Next]_vars => PrunedInv'
<1> SUFFICES ASSUME EarlyInv, PrunedInv, [Next]_vars PROVE PrunedInv'
  OBVIOUS
<1>1. CASE OpenFile
  <2>1. /\ maps'.pruned \subseteq Prunable /\ pc' = "batch"
        /\ UNCHANGED <<req, preds>>
    BY <1>1 DEF OpenFile, plan
  <2> QED BY <2>1 DEF PrunedInv, Prunable, Hidden_cols
<1>2. CASE Plan
  <2>1. maps' = NoMaps
    BY <1>2 DEF Plan, PrunedInv
  <2> QED BY <2>1 DEF PrunedInv, NoMaps
<1>3. CASE Begin \/ Discover
  BY <1>3 DEF Begin, Discover, EarlyInv, PrunedInv
<1>4. CASE UNCHANGED <<plan, maps>> /\ (pc' = pc \/ pc' \in {"plan", "file", "batch", "mask", "done"})
           /\ (pc' = "plan" => pc = "open" \/ pc = "plan")
  <2>1. Hidden_cols' = Hidden_cols /\ req' = req /\ event' = event /\ maps' = maps
    BY <1>4 DEF plan, Hidden_cols
  <2>2. pc' \in {"idle", "policies", "open", "plan"} => pc \in {"idle", "policies", "open", "plan"}
    BY <1>4
  <2> QED BY <2>1, <2>2 DEF PrunedInv
<1> QED
  BY <1>1, <1>2, <1>3, <1>4 DEF Next, Call, Task, Done, vars, plan, Write, Deposit, Put, ScanFails,
     Return, OpenFirst, Deny, OpenFails, ScanEnds, FileEnds, NextFile, BatchFails, Filter,
     DropFails, MaskColumn, PadColumn, ColumnDenied, SendBatch, SchemaFails

-----------------------------------------------------------------------------
(* What the linter lets in, and what is made of it.                        *)

\* a batch the linter finds no fault with
LEMMA LintedFits ==
  ASSUME NEW k \in Contracts, NEW b \in Batches, validate(k, b) = {}, NEW tags, NEW enc
  PROVE  LintOf(File(b, tags, enc, k))
<1>1. Of("ExtraColumn", b.cols \ k.cols) = {} /\ Of("MissingColumn", k.required \ b.cols) = {}
      /\ Of("TypeMismatch", Mistyped(k, b)) = {}
      /\ Of("NullViolation", k.required \cap b.cols \cap b.nulls) = {}
  BY DEF validate
<1>2. b.cols \ k.cols = {} /\ k.required \ b.cols = {} /\ Mistyped(k, b) = {}
      /\ k.required \cap b.cols \cap b.nulls = {}
  <2>1. ASSUME NEW kind, NEW cols, Of(kind, cols) = {} PROVE cols = {}
    <3>1. \A c \in cols : <<kind, c>> \in Of(kind, cols)
      BY DEF Of
    <3> QED BY <2>1, <3>1
  <2> QED BY <1>1, <2>1
<1>3. \A c \in b.cols : expected_data_type[k.type[c]] = b.type[c]
  BY <1>2 DEF Mistyped
<1> QED BY <1>2, <1>3 DEF LintOf, File

LEMMA LintNext == TypeOK /\ LintInv /\ [Next]_vars => LintInv'
<1> SUFFICES ASSUME TypeOK, LintInv, [Next]_vars PROVE LintInv'
  OBVIOUS
<1>1. ASSUME NEW f, Put(f), LintOf(f) PROVE LintInv'
  <2>1. \A i \in DOMAIN store' :
          \/ i \in DOMAIN store /\ store'[i] = store[i]
          \/ store'[i] = f
    BY <1>1 DEF Put, TypeOK, StoreOK
  <2> QED BY <1>1, <2>1 DEF LintInv, LintOf
<1>2. CASE Write
  BY <1>1, <1>2, LintedFits DEF Write
<1>3. CASE Deposit
  <2>1. \A b, tags, enc : LintOf(File(b, tags, enc, None))
    BY DEF LintOf, File
  <2> QED BY <1>1, <1>3, <2>1 DEF Deposit
<1>4. CASE UNCHANGED store
  BY <1>4 DEF LintInv, LintOf
<1> QED
  BY <1>2, <1>3, <1>4 DEF Next, Call, Task, Done, vars, Begin, Discover, ScanFails, OpenFirst,
     Deny, Plan, OpenFile, OpenFails, ScanEnds, FileEnds, BatchFails, Filter, DropFails,
     MaskColumn, PadColumn, ColumnDenied, SendBatch, SchemaFails

LEMMA AddColumn ==
  ASSUME NEW f, NEW k, NEW m, NEW q, NEW c, NEW cell, Column(c, cell),
         \A d \in DOMAIN cells : Array(f, k, m, q, d, cells[d]),
         Array(f, k, m, q, c, cell)
  PROVE  \A d \in DOMAIN cells' : Array(f, k, m, q, d, cells'[d])
<1>1. \A d \in DOMAIN cells' : IF d = c THEN cells'[d] = cell
                              ELSE d \in DOMAIN cells /\ cells'[d] = cells[d]
  BY DEF Column
<1> QED BY <1>1

LEMMA CellsInvNext == TypeOK /\ PlaceInv /\ CellsInv /\ [Next]_vars => CellsInv'
<1> SUFFICES ASSUME TypeOK, PlaceInv, CellsInv, [Next]_vars PROVE CellsInv'
  OBVIOUS
<1>1. CASE MaskColumn
  <2>1. PICK c \in (Requested \ DOMAIN cells) \cap store[n].cols :
          /\ Outcome(c) \in {"values", "hashed", "redacted", "nulls"}
          /\ Column(c, [became |-> Outcome(c), type |-> store[n].type[c],
                        nulls |-> IF Outcome(c) = "nulls" THEN ~batch.empty ELSE c \in batch.nulls])
    BY <1>1 DEF MaskColumn
  <2>2. Outcome(c) = apply_rls(policy, req.caller, req.assumed, req.purpose, req.mode, c,
                               c \in store[n].encrypted, store[n].tags[c])
    BY <1>1 DEF Outcome, MaskColumn, PlaceInv
  <2>3. batch.nulls \subseteq store[n].nulls
    BY <1>1 DEF MaskColumn, PlaceInv
  <2>4. Array(store[n], req.contract, policy, req, c,
              [became |-> Outcome(c), type |-> store[n].type[c],
               nulls |-> IF Outcome(c) = "nulls" THEN ~batch.empty ELSE c \in batch.nulls])
    BY <2>1, <2>2, <2>3 DEF Array
  <2>5. \A d \in DOMAIN cells : Array(store[n], req.contract, policy, req, d, cells[d])
    BY <1>1 DEF MaskColumn, CellsInv, Arrays
  <2>6. \A d \in DOMAIN cells' : Array(store[n], req.contract, policy, req, d, cells'[d])
    BY <2>1, <2>4, <2>5, AddColumn
  <2>7. UNCHANGED <<store, n, req, policy>>
    BY <1>1 DEF MaskColumn, plan
  <2> QED BY <2>6, <2>7 DEF CellsInv, Arrays
<1>2. CASE PadColumn
  <2>1. PICK c \in (Requested \ DOMAIN cells) \ store[n].cols :
          Column(c, [became |-> "padded", nulls |-> ~batch.empty,
                     type |-> IF InContract(c) THEN Field(req.contract, c).type ELSE "null"])
    BY <1>2 DEF PadColumn
  <2>2. Array(store[n], req.contract, policy, req, c,
              [became |-> "padded", nulls |-> ~batch.empty,
               type |-> IF InContract(c) THEN Field(req.contract, c).type ELSE "null"])
    BY <2>1 DEF Array, InContract
  <2>3. \A d \in DOMAIN cells : Array(store[n], req.contract, policy, req, d, cells[d])
    BY <1>2 DEF PadColumn, CellsInv, Arrays
  <2>4. \A d \in DOMAIN cells' : Array(store[n], req.contract, policy, req, d, cells'[d])
    BY <2>1, <2>2, <2>3, AddColumn
  <2>5. UNCHANGED <<store, n, req, policy>>
    BY <1>2 DEF PadColumn, plan
  <2> QED BY <2>4, <2>5 DEF CellsInv, Arrays
<1>3. CASE Filter
  <2>1. cells' = NoColumn
    BY <1>3 DEF Filter, PlaceInv
  <2> QED BY <2>1, NoColumnTyped DEF CellsInv, Arrays
<1>4. CASE UNCHANGED <<pc, store, n, req, policy, cells>>
  BY <1>4 DEF CellsInv, Arrays
<1>5. CASE pc' # "mask"
  BY <1>5 DEF CellsInv
<1> QED
  BY <1>1, <1>2, <1>3, <1>4, <1>5 DEF Next, Call, Task, Done, vars, plan, Write, Deposit, Put, Begin,
     Discover, ScanFails, Return, OpenFirst, Deny, Plan, OpenFile, OpenFails, ScanEnds, FileEnds,
     NextFile, BatchFails, DropFails, ColumnDenied, SendBatch, SchemaFails

LEMMA ItemInvNext == TypeOK /\ EarlyInv /\ CellsInv /\ ItemInv /\ [Next]_vars => ItemInv'
<1> SUFFICES ASSUME TypeOK, EarlyInv, CellsInv, ItemInv, [Next]_vars PROVE ItemInv'
  OBVIOUS
<1>1. CASE SendBatch \/ SchemaFails
  <2>1. item'.file = n /\ item'.cells = cells /\ UNCHANGED <<store, req, policy, schema>>
    BY <1>1 DEF SendBatch, SchemaFails, Send, plan
  <2>2. Arrays(store[n], cells)
    BY <1>1 DEF SendBatch, SchemaFails, CellsInv
  <2>3. \A c \in DOMAIN item'.cells :
          Array(store'[item'.file], req'.contract, policy', req', c, item'.cells[c])
    BY <2>1, <2>2 DEF Arrays
  <2>4. Misfit' => \E c \in Requested :
                      \/ cells[c].type # schema[c].type
                      \/ cells[c].nulls /\ ~schema[c].nullable
    BY <1>1 DEF SendBatch, SchemaFails, Send, Misfit, FitsSchema
  <2> QED BY <2>1, <2>3, <2>4 DEF ItemInv, Arrays, Requested
<1>2. CASE item' = None
  BY <1>2 DEF ItemInv, Delivered, Misfit
<1>3. CASE OpenFails \/ BatchFails \/ DropFails \/ ColumnDenied
  BY <1>3 DEF OpenFails, BatchFails, DropFails, ColumnDenied, Send, ItemInv, Delivered, Misfit
<1>4. CASE UNCHANGED <<store, req, policy, schema, item>>
  BY <1>4 DEF ItemInv, Delivered, Misfit, Arrays, Requested
<1>5. CASE Plan \/ Write \/ Deposit \/ Begin \/ Discover
  BY <1>5, <1>2 DEF Plan, Write, Deposit, Put, Begin, Discover, EarlyInv, sent
<1> QED
  BY <1>1, <1>2, <1>3, <1>4, <1>5 DEF Next, Call, Task, Done, vars, plan, sent,
     ScanFails, OpenFirst, Deny, ScanEnds, FileEnds, Filter, MaskColumn, PadColumn, OpenFile

LEMMA Inductive == Spec => []IInv
<1>1. Init => IInv
  <2> SUFFICES ASSUME Init PROVE IInv
    OBVIOUS
  <2>1. TypeOK
    BY EmptyTyped, NoColumnTyped, MaxFilesAssumption
       DEF Init, TypeOK, StoreOK, PlanOK, FileAtHandOK, ItemOK, Requested, NoMaps, NoBatch, NoColumn
  <2>2. EarlyInv /\ StartedInv /\ SettledInv /\ PlaceInv /\ PrunedInv
    BY DEF Init, EarlyInv, StartedInv, SettledInv, PlaceInv, PrunedInv
  <2>3. LintInv /\ CellsInv /\ ItemInv
    BY DEF Init, LintInv, CellsInv, ItemInv, Delivered, Misfit
  <2> QED BY <2>1, <2>2, <2>3 DEF IInv
<1>2. IInv /\ [Next]_vars => IInv'
  <2> SUFFICES ASSUME IInv, [Next]_vars PROVE IInv'
    OBVIOUS
  <2>1. pc' \in {"idle", "policies", "open", "plan", "file", "batch", "mask", "done"}
        /\ result' \in {None, "Ok", "Failed", "Denied"}
    BY DEF IInv, TypeOK, Next, Call, Task, Done, vars, plan, sent, Write, Deposit, Put, Begin,
       Discover, ScanFails, Return, OpenFirst, Deny, Plan, OpenFile, OpenFails, ScanEnds, FileEnds,
       NextFile, BatchFails, Filter, DropFails, MaskColumn, PadColumn, ColumnDenied, SendBatch,
       SchemaFails
  <2>2. StoreOK'
    BY StoreNext DEF IInv, TypeOK
  <2>3. TypeOK'
    BY <2>1, <2>2, PlanNext, FileAtHandNext, ItemOKNext DEF IInv, TypeOK
  <2>4. EarlyInv' /\ StartedInv' /\ SettledInv' /\ PlaceInv' /\ PrunedInv'
    BY EarlyNext, StartedNext, SettledNext, PlaceNext, PrunedNext DEF IInv
  <2>5. LintInv' /\ CellsInv' /\ ItemInv'
    BY LintNext, CellsInvNext, ItemInvNext DEF IInv
  <2> QED BY <2>3, <2>4, <2>5 DEF IInv
<1> QED BY <1>1, <1>2, PTL DEF Spec

-----------------------------------------------------------------------------
(* The theorems.                                                           *)

\* Every variable keeps its type, whatever the files, contracts and requests.
THEOREM TypeCorrect == Spec => []TypeOK
<1>1. IInv => TypeOK
  BY DEF IInv
<1> QED BY <1>1, Inductive, PTL

\* The audit event comes before the first batch and names every column whose values
\* are delivered or that a filter of the policy reads; a column that decides which
\* rows are delivered without being named is one of the caller's own predicates
\* (scan_orchestrator.rs:472-508, 686).
THEOREM Covered == Spec => []AuditCoversAccess
<1>1. IInv => AuditCoversAccess
  BY DEF IInv, TypeOK, ItemOK, SettledInv, PrunedInv, AuditCoversAccess, Delivered
<1> QED BY <1>1, Inductive, PTL

\* a mask that leaves values alone is PLAINTEXT, or of an unknown name
LEMMA ValuesGranted ==
  ASSUME NEW m \in Manifest, NEW r \in Roles, NEW c \in Columns, NEW tags \in SUBSET Tags, NEW mode,
         Masked(MasksFor(m, r, c, tags), c, mode) = "values"
  PROVE  \/ \E k \in Keys : /\ <<k, c>> \in ContainsWord
                           /\ m.column_masks[r][k] \in {"PLAINTEXT", "NULL"}
         \/ \E t \in tags : m.tag_masks[r][t] \in {"PLAINTEXT", "NULL"}
<1>1. MasksFor(m, r, c, tags) \subseteq Masks \cup {None}
  <2>1. \A k \in Keys : m.column_masks[r][k] \in Masks \cup {None}
    BY DEF Manifest
  <2>2. \A t \in tags : m.tag_masks[r][t] \in Masks \cup {None}
    BY DEF Manifest
  <2> QED BY <2>1, <2>2 DEF MasksFor
<1>2. MasksFor(m, r, c, tags) \cap {"PLAINTEXT", "NULL"} # {}
  <2> DEFINE found == MasksFor(m, r, c, tags) \ {None}
  <2>1. Hidden(c) # "values"
    BY DEF Hidden
  <2>2. "PLAINTEXT" \in found \/ (found # {} /\ "HASH" \notin found /\ "REDACT" \notin found)
    BY <2>1 DEF Masked
  <2> QED BY <1>1, <2>2 DEF Masks
<1> QED BY <1>2 DEF MasksFor

\* What leaves a file depends on that file, whatever the first one is.
THEOREM Governed == Spec => []EachFileGoverned
<1>1. IInv => EachFileGoverned
  <2> SUFFICES ASSUME IInv, Delivered, NEW c \in Requested \cap store[item.file].cols
               PROVE  IF c \in store[item.file].encrypted
                        THEN item.cells[c].became = "values" => Granted(c, store[item.file].tags[c])
                        ELSE ~Required(policy, c, store[item.file].tags[c])
    BY DEF EachFileGoverned
  <2> DEFINE f == store[item.file]
  <2>1. f \in FileType /\ c \in Columns /\ c \in DOMAIN item.cells /\ policy \in Manifest
    BY DEF IInv, TypeOK, StoreOK, PlanOK, ItemOK, Delivered
  <2>2. /\ item.cells[c].became \in {"values", "hashed", "redacted", "nulls"}
        /\ item.cells[c].became = apply_rls(policy, req.caller, req.assumed, req.purpose, req.mode, c,
                                            c \in f.encrypted, f.tags[c])
    BY <2>1 DEF IInv, ItemInv, Arrays, Array
  <2>3. CASE c \in f.encrypted /\ item.cells[c].became = "values"
    <3> DEFINE active == ActiveRole(policy, req.caller, req.assumed, req.purpose) \cap policy.principals
               r == CHOOSE r \in active : TRUE
    <3>1. active # {} /\ Masked(MasksFor(policy, r, c, f.tags[c]), c, req.mode) = "values"
      BY <2>2, <2>3 DEF apply_rls
    <3>2. r \in Active /\ r \in Roles
      BY <2>1, <3>1 DEF Active, Manifest
    <3>3. f.tags[c] \in SUBSET Tags
      BY <2>1 DEF FileType
    <3> HIDE DEF r, active
    <3> QED BY <2>1, <2>3, <3>1, <3>2, <3>3, ValuesGranted DEF Granted
  <2>4. CASE c \notin f.encrypted
    <3>1. item.cells[c].became = Bare(policy, c, f.tags[c])
      BY <2>2, <2>4 DEF apply_rls
    <3> QED BY <2>2, <2>4, <3>1 DEF Bare
  <2> QED BY <2>3, <2>4
<1> QED BY <1>1, Inductive, PTL

\* A file the linter let in under an older contract fits the schema of the scan,
\* unless a required column is masked to nulls.
THEOREM LintedFit == Spec => []LintedFilesFit
<1>1. IInv => LintedFilesFit
  <2> SUFFICES ASSUME IInv, Misfit, store[item.file].linted # None, req.contract # None,
                      Requested \subseteq req.contract.cols,
                      Evolves(req.contract, store[item.file].linted)
               PROVE  \E c \in Requested \cap req.contract.required : item.cells[c].became = "nulls"
    BY DEF LintedFilesFit
  <2> DEFINE f == store[item.file]
             new == req.contract
             old == f.linted
  <2>1. PICK c \in Requested :
          \/ item.cells[c].type # schema[c].type
          \/ item.cells[c].nulls /\ ~schema[c].nullable
    BY DEF IInv, ItemInv
  <2>2. c \in new.cols /\ schema[c] = Field(new, c)
    BY DEF IInv, SettledInv, InContract, Misfit
  <2>3. Array(f, new, policy, req, c, item.cells[c])
    BY DEF IInv, ItemInv, Arrays, TypeOK, ItemOK, Misfit
  <2>4. LintOf(f)
    BY DEF IInv, LintInv, TypeOK, ItemOK, Misfit
  <2>5. schema[c].nullable <=> c \notin new.required
    <3>1. schema[c].nullable = (c \notin new.required)
      BY <2>2 DEF Field
    <3> QED BY <3>1, Zenon
  <2>6. CASE c \in f.cols
    <3>1. item.cells[c].type = schema[c].type
      <4>1. c \in new.cols \cap old.cols
        BY <2>2, <2>4, <2>6 DEF LintOf
      <4>2. expected_data_type[new.type[c]] = f.type[c]
        BY <2>4, <2>6, <4>1 DEF LintOf, Evolves
      <4> QED BY <2>2, <2>3, <2>6, <4>2 DEF Array, Field
    <3>2. item.cells[c].nulls /\ c \in new.required
      BY <2>1, <2>5, <3>1
    <3>3. c \notin f.nulls
      BY <2>4, <3>2 DEF LintOf, Evolves
    <3> QED BY <2>3, <2>6, <3>2, <3>3 DEF Array
  <2>7. CASE c \notin f.cols
    <3>1. c \notin new.required
      BY <2>4, <2>7 DEF LintOf, Evolves
    <3>2. item.cells[c].type = schema[c].type
      BY <2>2, <2>3, <2>7 DEF Array, Field
    <3> QED BY <2>1, <2>5, <3>1, <3>2
  <2> QED BY <2>6, <2>7
<1> QED BY <1>1, Inductive, PTL
=============================================================================
