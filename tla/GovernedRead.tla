----------------------------- MODULE GovernedRead -----------------------------
(***************************************************************************)
(* From a contract and layers of policies to the column a caller gets:     *)
(* write() (manager/write_orchestrator.rs) decides what to encrypt, read() *)
(* (manager/read_orchestrator.rs) which rows and which values to hand out. *)
(* Policies change between calls: every call discovers them anew, and in   *)
(* any order.  How the file gets into the store is WritePipeline's; a read *)
(* sees one version of the file.                                           *)
(*                                                                         *)
(* Bounds: PolicySets, Contracts, Requests, Groups and MaxCalls.           *)
(***************************************************************************)
EXTENDS Policy, Sequences, FiniteSets

CONSTANTS
    PolicySets,     \* what discover_policies may answer: sequences of layers
    Contracts,      \* [cols, tags]
    Requests,       \* what read() may be called with
    RowGroups,      \* contents of files: sequences of groups, of rows; a row is
                    \* the set of the filters it satisfies
    MaxCalls

Layer == [level : 0 .. 2, manifest : Manifest, valid : BOOLEAN]  \* Local, Domain, Global
Contract == [cols : SUBSET Columns, tags : [Columns -> SUBSET Tags]]
Request ==
    [caller : SUBSET Roles, purpose : Purposes, assumed : Roles \cup {None}, column : Columns,
     contract : SUBSET Columns, mode : {"StrictError", "GracefulMasking"}]

ASSUME PolicySetsAssumption == PolicySets \subseteq Seq(Layer)
ASSUME ContractsAssumption == Contracts \subseteq Contract
ASSUME RequestsAssumption == Requests \subseteq Request
ASSUME MaxCallsAssumption == MaxCalls \in Nat
ASSUME RowGroupsAssumption == RowGroups \subseteq Seq(Seq(SUBSET Filters))

VARIABLES
    file,       \* the file at the target, or None
    calls,      \* calls begun
    pc,         \* "idle", "discover", "merge", "store", "open", "plan", "prune", "read", "mask"
    call,       \* the request, or the contract of a write
    layers,     \* what discovery returned
    merged,     \* the layers merge_layers has folded so far
    policy,     \* their merge
    preds,      \* policy_predicates
    group,      \* the row group the stream is at
    kept,       \* the row groups left by pruning
    out,        \* the rows passed, as <<group, row>>
    recorded,   \* the call pushed an audit event
    result      \* of the last call: an error, or what became of the values

vars == <<file, calls, pc, call, layers, merged, policy, preds, group, kept, out, recorded, result>>
context == <<call, layers, merged, policy>>
scan == <<preds, group, kept, out>>

Errors ==
    {"PolicyFailed", "EncryptionFailed", "UploadFailed", "CryptoFailed", "IngestionFailed",
     "AccessDenied", "DataLeakPrevented"}
Values == {"values", "hashed", "redacted", "nulls"}
ASSUME NoneAssumption == None \notin {"Ok", "missing"} \cup Values \cup Errors

Init ==
    /\ file = None
    /\ calls = 0
    /\ pc = "idle"
    /\ call = None
    /\ layers = <<>>
    /\ merged = {}
    /\ policy = EmptyManifest
    /\ preds = {}
    /\ group = 1
    /\ kept = {}
    /\ out = {}
    /\ recorded = FALSE
    /\ result = None

Return(r) ==
    /\ pc' = "idle"
    /\ result' = r

-----------------------------------------------------------------------------
(* The policies of a call: discover, verify, merge.                        *)

Writing == call \in Contracts

Begin(c) ==
    /\ pc = "idle"
    /\ calls < MaxCalls
    /\ calls' = calls + 1
    /\ pc' = "discover"
    /\ call' = c
    /\ layers' = <<>>
    /\ merged' = {}
    /\ policy' = EmptyManifest
    /\ preds' = {}
    /\ group' = 1
    /\ kept' = {}
    /\ out' = {}
    /\ recorded' = FALSE
    /\ result' = None
    /\ UNCHANGED file

\* the purpose is there and the batch passes the linter; the purpose is there
\* and a file is, too
BeginWrite == \E c \in Contracts : Begin(c)
BeginRead == file # None /\ \E q \in Requests : Begin(q)

PolicyError == IF Writing THEN "EncryptionFailed" ELSE "PolicyFailed"

Discover ==
    /\ pc = "discover"
    /\ layers' \in PolicySets
    /\ IF \A i \in DOMAIN layers' : layers'[i].valid
            THEN pc' = "merge" /\ UNCHANGED result
            ELSE Return(PolicyError)
    /\ UNCHANGED <<file, calls, call, merged, policy, scan, recorded>>

DiscoverFails ==
    /\ pc = "discover"
    /\ Return(PolicyError)
    /\ UNCHANGED <<file, calls, context, scan, recorded>>

\* the order of a stable sort by level
Before(i, j) ==
    \/ layers[i].level < layers[j].level
    \/ layers[i].level = layers[j].level /\ i < j

MergeLayer ==
    /\ pc = "merge"
    /\ \E i \in DOMAIN layers \ merged :
        /\ \A j \in DOMAIN layers \ merged : j = i \/ Before(i, j)
        /\ merged' = merged \cup {i}
        /\ policy' = Merge(policy, layers[i].manifest)
    /\ UNCHANGED <<file, calls, pc, call, layers, scan, recorded, result>>

Merged ==
    /\ pc = "merge"
    /\ merged = DOMAIN layers
    /\ pc' = IF Writing THEN "store" ELSE "open"
    /\ UNCHANGED <<file, calls, context, scan, recorded, result>>

-----------------------------------------------------------------------------
(* write(), after the policies.                                            *)

KeysFail ==
    /\ pc = "store"
    /\ Return("EncryptionFailed")
    /\ UNCHANGED <<file, calls, context, scan, recorded>>

\* optional columns of the contract may be missing from the batch; the
\* serializer fails when one of them has a key
Store_wholeContract ==
    /\ pc = "store"
    /\ \E cols \in SUBSET call.cols : \E groups \in RowGroups :
        /\ cols # {}
        /\ file' = [cols |-> cols, tags |-> call.tags, groups |-> groups, under |-> layers,
                    encrypted |-> Sealed(cols, ToEncrypt(policy, call.cols, call.tags))]
    /\ recorded' = TRUE
    /\ \E r \in {"Ok", "UploadFailed"} : Return(r)
    /\ UNCHANGED <<calls, context, scan>>
Store ==
    /\ pc = "store"
    /\ \E cols \in SUBSET call.cols : \E groups \in RowGroups :
        /\ cols # {}
        /\ ToEncrypt(policy, call.cols, call.tags) \subseteq cols
        /\ file' = [cols |-> cols, tags |-> call.tags, groups |-> groups, under |-> layers,
                    encrypted |-> Sealed(cols, ToEncrypt(policy, call.cols, call.tags))]
    /\ recorded' = TRUE
    /\ \E r \in {"Ok", "UploadFailed"} : Return(r)
    /\ UNCHANGED <<calls, context, scan>>

StoreFails ==
    /\ pc = "store"
    /\ recorded' = TRUE
    /\ Return("UploadFailed")
    /\ UNCHANGED <<file, calls, context, scan>>

-----------------------------------------------------------------------------
(* read(), after the policies.                                             *)

Open ==
    /\ pc = "open"
    /\ pc' = "plan"
    /\ UNCHANGED <<file, calls, context, scan, recorded, result>>

\* the KMS refuses the key of the footer
KmsRefuses_unrecorded ==
    /\ pc = "open"
    /\ Return("CryptoFailed")
    /\ UNCHANGED <<file, calls, context, scan, recorded>>
KmsRefuses ==
    /\ pc = "open"
    /\ recorded' = TRUE
    /\ Return("CryptoFailed")
    /\ UNCHANGED <<file, calls, context, scan>>

\* the footer or the contract cannot be read
OpenFails ==
    /\ pc = "open"
    /\ Return("IngestionFailed")
    /\ UNCHANGED <<file, calls, context, scan, recorded>>

Active == ActiveRole(policy, call.caller, call.assumed, call.purpose) \cap policy.principals
GlobalFilters ==
    {f \in UNION {policy.global_row_filters[r] : r \in Active} : FilterColumn[f] # None}
SelectiveFilters ==
    {f \in UNION {policy.selective_row_filters[r] : r \in Active} : FilterColumn[f] # None}

DenyRead ==
    /\ pc = "plan"
    /\ \E f \in GlobalFilters : FilterColumn[f] \notin file.cols
    /\ Return("AccessDenied")
    /\ UNCHANGED <<file, calls, context, scan, recorded>>

Plan ==
    /\ pc = "plan"
    /\ \A f \in GlobalFilters : FilterColumn[f] \in file.cols
    /\ call.column \in file.cols
    /\ preds' = GlobalFilters \cup {f \in SelectiveFilters : FilterColumn[f] \in file.cols}
    /\ pc' = "prune"
    /\ UNCHANGED <<file, calls, context, group, kept, out, recorded, result>>

\* a column the file lacks: nulls if the contract has it, one per row of the file
Missing ==
    /\ pc = "plan"
    /\ \A f \in GlobalFilters : FilterColumn[f] \in file.cols
    /\ call.column \notin file.cols
    /\ Return(IF call.column \in call.contract THEN "missing" ELSE "IngestionFailed")
    /\ UNCHANGED <<file, calls, context, scan, recorded>>

\* statistics rule out only row groups without a matching row
\* (ScanProofs!PruningSound); where a date is compared for equality they may rule
\* out others, too (DatePruning), which hands out less than is modelled here
Prune ==
    /\ pc = "prune"
    /\ \E gone \in SUBSET DOMAIN file.groups :
        /\ \A g \in gone : \A r \in DOMAIN file.groups[g] : ~(preds \subseteq file.groups[g][r])
        /\ kept' = DOMAIN file.groups \ gone
    /\ pc' = "read"
    /\ UNCHANGED <<file, calls, context, preds, group, out, recorded, result>>

SkipGroup ==
    /\ pc = "read"
    /\ group \in DOMAIN file.groups \ kept
    /\ group' = group + 1
    /\ UNCHANGED <<file, calls, pc, context, preds, kept, out, recorded, result>>

Passing(g) == {r \in DOMAIN file.groups[g] : preds \subseteq file.groups[g][r]}

ReadGroup ==
    /\ pc = "read"
    /\ group \in kept
    /\ out' = out \cup {<<group, r>> : r \in Passing(group)}
    /\ group' = group + 1
    /\ UNCHANGED <<file, calls, pc, context, preds, kept, recorded, result>>

\* a batch cannot be read or decrypted, or a filter does not fit its column
ReadFails ==
    /\ pc = "read"
    /\ group \in kept
    /\ \E r \in {"IngestionFailed"} \cup (IF preds # {} THEN {"AccessDenied"} ELSE {}) : Return(r)
    /\ UNCHANGED <<file, calls, context, scan, recorded>>

\* "No batches found"
ReadEmpty ==
    /\ pc = "read"
    /\ group \notin DOMAIN file.groups
    /\ out = {}
    /\ Return("IngestionFailed")
    /\ UNCHANGED <<file, calls, context, scan, recorded>>

ReadEnds ==
    /\ pc = "read"
    /\ group \notin DOMAIN file.groups
    /\ out # {}
    /\ pc' = "mask"
    /\ UNCHANGED <<file, calls, context, scan, recorded, result>>

Mask ==
    /\ pc = "mask"
    /\ LET r == apply_rls(policy, call.caller, call.assumed, call.purpose, call.mode,
                    call.column, call.column \in file.encrypted, file.tags[call.column])
       IN  /\ Return(r)
           /\ recorded' = (recorded \/ r \in Values)
    /\ UNCHANGED <<file, calls, context, scan>>

Done == pc = "idle" /\ calls = MaxCalls /\ UNCHANGED vars

Policies == Discover \/ DiscoverFails \/ MergeLayer \/ Merged
Write == BeginWrite \/ KeysFail \/ Store \/ StoreFails
Read ==
    \/ BeginRead \/ Open \/ KmsRefuses \/ OpenFails
    \/ DenyRead \/ Plan \/ Missing \/ Prune
    \/ SkipGroup \/ ReadGroup \/ ReadFails \/ ReadEmpty \/ ReadEnds \/ Mask

Next == Policies \/ Write \/ Read \/ Done

Spec == Init /\ [][Next]_vars

-----------------------------------------------------------------------------
(* What the layers say, without merging them.                              *)

\* the layer that decides among those in S: the last in precedence
Deciding(S) == CHOOSE i \in S : \A j \in S : j = i \/ Before(j, i)
ColumnMask(r, k) ==
    LET S == {i \in DOMAIN layers : layers[i].manifest.column_masks[r][k] # None}
    IN  IF S = {} THEN None ELSE layers[Deciding(S)].manifest.column_masks[r][k]
TagMask(r, t) ==
    LET S == {i \in DOMAIN layers : layers[i].manifest.tag_masks[r][t] # None}
    IN  IF S = {} THEN None ELSE layers[Deciding(S)].manifest.tag_masks[r][t]
Binding(p) ==
    LET S == {i \in DOMAIN layers : layers[i].manifest.purpose_bindings[p] # None}
    IN  IF S = {} THEN None ELSE layers[Deciding(S)].manifest.purpose_bindings[p]
Known(r) == \E i \in DOMAIN layers : r \in layers[i].manifest.principals

\* the call is made under role r: the purpose is bound to it, or it is assumed,
\* or it is the only role of the caller that any layer knows
ActsAs(r) ==
    /\ r \in call.caller /\ Known(r)
    /\ Binding(call.purpose) \in {None, r}
    /\ call.assumed \in {None, r}
    /\ Binding(call.purpose) = None /\ call.assumed = None =>
            \A s \in call.caller : Known(s) => s = r

-----------------------------------------------------------------------------
(* Properties.                                                             *)

FileOK ==
    file # None =>
        /\ file.cols \subseteq Columns
        /\ file.tags \in [Columns -> SUBSET Tags]
        /\ file.groups \in Seq(Seq(SUBSET Filters))
        /\ file.encrypted \subseteq file.cols
        /\ file.under \in Seq(Layer)
PoliciesOK ==
    /\ layers \in Seq(Layer)
    /\ merged \subseteq DOMAIN layers
    /\ policy \in Manifest
TypeOK ==
    /\ FileOK
    /\ PoliciesOK
    /\ calls \in 0 .. MaxCalls
    /\ pc \in {"idle", "discover", "merge", "store", "open", "plan", "prune", "read", "mask"}
    /\ call \in {None} \cup Contracts \cup Requests
    /\ preds \subseteq Filters
    /\ group \in Nat \ {0}
    /\ recorded \in BOOLEAN
    /\ result \in {None, "Ok", "missing"} \cup Values \cup Errors

Delivered == result \in Values

\* the words the layers leave standing for role r on the column asked for: of each
\* name the column answers to, a key or a tag, that of the highest layer using it
Words(r) ==
    ({ColumnMask(r, k) : k \in {k \in Keys : <<k, call.column>> \in ContainsWord}}
        \cup {TagMask(r, t) : t \in file.tags[call.column]}) \ {None}

\* The values of an encrypted column leave unmasked only for a role the call is
\* made under, and only if, under one of the column's names, PLAINTEXT is the word
\* of the highest layer using that name, or no layer's word is one apply_rls knows.
GrantedByAName ==
    result = "values" /\ call.column \in file.encrypted =>
        \E r \in call.caller :
            ActsAs(r) /\ ("PLAINTEXT" \in Words(r) \/ Words(r) = {"NULL"})

\* the names of the column under which layer i masks it for role r
KeysOf(i, r) ==
    {k \in Keys : /\ <<k, call.column>> \in ContainsWord
                  /\ layers[i].manifest.column_masks[r][k] # None}
TagsOf(i, r) ==
    {t \in file.tags[call.column] : layers[i].manifest.tag_masks[r][t] # None}
\* layer i is above the others that mask the column, and they use no name it does not
Overrules(i, r) ==
    \A j \in DOMAIN layers \ {i} :
        /\ KeysOf(j, r) \subseteq KeysOf(i, r) /\ TagsOf(j, r) \subseteq TagsOf(i, r)
        /\ KeysOf(j, r) \cup TagsOf(j, r) # {} => Before(j, i)

\* Name by name the highest layer stands (policy_composition_tests.rs): where no
\* other layer uses a name the highest does not, an encrypted column is handed out
\* as that layer alone would have it, whatever order the layers came in.
HighestStands ==
    Delivered /\ call.column \in file.encrypted =>
        \A r \in call.caller : ActsAs(r) =>
            \A i \in DOMAIN layers : Overrules(i, r) =>
                result = Masked(MasksFor(layers[i].manifest, r, call.column,
                                    file.tags[call.column]), call.column, call.mode)

\* No layer's mask of a name is undone by a lower layer's mask of that name, nor by
\* another role of the caller.  Of different names of one column the most permissive
\* mask wins, whatever the layers (governance_manager.rs:161-181): a lower layer's
\* PLAINTEXT for the key "ssn" lifts a higher one's HASH for "user_ssn", and this
\* property allows it.
UnmaskedIsGranted == GrantedByAName /\ HighestStands

\* Row filters accumulate: a delivered row satisfies the global filters of every
\* layer for the role the call is made under (policy_authoring.md:28), if
\* parse_filter understands them; and an encrypted column is delivered only to a
\* call that is made under a role.  A column in the clear needs none, and then no
\* filter applies to it.
FiltersAccumulate ==
    Delivered =>
        /\ \A r \in call.caller : ActsAs(r) =>
              \A i \in DOMAIN layers : \A f \in layers[i].manifest.global_row_filters[r] :
                  FilterColumn[f] # None =>
                      \A x \in out : f \in file.groups[x[1]][x[2]]
        /\ call.column \in file.encrypted => \E r \in call.caller : ActsAs(r)

\* what a layer asks a write to encrypt: a tag in whatever case the contract has it,
\* a name that is any part of the column's (policy_manager.rs:143-154)
Wanted(m, c, tags) ==
    \/ \E t \in tags : Lower[t] \in m.required_tags
    \/ \E k \in m.required_columns : <<k, c>> \in Contains

Bared == Delivered /\ call.column \notin file.encrypted

\* A column in the clear is delivered only if no layer of the policies its file was
\* written under asked, in write()'s sense, to encrypt it.
WrittenSealed ==
    Bared => \A i \in DOMAIN file.under :
                ~Wanted(file.under[i].manifest, call.column, file.tags[call.column])

\* A column in the clear is delivered only if no layer of the policies the read
\* discovered requires it encrypted, in read()'s sense: by a word of its name, or by
\* a tag as the contract writes it (policy_authoring.md:43).
RequiredNeverBare ==
    Bared => \A i \in DOMAIN layers :
                ~Required(layers[i].manifest, call.column, file.tags[call.column])

LowerCase(manifest) == \A t \in manifest.required_tags : Lower[t] = t

\* What write() encrypts is enough for read(): a file written under the policies
\* a read discovers is never refused as a leak.  The two match names and tags
\* differently; tags required in upper case are where they part.
OwnPoliciesReadable ==
    ~Writing /\ file # None /\ file.under = layers
        /\ (\A i \in DOMAIN layers : LowerCase(layers[i].manifest)) =>
            result # "DataLeakPrevented"

\* What the two sides, which match names and tags differently, agree on: nothing
\* leaves bare that the policies of its write asked for in write()'s sense, or those
\* of its read in read()'s; and a read refuses nothing its own policies had written.
\* They do not agree on more: a policy that came after the write and wants
\* "passnumber" for "ssn", or a "PII" column for "pii", does not stop a read of it.
EncryptionAgrees == WrittenSealed /\ RequiredNeverBare /\ OwnPoliciesReadable

\* What the audit trail tells: a finished call left an event if and only if it
\* handed out values of the file, had its keys refused, or tried to store.  A read
\* denied by a policy, and the nulls of a missing column, leave none.
TrailIsTruthful ==
    pc = "idle" =>
        (recorded <=> \/ Delivered
                      \/ result \in {"CryptoFailed", "Ok", "UploadFailed"})

=============================================================================
