-------------------------- MODULE GovernedReadProofs --------------------------
(***************************************************************************)
(* For all policies, contracts, requests and files: what leaves a read is  *)
(* what the layers, unmerged, allow, and what a write encrypts satisfies   *)
(* the policies it was written under.                                      *)
(***************************************************************************)
EXTENDS GovernedRead, TLAPS

-----------------------------------------------------------------------------
(* Types.                                                                  *)

LEMMA EmptyTyped == EmptyManifest \in Manifest
  BY DEF EmptyManifest, Manifest

\* A merge of manifests is a manifest (policy/manifest.rs:55-120).
LEMMA MergeTyped ==
  ASSUME NEW m \in Manifest, NEW other \in Manifest
  PROVE  Merge(m, other) \in Manifest
<1> DEFINE M == Merge(m, other)
<1>1. M.principals \in SUBSET Roles /\ M.required_tags \in SUBSET Tags
      /\ M.required_columns \in SUBSET Keys
  BY DEF Merge, Manifest, Together
<1>2. M.column_masks \in [Roles -> [Keys -> Masks \cup {None}]]
  BY DEF Merge, Manifest, Or
<1>3. M.tag_masks \in [Roles -> [Tags -> Masks \cup {None}]]
  BY DEF Merge, Manifest, Or
<1>4. /\ M.global_row_filters \in [Roles -> SUBSET Filters]
      /\ M.selective_row_filters \in [Roles -> SUBSET Filters]
  BY DEF Merge, Manifest, Together
<1>5. M.sampling_cap \in [Roles -> Nat \cup {None}]
  BY DEF Merge, Manifest, Least
<1>6. M.purpose_bindings \in [Purposes -> Roles \cup {None}]
  BY DEF Merge, Manifest, Or
<1> QED BY <1>1, <1>2, <1>3, <1>4, <1>5, <1>6 DEF Merge, Manifest

LEMMA LayersTyped ==
  ASSUME layers \in Seq(Layer), NEW i \in DOMAIN layers
  PROVE  layers[i].manifest \in Manifest /\ layers[i].level \in 0 .. 2 /\ i \in Nat
<1>1. layers[i] \in Layer /\ i \in Nat
  OBVIOUS
<1> QED BY <1>1 DEF Layer

-----------------------------------------------------------------------------
(* The invariant.                                                          *)

Reading == {"open", "plan", "prune", "read", "mask"}
Answer ==
    apply_rls(policy, call.caller, call.assumed, call.purpose, call.mode,
        call.column, call.column \in file.encrypted, file.tags[call.column])
Final == merged = DOMAIN layers
FiltersChosen == call.column \in file.cols /\ GlobalFilters \subseteq preds

CallInv ==
    /\ pc = "discover" => merged = {} /\ policy = EmptyManifest
    /\ pc = "store" => Writing
    /\ pc \in Reading \/ (pc \in {"discover", "merge"} /\ ~Writing) =>
            call \in Requests /\ file # None
    /\ pc = "store" \/ pc \in Reading => Final
    /\ pc \in {"prune", "read", "mask"} => FiltersChosen

\* a delivered row passed the filters
OutInv ==
    /\ pc \in {"discover", "merge", "store", "open", "plan", "prune"} => out = {}
    /\ \A x \in out : preds \subseteq file.groups[x[1]][x[2]]

\* what a read returned for the values is what apply_rls said
ResultInv ==
    /\ pc # "idle" => result = None
    /\ result \in Values \cup {"DataLeakPrevented"} =>
            /\ call \in Requests /\ file # None
            /\ Final /\ FiltersChosen
            /\ result = Answer

\* Before, in any sequence of layers
Earlier(ls, i, j) ==
    \/ ls[i].level < ls[j].level
    \/ ls[i].level = ls[j].level /\ i < j

\* v is what the last of the layers in M to speak up said
Represents(ls, M, v, said) ==
    /\ v = None => \A i \in M : said[i] = None
    /\ v # None => \E i \in M : /\ said[i] = v
                                /\ \A j \in M : said[j] # None => j = i \/ Earlier(ls, j, i)

ColumnSaid(ls, r, k) == [i \in DOMAIN ls |-> ls[i].manifest.column_masks[r][k]]
TagSaid(ls, r, t) == [i \in DOMAIN ls |-> ls[i].manifest.tag_masks[r][t]]
BindingSaid(ls, p) == [i \in DOMAIN ls |-> ls[i].manifest.purpose_bindings[p]]

\* m is the merge of the layers in M, the later value over the earlier one, and
\* everything any of them asks for
Overrides(ls, M, m) ==
    /\ \A r \in Roles, k \in Keys : Represents(ls, M, m.column_masks[r][k], ColumnSaid(ls, r, k))
    /\ \A r \in Roles, t \in Tags : Represents(ls, M, m.tag_masks[r][t], TagSaid(ls, r, t))
    /\ \A p \in Purposes : Represents(ls, M, m.purpose_bindings[p], BindingSaid(ls, p))
AddsUp(ls, M, m) ==
    /\ \A r : r \in m.principals <=> \E i \in M : r \in ls[i].manifest.principals
    /\ \A t : t \in m.required_tags <=> \E i \in M : t \in ls[i].manifest.required_tags
    /\ \A k : k \in m.required_columns <=> \E i \in M : k \in ls[i].manifest.required_columns
    /\ \A r \in Roles : \A i \in M :
            ls[i].manifest.global_row_filters[r] \subseteq m.global_row_filters[r]
MergeOf(ls, M, m) ==
    /\ \A i \in M, j \in DOMAIN ls \ M : Earlier(ls, i, j)
    /\ Overrides(ls, M, m)
    /\ AddsUp(ls, M, m)

MergeInv == MergeOf(layers, merged, policy)

\* the file encrypts what each layer it was written under wants encrypted
EncryptInv ==
    file # None =>
        \A i \in DOMAIN file.under : \A c \in file.cols :
            Wanted(file.under[i].manifest, c, file.tags[c]) => c \in file.encrypted

IInv == TypeOK /\ CallInv /\ OutInv /\ ResultInv /\ MergeInv /\ EncryptInv

-----------------------------------------------------------------------------
(* Types are preserved.                                                    *)

LEMMA FileInit == Init => FileOK
  BY DEF Init, FileOK

LEMMA FileNext == TypeOK /\ CallInv /\ [Next]_vars => FileOK'
<1> SUFFICES ASSUME TypeOK, CallInv, [Next]_vars PROVE FileOK'
  OBVIOUS
<1>1. CASE Store
  <2>1. PICK cols \in SUBSET call.cols, groups \in RowGroups :
          /\ ToEncrypt(policy, call.cols, call.tags) \subseteq cols
          /\ file' = [cols |-> cols, tags |-> call.tags, groups |-> groups, under |-> layers,
                      encrypted |-> Sealed(cols, ToEncrypt(policy, call.cols, call.tags))]
    BY <1>1 DEF Store
  <2>2. call \in Contract
    BY <1>1, ContractsAssumption DEF Store, Writing, CallInv
  <2>3. groups \in Seq(Seq(SUBSET Filters)) /\ layers \in Seq(Layer)
    BY RowGroupsAssumption DEF TypeOK, PoliciesOK
  <2> QED BY <2>1, <2>2, <2>3 DEF FileOK, Contract, Sealed
<1>2. ASSUME UNCHANGED file PROVE FileOK'
  BY <1>2 DEF TypeOK, FileOK
<1>3. Store \/ UNCHANGED file
  BY DEF Next, Policies, Write, Read, Done, vars, BeginWrite, BeginRead, Begin, Discover,
     DiscoverFails, MergeLayer, Merged, KeysFail, StoreFails, Open, KmsRefuses, OpenFails,
     DenyRead, Plan, Missing, Prune, SkipGroup, ReadGroup, ReadFails, ReadEmpty, ReadEnds, Mask
<1> QED BY <1>1, <1>2, <1>3

LEMMA PoliciesInit == Init => PoliciesOK
  BY EmptyTyped DEF Init, PoliciesOK

LEMMA PoliciesNext == TypeOK /\ CallInv /\ [Next]_vars => PoliciesOK'
<1> SUFFICES ASSUME TypeOK, CallInv, [Next]_vars PROVE PoliciesOK'
  OBVIOUS
<1> USE DEF TypeOK, PoliciesOK, context
<1>1. CASE BeginWrite \/ BeginRead
  <2>1. layers' = <<>> /\ merged' = {} /\ policy' = EmptyManifest
    BY <1>1 DEF BeginWrite, BeginRead, Begin
  <2> QED BY <2>1, EmptyTyped
<1>2. CASE Discover
  <2>1. layers' \in Seq(Layer) /\ merged' = {} /\ policy' = policy
    BY <1>2, PolicySetsAssumption DEF Discover, CallInv
  <2> QED BY <2>1
<1>3. CASE MergeLayer
  <2>1. PICK i \in DOMAIN layers \ merged :
          merged' = merged \cup {i} /\ policy' = Merge(policy, layers[i].manifest)
    BY <1>3 DEF MergeLayer
  <2>2. layers' = layers
    BY <1>3 DEF MergeLayer
  <2> QED BY <2>1, <2>2, MergeTyped, LayersTyped
<1>4. ASSUME UNCHANGED <<layers, merged, policy>> PROVE PoliciesOK'
  BY <1>4
<1>5. BeginWrite \/ BeginRead \/ Discover \/ MergeLayer \/ UNCHANGED <<layers, merged, policy>>
  BY DEF Next, Policies, Write, Read, Done, vars, DiscoverFails, Merged, KeysFail, Store,
     StoreFails, Open, KmsRefuses, OpenFails, DenyRead, Plan, Missing, Prune, SkipGroup,
     ReadGroup, ReadFails, ReadEmpty, ReadEnds, Mask
<1> QED BY <1>1, <1>2, <1>3, <1>4, <1>5

LEMMA TypeInit == Init => TypeOK
<1> SUFFICES ASSUME Init PROVE TypeOK
  OBVIOUS
<1>1. recorded \in BOOLEAN
  BY Zenon DEF Init
<1>2. FileOK /\ PoliciesOK
  BY FileInit, PoliciesInit
<1>3. calls \in 0 .. MaxCalls /\ group \in Nat \ {0} /\ preds \subseteq Filters
  BY MaxCallsAssumption DEF Init
<1>4. pc = "idle" /\ call = None /\ result = None
  BY DEF Init
<1> QED BY <1>1, <1>2, <1>3, <1>4 DEF TypeOK

LEMMA TypeNext == TypeOK /\ CallInv /\ [Next]_vars => TypeOK'
<1> SUFFICES ASSUME TypeOK, CallInv, [Next]_vars PROVE TypeOK'
  OBVIOUS
<1> DEFINE RestOK ==
      /\ calls \in 0 .. MaxCalls
      /\ pc \in {"idle", "discover", "merge", "store", "open", "plan", "prune", "read", "mask"}
      /\ call \in {None} \cup Contracts \cup Requests
      /\ preds \subseteq Filters
      /\ group \in Nat \ {0}
      /\ recorded \in BOOLEAN
      /\ result \in {None, "Ok", "missing"} \cup Values \cup Errors
<1> SUFFICES RestOK'
  BY FileNext, PoliciesNext DEF TypeOK
<1>0. RestOK
  BY DEF TypeOK
<1> USE <1>0 DEF context, scan, Return, Values, Errors, PolicyError
<1>1. CASE BeginWrite \/ BeginRead
  <2>1. calls' \in 0 .. MaxCalls /\ call' \in Contracts \cup Requests
    BY <1>1, MaxCallsAssumption DEF BeginWrite, BeginRead, Begin
  <2>2. pc' = "discover" /\ preds' = {} /\ group' = 1 /\ result' = None
    BY <1>1 DEF BeginWrite, BeginRead, Begin
  <2>3. recorded' \in BOOLEAN
    BY <1>1, Zenon DEF BeginWrite, BeginRead, Begin
  <2> QED BY <2>1, <2>2, <2>3
<1>2. CASE Discover
  BY <1>2 DEF Discover
<1>3. CASE DiscoverFails \/ KeysFail \/ StoreFails \/ KmsRefuses \/ OpenFails \/ DenyRead
           \/ Missing \/ ReadFails \/ ReadEmpty
  BY <1>3 DEF DiscoverFails, KeysFail, StoreFails, KmsRefuses, OpenFails, DenyRead,
     Missing, ReadFails, ReadEmpty
<1>4. CASE MergeLayer \/ Merged \/ Open \/ ReadEnds
  BY <1>4 DEF MergeLayer, Merged, Open, ReadEnds
<1>5. CASE Store
  BY <1>5 DEF Store
<1>6. CASE Plan
  <2>1. preds' \subseteq GlobalFilters \cup SelectiveFilters /\ pc' = "prune"
        /\ UNCHANGED <<calls, call, group, recorded, result>>
    BY <1>6 DEF Plan
  <2>2. policy \in Manifest
    BY DEF TypeOK, PoliciesOK
  <2>3. Active \subseteq Roles
    BY <2>2 DEF Active, Manifest
  <2>4. GlobalFilters \cup SelectiveFilters \subseteq Filters
    BY <2>2, <2>3 DEF GlobalFilters, SelectiveFilters, Manifest
  <2> QED BY <2>1, <2>4
<1>7. CASE Prune \/ SkipGroup \/ ReadGroup
  BY <1>7 DEF Prune, SkipGroup, ReadGroup
<1>8. CASE Mask
  BY <1>8 DEF Mask, apply_rls, Bare, Masked, Hidden
<1>9. CASE UNCHANGED vars
  BY <1>9 DEF vars
<1> QED BY <1>1, <1>2, <1>3, <1>4, <1>5, <1>6, <1>7, <1>8, <1>9
        DEF Next, Policies, Write, Read, Done

-----------------------------------------------------------------------------
(* A call, its rows and its result.                                        *)

LEMMA ReadSame ==
  ASSUME UNCHANGED <<file, context, preds>>
  PROVE  /\ FiltersChosen' <=> FiltersChosen
         /\ Final' <=> Final
         /\ Writing' <=> Writing
         /\ Answer' = Answer
<1>1. Active' = Active
  BY DEF Active, context
<1>2. GlobalFilters' = GlobalFilters
  BY <1>1 DEF GlobalFilters, context
<1>3. FiltersChosen' <=> FiltersChosen
  BY <1>2 DEF FiltersChosen, context
<1> QED BY <1>3 DEF Final, Answer, Writing, context

LEMMA CallNext == TypeOK /\ CallInv /\ [Next]_vars => CallInv'
<1> SUFFICES ASSUME TypeOK, CallInv, [Next]_vars PROVE CallInv'
  OBVIOUS
<1> USE DEF CallInv, Reading, context, scan, Return
<1>1. CASE BeginWrite
  BY <1>1 DEF BeginWrite, Begin, Writing
<1>2. CASE BeginRead
  BY <1>2 DEF BeginRead, Begin, Writing
<1>3. CASE Discover \/ MergeLayer
  BY <1>3 DEF Discover, MergeLayer, Writing
<1>4. CASE DiscoverFails \/ KeysFail \/ Store \/ StoreFails \/ KmsRefuses \/ OpenFails
           \/ DenyRead \/ Missing \/ ReadFails \/ ReadEmpty \/ Mask
  BY <1>4 DEF DiscoverFails, KeysFail, Store, StoreFails, KmsRefuses, OpenFails, DenyRead,
     Missing, ReadFails, ReadEmpty, Mask
<1>5. CASE Merged
  BY <1>5 DEF Merged, Final, Writing
<1>6. CASE Open
  BY <1>6 DEF Open, Final
<1>7. CASE Plan
  BY <1>7 DEF Plan, Final, FiltersChosen, GlobalFilters, Active
<1>8. CASE Prune \/ SkipGroup \/ ReadGroup \/ ReadEnds
  <2>1. UNCHANGED <<file, context, preds>> /\ pc \in {"prune", "read"} /\ pc' \in {"read", "mask"}
    BY <1>8 DEF TypeOK, Prune, SkipGroup, ReadGroup, ReadEnds
  <2> QED BY <2>1, ReadSame
<1>9. CASE UNCHANGED vars
  BY <1>9, ReadSame DEF vars
<1> QED BY <1>1, <1>2, <1>3, <1>4, <1>5, <1>6, <1>7, <1>8, <1>9
        DEF Next, Policies, Write, Read, Done

LEMMA OutNext == TypeOK /\ OutInv /\ [Next]_vars => OutInv'
<1> SUFFICES ASSUME TypeOK, OutInv, [Next]_vars PROVE OutInv'
  OBVIOUS
<1> USE DEF OutInv, context, scan, Return
<1>1. CASE BeginWrite \/ BeginRead
  BY <1>1 DEF BeginWrite, BeginRead, Begin
<1>2. CASE Plan \/ Store
  BY <1>2 DEF Plan, Store
<1>3. CASE ReadGroup
  BY <1>3 DEF ReadGroup, Passing
<1>4. CASE UNCHANGED <<file, preds, out>> /\ (out = {} \/ pc' \in {"idle", "read", "mask"})
  BY <1>4
<1>5. CASE DiscoverFails \/ KeysFail \/ StoreFails \/ KmsRefuses \/ OpenFails \/ DenyRead
           \/ Missing \/ ReadFails \/ ReadEmpty \/ Mask \/ Discover \/ MergeLayer \/ Merged
           \/ Open \/ Prune \/ SkipGroup \/ ReadEnds \/ UNCHANGED vars
  BY <1>5 DEF DiscoverFails, KeysFail, StoreFails, KmsRefuses, OpenFails, DenyRead, Missing,
     ReadFails, ReadEmpty, Mask, Discover, MergeLayer, Merged, Open, Prune, SkipGroup, ReadEnds,
     vars
<1> QED BY <1>1, <1>2, <1>3, <1>4, <1>5 DEF Next, Policies, Write, Read, Done

LEMMA ResultNext == TypeOK /\ CallInv /\ ResultInv /\ [Next]_vars => ResultInv'
<1> SUFFICES ASSUME TypeOK, CallInv, ResultInv, [Next]_vars PROVE ResultInv'
  OBVIOUS
<1> USE NoneAssumption DEF ResultInv, context, scan, Return, Values, Errors, PolicyError
<1>1. CASE BeginWrite \/ BeginRead
  BY <1>1 DEF BeginWrite, BeginRead, Begin
<1>2. CASE Discover \/ MergeLayer \/ Merged \/ Open \/ Plan \/ Prune \/ SkipGroup \/ ReadGroup
           \/ ReadEnds
  BY <1>2 DEF Discover, MergeLayer, Merged, Open, Plan, Prune, SkipGroup, ReadGroup, ReadEnds
<1>3. CASE DiscoverFails \/ KeysFail \/ Store \/ StoreFails \/ KmsRefuses \/ OpenFails
           \/ DenyRead \/ Missing \/ ReadFails \/ ReadEmpty
  BY <1>3 DEF DiscoverFails, KeysFail, Store, StoreFails, KmsRefuses, OpenFails, DenyRead,
     Missing, ReadFails, ReadEmpty
<1>4. CASE Mask
  <2>1. UNCHANGED <<file, context, scan>> /\ result' = Answer /\ pc' = "idle" /\ pc = "mask"
    BY <1>4 DEF Mask, Answer
  <2>2. Final' /\ FiltersChosen' /\ Answer' = Answer /\ call' \in Requests /\ file' # None
    BY <2>1, ReadSame DEF CallInv, Reading
  <2> QED BY <2>1, <2>2
<1>5. CASE UNCHANGED vars
  BY <1>5, ReadSame DEF vars
<1> QED BY <1>1, <1>2, <1>3, <1>4, <1>5 DEF Next, Policies, Write, Read, Done

-----------------------------------------------------------------------------
(* The merge.                                                              *)

\* Folding in a layer after all the others leaves the word to it, if it says
\* anything (policy/manifest.rs:68-76).
LEMMA OrRepresents ==
  ASSUME NEW ls, NEW M, NEW v, NEW i, NEW said, Represents(ls, M, v, said), i \notin M,
         \A j \in M : Earlier(ls, j, i)
  PROVE  Represents(ls, M \cup {i}, Or(v, said[i]), said)
  BY DEF Represents, Or

LEMMA MergeEmpty == \A ls : MergeOf(ls, {}, EmptyManifest)
<1> TAKE ls
<1>1. Overrides(ls, {}, EmptyManifest)
  BY DEF Overrides, Represents, EmptyManifest
<1>2. AddsUp(ls, {}, EmptyManifest)
  BY DEF AddsUp, EmptyManifest
<1> QED BY <1>1, <1>2 DEF MergeOf

\* One step of merge_layers (manager/policy_manager.rs): the next layer in the
\* order is folded in.
LEMMA MergeStep ==
  ASSUME NEW ls, NEW M, NEW m, NEW i \in DOMAIN ls \ M, MergeOf(ls, M, m),
         \A j \in DOMAIN ls \ M : j = i \/ Earlier(ls, i, j)
  PROVE  MergeOf(ls, M \cup {i}, Merge(m, ls[i].manifest))
<1> DEFINE other == ls[i].manifest
           n == Merge(m, other)
<1>1. \A j \in M : Earlier(ls, j, i)
  BY DEF MergeOf
<1>2. \A a \in M \cup {i}, b \in DOMAIN ls \ (M \cup {i}) : Earlier(ls, a, b)
  BY DEF MergeOf
<1>3. Overrides(ls, M \cup {i}, n)
  <2>0. Overrides(ls, M, m)
    BY DEF MergeOf
  <2>1. ASSUME NEW r \in Roles, NEW k \in Keys
        PROVE  Represents(ls, M \cup {i}, n.column_masks[r][k], ColumnSaid(ls, r, k))
    <3>1. n.column_masks[r][k] = Or(m.column_masks[r][k], ColumnSaid(ls, r, k)[i])
      BY DEF Merge, ColumnSaid
    <3>2. Represents(ls, M, m.column_masks[r][k], ColumnSaid(ls, r, k))
      BY <2>0 DEF Overrides
    <3>3. Represents(ls, M \cup {i}, Or(m.column_masks[r][k], ColumnSaid(ls, r, k)[i]),
              ColumnSaid(ls, r, k))
      BY <1>1, <3>2, OrRepresents
    <3> QED BY <3>1, <3>3
  <2>2. ASSUME NEW r \in Roles, NEW t \in Tags
        PROVE  Represents(ls, M \cup {i}, n.tag_masks[r][t], TagSaid(ls, r, t))
    <3>1. n.tag_masks[r][t] = Or(m.tag_masks[r][t], TagSaid(ls, r, t)[i])
      BY DEF Merge, TagSaid
    <3>2. Represents(ls, M, m.tag_masks[r][t], TagSaid(ls, r, t))
      BY <2>0 DEF Overrides
    <3>3. Represents(ls, M \cup {i}, Or(m.tag_masks[r][t], TagSaid(ls, r, t)[i]),
              TagSaid(ls, r, t))
      BY <1>1, <3>2, OrRepresents
    <3> QED BY <3>1, <3>3
  <2>3. ASSUME NEW p \in Purposes
        PROVE  Represents(ls, M \cup {i}, n.purpose_bindings[p], BindingSaid(ls, p))
    <3>1. n.purpose_bindings[p] = Or(m.purpose_bindings[p], BindingSaid(ls, p)[i])
      BY DEF Merge, BindingSaid
    <3>2. Represents(ls, M, m.purpose_bindings[p], BindingSaid(ls, p))
      BY <2>0 DEF Overrides
    <3>3. Represents(ls, M \cup {i}, Or(m.purpose_bindings[p], BindingSaid(ls, p)[i]),
              BindingSaid(ls, p))
      BY <1>1, <3>2, OrRepresents
    <3> QED BY <3>1, <3>3
  <2> QED BY <2>1, <2>2, <2>3 DEF Overrides
<1>4. AddsUp(ls, M \cup {i}, n)
  <2>1. /\ n.principals = m.principals \cup other.principals
        /\ n.required_tags = m.required_tags \cup other.required_tags
        /\ n.required_columns = m.required_columns \cup other.required_columns
    BY DEF Merge, Together
  <2>2. \A r \in Roles : n.global_row_filters[r]
            = m.global_row_filters[r] \cup other.global_row_filters[r]
    BY DEF Merge, Together
  <2>3. AddsUp(ls, M, m)
    BY DEF MergeOf
  <2> QED BY <2>1, <2>2, <2>3 DEF AddsUp
<1> QED BY <1>2, <1>3, <1>4 DEF MergeOf

LEMMA MergeNext == CallInv /\ MergeInv /\ [Next]_vars => MergeInv'
<1> SUFFICES ASSUME CallInv, MergeInv, [Next]_vars PROVE MergeInv'
  OBVIOUS
<1> USE DEF MergeInv
<1>1. CASE BeginWrite \/ BeginRead
  <2>1. merged' = {} /\ policy' = EmptyManifest
    BY <1>1 DEF BeginWrite, BeginRead, Begin
  <2> QED BY <2>1, MergeEmpty
<1>2. CASE Discover
  <2>1. merged' = {} /\ policy' = EmptyManifest
    BY <1>2 DEF Discover, CallInv
  <2> QED BY <2>1, MergeEmpty
<1>3. CASE MergeLayer
  <2>1. PICK i \in DOMAIN layers \ merged :
          /\ \A j \in DOMAIN layers \ merged : j = i \/ Before(i, j)
          /\ merged' = merged \cup {i}
          /\ policy' = Merge(policy, layers[i].manifest)
    BY <1>3 DEF MergeLayer
  <2>2. layers' = layers
    BY <1>3 DEF MergeLayer
  <2>3. \A j \in DOMAIN layers \ merged : j = i \/ Earlier(layers, i, j)
    BY <2>1 DEF Before, Earlier
  <2>4. MergeOf(layers, merged \cup {i}, Merge(policy, layers[i].manifest))
    BY <2>3, MergeStep
  <2> QED BY <2>1, <2>2, <2>4
<1>4. CASE UNCHANGED <<layers, merged, policy>>
  BY <1>4
<1>5. BeginWrite \/ BeginRead \/ Discover \/ MergeLayer \/ UNCHANGED <<layers, merged, policy>>
  BY DEF Next, Policies, Write, Read, Done, vars, context, DiscoverFails, Merged, KeysFail,
     Store, StoreFails, Open, KmsRefuses, OpenFails, DenyRead, Plan, Missing, Prune, SkipGroup,
     ReadGroup, ReadFails, ReadEmpty, ReadEnds, Mask
<1> QED BY <1>1, <1>2, <1>3, <1>4, <1>5

\* write() encrypts what any of its layers wants encrypted, or everything.
LEMMA EncryptNext == TypeOK /\ CallInv /\ MergeInv /\ EncryptInv /\ [Next]_vars => EncryptInv'
<1> SUFFICES ASSUME TypeOK, CallInv, MergeInv, EncryptInv, [Next]_vars PROVE EncryptInv'
  OBVIOUS
<1>1. CASE Store
  <2>1. PICK cols \in SUBSET call.cols, groups \in RowGroups :
          /\ ToEncrypt(policy, call.cols, call.tags) \subseteq cols
          /\ file' = [cols |-> cols, tags |-> call.tags, groups |-> groups, under |-> layers,
                      encrypted |-> Sealed(cols, ToEncrypt(policy, call.cols, call.tags))]
    BY <1>1 DEF Store
  <2>2. merged = DOMAIN layers
    BY <1>1 DEF Store, CallInv, Final
  <2>3. ASSUME NEW i \in DOMAIN layers, NEW c \in cols,
               Wanted(layers[i].manifest, c, call.tags[c])
        PROVE  c \in ToEncrypt(policy, call.cols, call.tags)
    BY <2>2, <2>3 DEF Wanted, ToEncrypt, MergeInv, MergeOf, AddsUp
  <2>4. ASSUME NEW i \in DOMAIN layers, NEW c \in cols,
               Wanted(layers[i].manifest, c, call.tags[c])
        PROVE  c \in Sealed(cols, ToEncrypt(policy, call.cols, call.tags))
    BY <2>3, <2>4 DEF Sealed
  <2> QED BY <2>1, <2>4 DEF EncryptInv
<1>2. Store \/ UNCHANGED file
  BY DEF Next, Policies, Write, Read, Done, vars, BeginWrite, BeginRead, Begin, Discover,
     DiscoverFails, MergeLayer, Merged, KeysFail, StoreFails, Open, KmsRefuses, OpenFails,
     DenyRead, Plan, Missing, Prune, SkipGroup, ReadGroup, ReadFails, ReadEmpty, ReadEnds, Mask
<1>3. CASE UNCHANGED file
  BY <1>3 DEF EncryptInv
<1> QED BY <1>1, <1>2, <1>3

LEMMA Inductive == Spec => []IInv
<1>1. Init => IInv
  <2> SUFFICES ASSUME Init PROVE IInv
    OBVIOUS
  <2>1. TypeOK
    BY TypeInit
  <2>2. MergeInv
    BY MergeEmpty DEF Init, MergeInv
  <2>3. CallInv /\ OutInv /\ EncryptInv
    BY DEF Init, CallInv, OutInv, EncryptInv, Reading
  <2>4. ResultInv
    BY NoneAssumption DEF Init, ResultInv, Values, Errors
  <2> QED BY <2>1, <2>2, <2>3, <2>4 DEF IInv
<1>2. IInv /\ [Next]_vars => IInv'
  BY TypeNext, CallNext, OutNext, ResultNext, MergeNext, EncryptNext DEF IInv
<1> QED BY <1>1, <1>2, PTL DEF Spec

\* Whatever policies discovery answers with, in whatever order, every variable
\* keeps its type: a merge of manifests is a manifest, and apply_rls answers for
\* every column (manager/governance_manager.rs).
THEOREM TypeCorrect == Spec => []TypeOK
  BY Inductive, PTL DEF IInv

-----------------------------------------------------------------------------
(* What the merge of all the layers says of a role.                        *)

\* A layer that comes after all the others in S decides.
LEMMA Highest ==
  ASSUME layers \in Seq(Layer), NEW S \in SUBSET DOMAIN layers, NEW i \in S,
         \A j \in S : j = i \/ Before(j, i)
  PROVE  Deciding(S) = i
<1>1. ASSUME NEW a \in S, NEW b \in S, a # b, Before(a, b) PROVE ~Before(b, a)
  <2>1. layers[a].level \in 0 .. 2 /\ layers[b].level \in 0 .. 2 /\ a \in Nat /\ b \in Nat
    BY LayersTyped
  <2> QED BY <1>1, <2>1 DEF Before
<1>2. Deciding(S) \in S /\ \A j \in S : j = Deciding(S) \/ Before(j, Deciding(S))
  <2>1. \E d \in S : \A j \in S : j = d \/ Before(j, d)
    OBVIOUS
  <2> QED BY <2>1 DEF Deciding
<1> QED BY <1>1, <1>2

\* The word of the last layer to speak up is the word of the deciding layer.
LEMMA Decides ==
  ASSUME layers \in Seq(Layer), NEW v, NEW said, NEW S,
         S = {i \in DOMAIN layers : said[i] # None},
         Represents(layers, DOMAIN layers, v, said)
  PROVE  /\ S = {} => v = None
         /\ S # {} => Deciding(S) \in DOMAIN layers /\ said[Deciding(S)] = v
<1>1. CASE v = None
  BY <1>1 DEF Represents
<1>2. CASE v # None
  <2>1. PICK i \in DOMAIN layers :
          /\ said[i] = v
          /\ \A j \in DOMAIN layers : said[j] # None => j = i \/ Earlier(layers, j, i)
    BY <1>2 DEF Represents
  <2>2. i \in S /\ \A j \in S : j = i \/ Before(j, i)
    BY <1>2, <2>1 DEF Before, Earlier
  <2>3. Deciding(S) = i
    BY <2>2, Highest
  <2> QED BY <1>2, <2>1, <2>2, <2>3
<1> QED BY <1>1, <1>2

LEMMA PolicySays ==
  ASSUME TypeOK, MergeInv, Final
  PROVE  /\ \A r \in Roles, k \in Keys : ColumnMask(r, k) = policy.column_masks[r][k]
         /\ \A r \in Roles, t \in Tags : TagMask(r, t) = policy.tag_masks[r][t]
         /\ \A p \in Purposes : Binding(p) = policy.purpose_bindings[p]
         /\ \A r : Known(r) <=> r \in policy.principals
<1>0. layers \in Seq(Layer) /\ MergeOf(layers, DOMAIN layers, policy)
  BY DEF TypeOK, PoliciesOK, MergeInv, Final
<1>1. ASSUME NEW r \in Roles, NEW k \in Keys
      PROVE  ColumnMask(r, k) = policy.column_masks[r][k]
  <2> DEFINE said == ColumnSaid(layers, r, k)
             S == {i \in DOMAIN layers : layers[i].manifest.column_masks[r][k] # None}
  <2>1. \A i \in DOMAIN layers : said[i] = layers[i].manifest.column_masks[r][k]
    BY DEF ColumnSaid
  <2>2. Represents(layers, DOMAIN layers, policy.column_masks[r][k], said)
    BY <1>0 DEF MergeOf, Overrides
  <2>3. S = {i \in DOMAIN layers : said[i] # None}
    BY <2>1
  <2>4. ColumnMask(r, k)
            = IF S = {} THEN None ELSE layers[Deciding(S)].manifest.column_masks[r][k]
    BY DEF ColumnMask
  <2> HIDE DEF said, S
  <2>5. /\ S = {} => policy.column_masks[r][k] = None
        /\ S # {} => /\ Deciding(S) \in DOMAIN layers
                     /\ said[Deciding(S)] = policy.column_masks[r][k]
    BY <1>0, <2>2, <2>3, Decides
  <2> QED BY <2>1, <2>4, <2>5
<1>2. ASSUME NEW r \in Roles, NEW t \in Tags
      PROVE  TagMask(r, t) = policy.tag_masks[r][t]
  <2> DEFINE said == TagSaid(layers, r, t)
             S == {i \in DOMAIN layers : layers[i].manifest.tag_masks[r][t] # None}
  <2>1. \A i \in DOMAIN layers : said[i] = layers[i].manifest.tag_masks[r][t]
    BY DEF TagSaid
  <2>2. Represents(layers, DOMAIN layers, policy.tag_masks[r][t], said)
    BY <1>0 DEF MergeOf, Overrides
  <2>3. S = {i \in DOMAIN layers : said[i] # None}
    BY <2>1
  <2>4. TagMask(r, t) = IF S = {} THEN None ELSE layers[Deciding(S)].manifest.tag_masks[r][t]
    BY DEF TagMask
  <2> HIDE DEF said, S
  <2>5. /\ S = {} => policy.tag_masks[r][t] = None
        /\ S # {} => /\ Deciding(S) \in DOMAIN layers
                     /\ said[Deciding(S)] = policy.tag_masks[r][t]
    BY <1>0, <2>2, <2>3, Decides
  <2> QED BY <2>1, <2>4, <2>5
<1>3. ASSUME NEW p \in Purposes
      PROVE  Binding(p) = policy.purpose_bindings[p]
  <2> DEFINE said == BindingSaid(layers, p)
             S == {i \in DOMAIN layers : layers[i].manifest.purpose_bindings[p] # None}
  <2>1. \A i \in DOMAIN layers : said[i] = layers[i].manifest.purpose_bindings[p]
    BY DEF BindingSaid
  <2>2. Represents(layers, DOMAIN layers, policy.purpose_bindings[p], said)
    BY <1>0 DEF MergeOf, Overrides
  <2>3. S = {i \in DOMAIN layers : said[i] # None}
    BY <2>1
  <2>4. Binding(p) = IF S = {} THEN None ELSE layers[Deciding(S)].manifest.purpose_bindings[p]
    BY DEF Binding
  <2> HIDE DEF said, S
  <2>5. /\ S = {} => policy.purpose_bindings[p] = None
        /\ S # {} => /\ Deciding(S) \in DOMAIN layers
                     /\ said[Deciding(S)] = policy.purpose_bindings[p]
    BY <1>0, <2>2, <2>3, Decides
  <2> QED BY <2>1, <2>4, <2>5
<1>4. \A r : Known(r) <=> r \in policy.principals
  BY <1>0 DEF MergeOf, AddsUp, Known
<1> QED BY <1>1, <1>2, <1>3, <1>4

\* The role apply_rls masks for is the one the call is made under
\* (manager/governance_manager.rs, resolve_active_role).
LEMMA ActiveIsActing ==
  ASSUME TypeOK, MergeInv, Final, call \in Requests, NEW r
  PROVE  r \in Active <=> ActsAs(r)
<1>1. /\ call.caller \subseteq Roles /\ call.purpose \in Purposes
      /\ call.assumed \in Roles \cup {None}
  BY RequestsAssumption DEF Request
<1>2. Binding(call.purpose) = policy.purpose_bindings[call.purpose]
  BY <1>1, PolicySays
<1>3. \A s : Known(s) <=> s \in policy.principals
  BY PolicySays
<1> DEFINE bound == policy.purpose_bindings[call.purpose]
<1>4. bound \in Roles \cup {None}
  BY <1>1 DEF TypeOK, PoliciesOK, Manifest
<1> HIDE DEF bound
<1>5. ActsAs(r) <=>
        /\ r \in call.caller /\ r \in policy.principals
        /\ bound \in {None, r}
        /\ call.assumed \in {None, r}
        /\ bound = None /\ call.assumed = None =>
                \A s \in call.caller : s \in policy.principals => s = r
  BY <1>2, <1>3 DEF ActsAs, bound
<1>6. r \in Active <=>
        /\ r \in policy.principals
        /\ r \in (IF bound # None /\ call.assumed # None /\ bound # call.assumed THEN {}
                  ELSE IF Or(call.assumed, bound) # None
                       THEN {Or(call.assumed, bound)} \cap call.caller
                  ELSE IF \E q \in call.caller \cap policy.principals :
                            call.caller \cap policy.principals = {q}
                       THEN call.caller \cap policy.principals
                  ELSE {})
  BY DEF Active, ActiveRole, bound
<1>7. CASE bound = None /\ call.assumed = None
  BY <1>1, <1>5, <1>6, <1>7, RolesAssumption DEF Or
<1>8. CASE ~(bound = None /\ call.assumed = None)
  BY <1>1, <1>4, <1>5, <1>6, <1>8, RolesAssumption DEF Or
<1> QED BY <1>7, <1>8

-----------------------------------------------------------------------------
(* What a read hands out.                                                  *)

LEMMA Answered ==
  ASSUME IInv, result \in Values \cup {"DataLeakPrevented"}
  PROVE  /\ call \in Requests /\ file # None
         /\ Final /\ FiltersChosen
         /\ result = Answer
         /\ call.column \in Columns /\ file.tags[call.column] \subseteq Tags
<1>1. call \in Requests /\ file # None /\ Final /\ FiltersChosen /\ result = Answer
  BY DEF IInv, ResultInv
<1>2. call.column \in Columns
  BY <1>1, RequestsAssumption DEF Request
<1>3. file.tags[call.column] \subseteq Tags
  BY <1>1, <1>2 DEF IInv, TypeOK, FileOK
<1> QED BY <1>1, <1>2, <1>3

\* Only masks that leave values alone do so (governance_manager.rs:183-197).
LEMMA MaskedValues ==
  ASSUME NEW masks \in SUBSET (Masks \cup {None}), NEW c, NEW mode,
         Masked(masks, c, mode) = "values"
  PROVE  "PLAINTEXT" \in masks \ {None} \/ masks \ {None} = {"NULL"}
<1>1. masks \ {None} \subseteq {"PLAINTEXT", "HASH", "REDACT", "NULL"}
  BY DEF Masks
<1> QED BY <1>1 DEF Masked, Hidden

\* The masks apply_rls collects are the words left standing, name by name.
LEMMA WordsAreMasks ==
  ASSUME TypeOK, MergeInv, Final, NEW r \in Roles, file.tags[call.column] \subseteq Tags
  PROVE  Words(r) = MasksFor(policy, r, call.column, file.tags[call.column]) \ {None}
<1>1. /\ \A k \in Keys : ColumnMask(r, k) = policy.column_masks[r][k]
      /\ \A t \in Tags : TagMask(r, t) = policy.tag_masks[r][t]
  BY PolicySays
<1> QED BY <1>1 DEF Words, MasksFor

\* A layer that overrules the others has the only say: the merge masks the column as
\* that layer does.
LEMMA OnlySay ==
  ASSUME TypeOK, MergeInv, Final, NEW r \in Roles, file.tags[call.column] \subseteq Tags,
         NEW i \in DOMAIN layers, Overrules(i, r)
  PROVE  MasksFor(policy, r, call.column, file.tags[call.column])
            = MasksFor(layers[i].manifest, r, call.column, file.tags[call.column])
<1>0. layers \in Seq(Layer)
  BY DEF TypeOK, PoliciesOK
<1>1. ASSUME NEW k \in Keys, <<k, call.column>> \in ContainsWord
      PROVE  policy.column_masks[r][k] = layers[i].manifest.column_masks[r][k]
  <2> DEFINE S == {j \in DOMAIN layers : layers[j].manifest.column_masks[r][k] # None}
  <2>1. policy.column_masks[r][k]
            = IF S = {} THEN None ELSE layers[Deciding(S)].manifest.column_masks[r][k]
    BY PolicySays DEF ColumnMask
  <2>2. \A j \in S : k \in KeysOf(j, r)
    BY <1>1 DEF KeysOf
  <2>3. \A j \in S : k \in KeysOf(i, r) /\ (j = i \/ Before(j, i))
    BY <2>2 DEF Overrules
  <2>4. CASE i \in S
    <3>1. Deciding(S) = i
      BY <1>0, <2>3, <2>4, Highest
    <3> QED BY <2>1, <2>4, <3>1
  <2>5. CASE i \notin S
    <3>1. S = {}
      BY <2>3, <2>5 DEF KeysOf
    <3> QED BY <2>1, <2>5, <3>1
  <2> QED BY <2>4, <2>5
<1>2. ASSUME NEW t \in file.tags[call.column]
      PROVE  policy.tag_masks[r][t] = layers[i].manifest.tag_masks[r][t]
  <2> DEFINE S == {j \in DOMAIN layers : layers[j].manifest.tag_masks[r][t] # None}
  <2>0. t \in Tags
    OBVIOUS
  <2>1. policy.tag_masks[r][t]
            = IF S = {} THEN None ELSE layers[Deciding(S)].manifest.tag_masks[r][t]
    BY <2>0, PolicySays DEF TagMask
  <2>2. \A j \in S : t \in TagsOf(j, r)
    BY DEF TagsOf
  <2>3. \A j \in S : t \in TagsOf(i, r) /\ (j = i \/ Before(j, i))
    BY <2>2 DEF Overrules
  <2>4. CASE i \in S
    <3>1. Deciding(S) = i
      BY <1>0, <2>3, <2>4, Highest
    <3> QED BY <2>1, <2>4, <3>1
  <2>5. CASE i \notin S
    <3>1. S = {}
      BY <2>3, <2>5 DEF TagsOf
    <3> QED BY <2>1, <2>5, <3>1
  <2> QED BY <2>4, <2>5
<1> QED BY <1>1, <1>2 DEF MasksFor

\* What apply_rls answers for an encrypted column is what the masks of the merged
\* policy, for a role the call is made under, make of it; without one, nothing is.
LEMMA MaskedFor ==
  ASSUME IInv, Delivered, call.column \in file.encrypted
  PROVE  \E r \in call.caller :
            /\ r \in Roles /\ ActsAs(r)
            /\ \A s : ActsAs(s) => s = r
            /\ result = Masked(MasksFor(policy, r, call.column, file.tags[call.column]),
                            call.column, call.mode)
<1> DEFINE r == CHOOSE r \in Active : TRUE
<1>1. call \in Requests /\ Final /\ result = Answer
  BY Answered DEF Delivered
<1>2. Active # {}
  BY <1>1 DEF Delivered, Values, Answer, apply_rls, Active
<1>3. result = Masked(MasksFor(policy, r, call.column, file.tags[call.column]),
                    call.column, call.mode)
  BY <1>1, <1>2 DEF Answer, apply_rls, Active
<1>4. r \in Active
  BY <1>2
<1>5. \A s : s \in Active <=> ActsAs(s)
  BY <1>1, ActiveIsActing DEF IInv
<1>6. r \in Roles
  BY <1>4 DEF IInv, TypeOK, PoliciesOK, Active, Manifest
<1> HIDE DEF r
<1>7. \A s \in Active : s = r
  <2> SUFFICES ASSUME NEW s \in Active PROVE s = r
    OBVIOUS
  <2>1. ActsAs(s) /\ ActsAs(r)
    BY <1>4, <1>5
  <2>2. /\ Binding(call.purpose) \in {None, s} /\ Binding(call.purpose) \in {None, r}
        /\ call.assumed \in {None, s} /\ call.assumed \in {None, r}
        /\ Binding(call.purpose) = None /\ call.assumed = None =>
                r \in call.caller /\ Known(r) /\ \A q \in call.caller : Known(q) => q = s
    BY <2>1 DEF ActsAs
  <2> QED BY <2>2
<1> QED BY <1>3, <1>4, <1>5, <1>6, <1>7 DEF ActsAs

\* Whatever the layers and their order, name by name the highest layer's mask
\* stands, and values leave unmasked only by a word left standing for the role the
\* call is made under.
THEOREM Granted == Spec => []UnmaskedIsGranted
<1>1. IInv => GrantedByAName
  <2> SUFFICES ASSUME IInv, result = "values", call.column \in file.encrypted
               PROVE  \E r \in call.caller :
                        ActsAs(r) /\ ("PLAINTEXT" \in Words(r) \/ Words(r) = {"NULL"})
    BY DEF GrantedByAName
  <2> DEFINE c == call.column
             tags == file.tags[c]
  <2>1. Delivered /\ TypeOK /\ MergeInv /\ Final /\ tags \subseteq Tags
    BY Answered DEF Delivered, Values, IInv
  <2>2. PICK r \in call.caller :
          r \in Roles /\ ActsAs(r) /\ result = Masked(MasksFor(policy, r, c, tags), c, call.mode)
    BY <2>1, MaskedFor
  <2> DEFINE masks == MasksFor(policy, r, c, tags)
  <2>3. masks \in SUBSET (Masks \cup {None})
    <3>1. /\ \A k \in Keys : policy.column_masks[r][k] \in Masks \cup {None}
          /\ \A t \in Tags : policy.tag_masks[r][t] \in Masks \cup {None}
      BY <2>1, <2>2 DEF TypeOK, PoliciesOK, Manifest
    <3>2. tags \subseteq Tags
      BY <2>1
    <3> HIDE DEF tags
    <3> QED BY <3>1, <3>2 DEF MasksFor
  <2>4. Words(r) = masks \ {None}
    BY <2>1, <2>2, WordsAreMasks
  <2> HIDE DEF masks
  <2>5. "PLAINTEXT" \in masks \ {None} \/ masks \ {None} = {"NULL"}
    BY <2>2, <2>3, MaskedValues DEF masks
  <2> QED BY <2>2, <2>4, <2>5
<1>2. IInv => HighestStands
  <2> SUFFICES ASSUME IInv, Delivered, call.column \in file.encrypted,
                      NEW r \in call.caller, ActsAs(r),
                      NEW i \in DOMAIN layers, Overrules(i, r)
               PROVE  result = Masked(MasksFor(layers[i].manifest, r, call.column,
                                            file.tags[call.column]), call.column, call.mode)
    BY DEF HighestStands
  <2>1. TypeOK /\ MergeInv /\ Final /\ file.tags[call.column] \subseteq Tags
    BY Answered DEF Delivered, IInv
  <2>2. /\ r \in Roles
        /\ result = Masked(MasksFor(policy, r, call.column, file.tags[call.column]),
                        call.column, call.mode)
    BY MaskedFor
  <2>3. MasksFor(policy, r, call.column, file.tags[call.column])
            = MasksFor(layers[i].manifest, r, call.column, file.tags[call.column])
    BY <2>1, <2>2, OnlySay
  <2> QED BY <2>2, <2>3
<1> QED BY <1>1, <1>2, Inductive, PTL DEF UnmaskedIsGranted

\* The global filters of every layer hold of every delivered row, and an encrypted
\* column is delivered only under a role.
THEOREM Filtered == Spec => []FiltersAccumulate
<1>1. ASSUME IInv, Delivered, NEW r \in call.caller, ActsAs(r),
             NEW i \in DOMAIN layers, NEW f \in layers[i].manifest.global_row_filters[r],
             FilterColumn[f] # None, NEW x \in out
      PROVE  f \in file.groups[x[1]][x[2]]
  <2>1. call \in Requests /\ Final /\ FiltersChosen
    BY <1>1, Answered DEF Delivered
  <2>2. r \in Active
    BY <1>1, <2>1, ActiveIsActing DEF IInv
  <2>3. r \in Roles
    BY <1>1, <2>2 DEF IInv, TypeOK, PoliciesOK, Active, Manifest
  <2>4. f \in policy.global_row_filters[r]
    BY <1>1, <2>1, <2>3 DEF IInv, MergeInv, MergeOf, AddsUp, Final
  <2>5. f \in GlobalFilters
    BY <1>1, <2>2, <2>4 DEF GlobalFilters
  <2> QED BY <1>1, <2>1, <2>5 DEF FiltersChosen, IInv, OutInv
<1>2. IInv /\ Delivered /\ call.column \in file.encrypted => \E r \in call.caller : ActsAs(r)
  BY MaskedFor
<1>3. IInv => FiltersAccumulate
  BY <1>1, <1>2 DEF FiltersAccumulate
<1> QED BY <1>3, Inductive, PTL

\* A column in the clear is delivered only if none of the policies its file was
\* written under asked to encrypt it, in write()'s sense.
THEOREM SealedAsWritten == Spec => []WrittenSealed
<1>1. IInv => WrittenSealed
  <2> SUFFICES ASSUME IInv, Bared PROVE WrittenSealed
    BY DEF WrittenSealed
  <2>1. file # None /\ call.column \in file.cols /\ call.column \notin file.encrypted
    BY Answered DEF Bared, Delivered, FiltersChosen
  <2> QED BY <2>1 DEF WrittenSealed, IInv, EncryptInv
<1> QED BY <1>1, Inductive, PTL

\* A column in the clear is delivered only if no policy the read discovered requires
\* it encrypted, in read()'s sense.
THEOREM NeverBare == Spec => []RequiredNeverBare
<1>1. IInv => RequiredNeverBare
  <2> SUFFICES ASSUME IInv, Bared, NEW i \in DOMAIN layers,
                      Required(layers[i].manifest, call.column, file.tags[call.column])
               PROVE  FALSE
    BY DEF RequiredNeverBare
  <2>1. Final /\ result = Answer /\ Delivered /\ call.column \notin file.encrypted
    BY Answered DEF Bared, Delivered
  <2>2. Required(policy, call.column, file.tags[call.column])
    BY <2>1 DEF Required, IInv, MergeInv, MergeOf, AddsUp, Final
  <2>3. Answer = "DataLeakPrevented"
    BY <2>1, <2>2 DEF Answer, apply_rls, Bare
  <2> QED BY <2>1, <2>3 DEF Delivered, Values
<1> QED BY <1>1, Inductive, PTL

\* A file is readable under the policies it was written under: what
\* resolve_columns_to_encrypt matches covers what apply_rls asks for.
THEOREM Readable == Spec => []OwnPoliciesReadable
<1>1. IInv => OwnPoliciesReadable
  <2> SUFFICES ASSUME IInv, file # None, file.under = layers,
                      \A i \in DOMAIN layers : LowerCase(layers[i].manifest),
                      result = "DataLeakPrevented"
               PROVE  FALSE
    BY DEF OwnPoliciesReadable
  <2> DEFINE c == call.column
             tags == file.tags[c]
  <2>1. /\ Final /\ FiltersChosen /\ Answer = "DataLeakPrevented"
        /\ c \in Columns /\ tags \subseteq Tags
    BY Answered
  <2>2. c \notin file.encrypted /\ Required(policy, c, tags)
    <3>1. \A masks, mode : Masked(masks, c, mode) # "DataLeakPrevented"
      BY DEF Masked, Hidden
    <3> QED BY <2>1, <3>1 DEF Answer, apply_rls, Bare
  <2>3. AddsUp(layers, DOMAIN layers, policy)
    BY <2>1 DEF IInv, MergeInv, MergeOf, Final
  <2>4. PICK i \in DOMAIN layers : Required(layers[i].manifest, c, tags)
    BY <2>2, <2>3 DEF Required, AddsUp
  <2>5. Wanted(layers[i].manifest, c, tags)
    BY <2>4, KeysAssumption DEF Required, Wanted, LowerCase
  <2>6. c \in file.cols
    BY <2>1 DEF FiltersChosen
  <2> QED BY <2>2, <2>5, <2>6 DEF IInv, EncryptInv
<1> QED BY <1>1, Inductive, PTL

\* What the two sides agree on, for all the ways their matching differs.
THEOREM Agreed == Spec => []EncryptionAgrees
<1>1. WrittenSealed /\ RequiredNeverBare /\ OwnPoliciesReadable => EncryptionAgrees
  BY DEF EncryptionAgrees
<1> QED BY <1>1, SealedAsWritten, NeverBare, Readable, PTL

-----------------------------------------------------------------------------
(* The audit trail.                                                        *)

Eventful(r) == r \in Values \cup {"CryptoFailed", "Ok", "UploadFailed"}
TrailInv ==
    /\ pc # "idle" => ~recorded
    /\ pc = "idle" => (recorded <=> Eventful(result))

LEMMA TrailNext == TypeOK /\ TrailInv /\ [Next]_vars => TrailInv'
<1> SUFFICES ASSUME TypeOK, TrailInv, [Next]_vars PROVE TrailInv'
  OBVIOUS
<1> USE DEF TrailInv, Return, PolicyError, context, scan
<1>0. /\ ~Eventful("PolicyFailed") /\ ~Eventful("EncryptionFailed") /\ ~Eventful("IngestionFailed")
      /\ ~Eventful("AccessDenied") /\ ~Eventful("DataLeakPrevented") /\ ~Eventful("missing")
      /\ Eventful("CryptoFailed") /\ Eventful("Ok") /\ Eventful("UploadFailed")
  BY DEF Eventful, Values
<1>1. CASE BeginWrite \/ BeginRead
  BY <1>1 DEF BeginWrite, BeginRead, Begin
<1>2. CASE MergeLayer \/ Merged \/ Open \/ Plan \/ Prune \/ SkipGroup \/ ReadGroup \/ ReadEnds
  BY <1>2 DEF MergeLayer, Merged, Open, Plan, Prune, SkipGroup, ReadGroup, ReadEnds, TypeOK
<1>3. CASE Discover
  BY <1>0, <1>3 DEF Discover
<1>4. CASE DiscoverFails \/ KeysFail \/ OpenFails \/ DenyRead \/ Missing \/ ReadFails \/ ReadEmpty
  BY <1>0, <1>4 DEF DiscoverFails, KeysFail, OpenFails, DenyRead, Missing, ReadFails, ReadEmpty
<1>5. CASE Store \/ StoreFails \/ KmsRefuses
  BY <1>0, <1>5 DEF Store, StoreFails, KmsRefuses
<1>6. CASE Mask
  <2>1. pc = "mask" /\ pc' = "idle" /\ result' = Answer /\ recorded' = (recorded \/ Answer \in Values)
    BY <1>6 DEF Mask, Answer
  <2>2. Answer \in Values \cup {"AccessDenied", "DataLeakPrevented"}
    BY DEF Answer, apply_rls, Bare, Masked, Hidden, Values
  <2> QED BY <2>1, <2>2 DEF Eventful, Values
<1>7. CASE UNCHANGED vars
  BY <1>7 DEF vars
<1> QED BY <1>1, <1>2, <1>3, <1>4, <1>5, <1>6, <1>7 DEF Next, Policies, Write, Read, Done

\* A finished call left an event if and only if it handed out values, had its keys
\* refused, or tried to store.
THEOREM Truthful == Spec => []TrailIsTruthful
<1>1. Init => TrailInv
  BY NoneAssumption DEF Init, TrailInv, Eventful, Values, Errors
<1>2. TypeOK /\ TrailInv /\ [Next]_vars => TrailInv'
  BY TrailNext
<1>3. TrailInv => TrailIsTruthful
  BY DEF TrailInv, TrailIsTruthful, Eventful, Delivered
<1> QED BY <1>1, <1>2, <1>3, TypeCorrect, PTL DEF Spec
=============================================================================
