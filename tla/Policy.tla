-------------------------------- MODULE Policy --------------------------------
(***************************************************************************)
(* Policy manifests (policy/manifest.rs), how layers of them combine and   *)
(* decide (manager/policy_manager.rs, manager/governance_manager.rs).      *)
(*                                                                         *)
(* A manifest's maps are total functions with None where the code's map    *)
(* has no entry; a role outside `principals` has none.  Vectors are sets:  *)
(* they are only searched, or applied in full.  An absent encryption block *)
(* or binding table is an empty one, as in the code.                       *)
(***************************************************************************)
EXTENDS Integers

CONSTANTS
    None,
    Columns, Text,          \* column names; those of a string type
    Tags, Lower,            \* semantic tags; to_lowercase on them
    Keys,                   \* names in column_masks and required_columns
    Contains,               \* <<key, column>>: the lowercased column contains the key
    ContainsWord,           \* the same, between underscores: "_col_" contains "_key_"
    Roles, Purposes,
    Filters, FilterColumn   \* row filters, by the column parse_filter reads

ASSUME ColumnsAssumption == Text \subseteq Columns /\ None \notin Columns
ASSUME TagsAssumption == Lower \in [Tags -> Tags]
\* what stands between underscores in "_col_" stands in "col"
ASSUME KeysAssumption == ContainsWord \subseteq Contains
ASSUME RolesAssumption == None \notin Roles
\* None: parse_filter finds no operator in it
ASSUME FiltersAssumption == FilterColumn \in [Filters -> Columns \cup {None}]

Masks == {"PLAINTEXT", "HASH", "REDACT", "NULL"}   \* "NULL": any other string
ASSUME MasksAssumption == None \notin Masks \cup Nat

Manifest ==
    [principals : SUBSET Roles,
     column_masks : [Roles -> [Keys -> Masks \cup {None}]],
     tag_masks : [Roles -> [Tags -> Masks \cup {None}]],
     global_row_filters : [Roles -> SUBSET Filters],
     selective_row_filters : [Roles -> SUBSET Filters],
     sampling_cap : [Roles -> Nat \cup {None}],
     required_tags : SUBSET Tags,
     required_columns : SUBSET Keys,
     purpose_bindings : [Purposes -> Roles \cup {None}]]

EmptyManifest ==
    [principals |-> {},
     column_masks |-> [r \in Roles |-> [k \in Keys |-> None]],
     tag_masks |-> [r \in Roles |-> [t \in Tags |-> None]],
     global_row_filters |-> [r \in Roles |-> {}],
     selective_row_filters |-> [r \in Roles |-> {}],
     sampling_cap |-> [r \in Roles |-> None],
     required_tags |-> {},
     required_columns |-> {},
     purpose_bindings |-> [p \in Purposes |-> None]]

\* the later value, where there is one
Or_first(old, new) == IF old # None THEN old ELSE new
Or(old, new) == IF new # None THEN new ELSE old
\* everything either of them asks for
Together_overrides(old, new) == IF new # {} THEN new ELSE old
Together(old, new) == old \cup new
Least(a, b) ==
    IF a = None THEN b ELSE IF b = None THEN a ELSE IF a <= b THEN a ELSE b

\* PolicyManifest::merge
Merge(m, other) ==
    [principals |-> m.principals \cup other.principals,
     column_masks |-> [r \in Roles |-> [k \in Keys |->
            Or(m.column_masks[r][k], other.column_masks[r][k])]],
     tag_masks |-> [r \in Roles |-> [t \in Tags |->
            Or(m.tag_masks[r][t], other.tag_masks[r][t])]],
     global_row_filters |-> [r \in Roles |->
            Together(m.global_row_filters[r], other.global_row_filters[r])],
     selective_row_filters |-> [r \in Roles |->
            Together(m.selective_row_filters[r], other.selective_row_filters[r])],
     sampling_cap |-> [r \in Roles |-> Least(m.sampling_cap[r], other.sampling_cap[r])],
     required_tags |-> Together(m.required_tags, other.required_tags),
     required_columns |-> Together(m.required_columns, other.required_columns),
     purpose_bindings |-> [p \in Purposes |->
            Or(m.purpose_bindings[p], other.purpose_bindings[p])]]

-----------------------------------------------------------------------------
(* Writing: resolve_columns_to_encrypt.                                    *)

ToEncrypt_exact(m, cols, tags) ==
    {c \in cols :
        \/ \E t \in tags[c] : Lower[t] \in m.required_tags
        \/ c \in m.required_columns}
ToEncrypt(m, cols, tags) ==
    {c \in cols :
        \/ \E t \in tags[c] : Lower[t] \in m.required_tags
        \/ \E k \in m.required_columns : <<k, c>> \in Contains}

\* FileEncryptionProperties: the columns that have keys are encrypted; without
\* any, every column is, with the key of the footer
Sealed(cols, keyed) == IF keyed = {} THEN cols ELSE keyed

-----------------------------------------------------------------------------
(* Reading: resolve_active_role and apply_rls.                             *)

\* the roles a call may act under: at most one
ActiveRole(m, caller, assumed, purpose) ==
    LET bound == m.purpose_bindings[purpose]
        target == Or(assumed, bound)
        matching == caller \cap m.principals
    IN  IF bound # None /\ assumed # None /\ bound # assumed THEN {}
        ELSE IF target # None THEN {target} \cap caller
        ELSE IF \E r \in matching : matching = {r} THEN matching
        ELSE {}

\* the policy asks for encryption of column c carrying these tags
Required(m, c, tags) ==
    \/ \E k \in m.required_columns : <<k, c>> \in ContainsWord
    \/ tags \cap m.required_tags # {}

MasksFor(m, r, c, tags) ==
    {m.column_masks[r][k] : k \in {k \in Keys : <<k, c>> \in ContainsWord}}
        \cup {m.tag_masks[r][t] : t \in tags}

\* what the strongest mask makes of the values; a mask of an unknown name,
\* where it stands alone, leaves them alone
Hidden(c) == IF c \in Text THEN "redacted" ELSE "nulls"
Masked(masks, c, mode) ==
    LET found == masks \ {None}
    IN  IF "PLAINTEXT" \in found THEN "values"
        ELSE IF "HASH" \in found THEN IF c \in Text THEN "hashed" ELSE "nulls"
        ELSE IF "REDACT" \in found THEN Hidden(c)
        ELSE IF found # {} THEN "values"
        ELSE IF mode = "StrictError" THEN "AccessDenied"
        ELSE Hidden(c)

Bare(m, c, tags) == IF Required(m, c, tags) THEN "DataLeakPrevented" ELSE "values"

\* the outcome for a column of the file, encrypted or not
apply_rls(m, caller, assumed, purpose, mode, c, encrypted, tags) ==
    IF ~encrypted THEN Bare(m, c, tags)
    ELSE LET active == ActiveRole(m, caller, assumed, purpose) \cap m.principals
         IN  IF active = {} THEN "AccessDenied"
             ELSE Masked(MasksFor(m, CHOOSE r \in active : TRUE, c, tags), c, mode)
=============================================================================
