------------------------------- MODULE ScanRows -------------------------------
(***************************************************************************)
(* Which rows a scan delivers (manager/scan_orchestrator.rs): the filters  *)
(* of the caller's role are chosen once, against the columns of the first  *)
(* file; then, file by file, row groups are pruned with the user's and the *)
(* role's predicates, and the rows of the others are filtered with the     *)
(* role's alone.  Order, tasks and channels are ScanPipeline's; masking    *)
(* changes values and not rows.                                            *)
(*                                                                         *)
(* Bound: the files and the queries, Files and Queries.                    *)
(***************************************************************************)
EXTENDS Predicates

CONSTANTS
    Files,      \* sequences of [cols, groups]; a group is [rows, stats]
    Queries     \* [user, global, selective, requested]

Cell == {Null} \cup Int
Group == [rows : Seq([Columns -> Cell]), stats : [Columns -> {Null} \cup [lo : Int, hi : Int]]]
File == [cols : SUBSET Columns, groups : Seq(Group)]

\* a writer's statistics, where it wrote any, bound the values
Bounded(grp, c) ==
    /\ \A r \in DOMAIN grp.rows : grp.rows[r][c] \in {Null} \cup Values(c)
    /\ grp.stats[c] # Null =>
            /\ grp.stats[c].lo \in Values(c) /\ grp.stats[c].hi \in Values(c)
            /\ \A r \in DOMAIN grp.rows : grp.rows[r][c] # Null =>
                    grp.stats[c].lo <= grp.rows[r][c] /\ grp.rows[r][c] <= grp.stats[c].hi

ASSUME FilesAssumption ==
    \A fs \in Files :
        /\ fs \in Seq(File) /\ fs # <<>>
        /\ \A f \in DOMAIN fs : \A g \in DOMAIN fs[f].groups : \A c \in Columns :
                Bounded(fs[f].groups[g], c)
ASSUME QueriesAssumption ==
    \A q \in Queries :
        /\ q.user \cup q.global \cup q.selective \subseteq Predicate
        /\ q.requested \subseteq Columns

VARIABLES
    files, query,
    phase,      \* "plan", "prune", "read", "done", "denied"
    policy,     \* policy_predicates
    file,       \* the file the scan is in
    group,      \* the row group the loop over it is at
    kept,       \* the row groups get_pruned_row_groups has returned so far
    out,        \* delivered rows, as <<file, group, row>>
    failed      \* files that ended with an error

vars == <<files, query, phase, policy, file, group, kept, out, failed>>

Groups(f) == DOMAIN files[f].groups
Rows(f, g) == DOMAIN files[f].groups[g].rows
At(f, g, r, c) == files[f].groups[g].rows[r][c]
Stats(f, g, c) == files[f].groups[g].stats[c]
Has(f, p) == p.col \in files[f].cols

Init ==
    /\ files \in Files
    /\ query \in Queries
    /\ phase = "plan"
    /\ policy = {}
    /\ file = 1
    /\ group = 1
    /\ kept = {}
    /\ out = {}
    /\ failed = {}

-----------------------------------------------------------------------------
(* scan(): the filters of the active role, against the first file.         *)

Deny ==
    /\ phase = "plan"
    /\ \E p \in query.global : ~Has(1, p)
    /\ phase' = "denied"
    /\ UNCHANGED <<files, query, policy, file, group, kept, out, failed>>

Plan ==
    /\ phase = "plan"
    /\ \A p \in query.global : Has(1, p)
    /\ policy' = query.global \cup {p \in query.selective : Has(1, p)}
    /\ phase' = "prune"
    /\ UNCHANGED <<files, query, file, group, kept, out, failed>>

combined_predicates == query.user \cup policy
projected_cols == query.requested \cup {p.col : p \in policy}

-----------------------------------------------------------------------------
(* get_pruned_row_groups, for one file.                                    *)

\* a file with none of the projected columns has no row groups to offer
Keep(f, g) ==
    /\ projected_cols \cap files[f].cols # {}
    /\ \A p \in combined_predicates :
            Has(f, p) => evaluate_statistics(p, Stats(f, g, p.col))

PruneGroup ==
    /\ phase = "prune"
    /\ group \in Groups(file)
    /\ kept' = IF Keep(file, group) THEN kept \cup {group} ELSE kept
    /\ group' = group + 1
    /\ UNCHANGED <<files, query, phase, policy, file, out, failed>>

PruneEnds ==
    /\ phase = "prune"
    /\ group \notin Groups(file)
    /\ phase' = "read"
    /\ group' = 1
    /\ UNCHANGED <<files, query, policy, file, kept, out, failed>>

-----------------------------------------------------------------------------
(* The batches of one file.                                                *)

NextFile_keepsGroups ==
    /\ phase' = IF file + 1 \in DOMAIN files THEN "prune" ELSE "done"
    /\ file' = IF file + 1 \in DOMAIN files THEN file + 1 ELSE file
    /\ group' = 1
    /\ kept' = kept
NextFile ==
    /\ phase' = IF file + 1 \in DOMAIN files THEN "prune" ELSE "done"
    /\ file' = IF file + 1 \in DOMAIN files THEN file + 1 ELSE file
    /\ group' = 1
    /\ kept' = {}

Evaluable(f) == \A p \in policy : Has(f, p) /\ TypeFits(p)

Passes(f, g, r) == \A p \in policy : evaluate_filter(p, At(f, g, r, p.col))
Delivered(f, g) == {<<f, g, r>> : r \in {r \in Rows(f, g) : Passes(f, g, r)}}

SkipGroup ==
    /\ phase = "read"
    /\ group \in Groups(file) \ kept
    /\ group' = group + 1
    /\ UNCHANGED <<files, query, phase, policy, file, kept, out, failed>>

ReadGroup ==
    /\ phase = "read"
    /\ group \in kept
    /\ Evaluable(file)
    /\ out' = out \cup Delivered(file, group)
    /\ group' = group + 1
    /\ UNCHANGED <<files, query, phase, policy, file, kept, failed>>

\* a filter on a column this file lacks, or of another type: an error, and the
\* next file
FilterFails_skipped ==
    /\ phase = "read"
    /\ group \in kept
    /\ ~Evaluable(file)
    /\ out' = out \cup {<<file, group, r>> : r \in Rows(file, group)}
    /\ group' = group + 1
    /\ UNCHANGED <<files, query, phase, policy, file, kept, failed>>
FilterFails ==
    /\ phase = "read"
    /\ group \in kept
    /\ ~Evaluable(file)
    /\ failed' = failed \cup {file}
    /\ NextFile
    /\ UNCHANGED <<files, query, policy, out>>

FileEnds ==
    /\ phase = "read"
    /\ group \notin Groups(file)
    /\ NextFile
    /\ UNCHANGED <<files, query, policy, out, failed>>

Done == phase \in {"done", "denied"} /\ UNCHANGED vars

Next ==
    \/ Deny \/ Plan
    \/ PruneGroup \/ PruneEnds
    \/ SkipGroup \/ ReadGroup \/ FilterFails \/ FileEnds
    \/ Done

Spec == Init /\ [][Next]_vars

-----------------------------------------------------------------------------
(* Properties.                                                             *)

TypeOK ==
    /\ files \in Files
    /\ query \in Queries
    /\ phase \in {"plan", "prune", "read", "done", "denied"}
    /\ policy \subseteq query.global \cup query.selective
    /\ file \in DOMAIN files
    /\ group \in 1 .. Len(files[file].groups) + 1
    /\ kept \subseteq Groups(file)
    /\ failed \subseteq DOMAIN files
    /\ \A x \in out : \E f \in 1 .. file : \E g \in Groups(f) : \E r \in Rows(f, g) :
            x = <<f, g, r>>

\* the literal survives the row filter's cast to the column's width
InRange(p) == p.kind = "int" /\ Type[p.col] # "utf8" => p.v \in Values(p.col)

\* A global filter is enforced as it is written on every delivered row of every
\* file (policy_authoring.md:28), not only of the first one.  A literal too wide
\* for the column is cast in the row filter (simd_ops.rs:62); the statistics,
\* where there are any, are what keeps the wrong rows back then.
GlobalFiltersEnforced ==
    \A x \in out : \A p \in query.global :
        /\ Has(x[1], p) /\ TypeFits(p)
        /\ Stats(x[1], x[2], p.col) # Null \/ InRange(p) =>
                Satisfies(p, At(x[1], x[2], x[3], p.col))

\* The row satisfies every predicate on a column its file has, and each of them
\* makes sense for its column.
Matches(f, g, r) ==
    /\ projected_cols \cap files[f].cols # {}
    /\ \A p \in combined_predicates : Has(f, p) =>
            TypeFits(p) /\ InRange(p) /\ Satisfies(p, At(f, g, r, p.col))

DateEquality(p) == p.kind = "date" /\ p.op = "Eq" /\ Type[p.col] = "date32"

\* Pruning and filtering together lose no row that satisfies every predicate: a
\* file scanned without an error delivers each of them, unless a date is
\* compared for equality (s3_client.rs:567-583).
NoMatchingRowLost ==
    phase = "done" =>
        \A f \in DOMAIN files \ failed : \A g \in Groups(f) : \A r \in Rows(f, g) :
            Matches(f, g, r) /\ (\A p \in combined_predicates : ~DateEquality(p)) =>
                <<f, g, r>> \in out

\* The same without the exception (s3_client.rs:587: "we must not prune to avoid
\* dropping valid data").
NoMatchingDateLost ==
    phase = "done" =>
        \A f \in DOMAIN files \ failed : \A g \in Groups(f) : \A r \in Rows(f, g) :
            Matches(f, g, r) => <<f, g, r>> \in out
=============================================================================
