------------------------------ MODULE ScanProofs ------------------------------
(***************************************************************************)
(* The two sides of a scan.                                                *)
(*                                                                         *)
(* Its rows (ScanRows), for all files, all queries and every width:        *)
(* pruning and the row filter agree where the code makes them, global      *)
(* filters are enforced on every delivered row, and no matching row is     *)
(* lost.                                                                   *)
(*                                                                         *)
(* Its tasks (ScanPipeline), for all files, all capacities and every       *)
(* interleaving: the open files stay bounded, and the iterator yields a    *)
(* sequential scan.                                                        *)
(***************************************************************************)
EXTENDS ScanRows, ScanPipeline, FiniteSetTheorems, SequenceTheorems, TLAPS

-----------------------------------------------------------------------------
(* The two readings of a predicate.                                        *)

StatsOf(c) == {Null} \cup [lo : Values(c), hi : Values(c)]
Within(a, stats) == stats # Null /\ a # Null => stats.lo <= a /\ a <= stats.hi

\* A literal that fits survives the cast of simd_ops.rs:62.
LEMMA WrapInRange == \A v \in I32 : Wrap(v) = v
  BY WidthAssumption, SMT DEF Wrap, I32

\* The predicates of a query are typed.
LEMMA PredicateFields ==
  ASSUME NEW p \in Predicate
  PROVE  /\ p.col \in Columns /\ p.op \in {"Eq", "Neq", "Gt", "Lt"}
         /\ p.kind \in {"int", "text", "date"} /\ p.v \in Int
         /\ Type[p.col] \in Types /\ Values(p.col) \subseteq Int
  BY TypeAssumption, WidthAssumption DEF Predicate, Values, I32, Types

\* The literal the row filter compares with is the one that was written.
LEMMA ScalarInRange ==
  ASSUME NEW p \in Predicate, TypeFits(p), InRange(p)
  PROVE  build_scalar(p) = p.v
  BY PredicateFields, WrapInRange DEF build_scalar, TypeFits, InRange, Values

\* A row that satisfies the predicate passes the row filter, and a row that
\* passes it satisfies it (simd_ops.rs:45-153).
LEMMA FilterExact ==
  ASSUME NEW p \in Predicate, NEW a, TypeFits(p), InRange(p)
  PROVE  evaluate_filter(p, a) <=> Satisfies(p, a)
  BY ScalarInRange DEF evaluate_filter, Satisfies

\* Statistics never rule out a row group with a row that satisfies the
\* predicate, except by comparing a date as text (s3_client.rs:490-590).
THEOREM PruningSound ==
  ASSUME NEW p \in Predicate, NEW a \in {Null} \cup Values(p.col),
         NEW stats \in StatsOf(p.col), Within(a, stats),
         TypeFits(p), ~DateEquality(p), Satisfies(p, a)
  PROVE  evaluate_statistics(p, stats)
<1>1. CASE stats = Null
  BY <1>1 DEF evaluate_statistics
<1>2. CASE stats # Null
  <2>1. /\ a \in Int /\ stats.lo \in Int /\ stats.hi \in Int /\ p.v \in Int
        /\ stats.lo <= a /\ a <= stats.hi
    BY <1>2, PredicateFields DEF StatsOf, Within, Satisfies
  <2>2. p.op = "Eq" => a = p.v
    BY DEF Satisfies, Compare
  <2>3. p.op = "Gt" => a > p.v
    BY DEF Satisfies, Compare
  <2>4. p.op = "Lt" => a < p.v
    BY DEF Satisfies, Compare
  <2>5. CASE p.kind = "int"
    <3>1. p.op # "Neq" => Overlaps(p, stats)
      BY <2>1, <2>2, <2>3, <2>4, PredicateFields DEF Overlaps
    <3> QED BY <3>1, <2>5, PredicateFields DEF evaluate_statistics
  <2>6. CASE p.kind # "int"
    <3>1. p.op = "Eq" => Type[p.col] = "utf8"
      BY <2>6, PredicateFields DEF TypeFits, DateEquality
    <3>2. p.op = "Eq" => TextWithin(p, stats)
      BY <3>1, <2>1, <2>2 DEF TextWithin
    <3> QED BY <3>2, <2>6 DEF evaluate_statistics
  <2> QED BY <2>5, <2>6
<1> QED BY <1>1, <1>2

\* Where a group has statistics, the row filter lets no row through that does
\* not satisfy the predicate, however wide the literal: either the cast is
\* harmless or the statistics have ruled the group out.
THEOREM FilterSound ==
  ASSUME NEW p \in Predicate, NEW a \in {Null} \cup Values(p.col),
         NEW stats \in StatsOf(p.col), Within(a, stats), TypeFits(p),
         evaluate_statistics(p, stats), evaluate_filter(p, a),
         stats # Null \/ InRange(p)
  PROVE  Satisfies(p, a)
<1>1. CASE InRange(p)
  BY <1>1, FilterExact
<1>2. CASE ~InRange(p)
  <2>1. p.kind = "int" /\ Values(p.col) = I32 /\ p.v \in Int /\ p.v \notin I32
    BY <1>2, PredicateFields DEF InRange, Values
  <2>2. /\ a # Null /\ a \in I32 /\ stats.lo \in I32 /\ stats.hi \in I32
        /\ stats.lo <= a /\ a <= stats.hi
    BY <1>2, <2>1 DEF StatsOf, Within, evaluate_filter
  <2>3. p.op = "Neq" \/ Overlaps(p, stats)
    BY <1>2, <2>1 DEF evaluate_statistics, InRange
  <2>4. p.v < -Half \/ p.v >= Half
    BY <2>1, WidthAssumption DEF I32
  <2>5. p.op = "Neq" \/ (p.op = "Gt" /\ p.v < -Half) \/ (p.op = "Lt" /\ p.v >= Half)
    BY <2>1, <2>2, <2>3, <2>4, PredicateFields, WidthAssumption DEF Overlaps, I32
  <2> QED BY <2>1, <2>2, <2>5, WidthAssumption DEF Satisfies, Compare, I32
<1> QED BY <1>1, <1>2

-----------------------------------------------------------------------------
(* The inductive invariant.                                                *)

Planned == phase \in {"prune", "read", "done"}

\* the role's filters, once chosen
PolicyInv ==
    /\ ~Planned => out = {} /\ kept = {} /\ failed = {} /\ file = 1 /\ group = 1
    /\ Planned => policy = query.global \cup {p \in query.selective : Has(1, p)}

\* only row groups that survive pruning are read
KeptInv == \A g \in kept : Keep(file, g)

\* a delivered row survived both halves of every predicate
OutInv ==
    \A x \in out :
        /\ x[1] \in DOMAIN files /\ x[2] \in Groups(x[1]) /\ x[3] \in Rows(x[1], x[2])
        /\ Evaluable(x[1]) /\ Keep(x[1], x[2]) /\ Passes(x[1], x[2], x[3])

\* row group g of file f has been dealt with
Settled(f, g) == Keep(f, g) => Evaluable(f) /\ Delivered(f, g) \subseteq out

\* nothing behind the loops was left out
ProgressInv ==
    /\ Planned => \A f \in DOMAIN files \ failed : f < file => \A g \in Groups(f) : Settled(f, g)
    /\ phase = "prune" => \A g \in Groups(file) : g < group /\ Keep(file, g) => g \in kept
    /\ phase = "read" => \A g \in Groups(file) :
            (Keep(file, g) => g \in kept) /\ (g < group => Settled(file, g))
    /\ phase = "done" => \A f \in DOMAIN files \ failed : \A g \in Groups(f) : Settled(f, g)

IInv == TypeOK /\ PolicyInv /\ KeptInv /\ OutInv /\ ProgressInv

\* What TypeOK says of the files.
LEMMA FilesTyped ==
  ASSUME TypeOK
  PROVE  /\ Len(files) \in Nat /\ DOMAIN files = 1 .. Len(files) /\ 1 \in DOMAIN files
         /\ \A f \in DOMAIN files :
                /\ files[f] \in File
                /\ Len(files[f].groups) \in Nat /\ Groups(f) = 1 .. Len(files[f].groups)
<1>1. files \in Seq(File) /\ files # <<>>
  BY FilesAssumption DEF TypeOK
<1>2. Len(files) \in Nat /\ DOMAIN files = 1 .. Len(files)
  BY <1>1
<1>3. \A f \in DOMAIN files : files[f] \in File
  BY <1>1
<1>4. 1 \in DOMAIN files
  BY <1>1, <1>2
<1>5. ASSUME NEW f \in DOMAIN files
      PROVE  Len(files[f].groups) \in Nat /\ Groups(f) = 1 .. Len(files[f].groups)
  <2>1. files[f].groups \in Seq(Group)
    BY <1>3 DEF File
  <2> QED BY <2>1 DEF Groups
<1> QED BY <1>2, <1>3, <1>4, <1>5

LEMMA TypeInit == Init => TypeOK
<1> SUFFICES ASSUME Init PROVE TypeOK
  OBVIOUS
<1>1. files \in Seq(File) /\ files # <<>>
  BY FilesAssumption DEF Init
<1>2. 1 \in DOMAIN files /\ files[1] \in File
  BY <1>1
<1>3. files[1].groups \in Seq(Group)
  BY <1>2 DEF File
<1>4. 1 \in 1 .. Len(files[1].groups) + 1
  BY <1>3
<1> QED BY <1>2, <1>4 DEF Init, TypeOK

\* NextFile leaves the loops in a file, at its first row group.
LEMMA NextFileTyped ==
  ASSUME TypeOK, NextFile, UNCHANGED files
  PROVE  /\ phase' \in {"prune", "done"} /\ file' \in DOMAIN files
         /\ file <= file' /\ kept' = {} /\ group' \in 1 .. Len(files[file'].groups) + 1
<1>1. file' \in DOMAIN files /\ file <= file'
  BY FilesTyped DEF NextFile, TypeOK
<1>2. Len(files[file'].groups) \in Nat
  BY <1>1, FilesTyped
<1> QED BY <1>1, <1>2 DEF NextFile

LEMMA TypeNext == TypeOK /\ [Next]_vars => TypeOK'
<1> SUFFICES ASSUME TypeOK, [Next]_vars PROVE TypeOK'
  OBVIOUS
<1> USE FilesTyped
<1>1. CASE Deny
  BY <1>1 DEF Deny, TypeOK, Groups, Rows
<1>2. CASE Plan
  BY <1>2 DEF Plan, TypeOK, Groups, Rows
<1>3. CASE PruneGroup
  BY <1>3 DEF PruneGroup, TypeOK, Groups, Rows
<1>4. CASE PruneEnds
  BY <1>4 DEF PruneEnds, TypeOK, Groups, Rows
<1>5. CASE SkipGroup
  BY <1>5 DEF SkipGroup, TypeOK, Groups, Rows
<1>6. CASE ReadGroup
  <2>1. /\ UNCHANGED <<files, query, phase, policy, file, kept, failed>>
        /\ group' \in 1 .. Len(files[file].groups) + 1
    BY <1>6 DEF ReadGroup, TypeOK, Groups
  <2>2. \A x \in out' : x \in out \/ \E r \in Rows(file, group) : x = <<file, group, r>>
    BY <1>6 DEF ReadGroup, Delivered
  <2>3. group \in Groups(file) /\ file \in 1 .. file
    BY <1>6 DEF ReadGroup, TypeOK
  <2>4. \A x \in out' : \E f \in 1 .. file : \E g \in Groups(f) : \E r \in Rows(f, g) : x = <<f, g, r>>
    BY <2>2, <2>3 DEF TypeOK
  <2> QED BY <2>1, <2>4 DEF TypeOK, Groups, Rows
<1>7. CASE FilterFails
  <2>1. UNCHANGED <<files, query, policy, out>> /\ failed' \subseteq DOMAIN files
    BY <1>7 DEF FilterFails, TypeOK
  <2>2. \A x \in out : \E f \in 1 .. file' : \E g \in Groups(f) : \E r \in Rows(f, g) : x = <<f, g, r>>
    <3>1. 1 .. file \subseteq 1 .. file'
      <4>1. NextFile /\ UNCHANGED files
        BY <1>7 DEF FilterFails
      <4>2. file \in DOMAIN files /\ file' \in DOMAIN files /\ file <= file'
        BY <4>1, NextFileTyped DEF TypeOK
      <4>3. DOMAIN files \subseteq Nat
        BY DEF TypeOK
      <4> QED BY <4>2, <4>3, SMT
    <3>2. \A x \in out : \E f \in 1 .. file : \E g \in Groups(f) : \E r \in Rows(f, g) : x = <<f, g, r>>
      BY DEF TypeOK
    <3> QED BY <3>1, <3>2, Zenon
  <2> QED BY <1>7, <2>1, <2>2, NextFileTyped DEF FilterFails, TypeOK, Groups, Rows
<1>8. CASE FileEnds
  <2>1. UNCHANGED <<files, query, policy, out, failed>>
    BY <1>8 DEF FileEnds
  <2>2. \A x \in out : \E f \in 1 .. file' : \E g \in Groups(f) : \E r \in Rows(f, g) : x = <<f, g, r>>
    <3>1. 1 .. file \subseteq 1 .. file'
      <4>1. NextFile /\ UNCHANGED files
        BY <1>8 DEF FileEnds
      <4>2. file \in DOMAIN files /\ file' \in DOMAIN files /\ file <= file'
        BY <4>1, NextFileTyped DEF TypeOK
      <4>3. DOMAIN files \subseteq Nat
        BY DEF TypeOK
      <4> QED BY <4>2, <4>3, SMT
    <3>2. \A x \in out : \E f \in 1 .. file : \E g \in Groups(f) : \E r \in Rows(f, g) : x = <<f, g, r>>
      BY DEF TypeOK
    <3> QED BY <3>1, <3>2, Zenon
  <2> QED BY <1>8, <2>1, <2>2, NextFileTyped DEF FileEnds, TypeOK, Groups, Rows
<1>9. CASE UNCHANGED vars
  BY <1>9 DEF vars, TypeOK, Groups, Rows
<1> QED BY <1>1, <1>2, <1>3, <1>4, <1>5, <1>6, <1>7, <1>8, <1>9 DEF Next, Done

\* Every variable keeps its type, whatever the files and the query.
THEOREM TypeCorrect == Spec => []TypeOK
  BY TypeInit, TypeNext, PTL DEF Spec

-----------------------------------------------------------------------------
(* The other parts of the invariant.                                       *)

LEMMA PartsInit == Init => PolicyInv /\ KeptInv /\ OutInv /\ ProgressInv
  BY DEF Init, PolicyInv, KeptInv, OutInv, ProgressInv, Planned

LEMMA PolicyNext == TypeOK /\ PolicyInv /\ [Next]_vars => PolicyInv'
<1> SUFFICES ASSUME TypeOK, PolicyInv, [Next]_vars PROVE PolicyInv'
  OBVIOUS
<1> USE DEF PolicyInv, Planned, Has, TypeOK
<1>1. CASE Deny
  BY <1>1 DEF Deny
<1>2. CASE Plan
  BY <1>2 DEF Plan
<1>3. CASE PruneGroup
  BY <1>3 DEF PruneGroup
<1>4. CASE PruneEnds
  BY <1>4 DEF PruneEnds
<1>5. CASE SkipGroup
  BY <1>5 DEF SkipGroup
<1>6. CASE ReadGroup
  BY <1>6 DEF ReadGroup
<1>7. CASE FilterFails
  BY <1>7 DEF FilterFails, NextFile
<1>8. CASE FileEnds
  BY <1>8 DEF FileEnds, NextFile
<1>9. CASE UNCHANGED vars
  BY <1>9 DEF vars
<1> QED BY <1>1, <1>2, <1>3, <1>4, <1>5, <1>6, <1>7, <1>8, <1>9 DEF Next, Done

LEMMA KeptNext == TypeOK /\ PolicyInv /\ KeptInv /\ [Next]_vars => KeptInv'
<1> SUFFICES ASSUME TypeOK, PolicyInv, KeptInv, [Next]_vars PROVE KeptInv'
  OBVIOUS
<1> USE DEF KeptInv, Keep, Has, Stats, combined_predicates, projected_cols
<1>1. CASE Deny
  BY <1>1 DEF Deny
<1>2. CASE Plan
  BY <1>2 DEF Plan, PolicyInv, Planned
<1>3. CASE PruneGroup
  BY <1>3 DEF PruneGroup
<1>4. CASE PruneEnds
  BY <1>4 DEF PruneEnds
<1>5. CASE SkipGroup
  BY <1>5 DEF SkipGroup
<1>6. CASE ReadGroup
  BY <1>6 DEF ReadGroup
<1>7. CASE FilterFails
  BY <1>7 DEF FilterFails, NextFile
<1>8. CASE FileEnds
  BY <1>8 DEF FileEnds, NextFile
<1>9. CASE UNCHANGED vars
  BY <1>9 DEF vars
<1> QED BY <1>1, <1>2, <1>3, <1>4, <1>5, <1>6, <1>7, <1>8, <1>9 DEF Next, Done

\* What a step that leaves the plan alone says of files, groups and rows.
LEMMA SamePlan ==
  ASSUME UNCHANGED <<files, query, policy>>
  PROVE  /\ \A f, g : Keep(f, g)' <=> Keep(f, g)
         /\ \A f : Evaluable(f)' <=> Evaluable(f)
         /\ \A f, g, r : Passes(f, g, r)' <=> Passes(f, g, r)
         /\ \A f, g : Delivered(f, g)' = Delivered(f, g)
         /\ \A f : Groups(f)' = Groups(f)
         /\ \A f, g : Rows(f, g)' = Rows(f, g)
  BY DEF Keep, Evaluable, Passes, Delivered, Groups, Rows, At, Has, Stats,
         combined_predicates, projected_cols

LEMMA OutNext == TypeOK /\ PolicyInv /\ KeptInv /\ OutInv /\ [Next]_vars => OutInv'
<1> SUFFICES ASSUME TypeOK, PolicyInv, KeptInv, OutInv, [Next]_vars PROVE OutInv'
  OBVIOUS
<1>1. CASE Deny \/ Plan
  BY <1>1 DEF Deny, Plan, PolicyInv, Planned, OutInv
<1>2. CASE ReadGroup
  <2>1. UNCHANGED <<files, query, policy>>
    BY <1>2 DEF ReadGroup
  <2>2. \A x \in out' : x \in out \/ \E r \in Rows(file, group) : x = <<file, group, r>> /\ Passes(file, group, r)
    BY <1>2 DEF ReadGroup, Delivered
  <2>3. file \in DOMAIN files /\ group \in Groups(file) /\ Evaluable(file) /\ Keep(file, group)
    BY <1>2 DEF ReadGroup, KeptInv, TypeOK
  <2>4. \A x \in out' :
            /\ x[1] \in DOMAIN files /\ x[2] \in Groups(x[1]) /\ x[3] \in Rows(x[1], x[2])
            /\ Evaluable(x[1]) /\ Keep(x[1], x[2]) /\ Passes(x[1], x[2], x[3])
    BY <2>2, <2>3 DEF OutInv
  <2> QED BY <2>1, <2>4, SamePlan DEF OutInv
<1>3. CASE UNCHANGED <<files, query, policy, out>>
  BY <1>3, SamePlan DEF OutInv
<1> QED
  BY <1>1, <1>2, <1>3
     DEF Next, Done, vars, PruneGroup, PruneEnds, SkipGroup, FilterFails, FileEnds

\* Leaving a file: all of its row groups are settled, or it has failed.
LEMMA NextFileProgress ==
  ASSUME TypeOK, ProgressInv, phase = "read", NextFile,
         UNCHANGED <<files, query, policy, out>>, failed \subseteq failed',
         file \notin failed' => \A g \in Groups(file) : Settled(file, g)
  PROVE  ProgressInv'
<1>1. \A f, g : Settled(f, g)' <=> Settled(f, g)
  BY SamePlan DEF Settled
<1>2. \A f \in DOMAIN files \ failed' : f <= file => \A g \in Groups(f) : Settled(f, g)
  BY FilesTyped DEF ProgressInv, Planned, TypeOK
<1>3. CASE file + 1 \in DOMAIN files
  <2>1. phase' = "prune" /\ file' = file + 1 /\ group' = 1
    BY <1>3 DEF NextFile
  <2>2. \A f \in DOMAIN files : f < file' => f <= file
    BY <2>1, FilesTyped DEF TypeOK
  <2>3. \A g \in Groups(file') : ~(g < group')
    BY <2>1, <1>3, FilesTyped
  <2> QED BY <1>1, <1>2, <2>1, <2>2, <2>3, SamePlan DEF ProgressInv, Planned
<1>4. CASE file + 1 \notin DOMAIN files
  <2>1. phase' = "done" /\ file' = file
    BY <1>4 DEF NextFile
  <2>2. \A f \in DOMAIN files : f <= file
    BY <1>4, FilesTyped DEF TypeOK
  <2> QED BY <1>1, <1>2, <2>1, <2>2, SamePlan DEF ProgressInv, Planned
<1> QED BY <1>3, <1>4

LEMMA ProgressNext == IInv /\ [Next]_vars => ProgressInv'
<1> SUFFICES ASSUME IInv, [Next]_vars PROVE ProgressInv'
  OBVIOUS
<1> USE FilesTyped DEF IInv
<1>1. CASE Deny
  BY <1>1 DEF Deny, ProgressInv, Planned
<1>2. CASE Plan
  <2>1. phase' = "prune" /\ file' = 1 /\ group' = group /\ files' = files /\ UNCHANGED failed
    BY <1>2 DEF Plan, PolicyInv, Planned
  <2>2. group = 1
    BY <1>2 DEF Plan, PolicyInv, Planned
  <2> QED BY <2>1, <2>2 DEF ProgressInv, Planned, Groups
<1>3. CASE PruneGroup
  <2>1. UNCHANGED <<files, query, policy, out, phase, file, failed>> /\ phase = "prune"
    BY <1>3 DEF PruneGroup
  <2>2. \A f, g : Settled(f, g)' <=> Settled(f, g)
    BY <2>1, SamePlan DEF Settled
  <2>3. \A g \in Groups(file) : g < group' /\ Keep(file, g) => g \in kept'
    BY <1>3 DEF PruneGroup, ProgressInv, TypeOK
  <2> QED BY <2>1, <2>2, <2>3, SamePlan DEF ProgressInv, Planned
<1>4. CASE PruneEnds
  <2>1. UNCHANGED <<files, query, policy, out, file, failed, kept>>
        /\ phase = "prune" /\ phase' = "read" /\ group' = 1
    BY <1>4 DEF PruneEnds
  <2>2. \A f, g : Settled(f, g)' <=> Settled(f, g)
    BY <2>1, SamePlan DEF Settled
  <2>3. \A g \in Groups(file) : g < group /\ ~(g < group')
    BY <1>4, <2>1 DEF PruneEnds, TypeOK
  <2> QED BY <2>1, <2>2, <2>3, SamePlan DEF ProgressInv, Planned
<1>5. CASE SkipGroup \/ ReadGroup
  <2>1. UNCHANGED <<files, query, policy, phase, file, failed, kept>>
        /\ phase = "read" /\ group' = group + 1 /\ out \subseteq out' /\ group \in Groups(file)
    BY <1>5 DEF SkipGroup, ReadGroup, TypeOK
  <2>2. \A f, g : Settled(f, g)' <=> (Keep(f, g) => Evaluable(f) /\ Delivered(f, g) \subseteq out')
    BY <2>1, SamePlan DEF Settled
  <2>3. Keep(file, group) => Evaluable(file) /\ Delivered(file, group) \subseteq out'
    BY <1>5, <2>1 DEF SkipGroup, ReadGroup, ProgressInv
  <2>5. \A f, g : Settled(f, g) => Settled(f, g)'
    BY <2>1, <2>2 DEF Settled
  <2>4. \A g \in Groups(file) : g < group' => g < group \/ g = group
    BY <2>1 DEF TypeOK
  <2> QED BY <2>1, <2>2, <2>3, <2>4, <2>5, SamePlan DEF ProgressInv, Planned
<1>6. CASE FilterFails
  BY <1>6, NextFileProgress DEF FilterFails
<1>7. CASE FileEnds
  <2>1. \A g \in Groups(file) : g < group
    BY <1>7 DEF FileEnds, TypeOK
  <2> QED BY <1>7, <2>1, NextFileProgress DEF FileEnds, ProgressInv
<1>8. CASE UNCHANGED vars
  BY <1>8, SamePlan DEF vars, ProgressInv, Planned, Settled
<1> QED BY <1>1, <1>2, <1>3, <1>4, <1>5, <1>6, <1>7, <1>8 DEF Next, Done

LEMMA Inductive == Spec => []IInv
<1>1. Init => IInv
  BY TypeInit, PartsInit DEF IInv
<1>2. IInv /\ [Next]_vars => IInv'
  BY TypeNext, PolicyNext, KeptNext, OutNext, ProgressNext DEF IInv
<1> QED BY <1>1, <1>2, PTL DEF Spec

-----------------------------------------------------------------------------
(* What follows from it.                                                   *)

LEMMA CellsBounded ==
  ASSUME TypeOK, NEW f \in DOMAIN files, NEW g \in Groups(f), NEW r \in Rows(f, g),
         NEW c \in Columns
  PROVE  /\ At(f, g, r, c) \in {Null} \cup Values(c)
         /\ Stats(f, g, c) \in StatsOf(c)
         /\ Within(At(f, g, r, c), Stats(f, g, c))
<1>1. Bounded(files[f].groups[g], c)
  BY FilesAssumption DEF TypeOK, Groups
<1>2. files[f].groups[g] \in Group
  <2>1. files[f].groups \in Seq(Group)
    BY FilesTyped DEF File
  <2> QED BY <2>1 DEF Groups
<1>3. Stats(f, g, c) \in {Null} \cup [lo : Int, hi : Int]
  BY <1>2 DEF Group, Stats
<1>4. Stats(f, g, c) \in StatsOf(c)
  BY <1>1, <1>3 DEF Bounded, Stats, StatsOf
<1> QED BY <1>1, <1>4 DEF Bounded, Stats, At, Rows, Within

LEMMA QueryTyped ==
  ASSUME TypeOK
  PROVE  /\ combined_predicates \subseteq Predicate
         /\ query.global \subseteq Predicate
  BY QueriesAssumption DEF TypeOK, combined_predicates

LEMMA EnforcedStep == IInv => GlobalFiltersEnforced
<1> SUFFICES ASSUME IInv, NEW x \in out, NEW p \in query.global
             PROVE  /\ Has(x[1], p) /\ TypeFits(p)
                    /\ Stats(x[1], x[2], p.col) # Null \/ InRange(p) =>
                            Satisfies(p, At(x[1], x[2], x[3], p.col))
  BY DEF GlobalFiltersEnforced
<1> DEFINE f == x[1]
           g == x[2]
           r == x[3]
<1>1. p \in policy /\ p \in Predicate /\ p \in combined_predicates
  BY QueryTyped DEF IInv, PolicyInv, combined_predicates
<1>2. /\ f \in DOMAIN files /\ g \in Groups(f) /\ r \in Rows(f, g)
      /\ Evaluable(f) /\ Keep(f, g) /\ Passes(f, g, r)
  BY DEF IInv, OutInv
<1>3. Has(f, p) /\ TypeFits(p)
  BY <1>1, <1>2 DEF Evaluable
<1>4. evaluate_statistics(p, Stats(f, g, p.col)) /\ evaluate_filter(p, At(f, g, r, p.col))
  BY <1>1, <1>2, <1>3 DEF Keep, Passes
<1>5. ASSUME Stats(f, g, p.col) # Null \/ InRange(p)
      PROVE  Satisfies(p, At(f, g, r, p.col))
  <2>1. /\ At(f, g, r, p.col) \in {Null} \cup Values(p.col)
        /\ Stats(f, g, p.col) \in StatsOf(p.col)
        /\ Within(At(f, g, r, p.col), Stats(f, g, p.col))
    BY <1>1, <1>2, CellsBounded, PredicateFields DEF IInv
  <2> QED BY <1>1, <1>3, <1>4, <1>5, <2>1, FilterSound
<1> QED BY <1>3, <1>5

\* A global filter holds, as it is written, of every row a scan delivers.
THEOREM FiltersEnforced == Spec => []GlobalFiltersEnforced
  BY Inductive, EnforcedStep, PTL

LEMMA NothingLostStep == IInv => NoMatchingRowLost
<1> SUFFICES ASSUME IInv, phase = "done", NEW f \in DOMAIN files \ failed,
                    NEW g \in Groups(f), NEW r \in Rows(f, g), Matches(f, g, r),
                    \A p \in combined_predicates : ~DateEquality(p)
             PROVE  <<f, g, r>> \in out
  BY DEF NoMatchingRowLost
<1>1. ASSUME NEW p \in combined_predicates, Has(f, p)
      PROVE  /\ evaluate_statistics(p, Stats(f, g, p.col))
             /\ evaluate_filter(p, At(f, g, r, p.col))
  <2>1. p \in Predicate /\ p.col \in Columns
    BY QueryTyped, PredicateFields DEF IInv
  <2>2. TypeFits(p) /\ InRange(p) /\ ~DateEquality(p) /\ Satisfies(p, At(f, g, r, p.col))
    BY <1>1 DEF Matches
  <2>3. /\ At(f, g, r, p.col) \in {Null} \cup Values(p.col)
        /\ Stats(f, g, p.col) \in StatsOf(p.col)
        /\ Within(At(f, g, r, p.col), Stats(f, g, p.col))
    BY <2>1, CellsBounded DEF IInv
  <2> QED BY <2>1, <2>2, <2>3, PruningSound, FilterExact
<1>2. Keep(f, g)
  BY <1>1 DEF Keep, Matches
<1>3. Evaluable(f) /\ Delivered(f, g) \subseteq out
  BY <1>2 DEF IInv, ProgressInv, Settled
<1>4. Passes(f, g, r)
  BY <1>1, <1>3 DEF Passes, Evaluable, combined_predicates
<1> QED BY <1>3, <1>4 DEF Delivered

\* A finished scan has delivered every row that satisfies all predicates.
THEOREM NothingLost == Spec => []NoMatchingRowLost
  BY Inductive, NothingLostStep, PTL

-----------------------------------------------------------------------------
(* The inductive invariant of the pipeline, in four parts.  FlowInv: files *)
(* pass from one task to the other in order.  AheadInv: none is opened too *)
(* far ahead.  ChainInv: each item in the channel may follow the one       *)
(* before it, the first one the last that was yielded.  SenderInv: the     *)
(* scan task stands where the last item it sent left it.                   *)

\* the files the scan task has taken so far
Taken == yielded - Len(streams) - (IF prefetch = "send" THEN 1 ELSE 0)

FlowInv ==
    /\ reader = "none" => task = "none" /\ got = <<>>
    /\ task = "none" <=> prefetch = "none"
    /\ task = "none" => yielded = 0 /\ streams = <<>> /\ batches = <<>> /\ reader # "open"
    /\ task = "done" => streams = <<>>
    /\ prefetch = "send" => yielded >= 1
    /\ Taken \in Nat
    /\ \A i \in DOMAIN streams : streams[i] = Taken + i
    /\ task \in {"read", "batch", "error", "fatal"} => cur = Taken
    /\ task \in {"batch", "error"} => pos < size[cur]
    /\ prefetch = "done" /\ task # "done" /\ ~broken => yielded = NumFiles

AheadInv ==
    \A f \in Targets : opened[f] # "no" =>
        f <= yielded + OpenAhead - (IF prefetch = "send" THEN 1 ELSE 0)

NoItem == [kind |-> "none"]
LastGot == IF got = <<>> THEN NoItem ELSE got[Len(got)]
LastSent == IF batches = <<>> THEN LastGot ELSE batches[Len(batches)]

\* z[f]: the batches of file f.  After item l, all files before f are behind
Reached(z, l, f) ==
    /\ l.kind # "fatal"
    /\ IF l.kind = "none" THEN \A g \in 1 .. f - 1 : z[g] = 0
       ELSE /\ l.file < f
            /\ l.kind = "batch" => l.number = z[l.file]
            /\ \A g \in l.file + 1 .. f - 1 : z[g] = 0

Follows(z, l, item) ==
    /\ item.kind = "error" => z[item.file] > 0
    /\ \/ /\ Reached(z, l, item.file)
          /\ item.kind = "batch" => item.number = 1
       \/ /\ l.kind = "batch" /\ l.file = item.file /\ l.number < z[l.file]
          /\ item.kind # "fatal"
          /\ item.kind = "batch" => item.number = l.number + 1

\* after item l, p batches of file f are behind
Inside(z, l, f, p) == IF p = 0 THEN Reached(z, l, f) ELSE l = Batch(f, p)

ChainInv ==
    /\ batches # <<>> => Follows(size, LastGot, batches[1])
    /\ \A i \in 1 .. Len(batches) - 1 : Follows(size, batches[i], batches[i + 1])

SenderInv ==
    reader = "open" =>
        /\ task = "recv" => Reached(size, LastSent, Taken + 1)
        /\ task \in {"read", "batch", "error"} => Inside(size, LastSent, cur, pos)
        /\ task = "fatal" => Reached(size, LastSent, cur)
        /\ task = "done" /\ ~broken => LastSent.kind = "fatal" \/ Reached(size, LastSent, NumFiles + 1)

PipeIInv == PipeTypeOK /\ FlowInv /\ AheadInv /\ ChainInv /\ SenderInv

-----------------------------------------------------------------------------
(* Types.                                                                  *)

LEMMA SizeStays == [PipeNext]_pipeVars => size' = size /\ Items' = Items
<1>1. [PipeNext]_pipeVars => size' = size
      BY DEF PipeNext, pipeVars, Reject, Start, Prefetch, OpenFile, Yield, PrefetchEnds, SendStream, SendStreamRefused,
             Task, TakeStream, StreamsEnd, ReadBatch, BatchFails, StreamRead, SendBatch, SendBatchRefused,
             SendFileError, SendOpenError, SendError, Iterator, NextItem, NextNone, DropIterator,
             PrefetchPanics, TaskPanics, PipeDone
<1> QED BY <1>1 DEF Items

LEMMA ItemIs ==
    ASSUME NEW item \in Items
    PROVE  /\ item.file \in Targets
           /\ item.kind \in {"batch", "error", "fatal"}
           /\ item.kind = "batch" => item.number \in 1 .. size[item.file] /\ item = Batch(item.file, item.number)
BY DEF Items, Batch, Error, Fatal

LEMMA ItemsAre ==
    ASSUME NEW f \in Targets
    PROVE  /\ Error(f) \in Items /\ Fatal(f) \in Items
           /\ \A b \in 1 .. size[f] : Batch(f, b) \in Items
BY DEF Items

LEMMA PipeTypeInit == PipeInit => PipeTypeOK
<1> SUFFICES ASSUME PipeInit PROVE PipeTypeOK
    OBVIOUS
<1>1. 1 \in Targets /\ 0 \in 0 .. size[1]
  <2>1. 1 \in Targets
        BY NumFilesAssumption DEF Targets
  <2>2. size[1] \in Nat
        BY <2>1, ShapesAssumption DEF PipeInit
  <2> QED BY <2>1, <2>2
<1>2. size \in Shapes /\ [f \in Targets |-> "no"] \in [Targets -> {"no", "ok", "err"}] /\ 0 \in 0 .. NumFiles
      BY NumFilesAssumption DEF PipeInit
<1>3. streams \in Seq(Targets) /\ Len(streams) <= StreamCap
      BY CapAssumption DEF PipeInit
<1>4. batches \in Seq(Items) /\ Len(batches) <= OutCap /\ got \in Seq(Items)
      BY CapAssumption DEF PipeInit
<1> QED BY <1>1, <1>2, <1>3, <1>4 DEF PipeInit, PipeTypeOK

\* the parts of PipeTypeOK, one for each task
ReaderOK ==
    /\ batches \in Seq(Items) /\ Len(batches) <= OutCap
    /\ reader \in {"none", "open", "ended", "closed"} /\ got \in Seq(Items)
    /\ audited \in BOOLEAN /\ broken \in BOOLEAN
PrefetchOK ==
    /\ opened \in [Targets -> {"no", "ok", "err"}] /\ yielded \in 0 .. NumFiles
    /\ prefetch \in {"none", "poll", "send", "done"}
StreamsOK == streams \in Seq(Targets) /\ Len(streams) <= StreamCap
TaskOK ==
    /\ task \in {"none", "recv", "read", "batch", "error", "fatal", "done"}
    /\ cur \in Targets /\ pos \in 0 .. size[cur]

LEMMA PipeTypeParts == PipeTypeOK <=> size \in Shapes /\ ReaderOK /\ PrefetchOK /\ StreamsOK /\ TaskOK
BY DEF PipeTypeOK, ReaderOK, PrefetchOK, StreamsOK, TaskOK

LEMMA PipeTypePartsNext == PipeTypeOK' <=> size' \in Shapes /\ ReaderOK' /\ PrefetchOK' /\ StreamsOK' /\ TaskOK'
BY DEF PipeTypeOK, ReaderOK, PrefetchOK, StreamsOK, TaskOK

LEMMA PipeTypeStep == PipeTypeOK /\ FlowInv /\ [PipeNext]_pipeVars => PipeTypeOK'
<1> SUFFICES ASSUME PipeTypeOK, FlowInv, [PipeNext]_pipeVars PROVE PipeTypeOK'
    OBVIOUS
<1>a. size' = size /\ Items' = Items /\ size \in [Targets -> Nat] /\ cur \in Targets /\ size[cur] \in Nat /\ pos \in Nat
      BY SizeStays, ShapesAssumption DEF PipeTypeOK
<1>b. NumFiles \in Nat /\ StreamCap \in Nat \ {0} /\ OutCap \in Nat \ {0} /\ Len(streams) \in Nat /\ Len(batches) \in Nat
      BY NumFilesAssumption, CapAssumption DEF PipeTypeOK
<1>c. size \in Shapes /\ ReaderOK /\ PrefetchOK /\ StreamsOK /\ TaskOK
      BY PipeTypeParts
<1>1. ReaderOK'
  <2>1. UNCHANGED <<batches, reader, got, audited, broken>> => ReaderOK'
        BY <1>a, <1>c DEF ReaderOK
  <2>2. Reject \/ Start \/ NextNone \/ PrefetchPanics \/ TaskPanics => ReaderOK'
        BY <1>a, <1>c DEF Reject, Start, NextNone, PrefetchPanics, TaskPanics, readerVars, ReaderOK
  <2>3. DropIterator => ReaderOK'
        BY <1>a, <1>b, <1>c DEF DropIterator, ReaderOK
  <2>4. NextItem => ReaderOK'
        BY <1>a, <1>b, <1>c DEF NextItem, ReaderOK
  <2>5. ASSUME NEW item \in Items, Len(batches) < OutCap, batches' = Append(batches, item),
               UNCHANGED <<readerVars, audited, broken>>
        PROVE  ReaderOK'
        BY <1>a, <1>b, <1>c, <2>5 DEF readerVars, ReaderOK
  <2>6. SendBatch => ReaderOK'
    <3> SUFFICES ASSUME SendBatch PROVE ReaderOK'
        OBVIOUS
    <3>1. Batch(cur, pos + 1) \in Items
      <4>1. pos < size[cur]
            BY DEF SendBatch, FlowInv
      <4> QED BY <1>a, <4>1, ItemsAre
    <3> QED BY <2>5, <3>1 DEF SendBatch, HasRoom
  <2>7. ASSUME NEW item \in Items, NEW to, SendError(item, to) PROVE ReaderOK'
        BY <2>1, <2>5, <2>7 DEF SendError, HasRoom, readerVars
  <2>8. SendFileError \/ SendOpenError => ReaderOK'
        BY <1>a, <2>7, ItemsAre DEF SendFileError, SendOpenError
  <2>9. Prefetch \/ TakeStream \/ StreamsEnd \/ ReadBatch \/ BatchFails \/ StreamRead \/ SendBatchRefused
            \/ PipeDone \/ UNCHANGED pipeVars => ReaderOK'
        BY <2>1 DEF Prefetch, OpenFile, Yield, PrefetchEnds, SendStream, SendStreamRefused, TakeStream, StreamsEnd,
                    ReadBatch, BatchFails, StreamRead, SendBatchRefused, PipeDone, pipeVars, readerVars
  <2> QED BY <2>2, <2>3, <2>4, <2>6, <2>8, <2>9 DEF PipeNext, Task, Iterator
<1>2. PrefetchOK'
  <2>1. UNCHANGED fileVars => PrefetchOK'
        BY <1>c DEF PrefetchOK, fileVars
  <2>2. Start \/ PrefetchPanics => PrefetchOK'
        BY <1>c DEF Start, PrefetchPanics, PrefetchOK
  <2>3. Prefetch => PrefetchOK'
        BY <1>b, <1>c DEF Prefetch, OpenFile, Yield, PrefetchEnds, SendStream, SendStreamRefused, PrefetchOK
  <2> QED BY <2>1, <2>2, <2>3 DEF PipeNext, pipeVars, Reject, Task, TakeStream, StreamsEnd, ReadBatch, BatchFails,
             StreamRead, SendBatch, SendBatchRefused, SendFileError, SendOpenError, SendError, Iterator, NextItem,
             NextNone, DropIterator, TaskPanics, PipeDone
<1>3. StreamsOK'
  <2>1. UNCHANGED streams \/ streams' = <<>> => StreamsOK'
    <3>1. UNCHANGED streams => StreamsOK'
          BY <1>c DEF StreamsOK
    <3>2. streams' = <<>> => StreamsOK'
          BY <1>b DEF StreamsOK
    <3> QED BY <3>1, <3>2
  <2>2. TakeStream => StreamsOK'
        BY <1>b, <1>c DEF TakeStream, StreamsOK
  <2>3. SendStream => StreamsOK'
    <3> SUFFICES ASSUME SendStream PROVE StreamsOK'
        OBVIOUS
    <3>1. yielded \in Targets
          BY <1>b, <1>c DEF SendStream, FlowInv, PrefetchOK, Targets
    <3> QED BY <1>b, <1>c, <3>1 DEF SendStream, StreamsOK
  <2> QED BY <2>1, <2>2, <2>3 DEF PipeNext, pipeVars, Reject, Start, Prefetch, OpenFile, Yield, PrefetchEnds,
             SendStreamRefused, Task, StreamsEnd, ReadBatch, BatchFails,
             StreamRead, SendBatch, SendBatchRefused, SendFileError, SendOpenError, SendError, Iterator, NextItem,
             NextNone, DropIterator, PrefetchPanics, TaskPanics, PipeDone
<1>4. TaskOK'
  <2>1. task' \in {"none", "recv", "read", "batch", "error", "fatal", "done"} /\ UNCHANGED <<cur, pos>> => TaskOK'
        BY <1>a, <1>c DEF TaskOK
  <2>2. UNCHANGED taskVars => TaskOK'
        BY <1>c, <2>1 DEF TaskOK, taskVars
  <2>3. TakeStream => TaskOK'
    <3> SUFFICES ASSUME TakeStream PROVE TaskOK'
        OBVIOUS
    <3>1. Head(streams) \in Targets /\ size[Head(streams)] \in Nat
          BY <1>a, <1>c DEF TakeStream, StreamsOK
    <3> QED BY <1>a, <3>1 DEF TakeStream, TaskOK
  <2>4. SendBatch => TaskOK'
    <3> SUFFICES ASSUME SendBatch PROVE TaskOK'
        OBVIOUS
    <3>1. pos < size[cur]
          BY DEF SendBatch, FlowInv
    <3> QED BY <1>a, <1>c, <3>1 DEF SendBatch, TaskOK
  <2>5. Start \/ StreamsEnd \/ ReadBatch \/ BatchFails \/ StreamRead \/ SendBatchRefused \/ SendFileError
            \/ SendOpenError \/ TaskPanics => TaskOK'
        BY <2>1 DEF Start, StreamsEnd, ReadBatch, BatchFails, StreamRead, SendBatchRefused, SendFileError, SendOpenError,
                    SendError, TaskPanics
  <2> QED BY <2>2, <2>3, <2>4, <2>5 DEF PipeNext, pipeVars, Reject, Prefetch, OpenFile, Yield, PrefetchEnds, SendStream,
             SendStreamRefused, Task, Iterator, NextItem, NextNone, DropIterator, PrefetchPanics, PipeDone
<1> QED BY <1>a, <1>c, <1>1, <1>2, <1>3, <1>4, PipeTypePartsNext

-----------------------------------------------------------------------------
(* The files pass through the channel in order.                            *)

LEMMA FlowInit == PipeInit => FlowInv
BY DEF PipeInit, FlowInv, Taken

LEMMA FlowStep == PipeTypeOK /\ FlowInv /\ [PipeNext]_pipeVars => FlowInv'
<1> SUFFICES ASSUME PipeTypeOK, FlowInv, [PipeNext]_pipeVars PROVE FlowInv'
    OBVIOUS
<1>a. /\ size' = size /\ size \in [Targets -> Nat] /\ cur \in Targets /\ size[cur] \in Nat /\ pos \in 0 .. size[cur]
      /\ NumFiles \in Nat /\ yielded \in 0 .. NumFiles /\ streams \in Seq(Targets) /\ Len(streams) \in Nat
      /\ got \in Seq(Items)
      BY SizeStays, NumFilesAssumption, ShapesAssumption DEF PipeTypeOK
<1>1. ASSUME UNCHANGED <<fileVars, streams, taskVars, broken>>,
             reader' = reader \/ (reader # "none" /\ reader' # "none" /\ reader' # "open"), UNCHANGED batches \/ task # "none",
             reader' = "none" => UNCHANGED got
      PROVE  FlowInv'
      BY <1>a, <1>1 DEF FlowInv, Taken, fileVars, taskVars
<1>2. Reject => FlowInv'
      BY <1>a DEF Reject, FlowInv, Taken, fileVars, taskVars
<1>3. Start => FlowInv'
      BY <1>a DEF Start, FlowInv, Taken
<1>4. ASSUME NEW f \in Targets, NEW how, OpenFile(f, how) PROVE FlowInv'
      BY <1>a, <1>4 DEF OpenFile, Ahead, FlowInv, Taken, taskVars, readerVars
<1>5. Yield \/ PrefetchEnds \/ SendStreamRefused \/ PrefetchPanics => FlowInv'
  <2>1. Yield => FlowInv'
        BY <1>a DEF Yield, FlowInv, Taken, taskVars, readerVars
  <2>2. PrefetchEnds => FlowInv'
        BY <1>a DEF PrefetchEnds, FlowInv, Taken, taskVars, readerVars
  <2>3. SendStreamRefused => FlowInv'
        BY <1>a DEF SendStreamRefused, FlowInv, Taken, taskVars, readerVars
  <2>4. PrefetchPanics => FlowInv'
        BY <1>a DEF PrefetchPanics, FlowInv, Taken, taskVars, readerVars
  <2> QED BY <2>1, <2>2, <2>3, <2>4
<1>6. SendStream => FlowInv'
  <2> SUFFICES ASSUME SendStream PROVE FlowInv'
      OBVIOUS
  <2>1. Len(streams') = Len(streams) + 1 /\ Taken' = Taken
        BY <1>a DEF SendStream, Taken
  <2>2. \A i \in DOMAIN streams' : streams'[i] = Taken' + i
    <3>1. \A i \in 1 .. Len(streams) : streams'[i] = Taken + i
          BY <1>a DEF SendStream, FlowInv
    <3>2. streams'[Len(streams) + 1] = yielded /\ yielded = Taken + (Len(streams) + 1)
          BY <1>a DEF SendStream, Taken
    <3>3. DOMAIN streams' = 1 .. (Len(streams) + 1)
          BY <1>a DEF SendStream
    <3>4. \A i \in 1 .. (Len(streams) + 1) : i \in 1 .. Len(streams) \/ i = Len(streams) + 1
          BY <1>a
    <3>5. streams'[Len(streams) + 1] = Taken + (Len(streams) + 1)
          BY <3>2
    <3>6. \A i \in 1 .. (Len(streams) + 1) : streams'[i] = Taken + i
          BY <3>1, <3>4, <3>5, Zenon
    <3> QED BY <2>1, <3>3, <3>6
  <2> QED BY <1>a, <2>1, <2>2 DEF SendStream, FlowInv, taskVars, readerVars
<1>7. TakeStream => FlowInv'
  <2> SUFFICES ASSUME TakeStream PROVE FlowInv'
      OBVIOUS
  <2>1. Len(streams') = Len(streams) - 1 /\ Len(streams) >= 1 /\ DOMAIN streams' = 1 .. (Len(streams) - 1)
        BY <1>a DEF TakeStream
  <2>0. \A i \in 1 .. Len(streams) : streams[i] = Taken + i
        BY <1>a DEF FlowInv
  <2>2. Taken' = Taken + 1
        BY <1>a, <2>1 DEF TakeStream, Taken, fileVars
  <2>3. \A i \in DOMAIN streams' : streams'[i] = Taken' + i
    <3>1. \A i \in 1 .. (Len(streams) - 1) : streams'[i] = streams[i + 1]
          BY <1>a, <2>1 DEF TakeStream
    <3>2. Taken \in Nat
          BY DEF FlowInv
    <3>3. ASSUME NEW i \in 1 .. (Len(streams) - 1) PROVE streams'[i] = Taken + 1 + i
      <4>1. i + 1 \in 1 .. Len(streams)
            BY <1>a
      <4>2. streams[i + 1] = Taken + (i + 1)
            BY <2>0, <4>1
      <4> QED BY <3>1, <3>2, <4>2
    <3> QED BY <2>1, <2>2, <3>3
  <2>4. cur' = Taken'
    <3>1. streams[1] = Taken + 1
          BY <1>a, <2>0, <2>1
    <3>2. cur' = streams[1]
          BY DEF TakeStream
    <3> QED BY <2>2, <3>1, <3>2
  <2>5. Taken' \in Nat
        BY <2>2 DEF FlowInv
  <2>6. task' \in {"read", "fatal"} /\ task = "recv"
        BY DEF TakeStream
  <2> QED BY <1>a, <2>1, <2>3, <2>4, <2>5, <2>6 DEF TakeStream, FlowInv, fileVars, readerVars
<1>8. StreamsEnd \/ ReadBatch \/ BatchFails \/ StreamRead \/ SendBatchRefused \/ SendBatch \/ SendFileError => FlowInv'
  <2>1. StreamsEnd => FlowInv'
        BY <1>a DEF StreamsEnd, FlowInv, Taken, fileVars, readerVars
  <2>2. ReadBatch => FlowInv'
        BY <1>a DEF ReadBatch, FlowInv, Taken, fileVars, readerVars
  <2>3. BatchFails => FlowInv'
        BY <1>a DEF BatchFails, FlowInv, Taken, fileVars, readerVars
  <2>4. StreamRead => FlowInv'
        BY <1>a DEF StreamRead, FlowInv, Taken, fileVars, readerVars
  <2>5. SendBatchRefused => FlowInv'
        BY <1>a DEF SendBatchRefused, FlowInv, Taken, fileVars, readerVars
  <2>6. SendBatch => FlowInv'
        BY <1>a DEF SendBatch, FlowInv, Taken, fileVars, readerVars
  <2>7. SendFileError => FlowInv'
        BY <1>a DEF SendFileError, SendError, FlowInv, Taken, fileVars, readerVars
  <2> QED BY <2>1, <2>2, <2>3, <2>4, <2>5, <2>6, <2>7
<1>9. SendOpenError \/ TaskPanics => FlowInv'
      BY <1>a DEF SendOpenError, SendError, TaskPanics, FlowInv, Taken, fileVars, readerVars
<1>10. Iterator \/ DropIterator \/ PipeDone \/ UNCHANGED pipeVars => FlowInv'
       BY <1>a, <1>1 DEF Iterator, NextItem, NextNone, DropIterator, PipeDone, pipeVars, readerVars, FlowInv
<1> QED BY <1>2, <1>3, <1>4, <1>5, <1>6, <1>7, <1>8, <1>9, <1>10 DEF PipeNext, Prefetch, Task

-----------------------------------------------------------------------------
(* Opening ahead is bounded.                                               *)

LEMMA AheadInit == PipeInit => AheadInv
BY DEF PipeInit, AheadInv

LEMMA AheadStep == PipeTypeOK /\ AheadInv /\ [PipeNext]_pipeVars => AheadInv'
<1> SUFFICES ASSUME PipeTypeOK, AheadInv, [PipeNext]_pipeVars PROVE AheadInv'
    OBVIOUS
<1>a. NumFiles \in Nat /\ OpenAhead \in Nat \ {0} /\ yielded \in Nat /\ opened \in [Targets -> {"no", "ok", "err"}]
      BY NumFilesAssumption, CapAssumption DEF PipeTypeOK
<1>b. Targets = 1 .. NumFiles
      BY DEF Targets
<1>1. UNCHANGED <<opened, yielded>> /\ (prefetch' = prefetch \/ prefetch' # "send") => AheadInv'
      BY <1>a, <1>b DEF AheadInv
<1>2. ASSUME NEW f \in Targets, NEW how, OpenFile(f, how) PROVE AheadInv'
      BY <1>a, <1>b, <1>2 DEF OpenFile, Ahead, AheadInv
<1>3. Yield => AheadInv'
      BY <1>a, <1>b DEF Yield, AheadInv
<1> QED BY <1>1, <1>2, <1>3 DEF PipeNext, pipeVars, Reject, Start, Prefetch, PrefetchEnds, SendStream, SendStreamRefused,
             Task, TakeStream, StreamsEnd, ReadBatch, BatchFails, StreamRead, SendBatch, SendBatchRefused,
             SendFileError, SendOpenError, SendError, Iterator, NextItem, NextNone, DropIterator,
             PrefetchPanics, TaskPanics, PipeDone, fileVars

-----------------------------------------------------------------------------
(* The items follow one another as in a sequential scan.                   *)

LEMMA LastIs ==
    ASSUME PipeTypeOK
    PROVE  LastGot \in Items \cup {NoItem} /\ LastSent \in Items \cup {NoItem}
<1>1. got # <<>> => got[Len(got)] \in Items
      BY DEF PipeTypeOK
<1>2. batches # <<>> => batches[Len(batches)] \in Items
      BY DEF PipeTypeOK
<1> QED BY <1>1, <1>2 DEF LastGot, LastSent

\* what sending an item and taking one off the channel do to the two ends
LEMMA LastOfAppend ==
    ASSUME NEW S, NEW s \in Seq(S), NEW e \in S
    PROVE  /\ Append(s, e) # <<>> /\ Len(Append(s, e)) = Len(s) + 1 /\ Append(s, e)[Len(s) + 1] = e
           /\ \A i \in 1 .. Len(s) : Append(s, e)[i] = s[i]
OBVIOUS

LEMMA LastOfTail ==
    ASSUME NEW S, NEW s \in Seq(S), s # <<>>
    PROVE  /\ Len(s) \in Nat \ {0} /\ Len(Tail(s)) = Len(s) - 1 /\ Head(s) = s[1] /\ Head(s) \in S
           /\ \A i \in 1 .. Len(s) - 1 : Tail(s)[i] = s[i + 1]
           /\ Tail(s) = <<>> <=> Len(s) = 1
<1>1. /\ Len(s) \in Nat \ {0} /\ Tail(s) \in Seq(S) /\ Len(Tail(s)) = Len(s) - 1
      /\ Head(s) = s[1] /\ Head(s) \in S
      OBVIOUS
<1>2. \A i \in 1 .. Len(s) - 1 : Tail(s)[i] = s[i + 1]
      BY <1>1
<1>3. Tail(s) = <<>> <=> Len(Tail(s)) = 0
      BY <1>1, EmptySeq
<1> QED BY <1>1, <1>2, <1>3

LEMMA LastSentAfter ==
    ASSUME PipeTypeOK, NEW item \in Items, batches' = Append(batches, item), UNCHANGED got
    PROVE  LastSent' = item /\ LastGot' = LastGot
<1>1. batches' # <<>> /\ batches'[Len(batches')] = item
      BY LastOfAppend DEF PipeTypeOK
<1> QED BY <1>1 DEF LastSent, LastGot

LEMMA LastSentTaken ==
    ASSUME PipeTypeOK, NextItem
    PROVE  LastSent' = LastSent /\ LastGot' = batches[1]
<1>a. batches \in Seq(Items) /\ got \in Seq(Items) /\ batches # <<>>
      BY DEF PipeTypeOK, NextItem
<1>b. /\ Len(batches) \in Nat \ {0} /\ Len(Tail(batches)) = Len(batches) - 1
      /\ Head(batches) = batches[1] /\ Head(batches) \in Items
      /\ \A i \in 1 .. Len(batches) - 1 : Tail(batches)[i] = batches[i + 1]
      /\ Tail(batches) = <<>> <=> Len(batches) = 1
      BY <1>a, LastOfTail
<1>1. LastGot' = batches[1]
  <2>1. got' = Append(got, batches[1])
        BY <1>b DEF NextItem
  <2>2. got' # <<>> /\ Len(got') = Len(got) + 1 /\ got'[Len(got) + 1] = batches[1]
        BY <1>a, <1>b, <2>1, LastOfAppend
  <2> QED BY <2>2 DEF LastGot
<1>2. CASE Len(batches) = 1
  <2>1. batches' = <<>>
        BY <1>b, <1>2 DEF NextItem
  <2>2. LastSent' = batches[1]
        BY <1>1, <2>1 DEF LastSent
  <2> QED BY <1>1, <1>2, <1>a, <2>2 DEF LastSent
<1>3. CASE Len(batches) # 1
  <2>1. batches' # <<>> /\ Len(batches') = Len(batches) - 1
        BY <1>b, <1>3 DEF NextItem
  <2>2. batches'[Len(batches) - 1] = batches[Len(batches)]
    <3>1. Len(batches) - 1 \in 1 .. Len(batches) - 1 /\ (Len(batches) - 1) + 1 = Len(batches)
          BY <1>b, <1>3
    <3>2. Tail(batches)[Len(batches) - 1] = batches[(Len(batches) - 1) + 1]
          BY <1>b, <3>1
    <3> QED BY <3>1, <3>2 DEF NextItem
  <2> QED BY <1>1, <1>a, <2>1, <2>2 DEF LastSent
<1> QED BY <1>2, <1>3

LEMMA LastSentStays == UNCHANGED <<batches, got>> => LastSent' = LastSent /\ LastGot' = LastGot
BY DEF LastSent, LastGot

\* the scan goes on behind a file that has nothing to give
LEMMA ReachedOn ==
    ASSUME NEW z \in [Targets -> Nat], NEW f \in Targets, NEW l \in Items \cup {NoItem},
           size = z, Inside(z, l, f, z[f])
    PROVE  Reached(z, l, f + 1)
<1>a. f \in Nat \ {0} /\ z[f] \in Nat
      BY NumFilesAssumption DEF Targets
<1>b. l = NoItem \/ (l.file \in Nat /\ l.kind \in {"batch", "error", "fatal"})
      BY ItemIs, NumFilesAssumption DEF Targets
<1>1. CASE z[f] = 0
      BY <1>a, <1>b, <1>1 DEF Inside, Reached, NoItem
<1>2. CASE z[f] # 0
      BY <1>a, <1>2 DEF Inside, Reached, Batch
<1> QED BY <1>1, <1>2

LEMMA NextBatchFollows ==
    ASSUME NEW z \in [Targets -> Nat], NEW f \in Targets, NEW l, NEW p \in Nat, Inside(z, l, f, p), p < z[f]
    PROVE  Follows(z, l, Batch(f, p + 1)) /\ Follows(z, l, Error(f))
BY DEF Follows, Inside, Batch, Error

LEMMA FatalFollows ==
    ASSUME NEW z, NEW f, NEW l, Reached(z, l, f)
    PROVE  Follows(z, l, Fatal(f))
BY DEF Follows, Fatal

LEMMA ChainInit == PipeInit => ChainInv
BY DEF PipeInit, ChainInv

LEMMA ChainSend ==
    ASSUME PipeTypeOK, ChainInv, NEW item \in Items, Follows(size, LastSent, item),
           batches' = Append(batches, item), UNCHANGED <<size, got>>
    PROVE  ChainInv'
<1>a. batches \in Seq(Items) /\ Len(batches) \in Nat
      BY DEF PipeTypeOK
<1>b. /\ batches' # <<>> /\ Len(batches') = Len(batches) + 1 /\ batches'[Len(batches) + 1] = item
      /\ \A i \in 1 .. Len(batches) : batches'[i] = batches[i]
      BY <1>a, LastOfAppend
<1>c. LastGot' = LastGot /\ size' = size
      BY LastSentAfter
<1>1. CASE batches = <<>>
  <2>1. LastSent = LastGot /\ Len(batches) = 0
        BY <1>1 DEF LastSent
  <2>2. batches'[1] = item /\ Len(batches') = 1
        BY <1>b, <2>1
  <2>3. Follows(size', LastGot', batches'[1])
        BY <1>c, <2>1, <2>2
  <2> QED BY <2>2, <2>3 DEF ChainInv
<1>2. CASE batches # <<>>
  <2>1. Len(batches) >= 1 /\ LastSent = batches[Len(batches)]
        BY <1>a, <1>2, EmptySeq DEF LastSent
  <2>2. Follows(size', LastGot', batches'[1])
    <3>1. batches'[1] = batches[1]
          BY <1>a, <1>b, <2>1
    <3> QED BY <1>2, <1>c, <3>1 DEF ChainInv
  <2>3. ASSUME NEW i \in 1 .. Len(batches') - 1 PROVE Follows(size', batches'[i], batches'[i + 1])
    <3>a. i \in 1 .. Len(batches) /\ batches'[i] = batches[i]
          BY <1>a, <1>b
    <3>1. CASE i = Len(batches)
          BY <1>b, <1>c, <2>1, <3>a, <3>1
    <3>2. CASE i # Len(batches)
      <4>1. i \in 1 .. Len(batches) - 1 /\ i + 1 \in 1 .. Len(batches)
            BY <1>a, <3>a, <3>2
      <4>2. batches'[i + 1] = batches[i + 1]
            BY <1>b, <4>1
      <4>3. Follows(size, batches[i], batches[i + 1])
            BY <4>1 DEF ChainInv
      <4> QED BY <1>c, <3>a, <4>2, <4>3
    <3> QED BY <3>1, <3>2
  <2>4. \A i \in 1 .. Len(batches') - 1 : Follows(size', batches'[i], batches'[i + 1])
        BY <2>3
  <2> QED BY <2>2, <2>4 DEF ChainInv
<1> QED BY <1>1, <1>2

LEMMA ChainTake ==
    ASSUME PipeTypeOK, ChainInv, NextItem
    PROVE  ChainInv'
<1>a. batches \in Seq(Items) /\ batches # <<>> /\ batches' = Tail(batches) /\ size' = size
      BY DEF PipeTypeOK, NextItem
<1>b. /\ Len(batches) \in Nat \ {0} /\ Len(batches') = Len(batches) - 1
      /\ \A i \in 1 .. Len(batches) - 1 : batches'[i] = batches[i + 1]
      /\ batches' = <<>> <=> Len(batches) = 1
      BY <1>a, LastOfTail
<1>c. \A i \in 1 .. Len(batches) - 1 : Follows(size, batches[i], batches[i + 1])
      BY DEF ChainInv
<1>d. LastGot' = batches[1]
      BY LastSentTaken
<1>1. batches' # <<>> => Follows(size', LastGot', batches'[1])
  <2> SUFFICES ASSUME batches' # <<>> PROVE Follows(size', LastGot', batches'[1])
      OBVIOUS
  <2>1. 1 \in 1 .. Len(batches) - 1 /\ 1 + 1 = 2
        BY <1>b
  <2>2. batches'[1] = batches[2] /\ Follows(size, batches[1], batches[2])
        BY <1>b, <1>c, <2>1
  <2> QED BY <1>a, <1>d, <2>2
<1>2. ASSUME NEW i \in 1 .. Len(batches') - 1 PROVE Follows(size', batches'[i], batches'[i + 1])
  <2>1. i \in 1 .. Len(batches) - 1 /\ i + 1 \in 1 .. Len(batches) - 1
        BY <1>b
  <2>2. batches'[i] = batches[i + 1] /\ batches'[i + 1] = batches[(i + 1) + 1]
        BY <1>b, <2>1
  <2>3. Follows(size, batches[i + 1], batches[(i + 1) + 1])
        BY <1>c, <2>1
  <2> QED BY <1>a, <2>2, <2>3
<1>3. \A i \in 1 .. Len(batches') - 1 : Follows(size', batches'[i], batches'[i + 1])
      BY <1>2
<1> QED BY <1>1, <1>3 DEF ChainInv

LEMMA ChainStays == UNCHANGED <<size, batches, got>> /\ ChainInv => ChainInv'
<1> SUFFICES ASSUME UNCHANGED <<size, batches, got>>, ChainInv PROVE ChainInv'
    OBVIOUS
<1>1. size' = size /\ batches' = batches /\ LastGot' = LastGot
      BY LastSentStays
<1> QED BY <1>1 DEF ChainInv

\* what the scan task sends, it sends next
LEMMA SendsFollow ==
    ASSUME PipeTypeOK, FlowInv, SenderInv, reader = "open"
    PROVE  /\ SendBatch => Batch(cur, pos + 1) \in Items /\ Follows(size, LastSent, Batch(cur, pos + 1))
           /\ SendFileError => Error(cur) \in Items /\ Follows(size, LastSent, Error(cur))
           /\ SendOpenError => Fatal(cur) \in Items /\ Follows(size, LastSent, Fatal(cur))
<1>a. cur \in Targets /\ size \in [Targets -> Nat] /\ pos \in Nat
      BY ShapesAssumption DEF PipeTypeOK
<1>1. ASSUME task \in {"batch", "error"}
      PROVE  /\ Batch(cur, pos + 1) \in Items /\ Error(cur) \in Items
             /\ Follows(size, LastSent, Batch(cur, pos + 1)) /\ Follows(size, LastSent, Error(cur))
  <2>1. pos < size[cur] /\ Inside(size, LastSent, cur, pos)
        BY <1>1 DEF FlowInv, SenderInv
  <2> QED BY <1>a, <2>1, ItemsAre, NextBatchFollows
<1>2. SendOpenError => Fatal(cur) \in Items /\ Follows(size, LastSent, Fatal(cur))
      BY <1>a, ItemsAre, FatalFollows DEF SendOpenError, SenderInv
<1> QED BY <1>1, <1>2 DEF SendBatch, SendFileError

LEMMA ChainStep ==
    PipeTypeOK /\ FlowInv /\ ChainInv /\ SenderInv /\ [PipeNext]_pipeVars => ChainInv'
<1> SUFFICES ASSUME PipeTypeOK, FlowInv, ChainInv, SenderInv, [PipeNext]_pipeVars PROVE ChainInv'
    OBVIOUS
<1>1. NextItem => ChainInv'
      BY ChainTake
<1>2. DropIterator => ChainInv'
  <2> SUFFICES ASSUME DropIterator PROVE ChainInv'
      OBVIOUS
  <2>1. batches' = <<>>
        BY DEF DropIterator
  <2> QED BY <2>1 DEF ChainInv
<1>3. SendBatch \/ SendFileError \/ SendOpenError => ChainInv'
  <2>1. SendBatch => ChainInv'
        BY SendsFollow, ChainSend DEF SendBatch, readerVars
  <2>2. SendFileError => ChainInv'
        BY SendsFollow, ChainSend, ChainStays DEF SendFileError, SendError, readerVars
  <2>3. SendOpenError => ChainInv'
        BY SendsFollow, ChainSend, ChainStays DEF SendOpenError, SendError, readerVars
  <2> QED BY <2>1, <2>2, <2>3
<1>4. UNCHANGED <<size, batches, got>> => ChainInv'
      BY ChainStays
<1> QED BY <1>1, <1>2, <1>3, <1>4 DEF PipeNext, pipeVars, Reject, Start, Prefetch, OpenFile, Yield, PrefetchEnds,
             SendStream, SendStreamRefused, Task, TakeStream, StreamsEnd, ReadBatch, BatchFails, StreamRead,
             SendBatchRefused, Iterator, NextNone, PrefetchPanics, TaskPanics, PipeDone, readerVars

-----------------------------------------------------------------------------
(* The scan task is where the last item it sent left it.                   *)

LEMMA SenderInit == PipeInit => SenderInv
BY DEF PipeInit, SenderInv

LEMMA SenderStep ==
    PipeTypeOK /\ FlowInv /\ SenderInv /\ [PipeNext]_pipeVars => SenderInv'
<1> SUFFICES ASSUME PipeTypeOK, FlowInv, SenderInv, [PipeNext]_pipeVars PROVE SenderInv'
    OBVIOUS
<1>a. /\ size' = size /\ size \in [Targets -> Nat] /\ cur \in Targets /\ size[cur] \in Nat /\ pos \in 0 .. size[cur]
      /\ pos \in Nat /\ NumFiles \in Nat
      BY SizeStays, NumFilesAssumption, ShapesAssumption DEF PipeTypeOK
<1>b. LastSent \in Items \cup {NoItem}
      BY LastIs
<1>c. Taken \in Nat /\ (task \in {"read", "batch", "error", "fatal"} => cur = Taken)
      BY DEF FlowInv
<1>1. ASSUME reader' = "open" => reader = "open", LastSent' = LastSent, UNCHANGED <<taskVars, broken>>,
             task = "recv" => Taken' = Taken
      PROVE  SenderInv'
      BY <1>a, <1>1 DEF SenderInv, taskVars
<1>2. Start => SenderInv'
  <2> SUFFICES ASSUME Start PROVE SenderInv'
      OBVIOUS
  <2>1. LastSent' = NoItem /\ task' = "recv" /\ Taken' = 0
    <3>1. batches = <<>> /\ got = <<>> /\ yielded = 0 /\ streams = <<>>
          BY DEF Start, FlowInv
    <3>2. UNCHANGED <<batches, got, yielded, streams>> /\ prefetch' = "poll"
          BY DEF Start
    <3>3. LastSent' = LastSent /\ LastSent = NoItem
          BY <3>1, <3>2, LastSentStays DEF LastSent, LastGot
    <3>4. yielded' = 0 /\ prefetch' = "poll"
          BY <3>1, <3>2
    <3>5. Len(streams') = 0
          BY <3>1, <3>2
    <3>6. Taken' = 0
          BY <3>4, <3>5 DEF Taken
    <3> QED BY <3>3, <3>6 DEF Start
  <2>2. Reached(size', NoItem, 1)
        BY <1>a DEF Reached, NoItem
  <2> QED BY <2>1, <2>2 DEF SenderInv
<1>3. Prefetch \/ PrefetchPanics => SenderInv'
  <2> SUFFICES ASSUME Prefetch \/ PrefetchPanics PROVE SenderInv'
      OBVIOUS
  <2>1. UNCHANGED <<reader, taskVars, batches, got>>
        BY DEF Prefetch, OpenFile, Yield, PrefetchEnds, SendStream, SendStreamRefused, PrefetchPanics, readerVars, taskVars
  <2>2. LastSent' = LastSent
        BY <2>1, LastSentStays
  <2>3. task = "recv" => Taken' = Taken
    <3>1. streams \in Seq(Targets) /\ Len(streams) \in Nat /\ yielded \in Nat
          BY DEF PipeTypeOK
    <3>2. (\E f \in Targets : OpenFile(f, "ok") \/ OpenFile(f, "err")) => Taken' = Taken
          BY DEF OpenFile, Taken
    <3>3. Yield \/ PrefetchEnds \/ PrefetchPanics => Taken' = Taken
          BY <3>1 DEF Yield, PrefetchEnds, PrefetchPanics, Taken
    <3>4. SendStream => Taken' = Taken
      <4> SUFFICES ASSUME SendStream PROVE Taken' = Taken
          OBVIOUS
      <4>1. Len(streams') = Len(streams) + 1
            BY <3>1 DEF SendStream
      <4> QED BY <3>1, <4>1 DEF SendStream, Taken
    <3>5. SendStreamRefused => task # "recv"
          BY DEF SendStreamRefused
    <3> QED BY <3>2, <3>3, <3>4, <3>5 DEF Prefetch
  <2>4. broken' = broken \/ broken'
        BY DEF Prefetch, OpenFile, Yield, PrefetchEnds, SendStream, SendStreamRefused, PrefetchPanics
  <2> QED BY <1>a, <2>1, <2>2, <2>3, <2>4 DEF SenderInv, taskVars
<1>4. TakeStream => SenderInv'
  <2> SUFFICES ASSUME TakeStream PROVE SenderInv'
      OBVIOUS
  <2>1. LastSent' = LastSent
        BY LastSentStays DEF TakeStream, readerVars
  <2>2. cur' = Taken + 1
        BY DEF TakeStream, FlowInv, PipeTypeOK
  <2>3. reader = "open" => Reached(size', LastSent', cur')
        BY <1>a, <2>1, <2>2 DEF TakeStream, SenderInv
  <2>4. Inside(size', LastSent', cur', pos') <=> Reached(size', LastSent', cur')
        BY DEF TakeStream, Inside
  <2> QED BY <2>3, <2>4 DEF TakeStream, SenderInv, readerVars
<1>5. StreamsEnd => SenderInv'
  <2> SUFFICES ASSUME StreamsEnd PROVE SenderInv'
      OBVIOUS
  <2>1. LastSent' = LastSent
        BY LastSentStays DEF StreamsEnd, readerVars
  <2>2. ~broken => Taken = NumFiles
        BY <1>a DEF StreamsEnd, FlowInv, Taken
  <2> QED BY <1>a, <2>1, <2>2 DEF StreamsEnd, SenderInv, readerVars
<1>6. ReadBatch => SenderInv'
  <2> SUFFICES ASSUME ReadBatch PROVE SenderInv'
      OBVIOUS
  <2>1. LastSent' = LastSent
        BY LastSentStays DEF ReadBatch, readerVars
  <2> QED BY <1>a, <2>1 DEF ReadBatch, SenderInv, readerVars
<1>7. BatchFails => SenderInv'
  <2> SUFFICES ASSUME BatchFails PROVE SenderInv'
      OBVIOUS
  <2>1. LastSent' = LastSent
        BY LastSentStays DEF BatchFails, readerVars
  <2> QED BY <1>a, <2>1 DEF BatchFails, SenderInv, readerVars
<1>8. StreamRead => SenderInv'
  <2> SUFFICES ASSUME StreamRead PROVE SenderInv'
      OBVIOUS
  <2>1. LastSent' = LastSent /\ Taken' = Taken
        BY LastSentStays DEF StreamRead, readerVars, fileVars, Taken
  <2>2. reader = "open" => Reached(size, LastSent, cur + 1)
        BY <1>a, <1>b, ReachedOn DEF StreamRead, SenderInv
  <2> QED BY <1>a, <1>c, <2>1, <2>2 DEF StreamRead, SenderInv, readerVars
<1>9. SendBatch => SenderInv'
  <2> SUFFICES ASSUME SendBatch PROVE SenderInv'
      OBVIOUS
  <2>1. LastSent' = Batch(cur, pos + 1)
        BY SendsFollow, LastSentAfter DEF SendBatch, readerVars
  <2>2. Inside(size', LastSent', cur', pos')
        BY <1>a, <2>1 DEF SendBatch, Inside
  <2> QED BY <2>2 DEF SendBatch, SenderInv, readerVars
<1>10. SendBatchRefused => SenderInv'
       BY DEF SendBatchRefused, SenderInv, readerVars
<1>11. SendFileError => SenderInv'
  <2> SUFFICES ASSUME SendFileError, reader = "open" PROVE SenderInv'
      BY DEF SendFileError, SendError, SenderInv, readerVars
  <2>1. LastSent' = Error(cur)
        BY SendsFollow, LastSentAfter DEF SendFileError, SendError, readerVars
  <2>2. Taken' = Taken /\ cur = Taken /\ task' = "recv"
        BY <1>c DEF SendFileError, SendError, fileVars, Taken
  <2>3. Reached(size', LastSent', Taken' + 1)
    <3>1. cur \in Nat
          BY <1>a, NumFilesAssumption DEF Targets
    <3> QED BY <3>1, <2>1, <2>2 DEF Reached, Error
  <2> QED BY <2>2, <2>3 DEF SenderInv
<1>12. SendOpenError => SenderInv'
  <2> SUFFICES ASSUME SendOpenError, reader = "open" PROVE SenderInv'
      BY DEF SendOpenError, SendError, SenderInv, readerVars
  <2>1. LastSent' = Fatal(cur)
        BY SendsFollow, LastSentAfter DEF SendOpenError, SendError, readerVars
  <2> QED BY <2>1 DEF SendOpenError, SendError, SenderInv, Fatal
<1>13. NextItem => SenderInv'
  <2> SUFFICES ASSUME NextItem PROVE SenderInv'
      OBVIOUS
  <2>1. LastSent' = LastSent
        BY LastSentTaken
  <2>2. UNCHANGED <<reader, taskVars, broken>> /\ Taken' = Taken
        BY DEF NextItem, fileVars, Taken
  <2> QED BY <1>1, <2>1, <2>2
<1>14. Reject \/ NextNone \/ DropIterator => SenderInv'
       BY DEF Reject, NextNone, DropIterator, SenderInv
<1>15. TaskPanics => SenderInv'
       BY DEF TaskPanics, SenderInv
<1>16. PipeDone \/ UNCHANGED pipeVars => SenderInv'
  <2> SUFFICES ASSUME UNCHANGED pipeVars PROVE SenderInv'
      BY DEF PipeDone
  <2>1. LastSent' = LastSent
        BY LastSentStays DEF pipeVars, readerVars
  <2>2. UNCHANGED <<reader, taskVars, broken>> /\ Taken' = Taken
        BY DEF pipeVars, readerVars, fileVars, Taken
  <2> QED BY <1>1, <2>1, <2>2
<1> QED BY <1>2, <1>3, <1>4, <1>5, <1>6, <1>7, <1>8, <1>9, <1>10, <1>11, <1>12, <1>13, <1>14, <1>15, <1>16
        DEF PipeNext, Task, Iterator

LEMMA PipeInitially == PipeInit => PipeIInv
BY PipeTypeInit, FlowInit, AheadInit, ChainInit, SenderInit DEF PipeIInv

LEMMA PipeInductive == PipeIInv /\ [PipeNext]_pipeVars => PipeIInv'
BY PipeTypeStep, FlowStep, AheadStep, ChainStep, SenderStep DEF PipeIInv

LEMMA PipeInvariance == PipeSpec => []PipeIInv
BY PipeInitially, PipeInductive, PTL DEF PipeSpec

\* The counters, channels and tasks of a scan keep their types: whatever the
\* files and however the tasks and the caller interleave, both channels stay
\* within their capacities and the task within the file it reads.
THEOREM PipeTypeCorrect == PipeSpec => []PipeTypeOK
<1>1. PipeIInv => PipeTypeOK
      BY DEF PipeIInv
<1> QED BY <1>1, PipeInvariance, PTL

-----------------------------------------------------------------------------
(* Open files.                                                             *)

\* Prefetching holds at most OpenAhead streams of its own, the channel at most
\* StreamCap and the scan task one, however slow the caller is, for every
\* number of files and every choice of the three limits.
THEOREM FilesBounded == PipeSpec => []BoundedOpenFiles
<1>1. PipeIInv => BoundedOpenFiles
  <2> SUFFICES ASSUME PipeIInv PROVE BoundedOpenFiles
      OBVIOUS
  <2>a. /\ yielded \in Nat /\ streams \in Seq(Targets) /\ Len(streams) \in Nat /\ Len(streams) <= StreamCap
        /\ OpenAhead \in Nat \ {0} /\ StreamCap \in Nat \ {0} /\ NumFiles \in Nat
        BY NumFilesAssumption, CapAssumption DEF PipeIInv, PipeTypeOK
  <2>b. Targets = 1 .. NumFiles /\ AheadInv /\ FlowInv /\ Taken \in Nat
        BY DEF Targets, PipeIInv, FlowInv
  <2> DEFINE F == {f \in Targets : opened[f] = "ok" /\ prefetch # "done"
                                      /\ (f > yielded \/ (f = yielded /\ prefetch = "send"))}
             S == {f \in Targets : \E i \in DOMAIN streams : streams[i] = f}
             R == IF task \in {"read", "batch", "error"} THEN {cur} ELSE {}
             low == IF prefetch = "send" THEN yielded ELSE yielded + 1
  <2>1. OpenFiles = (F \cup S) \cup R
        BY DEF OpenFiles
  <2>2. IsFiniteSet(F) /\ Cardinality(F) <= OpenAhead
    <3>1. F \subseteq low .. low + OpenAhead - 1
          BY <2>a, <2>b DEF AheadInv
    <3>2. low \in Int /\ low + OpenAhead - 1 \in Int /\ ~(low > low + OpenAhead - 1)
              /\ (low + OpenAhead - 1) - low + 1 = OpenAhead
          BY <2>a
    <3> HIDE DEF F, low
    <3>3. IsFiniteSet(low .. low + OpenAhead - 1) /\ Cardinality(low .. low + OpenAhead - 1) = OpenAhead
          BY <3>2, FS_Interval
    <3> QED BY <3>1, <3>3, FS_Subset
  <2>3. IsFiniteSet(S) /\ Cardinality(S) <= StreamCap
    <3>1. S \subseteq Taken + 1 .. Taken + Len(streams)
      <4> SUFFICES ASSUME NEW i \in DOMAIN streams PROVE streams[i] \in Taken + 1 .. Taken + Len(streams)
          OBVIOUS
      <4>1. i \in 1 .. Len(streams) /\ streams[i] = Taken + i
            BY <2>a, <2>b DEF FlowInv
      <4> QED BY <2>a, <2>b, <4>1
    <3> DEFINE first == Taken + 1
               last == Taken + Len(streams)
               interval == first .. last
    <3>2. first \in Int /\ last \in Int /\ (first <= last => last - first + 1 <= StreamCap)
          BY <2>a, <2>b
    <3> HIDE DEF S, first, last
    <3>3. IsFiniteSet(interval) /\ Cardinality(interval) <= StreamCap
      <4>1. IsFiniteSet(interval) /\ Cardinality(interval) = IF first > last THEN 0 ELSE last - first + 1
            BY <3>2, FS_Interval
      <4> QED BY <2>a, <3>2, <4>1
    <3>4. IsFiniteSet(S) /\ Cardinality(S) <= Cardinality(interval)
      <4>1. S \subseteq interval
            BY <3>1 DEF first, last
      <4> HIDE DEF interval
      <4> QED BY <3>3, <4>1, FS_Subset
    <3>5. Cardinality(S) \in Nat /\ Cardinality(interval) \in Nat
          BY <3>3, <3>4, FS_CardinalityType
    <3> QED BY <2>a, <3>3, <3>4, <3>5
  <2>4. IsFiniteSet(R) /\ Cardinality(R) <= 1
        BY FS_EmptySet, FS_Singleton
  <2> HIDE DEF F, S, R
  <2>5. \A A, B : IsFiniteSet(A) /\ IsFiniteSet(B) =>
            IsFiniteSet(A \cup B) /\ Cardinality(A \cup B) <= Cardinality(A) + Cardinality(B)
    <3> SUFFICES ASSUME NEW A, NEW B, IsFiniteSet(A), IsFiniteSet(B)
                 PROVE  IsFiniteSet(A \cup B) /\ Cardinality(A \cup B) <= Cardinality(A) + Cardinality(B)
        OBVIOUS
    <3>1. /\ IsFiniteSet(A \cup B)
          /\ Cardinality(A \cup B) = Cardinality(A) + Cardinality(B) - Cardinality(A \cap B)
          BY FS_Union
    <3>2. IsFiniteSet(A \cap B)
          BY FS_Subset
    <3>3. Cardinality(A) \in Nat /\ Cardinality(B) \in Nat /\ Cardinality(A \cap B) \in Nat
          BY <3>2, FS_CardinalityType
    <3> QED BY <3>1, <3>3
  <2>6. IsFiniteSet(F \cup S) /\ Cardinality(F \cup S) <= Cardinality(F) + Cardinality(S)
        BY <2>2, <2>3, <2>5
  <2>7. IsFiniteSet(OpenFiles) /\ Cardinality(OpenFiles) <= Cardinality(F \cup S) + Cardinality(R)
        BY <2>1, <2>4, <2>5, <2>6
  <2>8. Cardinality(F) \in Nat /\ Cardinality(S) \in Nat /\ Cardinality(R) \in Nat /\ Cardinality(F \cup S) \in Nat
            /\ Cardinality(OpenFiles) \in Nat
        BY <2>2, <2>3, <2>4, <2>6, <2>7, FS_CardinalityType
  <2> QED BY <2>a, <2>2, <2>3, <2>4, <2>6, <2>7, <2>8 DEF BoundedOpenFiles
<1> QED BY <1>1, PipeInvariance, PTL

-----------------------------------------------------------------------------
(* The sequential scan.                                                    *)

LEMMA LastItem ==
    ASSUME PipeTypeOK
    PROVE  /\ size \in [Targets -> Nat]
           /\ LastGot = NoItem \/ LastGot \in Items
           /\ got = <<>> <=> LastGot = NoItem
           /\ got # <<>> => got[Len(got)] = LastGot
           /\ \A kind \in {"batch", "error", "fatal"} : SR!Yielded(kind) <=> LastGot.kind = kind
           /\ SR!File = IF LastGot = NoItem THEN 1 ELSE LastGot.file
<1>1. size \in [Targets -> Nat] /\ (LastGot = NoItem \/ LastGot \in Items)
      BY ShapesAssumption, LastIs DEF PipeTypeOK
<1>2. got # <<>> => got[Len(got)] = LastGot /\ LastGot \in Items
      BY DEF PipeTypeOK, LastGot
<1>3. LastGot \in Items => LastGot # NoItem
      BY ItemIs DEF NoItem
<1>4. got = <<>> <=> LastGot = NoItem
      BY <1>2, <1>3 DEF LastGot
<1>5. NoItem.kind = "none"
      BY DEF NoItem
<1>6. \A kind \in {"batch", "error", "fatal"} : SR!Yielded(kind) <=> LastGot.kind = kind
      BY <1>2, <1>4, <1>5 DEF SR!Yielded
<1>7. SR!File = IF LastGot = NoItem THEN 1 ELSE LastGot.file
      BY <1>2, <1>4 DEF SR!File
<1> QED BY <1>1, <1>2, <1>4, <1>6, <1>7

LEMMA ReachedSkips ==
    ASSUME PipeTypeOK, NEW f \in Nat \ {0}, Reached(size, LastGot, f)
    PROVE  /\ ~SR!Yielded("fatal")
           /\ got # <<>> \/ f > 1 => f > SR!File /\ SR!Skipped(f)
<1>a. /\ size \in [Targets -> Nat] /\ (LastGot = NoItem \/ LastGot \in Items)
      /\ got = <<>> <=> LastGot = NoItem
      /\ got # <<>> => got[Len(got)] = LastGot
      /\ \A kind \in {"batch", "error", "fatal"} : SR!Yielded(kind) <=> LastGot.kind = kind
      /\ SR!File = IF LastGot = NoItem THEN 1 ELSE LastGot.file
      BY LastItem
<1>b. 1 \in Targets
      BY NumFilesAssumption DEF Targets
<1>1. ~SR!Yielded("fatal")
      BY <1>a DEF Reached
<1>2. CASE LastGot = NoItem
  <2>1. \A g \in 1 .. f - 1 : size[g] = 0
        BY <1>2 DEF Reached, NoItem
  <2>2. SR!File = 1 /\ SR!Behind = 0
    <3>1. ~SR!Yielded("batch")
          BY <1>a, <1>2 DEF NoItem
    <3> QED BY <1>a, <1>2, <3>1 DEF SR!Behind
  <2>3. f > 1 => size[1] = 0 /\ \A g \in 1 + 1 .. f - 1 : size[g] = 0
        BY <2>1
  <2> QED BY <1>a, <1>1, <1>2, <2>2, <2>3 DEF SR!Skipped
<1>3. CASE LastGot \in Items
  <2>1. /\ LastGot.file \in Targets /\ LastGot.kind \in {"batch", "error", "fatal"} /\ LastGot.kind # "fatal"
        /\ LastGot.file < f
        /\ LastGot.kind = "batch" => LastGot.number = size[LastGot.file]
        /\ \A g \in LastGot.file + 1 .. f - 1 : size[g] = 0
        BY <1>3, ItemIs DEF Reached
  <2>2. LastGot # NoItem /\ got # <<>>
        BY <1>a, <2>1 DEF NoItem
  <2>3. SR!File = LastGot.file /\ SR!Behind = size[LastGot.file]
        BY <1>a, <2>1, <2>2 DEF SR!Behind
  <2> QED BY <1>1, <2>1, <2>3 DEF SR!Skipped
<1> QED BY <1>a, <1>2, <1>3

LEMMA FollowsMayYield ==
    ASSUME PipeTypeOK, NEW item \in Items, Follows(size, LastGot, item)
    PROVE  SR!MayYield(item)
<1>a. item.file \in Nat \ {0} /\ item.kind \in {"batch", "error", "fatal"}
      BY ItemIs, NumFilesAssumption DEF Targets
<1>1. CASE Reached(size, LastGot, item.file) /\ (item.kind = "batch" => item.number = 1)
  <2>1. SR!Fresh(item.file) /\ ~SR!Yielded("fatal")
    <3>1. item.file = 1 \/ item.file > 1
          BY <1>a
    <3> QED BY <1>a, <1>1, <3>1, ReachedSkips DEF SR!Fresh, SR!Later
  <2> QED BY <1>1, <2>1 DEF SR!MayYield, Follows
<1>2. CASE /\ LastGot.kind = "batch" /\ LastGot.file = item.file /\ LastGot.number < size[LastGot.file]
           /\ item.kind # "fatal"
           /\ item.kind = "batch" => item.number = LastGot.number + 1
  <2>1. SR!Yielded("batch") /\ ~SR!Yielded("fatal") /\ LastGot # NoItem /\ got # <<>> /\ SR!File = item.file
            /\ got[Len(got)] = LastGot
        BY <1>2, LastItem DEF NoItem
  <2>2. SR!Behind = LastGot.number
        BY <2>1 DEF SR!Behind
  <2> QED BY <1>2, <2>1, <2>2 DEF SR!MayYield, SR!Same, Follows
<1> QED BY <1>1, <1>2 DEF Follows

LEMMA NextItemYields == PipeIInv /\ NextItem => SR!Yield
<1> SUFFICES ASSUME PipeIInv, NextItem PROVE SR!Yield
    OBVIOUS
<1>a. PipeTypeOK /\ ChainInv
      BY DEF PipeIInv
<1>1. Head(batches) = batches[1] /\ batches[1] \in Items /\ size \in [Targets -> Nat]
      BY <1>a, LastOfTail, ShapesAssumption DEF PipeTypeOK, NextItem
<1>2. SR!MayYield(batches[1])
      BY <1>a, <1>1, FollowsMayYield DEF ChainInv, NextItem
<1>3. PICK f \in Targets : batches[1] \in {Error(f), Fatal(f)} \cup {Batch(f, b) : b \in 1 .. size[f]}
      BY <1>1 DEF Items
<1>4. batches[1] \in {SR!Error(f), SR!Fatal(f)} \cup {SR!Batch(f, b) : b \in 1 .. size[f]} /\ f \in SR!Files
      BY <1>1, <1>3 DEF Error, Fatal, Batch, SR!Error, SR!Fatal, SR!Batch, SR!Files
<1>5. got' = Append(got, batches[1])
      BY <1>1 DEF NextItem
<1> QED BY <1>2, <1>4, <1>5 DEF NextItem, SR!Yield

LEMMA NextNoneEnds == PipeIInv /\ NextNone => SR!End
<1> SUFFICES ASSUME PipeIInv, NextNone PROVE SR!End
    OBVIOUS
<1>a. PipeTypeOK /\ LastSent = LastGot
      BY DEF PipeIInv, NextNone, LastSent
<1>b. NumFiles \in Nat \ {0} /\ size \in [1 .. NumFiles -> Nat]
      BY <1>a, NumFilesAssumption, LastItem DEF Targets
<1>1. Len(size) = NumFiles
      BY <1>b
<1>2. ~broken => SR!Complete
  <2> SUFFICES ASSUME ~broken PROVE SR!Complete
      OBVIOUS
  <2>1. LastGot.kind = "fatal" \/ Reached(size, LastGot, NumFiles + 1)
        BY <1>a DEF NextNone, SenderInv, PipeIInv
  <2>2. LastGot.kind = "fatal" => SR!Yielded("fatal")
        BY <1>a, LastItem
  <2>3. Reached(size, LastGot, NumFiles + 1) => SR!Skipped(NumFiles + 1)
    <3>1. NumFiles + 1 \in Nat \ {0} /\ NumFiles + 1 > 1
          BY <1>b
    <3> QED BY <1>a, <3>1, ReachedSkips
  <2> QED BY <1>1, <2>1, <2>2, <2>3 DEF SR!Complete
<1> QED BY <1>2 DEF NextNone, SR!End

LEMMA StepScans ==
    PipeIInv /\ [PipeNext]_pipeVars => [SR!Next]_<<size, got, reader, audited, broken>>
<1> SUFFICES ASSUME PipeIInv, [PipeNext]_pipeVars PROVE [SR!Next]_<<size, got, reader, audited, broken>>
    OBVIOUS
<1>1. Reject => SR!Reject
      BY DEF Reject, SR!Reject
<1>2. Start => SR!Open
      BY DEF Start, SR!Open
<1>3. NextItem => SR!Yield
      BY NextItemYields
<1>4. NextNone => SR!End
      BY NextNoneEnds
<1>5. DropIterator => SR!Close
      BY DEF DropIterator, SR!Close
<1>6. PrefetchPanics \/ TaskPanics => SR!Break
      BY DEF PrefetchPanics, TaskPanics, readerVars, SR!Break, PipeIInv, FlowInv
<1>7. Prefetch \/ Task \/ PipeDone \/ UNCHANGED pipeVars => UNCHANGED <<size, got, reader, audited, broken>>
      BY DEF Prefetch, OpenFile, Yield, PrefetchEnds, SendStream, SendStreamRefused, Task, TakeStream, StreamsEnd, ReadBatch,
             BatchFails, StreamRead, SendBatch, SendBatchRefused, SendFileError, SendOpenError, SendError, PipeDone, pipeVars,
             readerVars
<1> QED BY <1>1, <1>2, <1>3, <1>4, <1>5, <1>6, <1>7 DEF PipeNext, Iterator, SR!Next

\* The two tasks, the channels and the iterator implement a sequential scan:
\* what next() yields is in the order of the files and of their batches, no
\* batch comes twice, and one that is missing is missing behind an error, the
\* drop of the iterator or a panic.  For every list of files.
THEOREM ScanRefinement == PipeSpec => ImplementsScanResult
<1>1. PipeInit => SR!Init
      BY DEF PipeInit, SR!Init
<1>2. PipeIInv /\ [PipeNext]_pipeVars => [SR!Next]_<<size, got, reader, audited, broken>>
      BY StepScans
<1> QED BY <1>1, <1>2, PipeInvariance, PTL DEF PipeSpec, ImplementsScanResult, SR!Spec
=============================================================================
