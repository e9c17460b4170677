------------------------------ MODULE Predicates ------------------------------
(***************************************************************************)
(* A predicate `column op literal` as the two halves of the engine read    *)
(* it: against the statistics of a row group, to skip it unread            *)
(* (ingestion/s3_client.rs), and against a value, to drop its row          *)
(* (governance/simd_ops.rs).  The halves were written apart: the first     *)
(* compares in 64 bits and as bytes, the second in the column's own type.  *)
(*                                                                         *)
(* Values of every type are integers; those of text are ranks in its       *)
(* order.  Bound: Half and Base stand for 2^31 and 256.                    *)
(***************************************************************************)
EXTENDS Integers, Sequences

CONSTANTS
    Columns,
    Type,       \* the Arrow type of each column
    Null,
    Half,       \* an i32 is in -Half .. Half - 1
    Base,       \* values of a byte
    Digit       \* the byte a date's text is made of

I32 == -Half .. Half - 1
Types == {"int32", "int64", "date32", "utf8"}

ASSUME TypeAssumption == Type \in [Columns -> Types]
ASSUME NullAssumption == Null \notin Int
ASSUME WidthAssumption ==
    /\ Half \in Nat \ {0}
    /\ Base \in Nat \ {0, 1}
    /\ Digit \in 0 .. Base - 1

\* Eq, Neq, Gt, Lt with a literal: PredicateValue::Int64, or ::String, of which
\* some read as a date.  v is the number, the text's rank or the date's day.
Predicate == [col : Columns, op : {"Eq", "Neq", "Gt", "Lt"}, kind : {"int", "text", "date"}, v : Int]

Values(c) == IF Type[c] \in {"int32", "date32"} THEN I32 ELSE Int

Compare(op, a, b) ==
    \/ op = "Eq" /\ a = b
    \/ op = "Neq" /\ a # b
    \/ op = "Gt" /\ a > b
    \/ op = "Lt" /\ a < b

\* the predicate as it was written
Satisfies(p, a) == a # Null /\ Compare(p.op, a, p.v)

-----------------------------------------------------------------------------
(* The row filter.                                                         *)

\* *v as i32
Wrap(v) == ((v + Half) % (2 * Half)) - Half

\* evaluate_filter finds a comparison kernel
TypeFits(p) ==
    \/ p.kind = "int" /\ Type[p.col] # "utf8"
    \/ p.kind # "int" /\ Type[p.col] = "utf8"
    \/ p.kind = "date" /\ Type[p.col] = "date32"

build_scalar(p) ==
    IF p.kind = "int" /\ Type[p.col] \in {"int32", "date32"} THEN Wrap(p.v) ELSE p.v

\* a null is neither equal nor unequal to anything: filter() drops its row
evaluate_filter(p, a) == a # Null /\ Compare(p.op, a, build_scalar(p))

-----------------------------------------------------------------------------
(* Statistics: the bounds of a column in a row group, or Null.             *)

Bytes(v) == <<v % Base, (v \div Base) % Base>>
DateText == <<Digit, Digit, Digit>>

\* the order of byte slices
AtMost(a, b) ==
    \/ Len(a) <= Len(b) /\ \A i \in 1 .. Len(a) : a[i] = b[i]
    \/ \E i \in 1 .. Len(a) :
            i <= Len(b) /\ a[i] < b[i] /\ \A j \in 1 .. i - 1 : a[j] = b[j]

\* the text of the literal against the statistics as they are stored
TextWithin(p, stats) ==
    IF Type[p.col] = "utf8" THEN stats.lo <= p.v /\ p.v <= stats.hi
    ELSE AtMost(Bytes(stats.lo), DateText) /\ AtMost(DateText, Bytes(stats.hi))

Overlaps_exclusive(p, stats) ==
    \/ p.op = "Eq" /\ stats.lo < p.v /\ p.v <= stats.hi
    \/ p.op = "Gt" /\ stats.hi > p.v
    \/ p.op = "Lt" /\ stats.lo < p.v
Overlaps(p, stats) ==
    \/ p.op = "Eq" /\ stats.lo <= p.v /\ p.v <= stats.hi
    \/ p.op = "Gt" /\ stats.hi > p.v
    \/ p.op = "Lt" /\ stats.lo < p.v

evaluate_statistics(p, stats) ==
    \/ stats = Null
    \/ p.op = "Neq"
    \/ p.kind = "int" /\ Type[p.col] # "utf8" /\ Overlaps(p, stats)
    \/ p.kind = "int" /\ Type[p.col] = "utf8"
    \/ p.kind # "int" /\ p.op = "Eq" /\ TextWithin(p, stats)
    \/ p.kind # "int" /\ p.op # "Eq"
=============================================================================
