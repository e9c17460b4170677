----------------------------- MODULE MCScanRows -----------------------------
(***************************************************************************)
(* ScanRows for TLC.  A number column, a date column and a text column; an *)
(* i32 of 16 values in two bytes of four; one or two files of one or two   *)
(* row groups, with and without statistics; at most two predicates, with   *)
(* literals inside, at the edge of and beyond an i32.                      *)
(***************************************************************************)
EXTENDS ScanRows

MCColumns == {"n", "d", "s"}
MCType == [c \in MCColumns |-> CASE c = "n" -> "int32" [] c = "d" -> "date32" [] c = "s" -> "utf8"]

Pred(c, o, k, v) == [col |-> c, op |-> o, kind |-> k, v |-> v]

MCPredicates ==
    {Pred("n", o, "int", v) : o \in {"Eq", "Gt", "Lt"}, v \in {-9, 0, 8}}
        \cup {Pred("n", "Neq", "int", 7), Pred("n", "Eq", "text", 0)}
        \cup {Pred("d", o, "date", 5) : o \in {"Eq", "Gt"}}
        \cup {Pred("d", "Lt", "int", 5), Pred("d", "Eq", "text", 5)}
        \cup {Pred("s", "Eq", "text", 1), Pred("s", "Lt", "int", 1)}

Query(u, gl, se) == [user |-> u, global |-> gl, selective |-> se, requested |-> {"n"}]
Few == {{}} \cup {{p} : p \in MCPredicates}
MCQueries ==
    {Query(u, gl, {}) : u \in Few, gl \in Few}
        \cup {Query({}, gl, se) : gl \in Few, se \in Few \ {{}}}

\* rows of three cells, and the tightest statistics
R(n, d, s) == [c \in MCColumns |-> CASE c = "n" -> n [] c = "d" -> d [] c = "s" -> s]
Cells(rows, c) == {rows[r][c] : r \in DOMAIN rows} \ {Null}
Tightest(rows, c) ==
    IF Cells(rows, c) = {} THEN Null
    ELSE [lo |-> CHOOSE v \in Cells(rows, c) : \A w \in Cells(rows, c) : v <= w,
          hi |-> CHOOSE v \in Cells(rows, c) : \A w \in Cells(rows, c) : w <= v]
With(rows) == [rows |-> rows, stats |-> [c \in MCColumns |-> Tightest(rows, c)]]
Without(rows) == [rows |-> rows, stats |-> [c \in MCColumns |-> Null]]

Mixed == <<R(-8, 4, 0), R(0, 5, 1), R(Null, 7, 2)>>
High == <<R(7, 5, 1), R(1, 6, Null)>>
NoDate == <<R(0, Null, 1), R(2, Null, 1)>>
OnlyNumber == <<R(-1, Null, Null), R(7, Null, Null)>>

All(groups) == [cols |-> MCColumns, groups |-> groups]
NumberOnly(groups) == [cols |-> {"n"}, groups |-> groups]
DateOnly == [cols |-> {"d"}, groups |-> <<With(<<R(Null, 5, Null)>>)>>]

MCFiles ==
    {<<All(<<With(Mixed), With(High)>>)>>,
     <<All(<<Without(Mixed)>>), NumberOnly(<<With(OnlyNumber), Without(OnlyNumber)>>)>>,
     <<NumberOnly(<<With(OnlyNumber)>>), All(<<With(NoDate), With(Mixed)>>)>>,
     <<All(<<With(High), Without(High)>>), DateOnly>>}
=============================================================================
