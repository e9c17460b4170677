-------------------------------- MODULE Linter --------------------------------
(***************************************************************************)
(* The linter (linter/validator.rs): what a contract says of a batch, and  *)
(* the schema a scan derives from it.                                      *)
(*                                                                         *)
(* A contract is [cols, type, required, rules, tags]; a batch is           *)
(* [cols, type, nullable, nulls, breaks]: nulls are the columns that hold  *)
(* a null, breaks[c] the kinds of rule some value of c does not satisfy (a *)
(* number as the f64 it is compared as).  An error is a pair of its kind   *)
(* and its column; the row it is found in is left out.                     *)
(***************************************************************************)
CONSTANTS None, Columns

TypeNames == {"string", "utf8", "int32", "int64", "date32", "large_utf8"}
Types == {"utf8", "large_utf8", "int32", "int64", "date32", "null"}
Numeric == {"int32", "int64"}
Rules == {"enum", "regex", "range"}

\* None: a name the linter does not know, as it knows none for LargeUtf8
expected_data_type ==
    [name \in TypeNames |->
        CASE name = "string" -> "utf8" [] name = "large_utf8" -> None [] OTHER -> name]

Fits(rule, type) == IF rule = "range" THEN type \in Numeric ELSE type = "utf8"

Mistyped(k, b) ==
    {c \in k.cols \cap b.cols :
        \/ expected_data_type[k.type[c]] # b.type[c]
        \/ \E rule \in k.rules[c] : ~Fits(rule, b.type[c])}

\* a rule that does not fit the type is not evaluated
Broken(k, b) ==
    {c \in k.cols \cap b.cols : \E rule \in k.rules[c] \cap b.breaks[c] : Fits(rule, b.type[c])}

Of(kind, cols) == {kind} \X cols

validate_presenceOnly(k, b) ==
    Of("ExtraColumn", b.cols \ k.cols)
        \cup Of("MissingColumn", k.required \ b.cols)
        \cup Of("TypeMismatch", Mistyped(k, b))
        \cup Of("Violation", Broken(k, b))
validate(k, b) ==
    Of("ExtraColumn", b.cols \ k.cols)
        \cup Of("MissingColumn", k.required \ b.cols)
        \cup Of("TypeMismatch", Mistyped(k, b))
        \cup Of("NullViolation", k.required \cap b.cols \cap b.nulls)
        \cup Of("Violation", Broken(k, b))

\* to_arrow_schema fails on a type it does not know
Known(k) == \A c \in k.cols : expected_data_type[k.type[c]] # None
Field(k, c) == [type |-> expected_data_type[k.type[c]], nullable |-> c \notin k.required]
=============================================================================
