---------------------------- MODULE MCGovernedScan ----------------------------
(***************************************************************************)
(* GovernedScan for TLC.  "old" describes two columns, "new" a third one   *)
(* that is optional, "other" another type, "odd" a type the linter does    *)
(* not know; batches fit some of them, or none.                            *)
(***************************************************************************)
EXTENDS GovernedScan

MCColumns == {"ssn", "age", "note"}
MCText == {"ssn", "note"}
MCLower == [t \in {"pii"} |-> "pii"]
MCContains == {<<"ssn", "ssn">>}
MCFilterColumn == [f \in {"f", "g"} |-> IF f = "f" THEN "age" ELSE "note"]

K(cols, age, note, required, tagged) ==
    [cols |-> cols, required |-> required,
     type |-> [c \in MCColumns |->
        CASE c = "ssn" -> "string" [] c = "age" -> age [] c = "note" -> note],
     rules |-> [c \in MCColumns |-> IF c = "age" THEN {"range"} ELSE {}],
     tags |-> [c \in MCColumns |-> IF c \in tagged THEN {"pii"} ELSE {}]]
Old == K({"ssn", "age"}, "int32", "string", {"ssn", "age"}, {"age"})
New == K(MCColumns, "int32", "utf8", {"ssn", "age"}, {"note"})
Other == K(MCColumns, "int64", "string", {"ssn"}, {"age"})
Odd == K(MCColumns, "int32", "large_utf8", {"age"}, {})
MCContracts == {Old, New, Other, Odd}

B(cols, age, note, nulls, breaks) ==
    [cols |-> cols, nullable |-> {"ssn", "note"} \cup nulls, nulls |-> nulls,
     type |-> [c \in MCColumns |->
        CASE c = "ssn" -> "utf8" [] c = "age" -> age [] c = "note" -> note],
     breaks |-> [c \in MCColumns |-> IF c = "age" THEN breaks ELSE {}]]
MCBatches ==
    {B({"ssn", "age"}, "int32", "utf8", {}, {}),
     B(MCColumns, "int32", "utf8", {"note"}, {}),
     B({"ssn", "age"}, "int64", "utf8", {"age"}, {}),
     B({"ssn", "age"}, "int32", "utf8", {"age"}, {}),
     B(MCColumns, "int32", "large_utf8", {}, {"range"})}

E == EmptyManifest
Reader == [E EXCEPT
    !.principals = {"reader"},
    !.column_masks = [E.column_masks EXCEPT !["reader"]["ssn"] = "HASH"],
    !.tag_masks = [E.tag_masks EXCEPT !["reader"]["pii"] = "PLAINTEXT"],
    !.global_row_filters = [E.global_row_filters EXCEPT !["reader"] = {"f"}],
    !.selective_row_filters = [E.selective_row_filters EXCEPT !["reader"] = {"g"}]]
Encrypting == [Reader EXCEPT !.required_tags = {"pii"}]
Columnwise == [E EXCEPT
    !.principals = {"reader"}, !.required_columns = {"ssn"},
    !.column_masks = [E.column_masks EXCEPT !["reader"]["ssn"] = "PLAINTEXT"]]
MCPolicies == {E, Reader, Encrypting, Columnwise}

Ask(caller, mode, columns, contract, predicates) ==
    [caller |-> caller, purpose |-> "p", assumed |-> None, mode |-> mode,
     columns |-> columns, contract |-> contract, predicates |-> predicates]
MCRequests ==
    {Ask({"reader"}, "GracefulMasking", None, k, {}) : k \in {None, Old, New, Odd}}
        \cup {Ask({"reader"}, "StrictError", {"ssn", "note"}, New, {"age"})}
        \cup {Ask({"reader"}, "GracefulMasking", {"note"}, None, {"ssn"})}
        \cup {Ask({}, "StrictError", None, New, {})}
=============================================================================
