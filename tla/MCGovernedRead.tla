---------------------------- MODULE MCGovernedRead ----------------------------
(***************************************************************************)
(* GovernedRead for TLC.  "ssn" is a word of "user_ssn" and merely a part  *)
(* of "passnumber"; tags come in both cases; layers of every level,        *)
(* discovered in several orders, agree, override and add to one another.   *)
(***************************************************************************)
EXTENDS GovernedRead

MCColumns == {"ssn", "user_ssn", "passnumber"}
MCText == {"ssn", "user_ssn"}
MCLower == [t \in {"pii", "PII"} |-> "pii"]
MCKeys == {"ssn", "user_ssn"}
MCContainsWord == {<<"ssn", "ssn">>, <<"ssn", "user_ssn">>, <<"user_ssn", "user_ssn">>}
MCContains == MCContainsWord \cup {<<"ssn", "passnumber">>}
MCRoles == {"analyst", "auditor"}
MCFilterColumn == [f \in {"f", "g", "unparsed"} |->
    CASE f = "f" -> "ssn" [] f = "g" -> "passnumber" [] f = "unparsed" -> None]

E == EmptyManifest
Analyst == [E EXCEPT
    !.principals = {"analyst"},
    !.column_masks = [E.column_masks EXCEPT !["analyst"]["user_ssn"] = "PLAINTEXT"],
    !.tag_masks = [E.tag_masks EXCEPT !["analyst"]["PII"] = "PLAINTEXT"],
    !.global_row_filters = [E.global_row_filters EXCEPT !["analyst"] = {"f", "unparsed"}],
    !.sampling_cap = [E.sampling_cap EXCEPT !["analyst"] = 2]]
AnalystSsn == [E EXCEPT
    !.principals = {"analyst"},
    !.column_masks = [E.column_masks EXCEPT !["analyst"]["ssn"] = "HASH"]]
AnalystHashed == [E EXCEPT
    !.principals = {"analyst"},
    !.column_masks = [E.column_masks EXCEPT
            !["analyst"]["user_ssn"] = "HASH", !["analyst"]["ssn"] = "REDACT"],
    !.tag_masks = [E.tag_masks EXCEPT !["analyst"]["PII"] = "HASH"],
    !.global_row_filters = [E.global_row_filters EXCEPT !["analyst"] = {"g"}],
    !.sampling_cap = [E.sampling_cap EXCEPT !["analyst"] = 1]]
Auditor == [E EXCEPT
    !.principals = {"auditor"},
    !.column_masks = [E.column_masks EXCEPT !["auditor"]["ssn"] = "NULL"],
    !.tag_masks = [E.tag_masks EXCEPT !["auditor"]["pii"] = "PLAINTEXT"],
    !.selective_row_filters = [E.selective_row_filters EXCEPT !["auditor"] = {"f"}],
    !.purpose_bindings = [E.purpose_bindings EXCEPT !["audit"] = "auditor"]]
Encrypted == [E EXCEPT !.required_columns = {"ssn"}, !.required_tags = {"pii"}]
EncryptedUpper == [E EXCEPT
    !.required_columns = {"user_ssn"}, !.required_tags = {"PII"},
    !.purpose_bindings = [E.purpose_bindings EXCEPT !["audit"] = "analyst"]]

L(level, manifest) == [level |-> level, manifest |-> manifest, valid |-> TRUE]
MCPolicySets ==
    {<<>>,
     <<L(2, Encrypted)>>,
     <<L(2, AnalystSsn), L(0, Encrypted), L(0, Analyst)>>,
     <<L(2, AnalystHashed), L(0, Analyst), L(1, Encrypted)>>,
     <<L(0, AnalystHashed), L(2, Analyst), L(1, EncryptedUpper)>>,
     <<L(0, AnalystHashed), L(0, Analyst), L(2, Encrypted)>>,
     <<L(1, Auditor), L(2, Analyst), L(0, Encrypted)>>,
     <<L(2, Auditor), L(0, EncryptedUpper), L(1, Encrypted), L(0, AnalystHashed)>>,
     <<L(0, Encrypted), [L(2, Analyst) EXCEPT !.valid = FALSE]>>}

MCContracts ==
    {[cols |-> MCColumns, tags |-> [c \in MCColumns |-> {}]],
     [cols |-> MCColumns,
      tags |-> [c \in MCColumns |-> IF c = "passnumber" THEN {"PII"} ELSE {"pii"}]]}

Ask(caller, purpose, assumed, column, mode) ==
    [caller |-> caller, purpose |-> purpose, assumed |-> assumed, column |-> column,
     contract |-> MCColumns \ {"ssn"}, mode |-> mode]
MCRequests ==
    {Ask(c, p, None, col, "GracefulMasking") :
            c \in {{"analyst"}, MCRoles}, p \in {"audit", "other"}, col \in MCColumns}
        \cup {Ask(MCRoles, p, a, "user_ssn", "StrictError") :
                    p \in {"audit", "other"}, a \in MCRoles}
        \cup {Ask({}, "other", a, "ssn", "StrictError") : a \in {None, "analyst"}}

MCRowGroups == {<<>>, <<<<{"f"}, {}>>, <<{"f", "g"}, {"f"}, {"f", "g"}>>>>}
=============================================================================
