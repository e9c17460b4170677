------------------------------ MODULE AtomicPut ------------------------------
(***************************************************************************)
(* What one WriteOrchestrator::write promises its caller, with channels,   *)
(* parts and threads hidden: the key goes from no object to the whole one  *)
(* in a single step, only after the audit event was recorded, and Ok is    *)
(* returned only once it is there.  An error promises nothing more: the    *)
(* object may be, or even become, visible (a completion whose answer was   *)
(* lost), but still whole.                                                 *)
(***************************************************************************)
CONSTANTS Whole, NoObject, Errors

VARIABLES object, audited, outcome

vars == <<object, audited, outcome>>

Init ==
    /\ object = NoObject
    /\ audited = FALSE
    /\ outcome = "none"

Audit ==
    /\ outcome = "none"
    /\ ~audited
    /\ audited' = TRUE
    /\ UNCHANGED <<object, outcome>>

Put ==
    /\ audited
    /\ object = NoObject
    /\ object' = Whole
    /\ UNCHANGED <<audited, outcome>>

ReturnOk ==
    /\ outcome = "none"
    /\ object = Whole
    /\ outcome' = "Ok"
    /\ UNCHANGED <<object, audited>>

ReturnError ==
    /\ outcome = "none"
    /\ outcome' \in Errors
    /\ UNCHANGED <<object, audited>>

Next == Audit \/ Put \/ ReturnOk \/ ReturnError

Spec == Init /\ [][Next]_vars
=============================================================================
