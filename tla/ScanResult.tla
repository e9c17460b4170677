------------------------------ MODULE ScanResult ------------------------------
(***************************************************************************)
(* What a caller of scan() may rely on, with prefetching, channels and     *)
(* tasks hidden: the iterator yields the batches of the files one file     *)
(* after the other, each file's in order.  An error inside a file cuts     *)
(* that file short and nothing else; a file that cannot be opened ends the *)
(* scan.  Nothing is skipped without an error, unless a task panics.       *)
(***************************************************************************)
EXTENDS Integers, Sequences

VARIABLES
    size,       \* size[f]: batches in the surviving row groups of file f
    log,        \* what the iterator has yielded
    status,     \* "none" before scan() returned, "open", "ended", "closed"
    audited,    \* the Read event is in the audit buffer
    broken      \* a task panicked

Batch(f, b) == [kind |-> "batch", file |-> f, number |-> b]
Error(f) == [kind |-> "error", file |-> f]
Fatal(f) == [kind |-> "fatal", file |-> f]

Files == DOMAIN size
Yielded(kind) == log # <<>> /\ log[Len(log)].kind = kind

\* the file the scan is in and how many of its batches are behind it
File == IF log = <<>> THEN 1 ELSE log[Len(log)].file
Behind == IF Yielded("batch") THEN log[Len(log)].number
          ELSE IF log = <<>> THEN 0 ELSE size[File]

\* f can be next: every file between here and f has nothing left to give
Skipped(f) == Behind = size[File] /\ \A g \in File + 1 .. f - 1 : size[g] = 0
Later(f) == f > File /\ Skipped(f)
Fresh(f) == Later(f) \/ (f = 1 /\ log = <<>>)

Same(f) == f = File /\ Yielded("batch") /\ Behind < size[f]

\* a file that has nothing to read cannot fail while it is read
MayYield(item) ==
    /\ ~Yielded("fatal")
    /\ item.kind = "error" => size[item.file] > 0
    /\ \/ Fresh(item.file) /\ (item.kind = "batch" => item.number = 1)
       \/ Same(item.file) /\ item.kind # "fatal" /\ (item.kind = "batch" => item.number = Behind + 1)

Complete == Yielded("fatal") \/ Skipped(Len(size) + 1)

Init ==
    /\ log = <<>>
    /\ status = "none"
    /\ ~audited
    /\ ~broken

Reject ==
    /\ status = "none"
    /\ status' = "closed"
    /\ UNCHANGED <<size, log, audited, broken>>

Open ==
    /\ status = "none"
    /\ status' = "open"
    /\ audited' = TRUE
    /\ UNCHANGED <<size, log, broken>>

Yield ==
    /\ status = "open"
    /\ \E f \in Files : \E item \in {Error(f), Fatal(f)} \cup {Batch(f, b) : b \in 1 .. size[f]} :
            MayYield(item) /\ log' = Append(log, item)
    /\ UNCHANGED <<size, status, audited, broken>>

End ==
    /\ status = "open"
    /\ Complete \/ broken
    /\ status' = "ended"
    /\ UNCHANGED <<size, log, audited, broken>>

Close ==
    /\ status = "open"
    /\ status' = "closed"
    /\ UNCHANGED <<size, log, audited, broken>>

Break ==
    /\ status # "none"
    /\ broken' = TRUE
    /\ UNCHANGED <<size, log, status, audited>>

Next == Reject \/ Open \/ Yield \/ End \/ Close \/ Break

Spec == Init /\ [][Next]_<<size, log, status, audited, broken>>
=============================================================================
