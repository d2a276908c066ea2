------------------------- MODULE ExecutionRegistry -------------------------
(***************************************************************************)
(* What the product promises about its executions, whatever threads, locks *)
(* and crashes are behind it: at most one execution holds the productive   *)
(* slot; a record is opened by the execution that takes the slot, and is   *)
(* closed at most once, by the holder; a closed record never changes.      *)
(* The slot may be given back without closing the record, when the process *)
(* is lost or the catalog could not be written.                            *)
(***************************************************************************)

CONSTANTS Execs, NoExec

VARIABLES record, slot

vars == <<record, slot>>

\* The values of ProductExecutionStatus a finished execution may carry.
EndStatuses == {"SUCCEEDED", "FAILED", "BLOCKED", "LIMIT_REACHED", "INTERRUPTED"}

Init ==
    /\ record = [e \in Execs |-> "absent"]
    /\ slot = NoExec

Open(e) ==
    /\ slot = NoExec
    /\ record[e] = "absent"
    /\ record' = [record EXCEPT ![e] = "RUNNING"]
    /\ slot' = e

Close(e, status) ==
    /\ slot = e
    /\ record[e] = "RUNNING"
    /\ record' = [record EXCEPT ![e] = status]
    /\ UNCHANGED slot

Release ==
    /\ slot # NoExec
    /\ slot' = NoExec
    /\ UNCHANGED record

Next ==
    \/ \E e \in Execs : Open(e) \/ \E status \in EndStatuses : Close(e, status)
    \/ Release

Spec == Init /\ [][Next]_vars

=============================================================================
