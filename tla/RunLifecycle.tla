---------------------------- MODULE RunLifecycle ----------------------------
(***************************************************************************)
(* The life of one agent run as the rest of the system sees it: the closed *)
(* set of run states and the table of transitions a run may take.  The     *)
(* table is core/state.py VALID_TRANSITIONS; RunState.transition_to        *)
(* consults it, but the engine also assigns terminal states directly, so   *)
(* that the engine follows it is a claim, shown by refinement in AgentRun. *)
(***************************************************************************)

VARIABLE state

TERMINAL_STATUSES ==
    {"COMPLETED", "FAILED", "BLOCKED", "LIMIT_REACHED", "ABORTED"}

NON_SUCCESS_TERMINAL_STATUSES == TERMINAL_STATUSES \ {"COMPLETED"}

ACTIVE_STATUSES ==
    {"INITIALIZING", "INSPECTING", "PLANNING", "EDITING", "BUILDING",
     "DIAGNOSING", "CORRECTING", "VALIDATING_ARTIFACT",
     "VALIDATING_FUNCTIONAL", "REPORTING"}

RunStatus == ACTIVE_STATUSES \cup TERMINAL_STATUSES

\* The states an active state may move to, other than an unsuccessful end.
Onward ==
    [s \in ACTIVE_STATUSES |->
        CASE s = "INITIALIZING"          -> {"INSPECTING"}
          [] s = "INSPECTING"            -> {"PLANNING"}
          [] s = "PLANNING"              -> {"EDITING"}
          [] s = "EDITING"               -> {"BUILDING", "CORRECTING"}
          [] s = "BUILDING"              -> {"VALIDATING_ARTIFACT", "DIAGNOSING"}
          [] s = "DIAGNOSING"            -> {"CORRECTING"}
          [] s = "CORRECTING"            -> {"EDITING", "BUILDING"}
          [] s = "VALIDATING_ARTIFACT"   -> {"VALIDATING_FUNCTIONAL", "REPORTING"}
          [] s = "VALIDATING_FUNCTIONAL" -> {"REPORTING", "CORRECTING"}
          [] s = "REPORTING"             -> {"COMPLETED"}]

\* Terminal states have no row in the table: a finished run never moves again.
VALID_TRANSITIONS(s) == Onward[s] \cup NON_SUCCESS_TERMINAL_STATUSES

Init == state = "INITIALIZING"

Next ==
    /\ state \in ACTIVE_STATUSES
    /\ state' \in VALID_TRANSITIONS(state)

Spec == Init /\ [][Next]_state

=============================================================================
