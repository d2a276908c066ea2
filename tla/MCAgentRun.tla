----------------------------- MODULE MCAgentRun -----------------------------
(***************************************************************************)
(* Small instances of AgentRun.  The thresholds of the action gate are     *)
(* scaled from 5, 7 and 8 inspection turns to 1, 2 and 3.                  *)
(***************************************************************************)
EXTENDS AgentRun

CONSTANTS p1, p2, v1, v2, b1, b2, q1, f1, f2

\* p1 lies under src/main/java/, p2 does not.
MCPaths       == {p1, p2}
MCSourcePaths == {p1}

\* No required file; one file; a file and "any source file".
MCTargets   == {{}, {p1, RoleSource}}
MCNoTargets == {{}}

MCOneVariant  == {v1}
MCTwoVariants == {v1, v2}
MCBuilds      == {b1, b2}
MCPre         == {q1}
MCFunc        == {f1}
MCTwoFunc     == {f1, f2}

=============================================================================
