---------------------------- MODULE NodeRelease ----------------------------
(***************************************************************************)
(* What a node promises about its releases, with every command one step: a *)
(* deployment that succeeds is installed and active, one that fails leaves *)
(* the active release as it was, a rollback activates an installed one.    *)
(* A command that is interrupted may leave its own release half done and   *)
(* the node without an active release.  LocalRunner implements this        *)
(* module, and Rollout uses it for its nodes.                              *)
(***************************************************************************)
CONSTANTS Deployments, None

VARIABLES
    installed,    \* deployments with a directory under releases/
    active,       \* the release the active symlink names, or None
    report        \* the result of the last command, or None while there is none

vars == <<installed, active, report>>

Result(kind, d, status) == [kind |-> kind, id |-> d, status |-> status]

Init ==
    /\ installed = {}
    /\ active = None
    /\ report = None

ApplySucceeds(d) ==
    /\ installed' = installed \cup {d}
    /\ active' = d
    /\ report' = Result("apply", d, "Succeeded")

\* The test fails and nothing is installed, or a hook fails and d stays.
ApplyFails(d) ==
    /\ installed' \in {installed, installed \cup {d}}
    /\ report' = Result("apply", d, IF active = None THEN "Failed" ELSE "RolledBack")
    /\ UNCHANGED active

RollsBack(d, t) ==
    /\ t \in installed
    /\ active' = t
    /\ report' = Result("rollback", d, "RolledBack")
    /\ UNCHANGED installed

RollbackTargetMissing(d, t) ==
    /\ t \notin installed
    /\ report' = Result("rollback", d, "Failed")
    /\ UNCHANGED <<installed, active>>

\* The process ends in the middle of a command for d (or activating d).
Interrupted(d) ==
    /\ installed' \in {installed, installed \cup {d}, installed \ {d}}
    /\ active' \in {active, None, d}
    /\ report' = None

Next ==
    \E d \in Deployments :
        \/ ApplySucceeds(d)
        \/ ApplyFails(d)
        \/ \E t \in Deployments : RollsBack(d, t) \/ RollbackTargetMissing(d, t)
        \/ Interrupted(d)

Spec == Init /\ [][Next]_vars
=============================================================================
