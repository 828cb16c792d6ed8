---------------------------- MODULE LocalRunner ----------------------------
(***************************************************************************)
(* A runner's apply() on its work directory, one step per file system call *)
(* and per external command: temp write, `xray run -test`, installation    *)
(* under releases/, the switch of the active symlink through active.next,  *)
(* the reload and health hooks, and the way back when one of them fails.   *)
(* The process may end at every step (a crash, or an I/O error, which      *)
(* leaves main through `?`) and is started again by its supervisor.        *)
(***************************************************************************)
EXTENDS Naturals

CONSTANTS
    Deployments,    \* deployment ids
    None,           \* no release, no command, no result
    MaxCommands,    \* bound: commands the runner receives
    MaxFaults       \* bound: process ends

Command ==
    [kind : {"apply"}, id : Deployments, to : {None}]
        \cup [kind : {"rollback"}, id : Deployments, to : Deployments]

ASSUME RunnerAssumption ==
    /\ None \notin Deployments \cup Command
    /\ MaxCommands \in Nat /\ MaxFaults \in Nat

VARIABLES
    tmp,        \* directories under tmp/ with a config.json
    release,    \* per deployment: its directory under releases/
    active,     \* target of the active symlink
    next,       \* target of the active.next symlink
    core,       \* external: the release the running core has loaded
    hooks,      \* which of the reload and health commands are configured
    pc,         \* next step of the command in hand
    cmd,        \* the command in hand
    target,     \* argument of switch_active
    previous,   \* apply_deployment's previous_active
    failed,     \* a hook failed: rollback_after_apply_failure is under way
    tested,     \* history: deployments whose config passed `xray run -test`
    before,     \* history: active and the installed set when cmd was accepted
    report,     \* the result the last command returned
    commands,   \* commands received so far
    faults      \* faults so far

files == <<tmp, release, active, next>>
vars == <<tmp, release, active, next, core, hooks, pc, cmd, target, previous, failed,
          tested, before, report, commands, faults>>

\* LocalRunner::with_reload_command, with_health_command.
HasReload == "reload" \in hooks
HasHealth == "health" \in hooks

Target == Deployments \cup {None}

Steps == {"idle", "write", "test", "clear", "remove", "rename", "readlink",
          "unlinkNext", "linkNext", "unlinkActive", "renameNext",
          "reload", "health", "restore", "rollback"}

\* symlink_metadata succeeds for the release directory.
Installed == {d \in Deployments : release[d] # "absent"}

TypeOK ==
    /\ tmp \subseteq Deployments
    /\ release \in [Deployments -> {"absent", "empty", "complete"}]
    /\ active \in Target
    /\ next \in Target
    /\ core \in Target
    /\ hooks \subseteq {"reload", "health"}
    /\ pc \in Steps
    /\ cmd \in Command \cup {None}
    /\ target \in Target
    /\ previous \in Target
    /\ failed \in BOOLEAN
    /\ tested \subseteq Deployments
    /\ before \in [active : Target, installed : SUBSET Deployments]
    /\ report \in [kind : {"apply", "rollback"}, id : Deployments,
                   status : {"Succeeded", "Failed", "RolledBack"}] \cup {None}
    /\ commands \in Nat
    /\ faults \in Nat

Init ==
    /\ tmp = {}
    /\ release = [d \in Deployments |-> "absent"]
    /\ active = None
    /\ next = None
    /\ core = None
    /\ hooks \in SUBSET {"reload", "health"}
    /\ pc = "idle"
    /\ cmd = None
    /\ target = None
    /\ previous = None
    /\ failed = FALSE
    /\ tested = {}
    /\ before = [active |-> None, installed |-> {}]
    /\ report = None
    /\ commands = 0
    /\ faults = 0

-----------------------------------------------------------------------------
(* apply(): a verified command is dispatched on its kind.                  *)

Accept(c) ==
    /\ pc = "idle"
    /\ commands < MaxCommands
    /\ commands' = commands + 1
    /\ cmd' = c
    /\ pc' = IF c.kind = "apply" THEN "write" ELSE "rollback"
    /\ before' = [active |-> active, installed |-> Installed]
    /\ UNCHANGED <<core, hooks, target, previous, failed, tested, report, faults>>
    /\ UNCHANGED files

\* The function returns a DeploymentResult to poll_apply_once.
Return(status) ==
    /\ report' = [kind |-> cmd.kind, id |-> cmd.id, status |-> status]
    /\ pc' = "idle"
    /\ cmd' = None
    /\ target' = None
    /\ previous' = None
    /\ failed' = FALSE
    /\ UNCHANGED <<hooks, tested, before, commands, faults>>

Continue(step) ==
    /\ pc' = step
    /\ UNCHANGED <<hooks, cmd, tested, before, report, commands, faults>>

-----------------------------------------------------------------------------
(* apply_deployment.                                                       *)

WriteTmp ==
    /\ pc = "write"
    /\ tmp' = tmp \cup {cmd.id}
    /\ Continue("test")
    /\ UNCHANGED <<release, active, next, core, target, previous, failed>>

TestPasses ==
    /\ pc = "test"
    /\ tested' = tested \cup {cmd.id}
    /\ pc' = IF release[cmd.id] = "absent" THEN "rename" ELSE "clear"
    /\ UNCHANGED <<core, hooks, cmd, target, previous, failed, before, report,
                   commands, faults>>
    /\ UNCHANGED files

\* Mutant: the exit status of the test is ignored.
MutantTestFailsInstalls ==
    /\ pc = "test"
    /\ Continue("rename")
    /\ UNCHANGED <<core, target, previous, failed>>
    /\ UNCHANGED files

\* The temp directory stays; the status only looks whether active exists.
TestFails ==
    /\ pc = "test"
    /\ Return(IF active = None THEN "Failed" ELSE "RolledBack")
    /\ UNCHANGED core
    /\ UNCHANGED files

\* remove_dir_all takes config.json first and the directory then.
ClearRelease ==
    /\ pc = "clear"
    /\ release' = [release EXCEPT ![cmd.id] = "empty"]
    /\ Continue("remove")
    /\ UNCHANGED <<tmp, active, next, core, target, previous, failed>>

RemoveRelease ==
    /\ pc = "remove"
    /\ release' = [release EXCEPT ![cmd.id] = "absent"]
    /\ Continue("rename")
    /\ UNCHANGED <<tmp, active, next, core, target, previous, failed>>

\* Mutant: older releases are cleaned up on installation.
MutantRenameTmpPrunesOthers ==
    /\ pc = "rename"
    /\ tmp' = tmp \ {cmd.id}
    /\ release' = [d \in Deployments |-> IF d = cmd.id THEN "complete" ELSE "absent"]
    /\ Continue("readlink")
    /\ UNCHANGED <<active, next, core, target, previous, failed>>

RenameTmp ==
    /\ pc = "rename"
    /\ tmp' = tmp \ {cmd.id}
    /\ release' = [release EXCEPT ![cmd.id] = "complete"]
    /\ Continue("readlink")
    /\ UNCHANGED <<active, next, core, target, previous, failed>>

ReadPreviousActive ==
    /\ pc = "readlink"
    /\ previous' = active
    /\ target' = cmd.id
    /\ Continue("unlinkNext")
    /\ UNCHANGED <<core, failed>>
    /\ UNCHANGED files

\* Mutant: the reload hook's exit status is ignored.
MutantReloadErrorIgnored ==
    /\ pc = "reload"
    /\ core' \in IF HasReload THEN {core, active} ELSE {core}
    /\ Continue("health")
    /\ UNCHANGED <<target, previous, failed>>
    /\ UNCHANGED files

\* run_core_command on the reload hook.  A hook that fails may have loaded the
\* new config all the same.
Reload ==
    /\ pc = "reload"
    /\ \/ /\ ~HasReload
          /\ Continue("health")
          /\ UNCHANGED <<core, failed>>
       \/ /\ HasReload
          /\ core' = active
          /\ Continue("health")
          /\ UNCHANGED failed
       \/ /\ HasReload
          /\ core' \in {core, active}
          /\ failed' = TRUE
          /\ Continue("restore")
    /\ UNCHANGED <<target, previous>>
    /\ UNCHANGED files

\* run_core_command on the health hook; the deployment has succeeded when it
\* passes or is not configured.
HealthPasses ==
    /\ pc = "health"
    /\ Return("Succeeded")
    /\ UNCHANGED core
    /\ UNCHANGED files

HealthFails ==
    /\ pc = "health"
    /\ HasHealth
    /\ failed' = TRUE
    /\ Continue("restore")
    /\ UNCHANGED <<core, target, previous>>
    /\ UNCHANGED files

-----------------------------------------------------------------------------
(* rollback_after_apply_failure and rollback_deployment.                   *)

\* Mutant: the switch back is given the new release.
MutantRestorePreviousKeepsNew ==
    /\ pc = "restore"
    /\ previous # None
    /\ target' = cmd.id
    /\ Continue("unlinkNext")
    /\ UNCHANGED <<core, previous, failed>>
    /\ UNCHANGED files

RestorePrevious ==
    /\ pc = "restore"
    /\ previous # None
    /\ target' = previous
    /\ Continue("unlinkNext")
    /\ UNCHANGED <<core, previous, failed>>
    /\ UNCHANGED files

\* There is no previous release: active is removed (an error of this
\* remove_file is ignored by the code and taken not to happen here).
RestoreNothing ==
    /\ pc = "restore"
    /\ previous = None
    /\ active' = None
    /\ Return("Failed")
    /\ UNCHANGED <<tmp, release, next, core>>

RollbackTargetMissing ==
    /\ pc = "rollback"
    /\ cmd.to \notin Installed
    /\ Return("Failed")
    /\ UNCHANGED core
    /\ UNCHANGED files

\* Mutant: the target is looked up under tmp/.
MutantRollbackTargetUnchecked ==
    /\ pc = "rollback"
    /\ cmd.to \in tmp
    /\ target' = cmd.to
    /\ Continue("unlinkNext")
    /\ UNCHANGED <<core, previous, failed>>
    /\ UNCHANGED files

RollbackTargetFound ==
    /\ pc = "rollback"
    /\ cmd.to \in Installed
    /\ target' = cmd.to
    /\ Continue("unlinkNext")
    /\ UNCHANGED <<core, previous, failed>>
    /\ UNCHANGED files

-----------------------------------------------------------------------------
(* switch_active(target).                                                  *)

UnlinkNext ==
    /\ pc = "unlinkNext"
    /\ next' = None
    /\ Continue("linkNext")
    /\ UNCHANGED <<tmp, release, active, core, target, previous, failed>>

LinkNext ==
    /\ pc = "linkNext"
    /\ next' = target
    /\ Continue("unlinkActive")
    /\ UNCHANGED <<tmp, release, active, core, target, previous, failed>>

UnlinkActive ==
    /\ pc = "unlinkActive"
    /\ active' = None
    /\ Continue("renameNext")
    /\ UNCHANGED <<tmp, release, next, core, target, previous, failed>>

\* The last call of switch_active; its caller goes on with the hooks or
\* returns RolledBack.
RenameNext ==
    /\ pc = "renameNext"
    /\ active' = next
    /\ next' = None
    /\ \/ /\ cmd.kind = "apply" /\ ~failed
          /\ Continue("reload")
          /\ UNCHANGED <<target, previous, failed>>
       \/ /\ cmd.kind = "rollback" \/ failed
          /\ Return("RolledBack")
    /\ UNCHANGED <<tmp, release, core>>

-----------------------------------------------------------------------------
\* The process ends in the middle of a command and is started again: nothing
\* it does on its way up looks at the work directory.
Crash ==
    /\ pc # "idle"
    /\ faults < MaxFaults
    /\ faults' = faults + 1
    /\ pc' = "idle"
    /\ cmd' = None
    /\ target' = None
    /\ previous' = None
    /\ failed' = FALSE
    /\ report' = None
    /\ UNCHANGED <<core, hooks, tested, before, commands>>
    /\ UNCHANGED files

Next ==
    \/ \E c \in Command : Accept(c)
    \/ WriteTmp \/ TestPasses \/ TestFails
    \/ ClearRelease \/ RemoveRelease \/ RenameTmp \/ ReadPreviousActive
    \/ Reload \/ HealthPasses \/ HealthFails
    \/ RestorePrevious \/ RestoreNothing
    \/ RollbackTargetMissing \/ RollbackTargetFound
    \/ UnlinkNext \/ LinkNext \/ UnlinkActive \/ RenameNext
    \/ Crash

Spec == Init /\ [][Next]_vars

-----------------------------------------------------------------------------
(* What a node guarantees about its releases.                              *)

\* No config that `xray run -test` has not accepted is ever named by active,
\* in any interleaving of commands, failures and crashes.
ActiveIsTested == active # None => active \in tested

\* When the runner reports Succeeded, the deployment is what is installed,
\* active and, with a reload hook, loaded by the core.
SuccessIsServing ==
    (pc = "idle" /\ report # None /\ report.status = "Succeeded") =>
        /\ active = report.id
        /\ release[active] = "complete"
        /\ HasReload => core = report.id

\* Between commands and with no crash before, an active release is complete.
RestingActiveComplete ==
    (pc = "idle" /\ faults = 0 /\ active # None) => release[active] = "complete"

\* Only the release a deployment is about is ever taken away: a crash can not
\* damage the release the node could fall back to.
OthersUntouched ==
    [][\A d \in Deployments :
           release'[d] # release[d] => cmd.kind = "apply" /\ cmd.id = d]_vars

\* A command takes effect when the runner returns from it.
Node == INSTANCE NodeRelease
            WITH installed <- IF pc = "idle" THEN Installed ELSE before.installed,
                 active <- IF pc = "idle" THEN active ELSE before.active

\* Every command, with all its file system calls, hooks and failures, does to
\* the releases what one step of the abstract node does.
ImplementsNode == Node!Spec
=============================================================================
