------------------------- MODULE LocalRunnerProofs -------------------------
(***************************************************************************)
(* Theorems about LocalRunner for any set of deployments, any number of    *)
(* commands and any number of process ends.                                *)
(***************************************************************************)
EXTENDS LocalRunner, TLAPS

Switching == {"unlinkNext", "linkNext", "unlinkActive", "renameNext"}

\* The calls of apply_deployment itself and of the failure path before its switch.
Applying == {"write", "test", "clear", "remove", "rename", "readlink",
             "reload", "health", "restore"}

\* apply_deployment is at a step after the rename that installs the release.
PastRename ==
    \/ pc \in {"readlink", "reload", "health", "restore"}
    \/ pc \in Switching /\ cmd.kind = "apply"

-----------------------------------------------------------------------------
(* The inductive invariant, one part per idea.                             *)

\* The step in hand belongs to the function the command was dispatched to.
StepOfCommand ==
    /\ pc = "idle" <=> cmd = None
    /\ pc \in Applying => cmd.kind = "apply"
    /\ pc = "rollback" => cmd.kind = "rollback"
    /\ failed => cmd # None /\ cmd.kind = "apply" /\ pc \in Switching \cup {"restore"}
    /\ pc = "restore" => failed
    /\ previous # None => PastRename

\* switch_active was called with the release its caller means to activate.
TargetOfSwitch ==
    pc \in Switching =>
        /\ cmd.kind = "rollback" => target = cmd.to
        /\ cmd.kind = "apply" /\ ~failed => target = cmd.id
        /\ failed => target = previous
        /\ target # None
        /\ pc \in {"unlinkActive", "renameNext"} => next = target

\* Whatever the runner may yet activate has passed the test.
CandidatesTested ==
    /\ Installed \subseteq tested
    /\ {active, previous} \subseteq tested \cup {None}
    /\ pc \in {"clear", "remove", "rename"} \/ PastRename => cmd.id \in tested
    /\ pc \in Switching => target \in tested

\* From the rename on the new release is complete; between the switch and the
\* return it is active, and after the reload the core runs it.
NewRelease ==
    /\ PastRename => release[cmd.id] = "complete"
    /\ pc \in {"reload", "health", "restore"} => active = cmd.id
    /\ pc = "health" /\ HasReload => core = cmd.id

\* Where active stands between its values before and after the command.
ActiveMoves ==
    /\ pc \in {"write", "test", "clear", "remove", "rename", "readlink", "rollback"} =>
           active = before.active
    /\ pc \in {"reload", "health", "restore"} => previous = before.active
    /\ pc \in Switching =>
           /\ cmd.kind = "apply" => previous = before.active
           /\ pc = "renameNext" => active = None
           /\ pc # "renameNext" => active = IF failed THEN cmd.id ELSE before.active

\* Where the releases stand between their set before and after the command.
InstalledMoves ==
    /\ pc \in {"write", "test", "clear", "remove", "rollback"} =>
           Installed = before.installed
    /\ pc \in {"clear", "remove"} => cmd.id \in before.installed
    /\ pc = "rename" => Installed = before.installed \ {cmd.id}
    /\ PastRename => Installed = before.installed \cup {cmd.id}
    /\ pc \in Switching /\ cmd.kind = "rollback" =>
           Installed = before.installed /\ cmd.to \in Installed

\* As long as the process has not ended in the middle of a command, releases are
\* complete, but for the one in hand while it is replaced.
NoFaultNoDamage ==
    faults = 0 =>
        /\ \A d \in Deployments : release[d] = "empty" => pc = "remove" /\ d = cmd.id
        /\ active # None =>
               \/ release[active] = "complete"
               \/ pc \in {"remove", "rename"} /\ active = cmd.id
        /\ previous # None => release[previous] = "complete"
        /\ pc \in Switching => release[target] = "complete"

RunnerInv ==
    /\ TypeOK
    /\ StepOfCommand
    /\ TargetOfSwitch
    /\ CandidatesTested
    /\ NewRelease
    /\ ActiveMoves
    /\ InstalledMoves
    /\ NoFaultNoDamage
    /\ SuccessIsServing

-----------------------------------------------------------------------------
(* Preservation, one lemma per part; each names the parts it rests on.     *)

\* While a step is in hand there is a command, with the fields of its kind.
LEMMA CommandFields ==
    ASSUME TypeOK, StepOfCommand, pc # "idle"
    PROVE  /\ cmd # None
           /\ cmd \in Command
           /\ cmd.id \in Deployments
           /\ cmd.kind \in {"apply", "rollback"}
           /\ cmd.kind = "rollback" => cmd.to \in Deployments
  BY DEF TypeOK, StepOfCommand, Command

\* A command that is received has the fields of its kind.
LEMMA ReceivedFields ==
    ASSUME NEW c \in Command
    PROVE  /\ c # None
           /\ c.kind \in {"apply", "rollback"}
           /\ c.id \in Deployments
  BY RunnerAssumption DEF Command

\* Every step keeps the types, given the command it works on.
LEMMA TypeStep ==
    ASSUME TypeOK, StepOfCommand, [Next]_vars
    PROVE  TypeOK'
<1> USE DEF TypeOK, Target
<1>1. ASSUME NEW c \in Command, Accept(c) PROVE TypeOK'
  BY <1>1 DEF Accept, files, Installed, Steps
<1>2. CASE WriteTmp
  BY <1>2, CommandFields DEF WriteTmp, Continue, Steps
<1>3. CASE TestPasses
  BY <1>3, CommandFields DEF TestPasses, files, Steps
<1>4. CASE TestFails
  BY <1>4, CommandFields DEF TestFails, Return, files, Steps
<1>5. CASE ClearRelease
  BY <1>5, CommandFields DEF ClearRelease, Continue, Steps
<1>6. CASE RemoveRelease
  BY <1>6, CommandFields DEF RemoveRelease, Continue, Steps
<1>7. CASE RenameTmp
  BY <1>7, CommandFields DEF RenameTmp, Continue, Steps
<1>8. CASE ReadPreviousActive
  BY <1>8, CommandFields DEF ReadPreviousActive, Continue, files, Steps
<1>9. CASE Reload
  BY <1>9, CommandFields DEF Reload, Continue, files, Steps
<1>10. CASE HealthPasses
  BY <1>10, CommandFields DEF HealthPasses, Return, files, Steps
<1>11. CASE HealthFails
  BY <1>11 DEF HealthFails, Continue, files, Steps
<1>12. CASE RestorePrevious
  BY <1>12 DEF RestorePrevious, Continue, files, Steps
<1>13. CASE RestoreNothing
  BY <1>13, CommandFields DEF RestoreNothing, Return, Steps
<1>14. CASE RollbackTargetMissing
  BY <1>14, CommandFields DEF RollbackTargetMissing, Return, files, Steps
<1>15. CASE RollbackTargetFound
  <2>1. cmd.to \in Deployments
    BY <1>15 DEF RollbackTargetFound, Installed
  <2> QED BY <1>15, <2>1 DEF RollbackTargetFound, Continue, files, Steps
<1>16. CASE UnlinkNext
  BY <1>16 DEF UnlinkNext, Continue, Steps
<1>17. CASE LinkNext
  BY <1>17 DEF LinkNext, Continue, Steps
<1>18. CASE UnlinkActive
  BY <1>18 DEF UnlinkActive, Continue, Steps
<1>19. CASE RenameNext
  <2>1. report' \in [kind : {"apply", "rollback"}, id : Deployments,
                      status : {"Succeeded", "Failed", "RolledBack"}] \cup {None}
    BY <1>19, CommandFields DEF RenameNext, Return, Continue
  <2>2. pc' \in Steps /\ cmd' \in Command \cup {None} /\ failed' \in BOOLEAN
    BY <1>19, CommandFields DEF RenameNext, Return, Continue, Steps
  <2> QED BY <1>19, <2>1, <2>2 DEF RenameNext, Return, Continue
<1>20. CASE Crash
  <2>1. faults' \in Nat
    BY <1>20 DEF Crash
  <2> QED BY <1>20, <2>1 DEF Crash, files, Steps
<1>21. CASE UNCHANGED vars
  BY <1>21 DEF vars
<1> QED BY <1>1, <1>2, <1>3, <1>4, <1>5, <1>6, <1>7, <1>8, <1>9, <1>10, <1>11, <1>12,
   <1>13, <1>14, <1>15, <1>16, <1>17, <1>18, <1>19, <1>20, <1>21 DEF Next

\* Control stays inside the function that was dispatched to.
LEMMA StepOfCommandStep ==
    ASSUME TypeOK, StepOfCommand, [Next]_vars
    PROVE  StepOfCommand'
<1> USE DEF StepOfCommand, Switching, Applying, PastRename
<1>1. ASSUME NEW c \in Command, Accept(c) PROVE StepOfCommand'
  BY <1>1, ReceivedFields DEF Accept
<1>2. CASE WriteTmp
  BY <1>2 DEF WriteTmp, Continue
<1>3. CASE TestPasses
  BY <1>3 DEF TestPasses
<1>4. CASE TestFails
  BY <1>4 DEF TestFails, Return
<1>5. CASE ClearRelease
  BY <1>5 DEF ClearRelease, Continue
<1>6. CASE RemoveRelease
  BY <1>6 DEF RemoveRelease, Continue
<1>7. CASE RenameTmp
  BY <1>7 DEF RenameTmp, Continue
<1>8. CASE ReadPreviousActive
  BY <1>8 DEF ReadPreviousActive, Continue
<1>9. CASE Reload
  BY <1>9 DEF Reload, Continue
<1>10. CASE HealthPasses
  BY <1>10 DEF HealthPasses, Return
<1>11. CASE HealthFails
  BY <1>11 DEF HealthFails, Continue
<1>12. CASE RestorePrevious
  BY <1>12 DEF RestorePrevious, Continue
<1>13. CASE RestoreNothing
  BY <1>13 DEF RestoreNothing, Return
<1>14. CASE RollbackTargetMissing
  BY <1>14 DEF RollbackTargetMissing, Return
<1>15. CASE RollbackTargetFound
  BY <1>15 DEF RollbackTargetFound, Continue
<1>16. CASE UnlinkNext
  BY <1>16 DEF UnlinkNext, Continue
<1>17. CASE LinkNext
  BY <1>17 DEF LinkNext, Continue
<1>18. CASE UnlinkActive
  BY <1>18 DEF UnlinkActive, Continue
<1>19. CASE RenameNext
  BY <1>19 DEF RenameNext, Return, Continue
<1>20. CASE Crash
  BY <1>20 DEF Crash
<1>21. CASE UNCHANGED vars
  BY <1>21 DEF vars
<1> QED BY <1>1, <1>2, <1>3, <1>4, <1>5, <1>6, <1>7, <1>8, <1>9, <1>10, <1>11, <1>12,
   <1>13, <1>14, <1>15, <1>16, <1>17, <1>18, <1>19, <1>20, <1>21 DEF Next

\* Every caller of switch_active hands it a release, and active.next names it from
\* the symlink on.
LEMMA TargetStep ==
    ASSUME TypeOK, StepOfCommand, TargetOfSwitch, [Next]_vars
    PROVE  TargetOfSwitch'
<1> USE DEF TargetOfSwitch, Switching, Applying
<1>1. ASSUME NEW c \in Command, Accept(c) PROVE TargetOfSwitch'
  BY <1>1 DEF Accept
<1>2. CASE WriteTmp
  BY <1>2 DEF WriteTmp, Continue
<1>3. CASE TestPasses
  BY <1>3 DEF TestPasses
<1>4. CASE TestFails
  BY <1>4 DEF TestFails, Return
<1>5. CASE ClearRelease
  BY <1>5 DEF ClearRelease, Continue
<1>6. CASE RemoveRelease
  BY <1>6 DEF RemoveRelease, Continue
<1>7. CASE RenameTmp
  BY <1>7 DEF RenameTmp, Continue
<1>8. CASE ReadPreviousActive
  BY <1>8, RunnerAssumption, CommandFields DEF ReadPreviousActive, Continue,
     StepOfCommand
<1>9. CASE Reload
  BY <1>9 DEF Reload, Continue
<1>10. CASE HealthPasses
  BY <1>10 DEF HealthPasses, Return
<1>11. CASE HealthFails
  BY <1>11 DEF HealthFails, Continue
<1>12. CASE RestorePrevious
  BY <1>12 DEF RestorePrevious, Continue, StepOfCommand
<1>13. CASE RestoreNothing
  BY <1>13 DEF RestoreNothing, Return
<1>14. CASE RollbackTargetMissing
  BY <1>14 DEF RollbackTargetMissing, Return
<1>15. CASE RollbackTargetFound
  BY <1>15, RunnerAssumption, CommandFields DEF RollbackTargetFound, Continue,
     StepOfCommand
<1>16. CASE UnlinkNext
  BY <1>16 DEF UnlinkNext, Continue
<1>17. CASE LinkNext
  BY <1>17 DEF LinkNext, Continue
<1>18. CASE UnlinkActive
  BY <1>18 DEF UnlinkActive, Continue
<1>19. CASE RenameNext
  BY <1>19 DEF RenameNext, Return, Continue
<1>20. CASE Crash
  BY <1>20 DEF Crash
<1>21. CASE UNCHANGED vars
  BY <1>21 DEF vars
<1> QED BY <1>1, <1>2, <1>3, <1>4, <1>5, <1>6, <1>7, <1>8, <1>9, <1>10, <1>11, <1>12,
   <1>13, <1>14, <1>15, <1>16, <1>17, <1>18, <1>19, <1>20, <1>21 DEF Next

\* Nothing gets into releases/ before its test, and nothing else is ever switched to.
LEMMA TestedStep ==
    ASSUME TypeOK, StepOfCommand, TargetOfSwitch, CandidatesTested, [Next]_vars
    PROVE  CandidatesTested'
<1> USE DEF CandidatesTested, Switching, PastRename, Installed
<1>1. ASSUME NEW c \in Command, Accept(c) PROVE CandidatesTested'
  BY <1>1 DEF Accept, files
<1>2. CASE WriteTmp
  BY <1>2 DEF WriteTmp, Continue
<1>3. CASE TestPasses
  BY <1>3 DEF TestPasses, files
<1>4. CASE TestFails
  BY <1>4 DEF TestFails, Return, files
<1>5. CASE ClearRelease
  BY <1>5 DEF ClearRelease, Continue
<1>6. CASE RemoveRelease
  BY <1>6 DEF RemoveRelease, Continue
<1>7. CASE RenameTmp
  BY <1>7 DEF RenameTmp, Continue
<1>8. CASE ReadPreviousActive
  BY <1>8 DEF ReadPreviousActive, Continue, files
<1>9. CASE Reload
  BY <1>9 DEF Reload, Continue, files
<1>10. CASE HealthPasses
  BY <1>10 DEF HealthPasses, Return, files
<1>11. CASE HealthFails
  BY <1>11 DEF HealthFails, Continue, files
<1>12. CASE RestorePrevious
  BY <1>12 DEF RestorePrevious, Continue, files
<1>13. CASE RestoreNothing
  BY <1>13 DEF RestoreNothing, Return
<1>14. CASE RollbackTargetMissing
  BY <1>14 DEF RollbackTargetMissing, Return, files
<1>15. CASE RollbackTargetFound
  BY <1>15 DEF RollbackTargetFound, Continue, files, StepOfCommand
<1>16. CASE UnlinkNext
  BY <1>16 DEF UnlinkNext, Continue
<1>17. CASE LinkNext
  BY <1>17 DEF LinkNext, Continue
<1>18. CASE UnlinkActive
  BY <1>18 DEF UnlinkActive, Continue
<1>19. CASE RenameNext
  BY <1>19 DEF RenameNext, Return, Continue, TargetOfSwitch
<1>20. CASE Crash
  BY <1>20 DEF Crash, files
<1>21. CASE UNCHANGED vars
  BY <1>21 DEF vars
<1> QED BY <1>1, <1>2, <1>3, <1>4, <1>5, <1>6, <1>7, <1>8, <1>9, <1>10, <1>11, <1>12,
   <1>13, <1>14, <1>15, <1>16, <1>17, <1>18, <1>19, <1>20, <1>21 DEF Next

\* The hooks run with the new release complete and active.
LEMMA NewReleaseStep ==
    ASSUME TypeOK, StepOfCommand, TargetOfSwitch, NewRelease, [Next]_vars
    PROVE  NewRelease'
<1> USE DEF NewRelease, Switching, PastRename, HasReload
<1>1. ASSUME NEW c \in Command, Accept(c) PROVE NewRelease'
  BY <1>1 DEF Accept
<1>2. CASE WriteTmp
  BY <1>2 DEF WriteTmp, Continue
<1>3. CASE TestPasses
  BY <1>3 DEF TestPasses
<1>4. CASE TestFails
  BY <1>4 DEF TestFails, Return
<1>5. CASE ClearRelease
  BY <1>5 DEF ClearRelease, Continue
<1>6. CASE RemoveRelease
  BY <1>6 DEF RemoveRelease, Continue
<1>7. CASE RenameTmp
  BY <1>7, CommandFields DEF RenameTmp, Continue, TypeOK
<1>8. CASE ReadPreviousActive
  BY <1>8 DEF ReadPreviousActive, Continue, files
<1>9. CASE Reload
  BY <1>9 DEF Reload, Continue, files
<1>10. CASE HealthPasses
  BY <1>10 DEF HealthPasses, Return
<1>11. CASE HealthFails
  BY <1>11 DEF HealthFails, Continue, files
<1>12. CASE RestorePrevious
  BY <1>12 DEF RestorePrevious, Continue, files
<1>13. CASE RestoreNothing
  BY <1>13 DEF RestoreNothing, Return
<1>14. CASE RollbackTargetMissing
  BY <1>14 DEF RollbackTargetMissing, Return
<1>15. CASE RollbackTargetFound
  BY <1>15 DEF RollbackTargetFound, Continue, StepOfCommand
<1>16. CASE UnlinkNext
  BY <1>16 DEF UnlinkNext, Continue
<1>17. CASE LinkNext
  BY <1>17 DEF LinkNext, Continue
<1>18. CASE UnlinkActive
  BY <1>18 DEF UnlinkActive, Continue
<1>19. CASE RenameNext
  BY <1>19 DEF RenameNext, Return, Continue, TargetOfSwitch
<1>20. CASE Crash
  BY <1>20 DEF Crash
<1>21. CASE UNCHANGED vars
  BY <1>21 DEF vars
<1> QED BY <1>1, <1>2, <1>3, <1>4, <1>5, <1>6, <1>7, <1>8, <1>9, <1>10, <1>11, <1>12,
   <1>13, <1>14, <1>15, <1>16, <1>17, <1>18, <1>19, <1>20, <1>21 DEF Next

\* Only switch_active and the removal after a failed first deployment move active.
LEMMA ActiveMovesStep ==
    ASSUME TypeOK, StepOfCommand, NewRelease, ActiveMoves, [Next]_vars
    PROVE  ActiveMoves'
<1> USE DEF ActiveMoves, Switching
<1>1. ASSUME NEW c \in Command, Accept(c) PROVE ActiveMoves'
  BY <1>1 DEF Accept, files
<1>2. CASE WriteTmp
  BY <1>2 DEF WriteTmp, Continue
<1>3. CASE TestPasses
  BY <1>3 DEF TestPasses, files
<1>4. CASE TestFails
  BY <1>4 DEF TestFails, Return
<1>5. CASE ClearRelease
  BY <1>5 DEF ClearRelease, Continue
<1>6. CASE RemoveRelease
  BY <1>6 DEF RemoveRelease, Continue
<1>7. CASE RenameTmp
  BY <1>7 DEF RenameTmp, Continue
<1>8. CASE ReadPreviousActive
  BY <1>8 DEF ReadPreviousActive, Continue, files, StepOfCommand
<1>9. CASE Reload
  BY <1>9 DEF Reload, Continue
<1>10. CASE HealthPasses
  BY <1>10 DEF HealthPasses, Return
<1>11. CASE HealthFails
  BY <1>11 DEF HealthFails, Continue
<1>12. CASE RestorePrevious
  BY <1>12 DEF RestorePrevious, Continue, files, StepOfCommand, NewRelease
<1>13. CASE RestoreNothing
  BY <1>13 DEF RestoreNothing, Return
<1>14. CASE RollbackTargetMissing
  BY <1>14 DEF RollbackTargetMissing, Return
<1>15. CASE RollbackTargetFound
  BY <1>15 DEF RollbackTargetFound, Continue, files, StepOfCommand
<1>16. CASE UnlinkNext
  BY <1>16 DEF UnlinkNext, Continue
<1>17. CASE LinkNext
  BY <1>17 DEF LinkNext, Continue
<1>18. CASE UnlinkActive
  BY <1>18 DEF UnlinkActive, Continue
<1>19. CASE RenameNext
  BY <1>19 DEF RenameNext, Return, Continue
<1>20. CASE Crash
  BY <1>20 DEF Crash
<1>21. CASE UNCHANGED vars
  BY <1>21 DEF vars
<1> QED BY <1>1, <1>2, <1>3, <1>4, <1>5, <1>6, <1>7, <1>8, <1>9, <1>10, <1>11, <1>12,
   <1>13, <1>14, <1>15, <1>16, <1>17, <1>18, <1>19, <1>20, <1>21 DEF Next

\* Only the release of the deployment in hand comes and goes.
LEMMA InstalledMovesStep ==
    ASSUME TypeOK, StepOfCommand, InstalledMoves, [Next]_vars
    PROVE  InstalledMoves'
<1> USE DEF InstalledMoves, Switching, PastRename, Installed
<1>1. ASSUME NEW c \in Command, Accept(c) PROVE InstalledMoves'
  BY <1>1 DEF Accept, files
<1>2. CASE WriteTmp
  BY <1>2 DEF WriteTmp, Continue
<1>3. CASE TestPasses
  BY <1>3, CommandFields DEF TestPasses, files
<1>4. CASE TestFails
  BY <1>4 DEF TestFails, Return
<1>5. CASE ClearRelease
  BY <1>5 DEF ClearRelease, Continue
<1>6. CASE RemoveRelease
  BY <1>6 DEF RemoveRelease, Continue, TypeOK
<1>7. CASE RenameTmp
  BY <1>7, CommandFields DEF RenameTmp, Continue, TypeOK
<1>8. CASE ReadPreviousActive
  BY <1>8 DEF ReadPreviousActive, Continue, files, StepOfCommand, Applying
<1>9. CASE Reload
  BY <1>9 DEF Reload, Continue, files
<1>10. CASE HealthPasses
  BY <1>10 DEF HealthPasses, Return
<1>11. CASE HealthFails
  BY <1>11 DEF HealthFails, Continue, files
<1>12. CASE RestorePrevious
  BY <1>12 DEF RestorePrevious, Continue, files, StepOfCommand
<1>13. CASE RestoreNothing
  BY <1>13 DEF RestoreNothing, Return
<1>14. CASE RollbackTargetMissing
  BY <1>14 DEF RollbackTargetMissing, Return
<1>15. CASE RollbackTargetFound
  BY <1>15 DEF RollbackTargetFound, Continue, files, StepOfCommand
<1>16. CASE UnlinkNext
  BY <1>16 DEF UnlinkNext, Continue
<1>17. CASE LinkNext
  BY <1>17 DEF LinkNext, Continue
<1>18. CASE UnlinkActive
  BY <1>18 DEF UnlinkActive, Continue
<1>19. CASE RenameNext
  BY <1>19 DEF RenameNext, Return, Continue
<1>20. CASE Crash
  BY <1>20 DEF Crash
<1>21. CASE UNCHANGED vars
  BY <1>21 DEF vars
<1> QED BY <1>1, <1>2, <1>3, <1>4, <1>5, <1>6, <1>7, <1>8, <1>9, <1>10, <1>11, <1>12,
   <1>13, <1>14, <1>15, <1>16, <1>17, <1>18, <1>19, <1>20, <1>21 DEF Next

\* Without a process end no step leaves a release half removed.
LEMMA DamageStep ==
    ASSUME TypeOK, StepOfCommand, TargetOfSwitch, NewRelease, InstalledMoves,
           NoFaultNoDamage, [Next]_vars
    PROVE  NoFaultNoDamage'
<1> USE DEF NoFaultNoDamage, Switching
<1>1. ASSUME NEW c \in Command, Accept(c) PROVE NoFaultNoDamage'
  BY <1>1 DEF Accept, files
<1>2. CASE WriteTmp
  BY <1>2 DEF WriteTmp, Continue
<1>3. CASE TestPasses
  BY <1>3 DEF TestPasses, files
<1>4. CASE TestFails
  BY <1>4 DEF TestFails, Return, files
<1>5. CASE ClearRelease
  BY <1>5 DEF ClearRelease, Continue, StepOfCommand, PastRename
<1>6. CASE RemoveRelease
  BY <1>6 DEF RemoveRelease, Continue, StepOfCommand, TypeOK, PastRename
<1>7. CASE RenameTmp
  BY <1>7, CommandFields DEF RenameTmp, Continue, TypeOK
<1>8. CASE ReadPreviousActive
  BY <1>8 DEF ReadPreviousActive, Continue, files, NewRelease, PastRename
<1>9. CASE Reload
  BY <1>9 DEF Reload, Continue, files
<1>10. CASE HealthPasses
  BY <1>10 DEF HealthPasses, Return, files
<1>11. CASE HealthFails
  BY <1>11 DEF HealthFails, Continue, files
<1>12. CASE RestorePrevious
  BY <1>12 DEF RestorePrevious, Continue, files
<1>13. CASE RestoreNothing
  BY <1>13 DEF RestoreNothing, Return
<1>14. CASE RollbackTargetMissing
  BY <1>14 DEF RollbackTargetMissing, Return, files
<1>15. CASE RollbackTargetFound
  BY <1>15 DEF RollbackTargetFound, Continue, files, TypeOK, Installed
<1>16. CASE UnlinkNext
  BY <1>16 DEF UnlinkNext, Continue
<1>17. CASE LinkNext
  BY <1>17 DEF LinkNext, Continue
<1>18. CASE UnlinkActive
  BY <1>18 DEF UnlinkActive, Continue
<1>19. CASE RenameNext
  BY <1>19 DEF RenameNext, Return, Continue, TargetOfSwitch
<1>20. CASE Crash
  BY <1>20 DEF Crash, TypeOK
<1>21. CASE UNCHANGED vars
  BY <1>21 DEF vars
<1> QED BY <1>1, <1>2, <1>3, <1>4, <1>5, <1>6, <1>7, <1>8, <1>9, <1>10, <1>11, <1>12,
   <1>13, <1>14, <1>15, <1>16, <1>17, <1>18, <1>19, <1>20, <1>21 DEF Next

\* HealthPasses is the only way to report Succeeded.
LEMMA ServingStep ==
    ASSUME TypeOK, StepOfCommand, NewRelease, SuccessIsServing, [Next]_vars
    PROVE  SuccessIsServing'
<1> USE DEF SuccessIsServing, HasReload
<1>1. ASSUME NEW c \in Command, Accept(c) PROVE SuccessIsServing'
  BY <1>1 DEF Accept
<1>2. CASE WriteTmp
  BY <1>2 DEF WriteTmp, Continue
<1>3. CASE TestPasses
  BY <1>3 DEF TestPasses
<1>4. CASE TestFails
  BY <1>4 DEF TestFails, Return
<1>5. CASE ClearRelease
  BY <1>5 DEF ClearRelease, Continue
<1>6. CASE RemoveRelease
  BY <1>6 DEF RemoveRelease, Continue
<1>7. CASE RenameTmp
  BY <1>7 DEF RenameTmp, Continue
<1>8. CASE ReadPreviousActive
  BY <1>8 DEF ReadPreviousActive, Continue
<1>9. CASE Reload
  BY <1>9 DEF Reload, Continue
<1>10. CASE HealthPasses
  BY <1>10 DEF HealthPasses, Return, files, PastRename, NewRelease
<1>11. CASE HealthFails
  BY <1>11 DEF HealthFails, Continue
<1>12. CASE RestorePrevious
  BY <1>12 DEF RestorePrevious, Continue
<1>13. CASE RestoreNothing
  BY <1>13 DEF RestoreNothing, Return
<1>14. CASE RollbackTargetMissing
  BY <1>14 DEF RollbackTargetMissing, Return
<1>15. CASE RollbackTargetFound
  BY <1>15 DEF RollbackTargetFound, Continue
<1>16. CASE UnlinkNext
  BY <1>16 DEF UnlinkNext, Continue
<1>17. CASE LinkNext
  BY <1>17 DEF LinkNext, Continue
<1>18. CASE UnlinkActive
  BY <1>18 DEF UnlinkActive, Continue
<1>19. CASE RenameNext
  BY <1>19 DEF RenameNext, Return, Continue
<1>20. CASE Crash
  BY <1>20 DEF Crash
<1>21. CASE UNCHANGED vars
  BY <1>21 DEF vars
<1> QED BY <1>1, <1>2, <1>3, <1>4, <1>5, <1>6, <1>7, <1>8, <1>9, <1>10, <1>11, <1>12,
   <1>13, <1>14, <1>15, <1>16, <1>17, <1>18, <1>19, <1>20, <1>21 DEF Next

\* The whole invariant is inductive.
LEMMA RunnerStep == RunnerInv /\ [Next]_vars => RunnerInv'
  BY TypeStep, StepOfCommandStep, TargetStep, TestedStep, NewReleaseStep,
     ActiveMovesStep, InstalledMovesStep, DamageStep, ServingStep DEF RunnerInv

\* It holds when the runner has never received a command.
LEMMA RunnerInit == Init => RunnerInv
<1> SUFFICES ASSUME Init PROVE RunnerInv
  OBVIOUS
<1> USE DEF Init
<1>1. TypeOK
  BY DEF TypeOK, Target, Steps
<1>2. StepOfCommand /\ TargetOfSwitch /\ ActiveMoves
  BY DEF StepOfCommand, TargetOfSwitch, ActiveMoves, Applying, Switching
<1>3. CandidatesTested /\ NewRelease /\ InstalledMoves
  BY DEF CandidatesTested, NewRelease, InstalledMoves, Installed, Switching, PastRename
<1>4. NoFaultNoDamage /\ SuccessIsServing
  BY DEF NoFaultNoDamage, SuccessIsServing, Switching
<1> QED BY <1>1, <1>2, <1>3, <1>4 DEF RunnerInv

\* The invariant holds in every reachable state of the runner.
LEMMA AlwaysRunnerInv == Spec => []RunnerInv
  BY RunnerInit, RunnerStep, PTL DEF Spec

-----------------------------------------------------------------------------
(* The theorems.                                                           *)

\* The variables of the runner keep their types: the links name releases or
\* nothing, a step in hand is a step of apply().
THEOREM RunnerTypeCorrect == Spec => []TypeOK
  BY AlwaysRunnerInv, PTL DEF RunnerInv

\* No deployment whose config `xray run -test` has not accepted is ever active,
\* whatever fails and wherever the process ends: apply_deployment tests before
\* it installs, and rollback_deployment only activates what is installed.
THEOREM ActiveIsTestedHolds == Spec => []ActiveIsTested
<1>1. RunnerInv => ActiveIsTested
  BY DEF RunnerInv, CandidatesTested, ActiveIsTested
<1> QED BY <1>1, AlwaysRunnerInv, PTL

\* A result Succeeded means that the deployment is installed, active and, with
\* a reload hook, loaded by the core.
THEOREM SuccessIsServingHolds == Spec => []SuccessIsServing
  BY AlwaysRunnerInv, PTL DEF RunnerInv

\* Between commands the active release is complete as long as the process has
\* never ended inside one: only an interrupted remove_dir_all can damage it.
THEOREM RestingActiveCompleteHolds == Spec => []RestingActiveComplete
<1>1. RunnerInv => RestingActiveComplete
  BY DEF RunnerInv, NoFaultNoDamage, RestingActiveComplete
<1> QED BY <1>1, AlwaysRunnerInv, PTL

\* No step touches another release than the one its own deployment is about.
THEOREM OthersUntouchedHolds == Spec => OthersUntouched
<1>1. ASSUME RunnerInv, [Next]_vars
      PROVE  [\A d \in Deployments :
                 release'[d] # release[d] => cmd.kind = "apply" /\ cmd.id = d]_vars
  <2> USE DEF RunnerInv, TypeOK, StepOfCommand, Applying
  <2>1. CASE ClearRelease
    BY <1>1, <2>1 DEF ClearRelease
  <2>2. CASE RemoveRelease
    BY <1>1, <2>2 DEF RemoveRelease
  <2>3. CASE RenameTmp
    BY <1>1, <2>3 DEF RenameTmp
  <2>4. CASE UNCHANGED vars
    BY <2>4
  <2>5. CASE Next /\ ~ClearRelease /\ ~RemoveRelease /\ ~RenameTmp
    <3>1. release' = release
      BY <2>5 DEF Next, Accept, WriteTmp, TestPasses, TestFails, ReadPreviousActive,
         Reload, HealthPasses, HealthFails, RestorePrevious, RestoreNothing,
         RollbackTargetMissing, RollbackTargetFound, UnlinkNext, LinkNext,
         UnlinkActive, RenameNext, Crash, files
    <3> QED BY <3>1
  <2> QED BY <1>1, <2>1, <2>2, <2>3, <2>4, <2>5
<1> QED BY <1>1, AlwaysRunnerInv, PTL DEF Spec, OthersUntouched

-----------------------------------------------------------------------------
(* The refinement: a command takes effect when the runner returns from it. *)

\* A step that neither ends the command nor begins one is invisible.
LEMMA InvisibleStep ==
    ASSUME pc # "idle", pc' # "idle", UNCHANGED <<before, report>>
    PROVE  UNCHANGED Node!vars
  BY DEF Node!vars

\* The steps of a command show the abstract node nothing until the one that ends it,
\* which is the abstract step of the command; a process end settles what is there.
LEMMA NodeStep == RunnerInv /\ [Next]_vars => [Node!Next]_(Node!vars)
<1> SUFFICES ASSUME RunnerInv, [Next]_vars PROVE [Node!Next]_(Node!vars)
  OBVIOUS
<1> USE DEF RunnerInv, StepOfCommand, Applying
<1>1. ASSUME NEW c \in Command, Accept(c) PROVE UNCHANGED Node!vars
  BY <1>1 DEF Accept, Node!vars
<1>2. CASE WriteTmp \/ TestPasses \/ ClearRelease \/ RemoveRelease \/ RenameTmp
           \/ ReadPreviousActive \/ Reload \/ HealthFails
  BY <1>2, InvisibleStep DEF WriteTmp, TestPasses, ClearRelease, RemoveRelease,
     RenameTmp, ReadPreviousActive, Reload, HealthFails, Continue
<1>3. CASE RestorePrevious \/ RollbackTargetFound \/ UnlinkNext \/ LinkNext
           \/ UnlinkActive
  BY <1>3, InvisibleStep DEF RestorePrevious, RollbackTargetFound, UnlinkNext,
     LinkNext, UnlinkActive, Continue
<1>4. CASE TestFails
  <2>1. Node!ApplyFails(cmd.id)
    BY <1>4 DEF TestFails, Return, files, ActiveMoves, InstalledMoves, Installed,
       Node!ApplyFails, Node!Result
  <2> QED BY <1>4, <2>1, CommandFields DEF TestFails, Node!Next
<1>5. CASE HealthPasses
  <2>1. Node!ApplySucceeds(cmd.id)
    BY <1>5 DEF HealthPasses, Return, files, NewRelease, InstalledMoves, PastRename,
       Installed, Node!ApplySucceeds, Node!Result
  <2> QED BY <1>5, <2>1, CommandFields DEF HealthPasses, Node!Next
<1>6. CASE RestoreNothing
  <2>1. Node!ApplyFails(cmd.id)
    BY <1>6 DEF RestoreNothing, Return, ActiveMoves, InstalledMoves, PastRename,
       Installed, Node!ApplyFails, Node!Result
  <2> QED BY <1>6, <2>1, CommandFields DEF RestoreNothing, Node!Next
<1>7. CASE RollbackTargetMissing
  <2>1. Node!RollbackTargetMissing(cmd.id, cmd.to)
    BY <1>7 DEF RollbackTargetMissing, Return, files, ActiveMoves, InstalledMoves,
       Installed, Node!RollbackTargetMissing, Node!Result
  <2> QED BY <1>7, <2>1, CommandFields DEF RollbackTargetMissing, Node!Next
<1>8. CASE RenameNext
  <2>1. CASE cmd.kind = "apply" /\ ~failed
    BY <1>8, <2>1, InvisibleStep DEF RenameNext, Continue
  <2>2. CASE failed
    <3>1. Node!ApplyFails(cmd.id)
      BY <1>8, <2>2 DEF RenameNext, Return, ActiveMoves, InstalledMoves,
         TargetOfSwitch, Installed, Node!ApplyFails, Node!Result
    <3> QED BY <1>8, <3>1, CommandFields DEF RenameNext, Node!Next
  <2>3. CASE cmd.kind = "rollback"
    <3>1. Node!RollsBack(cmd.id, cmd.to)
      BY <1>8, <2>3 DEF RenameNext, Return, InstalledMoves, TargetOfSwitch, Switching,
         Installed, Node!RollsBack, Node!Result
    <3> QED BY <1>8, <2>3, <3>1, CommandFields DEF RenameNext, Node!Next
  <2> QED BY <1>8, <2>1, <2>2, <2>3 DEF RenameNext
<1>9. CASE Crash
  <2>1. active \in {before.active, None, cmd.id}
    BY <1>9 DEF Crash, ActiveMoves, NewRelease, Switching, TypeOK, Steps
  <2>2. Installed \in {before.installed, before.installed \cup {cmd.id},
                       before.installed \ {cmd.id}}
    BY <1>9, CommandFields DEF Crash, InstalledMoves, PastRename, Switching, TypeOK,
       Steps
  <2>3. Node!Interrupted(cmd.id)
    BY <1>9, <2>1, <2>2 DEF Crash, files, Installed, Node!Interrupted
  <2> QED BY <1>9, <2>3, CommandFields DEF Crash, Node!Next
<1>10. CASE UNCHANGED vars
  BY <1>10 DEF vars, Installed, Node!vars
<1> QED BY <1>1, <1>2, <1>3, <1>4, <1>5, <1>6, <1>7, <1>8, <1>9, <1>10 DEF Next

\* Every behaviour of the runner is, seen at the returns from its commands, one
\* of the abstract node that Rollout builds on.
THEOREM RunnerImplementsNode == Spec => ImplementsNode
<1>1. Init => Node!Init
  BY DEF Init, Installed, Node!Init
<1> QED BY <1>1, AlwaysRunnerInv, NodeStep, PTL DEF Spec, ImplementsNode, Node!Spec
=============================================================================
