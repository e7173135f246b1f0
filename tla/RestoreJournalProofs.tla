------------------------ MODULE RestoreJournalProofs ------------------------
(***************************************************************************)
(* For every set of entries, every bound on faults and crashes and every    *)
(* choice of the steps that may fail: the state stays well-typed, no file   *)
(* of the user is ever removed, and until the commit a complete copy of the *)
(* old workspace and of the old settings is on disk.                        *)
(*                                                                         *)
(* The second needs to know, at each removal, that the place to be removed  *)
(* holds no user file, which follows from where the journal and the program *)
(* counter say the files can be.                                            *)
(*                                                                         *)
(* As long as no weak point voided the outcome, a program that serves a     *)
(* workspace serves the old or the restored one with the user's files, no   *)
(* protected copy is left over, and the restore is one switch               *)
(* (WorkspaceSwitch).  As long as no interruption at a step that cannot be  *)
(* repeated voided the recovery, a recovery whose own file operations       *)
(* succeed does not refuse.  These rest on what a start can find            *)
(* (Outcome, Repeatable).                                                   *)
(***************************************************************************)
EXTENDS RestoreJournal, TLAPS

Pcs == ForwardSteps \cup DiscardSteps \cup RollbackSteps \cup CleanupSteps \cup Rest

Absent(place) == \A e \in Entries : disk.at[e] # place

\* Entries are in the staging folder only between the carrying and the
\* activation, or until a rollback has returned them.
StagedEntries ==
  /\ pc = "carry_entries" => disk.journal = "protected"
  /\ \/ Absent("staging")
     \/ /\ existed.data
        /\ disk.journal \in {"protected", "activating"}
        /\ pc \in {"carry_entries", "write_activating", "activate",
                   "rb_inspect", "rb_return_staged", "blocked", "down"}

\* A folder that does not exist holds nothing.
FoldersHold ==
  /\ ~Exists("dest") => Absent("dest")
  /\ ~Exists("old") => Absent("old")

\* Without a data folder to begin with there is nothing to carry or protect.
NothingFound == ~existed.data => ~Exists("old") /\ Absent("dest") /\ Absent("staging")

\* Which folders exist at which step.
StepFolders ==
  /\ pc \in {"write_prepared", "copy_backup", "copy_settings", "write_protecting", "protect"}
       => (existed.data <=> Exists("dest"))
  /\ pc \in {"write_prepared", "copy_backup", "copy_settings", "write_protecting", "protect",
             "write_protected", "carry_entries", "write_activating", "activate"}
       => Exists("staging")
  /\ pc \in {"write_activated", "write_writing_settings", "save_settings",
             "write_settings_activated", "validate", "remove_bundle", "write_cleanup_pending"}
            \cup CleanupSteps => Exists("dest")
  /\ pc \in {"rb_return_staged", "rb_set_aside", "rb_return_active", "rb_reinstate"}
       => Exists("old") /\ existed.data
  /\ pc \in {"rb_reactivate", "rb_remove_aside"} => existed.data
  /\ pc \in {"rb_return_active", "rb_reactivate"} => Exists("rollbackNew")
  /\ pc = "rb_reinstate" /\ aside => Exists("rollbackNew")
  /\ pc = "rb_remove_dest" => ~existed.data

\* At these steps a folder has been emptied of the user's files.
Emptied ==
  /\ pc \in {"rb_return_staged", "rb_set_aside"} => ~aside
  /\ pc = "rb_reinstate" /\ aside => Absent("rollbackNew")
  /\ pc = "rb_remove_aside" => Absent("rollbackNew")
  /\ pc = "cl_old" => Absent("old")

IInv ==
  /\ TypeOK
  /\ UserFilesPreserved
  /\ StagedEntries
  /\ FoldersHold
  /\ NothingFound
  /\ StepFolders
  /\ Emptied

-----------------------------------------------------------------------------
(* File operations *)

\* Every outcome of a file operation: done and on to the next step, or not
\* done, half done or done, and on to the failure step or killed.
LEMMA OperationOutcomes ==
  ASSUME TypeOK, NEW effect, NEW halfway, NEW next, NEW failed,
         Operation(effect, halfway, next, failed)
  PROVE  /\ \/ disk' = effect /\ pc' = next
            \/ disk' \in {disk, effect} \cup halfway /\ pc' \in {failed, "down"}
         /\ faults' \in 0..MaxFaults /\ crashes' \in 0..MaxCrashes /\ voided' \in SUBSET Promises
  BY BoundsAssumption DEF Operation, Interrupted, TypeOK

\* What the operations make of a disk: types, folders and files.
LEMMA RenameEffect ==
  ASSUME TypeOK, NEW from \in Places, NEW to \in Places, from # to
  PROVE  /\ Rename(from, to) \in Disk
         /\ Rename(from, to).journal = disk.journal
         /\ Rename(from, to).dir[from] = "absent"
         /\ Rename(from, to).dir[to] = disk.dir[from]
         /\ \A p \in Places \ {from, to} : Rename(from, to).dir[p] = disk.dir[p]
         /\ \A e \in Entries : Rename(from, to).at[e]
                                 = IF disk.at[e] = from THEN to ELSE disk.at[e]
  BY DEF TypeOK, Disk, Rename, Places, Contents, Whereabouts

LEMMA RemoveEffect ==
  ASSUME TypeOK, NEW place \in Places, NEW d \in {Remove(place), Gut(place)}
  PROVE  /\ d \in Disk
         /\ d.journal = disk.journal
         /\ disk.dir[place] = "absent" => d.dir[place] = "absent"
         /\ \A p \in Places \ {place} : d.dir[p] = disk.dir[p]
         /\ \A e \in Entries : d.at[e] = IF disk.at[e] = place THEN "deleted" ELSE disk.at[e]
<1>1. CASE d = Remove(place)
  BY <1>1 DEF TypeOK, Disk, Remove, Places, Contents, Whereabouts
<1>2. CASE d = Gut(place)
  BY <1>2 DEF TypeOK, Disk, Gut, Places, Contents, Whereabouts
<1>. QED BY <1>1, <1>2

LEMMA MoveEffect ==
  ASSUME TypeOK, NEW e \in Entries, NEW to \in Places
  PROVE  /\ Move(e, to) \in Disk
         /\ Move(e, to).journal = disk.journal
         /\ Move(e, to).dir = disk.dir
         /\ \A f \in Entries : Move(e, to).at[f] = IF f = e THEN to ELSE disk.at[f]
  BY DEF TypeOK, Disk, Move, Whereabouts

LEMMA JournalEffect ==
  ASSUME TypeOK, NEW state \in JournalStates \cup {"none"}
  PROVE  /\ WithJournal(state) \in Disk
         /\ WithJournal(state).journal = state
         /\ WithJournal(state).dir = disk.dir
         /\ WithJournal(state).at = disk.at
  BY DEF TypeOK, Disk, WithJournal

LEMMA SetAsideEffect ==
  ASSUME TypeOK
  PROVE  /\ SetAside \in Disk
         /\ SetAside.journal = disk.journal
         /\ SetAside.dir["dest"] = "absent"
         /\ SetAside.dir["rollbackNew"] = disk.dir["dest"]
         /\ \A p \in {"staging", "old"} : SetAside.dir[p] = disk.dir[p]
         /\ \A e \in Entries : SetAside.at[e] = IF disk.at[e] = "rollbackNew" THEN "stranded"
                                            ELSE IF disk.at[e] = "dest" THEN "rollbackNew"
                                            ELSE disk.at[e]
  BY DEF TypeOK, Disk, SetAside, Places, Contents, Whereabouts

-----------------------------------------------------------------------------
(* The steps *)

\* Every step of the restore itself keeps the invariant.
LEMMA RestoreStepInv ==
  ASSUME IInv, RestoreStep
  PROVE  IInv'
<1>. USE DEF IInv, TypeOK, UserFilesPreserved, StagedEntries, FoldersHold, NothingFound,
          StepFolders, Emptied, Absent, Exists, Held, Locals, Pcs, Places, JournalStates,
          ForwardSteps, DiscardSteps, RollbackSteps, CleanupSteps, Rest
<1>1. CASE WritePrepared
  <2>1. /\ pc = "write_prepared" /\ UNCHANGED <<recovering, aside, clean, existed>>
        /\ faults' \in 0..MaxFaults /\ crashes' \in 0..MaxCrashes /\ voided' \in SUBSET Promises
        /\ \/ disk' = WithJournal("prepared") /\ pc' = "copy_backup"
           \/ disk' \in {disk, WithJournal("prepared")} /\ pc' \in {"discard_staging", "down"}
    BY <1>1, OperationOutcomes DEF WritePrepared, JournalOp
  <2>. QED BY <2>1, JournalEffect
<1>2. CASE CopyBackup
  <2>1. /\ pc = "copy_backup" /\ UNCHANGED <<recovering, aside, clean, existed>>
        /\ faults' \in 0..MaxFaults /\ crashes' \in 0..MaxCrashes /\ voided' \in SUBSET Promises
        /\ \/ disk' = [disk EXCEPT !.dir["staging"] = "staged"] /\ pc' = "copy_settings"
           \/ disk' \in {disk, [disk EXCEPT !.dir["staging"] = "staged"],
                          [disk EXCEPT !.dir["staging"] = "partial"]}
              /\ pc' \in {"discard_staging", "down"}
    BY <1>2, OperationOutcomes DEF CopyBackup
  <2>. QED BY <2>1 DEF Disk, Contents
<1>3. CASE CopySettings
  <2>1. /\ pc = "copy_settings" /\ UNCHANGED <<recovering, aside, clean, existed>>
        /\ faults' \in 0..MaxFaults /\ crashes' \in 0..MaxCrashes /\ voided' \in SUBSET Promises
        /\ disk' \in Disk /\ disk'.dir = disk.dir /\ disk'.at = disk.at /\ disk'.journal = disk.journal
           /\ pc' \in {"write_protecting", "discard_staging", "down"}
    BY <1>3, OperationOutcomes DEF CopySettings, Disk, Settings, Skip
  <2>. QED BY <2>1
<1>4. CASE WriteProtecting
  <2>1. /\ pc = "write_protecting" /\ UNCHANGED <<recovering, aside, clean, existed>>
        /\ faults' \in 0..MaxFaults /\ crashes' \in 0..MaxCrashes /\ voided' \in SUBSET Promises
        /\ \/ disk' = WithJournal("protecting") /\ pc' = "protect"
           \/ disk' \in {disk, WithJournal("protecting")} /\ pc' \in {"discard_staging", "down"}
    BY <1>4, OperationOutcomes DEF WriteProtecting, JournalOp
  <2>. QED BY <2>1, JournalEffect
<1>5. CASE Protect
  <2>1. /\ pc = "protect" /\ UNCHANGED <<recovering, aside, clean, existed>>
        /\ faults' \in 0..MaxFaults /\ crashes' \in 0..MaxCrashes /\ voided' \in SUBSET Promises
        /\ \/ existed.data /\ disk' = Rename("dest", "old") /\ pc' = "write_protected"
           \/ existed.data /\ disk' \in {disk, Rename("dest", "old")} /\ pc' \in {"discard_staging", "down"}
           \/ ~existed.data /\ disk' = disk /\ pc' = "write_protected"
    BY <1>5, OperationOutcomes DEF Protect, RenameOp, Skip
  <2>. QED BY <2>1, RenameEffect
<1>6. CASE WriteProtected
  <2>1. /\ pc = "write_protected" /\ UNCHANGED <<recovering, aside, clean, existed>>
        /\ faults' \in 0..MaxFaults /\ crashes' \in 0..MaxCrashes /\ voided' \in SUBSET Promises
        /\ \/ disk' = WithJournal("protected") /\ pc' = "carry_entries"
           \/ disk' \in {disk, WithJournal("protected")} /\ pc' \in {"rb_inspect", "down"}
    BY <1>6, OperationOutcomes DEF WriteProtected, JournalOp
  <2>. QED BY <2>1, JournalEffect
<1>7. CASE CarryEntries
  <2>1. /\ pc = "carry_entries" /\ UNCHANGED <<recovering, aside, clean, existed>>
        /\ faults' \in 0..MaxFaults /\ crashes' \in 0..MaxCrashes /\ voided' \in SUBSET Promises
        /\ \/ disk' = disk /\ pc' = "write_activating"
           \/ existed.data /\ \E e \in Held("old") : disk' \in {disk, Move(e, "staging")}
              /\ pc' \in {"carry_entries", "rb_inspect", "down"}
    BY <1>7, OperationOutcomes DEF CarryEntries, MoveEntries, Skip
  <2>. QED BY <2>1, MoveEffect
<1>8. CASE WriteActivating
  <2>1. /\ pc = "write_activating" /\ UNCHANGED <<recovering, aside, clean, existed>>
        /\ faults' \in 0..MaxFaults /\ crashes' \in 0..MaxCrashes /\ voided' \in SUBSET Promises
        /\ \/ disk' = WithJournal("activating") /\ pc' = "activate"
           \/ disk' \in {disk, WithJournal("activating")} /\ pc' \in {"rb_inspect", "down"}
    BY <1>8, OperationOutcomes DEF WriteActivating, JournalOp
  <2>. QED BY <2>1, JournalEffect
<1>9. CASE Activate
  <2>1. /\ pc = "activate" /\ UNCHANGED <<recovering, aside, clean, existed>>
        /\ faults' \in 0..MaxFaults /\ crashes' \in 0..MaxCrashes /\ voided' \in SUBSET Promises
        /\ \/ disk' = Rename("staging", "dest") /\ pc' = "write_activated"
           \/ disk' \in {disk, Rename("staging", "dest")} /\ pc' \in {"rb_inspect", "down"}
    BY <1>9, OperationOutcomes DEF Activate, RenameOp
  <2>. QED BY <2>1, RenameEffect
<1>10. CASE WriteActivated
  <2>1. /\ pc = "write_activated" /\ UNCHANGED <<recovering, aside, clean, existed>>
        /\ faults' \in 0..MaxFaults /\ crashes' \in 0..MaxCrashes /\ voided' \in SUBSET Promises
        /\ \/ disk' = WithJournal("activated") /\ pc' = "write_writing_settings"
           \/ disk' \in {disk, WithJournal("activated")} /\ pc' \in {"rb_inspect", "down"}
    BY <1>10, OperationOutcomes DEF WriteActivated, JournalOp
  <2>. QED BY <2>1, JournalEffect
<1>11. CASE WriteWritingSettings
  <2>1. /\ pc = "write_writing_settings" /\ UNCHANGED <<recovering, aside, clean, existed>>
        /\ faults' \in 0..MaxFaults /\ crashes' \in 0..MaxCrashes /\ voided' \in SUBSET Promises
        /\ \/ disk' = WithJournal("writing_settings") /\ pc' = "save_settings"
           \/ disk' \in {disk, WithJournal("writing_settings")} /\ pc' \in {"rb_inspect", "down"}
    BY <1>11, OperationOutcomes DEF WriteWritingSettings, JournalOp
  <2>. QED BY <2>1, JournalEffect
<1>12. CASE SaveSettings
  <2>1. /\ pc = "save_settings" /\ UNCHANGED <<recovering, aside, clean, existed>>
        /\ faults' \in 0..MaxFaults /\ crashes' \in 0..MaxCrashes /\ voided' \in SUBSET Promises
        /\ disk' \in Disk /\ disk'.dir = disk.dir /\ disk'.at = disk.at /\ disk'.journal = disk.journal
           /\ pc' \in {"write_settings_activated", "rb_inspect", "down"}
    BY <1>12, OperationOutcomes DEF SaveSettings, Disk, Settings
  <2>. QED BY <2>1
<1>13. CASE WriteSettingsActivated
  <2>1. /\ pc = "write_settings_activated" /\ UNCHANGED <<recovering, aside, clean, existed>>
        /\ faults' \in 0..MaxFaults /\ crashes' \in 0..MaxCrashes /\ voided' \in SUBSET Promises
        /\ \/ disk' = WithJournal("settings_activated") /\ pc' = "validate"
           \/ disk' \in {disk, WithJournal("settings_activated")} /\ pc' \in {"rb_inspect", "down"}
    BY <1>13, OperationOutcomes DEF WriteSettingsActivated, JournalOp
  <2>. QED BY <2>1, JournalEffect
<1>14. CASE Validate
  <2>1. /\ pc = "validate" /\ UNCHANGED <<recovering, aside, clean, existed>>
        /\ faults' \in 0..MaxFaults /\ crashes' \in 0..MaxCrashes /\ voided' \in SUBSET Promises
        /\ disk' = disk /\ pc' \in {"remove_bundle", "rb_inspect", "down"}
    BY <1>14, OperationOutcomes DEF Validate
  <2>. QED BY <2>1
<1>15. CASE RemoveBundle
  <2>1. /\ pc = "remove_bundle" /\ UNCHANGED <<recovering, aside, clean, existed>>
        /\ faults' \in 0..MaxFaults /\ crashes' \in 0..MaxCrashes /\ voided' \in SUBSET Promises
        /\ disk' \in {disk, [disk EXCEPT !.dir["dest"] = IF @ = "staged" THEN "new" ELSE @]}
           /\ pc' \in {"cl_inspect", "write_cleanup_pending", "rb_inspect", "blocked", "down"}
    BY <1>15, OperationOutcomes DEF RemoveBundle, Refused
  <2>. QED BY <2>1 DEF Disk, Contents
<1>16. CASE WriteCleanupPending
  <2>1. /\ pc = "write_cleanup_pending" /\ UNCHANGED <<recovering, aside, clean, existed>>
        /\ faults' \in 0..MaxFaults /\ crashes' \in 0..MaxCrashes /\ voided' \in SUBSET Promises
        /\ \/ disk' = WithJournal("cleanup_pending") /\ pc' = "cl_inspect"
           \/ disk' \in {disk, WithJournal("cleanup_pending")} /\ pc' \in {"blocked", "down"}
    BY <1>16, OperationOutcomes DEF WriteCleanupPending, JournalOp, Refused
  <2>. QED BY <2>1, JournalEffect
<1>. QED BY <1>1, <1>2, <1>3, <1>4, <1>5, <1>6, <1>7, <1>8, <1>9, <1>10, <1>11, <1>12, <1>13, <1>14, <1>15, <1>16 DEF RestoreStep

\* Every step of discarding keeps the invariant.
LEMMA DiscardStepInv ==
  ASSUME IInv, DiscardStep
  PROVE  IInv'
<1>. USE DEF IInv, TypeOK, UserFilesPreserved, StagedEntries, FoldersHold, NothingFound,
          StepFolders, Emptied, Absent, Exists, Held, Locals, Pcs, Places, JournalStates,
          ForwardSteps, DiscardSteps, RollbackSteps, CleanupSteps, Rest
<1>1. CASE DiscardStaging
  <2>1. /\ pc = "discard_staging" /\ UNCHANGED <<recovering, aside, existed>>
        /\ faults' \in 0..MaxFaults /\ crashes' \in 0..MaxCrashes /\ voided' \in SUBSET Promises
        /\ disk' \in {disk, Remove("staging"), Gut("staging")} /\ pc' \in {"discard_settings_backup", "blocked", "down"}
           /\ clean' \in BOOLEAN
    BY <1>1, OperationOutcomes DEF DiscardStaging, RemoveOp, Refused
  <2>. QED BY <2>1, RemoveEffect
<1>2. CASE DiscardSettingsBackup
  <2>1. /\ pc = "discard_settings_backup" /\ UNCHANGED <<recovering, aside, existed>>
        /\ faults' \in 0..MaxFaults /\ crashes' \in 0..MaxCrashes /\ voided' \in SUBSET Promises
        /\ disk' \in Disk /\ disk'.dir = disk.dir /\ disk'.at = disk.at /\ disk'.journal = disk.journal /\ clean' \in BOOLEAN
           /\ pc' \in {"discard_journal", "blocked", "down"}
    BY <1>2, OperationOutcomes DEF DiscardSettingsBackup, Disk, Settings, Skip, Refused
  <2>. QED BY <2>1
<1>3. CASE DiscardJournal
  <2>1. /\ pc = "discard_journal" /\ UNCHANGED <<recovering, aside, clean, existed>>
        /\ faults' \in 0..MaxFaults /\ crashes' \in 0..MaxCrashes /\ voided' \in SUBSET Promises
        /\ disk' \in {disk, WithJournal("none")} /\ pc' \in {"ready", "blocked", "down"}
    BY <1>3, OperationOutcomes DEF DiscardJournal, JournalOp, Skip, AfterDiscard, Refused
  <2>. QED BY <2>1, JournalEffect
<1>. QED BY <1>1, <1>2, <1>3 DEF DiscardStep

\* Every step of the rollback keeps the invariant.
LEMMA RollbackStepInv ==
  ASSUME IInv, RollbackStep
  PROVE  IInv'
<1>. USE DEF IInv, TypeOK, UserFilesPreserved, StagedEntries, FoldersHold, NothingFound,
          StepFolders, Emptied, Absent, Exists, Held, Locals, Pcs, Places, JournalStates,
          ForwardSteps, DiscardSteps, RollbackSteps, CleanupSteps, Rest
<1>1. CASE RollbackInspect
  <2>1. /\ pc = "rb_inspect" /\ UNCHANGED <<disk, recovering, clean, existed>> /\ aside' = FALSE
         /\ UNCHANGED <<faults, crashes>>
        /\ faults' \in 0..MaxFaults /\ crashes' \in 0..MaxCrashes /\ voided' \in SUBSET Promises
        /\ \/ pc' = "blocked"
           \/ pc' = "rb_return_staged" /\ existed.data /\ Exists("old")
           \/ pc' = "rb_remove_dest" /\ ~existed.data
    BY <1>1 DEF RollbackInspect, Restorable, Refused
  <2>2. TypeOK' BY <2>1
  <2>3. UserFilesPreserved' /\ FoldersHold' /\ NothingFound' BY <2>1
  <2>4. StagedEntries' BY <2>1
  <2>5. StepFolders' BY <2>1
  <2>6. Emptied' BY <2>1
  <2>. QED BY <2>2, <2>3, <2>4, <2>5, <2>6
<1>2. CASE RollbackReturnStaged
  <2>1. /\ pc = "rb_return_staged" /\ UNCHANGED <<recovering, aside, clean, existed>>
        /\ faults' \in 0..MaxFaults /\ crashes' \in 0..MaxCrashes /\ voided' \in SUBSET Promises
        /\ \/ disk' = disk /\ pc' = "rb_set_aside" /\ Held("staging") = {}
           \/ \E e \in Held("staging") : disk' \in {disk, Move(e, "old")}
              /\ pc' \in {"rb_return_staged", "blocked", "down"}
    BY <1>2, OperationOutcomes DEF RollbackReturnStaged, MoveEntries, Skip, Refused
  <2>. QED BY <2>1, MoveEffect
<1>3. CASE RollbackSetAside
  <2>1. /\ pc = "rb_set_aside" /\ UNCHANGED <<recovering, clean, existed>>
        /\ faults' \in 0..MaxFaults /\ crashes' \in 0..MaxCrashes /\ voided' \in SUBSET Promises
        /\ \/ ~aside' /\ aside' \in BOOLEAN /\ disk' = disk /\ pc' = "rb_reinstate"
           \/ aside' = TRUE /\ disk' = SetAside /\ pc' = "rb_return_active" /\ Exists("dest")
           \/ aside' = TRUE /\ disk' \in {disk, SetAside} /\ pc' \in {"blocked", "down"} /\ Exists("dest")
    BY <1>3, OperationOutcomes DEF RollbackSetAside, Skip, Refused
  <2>2. CASE disk' = disk
    BY <2>1, <2>2, SetAsideEffect
  <2>3. CASE disk' = SetAside
    <3>1. /\ disk' \in Disk /\ disk'.journal = disk.journal
          /\ disk'.dir["dest"] = "absent" /\ disk'.dir["rollbackNew"] = disk.dir["dest"]
          /\ \A p \in {"staging", "old"} : disk'.dir[p] = disk.dir[p]
          /\ \A e \in Entries : disk'.at[e] = IF disk.at[e] = "rollbackNew" THEN "stranded"
                                             ELSE IF disk.at[e] = "dest" THEN "rollbackNew"
                                             ELSE disk.at[e]
      BY <2>3, SetAsideEffect
    <3>2. TypeOK' BY <2>1, <3>1
    <3>3. UserFilesPreserved' BY <3>1
    <3>4. StagedEntries' BY <2>1, <3>1
    <3>5. FoldersHold' /\ NothingFound' BY <2>1, <3>1
    <3>6. StepFolders' /\ Emptied' BY <2>1, <2>3, <3>1
    <3>. QED BY <3>2, <3>3, <3>4, <3>5, <3>6
  <2>. QED BY <2>1, <2>2, <2>3
<1>4. CASE RollbackReturnActive
  <2>1. /\ pc = "rb_return_active" /\ UNCHANGED <<recovering, aside, clean, existed>>
        /\ faults' \in 0..MaxFaults /\ crashes' \in 0..MaxCrashes /\ voided' \in SUBSET Promises
        /\ \/ disk' = disk /\ pc' = "rb_reinstate" /\ Held("rollbackNew") = {}
           \/ \E e \in Held("rollbackNew") : disk' \in {disk, Move(e, "old")}
              /\ pc' \in {"rb_return_active", "rb_reactivate", "down"}
    BY <1>4, OperationOutcomes DEF RollbackReturnActive, MoveEntries, Skip
  <2>. QED BY <2>1, MoveEffect
<1>5. CASE RollbackReinstate
  <2>1. /\ pc = "rb_reinstate" /\ UNCHANGED <<recovering, aside, clean, existed>>
        /\ faults' \in 0..MaxFaults /\ crashes' \in 0..MaxCrashes /\ voided' \in SUBSET Promises
        /\ \/ disk' = Rename("old", "dest")
              /\ pc' = IF aside THEN "rb_remove_aside" ELSE "rb_settings"
           \/ disk' \in {disk, Rename("old", "dest")}
              /\ pc' \in {"rb_reactivate", "blocked", "down"} /\ (pc' = "rb_reactivate" => aside)
    BY <1>5, OperationOutcomes DEF RollbackReinstate, RenameOp, Refused
  <2>. QED BY <2>1, RenameEffect
<1>6. CASE RollbackReactivate
  <2>1. /\ pc = "rb_reactivate" /\ UNCHANGED <<recovering, aside, clean, existed>>
        /\ faults' \in 0..MaxFaults /\ crashes' \in 0..MaxCrashes /\ voided' \in SUBSET Promises
        /\ \/ disk' = disk /\ pc' = "blocked"
           \/ disk' \in {disk, Rename("rollbackNew", "dest")} /\ pc' \in {"blocked", "down"}
              /\ ~Exists("dest")
    BY <1>6, OperationOutcomes DEF RollbackReactivate, RenameOp, Skip, Refused
  <2>. QED BY <2>1, RenameEffect
<1>7. CASE RollbackRemoveAside
  <2>1. /\ pc = "rb_remove_aside" /\ UNCHANGED <<recovering, aside, clean, existed>>
        /\ faults' \in 0..MaxFaults /\ crashes' \in 0..MaxCrashes /\ voided' \in SUBSET Promises
        /\ disk' \in {disk, Remove("rollbackNew"), Gut("rollbackNew")} /\ pc' \in {"rb_settings", "blocked", "down"}
    BY <1>7, OperationOutcomes DEF RollbackRemoveAside, RemoveOp, Refused
  <2>. QED BY <2>1, RemoveEffect
<1>8. CASE RollbackRemoveDest
  <2>1. /\ pc = "rb_remove_dest" /\ UNCHANGED <<recovering, aside, clean, existed>>
        /\ faults' \in 0..MaxFaults /\ crashes' \in 0..MaxCrashes /\ voided' \in SUBSET Promises
        /\ disk' \in {disk, Remove("dest"), Gut("dest")} /\ pc' \in {"rb_settings", "blocked", "down"}
    BY <1>8, OperationOutcomes DEF RollbackRemoveDest, RemoveOp, Refused
  <2>. QED BY <2>1, RemoveEffect
<1>9. CASE RollbackSettings
  <2>1. /\ pc = "rb_settings" /\ UNCHANGED <<recovering, aside, clean, existed>>
        /\ faults' \in 0..MaxFaults /\ crashes' \in 0..MaxCrashes /\ voided' \in SUBSET Promises
        /\ disk' \in Disk /\ disk'.dir = disk.dir /\ disk'.at = disk.at /\ disk'.journal = disk.journal
           /\ pc' \in {"rb_staging", "blocked", "down"}
    BY <1>9, OperationOutcomes DEF RollbackSettings, Disk, Settings, Refused
  <2>. QED BY <2>1
<1>10. CASE RollbackStaging
  <2>1. /\ pc = "rb_staging" /\ UNCHANGED <<recovering, aside, clean, existed>>
        /\ faults' \in 0..MaxFaults /\ crashes' \in 0..MaxCrashes /\ voided' \in SUBSET Promises
        /\ disk' \in {disk, Remove("staging"), Gut("staging")} /\ pc' \in {"rb_settings_backup", "blocked", "down"}
    BY <1>10, OperationOutcomes DEF RollbackStaging, RemoveOp, Refused
  <2>. QED BY <2>1, RemoveEffect
<1>11. CASE RollbackSettingsBackup
  <2>1. /\ pc = "rb_settings_backup" /\ UNCHANGED <<recovering, aside, clean, existed>>
        /\ faults' \in 0..MaxFaults /\ crashes' \in 0..MaxCrashes /\ voided' \in SUBSET Promises
        /\ disk' \in Disk /\ disk'.dir = disk.dir /\ disk'.at = disk.at /\ disk'.journal = disk.journal
           /\ pc' \in {"rb_journal", "blocked", "down"}
    BY <1>11, OperationOutcomes DEF RollbackSettingsBackup, Disk, Settings, Refused
  <2>. QED BY <2>1
<1>12. CASE RollbackJournal
  <2>1. /\ pc = "rb_journal" /\ UNCHANGED <<recovering, aside, clean, existed>>
        /\ faults' \in 0..MaxFaults /\ crashes' \in 0..MaxCrashes /\ voided' \in SUBSET Promises
        /\ disk' \in {disk, WithJournal("none")} /\ pc' \in {"ready", "blocked", "down"}
    BY <1>12, OperationOutcomes DEF RollbackJournal, JournalOp, Refused
  <2>. QED BY <2>1, JournalEffect
<1>. QED BY <1>1, <1>2, <1>3, <1>4, <1>5, <1>6, <1>7, <1>8, <1>9, <1>10, <1>11, <1>12 DEF RollbackStep

\* Every step of the cleanup keeps the invariant.
LEMMA CleanupStepInv ==
  ASSUME IInv, CleanupStep
  PROVE  IInv'
<1>. USE DEF IInv, TypeOK, UserFilesPreserved, StagedEntries, FoldersHold, NothingFound,
          StepFolders, Emptied, Absent, Exists, Held, Locals, Pcs, Places, JournalStates,
          ForwardSteps, DiscardSteps, RollbackSteps, CleanupSteps, Rest
<1>1. CASE CleanupInspect
  <2>1. /\ pc = "cl_inspect" /\ UNCHANGED <<recovering, aside, clean, existed>>
        /\ faults' \in 0..MaxFaults /\ crashes' \in 0..MaxCrashes /\ voided' \in SUBSET Promises
        /\ disk' = disk /\ pc' \in {"cl_staging", "blocked"}
    BY <1>1 DEF CleanupInspect, Refused
  <2>. QED BY <2>1
<1>2. CASE CleanupStaging
  <2>1. /\ pc = "cl_staging" /\ UNCHANGED <<recovering, aside, clean, existed>>
        /\ faults' \in 0..MaxFaults /\ crashes' \in 0..MaxCrashes /\ voided' \in SUBSET Promises
        /\ disk' \in {disk, Remove("staging"), Gut("staging")} /\ pc' \in {"cl_return_entries", "blocked", "down"}
    BY <1>2, OperationOutcomes DEF CleanupStaging, RemoveOp, Refused
  <2>. QED BY <2>1, RemoveEffect
<1>3. CASE CleanupReturnEntries
  <2>1. /\ pc = "cl_return_entries" /\ UNCHANGED <<recovering, aside, clean, existed>>
        /\ faults' \in 0..MaxFaults /\ crashes' \in 0..MaxCrashes /\ voided' \in SUBSET Promises
        /\ \/ disk' = disk /\ pc' = "cl_old" /\ Held("old") = {}
           \/ \E e \in Held("old") : disk' \in {disk, Move(e, "dest")}
              /\ pc' \in {"cl_return_entries", "blocked", "down"}
    BY <1>3, OperationOutcomes DEF CleanupReturnEntries, MoveEntries, Skip, Refused
  <2>. QED BY <2>1, MoveEffect
<1>4. CASE CleanupOld
  <2>1. /\ pc = "cl_old" /\ UNCHANGED <<recovering, aside, clean, existed>>
        /\ faults' \in 0..MaxFaults /\ crashes' \in 0..MaxCrashes /\ voided' \in SUBSET Promises
        /\ disk' \in {disk, Remove("old"), Gut("old")} /\ pc' \in {"cl_settings_backup", "blocked", "down"}
    BY <1>4, OperationOutcomes DEF CleanupOld, RemoveOp, Refused
  <2>. QED BY <2>1, RemoveEffect
<1>5. CASE CleanupSettingsBackup
  <2>1. /\ pc = "cl_settings_backup" /\ UNCHANGED <<recovering, aside, clean, existed>>
        /\ faults' \in 0..MaxFaults /\ crashes' \in 0..MaxCrashes /\ voided' \in SUBSET Promises
        /\ disk' \in Disk /\ disk'.dir = disk.dir /\ disk'.at = disk.at /\ disk'.journal = disk.journal
           /\ pc' \in {"cl_journal", "blocked", "down"}
    BY <1>5, OperationOutcomes DEF CleanupSettingsBackup, Disk, Settings, Refused
  <2>. QED BY <2>1
<1>6. CASE CleanupJournal
  <2>1. /\ pc = "cl_journal" /\ UNCHANGED <<recovering, aside, clean, existed>>
        /\ faults' \in 0..MaxFaults /\ crashes' \in 0..MaxCrashes /\ voided' \in SUBSET Promises
        /\ disk' \in {disk, WithJournal("none")} /\ pc' \in {"ready", "blocked", "down"}
    BY <1>6, OperationOutcomes DEF CleanupJournal, JournalOp, Refused
  <2>. QED BY <2>1, JournalEffect
<1>. QED BY <1>1, <1>2, <1>3, <1>4, <1>5, <1>6 DEF CleanupStep

\* So does beginning a restore: what is absent holds no file of the user.
LEMMA BeginInv ==
  ASSUME IInv, Begin
  PROVE  IInv'
<1>. USE DEF IInv, TypeOK, UserFilesPreserved, StagedEntries, FoldersHold, NothingFound,
          StepFolders, Emptied, Absent, Exists, Pcs, Places, Begin
<1>1. disk' \in Disk BY DEF Disk, Contents, Settings
<1>2. /\ disk'.at = disk.at /\ disk'.journal = "none"
      /\ \A p \in Places \ {"staging"} : disk'.dir[p] = disk.dir[p]
      /\ disk'.dir["staging"] = "empty"
  BY DEF Disk
<1>3. existed' \in [data : BOOLEAN, settings : BOOLEAN] /\ (existed'.data <=> Exists("dest"))
  OBVIOUS
<1>4. Absent("staging") BY DEF JournalStates
<1>5. TypeOK' BY <1>1, <1>3 DEF ForwardSteps
<1>6. UserFilesPreserved' /\ StagedEntries' BY <1>2, <1>4
<1>7. FoldersHold' BY <1>2
<1>8. NothingFound' BY <1>2, <1>3, <1>4
<1>9. StepFolders' BY <1>2, <1>3 DEF CleanupSteps
<1>10. Emptied' OBVIOUS
<1>. QED BY <1>5, <1>6, <1>7, <1>8, <1>9, <1>10

\* A start, whatever it decides to do, only reads.
LEMMA StartInv ==
  ASSUME IInv, Start
  PROVE  IInv'
<1>. USE DEF IInv, TypeOK, UserFilesPreserved, StagedEntries, FoldersHold, NothingFound,
          StepFolders, Emptied, Absent, Exists, Pcs, Places, ForwardSteps, DiscardSteps,
          RollbackSteps, CleanupSteps, Rest
<1>1. /\ pc' \in {"ready", "blocked", "discard_staging", "rb_inspect", "remove_bundle"}
      /\ pc' = "ready" => disk.journal = "none"
      /\ pc' = "discard_staging" => disk.journal \in {"prepared", "protecting"}
      /\ pc' = "remove_bundle" =>
           Exists("dest") /\ disk.journal \in {"settings_activated", "cleanup_pending"}
  <2>1. PICK valid \in DataValid :
          pc' = CASE disk.journal = "none" -> "ready"
                  [] disk.journal # "none" /\ Inconsistent -> Refused
                  [] disk.journal # "none" /\ ~Inconsistent /\ Uncommitted -> "discard_staging"
                  [] disk.journal # "none" /\ ~Inconsistent /\ Activated ->
                       Resolve(valid /\ disk.settings \in {"old", "new"})
                  [] OTHER -> "rb_inspect"
    BY DEF Start
  <2>2. valid => Exists("dest")
    <3>1. CASE disk.dir["dest"] = "partial" BY <3>1
    <3>2. CASE disk.dir["dest"] # "partial"
      <4>1. valid = (disk.dir["dest"] \in {"old", "staged", "new"}) BY <3>2, Zenon DEF DataValid
      <4>. QED BY <4>1
    <3>. QED BY <3>1, <3>2
  <2>3. ASSUME NEW sound \in BOOLEAN
        PROVE  /\ Resolve(sound) \in {"rb_inspect", "blocked", "remove_bundle"}
               /\ Resolve(sound) = "remove_bundle" => sound
    <3>1. CASE sound BY <3>1 DEF Resolve, Refused
    <3>2. CASE ~sound BY <3>2 DEF Resolve, Refused
    <3>. QED BY <3>1, <3>2
  <2>4. (valid /\ disk.settings \in {"old", "new"}) \in BOOLEAN OBVIOUS
  <2>. HIDE DEF IInv, TypeOK
  <2>. QED BY <2>1, <2>2, <2>3, <2>4 DEF Refused, Uncommitted, Activated
<1>2. /\ pc = "down" /\ recovering' \in BOOLEAN /\ clean' \in BOOLEAN
      /\ UNCHANGED <<disk, aside, existed, faults, crashes, voided>>
  BY DEF Start
<1>. QED BY <1>1, <1>2

LEMMA LateEntryInv ==
  ASSUME IInv, LateEntry
  PROVE  IInv'
<1>. USE DEF IInv, TypeOK, UserFilesPreserved, StagedEntries, FoldersHold, NothingFound,
          StepFolders, Emptied, Absent, Exists, Pcs, Places, CleanupSteps
<1>1. PICK e \in Entries : disk.at[e] = "elsewhere" /\ disk' = Move(e, "old")
  BY DEF LateEntry
<1>. QED BY <1>1, MoveEffect DEF LateEntry

\* The invariant is inductive.
LEMMA InvariantStep ==
  ASSUME IInv, [Next]_vars
  PROVE  IInv'
<1>1. CASE Begin BY <1>1, BeginInv
<1>2. CASE Run BY <1>2, RestoreStepInv, DiscardStepInv, RollbackStepInv, CleanupStepInv DEF Run
<1>3. CASE LateEntry BY <1>3, LateEntryInv
<1>4. CASE Start BY <1>4, StartInv
<1>5. CASE Quit
  BY <1>5 DEF Quit, IInv, TypeOK, UserFilesPreserved, StagedEntries, FoldersHold, NothingFound,
     StepFolders, Emptied, Absent, Exists, Pcs, Rest, CleanupSteps
<1>6. CASE UNCHANGED vars
  BY <1>6 DEF vars, IInv, TypeOK, UserFilesPreserved, StagedEntries, FoldersHold, NothingFound,
     StepFolders, Emptied, Absent, Exists
<1>. QED BY <1>1, <1>2, <1>3, <1>4, <1>5, <1>6 DEF Next

LEMMA InvariantInit ==
  ASSUME Init
  PROVE  IInv
<1>. USE BoundsAssumption DEF Init, IInv, TypeOK, UserFilesPreserved, StagedEntries, FoldersHold,
       NothingFound, StepFolders, Emptied, Absent, Exists, Pcs, Places, CleanupSteps
<1>1. PICK data \in BOOLEAN, settings \in {"old", "none"}, present \in SUBSET Entries :
        disk = [dir |-> [p \in Places |-> IF p = "dest" /\ data THEN "old" ELSE "absent"],
                at |-> [e \in Entries |-> IF data /\ e \in present THEN "dest" ELSE "elsewhere"],
                settings |-> settings, settingsBackup |-> "none", journal |-> "none"]
  OBVIOUS
<1>2. disk \in Disk BY <1>1 DEF Disk, Contents, Whereabouts, Settings
<1>3. existed \in [data : BOOLEAN, settings : BOOLEAN] OBVIOUS
<1>4. /\ \A e \in Entries : disk.at[e] \in {"dest", "elsewhere"}
      /\ disk.dir["dest"] = "absent" => \A e \in Entries : disk.at[e] = "elsewhere"
      /\ disk.dir["old"] = "absent" /\ (existed.data <=> Exists("dest"))
  BY <1>1
<1>5. TypeOK
  <2>1. faults \in 0..MaxFaults /\ crashes \in 0..MaxCrashes /\ voided \in SUBSET Promises OBVIOUS
  <2>2. recovering \in BOOLEAN /\ aside \in BOOLEAN /\ clean \in BOOLEAN OBVIOUS
  <2>3. pc \in Rest BY DEF Rest
  <2>. HIDE DEF Init
  <2>. QED BY <1>2, <1>3, <2>1, <2>2, <2>3
<1>6. /\ pc = "ready" /\ aside = FALSE /\ Absent("staging") /\ Absent("old")
      /\ ~Exists("dest") => Absent("dest")
  BY <1>4
<1>. QED BY <1>4, <1>5, <1>6 DEF Rest, ForwardSteps, DiscardSteps, RollbackSteps

-----------------------------------------------------------------------------
\* The invariant holds in every reachable state.
THEOREM InvariantHolds == Spec => []IInv
<1>. QED BY InvariantInit, InvariantStep, PTL DEF Spec

\* Every reachable state is well-typed: in particular the settings are never a
\* partial copy written where nothing was expected, and the counters stay in
\* their bounds, for any bounds.
THEOREM TypeCorrect == Spec => []TypeOK
<1>1. IInv => TypeOK BY DEF IInv
<1>. QED BY <1>1, InvariantHolds, PTL

\* No sequence of failures and crashes, of any number and at any steps, makes a
\* restore, a rollback, a cleanup or a recovery remove a file or folder of the
\* user from the workspace (moveUnmanagedEntries and the removeAll calls).
THEOREM FilesPreserved == Spec => []UserFilesPreserved
<1>1. IInv => UserFilesPreserved BY DEF IInv
<1>. QED BY <1>1, InvariantHolds, PTL

-----------------------------------------------------------------------------
(***************************************************************************)
(* Until the commit a complete copy of the old workspace and of the old     *)
(* settings is on disk.  Which of the two places holds the copy follows     *)
(* from the journal's state, and the journal's state from the program       *)
(* counter, except that a rollback may stop anywhere and be taken up by a   *)
(* later start in any state of the journal.  The invariant therefore says   *)
(* of each state of the journal which contents a start can find, and of     *)
(* each step what it still meets.                                           *)
(***************************************************************************)


\* The state of the journal at each step.
JournalAt ==
  /\ pc = "write_prepared" => disk.journal = "none"
  /\ pc \in {"copy_backup", "copy_settings", "write_protecting"} => disk.journal = "prepared"
  /\ pc \in {"protect", "write_protected"} => disk.journal = "protecting"
  /\ pc \in {"carry_entries", "write_activating"} => disk.journal = "protected"
  /\ pc \in {"activate", "write_activated"} => disk.journal = "activating"
  /\ pc = "write_writing_settings" => disk.journal = "activated"
  /\ pc \in {"save_settings", "write_settings_activated"} => disk.journal = "writing_settings"
  /\ pc \in {"validate", "write_cleanup_pending"} => disk.journal = "settings_activated"
  /\ pc = "remove_bundle" =>
       \/ disk.journal = "settings_activated"
       \/ disk.journal = "cleanup_pending" /\ recovering
  /\ pc \in DiscardSteps => disk.journal \in {"none", "prepared", "protecting"}
  /\ pc \in RollbackSteps => disk.journal \notin {"none", "prepared"}
  /\ pc \in CleanupSteps => disk.journal = "cleanup_pending"

\* Before the commit exactly one of the two places holds the old data; after it
\* the data folder holds the replacement, and nothing is rolled back.
DataKept ==
  /\ existed.data /\ disk.journal \notin {"none", "cleanup_pending"} =>
       /\ disk.dir["old"] \in {"absent", "old"}
       /\ disk.dir["dest"] \in {"absent", "old", "staged", "new"}
       /\ (disk.dir["dest"] = "old") # (disk.dir["old"] = "old")
  /\ existed.data /\ disk.journal = "cleanup_pending" =>
       /\ disk.dir["dest"] \in {"staged", "new"}
       /\ disk.settings \in {"old", "new"}
       /\ pc \notin RollbackSteps
  /\ ~existed.data => disk.dir["dest"] # "old"

DataAt ==
  /\ existed.data /\ pc \in {"write_prepared", "copy_backup", "copy_settings",
                             "write_protecting", "protect"}
       => disk.dir["dest"] = "old" /\ disk.dir["old"] = "absent"
  /\ existed.data /\ pc \in {"write_protected", "carry_entries", "write_activating", "activate"}
       => disk.dir["old"] = "old"
  /\ pc \in {"copy_settings", "write_protecting", "protect", "write_protected",
             "carry_entries", "write_activating", "activate"} => disk.dir["staging"] = "staged"
  /\ existed.data /\ pc \in {"write_activated", "write_writing_settings", "save_settings",
                             "write_settings_activated", "validate", "remove_bundle",
                             "write_cleanup_pending"}
       => disk.dir["dest"] \in {"staged", "new"}
  /\ pc \in {"rb_return_active", "rb_reactivate"} \/ (pc = "rb_reinstate" /\ aside)
       => disk.dir["rollbackNew"] \in {"staged", "new"}

FoundSettings == IF existed.settings THEN "old" ELSE "none"

\* The settings are those the restore found until they are replaced, and their
\* backup is complete from then on.  Without a journal, a workspace that can be
\* replaced has settings of its own or none.
SettingsKept ==
  /\ disk.journal \in {"prepared", "protecting", "protected", "activating", "activated"}
       => disk.settings = FoundSettings
  /\ existed.settings /\ disk.journal \notin {"none", "cleanup_pending"}
       => "old" \in {disk.settings, disk.settingsBackup}
  /\ existed.settings /\ disk.journal \notin {"none", "prepared"}
       => disk.settingsBackup \in {"none", "old"}
  /\ /\ disk.journal = "none" /\ disk.dir["dest"] \in {"old", "absent"} /\ ~Exists("old")
     => disk.settings \in {"old", "none"}

SettingsAt ==
  /\ pc \in {"write_prepared", "rb_staging", "rb_settings_backup", "rb_journal"} \cup DiscardSteps
       => disk.settings = FoundSettings
  /\ existed.settings /\ pc \in {"write_protecting", "protect", "write_protected",
        "carry_entries", "write_activating", "activate", "write_activated",
        "write_writing_settings", "save_settings", "rb_return_staged", "rb_set_aside",
        "rb_return_active", "rb_reinstate", "rb_remove_aside", "rb_remove_dest", "rb_settings"}
       => disk.settingsBackup = "old"
  /\ pc \in {"write_settings_activated", "validate", "remove_bundle", "write_cleanup_pending"}
       => disk.settings \in {"old", "new"}

KeptInv == JournalAt /\ DataKept /\ DataAt /\ SettingsKept /\ SettingsAt

-----------------------------------------------------------------------------
(* What each kind of file operation does to the places, settings and journal *)

SameSettings == disk'.settings = disk.settings /\ disk'.settingsBackup = disk.settingsBackup
SameDirs == disk'.dir = disk.dir
SameJournal == disk'.journal = disk.journal

\* Folder p is now a folder with the contents c, the other places are as before.
NowHolds(p, c) == disk'.dir[p] = c /\ \A q \in Places \ {p} : disk'.dir[q] = disk.dir[q]

LEMMA JournalStep ==
  ASSUME TypeOK, NEW state \in JournalStates \cup {"none"}, NEW next, NEW failed,
         JournalOp(state, next, failed)
  PROVE  /\ SameDirs /\ SameSettings
         /\ \/ disk'.journal = state /\ pc' = next
            \/ disk'.journal \in {disk.journal, state} /\ pc' \in {failed, "down"}
<1>1. \/ disk' = WithJournal(state) /\ pc' = next
      \/ disk' \in {disk, WithJournal(state)} /\ pc' \in {failed, "down"}
  BY OperationOutcomes DEF JournalOp
<1>2. /\ WithJournal(state).dir = disk.dir /\ WithJournal(state).journal = state
      /\ WithJournal(state).settings = disk.settings
      /\ WithJournal(state).settingsBackup = disk.settingsBackup
  BY DEF WithJournal, TypeOK, Disk
<1>. QED BY <1>1, <1>2 DEF SameDirs, SameSettings

LEMMA RenameStep ==
  ASSUME TypeOK, NEW from \in Places, NEW to \in Places, from # to, NEW next, NEW failed,
         RenameOp(from, to, next, failed)
  PROVE  /\ SameJournal /\ SameSettings
         /\ LET renamed == /\ disk'.dir[from] = "absent" /\ disk'.dir[to] = disk.dir[from]
                           /\ \A p \in Places \ {from, to} : disk'.dir[p] = disk.dir[p]
            IN \/ renamed /\ pc' = next
               \/ (renamed \/ SameDirs) /\ pc' \in {failed, "down"}
<1>1. \/ disk' = Rename(from, to) /\ pc' = next
      \/ disk' \in {disk, Rename(from, to)} /\ pc' \in {failed, "down"}
  BY OperationOutcomes DEF RenameOp
<1>2. /\ Rename(from, to).settings = disk.settings
      /\ Rename(from, to).settingsBackup = disk.settingsBackup
  BY DEF Rename, TypeOK, Disk
<1>. QED BY <1>1, <1>2, RenameEffect DEF SameDirs, SameSettings, SameJournal

LEMMA RemoveStep ==
  ASSUME TypeOK, NEW place \in Places, NEW next, NEW failed, RemoveOp(place, next, failed)
  PROVE  /\ SameJournal /\ SameSettings
         /\ \/ NowHolds(place, "absent") /\ pc' = next
            \/ /\ SameDirs \/ NowHolds(place, "absent") \/ NowHolds(place, "partial")
               /\ pc' \in {failed, "down"}
<1>1. \/ disk' = Remove(place) /\ pc' = next
      \/ disk' \in {disk, Remove(place), Gut(place)} /\ pc' \in {failed, "down"}
  BY OperationOutcomes DEF RemoveOp
<1>2. /\ Remove(place).settings = disk.settings /\ Remove(place).journal = disk.journal
      /\ Remove(place).settingsBackup = disk.settingsBackup
      /\ Remove(place).dir[place] = "absent"
      /\ \A q \in Places \ {place} : Remove(place).dir[q] = disk.dir[q]
  BY DEF Remove, TypeOK, Disk
<1>3. /\ Gut(place).settings = disk.settings /\ Gut(place).journal = disk.journal
      /\ Gut(place).settingsBackup = disk.settingsBackup
      /\ Gut(place).dir[place] \in {"absent", "partial"}
      /\ \A q \in Places \ {place} : Gut(place).dir[q] = disk.dir[q]
  BY DEF Gut, TypeOK, Disk
<1>. QED BY <1>1, <1>2, <1>3 DEF SameDirs, SameSettings, SameJournal, NowHolds

LEMMA MoveStep ==
  ASSUME TypeOK, NEW from, NEW to, NEW next, NEW failed, MoveEntries(from, to, next, failed)
  PROVE  /\ SameDirs /\ SameJournal /\ SameSettings
         /\ pc' \in {next, pc, failed, "down"}
<1>1. CASE Skip(next) BY <1>1 DEF Skip, SameDirs, SameSettings, SameJournal
<1>2. ASSUME NEW e \in Held(from), Operation(Move(e, to), {}, pc, failed)
      PROVE  /\ SameDirs /\ SameJournal /\ SameSettings
             /\ pc' \in {next, pc, failed, "down"}
  <2>1. disk' \in {disk, Move(e, to)} /\ pc' \in {pc, failed, "down"}
    BY <1>2, OperationOutcomes
  <2>2. /\ Move(e, to).dir = disk.dir /\ Move(e, to).journal = disk.journal
        /\ Move(e, to).settings = disk.settings
        /\ Move(e, to).settingsBackup = disk.settingsBackup
    BY DEF Move, TypeOK, Disk
  <2>. QED BY <2>1, <2>2 DEF SameDirs, SameSettings, SameJournal
<1>. QED BY <1>1, <1>2 DEF MoveEntries

-----------------------------------------------------------------------------
(* The steps *)

\* Every step of the restore itself keeps the copies.
LEMMA RestoreStepKept ==
  ASSUME IInv, KeptInv, RestoreStep
  PROVE  KeptInv'
<1>. USE DEF KeptInv, JournalAt, DataKept, DataAt, SettingsKept, SettingsAt, FoundSettings,
          SameDirs, SameSettings, SameJournal, NowHolds, Locals, Refused, Exists,
          ForwardSteps, DiscardSteps, RollbackSteps, CleanupSteps, Places, JournalStates
<1>1. CASE WritePrepared
  BY <1>1, JournalStep DEF WritePrepared, IInv
<1>2. CASE CopyBackup
  <2>1. /\ SameSettings /\ SameJournal
        /\ \/ NowHolds("staging", "staged") /\ pc' = "copy_settings"
           \/ /\ SameDirs \/ NowHolds("staging", "staged") \/ NowHolds("staging", "partial")
              /\ pc' \in {"discard_staging", "down"}
    BY <1>2, OperationOutcomes DEF CopyBackup, IInv, TypeOK, Disk
  <2>. QED BY <1>2, <2>1 DEF CopyBackup
<1>3. CASE CopySettings
  <2>1. /\ SameDirs /\ SameJournal /\ disk'.settings = disk.settings
        /\ \/ existed.settings /\ disk'.settingsBackup = disk.settings /\ pc' = "write_protecting"
           \/ ~existed.settings /\ pc' = "write_protecting"
           \/ pc' \in {"discard_staging", "down"}
    BY <1>3, OperationOutcomes DEF CopySettings, IInv, TypeOK, Disk, Skip
  <2>. QED BY <1>3, <2>1 DEF CopySettings
<1>4. CASE WriteProtecting
  BY <1>4, JournalStep DEF WriteProtecting, IInv
<1>5. CASE Protect
  BY <1>5, RenameStep DEF Protect, IInv, Skip
<1>6. CASE WriteProtected
  BY <1>6, JournalStep DEF WriteProtected, IInv
<1>7. CASE CarryEntries
  BY <1>7, MoveStep DEF CarryEntries, IInv, Skip
<1>8. CASE WriteActivating
  BY <1>8, JournalStep DEF WriteActivating, IInv
<1>9. CASE Activate
  BY <1>9, RenameStep DEF Activate, IInv
<1>10. CASE WriteActivated
  BY <1>10, JournalStep DEF WriteActivated, IInv
<1>11. CASE WriteWritingSettings
  BY <1>11, JournalStep DEF WriteWritingSettings, IInv
<1>12. CASE SaveSettings
  <2>1. /\ SameDirs /\ SameJournal /\ disk'.settingsBackup = disk.settingsBackup
        /\ \/ disk'.settings = "new" /\ pc' = "write_settings_activated"
           \/ disk'.settings \in {disk.settings, "new"} /\ pc' \in {"rb_inspect", "down"}
    BY <1>12, OperationOutcomes DEF SaveSettings, IInv, TypeOK, Disk
  <2>. QED BY <1>12, <2>1 DEF SaveSettings
<1>13. CASE WriteSettingsActivated
  BY <1>13, JournalStep DEF WriteSettingsActivated, IInv
<1>14. CASE Validate
  <2>1. SameDirs /\ SameSettings /\ SameJournal /\ pc' \in {"remove_bundle", "rb_inspect", "down"}
    BY <1>14, OperationOutcomes DEF Validate, IInv, TypeOK, Disk
  <2>. QED BY <1>14, <2>1 DEF Validate
<1>15. CASE RemoveBundle
  <2>1. /\ SameSettings /\ SameJournal
        /\ \/ SameDirs
           \/ disk.dir["dest"] = "staged" /\ NowHolds("dest", "new")
    <3>1. disk' \in {disk, [disk EXCEPT !.dir["dest"] = IF @ = "staged" THEN "new" ELSE @]}
      BY <1>15, OperationOutcomes DEF RemoveBundle, IInv
    <3>. QED BY <3>1 DEF IInv, TypeOK, Disk
  <2>2. pc' \in {IF disk.journal = "cleanup_pending" THEN "cl_inspect" ELSE "write_cleanup_pending",
                 IF recovering THEN "blocked" ELSE "rb_inspect", "down"}
    BY <1>15, OperationOutcomes DEF RemoveBundle, IInv
  <2>. QED BY <1>15, <2>1, <2>2 DEF RemoveBundle, IInv, StepFolders
<1>16. CASE WriteCleanupPending
  BY <1>16, JournalStep DEF WriteCleanupPending, IInv
<1>. QED
  BY <1>1, <1>2, <1>3, <1>4, <1>5, <1>6, <1>7, <1>8, <1>9, <1>10, <1>11, <1>12, <1>13, <1>14,
     <1>15, <1>16
  DEF RestoreStep

\* Discarding removes the backup of settings that were not replaced yet.
LEMMA DiscardStepKept ==
  ASSUME IInv, KeptInv, DiscardStep
  PROVE  KeptInv'
<1>. USE DEF KeptInv, JournalAt, DataKept, DataAt, SettingsKept, SettingsAt, FoundSettings,
          SameDirs, SameSettings, SameJournal, NowHolds, Locals, Refused, Exists,
          ForwardSteps, DiscardSteps, RollbackSteps, CleanupSteps, Places, JournalStates
<1>1. CASE DiscardStaging
  BY <1>1, RemoveStep DEF DiscardStaging, IInv
<1>2. CASE DiscardSettingsBackup
  <2>1. /\ SameDirs /\ SameJournal /\ disk'.settings = disk.settings
        /\ disk'.settingsBackup \in {disk.settingsBackup, "none"}
        /\ pc' \in {"discard_journal", "blocked", "down"}
    BY <1>2, OperationOutcomes DEF DiscardSettingsBackup, IInv, TypeOK, Disk, Skip
  <2>. QED BY <1>2, <2>1 DEF DiscardSettingsBackup
<1>3. CASE DiscardJournal
  BY <1>3, JournalStep DEF DiscardJournal, IInv, Skip, AfterDiscard
<1>. QED BY <1>1, <1>2, <1>3 DEF DiscardStep

\* The rollback moves the copy back before it removes anything.
LEMMA RollbackStepKept ==
  ASSUME IInv, KeptInv, RollbackStep
  PROVE  KeptInv'
<1>. USE DEF KeptInv, JournalAt, DataKept, DataAt, SettingsKept, SettingsAt, FoundSettings,
          SameDirs, SameSettings, SameJournal, NowHolds, Locals, Refused, Exists,
          ForwardSteps, DiscardSteps, RollbackSteps, CleanupSteps, Places, JournalStates
<1>1. CASE RollbackInspect
  <2>1. /\ pc = "rb_inspect" /\ disk' = disk /\ existed' = existed /\ aside' = FALSE
        /\ pc' \in {"blocked", "rb_return_staged", "rb_remove_dest", "rb_inspect", "down"}
        /\ pc' \in {"rb_return_staged", "rb_remove_dest"} =>
             (disk.settingsBackup # "none") = existed.settings
    BY <1>1 DEF RollbackInspect, Restorable
  <2>2. JournalAt' /\ DataKept' BY <2>1
  <2>3. DataAt' BY <2>1
  <2>4. SettingsKept' BY <2>1
  <2>5. SettingsAt' BY <2>1
  <2>. QED BY <2>2, <2>3, <2>4, <2>5
<1>2. CASE RollbackReturnStaged
  BY <1>2, MoveStep DEF RollbackReturnStaged, IInv
<1>3. CASE RollbackSetAside
  <2>1. /\ SameSettings /\ SameJournal
        /\ \/ SameDirs /\ pc' = "rb_reinstate" /\ UNCHANGED aside /\ ~Exists("dest")
           \/ SameDirs /\ pc' \in {"blocked", "down"}
           \/ /\ disk'.dir["dest"] = "absent" /\ disk'.dir["rollbackNew"] = disk.dir["dest"]
              /\ \A p \in {"staging", "old"} : disk'.dir[p] = disk.dir[p]
              /\ pc' \in {"rb_return_active", "blocked", "down"} /\ Exists("dest")
    <3>1. /\ SetAside.settings = disk.settings /\ SetAside.settingsBackup = disk.settingsBackup
      BY DEF SetAside, IInv, TypeOK, Disk
    <3>. QED BY <1>3, <3>1, SetAsideEffect, OperationOutcomes DEF RollbackSetAside, Skip, IInv
  <2>. QED BY <1>3, <2>1 DEF RollbackSetAside, IInv, StepFolders, Emptied
<1>4. CASE RollbackReturnActive
  BY <1>4, MoveStep DEF RollbackReturnActive, IInv
<1>5. CASE RollbackReinstate
  BY <1>5, RenameStep DEF RollbackReinstate, IInv, StepFolders
<1>6. CASE RollbackReactivate
  BY <1>6, RenameStep DEF RollbackReactivate, IInv, StepFolders, Skip
<1>7. CASE RollbackRemoveAside
  BY <1>7, RemoveStep DEF RollbackRemoveAside, IInv
<1>8. CASE RollbackRemoveDest
  BY <1>8, RemoveStep DEF RollbackRemoveDest, IInv, StepFolders
<1>9. CASE RollbackSettings
  <2>1. /\ SameDirs /\ SameJournal /\ disk'.settingsBackup = disk.settingsBackup
        /\ LET found == IF existed.settings THEN disk.settingsBackup ELSE "none"
           IN \/ disk'.settings = found /\ pc' = "rb_staging"
              \/ disk'.settings \in {disk.settings, found} /\ pc' \in {"blocked", "down"}
    BY <1>9, OperationOutcomes DEF RollbackSettings, IInv, TypeOK, Disk
  <2>. QED BY <1>9, <2>1 DEF RollbackSettings
<1>10. CASE RollbackStaging
  BY <1>10, RemoveStep DEF RollbackStaging, IInv
<1>11. CASE RollbackSettingsBackup
  <2>1. /\ SameDirs /\ SameJournal /\ disk'.settings = disk.settings
        /\ disk'.settingsBackup \in {disk.settingsBackup, "none"}
        /\ pc' \in {"rb_journal", "blocked", "down"}
    BY <1>11, OperationOutcomes DEF RollbackSettingsBackup, IInv, TypeOK, Disk
  <2>. QED BY <1>11, <2>1 DEF RollbackSettingsBackup
<1>12. CASE RollbackJournal
  BY <1>12, JournalStep DEF RollbackJournal, IInv
<1>. QED
  BY <1>1, <1>2, <1>3, <1>4, <1>5, <1>6, <1>7, <1>8, <1>9, <1>10, <1>11, <1>12
  DEF RollbackStep

\* The cleanup runs after the commit only.
LEMMA CleanupStepKept ==
  ASSUME IInv, KeptInv, CleanupStep
  PROVE  KeptInv'
<1>. USE DEF KeptInv, JournalAt, DataKept, DataAt, SettingsKept, SettingsAt, FoundSettings,
          SameDirs, SameSettings, SameJournal, NowHolds, Locals, Refused, Exists,
          ForwardSteps, DiscardSteps, RollbackSteps, CleanupSteps, Places, JournalStates
<1>1. CASE CleanupInspect
  BY <1>1 DEF CleanupInspect, IInv
<1>2. CASE CleanupStaging
  BY <1>2, RemoveStep DEF CleanupStaging, IInv
<1>3. CASE CleanupReturnEntries
  BY <1>3, MoveStep DEF CleanupReturnEntries, IInv
<1>4. CASE CleanupOld
  BY <1>4, RemoveStep DEF CleanupOld, IInv
<1>5. CASE CleanupSettingsBackup
  <2>1. /\ SameDirs /\ SameJournal /\ disk'.settings = disk.settings
        /\ disk'.settingsBackup \in {disk.settingsBackup, "none"}
        /\ pc' \in {"cl_journal", "blocked", "down"}
    BY <1>5, OperationOutcomes DEF CleanupSettingsBackup, IInv, TypeOK, Disk
  <2>. QED BY <1>5, <2>1 DEF CleanupSettingsBackup
<1>6. CASE CleanupJournal
  BY <1>6, JournalStep DEF CleanupJournal, IInv, StepFolders
<1>. QED BY <1>1, <1>2, <1>3, <1>4, <1>5, <1>6 DEF CleanupStep

\* A restore begins only over a complete workspace or none.
LEMMA BeginKept ==
  ASSUME IInv, KeptInv, Begin
  PROVE  KeptInv'
<1>. USE DEF KeptInv, JournalAt, DataKept, DataAt, SettingsKept, SettingsAt, FoundSettings,
          Exists, ForwardSteps, DiscardSteps, RollbackSteps, CleanupSteps, Places, JournalStates
<1>1. /\ disk'.journal = "none" /\ disk'.settings = disk.settings
      /\ \A p \in Places \ {"staging"} : disk'.dir[p] = disk.dir[p]
  BY DEF Begin, IInv, TypeOK, Disk
<1>2. /\ pc' = "write_prepared" /\ disk.journal = "none"
      /\ disk.dir["dest"] \in {"old", "absent"} /\ ~Exists("old")
      /\ existed'.data = Exists("dest") /\ existed'.settings = (disk.settings # "none")
  BY DEF Begin
<1>3. disk.settings \in {"old", "none"} BY <1>2
<1>. QED BY <1>1, <1>2, <1>3

\* What a start decides, of what it finds.
StartChoice ==
  /\ pc' \in {"ready", "blocked", "discard_staging", "rb_inspect", "remove_bundle"}
  /\ pc' = "ready" => disk.journal = "none"
  /\ pc' = "discard_staging" =>
       /\ disk.journal \in {"prepared", "protecting"} /\ ~Exists("old")
       /\ disk.journal = "protecting" => Exists("dest")
  /\ pc' = "rb_inspect" =>
       /\ disk.journal \notin {"none", "prepared"}
       /\ disk.journal = "cleanup_pending" =>
            ~(disk.dir["dest"] \in {"staged", "new"} /\ disk.settings \in {"old", "new"})
  /\ pc' = "remove_bundle" =>
       /\ disk.journal \in {"settings_activated", "cleanup_pending"}
       /\ disk.settings \in {"old", "new"} /\ Exists("dest")
       /\ disk.journal = "settings_activated" /\ existed.data => Exists("old")

LEMMA StartChooses ==
  ASSUME Start
  PROVE  StartChoice
<1>1. PICK valid \in DataValid :
        pc' = CASE disk.journal = "none" -> "ready"
                [] disk.journal # "none" /\ Inconsistent -> Refused
                [] disk.journal # "none" /\ ~Inconsistent /\ Uncommitted -> "discard_staging"
                [] disk.journal # "none" /\ ~Inconsistent /\ Activated ->
                     Resolve(valid /\ disk.settings \in {"old", "new"})
                [] OTHER -> "rb_inspect"
  BY DEF Start
<1>2. /\ valid => Exists("dest")
      /\ disk.dir["dest"] \in {"staged", "new"} => valid
  <2>1. CASE disk.dir["dest"] = "partial" BY <2>1 DEF Exists
  <2>2. CASE disk.dir["dest"] # "partial"
    <3>1. valid = (disk.dir["dest"] \in {"old", "staged", "new"}) BY <2>2, Zenon DEF DataValid
    <3>. QED BY <3>1 DEF Exists
  <2>. QED BY <2>1, <2>2
<1>3. ASSUME NEW sound \in BOOLEAN
      PROVE  /\ Resolve(sound) \in {"rb_inspect", "blocked", "remove_bundle"}
             /\ Resolve(sound) = "rb_inspect" => ~sound
             /\ Resolve(sound) = "remove_bundle" =>
                  sound /\ (disk.journal = "settings_activated" /\ existed.data => Exists("old"))
  <2>1. CASE sound BY <2>1 DEF Resolve, Refused
  <2>2. CASE ~sound BY <2>2 DEF Resolve, Refused
  <2>. QED BY <2>1, <2>2
<1>4. (valid /\ disk.settings \in {"old", "new"}) \in BOOLEAN OBVIOUS
<1>5. /\ disk.journal = "prepared" /\ ~Inconsistent => Uncommitted /\ ~Exists("old")
      /\ disk.journal = "cleanup_pending" => ~Uncommitted /\ Activated
      /\ Uncommitted => disk.journal \in {"prepared", "protecting"}
      /\ Uncommitted /\ disk.journal = "protecting" => Exists("dest") /\ ~Exists("old")
      /\ Activated => disk.journal \in {"settings_activated", "cleanup_pending"}
  BY DEF Uncommitted, Activated, Inconsistent
<1>. QED BY <1>1, <1>2, <1>3, <1>4, <1>5 DEF Refused, StartChoice

\* A start takes up what it finds: where it commits, the replacement is in place.
LEMMA StartKept ==
  ASSUME IInv, KeptInv, Start
  PROVE  KeptInv'
<1>. USE DEF KeptInv, JournalAt, DataKept, DataAt, SettingsKept, SettingsAt, FoundSettings,
          Exists, ForwardSteps, DiscardSteps, RollbackSteps, CleanupSteps, Places, JournalStates
<1>1. /\ UNCHANGED <<disk, aside, existed>> /\ recovering' = TRUE /\ pc = "down"
  BY DEF Start
<1>2. StartChoice BY StartChooses
<1>3. CASE pc' = "rb_inspect" BY <1>1, <1>2, <1>3 DEF StartChoice
<1>4. CASE pc' = "remove_bundle" BY <1>1, <1>2, <1>4 DEF StartChoice
<1>5. CASE pc' \in {"ready", "blocked", "discard_staging"} BY <1>1, <1>2, <1>5 DEF StartChoice
<1>. QED BY <1>2, <1>3, <1>4, <1>5 DEF StartChoice

\* The invariant is inductive.
LEMMA KeptStep ==
  ASSUME IInv, KeptInv, [Next]_vars
  PROVE  KeptInv'
<1>. USE DEF KeptInv, JournalAt, DataKept, DataAt, SettingsKept, SettingsAt, FoundSettings,
          Exists, DiscardSteps, RollbackSteps, CleanupSteps
<1>1. CASE Begin BY <1>1, BeginKept
<1>2. CASE Run
  BY <1>2, RestoreStepKept, DiscardStepKept, RollbackStepKept, CleanupStepKept DEF Run
<1>3. CASE LateEntry
  <2>1. PICK e \in Entries : disk' = Move(e, "old") BY <1>3 DEF LateEntry
  <2>2. /\ Move(e, "old").settings = disk.settings /\ Move(e, "old").dir = disk.dir
        /\ Move(e, "old").settingsBackup = disk.settingsBackup
        /\ Move(e, "old").journal = disk.journal
    BY DEF Move, IInv, TypeOK, Disk
  <2>. QED BY <1>3, <2>1, <2>2 DEF LateEntry
<1>4. CASE Start BY <1>4, StartKept
<1>5. CASE Quit BY <1>5 DEF Quit
<1>6. CASE UNCHANGED vars BY <1>6 DEF vars
<1>. QED BY <1>1, <1>2, <1>3, <1>4, <1>5, <1>6 DEF Next

LEMMA KeptInit ==
  ASSUME Init
  PROVE  KeptInv
<1>1. PICK data \in BOOLEAN, settings \in {"old", "none"}, present \in SUBSET Entries :
        disk = [dir |-> [p \in Places |-> IF p = "dest" /\ data THEN "old" ELSE "absent"],
                at |-> [e \in Entries |-> IF data /\ e \in present THEN "dest" ELSE "elsewhere"],
                settings |-> settings, settingsBackup |-> "none", journal |-> "none"]
  BY DEF Init
<1>2. /\ disk.journal = "none" /\ disk.settings \in {"old", "none"} /\ pc = "ready"
      /\ disk.dir["dest"] = IF data THEN "old" ELSE "absent"
      /\ existed.data = (disk.dir["dest"] # "absent")
  BY <1>1 DEF Init, Places, Exists
<1>. QED
  BY <1>2 DEF KeptInv, JournalAt, DataKept, DataAt, SettingsKept, SettingsAt, FoundSettings,
     DiscardSteps, RollbackSteps, CleanupSteps

\* Each state of the journal, and each step, meets the copies it relies on.
THEOREM KeptHolds == Spec => [](IInv /\ KeptInv)
<1>. QED BY InvariantInit, InvariantStep, KeptInit, KeptStep, PTL DEF Spec

\* Until the commit there is a complete copy of the old data, in the workspace
\* folder or in the protected one, and of the old settings: whatever a restore,
\* a rollback or a recovery does next, and however often it is interrupted
\* (restoreInventatoryBackupImpl, rollbackRestore).
THEOREM CopyKept == Spec => []OldWorkspaceKept
<1>1. KeptInv => OldWorkspaceKept
  BY DEF KeptInv, DataKept, SettingsKept, OldWorkspaceKept
<1>. QED BY <1>1, KeptHolds, PTL

-----------------------------------------------------------------------------
(* One switch, a coherent workspace and no orphaned copies: the outcome *)

FoundData == IF existed.data THEN "old" ELSE "absent"

IsOld == disk.dir["dest"] = FoundData /\ disk.settings = FoundSettings
IsNew == disk.dir["dest"] = "new" /\ disk.settings = "new"

\* What each step has left behind, whatever was interrupted before.
LeftAt ==
  /\ ~existed.settings => disk.settingsBackup = "none"
  /\ pc = "discard_journal" /\ clean => disk.settingsBackup = "none"
  /\ pc \in {"rb_journal", "cl_journal"} => disk.settingsBackup = "none"
  /\ pc \in {"rb_remove_aside", "rb_settings", "rb_staging", "rb_settings_backup", "rb_journal"}
       => disk.dir["dest"] = FoundData /\ ~Exists("old")
  /\ pc \in {"cl_settings_backup", "cl_journal"} => ~Exists("old")
  /\ pc \in {"write_settings_activated", "validate"} => disk.settings = "new"
  /\ pc \in {"write_activated", "write_writing_settings", "save_settings",
             "write_settings_activated", "validate"} => disk.dir["dest"] \in {"staged", "new"}
  /\ pc = "rb_return_active" => ~Exists("dest")
  /\ pc = "rb_reactivate" /\ Exists("dest") => Absent("rollbackNew")

\* What a start can find in each state of the journal, as long as the outcome
\* is kept: folders are whole, the user's files are in no folder that nobody
\* looks for, and after the commit nothing is rolled back.
Outcome ==
  Keeps("outcome") =>
    /\ disk.dir["dest"] \in {"absent", "old", "staged", "new"}
    /\ ~existed.data /\ disk.journal \in {"prepared", "protecting", "protected"}
         => disk.dir["dest"] = "absent"
    /\ pc \in DiscardSteps \cup {"write_prepared"}
         => disk.dir["dest"] = FoundData /\ ~Exists("old")
    /\ pc = "ready" => disk.journal \in {"none", "prepared", "protecting"}
    /\ pc = "ready" /\ disk.journal # "none" => IsOld
    /\ disk.journal = "none"
         => (IsOld \/ IsNew) /\ ~Exists("old") /\ disk.settingsBackup = "none"
    /\ disk.journal = "settings_activated"
         => disk.settings = "new" \/ disk.dir["dest"] = FoundData
    /\ disk.journal = "cleanup_pending"
         => /\ disk.dir["dest"] \in {"staged", "new"} /\ disk.settings = "new"
            /\ pc \notin RollbackSteps
    /\ pc \in {"write_cleanup_pending"} \cup CleanupSteps => IsNew
    /\ pc = "remove_bundle"
         => disk.settings = "new" /\ disk.dir["dest"] \in {"staged", "new"}
    /\ Absent("stranded")
    /\ pc \notin {"rb_return_active", "rb_reactivate"} => Absent("rollbackNew")

SwitchInv == LeftAt /\ Outcome

-----------------------------------------------------------------------------
(* What an interruption voids, and what each operation does to the entries *)

\* No entry gets into a folder that a rollback sets aside.
NoneAside ==
  \A e \in Entries : disk'.at[e] \in {"stranded", "rollbackNew"} => disk'.at[e] = disk.at[e]

\* A promise that is kept after a step was kept before.
StillKept == Keeps("outcome")' => Keeps("outcome")

LEMMA Interruptions ==
  ASSUME TypeOK, NEW effect, NEW halfway, NEW next, NEW failed,
         Operation(effect, halfway, next, failed)
  PROVE  /\ StillKept
         /\ \/ disk' = effect /\ pc' = next /\ faults' = faults
            \/ /\ disk' \in {disk} \cup halfway /\ pc' = failed /\ faults' # faults
               /\ Keeps("outcome")' => pc \notin {"rb_remove_dest", "rb_reactivate"}
            \/ /\ disk' = effect /\ pc' = failed /\ faults' # faults
               /\ Keeps("outcome")' =>
                    pc \notin {"rb_remove_dest", "rb_reactivate", "protect", "rb_set_aside"}
            \/ /\ disk' \in {disk, effect} \cup halfway /\ pc' = "down"
               /\ Keeps("outcome")' =>
                    pc \notin {"rb_remove_dest", "rb_reactivate", "rb_set_aside",
                               "rb_return_active"}
<1>1. "outcome" \in Promises BY DEF Promises
<1>2. ASSUME NEW kind \in {"fault", "late", "crash"}, Interrupted(kind)
      PROVE  /\ StillKept
             /\ Keeps("outcome")' => pc \notin WeakPoints["outcome"][kind]
  BY <1>1, <1>2 DEF Interrupted, Keeps, StillKept
<1>3. faults + 1 # faults BY BoundsAssumption DEF TypeOK
<1>4. CASE disk' = effect /\ pc' = next /\ UNCHANGED <<faults, crashes, voided>>
  BY <1>4 DEF StillKept, Keeps
<1>5. CASE /\ disk' \in {disk} \cup halfway /\ Interrupted("fault")
           /\ pc' = failed /\ faults' = faults + 1
  <2>1. WeakPoints["outcome"]["fault"] = {"rb_remove_dest", "rb_reactivate"}
    BY DEF WeakPoints
  <2>. QED BY <1>2, <1>3, <1>5, <2>1
<1>6. CASE disk' = effect /\ Interrupted("late") /\ pc' = failed /\ faults' = faults + 1
  <2>1. WeakPoints["outcome"]["late"] = {"rb_remove_dest", "rb_reactivate", "protect", "rb_set_aside"}
    BY DEF WeakPoints
  <2>. QED BY <1>2, <1>3, <1>6, <2>1
<1>7. CASE disk' \in {disk, effect} \cup halfway /\ Interrupted("crash") /\ pc' = "down"
  <2>1. WeakPoints["outcome"]["crash"]
          = {"rb_remove_dest", "rb_reactivate", "rb_set_aside", "rb_return_active"}
    BY DEF WeakPoints
  <2>. QED BY <1>2, <1>7, <2>1
<1>. QED BY <1>4, <1>5, <1>6, <1>7 DEF Operation

LEMMA JournalAside ==
  ASSUME TypeOK, NEW state, NEW next, NEW failed, JournalOp(state, next, failed)
  PROVE  StillKept /\ NoneAside
<1>1. WithJournal(state).at = disk.at BY DEF WithJournal, TypeOK, Disk
<1>. QED BY <1>1, Interruptions DEF JournalOp, NoneAside

LEMMA RenameAside ==
  ASSUME TypeOK, NEW from \in Places, NEW to \in Places \ {"rollbackNew"}, from # to,
         NEW next, NEW failed, RenameOp(from, to, next, failed)
  PROVE  StillKept /\ NoneAside
<1>1. disk' \in {disk, Rename(from, to)} /\ StillKept BY Interruptions DEF RenameOp
<1>. QED BY <1>1, RenameEffect DEF NoneAside, Places

LEMMA RemoveAside ==
  ASSUME TypeOK, NEW place \in Places, NEW next, NEW failed, RemoveOp(place, next, failed)
  PROVE  StillKept /\ NoneAside
<1>1. disk' \in {disk, Remove(place), Gut(place)} /\ StillKept BY Interruptions DEF RemoveOp
<1>. QED BY <1>1, RemoveEffect DEF NoneAside

LEMMA MoveAside ==
  ASSUME TypeOK, NEW from, NEW to \in Places \ {"rollbackNew"}, NEW next, NEW failed,
         MoveEntries(from, to, next, failed)
  PROVE  StillKept /\ NoneAside
<1>1. CASE Skip(next) BY <1>1 DEF Skip, StillKept, Keeps, NoneAside
<1>2. ASSUME NEW e \in Held(from), Operation(Move(e, to), {}, pc, failed)
      PROVE  StillKept /\ NoneAside
  <2>1. disk' \in {disk, Move(e, to)} /\ StillKept BY <1>2, Interruptions
  <2>2. e \in Entries BY DEF Held
  <2>. QED BY <2>1, <2>2, MoveEffect DEF NoneAside, Places
<1>. QED BY <1>1, <1>2 DEF MoveEntries

-----------------------------------------------------------------------------
(* The steps *)

\* Every step of the restore itself.
LEMMA RestoreStepSwitch ==
  ASSUME IInv, KeptInv, SwitchInv, RestoreStep
  PROVE  SwitchInv'
<1>. USE DEF SwitchInv, LeftAt, Outcome, FoundData, IsOld, IsNew, NoneAside, StillKept, Absent,
          KeptInv, JournalAt, DataKept, DataAt, SettingsKept, SettingsAt, FoundSettings,
          SameDirs, SameSettings, SameJournal, NowHolds, Locals, Refused, Exists, Skip, Keeps,
          ForwardSteps, DiscardSteps, RollbackSteps, CleanupSteps, Places, JournalStates
<1>1. CASE WritePrepared
  BY <1>1, JournalStep, JournalAside DEF WritePrepared, IInv, StepFolders, NothingFound
<1>2. CASE CopyBackup
  <2>1. StillKept /\ disk'.at = disk.at
    BY <1>2, Interruptions DEF CopyBackup, IInv, TypeOK, Disk
  <2>2. /\ SameSettings /\ SameJournal /\ pc' \in {"copy_settings", "discard_staging", "down"}
        /\ \A p \in Places \ {"staging"} : disk'.dir[p] = disk.dir[p]
    BY <1>2, OperationOutcomes DEF CopyBackup, IInv, TypeOK, Disk
  <2>. QED BY <1>2, <2>1, <2>2 DEF CopyBackup, IInv, StepFolders, NothingFound
<1>3. CASE CopySettings
  <2>1. StillKept /\ disk'.at = disk.at
    BY <1>3, Interruptions DEF CopySettings, IInv, TypeOK, Disk
  <2>2. /\ SameDirs /\ SameJournal /\ disk'.settings = disk.settings
        /\ ~existed.settings => disk'.settingsBackup = disk.settingsBackup
        /\ pc' \in {"write_protecting", "discard_staging", "down"}
    BY <1>3, OperationOutcomes DEF CopySettings, IInv, TypeOK, Disk
  <2>. QED BY <1>3, <2>1, <2>2 DEF CopySettings, IInv, StepFolders, NothingFound
<1>4. CASE WriteProtecting
  BY <1>4, JournalStep, JournalAside DEF WriteProtecting, IInv, StepFolders, NothingFound
<1>5. CASE Protect
  <2>1. Keeps("outcome")' /\ pc' = "discard_staging" => SameDirs
    BY <1>5, Interruptions DEF Protect, RenameOp, IInv
  <2>. QED BY <1>5, <2>1, RenameStep, RenameAside DEF Protect, IInv, StepFolders, NothingFound
<1>6. CASE WriteProtected
  BY <1>6, JournalStep, JournalAside DEF WriteProtected, IInv
<1>7. CASE CarryEntries
  <2>1. /\ SameDirs /\ SameJournal /\ SameSettings /\ StillKept /\ NoneAside
        /\ UNCHANGED <<recovering, aside, clean, existed>>
        /\ pc = "carry_entries" /\ pc' \in {"carry_entries", "write_activating", "rb_inspect", "down"}
    <3>1. CASE existed.data
      BY <1>7, <3>1, MoveStep, MoveAside DEF CarryEntries, IInv, Locals, Places
    <3>2. CASE ~existed.data
      BY <1>7, <3>2 DEF CarryEntries, Locals
    <3>. QED BY <3>1, <3>2
  <2>. QED BY <2>1 DEF IInv
<1>8. CASE WriteActivating
  BY <1>8, JournalStep, JournalAside DEF WriteActivating, IInv
<1>9. CASE Activate
  BY <1>9, RenameStep, RenameAside DEF Activate, IInv
<1>10. CASE WriteActivated
  BY <1>10, JournalStep, JournalAside DEF WriteActivated, IInv
<1>11. CASE WriteWritingSettings
  BY <1>11, JournalStep, JournalAside DEF WriteWritingSettings, IInv
<1>12. CASE SaveSettings
  <2>1. StillKept /\ disk'.at = disk.at
    BY <1>12, Interruptions DEF SaveSettings, IInv, TypeOK, Disk
  <2>2. /\ SameDirs /\ SameJournal /\ disk'.settingsBackup = disk.settingsBackup
        /\ \/ disk'.settings = "new" /\ pc' = "write_settings_activated"
           \/ disk'.settings \in {disk.settings, "new"} /\ pc' \in {"rb_inspect", "down"}
    BY <1>12, OperationOutcomes DEF SaveSettings, IInv, TypeOK, Disk
  <2>. QED BY <1>12, <2>1, <2>2 DEF SaveSettings, IInv, StepFolders, NothingFound
<1>13. CASE WriteSettingsActivated
  BY <1>13, JournalStep, JournalAside DEF WriteSettingsActivated, IInv
<1>14. CASE Validate
  <2>1. StillKept /\ disk'.at = disk.at
    BY <1>14, Interruptions DEF Validate, IInv, TypeOK, Disk
  <2>2. SameDirs /\ SameSettings /\ SameJournal /\ pc' \in {"remove_bundle", "rb_inspect", "down"}
    BY <1>14, OperationOutcomes DEF Validate, IInv, TypeOK, Disk
  <2>. QED BY <1>14, <2>1, <2>2 DEF Validate, IInv, StepFolders, NothingFound
<1>15. CASE RemoveBundle
  <2>1. disk' \in {disk, [disk EXCEPT !.dir["dest"] = IF @ = "staged" THEN "new" ELSE @]}
    BY <1>15, OperationOutcomes DEF RemoveBundle, IInv
  <2>2. /\ SameSettings /\ SameJournal /\ disk'.at = disk.at
        /\ SameDirs \/ (disk.dir["dest"] = "staged" /\ NowHolds("dest", "new"))
    BY <2>1 DEF IInv, TypeOK, Disk
  <2>3. /\ StillKept
        /\ \/ /\ pc' = IF disk.journal = "cleanup_pending" THEN "cl_inspect" ELSE "write_cleanup_pending"
              /\ disk' = [disk EXCEPT !.dir["dest"] = IF @ = "staged" THEN "new" ELSE @]
           \/ pc' = IF recovering THEN "blocked" ELSE "rb_inspect"
           \/ pc' = "down"
    BY <1>15, Interruptions DEF RemoveBundle, IInv
  <2>4. disk' = [disk EXCEPT !.dir["dest"] = IF @ = "staged" THEN "new" ELSE @]
           => (disk.dir["dest"] \in {"staged", "new"} => disk'.dir["dest"] = "new")
    BY DEF IInv, TypeOK, Disk
  <2>. HIDE DEF RemoveBundle
  <2>5. pc = "remove_bundle" /\ UNCHANGED <<recovering, aside, clean, existed>> BY <1>15 DEF RemoveBundle
  <2>. QED BY <2>2, <2>3, <2>4, <2>5 DEF IInv, StepFolders, NothingFound
<1>16. CASE WriteCleanupPending
  BY <1>16, JournalStep, JournalAside DEF WriteCleanupPending, IInv
<1>. QED
  BY <1>1, <1>2, <1>3, <1>4, <1>5, <1>6, <1>7, <1>8, <1>9, <1>10, <1>11, <1>12, <1>13, <1>14,
     <1>15, <1>16
  DEF RestoreStep

\* Discarding leaves the old workspace.
LEMMA DiscardStepSwitch ==
  ASSUME IInv, KeptInv, SwitchInv, DiscardStep
  PROVE  SwitchInv'
<1>. USE DEF SwitchInv, LeftAt, Outcome, FoundData, IsOld, IsNew, NoneAside, StillKept, Absent,
          KeptInv, JournalAt, DataKept, DataAt, SettingsKept, SettingsAt, FoundSettings,
          SameDirs, SameSettings, SameJournal, NowHolds, Locals, Refused, Exists, Skip, Keeps,
          ForwardSteps, DiscardSteps, RollbackSteps, CleanupSteps, Places, JournalStates
<1>1. CASE DiscardStaging
  BY <1>1, RemoveStep, RemoveAside DEF DiscardStaging, IInv
<1>2. CASE DiscardSettingsBackup
  <2>1. StillKept /\ disk'.at = disk.at
    BY <1>2, Interruptions DEF DiscardSettingsBackup, IInv, TypeOK, Disk
  <2>2. /\ SameDirs /\ SameJournal /\ disk'.settings = disk.settings
        /\ disk'.settingsBackup \in {disk.settingsBackup, "none"}
        /\ pc' \in {"discard_journal", "blocked", "down"}
        /\ clean' => clean /\ (pc' = "discard_journal" => disk'.settingsBackup = "none")
    BY <1>2, OperationOutcomes, Interruptions DEF DiscardSettingsBackup, IInv, TypeOK, Disk
  <2>. QED BY <1>2, <2>1, <2>2 DEF DiscardSettingsBackup, IInv, StepFolders, NothingFound
<1>3. CASE DiscardJournal
  BY <1>3, JournalStep, JournalAside DEF DiscardJournal, IInv, AfterDiscard
<1>. QED BY <1>1, <1>2, <1>3 DEF DiscardStep

\* A rollback ends with the old workspace.
LEMMA RollbackStepSwitch ==
  ASSUME IInv, KeptInv, SwitchInv, RollbackStep
  PROVE  SwitchInv'
<1>. USE DEF SwitchInv, LeftAt, Outcome, FoundData, IsOld, IsNew, NoneAside, StillKept, Absent,
          KeptInv, JournalAt, DataKept, DataAt, SettingsKept, SettingsAt, FoundSettings,
          SameDirs, SameSettings, SameJournal, NowHolds, Locals, Refused, Exists, Skip, Keeps,
          ForwardSteps, DiscardSteps, RollbackSteps, CleanupSteps, Places, JournalStates
<1>1. CASE RollbackInspect
  BY <1>1 DEF RollbackInspect, Restorable, IInv
<1>2. CASE RollbackReturnStaged
  <2>1. /\ SameDirs /\ SameJournal /\ SameSettings /\ StillKept /\ NoneAside
        /\ UNCHANGED <<recovering, aside, clean, existed>>
        /\ pc = "rb_return_staged" /\ pc' \in {"rb_return_staged", "rb_set_aside", "blocked", "down"}
    BY <1>2, MoveStep, MoveAside DEF RollbackReturnStaged, IInv, Locals, Refused, Places
  <2>. QED BY <2>1 DEF IInv
<1>3. CASE RollbackSetAside
  <2>1. /\ SameSettings /\ SameJournal /\ StillKept
        /\ \/ /\ disk' = disk /\ pc' = "rb_reinstate" /\ ~Exists("dest")
           \/ /\ disk' = disk /\ pc' = "blocked"
           \/ /\ disk' = SetAside /\ pc' = "rb_return_active"
           \/ ~Keeps("outcome")' /\ pc' \in {"blocked", "down"}
    <3>1. SetAside.settings = disk.settings /\ SetAside.settingsBackup = disk.settingsBackup
      BY DEF SetAside, IInv, TypeOK, Disk
    <3>2. CASE Exists("dest")
      BY <1>3, <3>1, <3>2, SetAsideEffect, Interruptions DEF RollbackSetAside, IInv
    <3>3. CASE ~Exists("dest")
      BY <1>3, <3>3 DEF RollbackSetAside
    <3>. QED BY <3>2, <3>3
  <2>2. UNCHANGED <<recovering, clean, existed>> /\ pc = "rb_set_aside" BY <1>3 DEF RollbackSetAside
  <2>3. CASE disk' = disk /\ pc' # "rb_return_active" BY <2>1, <2>2, <2>3 DEF IInv
  <2>4. CASE disk' = SetAside /\ pc' = "rb_return_active"
    BY <2>1, <2>2, <2>4, SetAsideEffect DEF IInv, StepFolders
  <2>5. CASE ~Keeps("outcome")' /\ pc' \in {"blocked", "down"}
    BY <2>1, <2>2, <2>5
  <2>. QED BY <2>1, <2>3, <2>4, <2>5
<1>4. CASE RollbackReturnActive
  <2>1. /\ Keeps("outcome")' => pc' # "down"
        /\ pc' = "rb_reinstate" => Absent("rollbackNew") /\ disk' = disk
    <3>1. ASSUME NEW e \in Held("rollbackNew"),
                 Operation(Move(e, "old"), {}, pc, "rb_reactivate")
          PROVE  /\ Keeps("outcome")' => pc' # "down"
                 /\ pc' # "rb_reinstate"
      BY <1>4, <3>1, Interruptions DEF RollbackReturnActive, IInv
    <3>. QED BY <1>4, <3>1 DEF RollbackReturnActive, MoveEntries, Held
  <2>. QED BY <1>4, <2>1, MoveStep, MoveAside DEF RollbackReturnActive, IInv
<1>5. CASE RollbackReinstate
  BY <1>5, RenameStep, RenameAside DEF RollbackReinstate, IInv, StepFolders, NothingFound, Emptied
<1>6. CASE RollbackReactivate
  <2>1. CASE Exists("dest") BY <1>6, <2>1 DEF RollbackReactivate
  <2>2. CASE ~Exists("dest")
    <3>1. /\ Keeps("outcome")' => disk' = Rename("rollbackNew", "dest") /\ pc' = "blocked"
          /\ pc' \in {"blocked", "down"}
      BY <1>6, <2>2, Interruptions DEF RollbackReactivate, RenameOp, IInv
    <3>2. Keeps("outcome")' => Absent("rollbackNew")'
      BY <3>1, RenameEffect DEF IInv
    <3>. QED
      BY <1>6, <2>2, <3>1, <3>2, RenameStep, RenameAside
      DEF RollbackReactivate, IInv, StepFolders
  <2>. QED BY <2>1, <2>2
<1>7. CASE RollbackRemoveAside
  BY <1>7, RemoveStep, RemoveAside DEF RollbackRemoveAside, IInv, StepFolders
<1>8. CASE RollbackRemoveDest
  <2>1. Keeps("outcome")' => pc' = "rb_settings"
    BY <1>8, Interruptions DEF RollbackRemoveDest, RemoveOp, IInv
  <2>. QED
    BY <1>8, <2>1, RemoveStep, RemoveAside
    DEF RollbackRemoveDest, IInv, StepFolders, NothingFound
<1>9. CASE RollbackSettings
  <2>1. StillKept /\ disk'.at = disk.at
    BY <1>9, Interruptions DEF RollbackSettings, IInv, TypeOK, Disk
  <2>2. /\ SameDirs /\ SameJournal /\ disk'.settingsBackup = disk.settingsBackup
        /\ disk'.settings \in {disk.settings, IF existed.settings THEN disk.settingsBackup ELSE "none"}
        /\ pc' \in {"rb_staging", "blocked", "down"}
    BY <1>9, OperationOutcomes DEF RollbackSettings, IInv, TypeOK, Disk
  <2>. QED BY <1>9, <2>1, <2>2 DEF RollbackSettings, IInv, StepFolders, NothingFound
<1>10. CASE RollbackStaging
  BY <1>10, RemoveStep, RemoveAside DEF RollbackStaging, IInv
<1>11. CASE RollbackSettingsBackup
  <2>1. StillKept /\ disk'.at = disk.at
    BY <1>11, Interruptions DEF RollbackSettingsBackup, IInv, TypeOK, Disk
  <2>2. /\ SameDirs /\ SameJournal /\ disk'.settings = disk.settings
        /\ \/ disk'.settingsBackup = "none"
           \/ disk'.settingsBackup = disk.settingsBackup /\ pc' # "rb_journal"
        /\ pc' \in {"rb_journal", "blocked", "down"}
    BY <1>11, OperationOutcomes DEF RollbackSettingsBackup, IInv, TypeOK, Disk
  <2>. QED BY <1>11, <2>1, <2>2 DEF RollbackSettingsBackup, IInv, StepFolders, NothingFound
<1>12. CASE RollbackJournal
  BY <1>12, JournalStep, JournalAside DEF RollbackJournal, IInv
<1>. QED
  BY <1>1, <1>2, <1>3, <1>4, <1>5, <1>6, <1>7, <1>8, <1>9, <1>10, <1>11, <1>12
  DEF RollbackStep

\* A cleanup ends with the restored workspace.
LEMMA CleanupStepSwitch ==
  ASSUME IInv, KeptInv, SwitchInv, CleanupStep
  PROVE  SwitchInv'
<1>. USE DEF SwitchInv, LeftAt, Outcome, FoundData, IsOld, IsNew, NoneAside, StillKept, Absent,
          KeptInv, JournalAt, DataKept, DataAt, SettingsKept, SettingsAt, FoundSettings,
          SameDirs, SameSettings, SameJournal, NowHolds, Locals, Refused, Exists, Skip, Keeps,
          ForwardSteps, DiscardSteps, RollbackSteps, CleanupSteps, Places, JournalStates
<1>1. CASE CleanupInspect
  BY <1>1 DEF CleanupInspect, IInv
<1>2. CASE CleanupStaging
  BY <1>2, RemoveStep, RemoveAside DEF CleanupStaging, IInv
<1>3. CASE CleanupReturnEntries
  <2>1. /\ SameDirs /\ SameJournal /\ SameSettings /\ StillKept /\ NoneAside
        /\ UNCHANGED <<recovering, aside, clean, existed>>
        /\ pc = "cl_return_entries" /\ pc' \in {"cl_return_entries", "cl_old", "blocked", "down"}
    BY <1>3, MoveStep, MoveAside DEF CleanupReturnEntries, IInv, Locals, Refused, Places
  <2>. QED BY <2>1 DEF IInv
<1>4. CASE CleanupOld
  BY <1>4, RemoveStep, RemoveAside DEF CleanupOld, IInv
<1>5. CASE CleanupSettingsBackup
  <2>1. StillKept /\ disk'.at = disk.at
    BY <1>5, Interruptions DEF CleanupSettingsBackup, IInv, TypeOK, Disk
  <2>2. /\ SameDirs /\ SameJournal /\ disk'.settings = disk.settings
        /\ \/ disk'.settingsBackup = "none"
           \/ disk'.settingsBackup = disk.settingsBackup /\ pc' # "cl_journal"
        /\ pc' \in {"cl_journal", "blocked", "down"}
    BY <1>5, OperationOutcomes DEF CleanupSettingsBackup, IInv, TypeOK, Disk
  <2>. QED BY <1>5, <2>1, <2>2 DEF CleanupSettingsBackup, IInv, StepFolders, NothingFound
<1>6. CASE CleanupJournal
  BY <1>6, JournalStep, JournalAside DEF CleanupJournal, IInv
<1>. QED BY <1>1, <1>2, <1>3, <1>4, <1>5, <1>6 DEF CleanupStep

\* A restore begins over what was served before.
LEMMA BeginSwitch ==
  ASSUME IInv, KeptInv, SwitchInv, Begin
  PROVE  SwitchInv'
<1>. USE DEF SwitchInv, LeftAt, Outcome, FoundData, IsOld, IsNew, Absent, SettingsKept,
          FoundSettings, Exists, Keeps, ForwardSteps, DiscardSteps, RollbackSteps, CleanupSteps,
          Places, JournalStates
<1>1. /\ disk'.journal = "none" /\ disk'.settings = disk.settings
      /\ disk'.settingsBackup = "none" /\ disk'.at = disk.at
      /\ \A p \in Places \ {"staging"} : disk'.dir[p] = disk.dir[p]
  BY DEF Begin, IInv, TypeOK, Disk
<1>2. /\ pc' = "write_prepared" /\ pc = "ready" /\ disk.journal = "none" /\ voided' = voided
      /\ disk.dir["dest"] \in {"old", "absent"} /\ ~Exists("old")
      /\ existed'.data = Exists("dest") /\ existed'.settings = (disk.settings # "none")
  BY DEF Begin
<1>3. disk.settings \in {"old", "none"} BY <1>2 DEF KeptInv
<1>. QED BY <1>1, <1>2, <1>3

\* A start loads the workspace without a journal, and commits where the
\* replacement is in place with its settings.
LEMMA StartSwitch ==
  ASSUME IInv, KeptInv, SwitchInv, Start
  PROVE  SwitchInv'
<1>. USE DEF SwitchInv, LeftAt, Outcome, FoundData, IsOld, IsNew, Absent, KeptInv, JournalAt,
          DataKept, SettingsKept, FoundSettings, Exists, Keeps, ForwardSteps, DiscardSteps,
          RollbackSteps, CleanupSteps, Places, JournalStates
<1>1. /\ UNCHANGED <<disk, aside, existed, voided>> /\ pc = "down"
  BY DEF Start
<1>2. StartChoice BY StartChooses
<1>3. CASE pc' = "discard_staging"
  BY <1>1, <1>2, <1>3 DEF StartChoice, IInv, NothingFound
<1>4. CASE pc' = "remove_bundle"
  BY <1>1, <1>2, <1>4 DEF StartChoice
<1>5. CASE pc' \in {"ready", "blocked", "rb_inspect"}
  BY <1>1, <1>2, <1>5 DEF StartChoice
<1>. QED BY <1>2, <1>3, <1>4, <1>5 DEF StartChoice

\* The invariant is inductive.
LEMMA SwitchStep ==
  ASSUME IInv, KeptInv, SwitchInv, [Next]_vars
  PROVE  SwitchInv'
<1>. USE DEF SwitchInv, LeftAt, Outcome, FoundData, IsOld, IsNew, Absent, Keeps,
          FoundSettings, Exists, DiscardSteps, RollbackSteps, CleanupSteps
<1>1. CASE Begin BY <1>1, BeginSwitch
<1>2. CASE Run
  BY <1>2, RestoreStepSwitch, DiscardStepSwitch, RollbackStepSwitch, CleanupStepSwitch DEF Run
<1>3. CASE LateEntry
  <2>1. PICK e \in Entries : disk.at[e] = "elsewhere" /\ disk' = Move(e, "old")
    BY <1>3 DEF LateEntry
  <2>2. /\ Move(e, "old").settings = disk.settings
        /\ Move(e, "old").settingsBackup = disk.settingsBackup
    BY DEF Move, IInv, TypeOK, Disk
  <2>. QED BY <1>3, <2>1, <2>2, MoveEffect DEF LateEntry, IInv, Places
<1>4. CASE Start BY <1>4, StartSwitch
<1>5. CASE Quit BY <1>5 DEF Quit
<1>6. CASE UNCHANGED vars BY <1>6 DEF vars
<1>. QED BY <1>1, <1>2, <1>3, <1>4, <1>5, <1>6 DEF Next

LEMMA SwitchInit ==
  ASSUME Init
  PROVE  SwitchInv
<1>1. PICK data \in BOOLEAN, settings \in {"old", "none"}, present \in SUBSET Entries :
        disk = [dir |-> [p \in Places |-> IF p = "dest" /\ data THEN "old" ELSE "absent"],
                at |-> [e \in Entries |-> IF data /\ e \in present THEN "dest" ELSE "elsewhere"],
                settings |-> settings, settingsBackup |-> "none", journal |-> "none"]
  BY DEF Init
<1>2. /\ disk.journal = "none" /\ disk.settings \in {"old", "none"} /\ pc = "ready"
      /\ disk.dir["dest"] = IF data THEN "old" ELSE "absent"
      /\ disk.dir["old"] = "absent" /\ disk.settingsBackup = "none"
      /\ existed.data = (disk.dir["dest"] # "absent") /\ existed.settings = (disk.settings # "none")
      /\ \A e \in Entries : disk.at[e] \in {"dest", "elsewhere"}
  BY <1>1 DEF Init, Places, Exists
<1>. QED
  BY <1>2 DEF SwitchInv, LeftAt, Outcome, FoundData, IsOld, IsNew, Absent, FoundSettings,
     Exists, DiscardSteps, RollbackSteps, CleanupSteps

\* All invariants together.
AllInv == IInv /\ KeptInv /\ SwitchInv

\* The invariants of the entries, of the copies and of the outcome hold together.
THEOREM AllHold == Spec => []AllInv
<1>1. Init => AllInv BY InvariantInit, KeptInit, SwitchInit DEF AllInv
<1>2. AllInv /\ [Next]_vars => AllInv' BY InvariantStep, KeptStep, SwitchStep DEF AllInv
<1>. QED BY <1>1, <1>2, PTL DEF Spec

-----------------------------------------------------------------------------
(* What is served *)

\* The user's files are in the data folder, or were never in this workspace,
\* whenever no folder that may hold others is left.
LEMMA FilesHome ==
  ASSUME AllInv, pc = "ready", Keeps("outcome")
  PROVE  /\ IsOld \/ IsNew
         /\ ~Exists("old")
         /\ \A e \in Entries : disk.at[e] \in {"dest", "elsewhere"}
<1>. USE DEF AllInv, IInv, KeptInv, SwitchInv
<1>1. IsOld \/ IsNew BY DEF Outcome
<1>2. ~Exists("old")
  BY DEF Outcome, IsOld, FoundData, DataKept, NothingFound, Exists
<1>3. Absent("old") /\ Absent("staging") /\ Absent("stranded") /\ Absent("rollbackNew")
  BY <1>2 DEF FoldersHold, StagedEntries, Outcome
<1>4. \A e \in Entries : disk.at[e] \in Whereabouts /\ disk.at[e] # "deleted"
  BY DEF TypeOK, Disk, UserFilesPreserved
<1>. QED BY <1>1, <1>2, <1>3, <1>4 DEF Absent, Whereabouts, Places

\* As long as no weak point voided the outcome, a program that serves a workspace
\* serves the one the restore found or the restored one, data and settings
\* together, with the user's own files (InventoryTransfer.cpp, the end of
\* recoverInventatoryRestore).
THEOREM ServedIsCoherent == Spec => []CoherentWorkspace
<1>1. AllInv => CoherentWorkspace
  BY FilesHome DEF CoherentWorkspace, IsOld, IsNew, FoundData, FoundSettings
<1>. QED BY <1>1, AllHold, PTL

\* As long as no weak point voided the outcome, the journal goes only after both
\* protected copies (cleanupCommittedRestore, rollbackRestore, discardStage).
THEOREM NothingIsOrphaned == Spec => []NoOrphanedCopies
<1>1. AllInv => NoOrphanedCopies
  BY DEF AllInv, SwitchInv, Outcome, NoOrphanedCopies
<1>. QED BY <1>1, AllHold, PTL

-----------------------------------------------------------------------------
(* The restore implements WorkspaceSwitch *)

\* The refinement mapping of Switch.
Active == IF Committed \/ ~Keeps("outcome") THEN "new" ELSE "old"
Loaded == IF pc = "ready" /\ Keeps("outcome") THEN Served ELSE "nothing"

\* Every other step leaves the program unloaded and a committed journal as it is.
LEMMA QuietSteps ==
  ASSUME AllInv, Run, ~DiscardJournal, ~RollbackJournal, ~CleanupJournal
  PROVE  /\ pc \in ForwardSteps \cup DiscardSteps \cup RollbackSteps \cup CleanupSteps
         /\ pc' # "ready" /\ StillKept
         /\ disk.journal = "cleanup_pending" => disk'.journal = "cleanup_pending"
<1>. USE DEF AllInv, IInv, KeptInv, JournalAt, SameJournal, Refused, Skip, ForwardSteps, DiscardSteps,
          RollbackSteps, CleanupSteps, Places, JournalStates
<1>1. CASE WritePrepared
  BY <1>1, JournalStep, JournalAside DEF WritePrepared, StillKept, Keeps
<1>2. CASE CopyBackup
  BY <1>2, Interruptions DEF CopyBackup, StillKept, Keeps, TypeOK, Disk
<1>3. CASE CopySettings
  BY <1>3, Interruptions DEF CopySettings, StillKept, Keeps, TypeOK, Disk
<1>4. CASE WriteProtecting
  BY <1>4, JournalStep, JournalAside DEF WriteProtecting, StillKept, Keeps
<1>5. CASE Protect
  BY <1>5, RenameStep, RenameAside DEF Protect, StillKept, Keeps
<1>6. CASE WriteProtected
  BY <1>6, JournalStep, JournalAside DEF WriteProtected, StillKept, Keeps
<1>7. CASE CarryEntries
  BY <1>7, MoveStep, MoveAside DEF CarryEntries, StillKept, Keeps
<1>8. CASE WriteActivating
  BY <1>8, JournalStep, JournalAside DEF WriteActivating, StillKept, Keeps
<1>9. CASE Activate
  BY <1>9, RenameStep, RenameAside DEF Activate, StillKept, Keeps
<1>10. CASE WriteActivated
  BY <1>10, JournalStep, JournalAside DEF WriteActivated, StillKept, Keeps
<1>11. CASE WriteWritingSettings
  BY <1>11, JournalStep, JournalAside DEF WriteWritingSettings, StillKept, Keeps
<1>12. CASE SaveSettings
  BY <1>12, Interruptions DEF SaveSettings, StillKept, Keeps, TypeOK, Disk
<1>13. CASE WriteSettingsActivated
  BY <1>13, JournalStep, JournalAside DEF WriteSettingsActivated, StillKept, Keeps
<1>14. CASE Validate
  BY <1>14, Interruptions DEF Validate, StillKept, Keeps, TypeOK, Disk
<1>15. CASE RemoveBundle
  BY <1>15, Interruptions DEF RemoveBundle, StillKept, Keeps, TypeOK, Disk
<1>16. CASE WriteCleanupPending
  BY <1>16, JournalStep, JournalAside DEF WriteCleanupPending, StillKept, Keeps
<1>17. CASE DiscardStaging
  BY <1>17, RemoveStep, RemoveAside DEF DiscardStaging, StillKept, Keeps
<1>18. CASE DiscardSettingsBackup
  BY <1>18, Interruptions DEF DiscardSettingsBackup, StillKept, Keeps, TypeOK, Disk
<1>19. CASE RollbackInspect
  BY <1>19 DEF RollbackInspect, StillKept, Keeps
<1>20. CASE RollbackReturnStaged
  BY <1>20, MoveStep, MoveAside DEF RollbackReturnStaged, StillKept, Keeps
<1>21. CASE RollbackSetAside
  BY <1>21, Interruptions, SetAsideEffect DEF RollbackSetAside, StillKept, Keeps
<1>22. CASE RollbackReturnActive
  BY <1>22, MoveStep, MoveAside DEF RollbackReturnActive, StillKept, Keeps
<1>23. CASE RollbackReinstate
  BY <1>23, RenameStep, RenameAside DEF RollbackReinstate, StillKept, Keeps
<1>24. CASE RollbackReactivate
  BY <1>24, RenameStep, RenameAside DEF RollbackReactivate, StillKept, Keeps
<1>25. CASE RollbackRemoveAside
  BY <1>25, RemoveStep, RemoveAside DEF RollbackRemoveAside, StillKept, Keeps
<1>26. CASE RollbackRemoveDest
  BY <1>26, RemoveStep, RemoveAside DEF RollbackRemoveDest, StillKept, Keeps
<1>27. CASE RollbackSettings
  BY <1>27, Interruptions DEF RollbackSettings, StillKept, Keeps, TypeOK, Disk
<1>28. CASE RollbackStaging
  BY <1>28, RemoveStep, RemoveAside DEF RollbackStaging, StillKept, Keeps
<1>29. CASE RollbackSettingsBackup
  BY <1>29, Interruptions DEF RollbackSettingsBackup, StillKept, Keeps, TypeOK, Disk
<1>30. CASE CleanupInspect
  BY <1>30 DEF CleanupInspect, StillKept, Keeps
<1>31. CASE CleanupStaging
  BY <1>31, RemoveStep, RemoveAside DEF CleanupStaging, StillKept, Keeps
<1>32. CASE CleanupReturnEntries
  BY <1>32, MoveStep, MoveAside DEF CleanupReturnEntries, StillKept, Keeps
<1>33. CASE CleanupOld
  BY <1>33, RemoveStep, RemoveAside DEF CleanupOld, StillKept, Keeps
<1>34. CASE CleanupSettingsBackup
  BY <1>34, Interruptions DEF CleanupSettingsBackup, StillKept, Keeps, TypeOK, Disk
<1>. QED
  BY <1>1, <1>2, <1>3, <1>4, <1>5, <1>6, <1>7, <1>8, <1>9, <1>10, <1>11, <1>12, <1>13, <1>14,
     <1>15, <1>16, <1>17, <1>18, <1>19, <1>20, <1>21, <1>22, <1>23, <1>24, <1>25, <1>26, <1>27,
     <1>28, <1>29, <1>30, <1>31, <1>32, <1>33, <1>34
  DEF Run, RestoreStep, DiscardStep, RollbackStep, CleanupStep

\* What a program serves is what a start would serve.
ServesActive ==
  pc = "ready" /\ Keeps("outcome") => Served = IF Committed THEN "new" ELSE "old"

LEMMA ServesTheActive ==
  ASSUME AllInv
  PROVE  ServesActive
<1>. SUFFICES ASSUME pc = "ready", Keeps("outcome")
              PROVE  Served = IF Committed THEN "new" ELSE "old"
  BY DEF ServesActive
<1>1. disk.journal \in {"none", "prepared", "protecting"} /\ (disk.journal # "none" => IsOld)
  BY DEF AllInv, SwitchInv, Outcome
<1>2. Served \in {"old", "new"} /\ (IsOld => Served = "old")
  BY FilesHome DEF Served, IsOld, IsNew, FoundData, FoundSettings
<1>. QED BY <1>1, <1>2 DEF Committed

\* The steps of a running restore or recovery: nothing is loaded, a commit
\* stands, and what is loaded at the end was the outcome before the last step.
LEMMA RunSwitches ==
  ASSUME AllInv, AllInv', Run
  PROVE  /\ pc # "ready" /\ StillKept
         /\ Keeps("outcome")' /\ Committed => Committed'
         /\ Keeps("outcome")' /\ pc' = "ready" /\ Committed' => Committed
<1>. USE DEF AllInv, KeptInv, SwitchInv, Committed
<1>1. CASE DiscardJournal
  <2>1. /\ pc = "discard_journal" /\ existed' = existed /\ SameDirs /\ StillKept
        /\ disk'.journal \in {"none", "prepared", "protecting"}
    BY <1>1, JournalStep, JournalAside
    DEF DiscardJournal, JournalAt, DiscardSteps, Skip, SameDirs, StillKept, Keeps, Locals, IInv,
        JournalStates
  <2>2. Keeps("outcome") => disk.dir["dest"] # "new" /\ disk.journal # "cleanup_pending"
    BY <2>1 DEF Outcome, FoundData, DiscardSteps, JournalAt
  <2>. QED BY <2>1, <2>2 DEF Served, SameDirs, StillKept
<1>2. CASE RollbackJournal
  <2>1. /\ pc = "rb_journal" /\ SameDirs /\ StillKept
        /\ disk'.journal \in {"none", disk.journal}
    BY <1>2, JournalStep, JournalAside DEF RollbackJournal, IInv
  <2>2. Keeps("outcome") => disk.dir["dest"] # "new" /\ disk.journal # "cleanup_pending"
    BY <2>1 DEF Outcome, LeftAt, FoundData, RollbackSteps
  <2>. QED BY <2>1, <2>2 DEF Served, SameDirs, StillKept
<1>3. CASE CleanupJournal
  <2>1. /\ pc = "cl_journal" /\ SameDirs /\ SameSettings /\ StillKept
        /\ disk'.journal \in {"none", disk.journal} /\ disk.journal = "cleanup_pending"
    BY <1>3, JournalStep, JournalAside DEF CleanupJournal, IInv, JournalAt, CleanupSteps
  <2>2. Keeps("outcome") => IsNew BY <2>1 DEF Outcome, CleanupSteps
  <2>. QED BY <2>1, <2>2 DEF Served, SameDirs, SameSettings, StillKept, IsNew
<1>4. CASE ~DiscardJournal /\ ~RollbackJournal /\ ~CleanupJournal
  <2>1. /\ pc \in ForwardSteps \cup DiscardSteps \cup RollbackSteps \cup CleanupSteps
        /\ pc' # "ready" /\ StillKept
        /\ disk.journal = "cleanup_pending" => disk'.journal = "cleanup_pending"
    BY <1>4, QuietSteps
  <2>2. pc # "ready"
    BY <2>1 DEF ForwardSteps, DiscardSteps, RollbackSteps, CleanupSteps
  <2>3. Keeps("outcome") /\ Committed => disk.journal = "cleanup_pending"
    <3>1. disk.journal = "none" => pc \in DiscardSteps \cup {"write_prepared"}
      BY <2>1 DEF JournalAt, ForwardSteps, RollbackSteps, CleanupSteps
    <3>. QED BY <3>1 DEF Outcome, FoundData, Served
  <2>. QED BY <2>1, <2>2, <2>3 DEF StillKept
<1>. QED BY <1>1, <1>2, <1>3, <1>4

\* Every step of the program is a step of the switch, or none of it changes.
LEMMA StepSwitches ==
  ASSUME AllInv, AllInv', ServesActive', [Next]_vars
  PROVE  [Switch!Next]_<<Active, Loaded>>
<1>. USE DEF Active, Loaded
<1>1. CASE Run
  <2>1. /\ pc # "ready" /\ StillKept
        /\ Keeps("outcome")' /\ Committed => Committed'
        /\ Keeps("outcome")' /\ pc' = "ready" /\ Committed' => Committed
    BY <1>1, RunSwitches
  <2>2. Keeps("outcome")' /\ pc' = "ready" => Served' = IF Committed' THEN "new" ELSE "old"
    BY DEF ServesActive
  <2>. QED BY <2>1, <2>2 DEF Switch!Next, Switch!Unload, Switch!Commit, Switch!Load, StillKept
<1>2. CASE Begin
  <2>1. /\ pc = "ready" /\ pc' = "write_prepared" /\ voided' = voided
        /\ disk.journal = "none" /\ disk.dir["dest"] # "new"
    BY <1>2 DEF Begin
  <2>2. disk'.journal = "none" /\ disk'.dir["dest"] # "new"
    BY <1>2 DEF Begin, AllInv, IInv, TypeOK, Disk, Places
  <2>. QED BY <2>1, <2>2 DEF Switch!Next, Switch!Unload, Committed, Served, Keeps
<1>3. CASE LateEntry
  <2>1. PICK e \in Entries : disk' = Move(e, "old") BY <1>3 DEF LateEntry
  <2>2. /\ disk'.dir = disk.dir /\ disk'.settings = disk.settings
        /\ disk'.journal = disk.journal
    BY <2>1 DEF Move, AllInv, IInv, TypeOK, Disk
  <2>. QED BY <1>3, <2>2 DEF LateEntry, Committed, Served, Keeps
<1>4. CASE Start
  <2>1. /\ UNCHANGED <<disk, existed, voided>> /\ pc = "down" BY <1>4 DEF Start
  <2>2. Committed' = Committed /\ Keeps("outcome")' = Keeps("outcome")
    BY <2>1 DEF Committed, Served, Keeps
  <2>3. Keeps("outcome")' /\ pc' = "ready" => Served' = IF Committed' THEN "new" ELSE "old"
    BY DEF ServesActive
  <2>. QED BY <2>1, <2>2, <2>3 DEF Switch!Next, Switch!Load
<1>5. CASE Quit
  BY <1>5 DEF Quit, Committed, Served, Keeps, Switch!Next, Switch!Unload
<1>6. CASE UNCHANGED vars
  BY <1>6 DEF vars, Committed, Served, Keeps
<1>. QED BY <1>1, <1>2, <1>3, <1>4, <1>5, <1>6 DEF Next

\* The restore implements WorkspaceSwitch: whatever fails and wherever it is
\* killed, what users of the program see is one switch, made while no workspace is
\* loaded and never undone, until a weak point voids the promise.
THEOREM SwitchedOnce == Spec => SwitchesOnce
<1>1. Init => Switch!Init
  <2>. SUFFICES ASSUME Init PROVE Switch!Init OBVIOUS
  <2>1. AllInv /\ ServesActive
    BY InvariantInit, KeptInit, SwitchInit, ServesTheActive DEF AllInv
  <2>2. pc = "ready" /\ Keeps("outcome") BY DEF Init, Keeps
  <2>3. disk.journal = "none" /\ disk.dir["dest"] # "new" BY DEF Init, Places
  <2>. QED BY <2>1, <2>2, <2>3 DEF ServesActive, Switch!Init, Committed, Served
<1>2. AllInv => ServesActive BY ServesTheActive
<1>3. AllInv /\ AllInv' /\ ServesActive' /\ [Next]_vars => [Switch!Next]_<<Active, Loaded>>
  BY StepSwitches
<1>. QED
  BY <1>1, <1>2, <1>3, AllHold, PTL DEF Spec, SwitchesOnce, Switch!Spec, Active, Loaded

-----------------------------------------------------------------------------
(* The recovery refuses only after an interruption that cannot be repaired.  *)
(* A recovery refuses what it cannot tell or restore: copies that should     *)
(* not be there, or copies missing that should.  The invariant says that     *)
(* the copies are there from when the journal announces them until the       *)
(* rollback or the discard, once begun on them, has removed the journal.     *)

\* The steps of a rollback after it put the old folder back.
Reinstated == {"rb_remove_aside", "rb_settings", "rb_staging", "rb_settings_backup", "rb_journal"}

Repeatable ==
  /\ disk.journal = "prepared" => ~Exists("old")
  /\ Keeps("recovery") =>
       /\ pc \in ForwardSteps \cup DiscardSteps => clean
       /\ disk.dir["dest"] \in {"absent", "old", "staged", "new"}
       /\ pc = "ready" => disk.journal = "none"
       /\ /\ existed.data /\ pc \notin Reinstated
          /\ disk.journal \notin {"none", "prepared", "protecting", "cleanup_pending"}
          => Exists("old")
       /\ existed.data /\ pc = "rb_inspect" /\ disk.journal = "protecting" => Exists("old")
       /\ /\ existed.settings /\ pc \notin {"discard_journal", "rb_journal"}
          /\ disk.journal \notin {"none", "prepared", "cleanup_pending"}
          => disk.settingsBackup = "old"
       /\ disk.journal = "cleanup_pending"
          => /\ disk.dir["dest"] \in {"staged", "new"} /\ disk.settings \in {"old", "new"}
             /\ pc \notin RollbackSteps

-----------------------------------------------------------------------------
(* Steps that were not interrupted where they cannot be repeated *)

\* Where the recovery is still kept after a step, a step that cannot be
\* repeated was completed.
LEMMA NotInterrupted ==
  ASSUME TypeOK, NEW effect, NEW halfway, NEW next, NEW failed,
         Operation(effect, halfway, next, failed), Keeps("recovery")'
  PROVE  /\ Keeps("recovery")
         /\ \/ disk' = effect /\ pc' = next /\ faults' = faults
            \/ /\ disk' \in {disk} \cup halfway /\ pc' = failed
               /\ pc \notin Unrepeatable \cup {"discard_staging"}
            \/ /\ disk' = effect /\ pc' = failed
               /\ pc \notin Unrepeatable \cup {"discard_staging", "protect", "rb_reinstate"}
            \/ /\ disk' \in {disk, effect} \cup halfway /\ pc' = "down"
               /\ pc \notin Unrepeatable \cup {"rb_reinstate"}
<1>1. "recovery" \in Promises BY DEF Promises
<1>2. ASSUME NEW kind \in {"fault", "late", "crash"}, Interrupted(kind)
      PROVE  Keeps("recovery") /\ pc \notin WeakPoints["recovery"][kind]
  BY <1>1, <1>2 DEF Interrupted, Keeps
<1>3. /\ WeakPoints["recovery"]["fault"] = Unrepeatable \cup {"discard_staging"}
      /\ WeakPoints["recovery"]["late"]
           = Unrepeatable \cup {"discard_staging", "protect", "rb_reinstate"}
      /\ WeakPoints["recovery"]["crash"] = Unrepeatable \cup {"rb_reinstate"}
  BY DEF WeakPoints
<1>4. CASE disk' = effect /\ pc' = next /\ UNCHANGED <<faults, crashes, voided>>
  BY <1>4 DEF Keeps
<1>5. CASE /\ disk' \in {disk} \cup halfway /\ Interrupted("fault") /\ pc' = failed
  BY <1>2, <1>3, <1>5
<1>6. CASE disk' = effect /\ Interrupted("late") /\ pc' = failed
  BY <1>2, <1>3, <1>6
<1>7. CASE disk' \in {disk, effect} \cup halfway /\ Interrupted("crash") /\ pc' = "down"
  BY <1>2, <1>3, <1>7
<1>. QED BY <1>4, <1>5, <1>6, <1>7 DEF Operation

\* What the steps that cannot be repeated have done where the recovery is still
\* kept.
LEMMA Completed ==
  ASSUME IInv, Run, Keeps("recovery")'
  PROVE  /\ Keeps("recovery")
         /\ pc \in Reinstated \ {"rb_journal"} => pc' \in Reinstated
         /\ pc = "rb_journal" => disk'.journal = "none"
         /\ pc = "discard_journal" /\ clean => disk'.journal = "none"
         /\ pc = "rb_remove_dest" => pc' = "rb_settings"
         /\ pc \in {"discard_staging", "discard_settings_backup"} /\ clean => clean' \/ pc' = "down"
         /\ pc = "discard_settings_backup" => pc' = "discard_journal"
         /\ pc = "rb_reinstate" => pc' \in {"rb_remove_aside", "rb_settings"} \/ disk' = disk
<1>. USE DEF IInv, Reinstated, Unrepeatable, Skip, Keeps
<1>1. CASE WritePrepared
  BY <1>1, NotInterrupted DEF WritePrepared, JournalOp
<1>2. CASE CopyBackup
  BY <1>2, NotInterrupted DEF CopyBackup
<1>3. CASE CopySettings
  BY <1>3, NotInterrupted DEF CopySettings
<1>4. CASE WriteProtecting
  BY <1>4, NotInterrupted DEF WriteProtecting, JournalOp
<1>5. CASE Protect
  BY <1>5, NotInterrupted DEF Protect, RenameOp
<1>6. CASE WriteProtected
  BY <1>6, NotInterrupted DEF WriteProtected, JournalOp
<1>7. CASE CarryEntries
  BY <1>7, NotInterrupted DEF CarryEntries, MoveEntries
<1>8. CASE WriteActivating
  BY <1>8, NotInterrupted DEF WriteActivating, JournalOp
<1>9. CASE Activate
  BY <1>9, NotInterrupted DEF Activate, RenameOp
<1>10. CASE WriteActivated
  BY <1>10, NotInterrupted DEF WriteActivated, JournalOp
<1>11. CASE WriteWritingSettings
  BY <1>11, NotInterrupted DEF WriteWritingSettings, JournalOp
<1>12. CASE SaveSettings
  BY <1>12, NotInterrupted DEF SaveSettings
<1>13. CASE WriteSettingsActivated
  BY <1>13, NotInterrupted DEF WriteSettingsActivated, JournalOp
<1>14. CASE Validate
  BY <1>14, NotInterrupted DEF Validate
<1>15. CASE RemoveBundle
  BY <1>15, NotInterrupted DEF RemoveBundle
<1>16. CASE WriteCleanupPending
  BY <1>16, NotInterrupted DEF WriteCleanupPending, JournalOp
<1>17. CASE DiscardStaging
  BY <1>17, NotInterrupted DEF DiscardStaging, RemoveOp
<1>18. CASE DiscardSettingsBackup
  <2>1. CASE recovering \/ existed.settings
    <3>1. /\ pc = "discard_settings_backup" /\ clean' = (clean /\ faults' = faults)
          /\ Operation([disk EXCEPT !.settingsBackup = "none"], {}, "discard_journal",
                       IF recovering THEN Refused ELSE "discard_journal")
      BY <1>18, <2>1 DEF DiscardSettingsBackup
    <3>2. Keeps("recovery") /\ pc' = "discard_journal" /\ faults' = faults
      BY <3>1, NotInterrupted
    <3>. QED BY <3>1, <3>2
  <2>2. CASE ~(recovering \/ existed.settings)
    BY <1>18, <2>2 DEF DiscardSettingsBackup
  <2>. QED BY <2>1, <2>2
<1>19. CASE DiscardJournal
  BY <1>19, NotInterrupted DEF DiscardJournal, JournalOp, WithJournal, TypeOK, Disk
<1>20. CASE RollbackInspect
  BY <1>20, NotInterrupted DEF RollbackInspect
<1>21. CASE RollbackReturnStaged
  BY <1>21, NotInterrupted DEF RollbackReturnStaged, MoveEntries
<1>22. CASE RollbackSetAside
  BY <1>22, NotInterrupted DEF RollbackSetAside
<1>23. CASE RollbackReturnActive
  BY <1>23, NotInterrupted DEF RollbackReturnActive, MoveEntries
<1>24. CASE RollbackReinstate
  BY <1>24, NotInterrupted DEF RollbackReinstate, RenameOp
<1>25. CASE RollbackReactivate
  BY <1>25, NotInterrupted DEF RollbackReactivate, RenameOp
<1>26. CASE RollbackRemoveAside
  BY <1>26, NotInterrupted DEF RollbackRemoveAside, RemoveOp
<1>27. CASE RollbackRemoveDest
  BY <1>27, NotInterrupted DEF RollbackRemoveDest, RemoveOp
<1>28. CASE RollbackSettings
  BY <1>28, NotInterrupted DEF RollbackSettings
<1>29. CASE RollbackStaging
  BY <1>29, NotInterrupted DEF RollbackStaging, RemoveOp
<1>30. CASE RollbackSettingsBackup
  BY <1>30, NotInterrupted DEF RollbackSettingsBackup
<1>31. CASE RollbackJournal
  BY <1>31, NotInterrupted DEF RollbackJournal, JournalOp, WithJournal, TypeOK, Disk
<1>32. CASE CleanupInspect
  BY <1>32, NotInterrupted DEF CleanupInspect
<1>33. CASE CleanupStaging
  BY <1>33, NotInterrupted DEF CleanupStaging, RemoveOp
<1>34. CASE CleanupReturnEntries
  BY <1>34, NotInterrupted DEF CleanupReturnEntries, MoveEntries
<1>35. CASE CleanupOld
  BY <1>35, NotInterrupted DEF CleanupOld, RemoveOp
<1>36. CASE CleanupSettingsBackup
  BY <1>36, NotInterrupted DEF CleanupSettingsBackup
<1>37. CASE CleanupJournal
  BY <1>37, NotInterrupted DEF CleanupJournal, JournalOp
<1>. QED
  BY <1>1, <1>2, <1>3, <1>4, <1>5, <1>6, <1>7, <1>8, <1>9, <1>10, <1>11, <1>12, <1>13, <1>14,
     <1>15, <1>16, <1>17, <1>18, <1>19, <1>20, <1>21, <1>22, <1>23, <1>24, <1>25, <1>26, <1>27,
     <1>28, <1>29, <1>30, <1>31, <1>32, <1>33, <1>34, <1>35, <1>36, <1>37
  DEF Run, RestoreStep, DiscardStep, RollbackStep, CleanupStep

\* Every step of the restore itself.
LEMMA RestoreStepRepeatable ==
  ASSUME IInv, KeptInv, LeftAt, Repeatable, RestoreStep
  PROVE  Repeatable'
<1>. USE DEF Repeatable, Reinstated, LeftAt, KeptInv, JournalAt, DataKept, DataAt, SettingsKept,
          SettingsAt, FoundSettings, SameDirs, SameSettings, SameJournal, NowHolds, Locals,
          Refused, Exists, Skip, ForwardSteps, DiscardSteps, RollbackSteps, CleanupSteps,
          Places, JournalStates
<1>1. CASE WritePrepared
  BY <1>1, JournalStep, Completed
  DEF WritePrepared, IInv, StepFolders, NothingFound, Run, RestoreStep
<1>2. CASE CopyBackup
  <2>1. /\ SameSettings /\ SameJournal /\ pc' \in {"copy_settings", "discard_staging", "down"}
        /\ \A p \in Places \ {"staging"} : disk'.dir[p] = disk.dir[p]
    BY <1>2, OperationOutcomes DEF CopyBackup, IInv, TypeOK, Disk
  <2>. QED
    BY <1>2, <2>1, Completed
    DEF CopyBackup, IInv, StepFolders, NothingFound, Run, RestoreStep
<1>3. CASE CopySettings
  <2>1. /\ SameDirs /\ SameJournal /\ disk'.settings = disk.settings
        /\ pc' \in {"write_protecting", "discard_staging", "down"}
    BY <1>3, OperationOutcomes DEF CopySettings, IInv, TypeOK, Disk
  <2>. QED
    BY <1>3, <2>1, Completed
    DEF CopySettings, IInv, StepFolders, NothingFound, Run, RestoreStep
<1>4. CASE WriteProtecting
  BY <1>4, JournalStep, Completed
  DEF WriteProtecting, IInv, StepFolders, NothingFound, Run, RestoreStep
<1>5. CASE Protect
  BY <1>5, RenameStep, Completed DEF Protect, IInv, StepFolders, NothingFound, Run, RestoreStep
<1>6. CASE WriteProtected
  BY <1>6, JournalStep, Completed
  DEF WriteProtected, IInv, StepFolders, NothingFound, Run, RestoreStep
<1>7. CASE CarryEntries
  BY <1>7, MoveStep, Completed DEF CarryEntries, IInv, Run, RestoreStep
<1>8. CASE WriteActivating
  BY <1>8, JournalStep, Completed
  DEF WriteActivating, IInv, StepFolders, NothingFound, Run, RestoreStep
<1>9. CASE Activate
  BY <1>9, RenameStep, Completed DEF Activate, IInv, StepFolders, NothingFound, Run, RestoreStep
<1>10. CASE WriteActivated
  BY <1>10, JournalStep, Completed
  DEF WriteActivated, IInv, StepFolders, NothingFound, Run, RestoreStep
<1>11. CASE WriteWritingSettings
  BY <1>11, JournalStep, Completed
  DEF WriteWritingSettings, IInv, StepFolders, NothingFound, Run, RestoreStep
<1>12. CASE SaveSettings
  <2>1. /\ SameDirs /\ SameJournal /\ disk'.settingsBackup = disk.settingsBackup
        /\ pc' \in {"write_settings_activated", "rb_inspect", "down"}
    BY <1>12, OperationOutcomes DEF SaveSettings, IInv, TypeOK, Disk
  <2>. QED
    BY <1>12, <2>1, Completed
    DEF SaveSettings, IInv, StepFolders, NothingFound, Run, RestoreStep
<1>13. CASE WriteSettingsActivated
  BY <1>13, JournalStep, Completed
  DEF WriteSettingsActivated, IInv, StepFolders, NothingFound, Run, RestoreStep
<1>14. CASE Validate
  <2>1. SameDirs /\ SameSettings /\ SameJournal /\ pc' \in {"remove_bundle", "rb_inspect", "down"}
    BY <1>14, OperationOutcomes DEF Validate, IInv, TypeOK, Disk
  <2>. QED BY <1>14, <2>1, Completed DEF Validate, IInv, StepFolders, NothingFound, Run, RestoreStep
<1>15. CASE RemoveBundle
  <2>1. /\ SameSettings /\ SameJournal
        /\ SameDirs \/ (disk.dir["dest"] = "staged" /\ NowHolds("dest", "new"))
        /\ pc' \in {"cl_inspect", "write_cleanup_pending", "rb_inspect", "blocked", "down"}
        /\ pc' = "rb_inspect" => disk.journal # "cleanup_pending" \/ ~recovering
    BY <1>15, OperationOutcomes DEF RemoveBundle, IInv, TypeOK, Disk
  <2>. QED
    BY <1>15, <2>1, Completed
    DEF RemoveBundle, IInv, StepFolders, NothingFound, Run, RestoreStep
<1>16. CASE WriteCleanupPending
  BY <1>16, JournalStep, Completed
  DEF WriteCleanupPending, IInv, StepFolders, NothingFound, Run, RestoreStep
<1>. QED
  BY <1>1, <1>2, <1>3, <1>4, <1>5, <1>6, <1>7, <1>8, <1>9, <1>10, <1>11, <1>12, <1>13, <1>14,
     <1>15, <1>16
  DEF RestoreStep

\* Discarding.
LEMMA DiscardStepRepeatable ==
  ASSUME IInv, KeptInv, LeftAt, Repeatable, DiscardStep
  PROVE  Repeatable'
<1>. USE DEF Repeatable, Reinstated, LeftAt, KeptInv, JournalAt, DataKept, DataAt, SettingsKept,
          SettingsAt, FoundSettings, SameDirs, SameSettings, SameJournal, NowHolds, Locals,
          Refused, Exists, Skip, ForwardSteps, DiscardSteps, RollbackSteps, CleanupSteps,
          Places, JournalStates
<1>1. CASE DiscardStaging
  BY <1>1, RemoveStep, Completed
  DEF DiscardStaging, IInv, StepFolders, NothingFound, Run, DiscardStep
<1>2. CASE DiscardSettingsBackup
  <2>1. /\ SameDirs /\ SameJournal /\ disk'.settings = disk.settings
        /\ disk'.settingsBackup \in {disk.settingsBackup, "none"}
    BY <1>2, OperationOutcomes DEF DiscardSettingsBackup, IInv, TypeOK, Disk
  <2>. QED
    BY <1>2, <2>1, Completed
    DEF DiscardSettingsBackup, IInv, StepFolders, NothingFound, Run, DiscardStep
<1>3. CASE DiscardJournal
  BY <1>3, JournalStep, Completed
  DEF DiscardJournal, IInv, StepFolders, NothingFound, Run, DiscardStep
<1>. QED BY <1>1, <1>2, <1>3 DEF DiscardStep

\* A rollback.
LEMMA RollbackStepRepeatable ==
  ASSUME IInv, KeptInv, LeftAt, Repeatable, RollbackStep
  PROVE  Repeatable'
<1>. USE DEF Repeatable, Reinstated, LeftAt, KeptInv, JournalAt, DataKept, DataAt, SettingsKept,
          SettingsAt, FoundSettings, SameDirs, SameSettings, SameJournal, NowHolds, Locals,
          Refused, Exists, Skip, ForwardSteps, DiscardSteps, RollbackSteps, CleanupSteps,
          Places, JournalStates
<1>1. CASE RollbackInspect
  BY <1>1, Completed DEF RollbackInspect, Restorable, IInv, NothingFound, Run, RollbackStep
<1>2. CASE RollbackReturnStaged
  BY <1>2, MoveStep, Completed DEF RollbackReturnStaged, IInv, Run, RollbackStep
<1>3. CASE RollbackSetAside
  <2>1. SetAside.settings = disk.settings /\ SetAside.settingsBackup = disk.settingsBackup
    BY DEF SetAside, IInv, TypeOK, Disk
  <2>2. /\ disk' \in {disk, SetAside}
        /\ pc' \in {"rb_return_active", "rb_reinstate", "blocked", "down"}
    BY <1>3, OperationOutcomes DEF RollbackSetAside, IInv
  <2>3. /\ SameSettings /\ SameJournal
        /\ \/ SameDirs
           \/ disk'.dir["dest"] = "absent" /\ disk'.dir["old"] = disk.dir["old"]
    BY <2>1, <2>2, SetAsideEffect DEF IInv
  <2>. QED
    BY <1>3, <2>2, <2>3, Completed
    DEF RollbackSetAside, IInv, StepFolders, NothingFound, Run, RollbackStep
<1>4. CASE RollbackReturnActive
  BY <1>4, MoveStep, Completed DEF RollbackReturnActive, IInv, Run, RollbackStep
<1>5. CASE RollbackReinstate
  BY <1>5, RenameStep, Completed
  DEF RollbackReinstate, IInv, StepFolders, NothingFound, Run, RollbackStep
<1>6. CASE RollbackReactivate
  BY <1>6, RenameStep, Completed
  DEF RollbackReactivate, IInv, StepFolders, NothingFound, Run, RollbackStep
<1>7. CASE RollbackRemoveAside
  BY <1>7, RemoveStep, Completed
  DEF RollbackRemoveAside, IInv, StepFolders, NothingFound, Run, RollbackStep
<1>8. CASE RollbackRemoveDest
  BY <1>8, RemoveStep, Completed
  DEF RollbackRemoveDest, IInv, StepFolders, NothingFound, Run, RollbackStep
<1>9. CASE RollbackSettings
  <2>1. /\ SameDirs /\ SameJournal /\ disk'.settingsBackup = disk.settingsBackup
    BY <1>9, OperationOutcomes DEF RollbackSettings, IInv, TypeOK, Disk
  <2>. QED
    BY <1>9, <2>1, Completed
    DEF RollbackSettings, IInv, StepFolders, NothingFound, Run, RollbackStep
<1>10. CASE RollbackStaging
  BY <1>10, RemoveStep, Completed
  DEF RollbackStaging, IInv, StepFolders, NothingFound, Run, RollbackStep
<1>11. CASE RollbackSettingsBackup
  <2>1. /\ SameDirs /\ SameJournal /\ disk'.settings = disk.settings
        /\ pc' \in {"rb_journal", "blocked", "down"}
        /\ disk'.settingsBackup = "none" \/ disk'.settingsBackup = disk.settingsBackup
    BY <1>11, OperationOutcomes DEF RollbackSettingsBackup, IInv, TypeOK, Disk
  <2>. QED
    BY <1>11, <2>1, Completed
    DEF RollbackSettingsBackup, IInv, StepFolders, NothingFound, Run, RollbackStep
<1>12. CASE RollbackJournal
  BY <1>12, JournalStep, Completed
  DEF RollbackJournal, IInv, StepFolders, NothingFound, Run, RollbackStep
<1>. QED
  BY <1>1, <1>2, <1>3, <1>4, <1>5, <1>6, <1>7, <1>8, <1>9, <1>10, <1>11, <1>12
  DEF RollbackStep

\* A cleanup.
LEMMA CleanupStepRepeatable ==
  ASSUME IInv, KeptInv, LeftAt, Repeatable, CleanupStep
  PROVE  Repeatable'
<1>. USE DEF Repeatable, Reinstated, LeftAt, KeptInv, JournalAt, DataKept, DataAt, SettingsKept,
          SettingsAt, FoundSettings, SameDirs, SameSettings, SameJournal, NowHolds, Locals,
          Refused, Exists, Skip, ForwardSteps, DiscardSteps, RollbackSteps, CleanupSteps,
          Places, JournalStates
<1>1. CASE CleanupInspect
  BY <1>1, Completed DEF CleanupInspect, Restorable, IInv, NothingFound, Run, CleanupStep
<1>2. CASE CleanupStaging
  BY <1>2, RemoveStep, Completed
  DEF CleanupStaging, IInv, StepFolders, NothingFound, Run, CleanupStep
<1>3. CASE CleanupReturnEntries
  BY <1>3, MoveStep, Completed DEF CleanupReturnEntries, IInv, Run, CleanupStep
<1>4. CASE CleanupOld
  BY <1>4, RemoveStep, Completed DEF CleanupOld, IInv, StepFolders, NothingFound, Run, CleanupStep
<1>5. CASE CleanupSettingsBackup
  <2>1. /\ SameDirs /\ SameJournal /\ disk'.settings = disk.settings
        /\ pc' \in {"cl_journal", "blocked", "down"}
    BY <1>5, OperationOutcomes DEF CleanupSettingsBackup, IInv, TypeOK, Disk
  <2>. QED
    BY <1>5, <2>1, Completed
    DEF CleanupSettingsBackup, IInv, StepFolders, NothingFound, Run, CleanupStep
<1>6. CASE CleanupJournal
  BY <1>6, JournalStep, Completed
  DEF CleanupJournal, IInv, StepFolders, NothingFound, Run, CleanupStep
<1>. QED BY <1>1, <1>2, <1>3, <1>4, <1>5, <1>6 DEF CleanupStep

\* A restore begins with what it found in place.
LEMMA BeginRepeatable ==
  ASSUME IInv, KeptInv, Repeatable, Begin
  PROVE  Repeatable'
<1>1. /\ disk'.journal = "none" /\ disk'.settings = disk.settings
      /\ \A p \in Places \ {"staging"} : disk'.dir[p] = disk.dir[p]
  BY DEF Begin, IInv, TypeOK, Disk
<1>2. /\ pc' = "write_prepared" /\ clean' = TRUE /\ voided' = voided
  BY DEF Begin
<1>. QED BY <1>1, <1>2 DEF Repeatable, Keeps, Reinstated, Places, RollbackSteps

\* A start takes up what it finds.
LEMMA StartRepeatable ==
  ASSUME IInv, KeptInv, Repeatable, Start
  PROVE  Repeatable'
<1>1. UNCHANGED <<disk, existed, voided>> /\ pc = "down" /\ clean' = TRUE BY DEF Start
<1>2. StartChoice BY StartChooses
<1>3. pc' = "rb_inspect" /\ disk.journal = "protecting" => ~Uncommitted
  BY DEF Start, Refused, Activated
<1>4. existed.data /\ pc' = "rb_inspect" /\ disk.journal = "protecting" => Exists("old")
  BY <1>3 DEF Uncommitted, KeptInv, DataKept, Exists
<1>. QED
  BY <1>1, <1>2, <1>4
  DEF StartChoice, Repeatable, Keeps, Exists, Reinstated, ForwardSteps, DiscardSteps, RollbackSteps

LEMMA RepeatableStep ==
  ASSUME AllInv, Repeatable, [Next]_vars
  PROVE  Repeatable'
<1>. USE DEF AllInv, SwitchInv
<1>1. CASE Begin BY <1>1, BeginRepeatable
<1>2. CASE Run
  BY <1>2, RestoreStepRepeatable, DiscardStepRepeatable, RollbackStepRepeatable,
     CleanupStepRepeatable DEF Run
<1>3. CASE LateEntry
  <2>1. PICK e \in Entries : disk.at[e] = "elsewhere" /\ disk' = Move(e, "old")
    BY <1>3 DEF LateEntry
  <2>2. /\ disk'.settings = disk.settings /\ disk'.settingsBackup = disk.settingsBackup
        /\ disk'.dir = disk.dir /\ disk'.journal = disk.journal
    BY <2>1 DEF Move, IInv, TypeOK, Disk
  <2>. QED BY <1>3, <2>2 DEF LateEntry, Repeatable, Keeps, Exists
<1>4. CASE Start BY <1>4, StartRepeatable
<1>5. CASE Quit
  BY <1>5 DEF Quit, Repeatable, Keeps, Exists, Reinstated, ForwardSteps, DiscardSteps, RollbackSteps
<1>6. CASE UNCHANGED vars BY <1>6 DEF vars, Repeatable, Keeps, Exists
<1>. QED BY <1>1, <1>2, <1>3, <1>4, <1>5, <1>6 DEF Next

LEMMA RepeatableInit ==
  ASSUME Init
  PROVE  Repeatable
<1>1. /\ disk.journal = "none" /\ pc = "ready" /\ clean = TRUE
      /\ disk.dir["dest"] \in {"old", "absent"}
  BY DEF Init, Places
<1>. QED BY <1>1 DEF Repeatable, ForwardSteps, DiscardSteps

-----------------------------------------------------------------------------
(* When a recovery refuses *)

\* An operation that does not fail goes on to the next step, or is killed.
LEMMA Unfailed ==
  ASSUME TypeOK, NEW effect, NEW halfway, NEW next, NEW failed,
         Operation(effect, halfway, next, failed), faults' = faults
  PROVE  \/ disk' = effect /\ pc' = next
         \/ pc' = "down"
<1>1. faults + 1 # faults BY BoundsAssumption DEF TypeOK
<1>. QED BY <1>1 DEF Operation

\* A step that gives up though its file operation succeeded is a decision.
LEMMA Decisions ==
  ASSUME IInv, Run, Refuses
  PROVE  \/ RollbackInspect /\ ~Restorable
         \/ /\ CleanupInspect
            /\ \/ ~existed.data /\ Exists("old")
               \/ ~existed.settings /\ disk.settingsBackup # "none"
         \/ DiscardJournal /\ ~clean
<1>. USE DEF IInv, Refuses
<1>1. CASE WritePrepared
  BY <1>1, Unfailed DEF WritePrepared, JournalOp, Skip, Refused
<1>2. CASE CopyBackup
  BY <1>2, Unfailed DEF CopyBackup, Skip, Refused
<1>3. CASE CopySettings
  BY <1>3, Unfailed DEF CopySettings, Skip, Refused
<1>4. CASE WriteProtecting
  BY <1>4, Unfailed DEF WriteProtecting, JournalOp, Skip, Refused
<1>5. CASE Protect
  BY <1>5, Unfailed DEF Protect, RenameOp, Skip, Refused
<1>6. CASE WriteProtected
  BY <1>6, Unfailed DEF WriteProtected, JournalOp, Skip, Refused
<1>7. CASE CarryEntries
  BY <1>7, Unfailed DEF CarryEntries, MoveEntries, Skip, Refused
<1>8. CASE WriteActivating
  BY <1>8, Unfailed DEF WriteActivating, JournalOp, Skip, Refused
<1>9. CASE Activate
  BY <1>9, Unfailed DEF Activate, RenameOp, Skip, Refused
<1>10. CASE WriteActivated
  BY <1>10, Unfailed DEF WriteActivated, JournalOp, Skip, Refused
<1>11. CASE WriteWritingSettings
  BY <1>11, Unfailed DEF WriteWritingSettings, JournalOp, Skip, Refused
<1>12. CASE SaveSettings
  BY <1>12, Unfailed DEF SaveSettings, Skip, Refused
<1>13. CASE WriteSettingsActivated
  BY <1>13, Unfailed DEF WriteSettingsActivated, JournalOp, Skip, Refused
<1>14. CASE Validate
  BY <1>14, Unfailed DEF Validate, Skip, Refused
<1>15. CASE RemoveBundle
  BY <1>15, Unfailed DEF RemoveBundle, Skip, Refused
<1>16. CASE WriteCleanupPending
  BY <1>16, Unfailed DEF WriteCleanupPending, JournalOp, Skip, Refused
<1>17. CASE DiscardStaging
  BY <1>17, Unfailed DEF DiscardStaging, RemoveOp, Skip, Refused
<1>18. CASE DiscardSettingsBackup
  BY <1>18, Unfailed DEF DiscardSettingsBackup, Skip, Refused
<1>19. CASE DiscardJournal
  BY <1>19, Unfailed
  DEF DiscardJournal, JournalOp, Skip, Refused, AfterDiscard, WithJournal, TypeOK, Disk
<1>20. CASE RollbackInspect
  BY <1>20 DEF RollbackInspect, Refused
<1>21. CASE RollbackReturnStaged
  BY <1>21, Unfailed DEF RollbackReturnStaged, MoveEntries, Skip, Refused
<1>22. CASE RollbackSetAside
  BY <1>22, Unfailed DEF RollbackSetAside, Skip, Refused
<1>23. CASE RollbackReturnActive
  BY <1>23, Unfailed DEF RollbackReturnActive, MoveEntries, Skip, Refused
<1>24. CASE RollbackReinstate
  BY <1>24, Unfailed DEF RollbackReinstate, RenameOp, Skip, Refused
<1>25. CASE RollbackReactivate
  BY <1>25, Unfailed DEF RollbackReactivate, RenameOp, Skip, Refused
<1>26. CASE RollbackRemoveAside
  BY <1>26, Unfailed DEF RollbackRemoveAside, RemoveOp, Skip, Refused
<1>27. CASE RollbackRemoveDest
  BY <1>27, Unfailed DEF RollbackRemoveDest, RemoveOp, Skip, Refused
<1>28. CASE RollbackSettings
  BY <1>28, Unfailed DEF RollbackSettings, Skip, Refused
<1>29. CASE RollbackStaging
  BY <1>29, Unfailed DEF RollbackStaging, RemoveOp, Skip, Refused
<1>30. CASE RollbackSettingsBackup
  BY <1>30, Unfailed DEF RollbackSettingsBackup, Skip, Refused
<1>31. CASE RollbackJournal
  BY <1>31, Unfailed DEF RollbackJournal, JournalOp, Skip, Refused, WithJournal, TypeOK, Disk
<1>32. CASE CleanupInspect
  BY <1>32 DEF CleanupInspect, Refused
<1>33. CASE CleanupStaging
  BY <1>33, Unfailed DEF CleanupStaging, RemoveOp, Skip, Refused
<1>34. CASE CleanupReturnEntries
  BY <1>34, Unfailed DEF CleanupReturnEntries, MoveEntries, Skip, Refused
<1>35. CASE CleanupOld
  BY <1>35, Unfailed DEF CleanupOld, RemoveOp, Skip, Refused
<1>36. CASE CleanupSettingsBackup
  BY <1>36, Unfailed DEF CleanupSettingsBackup, Skip, Refused
<1>37. CASE CleanupJournal
  BY <1>37, Unfailed DEF CleanupJournal, JournalOp, Skip, Refused, WithJournal, TypeOK, Disk
<1>. QED
  BY <1>1, <1>2, <1>3, <1>4, <1>5, <1>6, <1>7, <1>8, <1>9, <1>10, <1>11, <1>12, <1>13, <1>14,
     <1>15, <1>16, <1>17, <1>18, <1>19, <1>20, <1>21, <1>22, <1>23, <1>24, <1>25, <1>26, <1>27,
     <1>28, <1>29, <1>30, <1>31, <1>32, <1>33, <1>34, <1>35, <1>36, <1>37
  DEF Run, RestoreStep, DiscardStep, RollbackStep, CleanupStep

\* With the invariant each decision to refuse has its reason in an interruption
\* that cannot be repeated.
LEMMA RefusalExplained ==
  ASSUME AllInv, Repeatable, [Next]_vars, Refuses
  PROVE  ~Keeps("recovery")
<1>. SUFFICES ASSUME Keeps("recovery") PROVE FALSE OBVIOUS
<1>. USE DEF AllInv, IInv, KeptInv, SwitchInv
<1>1. /\ ~existed.data => ~Exists("old")
      /\ ~existed.settings => disk.settingsBackup = "none"
  BY DEF DataKept, NothingFound, LeftAt, Exists
<1>2. CASE Start
  <2>1. PICK valid \in DataValid :
          pc' = CASE disk.journal = "none" -> "ready"
                  [] disk.journal # "none" /\ Inconsistent -> Refused
                  [] disk.journal # "none" /\ ~Inconsistent /\ Uncommitted -> "discard_staging"
                  [] disk.journal # "none" /\ ~Inconsistent /\ Activated ->
                       Resolve(valid /\ disk.settings \in {"old", "new"})
                  [] OTHER -> "rb_inspect"
    BY <1>2 DEF Start
  <2>2. pc = "down" /\ pc' = "blocked" BY <1>2 DEF Start, Refuses
  <2>3. ~Inconsistent
    BY <1>1, <2>2 DEF Inconsistent, Repeatable, Reinstated
  <2>4. ~(disk.journal = "settings_activated" /\ existed.data /\ ~Exists("old"))
    BY <2>2 DEF Repeatable, Reinstated
  <2>5. Resolve(valid /\ disk.settings \in {"old", "new"}) # "blocked"
    BY <2>4 DEF Resolve
  <2>. QED BY <2>1, <2>2, <2>3, <2>5
<1>3. CASE Run
  <2>1. CASE RollbackInspect /\ ~Restorable
    <3>1. /\ pc = "rb_inspect" /\ disk.journal \notin {"none", "prepared"}
          /\ disk.journal # "cleanup_pending"
      BY <2>1 DEF RollbackInspect, JournalAt, RollbackSteps, Repeatable
    <3>2. existed.settings => disk.settingsBackup = "old"
      BY <3>1 DEF Repeatable
    <3>3. existed.data => Exists("old")
      BY <3>1 DEF Repeatable, Reinstated
    <3>4. existed.data \in BOOLEAN /\ existed.settings \in BOOLEAN BY DEF TypeOK
    <3>. QED BY <1>1, <2>1, <3>2, <3>3, <3>4 DEF Restorable, Exists
  <2>2. CASE DiscardJournal /\ ~clean
    BY <2>2 DEF DiscardJournal, Repeatable, DiscardSteps
  <2>3. CASE /\ CleanupInspect
             /\ \/ ~existed.data /\ Exists("old")
                \/ ~existed.settings /\ disk.settingsBackup # "none"
    BY <1>1, <2>3
  <2>. QED BY <1>3, <2>1, <2>2, <2>3, Decisions
<1>4. CASE Begin \/ LateEntry \/ Quit \/ UNCHANGED vars
  BY <1>4 DEF Refuses, Begin, LateEntry, Quit, vars
<1>. QED BY <1>2, <1>3, <1>4 DEF Next

\* A recovery whose own file operations succeed refuses only after an
\* interruption at a step that cannot be repeated (recoverInventatoryRestore,
\* rollbackRestore, cleanupCommittedRestore).
THEOREM RefusalsExplained == Spec => RefusesOnlyUnrepeatable
<1>1. Init => Repeatable BY RepeatableInit
<1>2. AllInv /\ Repeatable /\ [Next]_vars => Repeatable' BY RepeatableStep
<1>3. AllInv /\ Repeatable /\ [Next]_vars => [Refuses => ~Keeps("recovery")]_vars
  BY RefusalExplained
<1>. QED BY <1>1, <1>2, <1>3, AllHold, PTL DEF Spec, RefusesOnlyUnrepeatable

=============================================================================
