--------------------------- MODULE RestoreJournal ---------------------------
(***************************************************************************)
(* Replacing the workspace by a backup, the journal that makes it          *)
(* recoverable, and the recovery that every start of the program runs      *)
(* (src/src/core/transfer).  One action is one call that changes the disk. *)
(*                                                                         *)
(* The workspace folder, the staging copy, the protected old folder and    *)
(* the folder a rollback sets aside are places.  A place holds Inventatory's*)
(* own files (dir) and the user's own entries (at), which a restore must   *)
(* carry over and never delete.                                            *)
(*                                                                         *)
(* A file operation may fail, with or without having had its effect (a     *)
(* rename whose directory flush fails has renamed), and the program may be *)
(* killed before, in the middle of, or after it.                           *)
(***************************************************************************)
EXTENDS Naturals, FiniteSets

CONSTANTS
  Entries,        \* top-level entries of the workspace that Inventatory does not own
  MaxFaults,      \* bound: file operations that fail
  MaxCrashes,     \* bound: times the program is killed
  FaultSteps,     \* steps whose file operation may fail
  LateSteps,      \* those that may fail after the operation took effect
  CrashSteps      \* steps in which the program may be killed

ASSUME BoundsAssumption == MaxFaults \in Nat /\ MaxCrashes \in Nat

VARIABLES
  disk,      \* what a crash leaves: the places, the settings and the journal
  pc,        \* the next file operation of the running program
  recovering,\* FALSE: called by a restore; TRUE: by the recovery at start-up
  aside,     \* rollback: the replacement was renamed away in this run
  clean,     \* discard: every removal succeeded so far
  existed,   \* recorded in the journal: was there a data folder, were there settings
  faults, crashes,
  voided     \* history: the promises that an interruption at a weak point has voided

vars == <<disk, pc, recovering, aside, clean, existed, faults, crashes, voided>>

Places == {"dest", "staging", "old", "rollbackNew"}

\* A place is absent, or holds the files of the old workspace, those of the
\* backup with its bundle files, those of the backup alone, or a part of some.
Contents == {"absent", "empty", "partial", "old", "staged", "new"}

\* Where an entry can be: in a place, in a folder no journal names any more,
\* deleted, or never in this workspace.
Whereabouts == Places \cup {"stranded", "deleted", "elsewhere"}

Settings == {"none", "partial", "old", "new"}

JournalStates == {"prepared", "protecting", "protected", "activating", "activated",
                  "writing_settings", "settings_activated", "cleanup_pending"}

ForwardSteps == {"write_prepared", "copy_backup", "copy_settings", "write_protecting",
                 "protect", "write_protected", "carry_entries", "write_activating",
                 "activate", "write_activated", "write_writing_settings", "save_settings",
                 "write_settings_activated", "validate", "remove_bundle",
                 "write_cleanup_pending"}
DiscardSteps == {"discard_staging", "discard_settings_backup", "discard_journal"}
RollbackSteps == {"rb_inspect", "rb_return_staged", "rb_set_aside", "rb_return_active",
                  "rb_reinstate", "rb_reactivate",
                  "rb_remove_aside", "rb_remove_dest", "rb_settings", "rb_staging",
                  "rb_settings_backup", "rb_journal"}
CleanupSteps == {"cl_inspect", "cl_staging", "cl_return_entries", "cl_old", "cl_settings_backup",
                 "cl_journal"}
\* ready: a workspace is loaded; blocked: inventoryRecoveryRequired_, nothing
\* is loaded or saved until a restart; down: not running.
Rest == {"ready", "blocked", "down"}

Disk == [dir : [Places -> Contents], at : [Entries -> Whereabouts],
         settings : Settings, settingsBackup : Settings,
         journal : JournalStates \cup {"none"}]

\* The two promises of the properties below, and the steps at which a failure
\* (fault), a failure after the operation took effect (late) or a kill (crash)
\* voids one: the known disagreements of the code with its documentation.
\*   outcome: a removal of the workspace folder that stops half-way, a rename that
\*     reports failure after it was done, a rollback stopped with the replacement
\*     set aside, whose folder no journal names;
\*   recovery: a rollback stopped after it put the old folder back, and a discard
\*     stopped after it removed the settings backup, which cannot be repeated.
Promises == {"outcome", "recovery"}

Unrepeatable == {"rb_remove_aside", "rb_settings", "rb_staging", "rb_settings_backup",
                 "rb_journal", "rb_remove_dest", "discard_settings_backup", "discard_journal"}

WeakPoints ==
  [outcome |->
     [fault |-> {"rb_remove_dest", "rb_reactivate"},
      late  |-> {"rb_remove_dest", "rb_reactivate", "protect", "rb_set_aside"},
      crash |-> {"rb_remove_dest", "rb_reactivate", "rb_set_aside", "rb_return_active"}],
   recovery |->
     [fault |-> Unrepeatable \cup {"discard_staging"},
      late  |-> Unrepeatable \cup {"discard_staging", "protect", "rb_reinstate"},
      crash |-> Unrepeatable \cup {"rb_reinstate"}]]

Interrupted(kind) ==
  voided' = voided \cup {p \in Promises : pc \in WeakPoints[p][kind]}

Keeps(promise) == promise \notin voided

TypeOK ==
  /\ disk \in Disk
  /\ pc \in ForwardSteps \cup DiscardSteps \cup RollbackSteps \cup CleanupSteps \cup Rest
  /\ recovering \in BOOLEAN /\ aside \in BOOLEAN /\ clean \in BOOLEAN
  /\ existed \in [data : BOOLEAN, settings : BOOLEAN]
  /\ faults \in 0..MaxFaults /\ crashes \in 0..MaxCrashes
  /\ voided \in SUBSET Promises

-----------------------------------------------------------------------------
(* File operations, as functions of the disk *)

Exists(place) == disk.dir[place] # "absent"

Held(place) == {e \in Entries : disk.at[e] = place}

Rename(from, to) ==
  [disk EXCEPT !.dir = [@ EXCEPT ![to] = disk.dir[from], ![from] = "absent"],
               !.at = [e \in Entries |-> IF @[e] = from THEN to ELSE @[e]]]

Move(entry, to) == [disk EXCEPT !.at[entry] = to]

Remove(place) ==
  [disk EXCEPT !.dir[place] = "absent",
               !.at = [e \in Entries |-> IF @[e] = place THEN "deleted" ELSE @[e]]]

\* remove_all stopped half-way.
Gut(place) ==
  [disk EXCEPT !.dir[place] = IF @ = "absent" THEN @ ELSE "partial",
               !.at = [e \in Entries |-> IF @[e] = place THEN "deleted" ELSE @[e]]]

WithJournal(state) == [disk EXCEPT !.journal = state]

\* One file operation: it has its effect and the program goes on; or it fails,
\* or the program is killed in it, before, half-way or (late) after the effect.
Operation(effect, halfway, next, failed) ==
  \/ disk' = effect /\ pc' = next /\ UNCHANGED <<faults, crashes, voided>>
  \/ /\ pc \in FaultSteps /\ faults < MaxFaults
     /\ \/ disk' \in {disk} \cup halfway /\ Interrupted("fault")
        \/ pc \in LateSteps /\ disk' = effect /\ Interrupted("late")
     /\ pc' = failed /\ faults' = faults + 1 /\ UNCHANGED crashes
  \/ /\ pc \in CrashSteps /\ crashes < MaxCrashes
     /\ disk' \in {disk, effect} \cup halfway /\ Interrupted("crash")
     /\ pc' = "down" /\ crashes' = crashes + 1 /\ UNCHANGED faults

Skip(next) == pc' = next /\ UNCHANGED <<disk, faults, crashes, voided>>

RenameOp(from, to, next, failed) == Operation(Rename(from, to), {}, next, failed)

RemoveOp(place, next, failed) == Operation(Remove(place), {Gut(place)}, next, failed)

JournalOp(state, next, failed) == Operation(WithJournal(state), {}, next, failed)

\* moveUnmanagedEntries: one rename per entry, in the order the folder lists.
MoveEntries(from, to, next, failed) ==
  \/ Held(from) = {} /\ Skip(next)
  \/ \E e \in Held(from) : Operation(Move(e, to), {}, pc, failed)

Locals == <<recovering, aside, clean, existed>>

\* Where a failed restore, or a failed recovery, leaves the program.
Refused == "blocked"

-----------------------------------------------------------------------------
(* restoreInventatoryBackupImpl: every operation up to the cleanup *)

\* Finds no journal, creates the staging folder and picks unused names for the
\* protected copies.  Bounds: a workspace is replaced once, and nothing follows
\* an outcome that left the old workspace in a folder no journal names.
Begin ==
  /\ pc = "ready" /\ disk.journal = "none" /\ disk.dir["dest"] \in {"old", "absent"} /\ ~Exists("old")
  /\ existed' = [data |-> Exists("dest"), settings |-> disk.settings # "none"]
  /\ disk' = [disk EXCEPT !.dir["staging"] = "empty", !.settingsBackup = "none"]
  /\ pc' = "write_prepared" /\ clean' = TRUE /\ recovering' = FALSE
  /\ UNCHANGED <<aside, faults, crashes, voided>>

WritePrepared ==
  /\ pc = "write_prepared"
  /\ JournalOp("prepared", "copy_backup", "discard_staging")
  /\ UNCHANGED Locals

CopyBackup ==
  /\ pc = "copy_backup"
  /\ Operation([disk EXCEPT !.dir["staging"] = "staged"],
               {[disk EXCEPT !.dir["staging"] = "partial"]},
               "copy_settings", "discard_staging")
  /\ UNCHANGED Locals

\* Mutant of CopySettings: the settings are backed up only when there is data to protect.
CopySettingsOnlyWithData ==
  /\ pc = "copy_settings"
  /\ IF existed.data /\ existed.settings
       THEN Operation([disk EXCEPT !.settingsBackup = disk.settings], {},
                      "write_protecting", "discard_staging")
       ELSE Skip("write_protecting")
  /\ UNCHANGED Locals

CopySettings ==
  /\ pc = "copy_settings"
  /\ IF existed.settings
       THEN Operation([disk EXCEPT !.settingsBackup = disk.settings],
                      {[disk EXCEPT !.settingsBackup = "partial"]},
                      "write_protecting", "discard_staging")
       ELSE Skip("write_protecting")
  /\ UNCHANGED Locals

WriteProtecting ==
  /\ pc = "write_protecting"
  /\ JournalOp("protecting", "protect", "discard_staging")
  /\ UNCHANGED Locals

Protect ==
  /\ pc = "protect"
  /\ IF existed.data
       THEN RenameOp("dest", "old", "write_protected", "discard_staging")
       ELSE Skip("write_protected")
  /\ UNCHANGED Locals

WriteProtected ==
  /\ pc = "write_protected"
  /\ JournalOp("protected", "carry_entries", "rb_inspect")
  /\ UNCHANGED Locals

CarryEntries ==
  /\ pc = "carry_entries"
  /\ IF existed.data THEN MoveEntries("old", "staging", "write_activating", "rb_inspect")
                     ELSE Skip("write_activating")
  /\ UNCHANGED Locals

WriteActivating ==
  /\ pc = "write_activating"
  /\ JournalOp("activating", "activate", "rb_inspect")
  /\ UNCHANGED Locals

Activate ==
  /\ pc = "activate"
  /\ RenameOp("staging", "dest", "write_activated", "rb_inspect")
  /\ UNCHANGED Locals

WriteActivated ==
  /\ pc = "write_activated"
  /\ JournalOp("activated", "write_writing_settings", "rb_inspect")
  /\ UNCHANGED Locals

WriteWritingSettings ==
  /\ pc = "write_writing_settings"
  /\ JournalOp("writing_settings", "save_settings", "rb_inspect")
  /\ UNCHANGED Locals

SaveSettings ==
  /\ pc = "save_settings"
  /\ Operation([disk EXCEPT !.settings = "new"], {}, "write_settings_activated", "rb_inspect")
  /\ UNCHANGED Locals

WriteSettingsActivated ==
  /\ pc = "write_settings_activated"
  /\ JournalOp("settings_activated", "validate", "rb_inspect")
  /\ UNCHANGED Locals

\* validateWorkspaceData and validateWorkspaceSettings only read.
Validate ==
  /\ pc = "validate"
  /\ Operation(disk, {}, "remove_bundle", "rb_inspect")
  /\ UNCHANGED Locals

\* manifest.tsv and settings.conf of the bundle leave the active folder.
RemoveBundle ==
  /\ pc = "remove_bundle"
  /\ Operation([disk EXCEPT !.dir["dest"] = IF @ = "staged" THEN "new" ELSE @], {},
               IF disk.journal = "cleanup_pending" THEN "cl_inspect" ELSE "write_cleanup_pending",
               IF recovering THEN Refused ELSE "rb_inspect")
  /\ UNCHANGED Locals

\* Mutant of WriteCleanupPending: a commit that reports failure is rolled
\* back like the steps before it.
WriteCleanupPendingRollsBack ==
  /\ pc = "write_cleanup_pending"
  /\ JournalOp("cleanup_pending", "cl_inspect", "rb_inspect")
  /\ UNCHANGED Locals

\* The commit point.  A failure here no longer rolls back.
WriteCleanupPending ==
  /\ pc = "write_cleanup_pending"
  /\ JournalOp("cleanup_pending", "cl_inspect", Refused)
  /\ UNCHANGED Locals

-----------------------------------------------------------------------------
(* discardStage, and the same removals by the recovery of an early journal. *)
(* A restore goes on after a failed removal but then keeps the journal; the *)
(* recovery stops at the first failure.                                     *)

AfterDiscard == IF recovering THEN Refused ELSE "ready"

DiscardStaging ==
  /\ pc = "discard_staging"
  /\ RemoveOp("staging", "discard_settings_backup",
              IF recovering THEN Refused ELSE "discard_settings_backup")
  /\ clean' = (clean /\ faults' = faults)
  /\ UNCHANGED <<recovering, aside, existed>>

DiscardSettingsBackup ==
  /\ pc = "discard_settings_backup"
  /\ IF recovering \/ existed.settings
       THEN Operation([disk EXCEPT !.settingsBackup = "none"], {}, "discard_journal",
                      IF recovering THEN Refused ELSE "discard_journal")
       ELSE Skip("discard_journal")
  /\ clean' = (clean /\ faults' = faults)
  /\ UNCHANGED <<recovering, aside, existed>>

DiscardJournal ==
  /\ pc = "discard_journal"
  /\ IF clean
       THEN JournalOp("none", "ready", AfterDiscard)
       ELSE Skip(AfterDiscard)
  /\ UNCHANGED Locals

-----------------------------------------------------------------------------
(* rollbackRestore, from a failed restore or from the recovery.  Failing    *)
(* leaves the journal for the next start.                                   *)

\* Mutant of Restorable: the protected folder is required even when there was none.
RestorableOnlyWithData == Exists("old") /\ (disk.settingsBackup # "none") = existed.settings

\* The protected copies must be there to put back, and must not be there when
\* there was nothing to protect.
Restorable ==
  /\ Exists("old") = existed.data
  /\ (disk.settingsBackup # "none") = existed.settings

RollbackInspect ==
  /\ pc = "rb_inspect"
  /\ pc' = CASE ~Restorable -> Refused
             [] Restorable /\ existed.data -> "rb_return_staged"
             [] OTHER -> "rb_remove_dest"
  /\ aside' = FALSE
  /\ UNCHANGED <<disk, recovering, clean, existed, faults, crashes, voided>>

\* Mutant of RollbackReturnStaged: the user's files are looked for in the active folder only.
RollbackForgetsStaged ==
  /\ pc = "rb_return_staged"
  /\ Skip("rb_set_aside")
  /\ UNCHANGED Locals

RollbackReturnStaged ==
  /\ pc = "rb_return_staged"
  /\ MoveEntries("staging", "old", "rb_set_aside", Refused)
  /\ UNCHANGED Locals

\* The replacement gets an unused name that no journal records; what an earlier
\* rollback set aside stays where it is.
SetAside ==
  [disk EXCEPT !.dir = [@ EXCEPT !["rollbackNew"] = disk.dir["dest"], !["dest"] = "absent"],
               !.at = [e \in Entries |-> CASE @[e] = "rollbackNew" -> "stranded"
                                          [] @[e] = "dest" -> "rollbackNew"
                                          [] OTHER -> @[e]]]

RollbackSetAside ==
  /\ pc = "rb_set_aside"
  /\ IF Exists("dest")
       THEN Operation(SetAside, {}, "rb_return_active", Refused) /\ aside' = TRUE
       ELSE Skip("rb_reinstate") /\ UNCHANGED aside
  /\ UNCHANGED <<recovering, clean, existed>>

\* Mutant of RollbackReturnActive: the replacement is removed without looking for the user's files.
RollbackForgetsActive ==
  /\ pc = "rb_return_active"
  /\ Skip("rb_reinstate")
  /\ UNCHANGED Locals

RollbackReturnActive ==
  /\ pc = "rb_return_active"
  /\ MoveEntries("rollbackNew", "old", "rb_reinstate", "rb_reactivate")
  /\ UNCHANGED Locals

RollbackReinstate ==
  /\ pc = "rb_reinstate"
  /\ RenameOp("old", "dest", IF aside THEN "rb_remove_aside" ELSE "rb_settings",
              IF aside THEN "rb_reactivate" ELSE Refused)
  /\ UNCHANGED Locals

\* The replacement goes back, unless the old folder is already in its place.
RollbackReactivate ==
  /\ pc = "rb_reactivate"
  /\ IF Exists("dest") THEN Skip(Refused)
                       ELSE RenameOp("rollbackNew", "dest", Refused, Refused)
  /\ UNCHANGED Locals

RollbackRemoveAside ==
  /\ pc = "rb_remove_aside"
  /\ RemoveOp("rollbackNew", "rb_settings", Refused)
  /\ UNCHANGED Locals

RollbackRemoveDest ==
  /\ pc = "rb_remove_dest"
  /\ RemoveOp("dest", "rb_settings", Refused)
  /\ UNCHANGED Locals

\* Mutant of RollbackSettings: only the data is rolled back.
RollbackKeepsSettings ==
  /\ pc = "rb_settings"
  /\ Skip("rb_staging")
  /\ UNCHANGED Locals

RollbackSettings ==
  /\ pc = "rb_settings"
  /\ Operation([disk EXCEPT !.settings = IF existed.settings THEN disk.settingsBackup ELSE "none"],
               {}, "rb_staging", Refused)
  /\ UNCHANGED Locals

RollbackStaging ==
  /\ pc = "rb_staging"
  /\ RemoveOp("staging", "rb_settings_backup", Refused)
  /\ UNCHANGED Locals

\* Mutant of RollbackSettingsBackup: the settings backup is left behind.
RollbackKeepsBackup ==
  /\ pc = "rb_settings_backup"
  /\ Skip("rb_journal")
  /\ UNCHANGED Locals

RollbackSettingsBackup ==
  /\ pc = "rb_settings_backup"
  /\ Operation([disk EXCEPT !.settingsBackup = "none"], {}, "rb_journal", Refused)
  /\ UNCHANGED Locals

\* A recovery that finds the committed replacement unusable rolls it back and
\* still reports failure.
RollbackJournal ==
  /\ pc = "rb_journal"
  /\ JournalOp("none",
               IF recovering /\ disk.journal \in {"settings_activated", "cleanup_pending"}
                 THEN Refused ELSE "ready",
               Refused)
  /\ UNCHANGED Locals

-----------------------------------------------------------------------------
(* cleanupCommittedRestore: the replacement stays, whatever fails from here *)

CleanupInspect ==
  /\ pc = "cl_inspect"
  /\ pc' = IF \/ ~existed.data /\ Exists("old")
              \/ ~existed.settings /\ disk.settingsBackup # "none"
             THEN Refused ELSE "cl_staging"
  /\ UNCHANGED <<disk, faults, crashes, voided>> /\ UNCHANGED Locals

CleanupStaging ==
  /\ pc = "cl_staging"
  /\ RemoveOp("staging", "cl_return_entries", Refused)
  /\ UNCHANGED Locals

CleanupReturnEntries ==
  /\ pc = "cl_return_entries"
  /\ MoveEntries("old", "dest", "cl_old", Refused)
  /\ UNCHANGED Locals

CleanupOld ==
  /\ pc = "cl_old"
  /\ RemoveOp("old", "cl_settings_backup", Refused)
  /\ UNCHANGED Locals

CleanupSettingsBackup ==
  /\ pc = "cl_settings_backup"
  /\ Operation([disk EXCEPT !.settingsBackup = "none"], {}, "cl_journal", Refused)
  /\ UNCHANGED Locals

CleanupJournal ==
  /\ pc = "cl_journal"
  /\ JournalOp("none", "ready", Refused)
  /\ UNCHANGED Locals

-----------------------------------------------------------------------------
(* recoverInventatoryRestore, which InventatoryApp runs before it loads the *)
(* workspace.  It reads the journal and picks what to do.                   *)

\* validateWorkspaceData asks for a sound inventory.db, which a folder that is
\* partly removed may still hold; validateWorkspaceSettings for settings that
\* name this folder.
DataValid == IF disk.dir["dest"] = "partial" THEN BOOLEAN
             ELSE {disk.dir["dest"] \in {"old", "staged", "new"}}

\* Mutant of Inconsistent: a protected folder is unexpected in a journal that is just protecting.
InconsistentWhileProtecting ==
  \/ ~existed.data /\ Exists("old")
  \/ ~existed.settings /\ disk.settingsBackup # "none"
  \/ disk.journal \in {"prepared", "protecting"} /\ Exists("old")
  \/ disk.journal = "settings_activated" /\ existed.settings /\ disk.settingsBackup = "none"

\* What must not be there, or must be, whatever the journal's state.
Inconsistent ==
  \/ ~existed.data /\ Exists("old")
  \/ ~existed.settings /\ disk.settingsBackup # "none"
  \/ disk.journal = "prepared" /\ Exists("old")
  \/ disk.journal = "settings_activated" /\ existed.settings /\ disk.settingsBackup = "none"

Uncommitted ==
  \/ disk.journal = "prepared"
  \/ disk.journal = "protecting" /\ Exists("dest") /\ ~Exists("old")

Activated == disk.journal \in {"settings_activated", "cleanup_pending"}

\* An activated replacement is kept when it is sound.
Resolve(valid) ==
  CASE ~valid -> "rb_inspect"
    [] valid /\ disk.journal = "settings_activated" /\ existed.data /\ ~Exists("old") -> Refused
    [] OTHER -> "remove_bundle"

Start ==
  /\ pc = "down"
  /\ \E valid \in DataValid :
       pc' = CASE disk.journal = "none" -> "ready"
               [] disk.journal # "none" /\ Inconsistent -> Refused
               [] disk.journal # "none" /\ ~Inconsistent /\ Uncommitted -> "discard_staging"
               [] disk.journal # "none" /\ ~Inconsistent /\ Activated ->
                    Resolve(valid /\ disk.settings \in {"old", "new"})
               [] OTHER -> "rb_inspect"
  /\ recovering' = TRUE /\ clean' = TRUE
  /\ UNCHANGED <<disk, aside, existed, faults, crashes, voided>>

Quit ==
  /\ pc \in {"ready", "blocked"}
  /\ pc' = "down"
  /\ UNCHANGED <<disk, recovering, aside, clean, existed, faults, crashes, voided>>

-----------------------------------------------------------------------------
Init ==
  /\ \E data \in BOOLEAN, settings \in {"old", "none"}, present \in SUBSET Entries :
       disk = [dir |-> [p \in Places |-> IF p = "dest" /\ data THEN "old" ELSE "absent"],
               at |-> [e \in Entries |-> IF data /\ e \in present THEN "dest" ELSE "elsewhere"],
               settings |-> settings, settingsBackup |-> "none", journal |-> "none"]
  /\ pc = "ready"
  /\ recovering = FALSE /\ aside = FALSE /\ clean = TRUE
  /\ existed = [data |-> Exists("dest"), settings |-> disk.settings # "none"]
  /\ faults = 0 /\ crashes = 0 /\ voided = {}

RestoreStep ==
  \/ WritePrepared \/ CopyBackup \/ CopySettings \/ WriteProtecting \/ Protect
  \/ WriteProtected \/ CarryEntries \/ WriteActivating \/ Activate \/ WriteActivated
  \/ WriteWritingSettings \/ SaveSettings \/ WriteSettingsActivated \/ Validate
  \/ RemoveBundle \/ WriteCleanupPending

DiscardStep == DiscardStaging \/ DiscardSettingsBackup \/ DiscardJournal

RollbackStep ==
  \/ RollbackInspect \/ RollbackReturnStaged \/ RollbackSetAside \/ RollbackReturnActive
  \/ RollbackReinstate \/ RollbackReactivate \/ RollbackRemoveAside \/ RollbackRemoveDest
  \/ RollbackSettings \/ RollbackStaging \/ RollbackSettingsBackup \/ RollbackJournal

CleanupStep ==
  \/ CleanupInspect \/ CleanupStaging \/ CleanupReturnEntries \/ CleanupOld
  \/ CleanupSettingsBackup \/ CleanupJournal

Run == RestoreStep \/ DiscardStep \/ RollbackStep \/ CleanupStep

\* Another program that still has the protected folder open saves a file in it.
LateEntry ==
  /\ pc = "write_cleanup_pending" /\ Exists("old")
  /\ \E e \in Entries : disk.at[e] = "elsewhere" /\ disk' = Move(e, "old")
  /\ UNCHANGED <<pc, recovering, aside, clean, existed, faults, crashes, voided>>

Next == Begin \/ Run \/ LateEntry \/ Start \/ Quit

Spec == Init /\ [][Next]_vars

\* A running program goes on, and the program is quit and started again.
FairSpec == Spec /\ WF_vars(Run) /\ WF_vars(Start) /\ WF_vars(Quit)

-----------------------------------------------------------------------------
(* Properties *)

\* No file operation of a restore, its rollback, its cleanup or a recovery, and
\* no crash in one, removes a file or folder that is the user's own
\* (moveUnmanagedEntries before every removeAll of a place that may hold one).
UserFilesPreserved == \A e \in Entries : disk.at[e] # "deleted"

\* Until the journal says that the replacement is committed, a complete copy of
\* the workspace and one of the settings that the restore found are on disk:
\* whatever fails next, there is something to roll back to.
OldWorkspaceKept ==
  disk.journal \notin {"none", "cleanup_pending"} =>
    /\ existed.data => \E p \in {"dest", "old"} : disk.dir[p] = "old"
    /\ existed.settings => "old" \in {disk.settings, disk.settingsBackup}

\* A program that serves a workspace serves the one the restore found or the
\* restored one, data and settings together, never a mixture or a part, and with
\* the user's own files in it.
CoherentWorkspace ==
  pc = "ready" /\ Keeps("outcome") =>
    /\ <<disk.dir["dest"], disk.settings>> \in
         {<<"new", "new">>, <<IF existed.data THEN "old" ELSE "absent",
                              IF existed.settings THEN "old" ELSE "none">>}
    /\ \A e \in Entries : disk.at[e] \in {"dest", "elsewhere"}

\* Once the program serves a workspace and no journal is left, no protected copy
\* is left either: no later start would look for one.
NoOrphanedCopies ==
  pc = "ready" /\ disk.journal = "none" /\ Keeps("outcome") =>
    ~Exists("old") /\ disk.settingsBackup = "none"

\* Wherever the restore, its rollback or its recovery was interrupted, but at
\* the weak points of the recovery, some later start brings it to one of its
\* two ends and the journal goes.
Recovers ==
  disk.journal # "none" /\ Keeps("recovery") ~> disk.journal = "none" \/ ~Keeps("recovery")

\* The recovery gives up though none of its own file operations failed.
Refuses ==
  /\ pc = "down" \/ recovering
  /\ pc \notin {"ready", "blocked", "rb_reactivate"} /\ pc' = "blocked"
  /\ faults' = faults /\ disk'.journal # "none"

\* The recovery completes or rolls back whatever an interruption left on disk
\* (InventoryTransfer.h:44); the code does not keep this.
RecoveryNeverRefuses == [][~Refuses]_vars

\* What an interruption left on disk is a reason to refuse only when it was
\* stopped at a step that the recovery cannot repeat.
RefusesOnlyUnrepeatable == [][Refuses => ~Keeps("recovery")]_vars

-----------------------------------------------------------------------------
(* The promise: one switch from the old workspace to the restored one *)

Served ==
  CASE disk.dir["dest"] = "new" /\ disk.settings = "new" -> "new"
    [] /\ disk.dir["dest"] = IF existed.data THEN "old" ELSE "absent"
       /\ disk.settings = IF existed.settings THEN "old" ELSE "none" -> "old"
    [] OTHER -> "mixture"

Committed ==
  \/ disk.journal = "cleanup_pending"
  \/ disk.journal = "none" /\ Served = "new"

Switch == INSTANCE WorkspaceSwitch
            WITH active <- IF Committed \/ ~Keeps("outcome") THEN "new" ELSE "old",
                 loaded <- IF pc = "ready" /\ Keeps("outcome") THEN Served ELSE "nothing"

\* Seen from outside, restarts and failures included, the workspace is switched
\* once, while none is loaded, and never switched back; a voided promise is seen
\* as a switch after which nothing is loaded.
SwitchesOnce == Switch!Spec

=============================================================================
