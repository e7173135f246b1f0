--------------------------- MODULE SoftwareUpdate ---------------------------
(***************************************************************************)
(* The update of the program on Linux (src/src/app/AppUpdate.cpp,          *)
(* src/src/platform/system/UpdateService.cpp and the installer script      *)
(* src/installer/Install-Inventatory.sh).                                  *)
(*                                                                         *)
(* The program downloads and verifies a release on a worker thread, writes *)
(* a marker, starts the installer and exits into a small waiter script     *)
(* with the same process number.  The installer waits until that process   *)
(* no longer runs the program, replaces the executable and writes how it   *)
(* ended into the marker, which is what the waiter waits for before it     *)
(* starts the program again.                                               *)
(***************************************************************************)
EXTENDS Naturals

CONSTANTS
  MaxUpdates,      \* bound: updates and retries begun
  MaxFaults,       \* bound: failures of the installer and of writes
  MaxKills,        \* bound: processes killed
  Unguarded        \* whether what the update does not guard against may happen:
                   \* the user starts the program while an installer runs, the
                   \* installer is killed after it replaced the executable and
                   \* before it wrote the marker, its rollback fails, or it
                   \* started and the program could not confirm that

VARIABLES
  app,         \* the process: running, exiting, waiting (the waiter) or gone
  version,     \* the release it runs: old or new
  step,        \* updateStep_ while the Update page is open, or closed
  report,      \* updateCompletionPending_: the page shows how an update ended
  op,          \* updateOperationFuture_: what runs, and its result
  cancelled,   \* cancelRequested of the current download
  folder,      \* the download folder of updatePackage_ exists, and is the program's
  marker,      \* the state in the marker file, or none
  installer,   \* what the installer does next, or off
  package,     \* the download folder the installer works from exists
  installed,   \* the executable on disk: old or new
  updates, faults, kills

wizard == <<step, report, op, cancelled, folder>>
setup == <<installer, package, installed>>
bounds == <<updates, faults, kills>>
vars == <<app, version, wizard, marker, setup, bounds>>

NoWork == [kind |-> "none", result |-> "none"]
Working(kind) == [kind |-> kind, result |-> "none"]
Done(kind, result) == op = [kind |-> kind, result |-> result]

Files == {"none", "pending", "failed", "complete"}

Init ==
  /\ app = "running" /\ version = "old" /\ installed = "old"
  /\ step = "closed" /\ report = FALSE /\ op = NoWork /\ cancelled = FALSE /\ folder = FALSE
  /\ marker = "none" /\ installer = "off" /\ package = FALSE
  /\ updates = 0 /\ faults = 0 /\ kills = 0

-----------------------------------------------------------------------------
(* The wizard *)

Wizard == app = "running" /\ UNCHANGED <<app, version, setup, kills>>

Prepare ==
  /\ step' = "preparing" /\ op' = Working("prepare")
  /\ report' = FALSE /\ UNCHANGED <<cancelled, folder>>

\* beginSoftwareUpdate: settings that are not saved are asked for first.
Begin ==
  /\ Wizard /\ step = "closed" /\ version = "old" /\ op = NoWork
  /\ updates < MaxUpdates /\ updates' = updates + 1
  /\ \/ Prepare
     \/ step' = "save" /\ report' = FALSE /\ UNCHANGED <<op, cancelled, folder>>
  /\ UNCHANGED <<marker, faults>>

SaveSettings == Wizard /\ step = "save" /\ Prepare /\ UNCHANGED <<marker, updates, faults>>

\* retrySoftwareUpdate.
Retry ==
  /\ Wizard /\ step = "failed" /\ op = NoWork
  /\ updates < MaxUpdates /\ updates' = updates + 1
  /\ step' = "preparing" /\ op' = Working("prepare") /\ report' = FALSE /\ folder' = FALSE
  /\ UNCHANGED <<cancelled, marker, faults>>

\* beginUpdateDownload, in a folder of its own, if it can be made.
Download ==
  /\ Wizard /\ step = "preview"
  /\ \/ /\ step' = "downloading" /\ op' = Working("download")
        /\ cancelled' = FALSE /\ folder' = TRUE
     \/ step' = "failed" /\ UNCHANGED <<op, cancelled, folder>>
  /\ UNCHANGED <<report, marker, updates, faults>>

\* cancelSoftwareUpdate while the worker downloads: the worker is only asked.
CancelDownload ==
  /\ Wizard /\ step = "downloading"
  /\ cancelled' = TRUE
  /\ UNCHANGED <<step, report, op, folder, marker, updates, faults>>

\* cancelSoftwareUpdate otherwise.
Cancel ==
  /\ Wizard /\ op = NoWork
  /\ step \in {"save", "preview"} \/ (step = "failed" /\ ~report)
  /\ step' = "closed" /\ folder' = FALSE
  /\ UNCHANGED <<report, op, cancelled, marker, updates, faults>>

\* dismissUpdateResult: Continue, Return, or a key while a result is shown.  Nobody
\* looks whether the marker could be removed.
Dismiss ==
  /\ Wizard /\ step \in {"complete", "failed"}
  /\ step' = "closed" /\ report' = FALSE
  /\ \/ marker' = "none" /\ UNCHANGED faults
     \/ faults < MaxFaults /\ faults' = faults + 1 /\ UNCHANGED marker
  /\ UNCHANGED <<op, cancelled, folder, updates>>

\* Mutant of WorkerEnds: only the download asks for the cancellation.
VerifiedRegardless ==
  /\ op.kind # "none" /\ op.result = "none"
  /\ \E result \in {"success", "failed", "cancelled", "no newer"} :
       /\ result = "success" => ~(op.kind = "download" /\ cancelled)
       /\ result = "cancelled" => op.kind = "download" /\ cancelled
       /\ result = "no newer" => op.kind = "prepare"
       /\ op' = [op EXCEPT !.result = result]
  /\ UNCHANGED <<app, version, step, report, cancelled, folder, marker, setup, bounds>>

\* The worker ends; a download asks for the cancellation once more at its end.
WorkerEnds ==
  /\ op.kind # "none" /\ op.result = "none"
  /\ \E result \in {"success", "failed", "cancelled", "no newer"} :
       /\ result = "success" => ~(op.kind \in {"download", "verify"} /\ cancelled)
       /\ result = "cancelled" => op.kind \in {"download", "verify"} /\ cancelled
       /\ result = "no newer" => op.kind = "prepare"
       /\ op' = [op EXCEPT !.result = result]
  /\ UNCHANGED <<app, version, step, report, cancelled, folder, marker, setup, bounds>>

\* processSoftwareUpdate, in the loop of the page.
ProcessPrepared ==
  /\ Wizard /\ op.kind = "prepare" /\ op.result # "none"
  /\ op' = NoWork
  /\ step' = CASE op.result = "success" -> "preview"
               [] op.result = "no newer" -> "closed"
               [] op.result = "failed" -> "failed"
  /\ UNCHANGED <<report, cancelled, folder, marker, updates, faults>>

\* Mutant of ProcessStopped: what was downloaded is left.
ProcessKept ==
  /\ Wizard /\ op.kind \in {"download", "verify"} /\ op.result \in {"failed", "cancelled"}
  /\ op' = NoWork
  /\ step' = IF op.result = "cancelled" THEN "preview" ELSE "failed"
  /\ UNCHANGED <<report, cancelled, folder, marker, updates, faults>>

ProcessStopped ==
  /\ Wizard /\ op.kind \in {"download", "verify"} /\ op.result \in {"failed", "cancelled"}
  /\ op' = NoWork /\ folder' = FALSE
  /\ step' = IF op.result = "cancelled" THEN "preview" ELSE "failed"
  /\ UNCHANGED <<report, cancelled, marker, updates, faults>>

\* beginUpdateVerification, with the flag of the download.
ProcessDownloaded ==
  /\ Wizard /\ Done("download", "success")
  /\ op' = Working("verify") /\ step' = "verifying"
  /\ UNCHANGED <<report, cancelled, folder, marker, updates, faults>>

\* prepareUpdateHandoff: the workspace is saved and the marker written.  Settings
\* are not edited while the page is open, so none are unsaved here.
ProcessVerified ==
  /\ Wizard /\ Done("verify", "success")
  /\ op' = NoWork
  /\ \/ step' = "handing off" /\ marker' = "pending" /\ UNCHANGED folder
     \/ step' = "failed" /\ folder' = FALSE /\ UNCHANGED marker
  /\ UNCHANGED <<report, cancelled, updates, faults>>

\* launchUpdateInstaller, which needs the files; no installer of an earlier update
\* still runs.  The folder is the installer's from here on (updateInstallerLaunched_).
LaunchInstaller ==
  /\ app = "running" /\ step = "handing off" /\ installer = "off" /\ folder
  /\ installer' = "locate" /\ app' = "exiting"
  /\ package' = TRUE /\ folder' = FALSE
  /\ UNCHANGED <<version, step, report, op, cancelled, marker, installed, bounds>>

\* Whether the installer started may remain unknown: it then finds its files gone.
LaunchFails ==
  /\ app = "running" /\ step = "handing off"
  /\ marker' \in {"failed", "pending"}
  /\ step' = "failed" /\ folder' = FALSE
  /\ installer' \in {installer} \cup {i \in {"locate"} : Unguarded /\ installer = "off"}
  /\ UNCHANGED <<app, version, report, op, cancelled, package, installed, bounds>>

-----------------------------------------------------------------------------
(* The end and the start of the program *)

\* A download folder that a killed program leaves is one of no update any more;
\* a later start removes it when it is old enough.
Gone ==
  /\ app' = "gone" /\ step' = "closed" /\ report' = FALSE /\ op' = NoWork
  /\ cancelled' = FALSE /\ folder' = FALSE

\* The session ends by itself: stopUpdateWorkUntil cancels the worker, and
\* removes the folder unless the worker is abandoned.
Quit ==
  /\ app = "running" /\ step # "handing off" /\ Gone
  /\ UNCHANGED <<version, marker, setup, bounds>>

\* Mutant of BecomeWaiter: the program itself waits for the marker, then restarts.
WaitInProgram ==
  /\ app = "exiting" /\ marker # "pending"
  /\ app' = "waiting"
  /\ UNCHANGED <<version, wizard, marker, setup, bounds>>

\* Mutant of BecomeWaiter: the end of the program discards the download whoever has it.
DiscardAtExit ==
  /\ app = "exiting" /\ app' = "waiting"
  /\ package' = FALSE
  /\ UNCHANGED <<version, wizard, marker, installer, installed, bounds>>

\* The end of run(), where stopUpdateWorkUntil leaves a folder that was handed over
\* alone, and relaunchAfterUpdate: the process image is replaced by the waiter.
BecomeWaiter ==
  /\ app = "exiting" /\ app' = "waiting"
  /\ UNCHANGED <<version, wizard, marker, setup, bounds>>

\* The executable is not found or the waiter cannot be started: the program just ends.
RelaunchFails ==
  /\ app = "exiting" /\ faults < MaxFaults /\ faults' = faults + 1
  /\ Gone
  /\ UNCHANGED <<version, marker, setup, updates, kills>>

AppKilled ==
  /\ app # "gone" /\ kills < MaxKills /\ kills' = kills + 1
  /\ Gone
  /\ UNCHANGED <<version, marker, setup, updates, faults>>

\* A start of the program, with loadUpdateCompletionMarker.
Start ==
  /\ app' = "running" /\ version' = installed
  /\ step' = CASE marker = "none" -> "closed"
               [] marker \in {"pending", "failed"} -> "failed"
               [] marker = "complete" -> "complete"
  /\ report' = (marker # "none")
  /\ op' = NoWork /\ cancelled' = FALSE /\ folder' = FALSE
  /\ UNCHANGED <<marker, setup, bounds>>

UserStarts == app = "gone" /\ (installer = "off" \/ Unguarded) /\ Start

\* The waiter waits two minutes for the marker.  The installer waits half a
\* minute for the program, and what else it does takes less than the rest.
WaiterStarts == app = "waiting" /\ (marker # "pending" \/ installer = "off") /\ Start

-----------------------------------------------------------------------------
(* The installer *)

InstallerGoesOn(from, to) ==
  /\ installer = from /\ installer' = to
  /\ UNCHANGED <<app, version, wizard, marker, package, installed, bounds>>

\* fail: the marker, if it can be written, and the end, which removes the folder.
Fails(isWritten) ==
  /\ installer' = "off" /\ package' = FALSE
  /\ marker' = IF isWritten THEN "failed" ELSE marker
  /\ UNCHANGED <<app, version, wizard, updates, kills>>

\* The executable is that of the process that started the installer, if it
\* still runs the program.
Locate ==
  \/ app = "exiting" /\ InstallerGoesOn("locate", "verify")
  \/ /\ app # "exiting" /\ installer = "locate"
     /\ \E isWritten \in BOOLEAN : Fails(isWritten)
     /\ UNCHANGED <<installed, faults>>

Verify == package /\ InstallerGoesOn("verify", "wait")

WaitForExit == app # "exiting" /\ InstallerGoesOn("wait", "try")

\* The program did not close within half a minute.
WaitTimesOut ==
  /\ app = "exiting" /\ installer = "wait" /\ faults < MaxFaults /\ faults' = faults + 1
  /\ \E isWritten \in BOOLEAN : Fails(isWritten)
  /\ UNCHANGED installed

\* The new executable starts, and the old one can be kept.
TryOut == InstallerGoesOn("try", "activate")

Activate ==
  /\ installer = "activate" /\ installer' = "mark" /\ installed' = "new"
  /\ UNCHANGED <<app, version, wizard, marker, package, bounds>>

MarkComplete ==
  /\ installer = "mark" /\ installer' = "off" /\ marker' = "complete"
  /\ package' = FALSE
  /\ UNCHANGED <<app, version, wizard, installed, bounds>>

MarkFails ==
  /\ faults < MaxFaults /\ faults' = faults + 1
  /\ installer = "mark" /\ installer' = "roll back"
  /\ UNCHANGED <<app, version, wizard, marker, package, installed, updates, kills>>

\* Mutant of RollBack: the new executable stays.
ReportOnly ==
  /\ installer = "roll back" /\ \E isWritten \in BOOLEAN : Fails(isWritten)
  /\ UNCHANGED <<installed, faults>>

\* The executable kept before is put back; the marker may fail to be written again.
RollBack ==
  /\ installer = "roll back"
  /\ installed' \in {"old"} \cup {i \in {"new"} : Unguarded}
  /\ \E isWritten \in BOOLEAN : Fails(isWritten)
  /\ UNCHANGED faults

\* Any other command fails before the executable is replaced.
InstallerFails ==
  /\ installer \in {"verify", "try", "activate"}
  /\ faults < MaxFaults /\ faults' = faults + 1
  /\ \E isWritten \in BOOLEAN : Fails(isWritten)
  /\ UNCHANGED installed

\* What it leaves of the folder is of no update any more, as in Gone.
InstallerKilled ==
  /\ installer # "off" /\ (installer \notin {"mark", "roll back"} \/ Unguarded)
  /\ kills < MaxKills /\ kills' = kills + 1
  /\ installer' = "off" /\ package' = FALSE
  /\ UNCHANGED <<app, version, wizard, marker, installed, updates, faults>>

Installer == Locate \/ Verify \/ WaitForExit \/ TryOut \/ Activate \/ MarkComplete \/ RollBack

Process == ProcessPrepared \/ ProcessStopped \/ ProcessDownloaded \/ ProcessVerified

Next ==
  \/ Begin \/ SaveSettings \/ Retry \/ Download \/ CancelDownload \/ Cancel \/ Dismiss
  \/ WorkerEnds \/ Process \/ LaunchInstaller \/ LaunchFails
  \/ Quit \/ BecomeWaiter \/ RelaunchFails \/ AppKilled \/ UserStarts \/ WaiterStarts
  \/ Installer \/ WaitTimesOut \/ MarkFails \/ InstallerFails \/ InstallerKilled

Spec == Init /\ [][Next]_vars

\* The processes go on; nothing has to fail, to be killed or to time out but the
\* waiter, and the user need not do anything.
Fairness ==
  /\ WF_vars(WorkerEnds) /\ WF_vars(Process)
  /\ WF_vars(LaunchInstaller \/ LaunchFails)
  /\ WF_vars(BecomeWaiter) /\ WF_vars(WaiterStarts)
  /\ WF_vars(Installer)

FairSpec == Spec /\ Fairness

-----------------------------------------------------------------------------
(* Properties *)

TypeOK ==
  /\ app \in {"running", "exiting", "waiting", "gone"}
  /\ version \in {"old", "new"} /\ installed \in {"old", "new"}
  /\ step \in {"closed", "save", "preparing", "preview", "downloading", "verifying",
               "handing off", "failed", "complete"}
  /\ op.kind \in {"none", "prepare", "download", "verify"}
  /\ op.result \in {"none", "success", "failed", "cancelled", "no newer"}
  /\ report \in BOOLEAN /\ cancelled \in BOOLEAN
  /\ folder \in BOOLEAN /\ package \in BOOLEAN
  /\ marker \in Files
  /\ installer \in {"off", "locate", "verify", "wait", "try", "activate", "mark", "roll back"}
  /\ updates \in 0..MaxUpdates /\ faults \in 0..MaxFaults /\ kills \in 0..MaxKills

\* A download the user cancelled is never installed, also if the worker was done
\* when the key came: only a new download can be.
CancelHonoured == cancelled => step # "handing off"

\* What the program says when it starts again is true: after "updated" it is the
\* new release, after a failure "your previous installation is still active".
ResultIsTrue ==
  app = "running" /\ report =>
    /\ step = "complete" => version = "new"
    /\ step = "failed" => version = "old"

\* The download folder is there when it is needed and only then: while the program
\* downloads, verifies or hands over, and then as long as the installer works from
\* it, whichever way each of them ends, and though the program may end at any step
\* of the installer.
FolderIsUsed ==
  /\ folder <=> app = "running" /\ step \in {"downloading", "verifying", "handing off"}
  /\ package <=> installer # "off"

\* After every hand-over the program comes back by itself, unless it is killed or
\* cannot start its waiter, and the installer ends, though each waits for the other:
\* without a timeout of the installer, and also when the installer dies.
ComesBack ==
  /\ step = "handing off" ~> app # "exiting" /\ step # "handing off"
  /\ installer # "off" ~> installer = "off"

=============================================================================
