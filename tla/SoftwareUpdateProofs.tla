------------------------ MODULE SoftwareUpdateProofs ------------------------
(***************************************************************************)
(* For any number of updates, failures and kills: a cancelled download is  *)
(* never handed over; and as long as nothing happens that the update does  *)
(* not guard against, the download folder is there exactly while it is     *)
(* needed, and what a start of the program reports is true.                *)
(*                                                                         *)
(* The first follows from the worker and the page being at the same step,  *)
(* the second from that and from the installer owning the folder from its  *)
(* start to its end.  The third follows from the marker: while an          *)
(* installer is at work it is "pending" and no program runs, so whoever    *)
(* starts it finds either the old executable with a marker that says so,   *)
(* or the new one with "complete".                                         *)
(***************************************************************************)
EXTENDS SoftwareUpdate, TLAPS

\* The worker does what the page shows, and its result is what it was asked for.
WorkerAtStep ==
  /\ op \in [kind : {"none", "prepare", "download", "verify"},
            result : {"none", "success", "failed", "cancelled", "no newer"}]
  /\ op.kind = "prepare" => step = "preparing" /\ op.result # "cancelled"
  /\ op.kind = "download" <=> step = "downloading"
  /\ op.kind = "verify" => step = "verifying"
  /\ op.kind = "verify" /\ op.result = "success" => ~cancelled

WInv == marker \in Files /\ WorkerAtStep /\ CancelHonoured

\* The marker and the executable agree, except between the two steps of the installer.
MarkerAgrees ==
  /\ marker = "complete" => installed = "new"
  /\ marker = "failed" => installed = "old"
  /\ marker = "pending" /\ installer \notin {"mark", "roll back"} => installed = "old"

\* An installer at work has the executable to itself, and replaces the old one only.
InstallerAlone ==
  /\ installer # "off" => marker = "pending" /\ app # "running"
  /\ installer = "mark" => installed = "new"
  /\ app = "running" /\ step = "handing off" => marker = "pending"

\* The program runs what is installed, and only the old release updates itself.
ProgramIsInstalled ==
  app = "running" => version = installed /\ (step \notin {"closed", "complete"} => version = "old")

MInv ==
  /\ marker \in Files /\ WorkerAtStep /\ MarkerAgrees /\ InstallerAlone /\ ProgramIsInstalled
  /\ ResultIsTrue /\ FolderIsUsed /\ folder \in BOOLEAN /\ package \in BOOLEAN

-----------------------------------------------------------------------------

\* Nothing is under way at the first start.
LEMMA Initially == Init => WInv /\ MInv
<1> SUFFICES ASSUME Init PROVE WInv /\ MInv
  OBVIOUS
<1>1. WorkerAtStep /\ CancelHonoured /\ marker \in Files
  BY DEF Init, Files, WorkerAtStep, CancelHonoured, NoWork
<1>2. MarkerAgrees /\ InstallerAlone /\ ProgramIsInstalled /\ ResultIsTrue
  BY DEF Init, MarkerAgrees, InstallerAlone, ProgramIsInstalled, ResultIsTrue
<1>3. FolderIsUsed /\ folder \in BOOLEAN /\ package \in BOOLEAN
  BY DEF Init, FolderIsUsed
<1> QED
  BY <1>1, <1>2, <1>3 DEF WInv, MInv

\* Whether or not it can be written: the installer ends, the marker says "failed" or as before.
LEMMA Failing ==
  ASSUME NEW isWritten \in BOOLEAN, Fails(isWritten)
  PROVE  /\ installer' = "off" /\ package' = FALSE /\ marker' \in {"failed", marker}
         /\ UNCHANGED <<app, version, wizard>>
BY DEF Fails

\* A start shows what the marker says.
LEMMA Starting ==
  ASSUME Start, marker \in Files
  PROVE  /\ app' = "running" /\ version' = installed /\ step' \in {"closed", "failed", "complete"}
         /\ step' = "failed" => marker \in {"pending", "failed"}
         /\ step' = "complete" => marker = "complete"
         /\ op' = NoWork /\ ~cancelled' /\ folder' = FALSE
         /\ UNCHANGED <<marker, setup>>
BY DEF Start, Files

\* Every step keeps the worker and the page together.
LEMMA WorkerInductive == WInv /\ [Next]_vars => WInv'
<1> SUFFICES ASSUME WInv, [Next]_vars PROVE WInv'
  OBVIOUS
<1> USE DEF Files, WInv, WorkerAtStep, CancelHonoured, wizard, setup, bounds
<1>1. CASE Begin
  <2>1. CASE Prepare
    BY <1>1, <2>1 DEF Begin, Prepare, Wizard, Working, NoWork
  <2>2. CASE step' = "save" /\ UNCHANGED <<op, cancelled, folder>>
    BY <1>1, <2>2 DEF Begin, Prepare, Wizard, Working, NoWork
  <2> QED
    BY <1>1, <2>1, <2>2 DEF Begin, Prepare, Wizard, Working, NoWork
<1>2. CASE SaveSettings
  BY <1>2 DEF SaveSettings, Prepare, Wizard, Working
<1>3. CASE Retry
  BY <1>3 DEF Retry, Wizard, Working, NoWork
<1>4. CASE Download
  <2>1. CASE step' = "downloading" /\ op' = Working("download")
    BY <1>4, <2>1 DEF Download, Wizard, Working
  <2>2. CASE step' = "failed" /\ UNCHANGED <<op, cancelled, folder>>
    BY <1>4, <2>2 DEF Download, Wizard, Working
  <2> QED
    BY <1>4, <2>1, <2>2 DEF Download, Wizard, Working
<1>5. CASE CancelDownload
  BY <1>5 DEF CancelDownload, Wizard
<1>6. CASE Cancel
  BY <1>6 DEF Cancel, Wizard, NoWork
<1>7. CASE Dismiss
  BY <1>7 DEF Dismiss, Wizard
<1>8. CASE ProcessPrepared
  <2>1. CASE op.result = "success"
    BY <1>8, <2>1 DEF ProcessPrepared, Wizard, NoWork
  <2>2. CASE op.result = "no newer"
    BY <1>8, <2>2 DEF ProcessPrepared, Wizard, NoWork
  <2>3. CASE op.result = "failed"
    BY <1>8, <2>3 DEF ProcessPrepared, Wizard, NoWork
  <2> QED
    BY <1>8, <2>1, <2>2, <2>3 DEF ProcessPrepared, Wizard, NoWork
<1>9. CASE ProcessStopped
  BY <1>9 DEF ProcessStopped, Wizard, NoWork
<1>10. CASE ProcessDownloaded
  BY <1>10 DEF ProcessDownloaded, Working, Done, Wizard
<1>11. CASE ProcessVerified
  BY <1>11 DEF ProcessVerified, Done, Wizard, NoWork
<1>12. CASE WorkerEnds
  BY <1>12 DEF WorkerEnds
<1>13. CASE LaunchInstaller
  BY <1>13 DEF LaunchInstaller
<1>14. CASE LaunchFails
  BY <1>14 DEF LaunchFails
<1>15. CASE Quit
  BY <1>15 DEF Quit, Gone, NoWork
<1>16. CASE BecomeWaiter
  BY <1>16 DEF BecomeWaiter
<1>32. CASE RelaunchFails
  BY <1>32 DEF RelaunchFails, Gone, NoWork
<1>17. CASE AppKilled
  BY <1>17 DEF AppKilled, Gone, NoWork
<1>18. CASE UserStarts
  <2>1. Start
    BY <1>18 DEF UserStarts
  <2>2. /\ app' = "running" /\ version' = installed /\ step' \in {"closed", "failed", "complete"}
        /\ step' = "failed" => marker \in {"pending", "failed"}
        /\ step' = "complete" => marker = "complete"
        /\ op' = NoWork /\ ~cancelled' /\ folder' = FALSE
        /\ UNCHANGED <<marker, setup>>
    BY <2>1, Starting
  <2> QED
    BY <1>18, <2>2 DEF UserStarts, NoWork
<1>19. CASE WaiterStarts
  <2>1. Start
    BY <1>19 DEF WaiterStarts
  <2>2. /\ app' = "running" /\ version' = installed /\ step' \in {"closed", "failed", "complete"}
        /\ step' = "failed" => marker \in {"pending", "failed"}
        /\ step' = "complete" => marker = "complete"
        /\ op' = NoWork /\ ~cancelled' /\ folder' = FALSE
        /\ UNCHANGED <<marker, setup>>
    BY <2>1, Starting
  <2> QED
    BY <1>19, <2>2 DEF WaiterStarts, NoWork
<1>20. CASE Locate
  BY <1>20, Failing DEF Locate, InstallerGoesOn
<1>21. CASE Verify
  BY <1>21 DEF Verify, InstallerGoesOn
<1>22. CASE WaitForExit
  BY <1>22 DEF WaitForExit, InstallerGoesOn
<1>23. CASE TryOut
  BY <1>23 DEF TryOut, InstallerGoesOn
<1>24. CASE Activate
  BY <1>24 DEF Activate
<1>25. CASE MarkComplete
  BY <1>25 DEF MarkComplete
<1>26. CASE RollBack
  BY <1>26, Failing DEF RollBack
<1>27. CASE WaitTimesOut
  BY <1>27, Failing DEF WaitTimesOut
<1>28. CASE MarkFails
  BY <1>28 DEF MarkFails
<1>29. CASE InstallerFails
  BY <1>29, Failing DEF InstallerFails
<1>30. CASE InstallerKilled
  BY <1>30 DEF InstallerKilled
<1>31. CASE UNCHANGED vars
  BY <1>31 DEF vars
<1> QED
  BY <1>1, <1>2, <1>3, <1>4, <1>5, <1>6, <1>7, <1>8, <1>9, <1>10, <1>11, <1>12, <1>13, <1>14,
     <1>15, <1>16, <1>17, <1>18, <1>19, <1>20, <1>21, <1>22, <1>23, <1>24, <1>25, <1>26,
     <1>27, <1>28, <1>29, <1>30, <1>31, <1>32
     DEF Next, Process, Installer

\* Every step keeps the marker true and the folder where it is needed, unless something
\* unguarded happens.
LEMMA MarkerInductive == ~Unguarded /\ MInv /\ [Next]_vars => MInv'
<1> SUFFICES ASSUME ~Unguarded, MInv, [Next]_vars PROVE MInv'
  OBVIOUS
<1> USE DEF Files, MInv, WorkerAtStep, MarkerAgrees, InstallerAlone, ProgramIsInstalled, ResultIsTrue,
             FolderIsUsed, wizard, setup, bounds
<1>1. CASE Begin
  <2>1. CASE Prepare
    BY <1>1, <2>1 DEF Begin, Prepare, Wizard, Working, NoWork
  <2>2. CASE step' = "save" /\ UNCHANGED <<op, cancelled, folder>>
    BY <1>1, <2>2 DEF Begin, Prepare, Wizard, Working, NoWork
  <2> QED
    BY <1>1, <2>1, <2>2 DEF Begin, Prepare, Wizard, Working, NoWork
<1>2. CASE SaveSettings
  BY <1>2 DEF SaveSettings, Prepare, Wizard, Working
<1>3. CASE Retry
  BY <1>3 DEF Retry, Wizard, Working, NoWork
<1>4. CASE Download
  <2>1. CASE step' = "downloading" /\ op' = Working("download")
    BY <1>4, <2>1 DEF Download, Wizard, Working
  <2>2. CASE step' = "failed" /\ UNCHANGED <<op, cancelled, folder>>
    BY <1>4, <2>2 DEF Download, Wizard, Working
  <2> QED
    BY <1>4, <2>1, <2>2 DEF Download, Wizard, Working
<1>5. CASE CancelDownload
  BY <1>5 DEF CancelDownload, Wizard
<1>6. CASE Cancel
  BY <1>6 DEF Cancel, Wizard, NoWork
<1>7. CASE Dismiss
  BY <1>7 DEF Dismiss, Wizard
<1>8. CASE ProcessPrepared
  <2>1. CASE op.result = "success"
    BY <1>8, <2>1 DEF ProcessPrepared, Wizard, NoWork
  <2>2. CASE op.result = "no newer"
    BY <1>8, <2>2 DEF ProcessPrepared, Wizard, NoWork
  <2>3. CASE op.result = "failed"
    BY <1>8, <2>3 DEF ProcessPrepared, Wizard, NoWork
  <2> QED
    BY <1>8, <2>1, <2>2, <2>3 DEF ProcessPrepared, Wizard, NoWork
<1>9. CASE ProcessStopped
  BY <1>9 DEF ProcessStopped, Wizard, NoWork
<1>10. CASE ProcessDownloaded
  BY <1>10 DEF ProcessDownloaded, Working, Done, Wizard
<1>11. CASE ProcessVerified
  BY <1>11 DEF ProcessVerified, Done, Wizard, NoWork
<1>12. CASE WorkerEnds
  BY <1>12 DEF WorkerEnds
<1>13. CASE LaunchInstaller
  BY <1>13 DEF LaunchInstaller
<1>14. CASE LaunchFails
  BY <1>14 DEF LaunchFails
<1>15. CASE Quit
  BY <1>15 DEF Quit, Gone, NoWork
<1>16. CASE BecomeWaiter
  BY <1>16 DEF BecomeWaiter
<1>32. CASE RelaunchFails
  BY <1>32 DEF RelaunchFails, Gone, NoWork
<1>17. CASE AppKilled
  BY <1>17 DEF AppKilled, Gone, NoWork
<1>18. CASE UserStarts
  <2>1. Start
    BY <1>18 DEF UserStarts
  <2>2. /\ app' = "running" /\ version' = installed /\ step' \in {"closed", "failed", "complete"}
        /\ step' = "failed" => marker \in {"pending", "failed"}
        /\ step' = "complete" => marker = "complete"
        /\ op' = NoWork /\ ~cancelled' /\ folder' = FALSE
        /\ UNCHANGED <<marker, setup>>
    BY <2>1, Starting
  <2> QED
    BY <1>18, <2>2 DEF UserStarts, NoWork
<1>19. CASE WaiterStarts
  <2>1. Start
    BY <1>19 DEF WaiterStarts
  <2>2. /\ app' = "running" /\ version' = installed /\ step' \in {"closed", "failed", "complete"}
        /\ step' = "failed" => marker \in {"pending", "failed"}
        /\ step' = "complete" => marker = "complete"
        /\ op' = NoWork /\ ~cancelled' /\ folder' = FALSE
        /\ UNCHANGED <<marker, setup>>
    BY <2>1, Starting
  <2> QED
    BY <1>19, <2>2 DEF WaiterStarts, NoWork
<1>20. CASE Locate
  BY <1>20, Failing DEF Locate, InstallerGoesOn
<1>21. CASE Verify
  BY <1>21 DEF Verify, InstallerGoesOn
<1>22. CASE WaitForExit
  BY <1>22 DEF WaitForExit, InstallerGoesOn
<1>23. CASE TryOut
  BY <1>23 DEF TryOut, InstallerGoesOn
<1>24. CASE Activate
  BY <1>24 DEF Activate
<1>25. CASE MarkComplete
  BY <1>25 DEF MarkComplete
<1>26. CASE RollBack
  BY <1>26, Failing DEF RollBack
<1>27. CASE WaitTimesOut
  BY <1>27, Failing DEF WaitTimesOut
<1>28. CASE MarkFails
  BY <1>28 DEF MarkFails
<1>29. CASE InstallerFails
  BY <1>29, Failing DEF InstallerFails
<1>30. CASE InstallerKilled
  BY <1>30 DEF InstallerKilled
<1>31. CASE UNCHANGED vars
  BY <1>31 DEF vars
<1> QED
  BY <1>1, <1>2, <1>3, <1>4, <1>5, <1>6, <1>7, <1>8, <1>9, <1>10, <1>11, <1>12, <1>13, <1>14,
     <1>15, <1>16, <1>17, <1>18, <1>19, <1>20, <1>21, <1>22, <1>23, <1>24, <1>25, <1>26,
     <1>27, <1>28, <1>29, <1>30, <1>31, <1>32
     DEF Next, Process, Installer

-----------------------------------------------------------------------------

\* A download the user cancelled is never handed to the installer
\* (App::cancelSoftwareUpdate against the worker of beginUpdateDownload).
THEOREM CancelIsHonoured == Spec => []CancelHonoured
<1>1. WInv => CancelHonoured
  BY DEF WInv
<1> QED
  BY <1>1, Initially, WorkerInductive, PTL DEF Spec

\* The download folder is there exactly while the program downloads, verifies or hands
\* over, and then while the installer works from it (App::discardUpdateDownload and its
\* callers, the cleanup of the installer).
THEOREM FolderGoesWithDownload == ~Unguarded => (Spec => []FolderIsUsed)
<1> SUFFICES ASSUME ~Unguarded PROVE Spec => []FolderIsUsed
  OBVIOUS
<1>1. MInv => FolderIsUsed
  BY DEF MInv
<1>2. MInv /\ [Next]_vars => MInv'
  BY MarkerInductive
<1> QED
  BY <1>1, <1>2, Initially, PTL DEF Spec

\* What App::loadUpdateCompletionMarker reports of the last update is true,
\* after any failures and kills the update guards against.
THEOREM ReportIsTrue == ~Unguarded => (Spec => []ResultIsTrue)
<1> SUFFICES ASSUME ~Unguarded PROVE Spec => []ResultIsTrue
  OBVIOUS
<1>1. MInv => ResultIsTrue
  BY DEF MInv
<1>2. MInv /\ [Next]_vars => MInv'
  BY MarkerInductive
<1> QED
  BY <1>1, <1>2, Initially, PTL DEF Spec

=============================================================================
