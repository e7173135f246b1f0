# A formal model of Inventatory

Inventatory is a terminal application (C++17) that keeps the stock of an
electronics workshop: parts, quantities, racks, projects, labels, and a
hand-held scanner, the Scan R1, that reports scans over Wi-Fi. This directory
holds TLA+ models of the parts of it where a mistake costs data and a unit test
hardly reaches: what a restore leaves on disk when it is interrupted, what the
scanner service accepts while its credentials change and whether its threads
ever sleep through a stop, what a scan does to the stock when messages and
transactions fail, what undo, forms and imports do to an inventory that scans
keep changing, which process owns the workspace, and what an update leaves when
it is cut short.

All source paths are relative to the repository's root, with the program itself
under `src/src`.

1. [The system](#1-the-system)
2. [Reading the modules](#2-reading-the-modules)
3. [Workspace restore](#3-workspace-restore)
4. [The Scan R1 service](#4-the-scan-r1-service)
5. [The scanner inbox](#5-the-scanner-inbox)
6. [Sessions and background services](#6-sessions-and-background-services)
7. [Inventory, history, forms and imports](#7-inventory-history-forms-and-imports)
8. [Updates](#8-updates)
9. [What is proved](#9-what-is-proved)
10. [Disagreements found](#10-disagreements-found)
11. [What is not modelled, and what is left](#11-what-is-not-modelled-and-what-is-left)
12. [Running it](#12-running-it)

## 1. The system

One process runs at a time for real: a terminal session (`App` with its FTXUI
loop) or a background service (`App` with `runBackgroundLoop`). Within it there
are few threads: the UI thread, which owns all of `App`; the threads of the
device service (`LocalHttpServer`: one that accepts, one that reads, workers);
and futures for vendor requests and updates, whose results the UI thread
collects. Everything durable is files: the SQLite database `inventory.db`, text
files beside it, a settings file, the system's credential store.

| Component | State it keeps | Operations | Talks to | What is hard | What makes it correct |
|---|---|---|---|---|---|
| Workspace restore (`core/transfer`) | the data folder, staging, the protected old folder, settings backup, a journal | restore, rollback, cleanup, recovery at each start | file system, settings, `App` at start-up | killed or failing at any file operation, a late flush failure, the user's own files among the program's | the old or the restored workspace, complete, with the user's files; no refusal |
| Device service (`platform/scanner/HttpServer*`) | pairing, last accepted counter, reservation, epoch, three mutexes; two queues, counts per address, a wake-up pipe | start, stop, accept, read, set credentials, serve a request | device, inbox (callback), UI thread (parked requests) | credentials change under a running callback; the marker's save fails; a stop at any moment | a counter is accepted once, under the current pairing; every slot is given back; nobody waits for ever |
| Pairing (`InventatoryScanSetupPage`, Bluetooth) | scanner configuration, token in the credential store, counter file | pair, rotate, adopt the first device, retry failed saves | device service, credential store | three stores written one after another | a stored pairing never has its counters start again |
| Scanner inbox (`DeviceSyncStore`, `AppDeviceActions`) | event rows with results, in `inventory.db` | accept, load results, acknowledge, prune, complete, retry, discard | device service (worker threads), inventory (UI thread) | lost answers, resent scans, reused ids, failed transactions, unsaved changes, crashes | each scan changes the stock once and is accounted for |
| Inventory and its saving (`core/inventory`, `AppPersistence`) | the store, the last saved store, a pending draft | load, change, save with movements and a commit, retry | storage, history, inbox, racks | a save that fails, and what the next one then records; an inventory no save accepts | the history explains the stock; it can always be saved |
| Version history (`core/history`) | commits with snapshots | undo, checkpoint, reverse a commit, restore a snapshot | inventory | which commit an undo refers to; a confirmation while scans commit | Ctrl+Z is a stack; what is confirmed is what was asked |
| Import review, forms (`InventoryMerge`, `AppImportActions`, `AppPartForm`) | a staged copy and its base; a form's copy and its baseline | stage, accept rows, merge, save, retry, cancel | inventory, scans and vendor answers meanwhile | three-way merges against a stock that moves; a save that fails | neither side's change is lost |
| Racks (`core/racks`) | racks, slot assignments | allocate, move, reconcile at each save | inventory | two parts in one slot after a merge, an undo or a form | one part per slot |
| Storage (`core/storage`) | tables of items, racks, movements, commits, events | one transaction per save; loading; migration | SQLite | all or nothing | a save replaces the rows as a whole |
| Processes (`main.cpp`, `BackgroundController`, `StartupRegistration`) | two lock files, a systemd unit, a saved preference | open, take over, close, restart, force-stop | each other | probe, then claim; timeouts; crashes; stale memory | one process works, one serves, none writes an old inventory |
| Updates (`AppUpdate`, `UpdateService`, the installer script) | a wizard, a worker, a download folder, a marker | check, download, cancel, verify, hand over, report | network, installer, a waiter in its own process | cancel against a finished download; two processes that wait for each other; a kill between two steps | a cancelled download is never installed; the report is true; the program comes back |
| Projects (`core/bom`) | projects, picks, progress | match, build, undo a build | inventory, vendors | progress against a stock that changed | built parts leave the stock once |
| Vendor limits (`VendorRateLimits`) | recent requests per vendor, a block | admit, record, prune | vendor clients, a file shared by processes | a clock that steps back, lost counts | never more requests than a window allows |
| Vendor clients, offers, enrichment | futures, an offer cache | search, refresh, enrich a scan | child processes, inventory | answers that arrive after the inventory changed | an answer changes only what it was asked for |
| Backup and export | archives | write, validate | file system | size and path limits | a valid archive restores |
| Firmware courier, settings, credentials, discovery, label printer, importers, queries, part descriptions, UI pages | one record, or nothing | | | text, layout, I/O | tests |

How they interact where it matters:

* A scan travels device → reader and worker of the device service
  (`ConnectionQueues`; authentication and counter: `ScannerService`) → inbox
  (same thread, one transaction) → UI thread (`processDeviceSyncEvents`, one
  transaction for stock, ledger, commit and result) → result → device
  (`DeviceInbox`). What the second takes from the first is that requests are
  handled one at a time and in counter order.
* On the UI thread that scan meets whatever the user has open: a form, an import
  under review, a confirmation on the History page, changes that could not be
  saved. `DeviceInbox` looks at one part and every failure of the transaction;
  `InventoryHistory` at whole inventories and every operation that may be open.
* Pairing, workspace changes and restarts call into the device service from the
  UI thread, which may also be what a callback is waiting for.
* Every start of a process recovers an interrupted restore, loads the whole
  inventory and writes the whole inventory when it saves: this is why the
  hand-over between processes is about data and not only about a port.

The hazards this code is exposed to, each at its line and with the properties
that cover it, are listed in `PROJECT.json`.

## 2. Reading the modules

| Module | Models |
|---|---|
| `WorkspaceSwitch` | abstract: one switch from the old to the restored workspace |
| `RestoreJournal` | the restore, its rollback, cleanup and recovery, one action per file operation |
| `RestoreJournalProofs` | theorems about it, in three parts that build on each other |
| `CounterLog` | abstract: accepted counters only go up |
| `ScannerService`, `ScannerServiceProofs` | the device service with pairing, rotation, adoption and workspace changes |
| `ConnectionQueues`, `ConnectionQueuesProofs` | its threads, sockets and queues, start and stop |
| `ScanEffect` | what a scan does to a part's stock (pure) |
| `ScanLedger` | abstract: the stock changes by a user save or by one scan, once |
| `DeviceInbox`, `DeviceInboxProofs` | device, inbox, stock, ledger and history of one part |
| `InstanceHandoff`, `InstanceHandoffProofs` | sessions, services, locks, systemd |
| `RackAllocation` | placements: what a snapshot must satisfy, allocation, reconciliation (pure) |
| `InventoryMerge` | the three-way merges of parts and inventories (pure) |
| `UndoStack` | abstract: saved inventories, pushed by a change and popped by Ctrl+Z |
| `InventoryHistory`, `InventoryHistoryProofs` | inventory, saving, version history, racks, forms, imports, scans and vendor answers |
| `SoftwareUpdate`, `SoftwareUpdateProofs` | wizard, worker, hand-over, waiter, installer, the report at the next start |
| `VendorRateLimits`, `VendorRateLimitsProofs` | requests to a vendor: counting, admission, waits, the vendor's answers |
| `MC_*` | instances for TLC: sets of steps, kinds of session, symmetry |

Conventions. An action is one atomic step of the code as other threads,
processes or a crash can see it: one call that changes the disk, one critical
section, one transaction; what the code does around it without being visible is
in the same action. Names are the code's where it has names. A variable that
only properties read is marked `history`. A constant that only keeps the state
space finite is marked `bound`. Three modules, `DeviceInbox`,
`InventoryHistory` and `VendorRateLimits`, have a constant `Sessions`: a set of
records that say which operations, inputs and bounds one exploration uses. `Init`
picks one of them, so that one run covers several small instances, each wide in
another direction, where one instance wide in all of them would be out of reach.

Some operators are introduced by a comment `Mutant of X`. They are not part of
the specification: each is X with a plausible mistake in it, and `PROJECT.json`
pairs it with the property that must fail when it takes X's place. They show
that a property depends on that piece of code.

## 3. Workspace restore

`RestoreJournal` follows `restoreInventatoryBackupImpl` (InventoryRestore.cpp),
`rollbackRestore`, `cleanupCommittedRestore` and `recoverInventatoryRestore`
(InventoryTransferRecovery.cpp). `pc` names the next file operation; `disk` is
what a crash leaves. A place (data folder, staging, protected folder, the folder
a rollback sets aside) holds one of a few contents and some of the user's own
entries. An operation may fail without effect, fail after its effect (a rename
whose directory flush fails), and a removal may stop half-way; the program may
be killed before, in the middle of, or after any of them; the next start runs the
recovery again.

*Weak points.* Not every interruption is survived. Instead of leaving steps out,
the model makes two promises and remembers in `voided` when an interruption at
one of the steps in `WeakPoints` voids one. The *outcome* promise (what is
served is one of the two workspaces, whole) is voided by

* a kill after a rollback set the replacement aside (`rb_set_aside`,
  `rb_return_active`), since no journal names that folder;
* a rename that fails after it was done (`protect`, `rb_set_aside`,
  `rb_reactivate`), when the code takes the branch of one that was not;
* any interruption of putting the replacement back (`rb_reactivate`) or of
  removing a fresh data folder (`rb_remove_dest`).

The *recovery* promise (the recovery does not refuse) is voided by

* any interruption of a rollback after it put the old folder back
  (`Unrepeatable`), and a kill or a late failure while it does (`rb_reinstate`);
* any interruption of a discard from its settings backup on, a failure to remove
  its staging folder, or a late failure of the protecting rename.

`rb_remove_dest` and a discard without a data folder are behaviours of the
library only: `App::restoreData` always restores into a data folder that exists.
The other weak points are behaviours of the program, and section 10 describes
them. `UserFilesPreserved` and `OldWorkspaceKept` need neither promise.

| Run | Checks | Instance |
|---|---|---|
| `restore` | `UserFilesPreserved`, `OldWorkspaceKept`, `CoherentWorkspace`, `NoOrphanedCopies`, `SwitchesOnce`, `Recovers`, `RefusesOnlyUnrepeatable` | two user files, two failures and two crashes, at any step; 158 051 states |
| `restore_rollback_restart` | finding 1, a violation of `RecoveryNeverRefuses` | kills at two steps only |

*Bounds.* Two interruptions of each kind are what it takes to interrupt the
recovery of an interrupted restore twice; a third meets a state the second
already leaves. Two entries tell a move that stopped after the first from one
that did not. One workspace is replaced once (`Begin`): a second restore begins
on a disk that holds no copies (`NoOrphanedCopies`), like the first. A failure
after the effect is left out for removals, where `Gut` and a removal that reports
failure cover it.

*Fairness* (`Recovers`): the program makes its next step, is started again, and
is quit and restarted when a recovery was refused. The first is a running
thread; the others are the user's patience, and failures are bounded.

*What it shows.* No failure or crash ever removes one of the user's files, and
until the commit a full copy of the old workspace exists. Away from the weak
points, whatever a start serves is one of the two workspaces, data and settings
together, the change from one to the other is a single switch
(`WorkspaceSwitch`, by refinement), no start refuses for what an interruption
left, and some start resolves the restore. Except for `Recovers`, all of it is
also proved (section 9).

## 4. The Scan R1 service

### Credentials and counters

`ScannerService` follows `LocalHttpServer` (HttpServer*.cpp) and its callers:
the adoption of a first device (`processDeviceRequests`), rotation and Bluetooth
pairing (InventatoryScanSetupPage.cpp), the retry of failed saves
(AppPersistence.cpp), a change of workspace (AppWorkspace.cpp), start and crash.
A worker's steps are separated where the code releases or takes a mutex
(`credentialOperationMutex_`, `callbackSerialMutex_`; `replayMutex_` covers
single steps). A UI operation is a sequence of steps, one per store it writes
and one per call that may block. Requests are what the network may deliver:
any device, any token ever issued, any counter, again and again.

| Run | Checks | Instance |
|---|---|---|
| `scanner_safety` | `RestartRemembers`, `NoStuckReservation`, `ServesStoredPairing`, `CountersGoUp` | two workspaces, two workers, two deliveries, two operations, one failure, one crash |
| `scanner_progress` | `OperationsEnd`, `RequestsAnswered`, `CallbackUnderCurrentCredentials`, `AcceptedFromPairedDevice` | two devices, two workers, three deliveries, one operation, one failure, with fairness |

*Bounds.* Two workers are enough for one to hold a lock the other wants; the
code serialises the rest. Two operations are needed for the second to meet what
the first left behind, and to visit another workspace and come back; two
deliveries for a request and its replay, a third for one under the credentials
between. `scanner_safety` leaves out the failures of the first two writes of a
Bluetooth pairing (`SafeFaults`), after which `CountersGoUp` does not hold
(section 10). `scanner_progress` allows them.

*Fairness.* A worker that has a request and a UI thread inside an operation get
to move. The code justifies it: both are operating-system threads, the only
waits are the two mutexes and the callback, and the callback ends, because
SQLite gives up after 3 s and child processes have deadlines. Nothing is assumed
of devices and users.

*Abstractions.* The MAC is the token; a response too long to send (500), the
firmware payload and the ports are left out, so are the reset of the pairing
after a restore and a graceful exit, which leaves no more behind than a crash. A
marker file may be unreadable at the start only.

*What it shows.* The accepted counters of a token go up across restarts,
rotations, pairings, failed saves and changes of workspace (`CounterLog`, by
refinement), except after a failed Bluetooth pairing; a callback only starts, and
a request is only accepted, under the current credentials; no lock is held for
good.

### Threads and queues

`ConnectionQueues` follows the threads themselves: `acceptLoop`, `readerLoop`
and `workerLoop` (HttpServer.cpp, HttpServerConnection.cpp) and `start` and
`stop` (HttpServerLifecycle.cpp). A connection has a fate (in the listen backlog,
open, closed); its socket travels from the acceptor through
`pendingClientQueue`, the reader's own list and `clientQueue` to a worker. Each
thread's `pc` distinguishes a thread that checked its condition from one that
sleeps in `select` or on a condition variable, so that a notification between
the two is lost where the code would lose it. The service may be stopped at any
moment.

| Run | Checks | Instance |
|---|---|---|
| `queues` | `SlotsAccounted`, `SocketsOwned`, `NothingSleeps` | three connections, two of one address, two workers, at most two pending and one of an address, one start; 205 730 states |

*Bounds.* `MaxQueued` and `MaxPerAddress` are 16 and 8 in the code; with three
connections, two and one are low enough for either limit to refuse. Two workers
are needed for a notification to go to the wrong one. A connection's bytes are
abstracted to when its request is complete, and its deadline to an action that
may happen whenever it is open.

*Fairness.* Each thread goes on when it can, and each deadline passes. Nobody
has to connect, start or stop.

*What it shows.* The counts under `pendingClientMutex_` are those of the
connections that hold a slot; an open socket has one owner through every
hand-over and a closed one none; a stop returns and every connection ends.

## 5. The scanner inbox

`DeviceInbox` follows DeviceSyncStore.cpp, `App::handleDeviceSync`,
`App::processDeviceSyncEvents` (AppDeviceActions.cpp), `saveInventoryState` and
`loadState` (AppPersistence.cpp), the transaction of
`writeItemsToInventatoryTable` and `inventoryMovementDiff`. One part, in the
four copies the code keeps of it: the database row, the snapshot of the newest
commit, the store in memory, and the last saved store; its ledger is the sum of
its movements. The device and the link are external: an outbox, one request under
way, and losses of a request or an answer. `ScanEffect` holds
`applyDeviceQuantity` with its clamps, and what a scan of a known, unknown or
invalid code does.

| Run | Checks | Instance |
|---|---|---|
| `inbox_safety` | `AppliedOnce`, `HistoryMatchesStock`, `ToldTheTruth`, `NoScanLost`, `ServedInOrder`, `ChangesAccountedFor` | `Everything`: two scans, clamped at both ends, creating a part or invalid; a user save, a failure, a loss, a crash, a retry, a discard. `Renumbering`: three scans, two to a request, of a device that loses its counter; a clock that may step back; a loss. `Overtaking`: five scans of such a device, three to a request, where one is taken for another and those after it overtake it. Together 2.62 million states |
| `inbox_progress` | `AcknowledgedWasShown`, `EveryScanServed` | `AnyStart`: two scans, also where loading could not save, without a retry. `Reset`: three scans, two to a request, of a device that loses its counter. With fairness |

*Bounds.* `batch` and `retained` stand for limits of the code (the events of a
request, the acknowledged results a prune keeps) and are set so low that they
bite. A quantity goes up to `MaxQuantity`, which stands for the largest `int`,
so that scans reach both ends of the range. Two scans suffice for one to overtake
or be taken for another; a clash behind the head of a request takes three, and one
that is overtaken by a scan of the same request five.
`inbox_safety` has starts that can save (or `HistoryMatchesStock` fails, section
10), and `inbox_progress` no retry, and no loss together with a reset (or
`AcknowledgedWasShown` fails, section 10).

*Order.* `served` records every completion, also the failed ones, and `since` how
many there were when a scan was last reopened. A scan that failed and is reopened
does take effect after later ones that were completed meanwhile, as the code has
it; what it must not do is lose its place, which `ServedInOrder` says by comparing
each completion with those since the reopening. The property speaks of sessions
whose clock goes forward, of events that were not discarded (one that the device
sends again gets a new place), and of scans whose id no other scan was given: one
that is taken for another waits until the row of the other is pruned, behind scans
that were made later.

*Fairness.* The device syncs again (its firmware polls), the service answers
(section 4), and the UI thread looks at the inbox at least every five seconds
and is started again. Nothing makes the user scan, retry or discard.
`EveryScanServed` is stated for a user who does not leave changes unsaved for
ever, because the code holds scans back while there are any, and who discards from
the device's menu a scan the desktop refuses because its id is taken: the refusal
rolls the whole request back, acknowledgements included (DeviceSyncStore.cpp:184),
so nothing else frees the scans behind it.

*Abstractions.* One part and one device; requests in counter order (section 4);
the hint flag, the back-off after a failure and the five-second poll are timing
and give way to interleaving; workspaces are left out; negative quantities of old
databases are left out.

*What it shows.* Whatever is lost, resent, retried, pruned or interrupted, a
scan changes the stock at most once, its change is what the ledger and the
device are told, and it stays on the device, in the inbox or in a result that
was sent. A device that reuses ids is never told that a scan was accepted when
another is stored. The inbox implements `ScanLedger`. All of this is
also proved (section 9).

## 6. Sessions and background services

`InstanceHandoff` follows `runInventatory` and `takeOverFromBackgroundService`
(main.cpp), `BackgroundControllerLinux.cpp`, the parts of `App::App` and
`App::run` that look at the locks, and the systemd unit of
StartupRegistrationLinux.cpp. Each process has a program counter; the locks are
`flock` locks, so an ending or killed process gives its own up. The inventory is
the set of changes in it: `database` on disk, `memory` in each process. A
service is the unit's process, which systemd restarts, or one a session forked.
Signals are delivered once; a grace period ends whenever it may.

| Run | Checks | Instance |
|---|---|---|
| `handoff` | `OneWorker`, `OneServer`, `SessionOpens`, `ServiceTakesOver` | two sessions, the unit, a forked service, one change, one failure, with fairness |
| `handoff_stale_save` | finding 2, a violation of `ChangesKept` | the same, two changes |

*Bounds.* Two sessions are needed for one to open while the other closes; two
services for both to want the lock. One failure (a crash or a failed final save)
at each place; changes are there for `handoff_stale_save`, and safety does not
depend on their number.

*Fairness.* Processes run and systemd restarts its unit (`Restart=always`).
Sessions are opened and closed as the user likes, and a service is *not* assumed
to react to a request to quit, since `stopBackgroundService` exists for one that
does not; with that, `SessionOpens` needs the forced stop. `ServiceTakesOver`
rests on the unit being started at sign-in, which `Init` assumes.

*Abstractions.* Linux only. The deadlines of 3 and 2 s after a restart are taken
to suffice for a service nothing holds back. `backgroundConsentAsked` is true,
`systemctl` succeeds, and the user does not change the preference. The lock file
holds the process's number as soon as it is locked.

*What it shows.* Two processes never take changes at once and never both serve
the scanner, although claiming a lock and probing the other are two steps: each
side claims first and looks second. What this does not protect is the inventory
a service has already loaded (finding 2).

## 7. Inventory, history, forms and imports

`InventoryHistory` looks at what one UI thread does to the whole inventory. An
inventory is parts (a quantity, a kind, a placement that is automatic or manual)
and racks; every saved change is a commit that holds the inventory it left. The
actions are the operations of `AppPartActions`, `AppPartForm`,
`AppRackActions`, `AppImportActions`, `AppHistoryActions` and
`AppHistoryPersistence`, and those that arrive by themselves: a scan, and the
vendor's answer for a scanned part. An operation is one action, since only the
UI thread touches the store; what interleaves is what stays open between two
operations: a form with its baseline, an import under review or waiting for the
retry of its save, a rack deletion or a revert that waits for its confirmation,
and changes that could not be saved, with the draft of their commit.

Two pure modules are below it. `RackAllocation` is what `validateSnapshotSemantics`
demands of an inventory that history must be able to load, and the reconciliation
of placements that every save runs. `InventoryMerge` is the three-way merge of
parts and inventories (InventoryMerge.cpp) with `releaseConflictingRackPlacement`.

| Run | Checks | Instance |
|---|---|---|
| `history` | `SaveNeverRefused`, `ConfirmedIsShown`, `UndoIsStack`, `ScansKept` | two parts, two racks of two slots, seven kinds of session (`PassingSessions`); 386 871 states |

The seven sessions: `Placing` and `Misplacing` (adding, deleting, rack changes
and the History page, without and with a save that fails), `Undoing` (changes,
Ctrl+Z, checkpoints and two failing saves), `Editing` (forms), `Reviewing` and
`Crowding` (imports, without and with slots chosen for a row) and `Failing`
(imports whose save fails), the last four while scans and vendor answers come.

*Bounds.* Two parts and two racks of two slots (of one type) are what it takes
for a slot to be wanted twice, for a rack to be full and for a part to be without
one; a rack number reaches `MaxCode`, so that numbers run out. Up to five commits
let an undo follow an undo of an undo. Some uses are in no passing session, each
because a property fails with it and section 10 says how: a new part's form
(`new`), the History page beside Ctrl+Z (`Reverting`), a checkpoint over changes
that could not be saved (`mark_unsaved`), an import begun over unsaved changes
(`import_unsaved`) and one whose save fails on a file other than the inventory
(`other_files`).

No fairness and no liveness: everything waits for the user.

*What it shows.* No order of edits, placements, answers, undos, reversals and
imports, but a new part's form, leads to an inventory that the next save refuses.
A confirmation on the History page is of the commit it asked for, whatever was
saved meanwhile. Ctrl+Z is a stack of the saved inventories (`UndoStack`, by
refinement), over undos, checkpoints, scans and repeated saves. Stock that was
scanned while a form was open or an import under review is kept. All four are
also proved, the first and the last under an assumption (section 9).

## 8. Updates and requests to vendors

`SoftwareUpdate` follows `App`'s wizard and its worker (AppUpdate.cpp), the
hand-over and the waiter (UpdateService.cpp) and the installer script
(src/installer/Install-Inventatory.sh) on Linux. The program becomes the waiter
by replacing its own image, so the installer, which waits for the executable to
be released, and the waiter, which waits for the installer, wait for each other
in turn. The executable, the marker and the download folder are what a kill
leaves.

| Run | Checks | Instance |
|---|---|---|
| `update` | `CancelHonoured`, `ResultIsTrue`, `FolderIsUsed`, `ComesBack` | three updates or retries, three failures, three kills; 4 069 states |

*Bounds.* Three of each let an update that failed be retried and fail
differently. `Unguarded` is `FALSE`: what the update does not guard against does
not happen, namely that the user starts the program while an installer runs, or
that the installer is killed, or cannot roll back, between the new executable and
the marker, or that it runs and the program takes it for not started because it
could not read its answer (UpdateService.cpp:1090). With `TRUE`, `ResultIsTrue` fails (section 10).

*Fairness.* The worker ends, the page takes its result, the launch and the
becoming of the waiter happen, the waiter starts the program when the marker or
its deadline lets it, and the installer goes on. The user need not do anything,
and nothing has to fail. That a download ends rests on the deadline of the child
process.

*Abstractions.* Two releases. Whether a check finds a newer one, and whether a
checksum fits, is a choice. The Windows installer is left out.

*What it shows.* A download cancelled after the worker was done with it is not
installed; the folder of a download is there exactly as long as the program or
the installer needs its package, so it is neither left behind nor discarded too
early; what the next start says of the update is true; after a hand-over the
installer ends and the program comes back, also when the installer is killed,
unless the program is killed or cannot start its waiter (UpdateService.cpp:1103,
1118).

`VendorRateLimits` follows VendorRateLimits.cpp for one vendor: `admit`, which
every request to it goes through, `noteResponse`, which reads what the answer
says, and the file that keeps the counts over a restart. The callers are threads
under one mutex, so a critical section is one action, and what interleaves is
what happens while one sleeps or waits for its answer. There are two clocks: the
vendor counts by `time`, the program by the wall clock `now`, which may step
back. `UpperBound` is `std::upper_bound` on a sequence that need not be sorted:
its bisection over ranges of the sequence, and not the count it is meant to be.
Requests of a window are the set of their indices, and `Sorted` is the sort that a
start makes of what it reads.

| Run | Checks | Instance |
|---|---|---|
| `vendor` | `LimitsKept`, `FreeWhenAnnounced` | two callers, four kinds of session (`Vendors`); 1 493 779 states |

The four sessions: `Counting` (a clock that steps back three seconds, a failed
save and a start), `Waiting` (two answers 429, with a hint or without, and a
start), `Blocked` (a vendor without a limit, as TME) and `Rationed` (an answer
with a quota).

*Bounds.* Seconds stand for the code's minutes and days, in the same order: the
short window is no longer than what counts as the future (`Minute`), the long
window is the `Day` that is kept, a caller waits for less than the longest block.
Four requests overrun both windows and leave one in the middle for the bisection
to miss. Six seconds let the first request leave the long window.

*Abstractions.* Whole seconds. The clock is only set back: set forward, it makes
windows end early, which no program can know. One process counts at a time:
those that work on a workspace do (section 6), and a service that loaded the
counts beside a session is left out. A quota is reported
for the longest window; the code takes any daily limit. A save that fails leaves
the old file, and is counted as not saved (`unsaved`); the code looks at the
stream before it is flushed (VendorRateLimits.cpp:419), so a flush that fails
could leave half a file, and a start reads fewer requests. Notices, warnings and their wording are left out. The
history `trusted` says when the program can no longer count what it sent: a save
failed before a restart, a step back of more than `Minute` made `prune` forget
requests, or one beyond `MaxBlock` made a start ignore the block.

*What it shows.* The vendor's limits are kept as long as the counts are trusted.
In particular the bisection over requests that a step back has disordered never
misses one that the vendor still counts, although it may miss others, and a
caller that slept asks again before it sends. The time a user is told
is a time when a request is admitted, as long as the requests are in order. A
vendor that asks for a wait longer than the seven days of `MaxBlock` gets these
(VendorRateLimits.cpp:236), and may be asked before its time. No liveness: a caller may be overtaken, and
is refused after its last attempt.

## 9. What is proved

The theorems hold for every value of the constants that satisfies the
assumptions of the module; the runs above check the same formulas on small
instances. The proofs use the SMT and Zenon backends, and LS4 for the temporal
step from an inductive invariant to `[]`. Each has one step per action.

**Restore**, from `BoundsAssumption` (the bounds are numbers), for every set of
user files, every choice of failing steps and any number of failures and kills.
`RestoreJournalProofs` has three parts, each of which adds to the invariant of the
one before.

* Files and copies: `TypeCorrect` (`[]TypeOK`), `FilesPreserved`
  (`[]UserFilesPreserved`) and `CopyKept` (`[]OldWorkspaceKept`). That a removal
  never meets a user's file depends on where the entries can be at each step.
  `IInv` says, along the program counter and the journal's state, which folder
  may hold entries: staging only from the moment they are moved until the
  activation or their return, the protected folder until they are carried over,
  the folder to be removed never when a removal is next (`StagedEntries`,
  `FoldersHold`, `NothingFound`, `StepFolders`, `Emptied`). For the copy: a
  rollback may stop anywhere and be taken up by a later start, so `KeptInv` is
  about the journal more than about the program counter. Before the commit
  exactly one of two places holds the old data (`DataKept`); the settings are the
  old ones until they are replaced, and their backup is complete from then on
  (`SettingsKept`); `JournalAt`, `DataAt` and `SettingsAt` tie the steps to it.
* One switch: `ServedIsCoherent` (`[]CoherentWorkspace`),
  `NothingIsOrphaned` (`[]NoOrphanedCopies`) and `SwitchedOnce`
  (`Spec => SwitchesOnce`: the restore implements `WorkspaceSwitch`). `Outcome`
  says what a start can find while the outcome promise is kept: folders are
  whole, a journal that is left when a workspace is served is one of the two
  that only need discarding, and after the commit nothing is rolled back;
  `LeftAt` what each step has left behind. For the refinement, every step leaves
  the committed state as it is, commits, or loads what was committed.
* Refusals: `RefusalsExplained` (`Spec => RefusesOnlyUnrepeatable`). `Repeatable` says that the protected
  copies are there from when the journal announces them until the steps that
  cannot be repeated; with it each of the decisions to refuse
  (`Decisions`: of a start, a rollback, a cleanup or a discard) contradicts the
  recovery promise.

**Scan R1 service**, `ScannerServiceProofs`, from the assumption that the bounds
are numbers and there is a token for each workspace: `TypeCorrect`,
`InvariantHolds`, `NoReservationIsStuck` (`[]NoStuckReservation`),
`CallbacksAreCurrent` (`CallbackUnderCurrentCredentials`) and `AcceptedAreCurrent`
(`AcceptedFromPairedDevice`), for any workers, devices, workspaces, tokens and
counters. The argument is the epoch: a request that reserved its counter
remembers the epoch of the credentials that let it in, a change of credentials
starts a new epoch and takes the reservation back, so the epoch alone decides
whether a reservation is good (`EpochTells`, `ReservationGood`). That none
changes while a request waits for its callback holds for one of two reasons: the
request has the lock (`LockHeld`), or the service is stopped and its workers
joined (`Stopped`).

Its second part proves what a pairing keeps: `AcceptedGoUp`
(`CountersGoUp`: the service implements `CounterLog`), `RestartsRemember`
(`[]RestartRemembers`) and `StoredPairingIsServed` (`[]ServesStoredPairing`),
each under `PairingSaves`: the two writes that open a Bluetooth pairing do not
fail (section 10 says what happens when they do). The counters of a pairing start
again when its marker is removed or when the service is given a pairing that
differs from its own. Both happen only for a token that was issued a moment ago,
that the service does not have and under which nothing was accepted (`TokenIsNew`,
`Restartable`). In every other case the service reads the marker of a stored
token, which covers all that was accepted under it (`MarkersCover`), and keeps it
so, because a service that may still accept has the workspace that is open and
its marker is needed for no other token (`ActiveServes`, `TokensDistinct`).

**Its queues**, `ConnectionQueuesProofs`, from `QueuesAssumption` (the
connections are finitely many): `InvariantHolds`, `SlotsAreAccounted`
(`[]SlotsAccounted`) and `SocketsAreOwned` (`[]SocketsOwned`), for any
connections, addresses, workers and limits. The invariant adds that the places of a slot are disjoint (`Apart`) and that a
connection is accepted before it has one (`Entered`), so that a step which adds
or takes away one slot changes both counts by one. For the sockets, `OwnedInv`
says that no connection is in two hands or two queues (`Exclusive`), nor twice
in one (`Once`), and that every open one is somewhere (`OpenIsOwned`).

**Processes**, `InstanceHandoffProofs`, from `ProcsAssumption` (the kinds of
process are disjoint): `InvariantHolds`, `TypeCorrect`, `WorkersExclude`
(`[]OneWorker`) and `ServersExclude` (`[]OneServer`), for any number of sessions
and services. A session past the opening of its lock holds it (`Holders`), so
does a service past its claim; only a started process serves (`Servers`); and a
session past the takeover never meets a service that works or serves
(`SessionAlone`). The last conjunct is why the second look of a service at the
other lock is needed, and it is established by `TakenOver`, which sees no service
holding its lock.

**Updates**, `SoftwareUpdateProofs`, from no assumption, for any bounds:
`CancelIsHonoured` (`[]CancelHonoured`), `FolderGoesWithDownload`
(`~Unguarded => []FolderIsUsed`), and `ReportIsTrue`
(`~Unguarded => []ResultIsTrue`). The first needs only that worker and page are
at the same step (`WorkerAtStep`); the second also that the installer owns the
folder while it runs. The third follows from the marker: it agrees with the executable but between two
steps of the installer (`MarkerAgrees`), and there no program runs
(`InstallerAlone`, `ProgramIsInstalled`).

**Scanner inbox**, `DeviceInboxProofs`, from `InboxAssumption` (the sessions
are well-typed, and "no message" is not a number), for any number of scans, any
limits, and any losses, failures, crashes, retries, discards and resets:
`ScansAppliedOnce` (`[]AppliedOnce`), `DeviceToldTheTruth` (`[]ToldTheTruth`) and
`ScansNotLost` (`[]NoScanLost`). The argument relates the scans that wait on the
device to the rows of the desktop. A waiting scan that has a row is among the
first of the outbox, because the outbox only loses scans before it; so it is in
every request, and in what every answer that may carry its result accepts
(`Waiting`). What the device acknowledges has therefore left the outbox, and a
row that was pruned is never inserted again: a scan that changed the stock has a
completed row or will not be sent (`Settled`). `Traced` follows a scan that left
the outbox to its row, its discard or the result the device was shown. Scans
whose id the device used twice are excluded (`Unambiguous`), as in the
properties. `HistoryExplainsStock` (`[]HistoryMatchesStock`) assumes `CanSave`,
every start can save what loading repaired, and `AcknowledgedShown`
(`[]AcknowledgedWasShown`) assumes `OneNumbering`, no retry and no reset; section
10 says what happens otherwise.

`ScansServedInOrder` (`[]ServedInOrder`) follows the line a scan stands in. The
order in which rows arrived is that of their scans, whether they wait or are
completed, but for scans with a used id and discarded ones, so a reopened row
stands where it stood (`InLine`, `LineOrder`); the row at work is the first of
those that wait (`FirstWorks`); what is still in the outbox comes after what has a
row or had one, and a request takes the first of the outbox (`OutboxOrder`,
`RequestFirst`). For `InboxImplementsLedger` (`ChangesAccountedFor`: the inbox
implements `ScanLedger`), each step is one of the ledger's or leaves stock and
entries alone, and `ScansAppliedOnce` says that a scan is entered once.

**Inventory and history**, `InventoryHistoryProofs`, from `RackAssumption` (a rack
has slots) and `HistoryAssumption` (the sessions are well-typed), for any parts,
racks, slots, numbers and sessions, any failing saves and any number of commits.
`ConfirmationHolds` (`[]ConfirmedIsShown`) needs only that an open confirmation
was asked for the commit that is shown (`Asked`). `SavesNotRefused`
(`[]SaveNeverRefused`) assumes `NoNewParts`: no session has the form of a new part,
with which the property fails (section 10). Its invariant `IInv` is wider than the
inventory: an undo, a reversal, a restored snapshot and a cancelled import bring
back inventories of long ago, so each commit's snapshot and the original of the
import must be sound as well (`SoundHistory`, `ImportTyped`); the staged inventory of
an import may hold a slot twice until it is merged, and is only required to name racks
that were made and whose numbers differ. On these rest lemmas on the operators: a
reconciliation turns such an inventory into one that satisfies `ValidSnapshot` and makes
racks with new identifiers and numbers (`ReconcileSound`), a release of conflicting
placements and a merge leave nothing doubly held (`ReleaseSound`, `MergeSound`), and
a change of one part breaks no more than that part's place (`PartChanged`). The
reconciliation is a recursive function over the list of parts; that it exists, and
what it returns at each part, is shown by the least part at which it would not
(`PlacesExist`), which replaces the induction theorem that is out of reach here.

`ScansAreKept` (`Spec /\ []PendingIsUnsaved => ScansKept`) follows the quantities
through the same operators: placing, releasing and saving change none
(`ReconcileStock`, `SaveStock`), and a merge adds to what is there what was staged
beyond the copy (`MergeStock`). The invariant `Counts` says that a review's copy is
ahead of the inventory it was made from by exactly the accepted rows and shares no
new part with the inventory (`ReviewCounts`), that an import whose save failed has
added the rows to the inventory (`PendingCounts`), and that only one thing is
edited at a time (`Alone`). `PendingIsUnsaved`, while an import waits for its retry
the inventory differs from the saved one, is an assumption on the behaviour: it is
what stops scans until the retry, an invariant of the sessions of run `history`,
and not of the program (section 10).

`UndoIsAStack` (`Spec => UndoIsStack`: the history implements `UndoStack`) needs no
assumption beyond the sessions the property speaks of (`Plain`). A commit keeps the
inventory before it only as the snapshot of the commit before it, and between two
commits of changes that stand there may be marks, undos and changes that were taken
back. `Linked` says that this does not matter: the last standing commit left what is
saved, and each was made over what the standing commit before it left. Every step
adds one change, one mark, one change taken back, or no commit (`StepRecords`), and
each keeps `Linked` (`ChangeStacked`, `MarkStacked`, `UndoStacked`). A mark changes
nothing, and an undo reaches the snapshot it aims at, because what was saved once
stays as it is when it is saved again (`ReconcileSettles`): the placement of automatic
parts in a reconciled inventory has nothing left to do (`Settled`). A save that failed is
repeated later with the commit it was to write: `DraftHolds` says that this is still a
change, a mark over saved changes, or the undo of the latest standing commit.

**Requests to vendors**, `VendorRateLimitsProofs`, from `LimitsAssumption` (bounds
and limits are positive, sessions well-typed), for any callers, vendors, waits the
vendor asks for, failed saves, restarts and steps back of the clock: `TypeCorrect`,
`LimitsAreKept` (`LimitsKept`) and `AnnouncedIsFree` (`[]FreeWhenAnnounced`). The
program counts by a clock that may have lost time, in a sequence that it searches as
if it were sorted. The invariant `Covered` says what is left of that: for the requests
of the last `Day`, the k-th newest that was sent has its entry, the k-th last of the
sequence, which is no longer ago by the clock than the request is in truth; the same
holds of the file while nothing is unsaved, and of the vendor's wait (`BlockCovers`).
The requests still in a window are therefore counted in a suffix of the sequence, all
of it in the window. The bisection ends at an entry in the window whose predecessor
is not, sorted or not (`UpperBoundIs`), hence not inside that suffix, so `UsedIn`
counts at least what the vendor counts (`WithinLimit`). A second that passes or a step
back, the pruning of old and future requests, a new request and the sort of a start
keep `Covered` (`CoveredLater`, `CoveredPruned`, `CoveredNext`, `CoveredSorted`). That
the bisection has a value at each range, and which, is shown by the least length at
which it would not, as for the reconciliation above.
`AnnouncedIsFree` computes with sorted requests: the one that is announced to
leave a full window leaves room for one more (`FreeAtIs`, `FullIsLater`).

Every safety property and every refinement that a passing run checks is stated by
one of these theorems, most of them as the run checks them, the others under the named
hypothesis. Only model-checked: liveness, which is beyond the prover.

## 10. Disagreements found

Two are runs that TLC ends with a counterexample to something the repository
says of itself; `PROJECT.json` quotes the line.

1. *A rollback killed after it put the old folder back is never finished*
   (`restore_rollback_restart`). The recovery looks for the folder it already
   moved and refuses at every later start.
2. *A service that starts beside a session writes its stale inventory* over the
   session's changes when it gives way (`handoff_stale_save`).

Five more can be reproduced with a configuration, or a constant, that no listed
run uses. The command is given for each; TLC ends with the behaviour.

* *The form of a new part keeps a slot another part took in the meantime*
  (`tlc -config HistoryNewPart.cfg MC_InventoryHistory`, `SaveNeverRefused`).
  `saveWorkingCopy` calls `releaseConflictingRackPlacement` for a part that
  exists and appends a new one as the form left it (AppPartForm.cpp:501). A slot
  chosen in the form, and taken by a scanned part while it was open, is then held
  twice, and every save fails until one of them is moved. src/CHANGELOG.md:354
  says "an edit no longer keeps a rack slot another part took in the meantime".
* *Cancelling an import that was saved drops it, and scans with it*
  (`tlc -config HistoryImportCancelled.cfg MC_InventoryHistory`, `ScansKept`).
  `saveInventoryState` stores the inventory and still reports failure when the
  printer, the scanner or the application settings or the activities cannot be
  written (AppPersistence.cpp:304). The import then waits for a retry
  (`importCommitPending_`); scans go on being applied; quitting restores the
  inventory from before the import (AppImportActions.cpp:109), scans since
  included. src/CHANGELOG.md:351 promises that "scanner stock changes that arrive
  during an edit, an import or a failed save are kept". The same happens without
  other files whenever the waiting import is no longer unsaved
  (`PendingIsUnsaved`): a vendor answer saves it, no row was accepted, or the import
  undid what was unsaved before it.
* *Ctrl+Z after a reversal or a restored snapshot does not step back*
  (`HistoryUndoStepsBack.cfg`, `UndoStepsBack`). It takes the last commit that is
  no undo and goes to that commit's parent (InventoryVersionHistory.cpp:377);
  where the reversal already was that step, nothing changes, and after a restored
  snapshot it brings back what the snapshot took away. src/CHANGELOG.md:130 says
  "Ctrl+Z steps back one change per press".
* *After a start that could not save, the first change has no commit and no
  movement* (`tlc -config InboxUnsavedStart.cfg MC_DeviceInbox`,
  `HistoryMatchesStock`). Without a valid baseline `saveInventoryState` saves the
  rows and records nothing (AppPersistence.cpp:248); src/README.md:92 says
  "Every change is saved as a commit with its before and after values".
* *The report after an update can be false* (`SoftwareUpdate.cfg` with
  `Unguarded = TRUE`, `ResultIsTrue`). A program started by the user, or by the
  waiter after the installer was killed, between the new executable and the
  marker says "Your previous installation is still active" (AppUpdate.cpp:119)
  and is the new one; so does one after a rollback that failed.

The models show further behaviours that a reader of the documentation would not
expect. No run is kept for them; each says how the checked properties leave it
out, or why none speaks of it.

* A rollback killed after it set the replacement aside leaves the user's files in
  a `.restore-rollback-new` folder that is in no journal
  (InventoryTransferRecovery.cpp:77). It voids the outcome.
* When the directory flush of the protecting rename fails, the restore is
  discarded and the data folder is missing (InventoryRestore.cpp:167). It voids
  both promises.
* A Bluetooth pairing whose configuration cannot be saved removes the counter
  file of the pairing that stays stored (InventatoryScanSetupPage.cpp:350); if a
  report parked before then pairs the device, a restart serves a token that no
  store has. `SafeFaults` leaves that failure out of `scanner_safety`.
* A marker that could not be saved disables the service only until credentials
  are set again (HttpServer.cpp:77). `RestartRemembers` speaks of counters that
  were answered, and this one was not.
* A second change of credentials may wait for a callback, through a worker that
  waits for it with the credential lock held (HttpServerConnection.cpp:118); a
  test says of the first one that it must not. `OperationsEnd` says it ends.
* A report parked before a rotation pairs the forgotten device again
  (AppDeviceActions.cpp:276). `AcceptedFromPairedDevice` holds, because the
  device then is the paired one.
* A retried event reuses its result's id, so an acknowledgement of the failure
  still under way acknowledges the success, which is never sent
  (AppDeviceActions.cpp:138). `AcknowledgedWasShown` is checked without retries.
* An acknowledgement a device kept over the loss of an answer acknowledges the
  result of a new scan with the same id, after the device lost its counter
  (DeviceSyncStore.cpp:65). `AcknowledgedWasShown` is checked without losses there.
* A discarded event comes back when the device sends it again
  (DeviceSyncStore.cpp:276); `AppliedOnce` still holds.
* A wall clock that steps back reorders scans (DeviceSyncStore.cpp:208).
  `ServedInOrder` is stated while it goes forward.
* A session is refused when the service it waits for ends just before it is
  looked for (BackgroundControllerLinux.cpp:313). `SessionOpens` counts that as
  an answer.
* A session that closes while another one opens gives up waiting for its service
  and turns the background service off (AppShell.cpp:145). `ServiceTakesOver`
  is stated for a unit that stays registered.
* When a session ends unexpectedly between a service's two looks at its lock, the
  service runs on without serving the scanner (app.cpp:148). `ServiceTakesOver`
  speaks of the workspace only.
* An installer that looks for the program after it became the waiter does not
  find it and fails (`Locate`); the old release comes back and says so.
* A caller that is overtaken at each of its five attempts is refused though the
  wait is short (VendorRateLimits.cpp:266); VendorRateLimits.h:84 speaks of a
  vendor "out of requests for longer than kMaximumWaitSeconds".
* After an answer with a quota, the time announced may be too early: the window is
  taken to end with the program's own requests, and the quota counts until a
  window after its answer (VendorRateLimits.cpp:120). `FreeWhenAnnounced` is
  stated without a quota.
* A wall clock that steps back a little leaves requests out of order; of these the
  bisection may count some that are over, or miss them, so that the time announced
  is one or a few seconds too early (VendorRateLimits.cpp:120). The caller is then
  told another one. `FreeWhenAnnounced` is stated for requests in order.
* A wall clock that steps back by more than a minute makes the program forget the
  requests it sent since (VendorRateLimits.cpp:100); `LimitsKept` is stated until
  then.
* A checkpoint over changes that could not be saved, or an import begun over
  them, joins them into one commit (`mark_unsaved`, `import_unsaved`); Ctrl+Z and
  a cancel then take back both.

## 11. What is not modelled, and what is left

Every component is listed in `PROJECT.json` with its status and the reason. In
short: text (parsers, importers, descriptions, queries, label layout) and I/O
wrappers (vendor clients, discovery, Bluetooth, child processes, the console)
have no interesting states and are better tested; they are most of the code,
which is why the models cover about a tenth of it. Windows repeats the Linux
hand-over with other primitives; cryptography and the keyring are external;
rendering is left out.

With interesting states and still to model:

1. Projects: picks, builds and their undo against a stock that changed.
2. The composition of `InstanceHandoff` with `RestoreJournal`: two processes and
   one journal, when a service that claims its lock recovers what a session is
   restoring (app.cpp:82).
3. The queue of vendor lookups, the refresh of all parts, and the firmware
   courier.

Of the hazards in `PROJECT.json` two have no property: those at app.cpp:82 above
and AppDeviceActions.cpp:276, whose property does not hold (section 10).

## 12. Running it

In this directory, `tlc -config Restore.cfg MC_RestoreJournal` and so on, with
the module and configuration of each run as `PROJECT.json` lists them; the largest
run, `inbox_safety`, has 2.30 million states, and the longest, `vendor`, takes
about two minutes.
`tlapm RestoreJournalProofs.tla` and the other `*Proofs` modules check the proofs,
each in a few minutes. The modules use the TLA+ community modules.
