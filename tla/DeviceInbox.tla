---------------------------- MODULE DeviceInbox ----------------------------
(***************************************************************************)
(* The path of a scan: from the Scan R1's outbox, through signed sync      *)
(* requests, into the durable inbox of the workspace database              *)
(* (DeviceSyncStore.cpp), and from there into the stock, the stock ledger  *)
(* and the commit history (App::processDeviceSyncEvents), and the way of   *)
(* its result back to the device.                                          *)
(*                                                                         *)
(* Requests reach the handler one at a time and in the order they were     *)
(* sent, as the replay counter of ScannerService enforces, so the device   *)
(* has one request under way; it or its answer may be lost.  The device is *)
(* external: it keeps a scan until its id is accepted, and acknowledges    *)
(* each result it was sent.  A scan is known by its position in `made`; the*)
(* id the device gives it may repeat after the device lost its counter.    *)
(***************************************************************************)
EXTENDS ScanEffect, Sequences, SequencesExt, FiniteSets

CONSTANTS
  None,
  Sessions         \* what the runs may do: each a choice of inputs and bounds

\* scannable: the events the user may scan; start: the stock before; batch: kMaximum events, results and
\* acknowledgements of a sync; retained: acknowledged results kept by a prune;
\* clockSteps: whether the wall clock may step back; unsavedStarts: whether the
\* save that ends loadState may fail; scans: bound on the scans.  The others
\* bound the changes the user makes or saves (edits), the transactions that fail
\* (faults), the requests and answers lost, the times the program ends (crashes),
\* failed events are reopened (retries) or discarded and the device loses its
\* counter (resets).
SessionType == [scannable : SUBSET Events, start : SUBSET Stocks, batch : Nat \ {0}, retained : Nat,
                clockSteps : BOOLEAN, unsavedStarts : BOOLEAN, scans : Nat,
                edits : Nat, faults : Nat, losses : Nat, crashes : Nat,
                retries : Nat, discards : Nat, resets : Nat]

ASSUME InboxAssumption == Sessions \subseteq SessionType /\ None \notin Nat

VARIABLES
  made,          \* every scan: its id and its event
  outbox,        \* device: scans not yet accepted
  nextId,        \* device: its event counter
  toAck,         \* device: results not yet acknowledged
  stuck,         \* device: whether the head of the outbox was refused
  request,       \* the sync under way to the desktop
  response,      \* the answer under way to the device
  rows,          \* inventatory_device_events, by event id
  arrivals,      \* the order of the event ids by received_at, rowid
  completions,   \* the order of the completed ones by completed_at
  stock,         \* the part's row of inventatory_items
  head,          \* the part in the snapshot of the newest commit
  ledger,        \* the sum of inventatory_stock_movements
  running, store, persistedStore, persistedStoreValid,   \* App
  working,       \* the pending event processDeviceSyncEvents is applying
  applied,       \* history: the number of times each scan changed the stock
  repeats,       \* history: the changes of a scan taken for another, beyond its first
  served,        \* history: scans by their completions, also those that failed
  since,         \* history: how many were completed when a scan was last reopened
  shown,         \* history: the results the device was sent
  discarded,     \* history: scans whose failed event was discarded
  dropped,       \* history: scans the device gave up
  saves,         \* history: the changes the user saved
  session        \* the chosen session, with what is left of its bounds

device == <<made, outbox, nextId, toAck, stuck, dropped>>
inbox == <<rows, arrivals, completions>>
books == <<stock, head, ledger>>
app == <<running, store, persistedStore, persistedStoreValid, working, saves>>
log == <<applied, repeats, served, since, discarded>>
vars == <<device, request, response, inbox, books, app, log, shown, session>>

Scannable == session.scannable
Batch == session.batch
Retained == session.retained
ClockSteps == session.clockSteps
MaxScans == session.scans

Scans == DOMAIN made
Ids == 1..MaxScans
Id(scan) == made[scan].id

\* A device that lost its counter may give a scan an id it used before: it is then
\* taken for that scan, sent again or acknowledged.
Unambiguous(scan) == \A other \in Scans \ {scan} : Id(other) # Id(scan)

\* A row of the inbox: the scan that inserted it and its result, of which
\* `applied` is what the device is told and `moved` what the ledger recorded.
Row(scan) == [scan |-> scan, event |-> made[scan].event, state |-> "received", status |-> "",
              acknowledged |-> FALSE, applied |-> 0, moved |-> 0]

Reopened(row) == [row EXCEPT !.state = "received", !.status = "", !.applied = 0, !.moved = 0,
                             !.acknowledged = FALSE]

Refusal == [accepted |-> {}, results |-> {}, acks |-> {}, loaded |-> TRUE, refused |-> TRUE]

TypeOK ==
  /\ made \in Seq([id : Ids, event : Scannable]) /\ Len(made) <= MaxScans
  /\ outbox \subseteq Scans
  /\ nextId \in 1..(MaxScans + 1)
  /\ toAck \subseteq Ids
  /\ stuck \in BOOLEAN
  /\ request = None \/ request \in [scans : SUBSET Scans, acks : SUBSET Ids]
  /\ response = None \/ /\ response.accepted \subseteq Scans
                        /\ response.results \subseteq [id : Ids, scan : Scans, status : {"completed", "failed"}]
                        /\ response.acks \subseteq Ids
                        /\ {response.loaded, response.refused} \subseteq BOOLEAN
  /\ DOMAIN rows \subseteq Ids
  /\ rows \in [DOMAIN rows -> [scan : Scans, event : Scannable, state : {"received", "completed"},
                               status : {"", "completed", "failed"}, acknowledged : BOOLEAN,
                               applied : Int, moved : Int]]
  /\ {arrivals, completions} \subseteq SUBSET ((DOMAIN rows) \X (DOMAIN rows))
  /\ {stock, head, store, persistedStore} \subseteq Stocks
  /\ ledger \in Int
  /\ {running, persistedStoreValid} \subseteq BOOLEAN
  /\ working \in {None} \cup DOMAIN rows
  /\ applied \in [1..MaxScans -> Nat] /\ repeats \in Nat
  /\ served \in Seq(Scans) /\ since \in [1..MaxScans -> Nat]
  /\ shown \subseteq [scan : Scans, status : {"completed", "failed"}]
  /\ discarded \subseteq Scans /\ dropped \subseteq Scans
  /\ saves \in Nat
  /\ session \in SessionType

Init ==
  /\ session \in Sessions
  /\ made = <<>> /\ outbox = {} /\ nextId = 1 /\ toAck = {} /\ stuck = FALSE
  /\ request = None /\ response = None
  /\ rows = <<>> /\ arrivals = {} /\ completions = {}
  /\ stock \in session.start /\ head = stock /\ ledger = Amount(stock)
  /\ running = TRUE /\ store = stock /\ persistedStore = stock
  /\ persistedStoreValid = TRUE /\ working = None
  /\ applied = [s \in 1..MaxScans |-> 0] /\ repeats = 0
  /\ served = <<>> /\ since = [s \in 1..MaxScans |-> 0]
  /\ shown = {} /\ discarded = {} /\ dropped = {} /\ saves = 0

Left(resource) == session[resource] > 0
Use(resource) == Left(resource) /\ session' = [session EXCEPT ![resource] = @ - 1]

-----------------------------------------------------------------------------
(* The device. *)

MakeScan ==
  /\ Len(made) < MaxScans
  /\ \E event \in Scannable : made' = Append(made, [id |-> nextId, event |-> event])
  /\ outbox' = outbox \cup {Len(made')}
  /\ nextId' = nextId + 1
  /\ UNCHANGED <<toAck, stuck, dropped, request, response, inbox, books, app, log, shown, session>>

\* The scans a sync carries: the oldest ones.
FirstOut == {s \in outbox : Cardinality({t \in outbox : t < s}) < Batch}

\* With as many acknowledgements as fit.
SendSync ==
  /\ request = None /\ response = None
  /\ \E acks \in SUBSET toAck :
       /\ Cardinality(acks) = IF Cardinality(toAck) < Batch THEN Cardinality(toAck) ELSE Batch
       /\ request' = [scans |-> FirstOut, acks |-> acks]
  /\ UNCHANGED <<device, response, inbox, books, app, log, shown, session>>

ReceiveAnswer ==
  /\ response # None /\ response.loaded
  /\ outbox' = outbox \ response.accepted
  /\ toAck' = (toAck \ response.acks) \cup {result.id : result \in response.results}
  /\ shown' = shown \cup {[scan |-> result.scan, status |-> result.status] : result \in response.results}
  /\ stuck' = response.refused
  /\ response' = None
  /\ UNCHANGED <<made, nextId, dropped, request, inbox, books, app, log, session>>

LoseMessage ==
  /\ request # None \/ response # None
  /\ Use("losses")
  /\ request' = None /\ response' = None
  /\ UNCHANGED <<device, inbox, books, app, log, shown>>

\* The user discards the scan the desktop refuses, from the device's menu.
DiscardStuckScan ==
  /\ stuck /\ request = None /\ response = None
  /\ dropped' = dropped \cup {Min(outbox)}
  /\ outbox' = outbox \ {Min(outbox)}
  /\ stuck' = FALSE
  /\ UNCHANGED <<made, nextId, toAck, request, response, inbox, books, app, log, shown, session>>

\* The device is set up again and numbers its events from the start.
ResetDevice ==
  /\ request = None /\ response = None
  /\ Use("resets")
  /\ dropped' = dropped \cup outbox
  /\ outbox' = {} /\ toAck' = {} /\ nextId' = 1 /\ stuck' = FALSE
  /\ UNCHANGED <<made, request, response, inbox, books, app, log, shown>>

-----------------------------------------------------------------------------
(* The sync handler, on a worker of the device service. *)

\* ORDER BY ... LIMIT n: the first or the last n of ids.
Oldest(order, ids, n) == {id \in ids : Cardinality({other \in ids : <<other, id>> \in order}) < n}
Newest(order, ids, n) == {id \in ids : Cardinality({other \in ids : <<id, other>> \in order}) < n}

\* Mutant of Acknowledged: the result id is not compared.
AcknowledgedAll ==
  [id \in DOMAIN rows |->
     IF request.acks # {} /\ rows[id].state = "completed"
     THEN [rows[id] EXCEPT !.acknowledged = TRUE] ELSE rows[id]]

\* The rows after the acknowledgements of the request: a reopened event has no
\* result id to match.
Acknowledged ==
  [id \in DOMAIN rows |->
     IF id \in request.acks /\ rows[id].state = "completed"
     THEN [rows[id] EXCEPT !.acknowledged = TRUE] ELSE rows[id]]

\* Mutant of Prunable: results are pruned by age alone.
PrunableUnseen(table) ==
  LET ids == {id \in DOMAIN table : table[id].state = "completed"}
  IN  ids \ Newest(completions, ids, Retained)

\* The acknowledged events behind the Retained newest ones.
Prunable(table) ==
  LET ids == {id \in DOMAIN table : table[id].state = "completed" /\ table[id].acknowledged}
  IN  ids \ Newest(completions, ids, Retained)

Kept ==
  LET gone == Prunable(Acknowledged)
  IN  Restrict(Acknowledged, DOMAIN rows \ gone)

\* Mutants of Different: no comparison with the stored row; none beyond the id.
NeverDifferent(table, scan) == FALSE
DifferentWhenStored(table, scan) == Id(scan) \in DOMAIN table

\* storedEventIdentity: the id is taken by another scan, as far as can be told.
Different(table, scan) ==
  Id(scan) \in DOMAIN table /\ table[Id(scan)].event # made[scan].event

Unused(table, scan) == Id(scan) \notin DOMAIN table

HeadConflict == request.scans # {} /\ Different(Kept, Min(request.scans))

Within(order, ids) == order \cap (ids \X ids)

\* Where the new rows, stamped with the time of day, go among the old ones: after
\* those of an earlier time.
Inserted(order, old, new, among) ==
  LET before(id) == {other \in old : <<other, id>> \in order}
  IN  {order \cup among \cup (earlier \X new) \cup (new \X (old \ earlier)) :
         earlier \in {old} \cup IF ClockSteps THEN {before(id) : id \in old} ELSE {}}

\* acceptDeviceSyncEvents, up to its COMMIT.
AcceptEvents ==
  /\ running /\ request # None /\ ~HeadConflict
  /\ LET table == Kept
         fresh == {s \in request.scans : Unused(table, s)}
         ids == {Id(s) : s \in fresh}
     IN  /\ rows' = [id \in DOMAIN table \cup ids |->
                      IF id \in ids THEN Row(CHOOSE s \in fresh : Id(s) = id) ELSE table[id]]
         /\ arrivals' \in Inserted(Within(arrivals, DOMAIN table), DOMAIN table, ids,
                                  {<<Id(p[1]), Id(p[2])>> : p \in {p \in fresh \X fresh : p[1] < p[2]}})
         /\ completions' = Within(completions, DOMAIN table)
         /\ response' = [accepted |-> {s \in request.scans : ~Different(table, s)},
                         results |-> {}, acks |-> request.acks, loaded |-> FALSE, refused |-> FALSE]
  /\ request' = None
  /\ UNCHANGED <<device, books, app, log, shown, session>>

\* loadResults, after the transaction: the results not yet acknowledged.
LoadResults ==
  /\ running /\ response # None /\ ~response.loaded
  /\ LET waiting == {id \in DOMAIN rows : rows[id].state = "completed" /\ ~rows[id].acknowledged}
     IN  response' = [response EXCEPT
           !.loaded = TRUE,
           !.results = {[id |-> id, scan |-> rows[id].scan, status |-> rows[id].status] :
                          id \in Oldest(completions, waiting, Batch)}]
  /\ UNCHANGED <<device, request, inbox, books, app, log, shown, session>>

\* Nothing is accepted ahead of a head event whose id is taken; the whole
\* transaction is rolled back, acknowledgements included.
RefuseEvents ==
  /\ running /\ request # None /\ HeadConflict
  /\ request' = None /\ response' = Refusal
  /\ UNCHANGED <<device, inbox, books, app, log, shown, session>>

\* The transaction fails: an error the device answers by sending again.
AcceptFails ==
  /\ running /\ request # None
  /\ Use("faults")
  /\ request' = None
  /\ UNCHANGED <<device, response, inbox, books, app, log, shown>>

-----------------------------------------------------------------------------
(* The UI thread. *)

Received == {id \in DOMAIN rows : rows[id].state = "received"}

Completed == {id \in DOMAIN rows : rows[id].state = "completed"}

Failed == {id \in DOMAIN rows : rows[id].status = "failed"}

\* Mutant of UnsavedChanges: only the baseline is checked.
InvalidBaseline == ~persistedStoreValid

\* inventoryHasChanges(persistedStore_, store_) or no valid baseline.
UnsavedChanges == ~persistedStoreValid \/ store # persistedStore

UIIdle == running /\ working = None

\* Mutant of TakePending: the newest event first.
TakeNewest ==
  /\ UIIdle /\ ~UnsavedChanges
  /\ working' \in Newest(arrivals, Received, 1)
  /\ UNCHANGED <<device, request, response, inbox, books, running, store, persistedStore,
                 persistedStoreValid, saves, log, shown, session>>

\* loadPendingDeviceSyncEvents(path, 1), and the check that holds events back.
TakePending ==
  /\ UIIdle /\ ~UnsavedChanges
  /\ working' \in Oldest(arrivals, Received, 1)
  /\ UNCHANGED <<device, request, response, inbox, books, running, store, persistedStore,
                 persistedStoreValid, saves, log, shown, session>>

\* inventoryMovementDiff.
MovementDiff(before, after) == Amount(after) - Amount(before)

\* writeItemsToInventatoryTable: the items, the movement and, where there is
\* something to commit, the commit, in one transaction.
WriteItems(q, movement, commits) ==
  /\ stock' = q
  /\ ledger' = ledger + movement
  /\ head' = IF commits THEN q ELSE head

\* completeDeviceSyncEvent: the whole candidate inventory, the movements, the
\* result and the commit in one transaction, which updates exactly one received
\* row, and then the copies in memory.
CompleteEvent ==
  /\ running /\ working \in Received
  /\ LET row == rows[working]
         applies == Applies(row.event, store)
         candidate == StockAfter(row.event, store)
         moved == MovementDiff(persistedStore, candidate)
     IN  /\ rows' = [rows EXCEPT ![working] =
               [@ EXCEPT !.state = "completed",
                         !.status = IF applies THEN "completed" ELSE "failed",
                         !.applied = IF applies THEN MovementDiff(store, candidate) ELSE 0,
                         !.moved = moved]]
         /\ completions' \in Inserted(completions, Completed, {working}, {})
         /\ WriteItems(candidate, moved, applies \/ candidate # persistedStore)
         /\ store' = candidate /\ persistedStore' = candidate
         /\ applied' = IF applies THEN [applied EXCEPT ![row.scan] = @ + 1] ELSE applied
         /\ repeats' = IF applies /\ applied[row.scan] > 0 /\ ~Unambiguous(row.scan)
                       THEN repeats + 1 ELSE repeats
         /\ served' = Append(served, row.scan)
  /\ working' = None
  /\ UNCHANGED <<device, request, response, arrivals, running, persistedStoreValid, saves,
                 since, discarded, shown, session>>

\* The event stays in the inbox; the back-off only delays the next attempt.
CompleteFails ==
  /\ running /\ working # None
  /\ Use("faults")
  /\ working' = None
  /\ UNCHANGED <<device, request, response, inbox, books, running, store, persistedStore,
                 persistedStoreValid, saves, log, shown>>

\* Mutant of SaveInventory: the movement is taken from the inventory in memory.
SaveFromMemory(q) ==
  /\ WriteItems(q, IF persistedStoreValid THEN MovementDiff(store, q) ELSE 0,
                persistedStoreValid /\ q # persistedStore)
  /\ store' = q /\ persistedStore' = q /\ persistedStoreValid' = TRUE
  /\ saves' = saves + 1

\* saveInventoryState of quantity q.  Without a valid baseline there is nothing
\* to compare with, so neither a movement nor a commit is written.
SaveInventory(q) ==
  /\ WriteItems(q, IF persistedStoreValid THEN MovementDiff(persistedStore, q) ELSE 0,
                persistedStoreValid /\ q # persistedStore)
  /\ store' = q /\ persistedStore' = q /\ persistedStoreValid' = TRUE
  /\ saves' = saves + 1

\* The user creates, counts, corrects or deletes the part, builds a project,
\* undoes or reverts: the inventory in memory changes and is saved at once.
ChangeStock ==
  /\ UIIdle
  /\ Use("edits")
  /\ \E q \in Stocks \ {store} : SaveInventory(q)
  /\ UNCHANGED <<device, request, response, inbox, running, working, log, shown>>

\* The change stays in memory only when the save fails.
ChangeUnsaved ==
  /\ UIIdle
  /\ Left("edits") /\ Left("faults")
  /\ session' = [session EXCEPT !.edits = @ - 1, !.faults = @ - 1]
  /\ store' \in Stocks \ {store}
  /\ UNCHANGED <<device, request, response, inbox, books, running, persistedStore,
                 persistedStoreValid, working, saves, log, shown>>

\* retrySaveState.
RetrySave ==
  /\ UIIdle /\ UnsavedChanges
  /\ SaveInventory(store)
  /\ UNCHANGED <<device, request, response, inbox, running, working, log, shown, session>>

\* retryFailedDeviceSyncEvents.
RetryFailedEvents ==
  /\ UIIdle /\ Failed # {}
  /\ Use("retries")
  /\ rows' = [id \in DOMAIN rows |-> IF id \in Failed THEN Reopened(rows[id]) ELSE rows[id]]
  /\ completions' = Within(completions, DOMAIN rows \ Failed)
  /\ since' = [s \in DOMAIN since |->
                 IF \E id \in Failed : rows[id].scan = s THEN Len(served) ELSE since[s]]
  /\ UNCHANGED <<device, request, response, arrivals, books, app, applied, repeats, served,
                 discarded, shown>>

\* discardFailedDeviceSyncEvents.
DiscardFailedEvents ==
  /\ UIIdle /\ Failed # {}
  /\ Use("discards")
  /\ discarded' = discarded \cup {rows[id].scan : id \in Failed}
  /\ rows' = Restrict(rows, DOMAIN rows \ Failed)
  /\ arrivals' = Within(arrivals, DOMAIN rows \ Failed)
  /\ completions' = Within(completions, DOMAIN rows \ Failed)
  /\ UNCHANGED <<device, request, response, books, app, applied, repeats, served, since, shown>>

\* The program is killed or exits, between two steps of any thread; a change
\* that could not be saved is gone.
Crash ==
  /\ running
  /\ Use("crashes")
  /\ running' = FALSE /\ working' = None
  /\ store' = Absent /\ persistedStore' = Absent /\ persistedStoreValid' = FALSE
  /\ request' = None /\ response' = None
  /\ UNCHANGED <<device, inbox, books, saves, log, shown>>

\* loadState: the baseline is valid once what loading repaired is saved.
StartApp ==
  /\ ~running
  /\ running' = TRUE
  /\ store' = stock /\ persistedStore' = stock /\ persistedStoreValid' = TRUE
  /\ UNCHANGED <<device, request, response, inbox, books, working, saves, log, shown, session>>

StartUnsaved ==
  /\ ~running /\ session.unsavedStarts
  /\ Use("faults")
  /\ running' = TRUE /\ store' = stock
  /\ UNCHANGED <<device, request, response, inbox, books, persistedStore, persistedStoreValid,
                 working, saves, log, shown>>

-----------------------------------------------------------------------------

DeviceStep == SendSync \/ ReceiveAnswer
ServeStep == AcceptEvents \/ LoadResults \/ RefuseEvents
UIStep == TakePending \/ CompleteEvent \/ StartApp

Next ==
  \/ MakeScan \/ SendSync \/ ReceiveAnswer \/ LoseMessage \/ DiscardStuckScan \/ ResetDevice
  \/ AcceptEvents \/ LoadResults \/ RefuseEvents \/ AcceptFails
  \/ TakePending \/ CompleteEvent \/ CompleteFails
  \/ ChangeStock \/ ChangeUnsaved \/ RetrySave \/ RetryFailedEvents \/ DiscardFailedEvents
  \/ Crash \/ StartApp \/ StartUnsaved

Spec == Init /\ [][Next]_vars

\* The device syncs again and again, the service answers, and the UI thread
\* polls the inbox at least every five seconds and is started again.  Nothing
\* makes the user scan, retry a save or discard anything.
FairSpec == Spec /\ WF_vars(DeviceStep) /\ WF_vars(ServeStep) /\ WF_vars(UIStep)

-----------------------------------------------------------------------------
(* Correctness. *)

\* No scan changes the stock twice, whatever is lost, resent, retried, pruned
\* or interrupted between its transmission and its acknowledgement.
AppliedOnce == \A s \in Scans : Unambiguous(s) => applied[s] <= 1

\* The newest commit and the sum of the recorded movements agree with the
\* stock: no change, of a scan or of the user, escapes the history.
HistoryMatchesStock == head = stock /\ ledger = Amount(stock)

\* What the device is told is true.  The change it is told it made is the one
\* recorded for its event: a scan is never committed over changes of the user that
\* are not saved.  And it is never told that a scan was accepted when what is
\* stored under its id is something else.
ToldTheTruth ==
  /\ \A id \in DOMAIN rows : rows[id].applied = rows[id].moved
  /\ response # None =>
       \A s \in response.accepted :
         Id(s) \in DOMAIN rows => rows[Id(s)].event = made[s].event

\* A result counts as acknowledged only when the device was sent that result.
AcknowledgedWasShown ==
  \A id \in DOMAIN rows :
    rows[id].acknowledged => [scan |-> rows[id].scan, status |-> rows[id].status] \in shown

\* A scan is on the device, in the inbox, or settled with the device's or the
\* user's knowledge: nothing that was accepted disappears.
NoScanLost ==
  \A s \in Scans : Unambiguous(s) =>
    \/ s \in outbox \cup discarded \cup dropped
    \/ \E id \in DOMAIN rows : rows[id].scan = s
    \/ \E result \in shown : result.scan = s

\* The inbox is worked through in the order the scans were made, unless the wall
\* clock steps back between two receipts: what was completed before a scan was made
\* before it.  A failed event that is reopened keeps its place, so of those after it
\* only the ones completed before it was reopened are ahead of it; an event that was
\* discarded gets a new place should the device still send it.  A scan that is taken
\* for another waits on the device for the row under its id to be pruned, and those
\* after it overtake it.
ServedInOrder ==
  ~ClockSteps =>
    \A m, n \in DOMAIN served :
      /\ since[served[n]] < m /\ m < n
      /\ Unambiguous(served[m]) /\ Unambiguous(served[n]) /\ served[n] \notin discarded
      => served[m] < served[n]

MostScans == Max({x.scans : x \in Sessions})

\* Whether the device waits for its user to discard a scan whose id is taken.
AwaitsDiscard == stuck /\ ~Unambiguous(Min(outbox))

\* Every scan is completed in the end, also those made after one whose id is taken,
\* provided the user does not leave changes unsaved for ever and discards a scan the
\* desktop refuses for its id.  Only what the device gave up and a scan whose id was
\* used twice may leave the device without being completed.
EveryScanServed ==
  <>[]~UnsavedChanges /\ []<>~AwaitsDiscard =>
    \A s \in 1..MostScans :
      s \in Scans ~> \/ s \in Range(served) \cup dropped
                     \/ s \in Scans \ outbox /\ ~Unambiguous(s)

Ledger == INSTANCE ScanLedger WITH
            scans <- [s \in Scans |-> made[s].event],
            done <- {s \in Scans : applied[s] > 0},
            saves <- saves + repeats

\* The inbox implements the abstract ledger of scans; the repeats of a scan under
\* an id used before count as changes of the user.
ChangesAccountedFor == Ledger!Spec

=============================================================================
