-------------------------- MODULE InventoryHistory --------------------------
(***************************************************************************)
(* The inventory, its version history, Ctrl+Z and the History page         *)
(* (src/src/core/history, src/src/app/persistence, src/src/app/inventory,  *)
(* src/src/app/racks).                                                     *)
(*                                                                         *)
(* Every saved change is a commit: the whole inventory after it.  Undo, a  *)
(* reversal and a restored snapshot do not remove commits, they add one    *)
(* that names the commit they took back.  An operation changes the         *)
(* inventory in memory, places its automatic parts and saves; the save may *)
(* fail, and the changes then stay in memory for the next one.             *)
(*                                                                         *)
(* Scans and vendor answers change and save the inventory at any time, also*)
(* while the History page asks for a confirmation, a part's form is open or*)
(* an import is under review; what was edited meanwhile is merged.         *)
(***************************************************************************)
EXTENDS InventoryMerge, Sequences, TLC

CONSTANTS
  Parts,          \* part identifiers, in the order of the list
  MaxRacks,       \* bound: racks ever made
  Sessions        \* what is explored: the operations used, the kinds of parts,
                  \* and bounds for quantities, commits and saves that fail

\* Operations that not every session uses.  "mark": a checkpoint over saved
\* changes; "mark_unsaved": also over changes that could not be saved, as
\* "import" and "import_unsaved".
Operations == {"add", "delete", "adjust", "racks", "history", "mark", "mark_unsaved", "receive",
               "form", "new", "import", "import_unsaved", "skip_all", "places", "other_files"}

SessionType == [uses : SUBSET Operations, kinds : SUBSET Kinds,
                quantity : Nat, commits : Nat, faults : Nat]

ASSUME HistoryAssumption ==
  /\ Parts \subseteq Nat \ {0} /\ IsFiniteSet(Parts) /\ MaxRacks \in Nat
  /\ Sessions \subseteq SessionType

VARIABLES
  store,       \* store_: the inventory in memory
  saved,       \* persistedStore_, equal to the tables of the database
  commits,     \* the history, oldest first
  draft,       \* pendingCommitDraft_ of a save that failed
  shown,       \* historyDetail_: the commit the History page shows
  confirming,  \* pendingHistoryRevertMode_ while HistoryConfirm is open
  asked,       \* what the open confirmation was asked for: a commit
  armed,       \* rackDeleteConfirmationRackId_
  form,        \* workingCopy_, while the form of a part is open
  import,      \* the staged import: importStageActive_, importCommitPending_, ...
  made,        \* racks ever made
  faults,
  session      \* the member of Sessions explored

pages == <<shown, confirming, asked, armed>>
edits == <<form, import>>
vars == <<store, saved, commits, draft, pages, edits, made, faults, session>>

Uses(operation) == operation \in session.uses

NoDraft == [pending |-> FALSE, checkpoint |-> FALSE, reverts |-> 0]
Draft(checkpoint, reverts) == [pending |-> TRUE, checkpoint |-> checkpoint, reverts |-> reverts]
Manual == Draft(FALSE, 0)

Commit(inv, d, changes) ==
  [snapshot |-> inv, checkpoint |-> d.checkpoint, reverts |-> d.reverts, changes |-> changes]

Empty == [parts |-> << >>, racks |-> << >>]

NewPart(qty, kind) == [qty |-> qty, kind |-> kind, mode |-> "automatic", at |-> Nowhere]
Blank == NewPart(0, "placeholder")

NoForm == [open |-> FALSE, part |-> 0, isNew |-> FALSE, original |-> Blank, edited |-> Blank]
NoImport == [stage |-> "none", original |-> Empty, staged |-> Empty, rows |-> [p \in Parts |-> 0]]

\* The user is on a page with keys of its own, so that no other operation runs.
Idle == confirming = "no" /\ form = NoForm /\ import = NoImport

\* An empty workspace; its first save writes the initial commit as well.
Init ==
  /\ store = Empty /\ saved = Empty
  /\ commits = <<Commit(Empty, NoDraft, FALSE)>>
  /\ draft = NoDraft
  /\ shown = 1 /\ confirming = "no" /\ asked = 0 /\ armed = 0
  /\ form = NoForm /\ import = NoImport
  /\ made = 0 /\ faults = 0
  /\ session \in Sessions

-----------------------------------------------------------------------------
(* Saving *)

UnsavedChanges == store # saved

\* Mutant of Refreshed: an open confirmation stays open over the reloaded list.
RefreshedUnderConfirmation(history) ==
  /\ shown' \in {Len(history) - (Len(commits) - shown), Len(history)}
  /\ UNCHANGED <<confirming, asked>>

\* refreshInventoryCommits keeps the distance from the newest commit, or goes
\* to the newest that the filter shows; an open confirmation is cancelled.
Refreshed(history) ==
  /\ shown' \in {Len(history) - (Len(commits) - shown), Len(history)}
  /\ confirming' = "no" /\ asked' = 0

\* saveInventoryState: the inventory inv, prepared by the caller, is reconciled
\* and written with its commit in one transaction, which refuses an inventory
\* that history could not load.  used counts the racks made until now; stay is
\* what a failed save leaves of the page.
Save(inv, used, d, stay) ==
  LET next == Reconcile(inv, used)
      needsCommit == d.checkpoint \/ next.inv # saved
      history == IF needsCommit
                   THEN Append(commits, Commit(next.inv, d, next.inv # saved)) ELSE commits
  IN /\ Len(history) <= session.commits /\ next.made <= MaxRacks
     /\ store' = next.inv /\ made' = next.made
     /\ \/ /\ ValidSnapshot(next.inv)
           /\ saved' = next.inv /\ commits' = history /\ draft' = NoDraft
           /\ Refreshed(history)
           /\ UNCHANGED faults
        \/ /\ \/ faults < session.faults /\ faults' = faults + 1
              \/ ~ValidSnapshot(next.inv) /\ UNCHANGED faults
           /\ draft' = IF needsCommit THEN d ELSE NoDraft
           /\ stay
           /\ UNCHANGED <<saved, commits, shown>>
     /\ UNCHANGED session

Stay == UNCHANGED <<confirming, asked>>
Closed == confirming' = "no" /\ asked' = 0

SaveEdit(inv) == Save(inv, made, Manual, Stay)

\* The part that was edited is placed before the others.
SavePart(inv, p) ==
  LET placed == Reconciled(inv, p, made + 1)
  IN Save(placed, Max({made} \cup DOMAIN placed.racks), Manual, Stay)

\* R: the draft of the failed save is used again.
RetrySave ==
  /\ Idle /\ (draft.pending \/ UnsavedChanges)
  /\ Save(store, made, IF draft.pending THEN draft ELSE Manual, Stay)
  /\ UNCHANGED <<armed, edits>>

-----------------------------------------------------------------------------
(* Changes of parts *)

WithPart(inv, p, part) == [inv EXCEPT !.parts = With(@, p, part)]

\* Identifiers are new.
Fresh(p) ==
  /\ p \notin DOMAIN store.parts
  /\ \A k \in 1..Len(commits) : p \notin DOMAIN commits[k].snapshot.parts
  /\ form.open => form.part # p
  /\ import # NoImport => p \notin DOMAIN import.staged.parts

\* A part added by hand, its form filled in and saved at once.
AddPart(p) ==
  /\ Idle /\ Uses("add") /\ Fresh(p)
  /\ \E kind \in session.kinds : SavePart(WithPart(store, p, NewPart(0, kind)), p)
  /\ UNCHANGED <<armed, edits>>

DeletePart(p) ==
  /\ Idle /\ Uses("delete") /\ p \in DOMAIN store.parts
  /\ SaveEdit([store EXCEPT !.parts = Restrict(@, DOMAIN @ \ {p})])
  /\ UNCHANGED <<armed, edits>>

AdjustQuantity(p) ==
  /\ Idle /\ Uses("adjust") /\ p \in DOMAIN store.parts
  /\ \E q \in 0..session.quantity \ {store.parts[p].qty} :
       SaveEdit([store EXCEPT !.parts[p].qty = q])
  /\ UNCHANGED <<armed, edits>>

\* A scan is applied only over saved changes, and a save that fails leaves
\* memory alone; the event stays in the inbox.  Received stock of an automatic
\* part may place it.
Scanned(inv, used) ==
  LET history == Append(commits, Commit(inv, Manual, TRUE))
  IN /\ ~UnsavedChanges
     /\ Len(history) <= session.commits /\ used <= MaxRacks
     /\ store' = inv /\ saved' = inv /\ commits' = history /\ made' = used
     /\ Refreshed(history)
     /\ UNCHANGED <<draft, armed, edits, faults, session>>

Scan(p) ==
  /\ p \in DOMAIN store.parts
  /\ \E q \in 0..session.quantity \ {store.parts[p].qty} :
       LET adjusted == [store EXCEPT !.parts[p].qty = q]
           received == Reconciled(adjusted, p, made + 1)
       IN \/ Scanned(adjusted, made)
          \/ q > store.parts[p].qty /\ Scanned(received, Max({made} \cup DOMAIN received.racks))

\* A scanned vendor code makes a part, placed at once if it says what it is.
Receive(p) ==
  /\ Uses("receive") /\ Fresh(p)
  /\ \E kind \in session.kinds :
       LET inv == Reconciled(WithPart(store, p, NewPart(0, kind)), p, made + 1)
       IN Scanned(inv, Max({made} \cup DOMAIN inv.racks))

\* A vendor answer gives the part its category, whatever the page shows.
Enrich(p) ==
  /\ p \in DOMAIN store.parts /\ store.parts[p].kind = "placeholder"
  /\ \E kind \in Kinds \ {"placeholder"} : SavePart([store EXCEPT !.parts[p].kind = kind], p)
  /\ UNCHANGED <<armed, edits>>

-----------------------------------------------------------------------------
(* Racks and placement *)

\* moveItemToRackSlot, setManualRackLocation and a slot chosen in the form.
MovePart(p) ==
  /\ Idle /\ Uses("racks") /\ p \in DOMAIN store.parts
  /\ \E at \in (DOMAIN store.racks) \X (1..Slots) :
       /\ ~Occupied(store, at, p)
       /\ SaveEdit(Put(store, p, at, "manual"))
  /\ UNCHANGED <<armed, edits>>

\* Taken out of its slot, for good or to be placed automatically again.
UnassignPart(p) ==
  /\ Idle /\ Uses("racks") /\ p \in Placed(store)
  /\ \E mode \in {"unassigned", "automatic"} : SavePart(Put(store, p, Nowhere, mode), p)
  /\ UNCHANGED <<armed, edits>>

\* createRackWithType, and createOrganizer for code 0, the one name a model needs.
CreateRack ==
  /\ Idle /\ Uses("racks") /\ made < MaxRacks
  /\ \E code \in ({0, NextCode(store)} \ Codes(store)) \cap (0..MaxCode) :
     \E type \in Types \cup {t \in {"none"} : code = 0} :
       Save(WithRack(store, made + 1, code, type), made + 1, Manual, Stay)
  /\ UNCHANGED <<armed, edits>>

\* A new number, or type; only an organizer may have no type.
ChangeRack ==
  /\ Idle /\ Uses("racks")
  /\ \E r \in DOMAIN store.racks :
       \/ /\ store.racks[r].code # 0
          /\ \E code \in (1..MaxCode) \ Codes(store) : SaveEdit([store EXCEPT !.racks[r].code = code])
       \/ \E type \in Types \cup {t \in {"none"} : store.racks[r].code = 0} :
            /\ type # store.racks[r].type
            /\ SaveEdit([store EXCEPT !.racks[r].type = type])
  /\ UNCHANGED <<armed, edits>>

\* deleteSelectedRack asks first; the deletion is confirmed seconds later.
ArmRackDeletion ==
  /\ Idle /\ Uses("racks") /\ armed = 0
  /\ \E r \in DOMAIN store.racks : EmptyRack(store, r) /\ armed' = r
  /\ UNCHANGED <<store, saved, commits, draft, shown, confirming, asked, edits, made, faults, session>>

ConfirmRackDeletion ==
  /\ armed # 0 /\ edits = <<NoForm, NoImport>>
  /\ armed' = 0 /\ UNCHANGED edits
  /\ IF armed \in DOMAIN store.racks /\ EmptyRack(store, armed)
       THEN SaveEdit([store EXCEPT !.racks = Restrict(@, DOMAIN @ \ {armed})])
       ELSE UNCHANGED <<store, saved, commits, draft, shown, confirming, asked, made, faults, session>>

-----------------------------------------------------------------------------
(* The form of a part *)

\* beginEditCurrentItem: of a part, or of a new one.
OpenForm(p) ==
  /\ Idle /\ Uses("form")
  /\ \/ /\ p \in DOMAIN store.parts
        /\ form' = [open |-> TRUE, part |-> p, isNew |-> FALSE,
                    original |-> store.parts[p], edited |-> store.parts[p]]
     \/ LET blank == [Blank EXCEPT !.mode = IF store.racks = << >> THEN "unassigned" ELSE "automatic"]
        IN /\ Uses("new") /\ Fresh(p)
           /\ form' = [open |-> TRUE, part |-> p, isNew |-> TRUE,
                       original |-> blank, edited |-> blank]
  /\ UNCHANGED <<store, saved, commits, draft, pages, import, made, faults, session>>

\* resolveStorageInput: not stored or a named place, AUTO, or a slot that no
\* other part has now; a rack without slot keeps the slot the part has there.
StorageChoices(part, p) ==
  {<<"unassigned", Nowhere>>, <<"automatic", Nowhere>>}
    \cup {<<"manual", at>> : at \in {at \in (DOMAIN store.racks) \X (1..Slots) : ~Occupied(store, at, p)}}
    \cup {<<"manual", at>> : at \in {part.at} \cap ((DOMAIN store.racks) \X (1..Slots))}

\* commitEditField.
EditField ==
  /\ form.open
  /\ \/ \E q \in 0..session.quantity : form' = [form EXCEPT !.edited.qty = q]
     \/ \E kind \in session.kinds : form' = [form EXCEPT !.edited.kind = kind]
     \/ \E choice \in StorageChoices(form.edited, form.part) :
          form' = [form EXCEPT !.edited.mode = choice[1], !.edited.at = choice[2]]
  /\ form' # form
  /\ UNCHANGED <<store, saved, commits, draft, pages, import, made, faults, session>>

\* Esc, or a save of a part that is gone.
CloseForm ==
  /\ form.open /\ form' = NoForm
  /\ UNCHANGED <<store, saved, commits, draft, pages, import, made, faults, session>>

\* saveWorkingCopy: what was edited is replayed on the part as it is now; a
\* new part is added as it was filled in.
SaveForm ==
  /\ form.open
  /\ form.isNew \/ form.part \in DOMAIN store.parts
  /\ LET p == form.part
         inv == IF form.isNew
                  THEN WithPart(store, p, form.edited)
                  ELSE ReleasePlacement(
                         [store EXCEPT !.parts[p] = MergeItem(form.original, form.edited, @, "typed")], p)
     IN SavePart(inv, p)
  /\ form' = NoForm /\ UNCHANGED <<armed, import>>

-----------------------------------------------------------------------------
(* The review of an import *)

\* beginCsvImport: rows counts what was accepted for each part.
BeginImport ==
  /\ Idle /\ Uses("import")
  /\ UnsavedChanges => Uses("import_unsaved")
  /\ import' = [NoImport EXCEPT !.stage = "review", !.original = store, !.staged = store]
  /\ UNCHANGED <<store, saved, commits, draft, pages, form, made, faults, session>>

\* One piece more of a part that was there, or of a new one; choice is the place
\* the user gave it.
StagedRow(p, kind, choice) ==
  LET old == import.staged.parts[p]
  IN IF p \in DOMAIN import.original.parts
       THEN [qty |-> old.qty + 1,
             kind |-> IF old.kind = "placeholder" THEN kind ELSE old.kind,
             mode |-> IF choice[1] = "automatic" THEN old.mode ELSE choice[1],
             at |-> IF choice[1] = "automatic" THEN old.at ELSE choice[2]]
       ELSE [qty |-> 1, kind |-> kind, mode |-> choice[1], at |-> choice[2]]

\* acceptImportCandidate: a row is staged.  The user may have given it a place that
\* was free in the inventory.
AcceptRow(p) ==
  /\ import.stage = "review" /\ import.rows[p] = 0
  /\ p \in DOMAIN import.original.parts \/ Fresh(p)
  /\ \E kind \in session.kinds,
        choice \in {c \in StorageChoices(Blank, p) : c[1] = "automatic" \/ Uses("places")} :
       LET row == StagedRow(p, kind, choice)
           next == Reconciled(WithPart(import.staged, p, row), p, made + 1)
       IN /\ import' = [import EXCEPT !.staged = next, !.rows[p] = 1]
          /\ made' = Max({made} \cup DOMAIN next.racks) /\ made' <= MaxRacks
  /\ UNCHANGED <<store, saved, commits, draft, pages, form, faults, session>>

\* The save of the import reports a failure also when only another file, the
\* printer's settings for one, could not be written.
ImportSaved(original) ==
  \/ saved' = store' /\ faults' = faults /\ import' = NoImport
  \/ /\ saved' # store' \/ faults' # faults \/ Uses("other_files")
     /\ import' = [import EXCEPT !.stage = "pending", !.original = original]

\* commitImportStage: what the import changed is replayed on the inventory as
\* it is now.
CommitImport ==
  /\ import.stage = "review" /\ (import.staged = import.original => Uses("skip_all"))
  /\ Save(MergeInventory(import.original, import.staged, store), made, Manual, Stay)
  /\ ImportSaved(store)
  /\ UNCHANGED <<armed, form>>

\* R: the inventory has the import already.
RetryImport ==
  /\ import.stage = "pending"
  /\ Save(store, made, Manual, Stay)
  /\ ImportSaved(import.original)
  /\ UNCHANGED <<armed, form>>

\* cancelImportSession: an import that could not be saved is taken back.
CancelImport ==
  /\ import # NoImport /\ import' = NoImport
  /\ store' = IF import.stage = "pending" THEN import.original ELSE store
  /\ UNCHANGED <<saved, commits, draft, pages, form, made, faults, session>>

-----------------------------------------------------------------------------
(* History *)

Undone(history, k) == \E j \in k+1..Len(history) : history[j].reverts = k

\* Mutant of Undoable: an undo is a change like any other.
UndoableUndo(history) ==
  {k \in 2..Len(history) : /\ ~history[k].checkpoint /\ history[k].changes
                           /\ ~Undone(history, k)}

\* latestUndoableInventoryCommit.
Undoable(history) ==
  {k \in 2..Len(history) : /\ history[k].reverts = 0
                           /\ ~history[k].checkpoint /\ history[k].changes
                           /\ ~Undone(history, k)}

\* undoLastInventoryChange: the inventory before the latest undoable commit.
UndoLast ==
  /\ Idle /\ ~UnsavedChanges
  /\ Undoable(commits) # {}
  /\ LET k == Max(Undoable(commits))
     IN Save(commits[k - 1].snapshot, made, Draft(FALSE, k), Stay)
  /\ UNCHANGED <<armed, edits>>

\* A checkpoint is a commit of its own, with or without changes to save.
Checkpoint ==
  /\ Idle /\ Uses("mark")
  /\ UnsavedChanges => Uses("mark_unsaved")
  /\ Save(store, made, Draft(TRUE, 0), Closed)
  /\ UNCHANGED <<armed, edits>>

Differs(f, g) ==
  {x \in DOMAIN f \cup DOMAIN g : ~(x \in DOMAIN f \cap DOMAIN g /\ f[x] = g[x])}

\* f with the entries xs as they are in g.
Patched(f, g, xs) ==
  [x \in (DOMAIN f \ xs) \cup (DOMAIN g \cap xs) |-> IF x \in xs THEN g[x] ELSE f[x]]

ReverseTarget(inv, k) ==
  LET before == commits[k - 1].snapshot
      after == commits[k].snapshot
  IN [parts |-> Patched(inv.parts, before.parts, Differs(before.parts, after.parts)),
      racks |-> Patched(inv.racks, before.racks, Differs(before.racks, after.racks))]

\* What the commit changed is still as it left it.
StillAsLeft(inv, k) ==
  LET before == commits[k - 1].snapshot
      after == commits[k].snapshot
  IN /\ Differs(before.parts, after.parts) \cap Differs(after.parts, inv.parts) = {}
     /\ Differs(before.racks, after.racks) \cap Differs(after.racks, inv.racks) = {}

\* Mutant of Reversible: later changes conflict only where they touch the same part or rack.
ReversibleByEntry(inv, k) == k > 1 /\ commits[k].changes /\ StillAsLeft(inv, k)

\* prepareInventoryCommitReverse.
Reversible(inv, k) ==
  /\ k > 1 /\ commits[k].changes
  /\ StillAsLeft(inv, k)
  /\ ValidSnapshot(ReverseTarget(inv, k))

\* The selection moves to another commit of the list.
SelectCommit ==
  /\ Uses("history") /\ edits = <<NoForm, NoImport>>
  /\ shown' \in 1..Len(commits) \ {shown}
  /\ confirming' = "no" /\ asked' = 0
  /\ UNCHANGED <<store, saved, commits, draft, armed, edits, made, faults, session>>

\* beginHistoryRestore.
AskRevert ==
  /\ Uses("history") /\ Idle /\ ~UnsavedChanges
  /\ confirming' \in {"snapshot"} \cup {m \in {"reverse"} : Reversible(store, shown)}
  /\ asked' = shown
  /\ UNCHANGED <<store, saved, commits, draft, shown, armed, edits, made, faults, session>>

\* applyHistoryRevert, of the commit the page shows now.
ConfirmRevert ==
  /\ confirming # "no"
  /\ LET target == IF confirming = "snapshot" THEN commits[shown].snapshot
                                              ELSE ReverseTarget(store, shown)
     IN IF \/ UnsavedChanges
           \/ confirming = "reverse" /\ ~Reversible(store, shown)
           \/ target = store
          THEN /\ Closed
               /\ UNCHANGED <<store, saved, commits, draft, shown, made, faults, session>>
          ELSE Save(target, made, Draft(FALSE, shown), Closed)
  /\ UNCHANGED <<armed, edits>>

Next ==
  \/ RetrySave
  \/ \E p \in Parts : AddPart(p) \/ DeletePart(p) \/ AdjustQuantity(p)
  \/ \E p \in Parts : Scan(p) \/ Receive(p) \/ Enrich(p)
  \/ \E p \in Parts : MovePart(p) \/ UnassignPart(p)
  \/ (\E p \in Parts : OpenForm(p)) \/ EditField \/ SaveForm \/ CloseForm
  \/ BeginImport \/ (\E p \in Parts : AcceptRow(p)) \/ CommitImport \/ RetryImport \/ CancelImport
  \/ CreateRack \/ ChangeRack \/ ArmRackDeletion \/ ConfirmRackDeletion
  \/ UndoLast \/ Checkpoint \/ SelectCommit \/ AskRevert \/ ConfirmRevert

Spec == Init /\ [][Next]_vars

-----------------------------------------------------------------------------
(* Properties *)

\* No sequence of edits, placements, vendor answers, undos and reversals leads
\* to an inventory that the next save refuses because history could not load
\* it: a slot taken twice, a part in a rack that is gone, a rack number twice.
\* Otherwise nothing could be saved any more.
SaveNeverRefused == ValidSnapshot(Reconcile(store, made).inv)

\* While the History page asks for a confirmation it shows the commit it asked
\* for, and, if nothing is unsaved, what was asked can still be done, whatever
\* scans and vendor answers were saved in between.
ConfirmedIsShown ==
  confirming # "no" =>
    /\ shown = asked
    /\ confirming = "reverse" => UnsavedChanges \/ Reversible(store, shown)

Change(p) == store'.parts[p].qty - store.parts[p].qty

\* Stock that scans change while a form is open, an import is under review or
\* its save fails is kept: a committed import adds what was accepted, one that
\* is cancelled takes back no more than that, and a form changes the quantity
\* only if the user did.
ScansKept ==
  [][LET parts == DOMAIN store.parts \cap DOMAIN store'.parts
     IN /\ import # NoImport /\ import' # import /\ store' # store =>
             IF import.stage = "review"
               THEN \A p \in parts : Change(p) = import.rows[p]
               ELSE \A p \in parts : Change(p) \in {0, -import.rows[p]}
        /\ form.open /\ form' = NoForm =>
             \A p \in parts : Change(p) # 0 =>
               p = form.part /\ form.edited.qty # form.original.qty]_vars

\* The commits of changes that stand, after the first one.
Standing ==
  LET Stands(k) == /\ commits[k].reverts = 0 /\ commits[k].changes
                   /\ ~commits[k].checkpoint /\ ~Undone(commits, k)
  IN {k \in 1..Len(commits) : k = 1 \/ Stands(k)}

\* The member of S that has i members up to it.
Nth(S, i) == CHOOSE k \in S : Cardinality({j \in S : j <= k}) = i

\* The inventories after them, in their order.
StandingSnapshots == [i \in 1..Cardinality(Standing) |-> commits[Nth(Standing, i)].snapshot]

\* Claimed of sessions without the History page, and whose checkpoints are of
\* saved changes; of the others nothing is claimed.
Plain == ~Uses("history") /\ ~Uses("mark_unsaved")

Stack == INSTANCE UndoStack WITH
           current <- IF Plain THEN saved ELSE Empty,
           stack <- IF Plain THEN StandingSnapshots ELSE <<Empty>>

\* Ctrl+Z is a stack of the saved inventories: it takes back one change per
\* press, the last that stands, also over the commits of undos, checkpoints and
\* scans, and after saves that failed and were repeated or joined.
UndoIsStack == Stack!Spec

\* "Ctrl+Z steps back one change per press": a press that finds a commit to
\* undo changes the inventory.
UndoStepsBack ==
  Undoable(commits) # {} /\ ~UnsavedChanges
    => commits[Max(Undoable(commits)) - 1].snapshot # saved

=============================================================================
