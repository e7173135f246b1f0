--------------------------- MODULE InventoryMerge ---------------------------
(***************************************************************************)
(* What was edited on a copy of the inventory is replayed on the inventory *)
(* as it has become (src/src/core/inventory/InventoryMerge.cpp).  Only     *)
(* operators, over the inventories of RackAllocation.                      *)
(***************************************************************************)
EXTENDS RackAllocation, Integers

SamePlace(a, b) == a.at = b.at /\ a.mode = b.mode

\* Mutant of MergeItem: the quantity is the edited one, as for a part that only
\* the user changes.
OverwriteItem(base, edited, current, quantity) ==
  [edited EXCEPT !.kind = IF edited.kind = base.kind THEN current.kind ELSE @]

\* mergeEditedItem: a field that was not edited is the current one; an edited
\* one wins, except for a quantity that was added to ("delta").  The three
\* fields of the placement are one.
MergeItem(base, edited, current, quantity) ==
  LET place == IF SamePlace(edited, base) THEN current ELSE edited
  IN [qty  |-> CASE edited.qty = base.qty -> current.qty
                 [] edited.qty # base.qty /\ quantity = "delta" ->
                      Max({0, current.qty + edited.qty - base.qty})
                 [] OTHER -> edited.qty,
      kind |-> IF edited.kind = base.kind THEN current.kind ELSE edited.kind,
      mode |-> place.mode,
      at   |-> place.at]

Displaced(inv, p) == Put(inv, p, Nowhere, "automatic")

\* Mutant of ReleasePlacement: the placement of the form is kept.
KeepPlacement(inv, p) == inv

\* releaseConflictingRackPlacement.
ReleasePlacement(inv, p) ==
  IF /\ inv.parts[p].at # Nowhere
     /\ ~Supported(inv, inv.parts[p].at) \/ Occupied(inv, inv.parts[p].at, p)
    THEN Displaced(inv, p) ELSE inv

\* mergeInventoryChanges.  Parts are in the order of the list, those added last.
MergeInventory(base, staged, current) ==
  LET newRacks == {r \in DOMAIN staged.racks \ (DOMAIN base.racks \cup DOMAIN current.racks) :
                     staged.racks[r].code \notin Codes(current)}
      removed == {p \in DOMAIN base.parts \ DOMAIN staged.parts :
                    p \in DOMAIN current.parts /\ current.parts[p] = base.parts[p]}
      edited == {p \in DOMAIN base.parts \cap DOMAIN staged.parts \cap DOMAIN current.parts :
                   staged.parts[p] # base.parts[p]}
      added == DOMAIN staged.parts \ (DOMAIN base.parts \cup DOMAIN current.parts)
      touched == edited \cup added
      merged == [parts |-> [p \in (DOMAIN current.parts \ removed) \cup added |->
                              IF p \in edited
                                THEN MergeItem(base.parts[p], staged.parts[p], current.parts[p], "delta")
                                ELSE IF p \in added THEN staged.parts[p] ELSE current.parts[p]],
                 racks |-> [r \in DOMAIN current.racks \cup newRacks |->
                              IF r \in newRacks THEN staged.racks[r] ELSE current.racks[r]]]
      conflicting == {p \in touched \cap Placed(merged) :
                        \/ merged.parts[p].at[1] \notin DOMAIN merged.racks
                        \/ \E q \in Placed(merged) \ {p} :
                             /\ merged.parts[q].at = merged.parts[p].at
                             /\ q \notin touched \/ q < p}
  IN [merged EXCEPT !.parts = [p \in DOMAIN @ |->
        IF p \in conflicting THEN [@[p] EXCEPT !.mode = "automatic", !.at = Nowhere] ELSE @[p]]]

=============================================================================
