--------------------------- MODULE RackAllocation ---------------------------
(***************************************************************************)
(* Where parts are stored: the classification, allocation and validation   *)
(* of rack slots (src/src/core/racks, src/src/core/history).  Only         *)
(* operators over an inventory, no state.                                  *)
(*                                                                         *)
(* An inventory is [parts, racks]: functions from the identifiers of the   *)
(* parts and racks that exist.  A part is [qty, kind, mode, at]; its kind  *)
(* stands for what classificationText says of it: a component type, no     *)
(* component type ("bulky"), or nothing yet ("placeholder").  A rack is    *)
(* [code, type]: code 0 is an organizer, which has a name instead of a     *)
(* number.  Every rack has Slots slots, in the order of their labels.      *)
(***************************************************************************)
EXTENDS Naturals, FiniteSets, FiniteSetsExt, SequencesExt, Functions

CONSTANTS
  Types,      \* component types that racks hold
  Slots,      \* slots of a rack
  MaxCode     \* bound: the last rack number (INT_MAX in the code)

ASSUME RackAssumption == Slots \in Nat \ {0} /\ MaxCode \in Nat

Nowhere == <<0, 0>>

Kinds == Types \cup {"bulky", "placeholder"}

Placed(inv) == {p \in DOMAIN inv.parts : inv.parts[p].at # Nowhere}

\* rackSupportsSlot and findRack.
Supported(inv, at) == at[1] \in DOMAIN inv.racks /\ at[2] \in 1..Slots

\* slotOccupied: another part is in the slot.
Occupied(inv, at, except) == \E p \in Placed(inv) \ {except} : inv.parts[p].at = at

\* f with value for x.
With(f, x, value) == [y \in DOMAIN f \cup {x} |-> IF y = x THEN value ELSE f[y]]

Put(inv, p, at, mode) ==
  [inv EXCEPT !.parts = With(@, p, [inv.parts[p] EXCEPT !.at = at, !.mode = mode])]

Codes(inv) == {inv.racks[r].code : r \in DOMAIN inv.racks}

\* rackOccupiedSlotCount.
EmptyRack(inv, r) == \A p \in Placed(inv) : inv.parts[p].at[1] # r

\* The free slots of the racks for a type.
FreeSlots(inv, type) ==
  {at \in {r \in DOMAIN inv.racks : inv.racks[r].type = type} \X (1..Slots) :
     ~Occupied(inv, at, 0)}

\* Organizers before numbered racks, those in the order of their numbers; a
\* rack from its first slot on.
Before(inv, a, b) ==
  LET ca == inv.racks[a[1]].code
      cb == inv.racks[b[1]].code
  IN \/ ca < cb
     \/ ca = cb /\ a[1] < b[1]
     \/ ca = cb /\ a[1] = b[1] /\ a[2] <= b[2]

FirstFree(inv, free) == CHOOSE at \in free : \A other \in free : Before(inv, at, other)

NextCode(inv) == Max({0} \cup Codes(inv)) + 1

\* Adds the rack with the next number and identifier id.
WithRack(inv, id, code, type) ==
  [inv EXCEPT !.racks = With(@, id, [code |-> code, type |-> type])]

\* One automatic part; id is that of a rack made for it.
Reconciled(inv, p, id) ==
  LET part == inv.parts[p]
      clear == Put(inv, p, Nowhere, "automatic")
      free == FreeSlots(clear, part.kind)
      code == NextCode(inv)
  IN CASE part.mode # "automatic" -> inv
       [] part.mode = "automatic" /\ part.kind = "placeholder" -> clear
       [] part.mode = "automatic" /\ part.kind = "bulky" -> Put(inv, p, Nowhere, "unassigned")
       [] OTHER ->
            IF Supported(inv, part.at) /\ inv.racks[part.at[1]].type = part.kind
               /\ ~Occupied(inv, part.at, p)
              THEN inv
              ELSE IF free # {} THEN Put(clear, p, FirstFree(clear, free), "manual")
              ELSE IF code > MaxCode THEN clear
              ELSE Put(WithRack(clear, id, code, part.kind), p, <<id, 1>>, "manual")

\* The part p of the list, and the racks made so far.
ReconciledNext(acc, p) ==
  LET next == Reconciled(acc.inv, p, acc.made + 1)
  IN IF p \notin DOMAIN acc.inv.parts THEN acc
     ELSE [inv |-> next, made |-> Max({acc.made} \cup DOMAIN next.racks)]

\* reconcileRackAssignments: all parts, in the order of the list.  made is the
\* number of racks ever made, which are their identifiers.
Reconcile(inv, made) ==
  LET last == Max({0} \cup DOMAIN inv.parts)
      after[p \in 0..last] ==
        IF p = 0 THEN [inv |-> inv, made |-> made] ELSE ReconciledNext(after[p - 1], p)
  IN after[last]

\* validateSnapshotSemantics.
ValidSnapshot(inv) ==
  /\ \A r, s \in DOMAIN inv.racks : inv.racks[r].code = inv.racks[s].code => r = s
  /\ \A p \in Placed(inv) :
       Supported(inv, inv.parts[p].at) /\ ~Occupied(inv, inv.parts[p].at, p)

=============================================================================
