----------------------- MODULE InventoryHistoryProofs -----------------------
(***************************************************************************)
(* For any parts, racks, slots and sessions:                               *)
(*   - while a confirmation of the History page is open the page shows what *)
(*     it was asked for;                                                   *)
(*   - where no form of a new part is used, no sequence of edits, placements, *)
(*     scans, imports, undos and reversals leads to an inventory that the next *)
(*     save refuses;                                                       *)
(*   - where no other save writes an import whose own save failed, stock that *)
(*     scans change meanwhile is kept;                                     *)
(*   - without the History page, and with checkpoints of saved changes only, *)
(*     Ctrl+Z is a stack of the saved inventories.                         *)
(*                                                                         *)
(* The second is an invariant of every inventory that may become the one in *)
(* memory: it, each commit and the one an import would be taken back to is *)
(* sound, and placing automatic parts keeps an inventory sound.  What an   *)
(* import stages need not be, its racks excepted: the merge makes it.  The *)
(* third counts: a review has added its rows to what was there, and an import *)
(* whose save failed has added them to the inventory.  The fourth rests on *)
(* saves changing nothing that is saved already, which makes a standing    *)
(* commit one made over what the standing commit before it left, and on    *)
(* what a save that failed leaves to be repeated.                          *)
(***************************************************************************)
EXTENDS InventoryHistory, FiniteSetTheorems, SequenceTheorems, WellFoundedInduction, TLAPS

Modes == {"automatic", "manual", "unassigned"}
At == {Nowhere} \cup (Nat \X (1..Slots))
PartType == [qty : Int, kind : Kinds, mode : Modes, at : At]
RackType == [code : 0..MaxCode, type : Types \cup {"none"}]
Inventories == [parts : UNION {[D -> PartType] : D \in SUBSET Parts},
                racks : UNION {[D -> RackType] : D \in SUBSET Nat}]

DraftType == [pending : BOOLEAN, checkpoint : BOOLEAN, reverts : Nat]
CommitType == [snapshot : Inventories, checkpoint : BOOLEAN, reverts : Nat, changes : BOOLEAN]

\* Of the racks made so far, with distinct numbers.
Racked(inv, used) ==
  /\ inv \in Inventories /\ DOMAIN inv.racks \subseteq 1..used
  /\ \A r, s \in DOMAIN inv.racks : inv.racks[r].code = inv.racks[s].code => r = s

Sound(inv, used) == Racked(inv, used) /\ ValidSnapshot(inv)

FormTyped ==
  /\ form \in [open : BOOLEAN, part : Parts \cup {0}, isNew : BOOLEAN, original : PartType, edited : PartType]
  /\ form.open => form.part \in Parts /\ ~form.isNew

ImportTyped ==
  /\ import \in [stage : {"none", "review", "pending"}, original : Inventories, staged : Inventories,
                 rows : [Parts -> Nat]]
  /\ Sound(import.original, made) /\ Racked(import.staged, made)
  /\ import.stage = "review" => DOMAIN import.original.parts \subseteq DOMAIN import.staged.parts

SoundHistory ==
  /\ made \in Nat /\ Sound(store, made)
  /\ commits \in Seq(CommitType) /\ shown \in 1..Len(commits)
  /\ \A k \in 1..Len(commits) : Sound(commits[k].snapshot, made)
  /\ draft \in DraftType

IInv == session \in Sessions /\ SoundHistory /\ FormTyped /\ ImportTyped

-----------------------------------------------------------------------------
(* The confirmation of the History page *)

\* What an open confirmation was asked for is what the page shows, and a reversal is
\* possible on the saved inventory.
Asked ==
  /\ confirming \in {"no", "snapshot", "reverse"}
  /\ confirming # "no" =>
       /\ shown = asked
       /\ confirming = "reverse" => Reversible(saved, shown)

\* Whatever is saved closes the confirmation.
LEMMA SaveCloses ==
  ASSUME Asked, NEW inv, NEW used, NEW d, Save(inv, used, d, Stay) \/ Save(inv, used, d, Closed)
  PROVE  Asked'
<1>1. CASE UNCHANGED <<saved, commits, shown>> /\ (Stay \/ Closed)
  BY <1>1 DEF Asked, Stay, Closed, Reversible, StillAsLeft, ReverseTarget
<1>2. CASE confirming' = "no"
  BY <1>2 DEF Asked
<1>3. QED
  BY <1>1, <1>2 DEF Save, Refreshed

LEMMA AskedStep ==
  ASSUME Asked, [Next]_vars
  PROVE  Asked'
<1>1. CASE \/ UNCHANGED <<saved, commits, shown, confirming, asked>>
           \/ confirming' = "no"
  BY <1>1 DEF Asked, Reversible, StillAsLeft, ReverseTarget
<1>2. CASE AskRevert
  <2>1. /\ UNCHANGED <<store, saved, commits, shown>> /\ asked' = shown /\ store = saved
        /\ confirming' \in {"snapshot", "reverse"}
        /\ confirming' = "reverse" => Reversible(store, shown)
    BY <1>2 DEF AskRevert, UnsavedChanges
  <2>2. QED
    BY <2>1 DEF Asked, Reversible, StillAsLeft, ReverseTarget
<1>3. CASE \E p \in Parts : AddPart(p) \/ DeletePart(p) \/ AdjustQuantity(p) \/ Enrich(p)
  BY <1>3, SaveCloses DEF AddPart, DeletePart, AdjustQuantity, Enrich, SavePart, SaveEdit
<1>4. CASE \E p \in Parts : Scan(p) \/ Receive(p)
  <2>1. \A inv, used : Scanned(inv, used) => confirming' = "no"
    BY DEF Scanned, Refreshed
  <2>2. \E inv, used : Scanned(inv, used)
    BY <1>4 DEF Scan, Receive
  <2>3. QED
    BY <1>1, <2>1, <2>2
<1>5. CASE \E p \in Parts : MovePart(p) \/ UnassignPart(p)
  BY <1>5, SaveCloses DEF MovePart, UnassignPart, SavePart, SaveEdit
<1>6. CASE \/ \E p \in Parts : OpenForm(p) \/ AcceptRow(p)
           \/ EditField \/ CloseForm \/ BeginImport \/ CancelImport \/ ArmRackDeletion \/ SelectCommit
  BY <1>1, <1>6 DEF OpenForm, AcceptRow, EditField, CloseForm, BeginImport, CancelImport,
                    ArmRackDeletion, SelectCommit, pages
<1>7. CASE SaveForm \/ CommitImport \/ RetryImport \/ RetrySave
  BY <1>7, SaveCloses DEF SaveForm, CommitImport, RetryImport, RetrySave, SavePart
<1>8. CASE CreateRack \/ ChangeRack
  BY <1>8, SaveCloses DEF CreateRack, ChangeRack, SaveEdit
<1>9. CASE ConfirmRackDeletion
  <2>1. CASE armed \in DOMAIN store.racks /\ EmptyRack(store, armed)
    BY <1>9, <2>1, SaveCloses DEF ConfirmRackDeletion, SaveEdit
  <2>2. CASE ~(armed \in DOMAIN store.racks /\ EmptyRack(store, armed))
    BY <1>1, <1>9, <2>2 DEF ConfirmRackDeletion
  <2>3. QED
    BY <2>1, <2>2
<1>10. CASE UndoLast \/ Checkpoint
  BY <1>10, SaveCloses DEF UndoLast, Checkpoint
<1>11. CASE ConfirmRevert
  <2>1. confirming' = "no" \/ \E inv, used, d : Save(inv, used, d, Closed)
    BY <1>11 DEF ConfirmRevert, Closed
  <2>2. QED
    BY <1>1, <2>1, SaveCloses
<1>12. CASE UNCHANGED vars
  BY <1>1, <1>12 DEF vars, pages
<1>13. QED
  BY <1>2, <1>3, <1>4, <1>5, <1>6, <1>7, <1>8, <1>9, <1>10, <1>11, <1>12 DEF Next

\* While the History page asks for a confirmation it shows the commit it asked for, and
\* what was asked can still be done unless something is unsaved, whatever scans and
\* vendor answers saved in between (App::refreshInventoryCommits).
THEOREM ConfirmationHolds == Spec => []ConfirmedIsShown
<1>1. Init => Asked
  BY DEF Init, Asked
<1>2. Asked /\ [Next]_vars => Asked'
  BY AskedStep
<1>3. Asked => ConfirmedIsShown
  BY DEF Asked, ConfirmedIsShown, UnsavedChanges
<1>4. QED
  BY <1>1, <1>2, <1>3, PTL DEF Spec

-----------------------------------------------------------------------------
(* Numbers *)

LEMMA Least ==
  ASSUME NEW S \in SUBSET Nat, S # {}
  PROVE  \E n \in S : \A m \in S : n <= m
<1>1. IsWellFoundedOn(OpToRel(<, Nat), Nat)
  BY NatLessThanWellFounded
<1>2. PICK n \in S : \A m \in S : ~(<<m, n>> \in OpToRel(<, Nat))
  BY <1>1, WFMin, Zenon
<1>3. ASSUME NEW m \in S PROVE n <= m
  <2>1. ~(<<m, n>> \in {ss \in Nat \X Nat : ss[1] < ss[2]})
    BY <1>2 DEF OpToRel
  <2>2. m \in Nat /\ n \in Nat
    OBVIOUS
  <2>3. QED
    BY <2>1, <2>2
<1>4. QED
  BY <1>3

LEMMA Greatest ==
  ASSUME NEW S \in SUBSET Nat, S # {}, NEW bound \in Nat, \A n \in S : n <= bound
  PROVE  Max(S) \in S /\ \A n \in S : n <= Max(S)
<1> DEFINE Above == {b \in Nat : \A n \in S : n <= b}
<1>1. PICK b \in Above : \A c \in Above : b <= c
  BY Least
<1>2. b \in S
  <2>1. SUFFICES ASSUME b \notin S PROVE FALSE
    OBVIOUS
  <2>2. \A n \in S : n < b
    BY <1>1, <2>1
  <2>3. b - 1 \in Nat /\ \A n \in S : n <= b - 1
    <3>1. PICK n \in S : TRUE
      OBVIOUS
    <3>2. n \in Nat /\ b \in Nat /\ n < b
      BY <2>2, <3>1
    <3>3. QED
      BY <2>2, <3>2
  <2>4. QED
    BY <1>1, <2>3
<1>3. \E x \in S : \A y \in S : x >= y
  BY <1>1, <1>2
<1>4. Max(S) \in S /\ \A y \in S : Max(S) >= y
  BY <1>3 DEF Max
<1>5. QED
  BY <1>4

LEMMA FiniteBounded ==
  ASSUME NEW S \in SUBSET Nat, IsFiniteSet(S)
  PROVE  \E bound \in Nat : \A n \in S : n <= bound
<1> DEFINE Unbounded(T) == \A bound \in Nat : \E n \in T : n > bound
           Sizes == {k \in Nat : \E T \in SUBSET S : Cardinality(T) = k /\ Unbounded(T)}
<1>1. SUFFICES ASSUME Unbounded(S) PROVE FALSE
  OBVIOUS
<1>2. Cardinality(S) \in Sizes
  BY <1>1, FS_CardinalityType
<1>3. PICK k \in Sizes : \A other \in Sizes : k <= other
  BY <1>2, Least
<1>4. PICK T \in SUBSET S : Cardinality(T) = k /\ Unbounded(T)
  BY <1>3
<1>5. PICK x \in T : x > 0
  BY <1>4
<1>6. IsFiniteSet(T) /\ IsFiniteSet(T \ {x}) /\ Cardinality(T \ {x}) = k - 1 /\ k - 1 \in Nat
  <2>1. IsFiniteSet(T)
    BY FS_Subset
  <2>2. IsFiniteSet(T \ {x}) /\ Cardinality(T \ {x}) = Cardinality(T) - 1
    BY <1>5, <2>1, FS_RemoveElement
  <2>3. Cardinality(T \ {x}) \in Nat
    BY <2>2, FS_CardinalityType
  <2>4. QED
    BY <1>4, <2>1, <2>2, <2>3
<1>7. k - 1 \notin Sizes
  BY <1>3
<1>8. PICK bound \in Nat : \A n \in T \ {x} : n <= bound
  <2>1. T \ {x} \in SUBSET S /\ ~Unbounded(T \ {x})
    BY <1>6, <1>7
  <2>2. PICK b \in Nat : \A n \in T \ {x} : ~(n > b)
    BY <2>1
  <2>3. \A n \in T \ {x} : n <= b
    BY <2>2
  <2>4. QED
    BY <2>3
<1>9. ASSUME NEW n \in T PROVE n <= bound + x
  <2>1. n \in Nat /\ x \in Nat /\ (n = x \/ n <= bound)
    BY <1>5, <1>8
  <2>2. QED
    BY <2>1
<1>10. QED
  BY <1>4, <1>5, <1>8, <1>9

-----------------------------------------------------------------------------
(* Placing a part *)

\* The order of the slots has a first one.
LEMMA FirstIsFree ==
  ASSUME NEW inv, DOMAIN inv.racks \subseteq Nat, \A r \in DOMAIN inv.racks : inv.racks[r].code \in Nat,
         NEW free \in SUBSET ((DOMAIN inv.racks) \X (1..Slots)), free # {}
  PROVE  FirstFree(inv, free) \in free
<1> DEFINE code(at) == inv.racks[at[1]].code
           codes == {c \in Nat : \E at \in free : code(at) = c}
<1>1. \A at \in free : code(at) \in Nat /\ at[1] \in Nat /\ at[2] \in Nat /\ at = <<at[1], at[2]>>
  BY RackAssumption
<1>2. PICK c \in codes : \A d \in codes : c <= d
  <2>1. codes # {}
    BY <1>1
  <2>2. QED
    BY <2>1, Least
<1> DEFINE racks == {r \in Nat : \E at \in free : code(at) = c /\ at[1] = r}
<1>3. PICK r \in racks : \A s \in racks : r <= s
  <2>1. racks # {}
    BY <1>1, <1>2
  <2>2. QED
    BY <2>1, Least
<1> DEFINE slots == {n \in Nat : \E at \in free : code(at) = c /\ at[1] = r /\ at[2] = n}
<1>4. PICK n \in slots : \A m \in slots : n <= m
  <2>1. slots # {}
    BY <1>1, <1>3
  <2>2. QED
    BY <2>1, Least
<1>5. PICK at \in free : code(at) = c /\ at[1] = r /\ at[2] = n
  BY <1>4
<1>6. ASSUME NEW other \in free PROVE Before(inv, at, other)
  <2>1. code(other) \in codes /\ c <= code(other)
    BY <1>1, <1>2
  <2>2. code(other) = c => r <= other[1]
    BY <1>1, <1>3
  <2>3. code(other) = c /\ other[1] = r => n <= other[2]
    BY <1>1, <1>4
  <2>4. QED
    BY <1>1, <1>5, <2>1, <2>2, <2>3 DEF Before
<1>7. QED
  BY <1>5, <1>6 DEF FirstFree

\* A part's place, or the part itself, is another one.
LEMMA PartPut ==
  ASSUME NEW inv \in Inventories, NEW p \in DOMAIN inv.parts, NEW at \in At, NEW mode \in Modes
  PROVE  LET next == Put(inv, p, at, mode)
         IN  /\ next \in Inventories /\ next.racks = inv.racks /\ DOMAIN next.parts = DOMAIN inv.parts
             /\ next.parts[p].at = at /\ next.parts[p].mode = mode
             /\ next.parts[p].qty = inv.parts[p].qty /\ next.parts[p].kind = inv.parts[p].kind
             /\ \A q \in DOMAIN inv.parts \ {p} : next.parts[q] = inv.parts[q]
<1> DEFINE part == [inv.parts[p] EXCEPT !.at = at, !.mode = mode]
           parts == With(inv.parts, p, part)
<1>1. PICK D \in SUBSET Parts : inv.parts \in [D -> PartType]
  BY DEF Inventories
<1>2. /\ part \in PartType /\ part.at = at /\ part.mode = mode
      /\ part.qty = inv.parts[p].qty /\ part.kind = inv.parts[p].kind
  BY <1>1 DEF PartType
<1>3. Put(inv, p, at, mode) = [inv EXCEPT !.parts = parts]
  BY DEF Put
<1> HIDE DEF part
<1>4. /\ parts \in [D -> PartType] /\ DOMAIN parts = DOMAIN inv.parts /\ parts[p] = part
      /\ \A q \in DOMAIN inv.parts \ {p} : parts[q] = inv.parts[q]
  BY <1>1, <1>2 DEF With
<1> HIDE DEF parts
<1>5. /\ [inv EXCEPT !.parts = parts] \in Inventories
      /\ [inv EXCEPT !.parts = parts].parts = parts /\ [inv EXCEPT !.parts = parts].racks = inv.racks
  BY <1>1, <1>4 DEF Inventories
<1>6. QED
  BY <1>2, <1>3, <1>4, <1>5

LEMMA InventoryTyped ==
  ASSUME NEW inv \in Inventories
  PROVE  /\ DOMAIN inv.parts \subseteq Parts /\ DOMAIN inv.parts \subseteq Nat \ {0}
         /\ \A p \in DOMAIN inv.parts : inv.parts[p] \in PartType
         /\ \A p \in DOMAIN inv.parts : inv.parts[p].at \in At
         /\ DOMAIN inv.racks \subseteq Nat
         /\ \A r \in DOMAIN inv.racks : inv.racks[r].code \in 0..MaxCode
         /\ Codes(inv) \subseteq Nat /\ \A code \in Codes(inv) : code <= MaxCode
<1>1. PICK D \in SUBSET Parts : inv.parts \in [D -> PartType]
  BY DEF Inventories
<1>2. PICK E \in SUBSET Nat : inv.racks \in [E -> RackType]
  BY DEF Inventories
<1>3. \A p \in DOMAIN inv.parts : inv.parts[p] \in PartType /\ inv.parts[p].at \in At
  BY <1>1 DEF PartType
<1>4. \A r \in DOMAIN inv.racks : inv.racks[r].code \in 0..MaxCode
  BY <1>2 DEF RackType
<1>5. ASSUME NEW code \in Codes(inv) PROVE code \in 0..MaxCode
  <2>1. PICK r \in DOMAIN inv.racks : code = inv.racks[r].code
    BY DEF Codes
  <2>2. QED
    BY <1>4, <2>1
<1>6. Codes(inv) \subseteq Nat /\ \A code \in Codes(inv) : code <= MaxCode
  BY <1>5, RackAssumption
<1>7. DOMAIN inv.parts \subseteq Nat \ {0}
  BY <1>1, HistoryAssumption
<1>8. QED
  BY <1>1, <1>2, <1>3, <1>4, <1>6, <1>7

LEMMA RackedMore ==
  ASSUME NEW n \in Nat, NEW m \in Nat, n <= m, NEW inv, Racked(inv, n)
  PROVE  Racked(inv, m)
BY DEF Racked

\* A number that no rack has.
LEMMA NextCodeFresh ==
  ASSUME NEW inv \in Inventories
  PROVE  NextCode(inv) \in Nat \ {0} /\ NextCode(inv) \notin Codes(inv)
<1> DEFINE S == {0} \cup Codes(inv)
<1>1. S \in SUBSET Nat /\ S # {} /\ MaxCode \in Nat /\ \A n \in S : n <= MaxCode
  BY InventoryTyped, RackAssumption
<1> HIDE DEF S
<1>2. Max(S) \in S /\ \A n \in S : n <= Max(S)
  BY <1>1, Greatest
<1>3. NextCode(inv) = Max(S) + 1
  BY DEF NextCode, S
<1>4. Max(S) \in Nat
  BY <1>1, <1>2
<1>5. Codes(inv) \subseteq S
  BY DEF S
<1>6. QED
  BY <1>2, <1>3, <1>4, <1>5

\* All but the place of one part.
ValidBeside(inv, p) ==
  /\ \A r, s \in DOMAIN inv.racks : inv.racks[r].code = inv.racks[s].code => r = s
  /\ \A q \in Placed(inv) \ {p} : /\ Supported(inv, inv.parts[q].at)
                                 /\ \A o \in Placed(inv) \ {p, q} : inv.parts[o].at # inv.parts[q].at

LEMMA ValidSplit ==
  ASSUME NEW inv, NEW p
  PROVE  /\ ValidSnapshot(inv) => ValidBeside(inv, p)
         /\ /\ ValidBeside(inv, p)
            /\ p \in Placed(inv) => Supported(inv, inv.parts[p].at) /\ ~Occupied(inv, inv.parts[p].at, p)
            => ValidSnapshot(inv)
<1>1. ASSUME ValidSnapshot(inv) PROVE ValidBeside(inv, p)
  BY <1>1 DEF ValidSnapshot, ValidBeside, Occupied
<1>2. ASSUME ValidBeside(inv, p), NEW q \in Placed(inv),
             p \in Placed(inv) => Supported(inv, inv.parts[p].at) /\ ~Occupied(inv, inv.parts[p].at, p)
      PROVE  Supported(inv, inv.parts[q].at) /\ ~Occupied(inv, inv.parts[q].at, q)
  <2>1. CASE q = p
    BY <1>2, <2>1
  <2>2. CASE q # p
    BY <1>2, <2>2 DEF ValidBeside, Occupied
  <2>3. QED
    BY <2>1, <2>2
<1>3. QED
  BY <1>1, <1>2 DEF ValidSnapshot, ValidBeside

\* A place is taken out, or given to a part where no other has it.
LEMMA PutValid ==
  ASSUME NEW inv \in Inventories, NEW p \in DOMAIN inv.parts, NEW at \in At, NEW mode \in Modes,
         ValidBeside(inv, p), at = Nowhere \/ (Supported(inv, at) /\ ~Occupied(inv, at, p))
  PROVE  ValidSnapshot(Put(inv, p, at, mode))
<1> DEFINE next == Put(inv, p, at, mode)
<1>1. /\ next.racks = inv.racks /\ DOMAIN next.parts = DOMAIN inv.parts /\ next.parts[p].at = at
      /\ \A q \in DOMAIN inv.parts \ {p} : next.parts[q] = inv.parts[q]
  BY PartPut
<1> HIDE DEF next
<1>2. \A q \in Placed(next) \ {p} : q \in Placed(inv) /\ next.parts[q].at = inv.parts[q].at
  BY <1>1 DEF Placed
<1>3. ValidBeside(next, p)
  BY <1>1, <1>2 DEF ValidBeside, Supported
<1>4. p \in Placed(next) => Supported(next, at) /\ ~Occupied(next, at, p)
  BY <1>1, <1>2 DEF Placed, Supported, Occupied
<1>5. ValidSnapshot(next)
  BY <1>1, <1>3, <1>4, ValidSplit
<1>6. QED
  BY <1>5 DEF next

\* A rack with a number of its own.
LEMMA RackAdded ==
  ASSUME NEW n \in Nat, NEW inv, Racked(inv, n), NEW code \in 0..MaxCode, code \notin Codes(inv),
         NEW type \in Types \cup {"none"}
  PROVE  LET next == WithRack(inv, n + 1, code, type)
         IN  /\ Racked(next, n + 1) /\ next.parts = inv.parts
             /\ DOMAIN next.racks = DOMAIN inv.racks \cup {n + 1}
             /\ ValidSnapshot(inv) => ValidSnapshot(next)
<1> DEFINE rack == [code |-> code, type |-> type]
           racks == With(inv.racks, n + 1, rack)
           next == [inv EXCEPT !.racks = racks]
<1>1. WithRack(inv, n + 1, code, type) = next
  BY DEF WithRack
<1>2. inv \in Inventories /\ DOMAIN inv.racks \subseteq 1..n
      /\ \A r, s \in DOMAIN inv.racks : inv.racks[r].code = inv.racks[s].code => r = s
  BY DEF Racked
<1>3. PICK E \in SUBSET Nat : inv.racks \in [E -> RackType]
  BY <1>2 DEF Inventories
<1>4. /\ DOMAIN racks = DOMAIN inv.racks \cup {n + 1} /\ racks[n + 1] = rack
      /\ \A r \in DOMAIN inv.racks : racks[r] = inv.racks[r]
  <2>1. n + 1 \notin DOMAIN inv.racks
    BY <1>2
  <2>2. QED
    BY <2>1 DEF With
<1>5. rack \in RackType /\ racks = [r \in DOMAIN racks |-> racks[r]]
  BY DEF RackType, With
<1>6. rack.code = code
  OBVIOUS
<1> HIDE DEF racks, rack
<1>7. racks \in [E \cup {n + 1} -> RackType] /\ E \cup {n + 1} \in SUBSET Nat
  <2>1. DOMAIN racks = E \cup {n + 1} /\ \A r \in E \cup {n + 1} : racks[r] \in RackType
    BY <1>3, <1>4, <1>5
  <2>2. QED
    BY <1>5, <2>1
<1>8. next \in Inventories /\ next.parts = inv.parts /\ next.racks = racks
  BY <1>2, <1>7 DEF Inventories
<1>9. \A r \in DOMAIN inv.racks : inv.racks[r].code # code
  BY DEF Codes
<1>10. Racked(next, n + 1)
  <2>1. DOMAIN next.racks \subseteq 1..(n + 1)
    BY <1>2, <1>4, <1>8
  <2>2. \A r, s \in DOMAIN next.racks : next.racks[r].code = next.racks[s].code => r = s
    BY <1>2, <1>4, <1>6, <1>8, <1>9
  <2>3. QED
    BY <1>8, <2>1, <2>2 DEF Racked
<1> HIDE DEF next
<1>11. ASSUME ValidSnapshot(inv) PROVE ValidSnapshot(next)
  <2>1. Placed(next) = Placed(inv) /\ \A at, q : Occupied(next, at, q) <=> Occupied(inv, at, q)
    BY <1>8 DEF Placed, Occupied
  <2>2. \A at : Supported(inv, at) => Supported(next, at)
    BY <1>4, <1>8 DEF Supported
  <2>3. QED
    BY <1>8, <1>10, <1>11, <2>1, <2>2 DEF ValidSnapshot, Racked
<1>12. QED
  BY <1>1, <1>4, <1>8, <1>10, <1>11

\* Placing an automatic part keeps an inventory sound; racks are only added, each by a
\* number of its own.
LEMMA PartPlaced ==
  ASSUME NEW n \in Nat, NEW inv, Racked(inv, n), NEW p \in DOMAIN inv.parts
  PROVE  LET next == Reconciled(inv, p, n + 1)
             used == Max({n} \cup DOMAIN next.racks)
         IN  /\ used \in Nat /\ n <= used /\ Racked(next, used)
             /\ DOMAIN next.parts = DOMAIN inv.parts
             /\ ValidBeside(inv, p) /\ (inv.parts[p].mode # "automatic" => ValidSnapshot(inv))
                  => ValidSnapshot(next)
<1> DEFINE next == Reconciled(inv, p, n + 1)
           part == inv.parts[p]
           clear == Put(inv, p, Nowhere, "automatic")
           free == FreeSlots(clear, part.kind)
           code == NextCode(inv)
           Good(x, m) == /\ Racked(x, m) /\ DOMAIN x.parts = DOMAIN inv.parts
                         /\ ValidBeside(inv, p) /\ (inv.parts[p].mode # "automatic" => ValidSnapshot(inv))
                              => ValidSnapshot(x)
           Kept(x) == Good(x, n) /\ x.racks = inv.racks
           Grown(x) == Good(x, n + 1) /\ DOMAIN x.racks = DOMAIN inv.racks \cup {n + 1}
<1>1. inv \in Inventories /\ DOMAIN inv.racks \subseteq 1..n
      /\ \A r, s \in DOMAIN inv.racks : inv.racks[r].code = inv.racks[s].code => r = s
  BY DEF Racked
<1>2. /\ part \in PartType /\ part.at \in At /\ part.kind \in Kinds /\ part.mode \in Modes
      /\ Nowhere \in At /\ "automatic" \in Modes /\ "unassigned" \in Modes /\ "manual" \in Modes
  BY <1>1, InventoryTyped DEF PartType, At, Modes
<1> HIDE DEF Good, part, code, next
<1>3. \A at \in At, mode \in Modes :
        at = Nowhere \/ (Supported(inv, at) /\ ~Occupied(inv, at, p))
        => Kept(Put(inv, p, at, mode)) /\ (ValidBeside(inv, p) => ValidSnapshot(Put(inv, p, at, mode)))
  <2> SUFFICES ASSUME NEW at \in At, NEW mode \in Modes,
                      at = Nowhere \/ (Supported(inv, at) /\ ~Occupied(inv, at, p))
               PROVE  Kept(Put(inv, p, at, mode))
                      /\ (ValidBeside(inv, p) => ValidSnapshot(Put(inv, p, at, mode)))
    OBVIOUS
  <2>1. ValidBeside(inv, p) => ValidSnapshot(Put(inv, p, at, mode))
    BY <1>1, PutValid
  <2>2. Put(inv, p, at, mode) \in Inventories /\ Put(inv, p, at, mode).racks = inv.racks
        /\ DOMAIN Put(inv, p, at, mode).parts = DOMAIN inv.parts
    BY <1>1, PartPut
  <2>3. QED
    BY <1>1, <2>1, <2>2 DEF Racked, Good
<1>4. /\ Kept(clear) /\ (ValidBeside(inv, p) => ValidSnapshot(clear)) /\ clear \in Inventories
      /\ clear.racks = inv.racks /\ DOMAIN clear.parts = DOMAIN inv.parts /\ clear.parts[p].at = Nowhere
      /\ \A q \in DOMAIN inv.parts \ {p} : clear.parts[q] = inv.parts[q]
  <2>1. Kept(clear) /\ (ValidBeside(inv, p) => ValidSnapshot(clear))
    BY <1>2, <1>3
  <2>2. /\ clear \in Inventories /\ clear.racks = inv.racks /\ DOMAIN clear.parts = DOMAIN inv.parts
        /\ clear.parts[p].at = Nowhere
        /\ \A q \in DOMAIN inv.parts \ {p} : clear.parts[q] = inv.parts[q]
    BY <1>1, <1>2, PartPut
  <2>3. QED
    BY <2>1, <2>2
<1> HIDE DEF clear
<1>5. Kept(next) \/ Grown(next)
  <2>1. CASE part.mode # "automatic"
    <3>1. next = inv
      BY <2>1 DEF next, Reconciled, part
    <3>2. Kept(inv)
      BY <2>1 DEF Good, part
    <3>3. QED
      BY <3>1, <3>2
  <2>2. CASE part.mode = "automatic" /\ part.kind = "placeholder"
    <3>1. next = clear
      BY <2>2 DEF next, Reconciled, part, clear
    <3>2. QED
      BY <1>4, <3>1
  <2>3. CASE part.mode = "automatic" /\ part.kind # "placeholder" /\ part.kind = "bulky"
    <3>1. next = Put(inv, p, Nowhere, "unassigned")
      BY <2>3 DEF next, Reconciled, part
    <3>2. QED
      BY <1>2, <1>3, <3>1
  <2>4. CASE part.mode = "automatic" /\ part.kind # "placeholder" /\ part.kind # "bulky"
    <3>1. next = IF Supported(inv, part.at) /\ inv.racks[part.at[1]].type = part.kind
                    /\ ~Occupied(inv, part.at, p)
                   THEN inv
                   ELSE IF free # {} THEN Put(clear, p, FirstFree(clear, free), "manual")
                   ELSE IF code > MaxCode THEN clear
                   ELSE Put(WithRack(clear, n + 1, code, part.kind), p, <<n + 1, 1>>, "manual")
      BY <2>4 DEF next, Reconciled, part, clear, code
    <3>2. CASE next = inv /\ Supported(inv, part.at) /\ ~Occupied(inv, part.at, p)
      <4>1. ValidBeside(inv, p) => ValidSnapshot(inv)
        BY <3>2, ValidSplit DEF part
      <4>2. Kept(inv)
        BY <4>1 DEF Good
      <4>3. QED
        BY <3>2, <4>2
    <3>3. CASE free # {} /\ next = Put(clear, p, FirstFree(clear, free), "manual")
      <4> DEFINE at == FirstFree(clear, free)
      <4>1. free \in SUBSET ((DOMAIN clear.racks) \X (1..Slots))
        BY DEF FreeSlots
      <4>2. DOMAIN clear.racks \subseteq Nat /\ \A r \in DOMAIN clear.racks : clear.racks[r].code \in Nat
        BY <1>1, <1>4, InventoryTyped, RackAssumption
      <4>3. at \in free
        BY <3>3, <4>1, <4>2, FirstIsFree
      <4>4. Supported(clear, at) /\ ~Occupied(clear, at, p) /\ at \in At
        <5>1. at \in (DOMAIN clear.racks) \X (1..Slots) /\ ~Occupied(clear, at, 0)
          BY <4>1, <4>3 DEF FreeSlots
        <5>2. at[1] \in DOMAIN clear.racks /\ at[2] \in 1..Slots /\ at \in Nat \X (1..Slots)
          BY <4>2, <5>1
        <5>3. ~Occupied(clear, at, p)
          <6>1. 0 \notin Placed(clear)
            BY <1>4, InventoryTyped DEF Placed
          <6>2. QED
            BY <5>1, <6>1 DEF Occupied
        <5>4. QED
          BY <5>2, <5>3 DEF Supported, At
      <4> HIDE DEF at
      <4>5. /\ Put(clear, p, at, "manual") \in Inventories
            /\ Put(clear, p, at, "manual").racks = inv.racks
            /\ DOMAIN Put(clear, p, at, "manual").parts = DOMAIN inv.parts
        BY <1>2, <1>4, <4>4, PartPut
      <4>6. ValidBeside(inv, p) => ValidSnapshot(Put(clear, p, at, "manual"))
        BY <1>2, <1>4, <4>4, PutValid, ValidSplit
      <4>7. Kept(Put(clear, p, at, "manual"))
        BY <1>1, <4>5, <4>6 DEF Good, Racked
      <4>8. QED
        BY <3>3, <4>7 DEF at
    <3>4. CASE next = clear
      BY <1>4, <3>4
    <3>5. CASE ~(code > MaxCode) /\ next = Put(WithRack(clear, n + 1, code, part.kind), p, <<n + 1, 1>>, "manual")
      <4> DEFINE grown == WithRack(clear, n + 1, code, part.kind)
      <4>1. code \in 0..MaxCode /\ code \notin Codes(clear) /\ part.kind \in Types \cup {"none"}
        <5>1. code \in Nat \ {0} /\ code \notin Codes(inv)
          BY <1>1, NextCodeFresh DEF code
        <5>2. Codes(clear) = Codes(inv)
          BY <1>4 DEF Codes
        <5>3. part.kind \in Types
          BY <1>2, <2>4 DEF Kinds
        <5>4. QED
          BY <3>5, <5>1, <5>2, <5>3, RackAssumption
      <4>2. Racked(clear, n)
        BY <1>4 DEF Good
      <4>3. /\ Racked(grown, n + 1) /\ grown.parts = clear.parts
            /\ DOMAIN grown.racks = DOMAIN inv.racks \cup {n + 1}
            /\ ValidSnapshot(clear) => ValidSnapshot(grown)
        <5>1. /\ Racked(grown, n + 1) /\ grown.parts = clear.parts
              /\ DOMAIN grown.racks = DOMAIN clear.racks \cup {n + 1}
              /\ ValidSnapshot(clear) => ValidSnapshot(grown)
          BY <4>1, <4>2, RackAdded
        <5>2. QED
          BY <1>4, <5>1
      <4> HIDE DEF grown
      <4>4. grown \in Inventories /\ p \in DOMAIN grown.parts /\ <<n + 1, 1>> \in At
        BY <1>4, <4>3, RackAssumption DEF Racked, At
      <4>5. Supported(grown, <<n + 1, 1>>)
        BY <4>3, RackAssumption DEF Supported
      <4>6. ValidSnapshot(clear) => ~Occupied(grown, <<n + 1, 1>>, p)
        <5>1. SUFFICES ASSUME ValidSnapshot(clear), NEW q \in Placed(grown) \ {p},
                              grown.parts[q].at = <<n + 1, 1>>
                       PROVE  FALSE
          BY DEF Occupied
        <5>2. q \in Placed(clear) /\ clear.parts[q].at = <<n + 1, 1>>
          BY <4>3, <5>1 DEF Placed
        <5>3. n + 1 \in DOMAIN inv.racks
          BY <1>4, <5>1, <5>2 DEF ValidSnapshot, Supported
        <5>4. QED
          BY <1>1, <5>3
      <4>7. /\ Put(grown, p, <<n + 1, 1>>, "manual") \in Inventories
            /\ Put(grown, p, <<n + 1, 1>>, "manual").racks = grown.racks
            /\ DOMAIN Put(grown, p, <<n + 1, 1>>, "manual").parts = DOMAIN inv.parts
        BY <1>2, <1>4, <4>3, <4>4, PartPut
      <4>8. ValidBeside(inv, p) => ValidSnapshot(Put(grown, p, <<n + 1, 1>>, "manual"))
        BY <1>2, <1>4, <4>3, <4>4, <4>5, <4>6, PutValid, ValidSplit
      <4>9. Grown(Put(grown, p, <<n + 1, 1>>, "manual"))
        BY <4>3, <4>7, <4>8 DEF Good, Racked
      <4>10. QED
        BY <3>5, <4>9 DEF grown
    <3>6. QED
      BY <3>1, <3>2, <3>3, <3>4, <3>5
  <2>5. QED
    BY <2>1, <2>2, <2>3, <2>4
<1>6. CASE Kept(next)
  <2>1. DOMAIN next.racks \subseteq 1..n
    BY <1>1, <1>6
  <2>2. Max({n} \cup DOMAIN next.racks) = n
    <3>1. {n} \cup DOMAIN next.racks \in SUBSET Nat /\ \A m \in {n} \cup DOMAIN next.racks : m <= n
      BY <2>1
    <3>2. QED
      BY <3>1, Greatest
  <2>3. QED
    BY <1>6, <2>2 DEF Good, next, part
<1>7. CASE Grown(next)
  <2>1. DOMAIN next.racks \subseteq 1..(n + 1) /\ n + 1 \in DOMAIN next.racks
    BY <1>1, <1>7
  <2>2. Max({n} \cup DOMAIN next.racks) = n + 1
    <3>1. {n} \cup DOMAIN next.racks \in SUBSET Nat /\ \A m \in {n} \cup DOMAIN next.racks : m <= n + 1
      BY <2>1
    <3>2. QED
      BY <2>1, <3>1, Greatest
  <2>3. QED
    BY <1>7, <2>2 DEF Good, next, part
<1>8. QED
  BY <1>5, <1>6, <1>7

\* The last part in the order of the list.
LEMMA LastPart ==
  ASSUME NEW inv, DOMAIN inv.parts \subseteq Parts
  PROVE  LET last == Max({0} \cup DOMAIN inv.parts)
         IN  last \in Nat /\ \A p \in DOMAIN inv.parts : p \in 1..last
<1> DEFINE S == {0} \cup DOMAIN inv.parts
<1>1. DOMAIN inv.parts \subseteq Parts /\ DOMAIN inv.parts \subseteq Nat \ {0}
  BY HistoryAssumption
<1>2. S \in SUBSET Nat /\ IsFiniteSet(S)
  <2>1. IsFiniteSet(DOMAIN inv.parts)
    BY <1>1, HistoryAssumption, FS_Subset
  <2>2. QED
    BY <1>1, <2>1, FS_AddElement
<1>3. S # {} /\ DOMAIN inv.parts \subseteq S
  OBVIOUS
<1> HIDE DEF S
<1>4. PICK bound \in Nat : \A n \in S : n <= bound
  BY <1>2, FiniteBounded
<1>5. Max(S) \in S /\ \A n \in S : n <= Max(S)
  BY <1>2, <1>3, <1>4, Greatest
<1>6. Max(S) \in Nat
  BY <1>2, <1>5
<1>7. ASSUME NEW p \in DOMAIN inv.parts PROVE p \in 1..Max(S)
  <2>1. p \in Nat \ {0} /\ p <= Max(S)
    BY <1>1, <1>3, <1>5
  <2>2. QED
    BY <1>6, <2>1
<1>8. QED
  BY <1>6, <1>7 DEF S

\* f is the function that Reconcile defines by recursion: what is placed up to a part.
Places(f, inv, n, last) ==
  f = [p \in 0..last |-> IF p = 0 THEN [inv |-> inv, made |-> n] ELSE ReconciledNext(f[p - 1], p)]

LEMMA PlacesExist ==
  ASSUME NEW inv, NEW n, NEW last \in Nat
  PROVE  \E f : Places(f, inv, n, last)
<1> DEFINE Bad == {m \in Nat : ~ \E f : Places(f, inv, n, m)}
<1>1. SUFFICES Bad = {}
  OBVIOUS
<1>2. SUFFICES ASSUME Bad # {} PROVE FALSE
  OBVIOUS
<1>3. PICK m \in Bad : \A other \in Bad : m <= other
  BY <1>2, Least
<1>4. m # 0
  <2> DEFINE f == [p \in 0..0 |-> [inv |-> inv, made |-> n]]
  <2>1. f = [p \in 0..0 |-> IF p = 0 THEN [inv |-> inv, made |-> n] ELSE ReconciledNext(f[p - 1], p)]
    OBVIOUS
  <2>2. Places(f, inv, n, 0)
    BY <2>1 DEF Places
  <2>3. QED
    BY <1>3, <2>2
<1>5. m \in Nat /\ m - 1 \in Nat /\ m - 1 \notin Bad
  BY <1>3, <1>4
<1>6. PICK g : Places(g, inv, n, m - 1)
  BY <1>5
<1> DEFINE f == [p \in 0..m |-> IF p = m THEN ReconciledNext(g[m - 1], m) ELSE g[p]]
<1>7. ASSUME NEW p \in 0..m
      PROVE  f[p] = IF p = 0 THEN [inv |-> inv, made |-> n] ELSE ReconciledNext(f[p - 1], p)
  <2>1. CASE p = m
    BY <1>4, <1>5, <2>1
  <2>2. CASE p # m
    <3>1. p \in 0..(m - 1) /\ f[p] = g[p] /\ (p # 0 => p - 1 \in 0..m /\ p - 1 # m)
      BY <1>5, <2>2
    <3>2. p # 0 => f[p - 1] = g[p - 1]
      BY <3>1
    <3>3. g[p] = IF p = 0 THEN [inv |-> inv, made |-> n] ELSE ReconciledNext(g[p - 1], p)
      BY <1>6, <3>1 DEF Places
    <3>4. QED
      BY <3>1, <3>2, <3>3
  <2>3. QED
    BY <2>1, <2>2
<1>8. Places(f, inv, n, m)
  <2>1. f = [p \in 0..m |-> f[p]]
    OBVIOUS
  <2> HIDE DEF f
  <2>2. QED
    BY <1>7, <2>1 DEF Places
<1>9. QED
  BY <1>3, <1>8

\* Placing all automatic parts keeps an inventory sound.
LEMMA ReconcileSound ==
  ASSUME NEW n \in Nat, NEW inv, Sound(inv, n)
  PROVE  LET all == Reconcile(inv, n)
         IN  all.made \in Nat /\ n <= all.made /\ Sound(all.inv, all.made)
<1> DEFINE last == Max({0} \cup DOMAIN inv.parts)
           after == CHOOSE f : Places(f, inv, n, last)
           Good(acc) == acc.made \in Nat /\ n <= acc.made /\ Sound(acc.inv, acc.made)
<1>1. last \in Nat
  BY LastPart, InventoryTyped DEF Sound, Racked
<1>2. Reconcile(inv, n) = after[last]
  BY DEF Reconcile, Places
<1>3. Places(after, inv, n, last)
  BY <1>1, PlacesExist
<1> HIDE DEF last, after
<1>4. /\ after[0] = [inv |-> inv, made |-> n]
      /\ \A p \in 1..last : after[p] = ReconciledNext(after[p - 1], p)
  BY <1>1, <1>3 DEF Places
<1>5. ASSUME NEW acc, Good(acc), NEW p PROVE Good(ReconciledNext(acc, p))
  <2> DEFINE next == Reconciled(acc.inv, p, acc.made + 1)
             used == Max({acc.made} \cup DOMAIN next.racks)
  <2>1. CASE p \in DOMAIN acc.inv.parts
    <3>1. ReconciledNext(acc, p) = [inv |-> next, made |-> used]
      BY <2>1 DEF ReconciledNext
    <3>2. used \in Nat /\ acc.made <= used /\ Racked(next, used) /\ ValidSnapshot(next)
      BY <1>5, <2>1, PartPlaced, ValidSplit DEF Sound
    <3> HIDE DEF next, used
    <3>3. QED
      BY <1>5, <3>1, <3>2 DEF Sound
  <2>2. CASE p \notin DOMAIN acc.inv.parts
    BY <1>5, <2>2 DEF ReconciledNext
  <2>3. QED
    BY <2>1, <2>2
<1>6. \A p \in 0..last : Good(after[p])
  <2> DEFINE Bad == {p \in Nat : p <= last /\ ~Good(after[p])}
  <2> HIDE DEF Good
  <2>1. SUFFICES ASSUME Bad # {} PROVE FALSE
    BY <1>1
  <2>2. PICK p \in Bad : \A q \in Bad : p <= q
    BY <2>1, Least
  <2>3. Good(after[0])
    BY <1>4 DEF Good
  <2>4. p \in 1..last /\ p - 1 \in Nat /\ p - 1 \notin Bad /\ p - 1 <= last
    BY <1>1, <2>2, <2>3
  <2>5. Good(after[p - 1])
    BY <2>4
  <2>6. QED
    BY <1>4, <1>5, <2>2, <2>4, <2>5
<1>7. QED
  BY <1>1, <1>2, <1>6

-----------------------------------------------------------------------------
(* Changed parts and racks *)

\* A part is added or changed; one that is new or stays where it was leaves the
\* inventory sound.
LEMMA PartChanged ==
  ASSUME NEW n, NEW inv, Racked(inv, n), NEW p \in Parts, NEW part \in PartType
  PROVE  LET next == WithPart(inv, p, part)
         IN  /\ Racked(next, n) /\ next.racks = inv.racks
             /\ DOMAIN next.parts = DOMAIN inv.parts \cup {p} /\ next.parts[p] = part
             /\ \A q \in DOMAIN inv.parts \ {p} : next.parts[q] = inv.parts[q]
             /\ ValidSnapshot(inv) => ValidBeside(next, p)
             /\ ValidSnapshot(inv) /\ part.at = Nowhere => ValidSnapshot(next)
             /\ ValidSnapshot(inv) /\ p \in DOMAIN inv.parts /\ part.at = inv.parts[p].at
                  => ValidSnapshot(next)
<1> DEFINE parts == With(inv.parts, p, part)
           next == [inv EXCEPT !.parts = parts]
<1>1. WithPart(inv, p, part) = next
  BY DEF WithPart
<1>2. inv \in Inventories /\ DOMAIN inv.racks \subseteq 1..n
      /\ \A r, s \in DOMAIN inv.racks : inv.racks[r].code = inv.racks[s].code => r = s
  BY DEF Racked
<1>3. PICK D \in SUBSET Parts : inv.parts \in [D -> PartType]
  BY <1>2 DEF Inventories
<1>4. /\ DOMAIN parts = DOMAIN inv.parts \cup {p} /\ parts[p] = part
      /\ \A q \in DOMAIN inv.parts \ {p} : parts[q] = inv.parts[q]
      /\ parts = [q \in DOMAIN parts |-> parts[q]]
  BY DEF With
<1> HIDE DEF parts
<1>5. parts \in [D \cup {p} -> PartType] /\ D \cup {p} \in SUBSET Parts
  <2>1. DOMAIN parts = D \cup {p} /\ \A q \in D \cup {p} : parts[q] \in PartType
    BY <1>3, <1>4
  <2>2. QED
    BY <1>4, <2>1
<1>6. next \in Inventories /\ next.parts = parts /\ next.racks = inv.racks
  BY <1>2, <1>5 DEF Inventories
<1> HIDE DEF next
<1>7. Racked(next, n)
  BY <1>2, <1>6 DEF Racked
<1>8. /\ Placed(next) \ {p} = Placed(inv) \ {p}
      /\ \A q \in Placed(inv) \ {p} : next.parts[q].at = inv.parts[q].at
      /\ p \in Placed(next) <=> part.at # Nowhere
      /\ \A at : Supported(next, at) <=> Supported(inv, at)
  BY <1>4, <1>6 DEF Placed, Supported
<1>9. ASSUME ValidSnapshot(inv) PROVE ValidBeside(next, p)
  <2>1. ValidBeside(inv, p)
    BY <1>9, ValidSplit
  <2>2. QED
    BY <1>6, <1>8, <2>1 DEF ValidBeside
<1>10. ASSUME ValidSnapshot(inv), p \in DOMAIN inv.parts, part.at = inv.parts[p].at, part.at # Nowhere
       PROVE  Supported(next, part.at) /\ ~Occupied(next, part.at, p)
  <2>1. p \in Placed(inv)
    BY <1>10 DEF Placed
  <2>2. Supported(inv, part.at) /\ ~Occupied(inv, part.at, p)
    BY <1>10, <2>1 DEF ValidSnapshot
  <2>3. QED
    BY <1>8, <2>2 DEF Occupied
<1>11. QED
  BY <1>1, <1>4, <1>6, <1>7, <1>8, <1>9, <1>10, ValidSplit

\* The form's place is given up where another part has it now, or its rack is gone.
LEMMA ReleaseSound ==
  ASSUME NEW n, NEW inv, Racked(inv, n), NEW p \in DOMAIN inv.parts, ValidBeside(inv, p)
  PROVE  Sound(ReleasePlacement(inv, p), n)
<1> DEFINE out == Put(inv, p, Nowhere, "automatic")
<1>1. inv \in Inventories /\ Nowhere \in At /\ "automatic" \in Modes
  BY DEF Racked, At, Modes
<1>2. Sound(out, n)
  <2>1. out \in Inventories /\ out.racks = inv.racks
    BY <1>1, PartPut
  <2>2. ValidSnapshot(out)
    BY <1>1, PutValid
  <2>3. QED
    BY <2>1, <2>2 DEF Sound, Racked
<1>3. CASE ReleasePlacement(inv, p) = inv /\ (p \in Placed(inv) => Supported(inv, inv.parts[p].at)
                                                                /\ ~Occupied(inv, inv.parts[p].at, p))
  BY <1>3, ValidSplit DEF Sound
<1>4. QED
  BY <1>2, <1>3 DEF ReleasePlacement, Displaced, Placed

\* Fewer parts, or fewer racks where the others are empty.
LEMMA PartRemoved ==
  ASSUME NEW n, NEW inv, Sound(inv, n), NEW D
  PROVE  Sound([inv EXCEPT !.parts = Restrict(@, DOMAIN @ \ D)], n)
<1> DEFINE parts == [q \in DOMAIN inv.parts \ D |-> inv.parts[q]]
           next == [inv EXCEPT !.parts = parts]
<1>1. [inv EXCEPT !.parts = Restrict(@, DOMAIN @ \ D)] = next
  BY DEF Restrict
<1>2. PICK E \in SUBSET Parts : inv.parts \in [E -> PartType]
  BY DEF Sound, Racked, Inventories
<1>3. parts \in [E \ D -> PartType] /\ \A q \in DOMAIN parts : q \in DOMAIN inv.parts /\ parts[q] = inv.parts[q]
  BY <1>2
<1> HIDE DEF parts
<1>4. next \in Inventories /\ next.parts = parts /\ next.racks = inv.racks
  BY <1>3 DEF Inventories, Sound, Racked
<1> HIDE DEF next
<1>5. \A q \in Placed(next) : q \in Placed(inv) /\ next.parts[q] = inv.parts[q]
  BY <1>3, <1>4 DEF Placed
<1>6. ValidSnapshot(next)
  BY <1>4, <1>5 DEF Sound, ValidSnapshot, Supported, Occupied
<1>7. QED
  BY <1>1, <1>4, <1>6 DEF Sound, Racked

LEMMA RackRemoved ==
  ASSUME NEW n, NEW inv, Sound(inv, n), NEW r, EmptyRack(inv, r)
  PROVE  Sound([inv EXCEPT !.racks = Restrict(@, DOMAIN @ \ {r})], n)
<1> DEFINE racks == [s \in DOMAIN inv.racks \ {r} |-> inv.racks[s]]
           next == [inv EXCEPT !.racks = racks]
<1>1. [inv EXCEPT !.racks = Restrict(@, DOMAIN @ \ {r})] = next
  BY DEF Restrict
<1>2. PICK E \in SUBSET Nat : inv.racks \in [E -> RackType]
  BY DEF Sound, Racked, Inventories
<1>3. /\ racks \in [E \ {r} -> RackType] /\ DOMAIN racks = DOMAIN inv.racks \ {r}
      /\ \A s \in DOMAIN racks : s \in DOMAIN inv.racks /\ racks[s] = inv.racks[s]
  BY <1>2
<1> HIDE DEF racks
<1>4. next \in Inventories /\ next.racks = racks /\ next.parts = inv.parts
  BY <1>3 DEF Inventories, Sound, Racked
<1> HIDE DEF next
<1>5. Placed(next) = Placed(inv) /\ \A q \in Placed(inv) : inv.parts[q].at[1] # r
  BY <1>4 DEF Placed, EmptyRack
<1>6. ValidSnapshot(next)
  <2>1. \A at, q : Occupied(next, at, q) <=> Occupied(inv, at, q)
    BY <1>4, <1>5 DEF Occupied
  <2>2. \A q \in Placed(inv) : Supported(inv, inv.parts[q].at) => Supported(next, inv.parts[q].at)
    BY <1>3, <1>4, <1>5 DEF Supported
  <2>3. \A s, t \in DOMAIN next.racks : next.racks[s].code = next.racks[t].code => s = t
    BY <1>3, <1>4 DEF Sound, Racked
  <2>4. ValidSnapshot(inv)
    BY DEF Sound
  <2>5. QED
    BY <1>4, <1>5, <2>1, <2>2, <2>3, <2>4 DEF ValidSnapshot
<1>7. QED
  BY <1>1, <1>3, <1>4, <1>6 DEF Sound, Racked

\* Another number, that no rack has, or another type.
LEMMA RackChanged ==
  ASSUME NEW n, NEW inv, Sound(inv, n), NEW r \in DOMAIN inv.racks, NEW rack \in RackType,
         rack.code \notin Codes(inv) \/ rack.code = inv.racks[r].code
  PROVE  Sound([inv EXCEPT !.racks[r] = rack], n)
<1> DEFINE racks == [inv.racks EXCEPT ![r] = rack]
           next == [inv EXCEPT !.racks = racks]
<1>1. [inv EXCEPT !.racks[r] = rack] = next
  BY DEF Sound, Racked, Inventories
<1>2. PICK E \in SUBSET Nat : inv.racks \in [E -> RackType]
  BY DEF Sound, Racked, Inventories
<1>3. /\ racks \in [E -> RackType] /\ DOMAIN racks = DOMAIN inv.racks /\ racks[r] = rack
      /\ \A s \in DOMAIN inv.racks \ {r} : racks[s] = inv.racks[s]
  BY <1>2
<1> HIDE DEF racks
<1>4. next \in Inventories /\ next.racks = racks /\ next.parts = inv.parts
  BY <1>2, <1>3 DEF Inventories, Sound, Racked
<1> HIDE DEF next
<1>5. \A s \in DOMAIN inv.racks : inv.racks[s].code \in Codes(inv)
  BY DEF Codes
<1>6. \A s, t \in DOMAIN next.racks : next.racks[s].code = next.racks[t].code => s = t
  BY <1>3, <1>4, <1>5 DEF Sound, Racked
<1>7. ValidSnapshot(next)
  <2>1. Placed(next) = Placed(inv) /\ \A at, q : Occupied(next, at, q) <=> Occupied(inv, at, q)
    BY <1>4 DEF Placed, Occupied
  <2>2. \A at : Supported(next, at) <=> Supported(inv, at)
    BY <1>3, <1>4 DEF Supported
  <2>3. ValidSnapshot(inv)
    BY DEF Sound
  <2>4. QED
    BY <1>4, <1>6, <2>1, <2>2, <2>3 DEF ValidSnapshot
<1>8. QED
  BY <1>1, <1>3, <1>4, <1>6, <1>7 DEF Sound, Racked

-----------------------------------------------------------------------------
(* Merging what was edited *)

LEMMA MergedPart ==
  ASSUME NEW base \in PartType, NEW edited \in PartType, NEW current \in PartType, NEW quantity
  PROVE  LET part == MergeItem(base, edited, current, quantity)
         IN  part \in PartType /\ (part.at = edited.at \/ part.at = current.at)
<1> DEFINE part == MergeItem(base, edited, current, quantity)
           sum == current.qty + edited.qty - base.qty
           place == IF SamePlace(edited, base) THEN current ELSE edited
<1>1. sum \in Int /\ current.qty \in Int /\ edited.qty \in Int
  BY DEF PartType
<1> HIDE DEF sum
<1>2. Max({0, sum}) \in Int
  <2>1. \E x \in {0, sum} : \A y \in {0, sum} : x >= y
    BY <1>1
  <2>2. Max({0, sum}) \in {0, sum}
    BY <2>1 DEF Max
  <2>3. QED
    BY <1>1, <2>2
<1>3. part = [qty |-> part.qty, kind |-> part.kind, mode |-> place.mode, at |-> place.at]
  BY DEF MergeItem
<1>4. part.qty \in {current.qty, Max({0, sum}), edited.qty}
  BY DEF MergeItem, sum
<1>5. part.kind \in {current.kind, edited.kind}
  BY DEF MergeItem
<1> HIDE DEF part
<1>6. part.qty \in Int /\ part.kind \in Kinds
  BY <1>1, <1>2, <1>4, <1>5 DEF PartType
<1>7. place.mode \in Modes /\ place.at \in At /\ place.at \in {edited.at, current.at}
  BY DEF PartType
<1> HIDE DEF place
<1>8. QED
  BY <1>3, <1>6, <1>7 DEF PartType, part

\* Replaying a staged import on a sound inventory leaves it sound: a staged rack whose
\* number another rack has now is left out, and a part that was edited or added gives up
\* a place without rack, or that another part has.
LEMMA MergeSound ==
  ASSUME NEW n, NEW base \in Inventories, NEW staged, Racked(staged, n), NEW current, Sound(current, n)
  PROVE  Sound(MergeInventory(base, staged, current), n)
<1> DEFINE newRacks == {r \in DOMAIN staged.racks \ (DOMAIN base.racks \cup DOMAIN current.racks) :
                          staged.racks[r].code \notin Codes(current)}
           removed == {p \in DOMAIN base.parts \ DOMAIN staged.parts :
                         p \in DOMAIN current.parts /\ current.parts[p] = base.parts[p]}
           edited == {p \in DOMAIN base.parts \cap DOMAIN staged.parts \cap DOMAIN current.parts :
                        staged.parts[p] # base.parts[p]}
           added == DOMAIN staged.parts \ (DOMAIN base.parts \cup DOMAIN current.parts)
           touched == edited \cup added
           parts == [p \in (DOMAIN current.parts \ removed) \cup added |->
                       IF p \in edited
                         THEN MergeItem(base.parts[p], staged.parts[p], current.parts[p], "delta")
                         ELSE IF p \in added THEN staged.parts[p] ELSE current.parts[p]]
           racks == [r \in DOMAIN current.racks \cup newRacks |->
                       IF r \in newRacks THEN staged.racks[r] ELSE current.racks[r]]
           merged == [parts |-> parts, racks |-> racks]
           conflicting == {p \in touched \cap Placed(merged) :
                             \/ merged.parts[p].at[1] \notin DOMAIN merged.racks
                             \/ \E q \in Placed(merged) \ {p} :
                                  /\ merged.parts[q].at = merged.parts[p].at
                                  /\ q \notin touched \/ q < p}
           kept == [p \in DOMAIN parts |->
                      IF p \in conflicting THEN [parts[p] EXCEPT !.mode = "automatic", !.at = Nowhere]
                                           ELSE parts[p]]
           final == [parts |-> kept, racks |-> racks]
<1>1. MergeInventory(base, staged, current) = final
  <2>1. MergeInventory(base, staged, current) =
          [merged EXCEPT !.parts = [p \in DOMAIN @ |->
             IF p \in conflicting THEN [@[p] EXCEPT !.mode = "automatic", !.at = Nowhere] ELSE @[p]]]
    BY DEF MergeInventory
  <2> HIDE DEF newRacks, removed, edited, added, touched, conflicting, parts, racks
  <2>2. QED
    BY <2>1
<1>2. /\ DOMAIN parts \subseteq Parts
      /\ \A p \in DOMAIN parts : parts[p] \in PartType
      /\ \A p \in DOMAIN parts \ touched : p \in DOMAIN current.parts /\ parts[p] = current.parts[p]
  <2>1. /\ \A p \in DOMAIN base.parts : p \in Parts /\ base.parts[p] \in PartType
        /\ \A p \in DOMAIN staged.parts : p \in Parts /\ staged.parts[p] \in PartType
        /\ \A p \in DOMAIN current.parts : p \in Parts /\ current.parts[p] \in PartType
    BY InventoryTyped DEF Racked, Sound
  <2>2. \A p \in edited : MergeItem(base.parts[p], staged.parts[p], current.parts[p], "delta") \in PartType
    BY <2>1, MergedPart
  <2>3. \A p \in added : staged.parts[p] \in PartType /\ p \in Parts
    BY <2>1
  <2>4. edited \subseteq DOMAIN current.parts /\ added \cap DOMAIN current.parts = {}
    OBVIOUS
  <2> HIDE DEF edited, added, removed
  <2>5. QED
    BY <2>1, <2>2, <2>3, <2>4
<1>3. /\ DOMAIN racks \subseteq 1..n /\ DOMAIN current.racks \subseteq DOMAIN racks
      /\ racks \in [DOMAIN racks -> RackType]
      /\ \A r, s \in DOMAIN racks : racks[r].code = racks[s].code => r = s
  <2>1. /\ DOMAIN staged.racks \subseteq 1..n /\ DOMAIN current.racks \subseteq 1..n
        /\ \A r \in DOMAIN staged.racks : staged.racks[r] \in RackType
        /\ \A r \in DOMAIN current.racks : current.racks[r] \in RackType
        /\ \A r, s \in DOMAIN staged.racks : staged.racks[r].code = staged.racks[s].code => r = s
        /\ \A r, s \in DOMAIN current.racks : current.racks[r].code = current.racks[s].code => r = s
    BY DEF Racked, Sound, Inventories
  <2>2. /\ \A r \in newRacks : r \in DOMAIN staged.racks /\ r \notin DOMAIN current.racks
        /\ \A r \in newRacks, s \in DOMAIN current.racks : staged.racks[r].code # current.racks[s].code
    BY DEF Codes
  <2> HIDE DEF newRacks
  <2>3. \A r \in DOMAIN racks : racks[r] \in RackType
    BY <2>1, <2>2
  <2>4. \A r, s \in DOMAIN racks : racks[r].code = racks[s].code => r = s
    BY <2>1, <2>2
  <2>5. QED
    BY <2>1, <2>2, <2>3, <2>4
<1> HIDE DEF parts, racks, touched, newRacks, removed, edited, added
<1>4. /\ DOMAIN kept = DOMAIN parts
      /\ \A p \in DOMAIN parts \ conflicting : kept[p] = parts[p]
      /\ \A p \in conflicting : p \in DOMAIN parts /\ kept[p] \in PartType /\ kept[p].at = Nowhere
      /\ kept = [p \in DOMAIN kept |-> kept[p]]
  <2>1. \A p \in conflicting : p \in DOMAIN parts
    BY DEF Placed
  <2>2. ASSUME NEW part \in PartType
        PROVE  LET out == [part EXCEPT !.mode = "automatic", !.at = Nowhere]
               IN  out \in PartType /\ out.at = Nowhere
    BY DEF PartType, Modes, At
  <2> HIDE DEF conflicting
  <2>3. QED
    BY <1>2, <2>1, <2>2
<1>5. /\ DOMAIN merged.parts = DOMAIN parts /\ merged.parts = parts /\ merged.racks = racks
      /\ final.parts = kept /\ final.racks = racks
  OBVIOUS
<1> HIDE DEF kept
<1>6. final \in Inventories
  <2>1. kept \in [DOMAIN parts -> PartType]
    BY <1>2, <1>4
  <2>2. racks \in [DOMAIN racks -> RackType] /\ DOMAIN racks \in SUBSET Nat
    BY <1>3
  <2>3. QED
    BY <1>2, <2>1, <2>2 DEF Inventories
<1>7. \A p \in Placed(final) : p \in Placed(merged) /\ p \notin conflicting /\ kept[p] = parts[p]
  BY <1>4, <1>5 DEF Placed
<1>8. \A p \in Placed(merged) \ touched : p \in Placed(current) /\ parts[p] = current.parts[p]
  BY <1>2, <1>5 DEF Placed
<1>9. ASSUME NEW p \in Placed(final) PROVE Supported(final, final.parts[p].at)
  <2>1. p \in Placed(merged) /\ p \notin conflicting /\ final.parts[p].at = parts[p].at
    BY <1>5, <1>7
  <2>2. CASE p \in touched
    <3>1. parts[p].at[1] \in DOMAIN racks
      BY <1>5, <2>1, <2>2
    <3>2. parts[p].at \in At /\ parts[p].at # Nowhere
      BY <1>2, <1>5, <2>1 DEF Placed, PartType
    <3>3. QED
      BY <1>5, <2>1, <3>1, <3>2 DEF Supported, At
  <2>3. CASE p \notin touched
    BY <1>3, <1>5, <1>8, <2>1, <2>3 DEF Sound, ValidSnapshot, Supported
  <2>4. QED
    BY <2>2, <2>3
<1>10. ASSUME NEW p \in Placed(final), NEW q \in Placed(final) \ {p}, final.parts[q].at = final.parts[p].at
       PROVE  FALSE
  <2>1. /\ p \in Placed(merged) /\ p \notin conflicting /\ q \in Placed(merged) /\ q \notin conflicting
        /\ parts[q].at = parts[p].at /\ p # q
    BY <1>5, <1>7, <1>10
  <2>2. p \in Nat /\ q \in Nat
    BY <1>2, <1>5, <2>1, HistoryAssumption DEF Placed
  <2>3. p \notin touched /\ q \notin touched
    BY <1>5, <2>1, <2>2
  <2>4. QED
    BY <1>8, <2>1, <2>3 DEF Sound, ValidSnapshot, Occupied
<1> HIDE DEF final
<1>11. ValidSnapshot(final)
  BY <1>3, <1>5, <1>9, <1>10 DEF ValidSnapshot, Occupied
<1>12. QED
  BY <1>1, <1>3, <1>5, <1>6, <1>11 DEF Sound, Racked

-----------------------------------------------------------------------------
(* Saving keeps everything sound *)

LEMMA SoundMore ==
  ASSUME NEW n \in Nat, NEW m \in Nat, n <= m, NEW inv, Sound(inv, n)
  PROVE  Sound(inv, m)
BY RackedMore DEF Sound

LEMMA EmptySound ==
  ASSUME NEW n \in Nat
  PROVE  Sound(Empty, n)
<1>1. DOMAIN Empty.parts = {} /\ DOMAIN Empty.racks = {}
  BY DEF Empty
<1>2. Empty.parts \in [{} -> PartType] /\ Empty.racks \in [{} -> RackType]
  BY DEF Empty
<1>3. Empty \in Inventories
  <2>1. Empty = [parts |-> Empty.parts, racks |-> Empty.racks]
    BY DEF Empty
  <2>2. QED
    BY <1>2, <2>1 DEF Inventories
<1>4. QED
  BY <1>1, <1>3 DEF Sound, Racked, ValidSnapshot, Placed

LEMMA CommitAppended ==
  ASSUME NEW n \in Nat, NEW history \in Seq(CommitType),
         \A k \in 1..Len(history) : Sound(history[k].snapshot, n),
         NEW inv, Sound(inv, n), NEW d \in DraftType, NEW changes \in BOOLEAN
  PROVE  LET next == Append(history, Commit(inv, d, changes))
         IN  /\ next \in Seq(CommitType) /\ Len(next) = Len(history) + 1
             /\ \A k \in 1..Len(next) : Sound(next[k].snapshot, n)
<1> DEFINE commit == Commit(inv, d, changes)
           next == Append(history, commit)
<1>1. commit \in CommitType /\ commit.snapshot = inv
  BY DEF Commit, CommitType, DraftType, Sound, Racked
<1> HIDE DEF commit
<1>2. /\ next \in Seq(CommitType) /\ Len(next) = Len(history) + 1 /\ next[Len(history) + 1] = commit
      /\ \A k \in 1..Len(history) : next[k] = history[k]
  BY <1>1
<1>3. \A k \in 1..Len(next) : Sound(next[k].snapshot, n)
  <2>1. Len(history) \in Nat
    OBVIOUS
  <2> HIDE DEF next
  <2>2. QED
    BY <1>1, <1>2, <2>1
<1>4. QED
  BY <1>2, <1>3 DEF commit

LEMMA SaveSound ==
  ASSUME SoundHistory, NEW inv, NEW used \in Nat, made <= used, Sound(inv, used), NEW d \in DraftType,
         Save(inv, used, d, Stay) \/ Save(inv, used, d, Closed)
  PROVE  SoundHistory' /\ made <= made' /\ session' = session
<1> DEFINE next == Reconcile(inv, used)
           needsCommit == d.checkpoint \/ next.inv # saved
           history == IF needsCommit
                        THEN Append(commits, Commit(next.inv, d, next.inv # saved)) ELSE commits
<1>1. next.made \in Nat /\ made <= next.made /\ Sound(next.inv, next.made)
  <2>1. next.made \in Nat /\ used <= next.made /\ Sound(next.inv, next.made)
    BY ReconcileSound
  <2>2. made \in Nat
    BY DEF SoundHistory
  <2> HIDE DEF next
  <2>3. QED
    BY <2>1, <2>2
<1>2. /\ store' = next.inv /\ made' = next.made /\ session' = session
      /\ \/ commits' = history /\ draft' = NoDraft /\ Refreshed(history)
         \/ draft' \in {d, NoDraft} /\ UNCHANGED <<commits, shown>>
  BY DEF Save
<1> HIDE DEF next
<1>3. \A k \in 1..Len(commits) : Sound(commits[k].snapshot, next.made)
  BY <1>1, SoundMore DEF SoundHistory
<1>4. /\ history \in Seq(CommitType) /\ Len(history) \in {Len(commits), Len(commits) + 1}
      /\ \A k \in 1..Len(history) : Sound(history[k].snapshot, next.made)
  <2>1. CASE needsCommit
    <3> DEFINE changes == next.inv # saved
               longer == Append(commits, Commit(next.inv, d, changes))
    <3>1. commits \in Seq(CommitType) /\ next.made \in Nat /\ changes \in BOOLEAN
      BY <1>1 DEF SoundHistory
    <3>2. history = longer
      BY <2>1
    <3> HIDE DEF changes, history
    <3>3. /\ longer \in Seq(CommitType) /\ Len(longer) = Len(commits) + 1
          /\ \A k \in 1..Len(longer) : Sound(longer[k].snapshot, next.made)
      BY <1>1, <1>3, <3>1, CommitAppended
    <3>4. QED
      BY <3>2, <3>3
  <2>2. CASE ~needsCommit
    BY <1>3, <2>2 DEF SoundHistory
  <2>3. QED
    BY <2>1, <2>2
<1> HIDE DEF history
<1>5. NoDraft \in DraftType
  BY DEF NoDraft, DraftType
<1>6. CASE commits' = history /\ draft' = NoDraft /\ Refreshed(history)
  <2>1. shown' \in {Len(history) - (Len(commits) - shown), Len(history)}
    BY <1>6 DEF Refreshed
  <2>2. /\ shown \in 1..Len(commits) /\ Len(commits) \in Nat /\ Len(history) \in Nat
        /\ commits \in Seq(CommitType)
    BY <1>4 DEF SoundHistory
  <2>3. shown' \in 1..Len(history)
    BY <1>4, <2>1, <2>2
  <2>4. QED
    BY <1>1, <1>2, <1>4, <1>5, <1>6, <2>3 DEF SoundHistory
<1>7. CASE draft' \in {d, NoDraft} /\ UNCHANGED <<commits, shown>>
  BY <1>1, <1>2, <1>3, <1>5, <1>7 DEF SoundHistory
<1>8. QED
  BY <1>1, <1>2, <1>6, <1>7

LEMMA ImportKept ==
  ASSUME ImportTyped, made \in Nat, made' \in Nat, made <= made', import' = import
  PROVE  ImportTyped'
<1>1. Sound(import.original, made') /\ Racked(import.staged, made')
  BY SoundMore, RackedMore DEF ImportTyped
<1>2. QED
  BY <1>1 DEF ImportTyped

\* A save beside the page keeps the whole invariant.
LEMMA SaveKeeps ==
  ASSUME IInv, NEW inv, NEW used \in Nat, made <= used, Sound(inv, used), NEW d \in DraftType,
         Save(inv, used, d, Stay) \/ Save(inv, used, d, Closed), UNCHANGED edits
  PROVE  IInv'
<1>1. SoundHistory' /\ made <= made' /\ session' = session
  BY SaveSound DEF IInv
<1>2. import' = import /\ form' = form
  BY DEF edits
<1>3. ImportTyped'
  BY <1>1, <1>2, ImportKept DEF IInv, SoundHistory
<1>4. QED
  BY <1>1, <1>2, <1>3 DEF IInv, FormTyped

LEMMA ManualTyped == Manual \in DraftType /\ \A c \in BOOLEAN, k \in Nat : Draft(c, k) \in DraftType
BY DEF Manual, Draft, DraftType

LEMMA SaveEditKeeps ==
  ASSUME IInv, NEW inv, Sound(inv, made), SaveEdit(inv), UNCHANGED edits
  PROVE  IInv'
<1>1. made \in Nat /\ made <= made
  BY DEF IInv, SoundHistory
<1>2. QED
  BY <1>1, SaveKeeps, ManualTyped DEF SaveEdit

LEMMA SavePartSound ==
  ASSUME SoundHistory, NEW inv, NEW p \in DOMAIN inv.parts, Sound(inv, made), SavePart(inv, p)
  PROVE  SoundHistory' /\ made <= made' /\ session' = session
<1> DEFINE placed == Reconciled(inv, p, made + 1)
           used == Max({made} \cup DOMAIN placed.racks)
<1>1. used \in Nat /\ made <= used /\ Sound(placed, used)
  BY PartPlaced, ValidSplit DEF SoundHistory, Sound
<1>2. Save(placed, used, Manual, Stay)
  BY DEF SavePart
<1> HIDE DEF placed, used
<1>3. QED
  BY <1>1, <1>2, SaveSound, ManualTyped

LEMMA SavePartKeeps ==
  ASSUME IInv, NEW inv, NEW p \in DOMAIN inv.parts, Sound(inv, made), SavePart(inv, p), UNCHANGED edits
  PROVE  IInv'
<1>1. SoundHistory' /\ made <= made' /\ session' = session
  BY SavePartSound DEF IInv
<1>2. import' = import /\ form' = form
  BY DEF edits
<1>3. ImportTyped'
  BY <1>1, <1>2, ImportKept DEF IInv, SoundHistory
<1>4. QED
  BY <1>1, <1>2, <1>3 DEF IInv, FormTyped

LEMMA ScannedKeeps ==
  ASSUME IInv, NEW inv, NEW used \in Nat, made <= used, Sound(inv, used), Scanned(inv, used)
  PROVE  IInv'
<1> DEFINE history == Append(commits, Commit(inv, Manual, TRUE))
<1>1. /\ store' = inv /\ commits' = history /\ made' = used /\ Refreshed(history)
      /\ draft' = draft /\ form' = form /\ import' = import /\ session' = session
  BY DEF Scanned, edits
<1>2. \A k \in 1..Len(commits) : Sound(commits[k].snapshot, used)
  BY SoundMore DEF IInv, SoundHistory
<1>3. /\ history \in Seq(CommitType) /\ Len(history) = Len(commits) + 1
      /\ \A k \in 1..Len(history) : Sound(history[k].snapshot, used)
  BY <1>2, CommitAppended, ManualTyped DEF IInv, SoundHistory
<1> HIDE DEF history
<1>4. shown' \in 1..Len(history)
  <2>1. shown' \in {Len(history) - (Len(commits) - shown), Len(history)}
    BY <1>1 DEF Refreshed
  <2>2. shown \in 1..Len(commits) /\ Len(commits) \in Nat
    BY DEF IInv, SoundHistory
  <2>3. QED
    BY <1>3, <2>1, <2>2
<1>5. SoundHistory'
  BY <1>1, <1>3, <1>4 DEF IInv, SoundHistory
<1>6. ImportTyped'
  BY <1>1, ImportKept DEF IInv, SoundHistory
<1>7. QED
  BY <1>1, <1>5, <1>6 DEF IInv, FormTyped

-----------------------------------------------------------------------------
(* The steps *)

\* What sessions the theorem is about: the form of a new part is not used.
NoNewParts == \A x \in Sessions : "new" \notin x.uses

LEMMA SessionTyped ==
  ASSUME IInv
  PROVE  /\ session.kinds \subseteq Kinds /\ session.quantity \in Nat
         /\ NoNewParts => ~Uses("new")
BY HistoryAssumption DEF IInv, SessionType, NoNewParts, Uses

LEMMA StoreTyped ==
  ASSUME IInv
  PROVE  /\ made \in Nat /\ Sound(store, made) /\ Racked(store, made) /\ store \in Inventories
         /\ ValidSnapshot(store) /\ DOMAIN store.racks \subseteq 1..made
         /\ \A p \in DOMAIN store.parts : p \in Parts /\ store.parts[p] \in PartType
         /\ (DOMAIN store.racks) \X (1..Slots) \subseteq At
<1>1. /\ made \in Nat /\ Sound(store, made) /\ Racked(store, made) /\ store \in Inventories
      /\ ValidSnapshot(store) /\ DOMAIN store.racks \subseteq 1..made
  BY DEF IInv, SoundHistory, Sound, Racked
<1>2. \A p \in DOMAIN store.parts : p \in Parts /\ store.parts[p] \in PartType
  BY <1>1, InventoryTyped
<1>3. (DOMAIN store.racks) \X (1..Slots) \subseteq At
  BY <1>1 DEF At
<1>4. QED
  BY <1>1, <1>2, <1>3

\* A field of a part changes, its place not.
LEMMA FieldChanged ==
  ASSUME NEW n, NEW inv, Sound(inv, n), NEW p \in DOMAIN inv.parts, NEW q \in Int, NEW kind \in Kinds
  PROVE  /\ Sound([inv EXCEPT !.parts[p].qty = q], n)
         /\ p \in DOMAIN [inv EXCEPT !.parts[p].qty = q].parts
         /\ Sound([inv EXCEPT !.parts[p].kind = kind], n)
         /\ p \in DOMAIN [inv EXCEPT !.parts[p].kind = kind].parts
<1>1. p \in Parts /\ inv.parts[p] \in PartType /\ inv \in Inventories
  BY InventoryTyped DEF Sound, Racked
<1>2. ASSUME NEW part \in PartType, part.at = inv.parts[p].at
      PROVE  LET next == [inv EXCEPT !.parts[p] = part]
             IN  Sound(next, n) /\ p \in DOMAIN next.parts
  <2>1. [inv EXCEPT !.parts[p] = part] = WithPart(inv, p, part)
    <3>1. [inv.parts EXCEPT ![p] = part] = With(inv.parts, p, part)
      BY DEF With
    <3>2. QED
      BY <1>1, <3>1 DEF WithPart, Inventories
  <2>2. QED
    BY <1>1, <1>2, <2>1, PartChanged DEF Sound
<1>3. /\ [inv.parts[p] EXCEPT !.qty = q] \in PartType /\ [inv.parts[p] EXCEPT !.qty = q].at = inv.parts[p].at
      /\ [inv.parts[p] EXCEPT !.kind = kind] \in PartType
      /\ [inv.parts[p] EXCEPT !.kind = kind].at = inv.parts[p].at
  BY <1>1 DEF PartType
<1>4. /\ [inv EXCEPT !.parts[p].qty = q] = [inv EXCEPT !.parts[p] = [inv.parts[p] EXCEPT !.qty = q]]
      /\ [inv EXCEPT !.parts[p].kind = kind] = [inv EXCEPT !.parts[p] = [inv.parts[p] EXCEPT !.kind = kind]]
  BY <1>1 DEF Inventories
<1>5. QED
  BY <1>2, <1>3, <1>4

LEMMA NewPartTyped ==
  ASSUME NEW qty \in Int, NEW kind \in Kinds
  PROVE  NewPart(qty, kind) \in PartType /\ NewPart(qty, kind).at = Nowhere
BY DEF NewPart, PartType, Modes, At

LEMMA NewPartAdded ==
  ASSUME IInv, NEW p \in Parts, NEW kind \in session.kinds
  PROVE  /\ Sound(WithPart(store, p, NewPart(0, kind)), made)
         /\ p \in DOMAIN WithPart(store, p, NewPart(0, kind)).parts
<1>1. kind \in Kinds /\ 0 \in Int
  BY SessionTyped
<1>2. NewPart(0, kind) \in PartType /\ NewPart(0, kind).at = Nowhere
  BY <1>1, NewPartTyped
<1>3. Racked(store, made) /\ ValidSnapshot(store)
  BY StoreTyped
<1>4. LET next == WithPart(store, p, NewPart(0, kind))
      IN  Racked(next, made) /\ DOMAIN next.parts = DOMAIN store.parts \cup {p} /\ ValidSnapshot(next)
  BY <1>2, <1>3, PartChanged
<1>5. QED
  BY <1>4 DEF Sound

LEMMA RetryStep ==
  ASSUME IInv, RetrySave
  PROVE  IInv'
<1>1. (IF draft.pending THEN draft ELSE Manual) \in DraftType
  BY ManualTyped DEF IInv, SoundHistory
<1>2. QED
  BY <1>1, StoreTyped, SaveKeeps DEF RetrySave

LEMMA PartsStep ==
  ASSUME IInv, NEW p \in Parts, AddPart(p) \/ DeletePart(p) \/ AdjustQuantity(p)
  PROVE  IInv'
<1>1. CASE AddPart(p)
  <2>1. PICK kind \in session.kinds : SavePart(WithPart(store, p, NewPart(0, kind)), p)
    BY <1>1 DEF AddPart
  <2>2. Sound(WithPart(store, p, NewPart(0, kind)), made)
        /\ p \in DOMAIN WithPart(store, p, NewPart(0, kind)).parts
    BY NewPartAdded
  <2>3. QED
    BY <1>1, <2>1, <2>2, SavePartKeeps DEF AddPart
<1>2. CASE DeletePart(p)
  BY <1>2, StoreTyped, PartRemoved, SaveEditKeeps DEF DeletePart
<1>3. CASE AdjustQuantity(p)
  <2>1. PICK q \in 0..session.quantity : SaveEdit([store EXCEPT !.parts[p].qty = q])
    BY <1>3 DEF AdjustQuantity
  <2>2. q \in Int /\ p \in DOMAIN store.parts /\ "placeholder" \in Kinds
    BY <1>3, SessionTyped DEF AdjustQuantity, Kinds
  <2>3. Sound([store EXCEPT !.parts[p].qty = q], made)
    BY <2>2, StoreTyped, FieldChanged
  <2>4. QED
    BY <1>3, <2>1, <2>3, SaveEditKeeps DEF AdjustQuantity
<1>4. QED
  BY <1>1, <1>2, <1>3

LEMMA ScansStep ==
  ASSUME IInv, NEW p \in Parts, Scan(p) \/ Receive(p) \/ Enrich(p)
  PROVE  IInv'
<1> DEFINE Received(inv) == Reconciled(inv, p, made + 1)
           Used(inv) == Max({made} \cup DOMAIN Received(inv).racks)
<1>1. ASSUME NEW inv, Sound(inv, made), p \in DOMAIN inv.parts, Scanned(Received(inv), Used(inv))
      PROVE  IInv'
  <2>1. Used(inv) \in Nat /\ made <= Used(inv) /\ Sound(Received(inv), Used(inv))
    BY <1>1, StoreTyped, PartPlaced, ValidSplit DEF Sound
  <2> HIDE DEF Received, Used
  <2>2. QED
    BY <1>1, <2>1, ScannedKeeps
<1>2. CASE Scan(p)
  <2>1. PICK q \in 0..session.quantity :
          \/ Scanned([store EXCEPT !.parts[p].qty = q], made)
          \/ Scanned(Received([store EXCEPT !.parts[p].qty = q]), Used([store EXCEPT !.parts[p].qty = q]))
    BY <1>2 DEF Scan
  <2>2. q \in Int /\ p \in DOMAIN store.parts /\ "placeholder" \in Kinds
    BY <1>2, SessionTyped DEF Scan, Kinds
  <2>3. Sound([store EXCEPT !.parts[p].qty = q], made) /\ p \in DOMAIN [store EXCEPT !.parts[p].qty = q].parts
    BY <2>2, StoreTyped, FieldChanged
  <2> HIDE DEF Received, Used
  <2>4. made \in Nat /\ made <= made
    BY StoreTyped
  <2>5. QED
    BY <1>1, <2>1, <2>3, <2>4, ScannedKeeps
<1>3. CASE Receive(p)
  <2>1. PICK kind \in session.kinds : Scanned(Received(WithPart(store, p, NewPart(0, kind))),
                                              Used(WithPart(store, p, NewPart(0, kind))))
    BY <1>3 DEF Receive
  <2>2. Sound(WithPart(store, p, NewPart(0, kind)), made)
        /\ p \in DOMAIN WithPart(store, p, NewPart(0, kind)).parts
    BY NewPartAdded
  <2> HIDE DEF Received, Used
  <2>3. QED
    BY <1>1, <2>1, <2>2
<1>4. CASE Enrich(p)
  <2>1. PICK kind \in Kinds : SavePart([store EXCEPT !.parts[p].kind = kind], p)
    BY <1>4 DEF Enrich
  <2>2. p \in DOMAIN store.parts /\ 0 \in Int
    BY <1>4 DEF Enrich
  <2>3. Sound([store EXCEPT !.parts[p].kind = kind], made) /\ p \in DOMAIN [store EXCEPT !.parts[p].kind = kind].parts
    BY <2>2, StoreTyped, FieldChanged
  <2>4. QED
    BY <1>4, <2>1, <2>3, SavePartKeeps DEF Enrich
<1>5. QED
  BY <1>2, <1>3, <1>4

LEMMA PlacesStep ==
  ASSUME IInv, NEW p \in Parts, MovePart(p) \/ UnassignPart(p)
  PROVE  IInv'
<1>1. ASSUME NEW at \in At, NEW mode \in Modes, p \in DOMAIN store.parts,
             at = Nowhere \/ (Supported(store, at) /\ ~Occupied(store, at, p))
      PROVE  Sound(Put(store, p, at, mode), made) /\ p \in DOMAIN Put(store, p, at, mode).parts
  <2>1. ValidSnapshot(Put(store, p, at, mode))
    BY <1>1, StoreTyped, PutValid, ValidSplit
  <2>2. /\ Put(store, p, at, mode) \in Inventories /\ Put(store, p, at, mode).racks = store.racks
        /\ DOMAIN Put(store, p, at, mode).parts = DOMAIN store.parts
    BY <1>1, StoreTyped, PartPut
  <2>3. QED
    BY <1>1, <2>1, <2>2, StoreTyped DEF Sound, Racked
<1>2. CASE MovePart(p)
  <2>1. PICK at \in (DOMAIN store.racks) \X (1..Slots) :
          ~Occupied(store, at, p) /\ SaveEdit(Put(store, p, at, "manual"))
    BY <1>2 DEF MovePart
  <2>2. at \in At /\ "manual" \in Modes /\ Supported(store, at) /\ p \in DOMAIN store.parts
    BY <1>2, StoreTyped DEF Modes, Supported, MovePart
  <2>3. Sound(Put(store, p, at, "manual"), made)
    BY <1>1, <2>1, <2>2
  <2>4. QED
    BY <1>2, <2>1, <2>3, SaveEditKeeps DEF MovePart
<1>3. CASE UnassignPart(p)
  <2>1. PICK mode \in Modes : SavePart(Put(store, p, Nowhere, mode), p)
    BY <1>3 DEF UnassignPart, Modes
  <2>2. Nowhere \in At /\ p \in DOMAIN store.parts
    BY <1>3 DEF UnassignPart, Placed, At
  <2>3. Sound(Put(store, p, Nowhere, mode), made) /\ p \in DOMAIN Put(store, p, Nowhere, mode).parts
    BY <1>1, <2>2
  <2>4. QED
    BY <1>3, <2>1, <2>3, SavePartKeeps DEF UnassignPart
<1>4. QED
  BY <1>2, <1>3

LEMMA RacksStep ==
  ASSUME IInv, CreateRack \/ ChangeRack \/ ArmRackDeletion \/ ConfirmRackDeletion
  PROVE  IInv'
<1>1. CASE CreateRack
  <2>1. PICK code \in ({0, NextCode(store)} \ Codes(store)) \cap (0..MaxCode),
             type \in Types \cup {"none"} :
          Save(WithRack(store, made + 1, code, type), made + 1, Manual, Stay)
    BY <1>1 DEF CreateRack
  <2>2. Sound(WithRack(store, made + 1, code, type), made + 1) /\ made + 1 \in Nat /\ made <= made + 1
    BY StoreTyped, RackAdded DEF Sound
  <2>3. QED
    BY <1>1, <2>1, <2>2, SaveKeeps, ManualTyped DEF CreateRack
<1>2. CASE ChangeRack
  <2>1. PICK r \in DOMAIN store.racks, rack \in RackType :
          /\ SaveEdit([store EXCEPT !.racks[r] = rack])
          /\ rack.code \notin Codes(store) \/ rack.code = store.racks[r].code
    <3>1. PICK r \in DOMAIN store.racks :
            \/ \E code \in (1..MaxCode) \ Codes(store) : SaveEdit([store EXCEPT !.racks[r].code = code])
            \/ \E type \in Types \cup {"none"} : SaveEdit([store EXCEPT !.racks[r].type = type])
      BY <1>2 DEF ChangeRack
    <3>2. store.racks[r] \in RackType
      BY StoreTyped DEF Inventories
    <3>3. CASE \E code \in (1..MaxCode) \ Codes(store) : SaveEdit([store EXCEPT !.racks[r].code = code])
      <4>1. PICK code \in (1..MaxCode) \ Codes(store) : SaveEdit([store EXCEPT !.racks[r].code = code])
        BY <3>3
      <4> DEFINE rack == [store.racks[r] EXCEPT !.code = code]
      <4>2. rack \in RackType /\ rack.code = code
        BY <3>2, RackAssumption DEF RackType
      <4>3. [store EXCEPT !.racks[r].code = code] = [store EXCEPT !.racks[r] = rack]
        BY StoreTyped DEF Inventories
      <4> HIDE DEF rack
      <4>4. QED
        BY <4>1, <4>2, <4>3
    <3>4. CASE \E type \in Types \cup {"none"} : SaveEdit([store EXCEPT !.racks[r].type = type])
      <4>1. PICK type \in Types \cup {"none"} : SaveEdit([store EXCEPT !.racks[r].type = type])
        BY <3>4
      <4> DEFINE rack == [store.racks[r] EXCEPT !.type = type]
      <4>2. rack \in RackType /\ rack.code = store.racks[r].code
        BY <3>2 DEF RackType
      <4>3. [store EXCEPT !.racks[r].type = type] = [store EXCEPT !.racks[r] = rack]
        BY StoreTyped DEF Inventories
      <4> HIDE DEF rack
      <4>4. QED
        BY <4>1, <4>2, <4>3
    <3>5. QED
      BY <3>1, <3>3, <3>4
  <2>2. Sound([store EXCEPT !.racks[r] = rack], made)
    BY <2>1, StoreTyped, RackChanged
  <2>3. QED
    BY <1>2, <2>1, <2>2, SaveEditKeeps DEF ChangeRack
<1>3. CASE UNCHANGED <<store, commits, draft, shown, edits, made, session>>
  BY <1>3 DEF IInv, SoundHistory, FormTyped, ImportTyped, edits
<1>4. CASE ArmRackDeletion
  BY <1>3, <1>4 DEF ArmRackDeletion
<1>5. CASE ConfirmRackDeletion
  <2>1. CASE armed \in DOMAIN store.racks /\ EmptyRack(store, armed)
    BY <1>5, <2>1, StoreTyped, RackRemoved, SaveEditKeeps DEF ConfirmRackDeletion
  <2>2. CASE ~(armed \in DOMAIN store.racks /\ EmptyRack(store, armed))
    BY <1>3, <1>5, <2>2 DEF ConfirmRackDeletion
  <2>3. QED
    BY <2>1, <2>2
<1>6. QED
  BY <1>1, <1>2, <1>4, <1>5

LEMMA BlankTyped ==
  /\ Blank \in PartType /\ Blank.at = Nowhere
  /\ \A mode \in Modes : [Blank EXCEPT !.mode = mode] \in PartType
  /\ \A kind \in Kinds, mode \in Modes, at \in At, qty \in Int :
       [qty |-> qty, kind |-> kind, mode |-> mode, at |-> at] \in PartType
<1>1. "placeholder" \in Kinds
  BY DEF Kinds
<1>2. QED
  BY <1>1, NewPartTyped DEF Blank, PartType

LEMMA ChoiceTyped ==
  ASSUME IInv, NEW part \in PartType, NEW p, NEW choice \in StorageChoices(part, p)
  PROVE  choice[1] \in Modes /\ choice[2] \in At
BY StoreTyped DEF StorageChoices, Modes, At

\* A form is typed, of a part that was there.
LEMMA FormStep ==
  ASSUME IInv, NoNewParts,
         (\E p \in Parts : OpenForm(p)) \/ EditField \/ CloseForm
  PROVE  IInv'
<1>1. UNCHANGED <<store, commits, draft, shown, import, made, session>>
  BY DEF OpenForm, EditField, CloseForm, pages
<1>2. FormTyped'
  <2>1. CASE \E p \in Parts : OpenForm(p)
    <3>1. PICK p \in Parts : OpenForm(p)
      BY <2>1
    <3>2. p \in DOMAIN store.parts
          /\ form' = [open |-> TRUE, part |-> p, isNew |-> FALSE,
                      original |-> store.parts[p], edited |-> store.parts[p]]
      BY <3>1, SessionTyped DEF OpenForm
    <3>3. QED
      BY <3>2, StoreTyped DEF FormTyped
  <2>2. CASE EditField
    <3>1. form.open /\ form.edited \in PartType /\ FormTyped
      BY <2>2 DEF EditField, IInv, FormTyped
    <3>2. CASE \E q \in 0..session.quantity : form' = [form EXCEPT !.edited.qty = q]
      <4>1. PICK q \in 0..session.quantity : form' = [form EXCEPT !.edited.qty = q]
        BY <3>2
      <4>2. q \in Int
        BY SessionTyped
      <4>3. [form.edited EXCEPT !.qty = q] \in PartType
        BY <3>1, <4>2 DEF PartType
      <4>4. form' = [form EXCEPT !.edited = [form.edited EXCEPT !.qty = q]]
        BY <3>1, <4>1 DEF FormTyped
      <4>5. QED
        BY <3>1, <4>3, <4>4 DEF FormTyped
    <3>3. CASE \E kind \in session.kinds : form' = [form EXCEPT !.edited.kind = kind]
      <4>1. PICK kind \in Kinds : form' = [form EXCEPT !.edited.kind = kind]
        BY <3>3, SessionTyped
      <4>2. [form.edited EXCEPT !.kind = kind] \in PartType
        BY <3>1 DEF PartType
      <4>3. form' = [form EXCEPT !.edited = [form.edited EXCEPT !.kind = kind]]
        BY <3>1, <4>1 DEF FormTyped
      <4>4. QED
        BY <3>1, <4>2, <4>3 DEF FormTyped
    <3>4. CASE \E choice \in StorageChoices(form.edited, form.part) :
                 form' = [form EXCEPT !.edited.mode = choice[1], !.edited.at = choice[2]]
      <4>1. PICK mode \in Modes, at \in At : form' = [form EXCEPT !.edited.mode = mode, !.edited.at = at]
        BY <3>1, <3>4, ChoiceTyped
      <4>2. [form.edited EXCEPT !.mode = mode, !.at = at] \in PartType
        BY <3>1 DEF PartType
      <4>3. form' = [form EXCEPT !.edited = [form.edited EXCEPT !.mode = mode, !.at = at]]
        BY <3>1, <4>1 DEF FormTyped
      <4>4. QED
        BY <3>1, <4>2, <4>3 DEF FormTyped
    <3>5. QED
      BY <2>2, <3>2, <3>3, <3>4 DEF EditField
  <2>3. CASE CloseForm
    BY <2>3, BlankTyped DEF CloseForm, NoForm, FormTyped
  <2>4. QED
    BY <2>1, <2>2, <2>3
<1>3. QED
  BY <1>1, <1>2 DEF IInv, SoundHistory, ImportTyped

\* A part that the form changed is saved, without a place that another part has.
LEMMA SaveFormStep ==
  ASSUME IInv, SaveForm
  PROVE  IInv'
<1> DEFINE p == form.part
           part == MergeItem(form.original, form.edited, store.parts[p], "typed")
           merged == [store EXCEPT !.parts[p] = part]
           inv == ReleasePlacement(merged, p)
<1>1. /\ p \in DOMAIN store.parts /\ SavePart(inv, p) /\ form' = NoForm /\ import' = import
      /\ form.original \in PartType /\ form.edited \in PartType
  <2>1. form.open /\ ~form.isNew /\ form.original \in PartType /\ form.edited \in PartType
    BY DEF SaveForm, IInv, FormTyped
  <2>2. QED
    BY <2>1 DEF SaveForm
<1>2. part \in PartType /\ p \in Parts
  BY <1>1, StoreTyped, MergedPart
<1> HIDE DEF part, p
<1>3. merged = WithPart(store, p, part)
  <2>1. [store.parts EXCEPT ![p] = part] = With(store.parts, p, part)
    BY <1>1 DEF With
  <2>2. QED
    BY <2>1, StoreTyped DEF WithPart, Inventories
<1>4. Racked(merged, made) /\ p \in DOMAIN merged.parts /\ ValidBeside(merged, p)
  <2> HIDE DEF merged
  <2>1. Racked(store, made) /\ ValidSnapshot(store)
    BY StoreTyped
  <2>2. /\ Racked(WithPart(store, p, part), made) /\ ValidBeside(WithPart(store, p, part), p)
        /\ DOMAIN WithPart(store, p, part).parts = DOMAIN store.parts \cup {p}
    BY <1>2, <2>1, PartChanged
  <2>3. QED
    BY <1>3, <2>2
<1> HIDE DEF merged
<1>5. Sound(inv, made) /\ p \in DOMAIN inv.parts
  <2>1. Sound(inv, made)
    BY <1>4, ReleaseSound
  <2>2. Nowhere \in At /\ "automatic" \in Modes /\ merged \in Inventories
    BY <1>4 DEF At, Modes, Racked
  <2>3. DOMAIN Put(merged, p, Nowhere, "automatic").parts = DOMAIN merged.parts
    BY <1>4, <2>2, PartPut
  <2>4. QED
    BY <1>4, <2>1, <2>3 DEF ReleasePlacement, Displaced
<1> HIDE DEF inv
<1>6. SoundHistory' /\ made <= made' /\ session' = session
  BY <1>1, <1>5, SavePartSound DEF IInv
<1>7. ImportTyped'
  BY <1>1, <1>6, ImportKept DEF IInv, SoundHistory
<1>8. FormTyped'
  BY <1>1, BlankTyped DEF NoForm, FormTyped
<1>9. QED
  BY <1>6, <1>7, <1>8 DEF IInv

LEMMA NoImportTyped ==
  ASSUME made \in Nat, import = NoImport
  PROVE  ImportTyped
<1>1. Sound(Empty, made) /\ Empty \in Inventories
  BY EmptySound DEF Sound, Racked
<1>2. QED
  BY <1>1 DEF NoImport, ImportTyped, Sound

\* A row of an import is staged.
LEMMA AcceptStep ==
  ASSUME IInv, NEW p \in Parts, AcceptRow(p)
  PROVE  IInv'
<1> DEFINE staged == import.staged
           Staged(row) == Reconciled(WithPart(staged, p, row), p, made + 1)
<1>1. PICK kind \in session.kinds, choice \in StorageChoices(Blank, p) :
        LET row == StagedRow(p, kind, choice)
        IN  /\ import' = [import EXCEPT !.staged = Staged(row), !.rows[p] = 1]
            /\ made' = Max({made} \cup DOMAIN Staged(row).racks)
  BY DEF AcceptRow
<1>2. kind \in Kinds /\ choice[1] \in Modes /\ choice[2] \in At
  BY SessionTyped, BlankTyped, ChoiceTyped
<1>3. /\ import.stage = "review" /\ ImportTyped /\ Racked(staged, made)
      /\ DOMAIN import.original.parts \subseteq DOMAIN staged.parts
      /\ \A q \in DOMAIN staged.parts : staged.parts[q] \in PartType
  <2>1. import.stage = "review" /\ ImportTyped
    BY DEF AcceptRow, IInv
  <2>2. Racked(staged, made) /\ DOMAIN import.original.parts \subseteq DOMAIN staged.parts
    BY <2>1 DEF ImportTyped
  <2>3. QED
    BY <2>1, <2>2, InventoryTyped DEF Racked
<1> DEFINE row == StagedRow(p, kind, choice)
<1>4. row \in PartType
  <2>1. CASE p \in DOMAIN import.original.parts
    <3> DEFINE old == staged.parts[p]
    <3>1. old \in PartType
      BY <1>3, <2>1
    <3> HIDE DEF old
    <3>2. [qty |-> old.qty + 1,
           kind |-> IF old.kind = "placeholder" THEN kind ELSE old.kind,
           mode |-> IF choice[1] = "automatic" THEN old.mode ELSE choice[1],
           at |-> IF choice[1] = "automatic" THEN old.at ELSE choice[2]] \in PartType
      BY <1>2, <3>1 DEF PartType
    <3>3. QED
      BY <2>1, <3>2 DEF old, StagedRow
  <2>2. CASE p \notin DOMAIN import.original.parts
    <3>1. [qty |-> 1, kind |-> kind, mode |-> choice[1], at |-> choice[2]] \in PartType
      BY <1>2, BlankTyped
    <3>2. QED
      BY <2>2, <3>1 DEF StagedRow
  <2>3. QED
    BY <2>1, <2>2
<1>5. /\ import' = [import EXCEPT !.staged = Staged(row), !.rows[p] = 1]
      /\ made' = Max({made} \cup DOMAIN Staged(row).racks)
  BY <1>1
<1> HIDE DEF row
<1> DEFINE inv == WithPart(staged, p, row)
<1>6. Racked(inv, made) /\ DOMAIN inv.parts = DOMAIN staged.parts \cup {p}
  BY <1>3, <1>4, PartChanged
<1> HIDE DEF inv
<1>7. made' \in Nat /\ made <= made' /\ Racked(Staged(row), made') /\ DOMAIN Staged(row).parts = DOMAIN inv.parts
  BY <1>4, <1>5, <1>6, StoreTyped, PartPlaced DEF inv
<1>8. /\ UNCHANGED <<store, commits, draft, shown, form, session>>
  BY DEF AcceptRow, pages
<1> HIDE DEF Staged
<1>9. ImportTyped'
  <2>1. Sound(import.original, made')
    BY <1>3, <1>7, StoreTyped, SoundMore DEF ImportTyped
  <2>2. /\ import'.staged = Staged(row) /\ import'.original = import.original /\ import'.stage = "review"
        /\ import' = [stage |-> "review", original |-> import.original, staged |-> Staged(row),
                      rows |-> [import.rows EXCEPT ![p] = 1]]
    BY <1>3, <1>5 DEF ImportTyped
  <2>3. [import.rows EXCEPT ![p] = 1] \in [Parts -> Nat] /\ Staged(row) \in Inventories
    BY <1>3, <1>7 DEF ImportTyped, Racked
  <2>4. import.original \in Inventories
    BY <1>3 DEF ImportTyped
  <2>5. DOMAIN import.original.parts \subseteq DOMAIN Staged(row).parts
    BY <1>3, <1>6, <1>7
  <2>6. QED
    BY <1>7, <2>1, <2>2, <2>3, <2>4, <2>5 DEF ImportTyped
<1>10. SoundHistory'
  BY <1>7, <1>8, StoreTyped, SoundMore DEF IInv, SoundHistory
<1>11. QED
  BY <1>8, <1>9, <1>10 DEF IInv, FormTyped

\* An import begins, is committed, or taken back.
LEMMA ImportStep ==
  ASSUME IInv, BeginImport \/ CommitImport \/ RetryImport \/ CancelImport
  PROVE  IInv'
<1>1. ImportTyped /\ made \in Nat /\ made <= made
  BY StoreTyped DEF IInv
<1>2. CASE BeginImport
  <2>1. UNCHANGED <<store, commits, draft, shown, form, made, session>>
    BY <1>2 DEF BeginImport, pages
  <2>2. import' = [stage |-> "review", original |-> store, staged |-> store, rows |-> [q \in Parts |-> 0]]
    BY <1>2 DEF BeginImport, NoImport
  <2>3. ImportTyped'
    BY <2>1, <2>2, StoreTyped DEF ImportTyped
  <2>4. QED
    BY <2>1, <2>3 DEF IInv, SoundHistory, FormTyped
<1>3. ASSUME NEW inv, Sound(inv, made), Save(inv, made, Manual, Stay), form' = form,
             NEW original, Sound(original, made), ImportSaved(original)
      PROVE  IInv'
  <2>1. SoundHistory' /\ made <= made' /\ session' = session
    BY <1>1, <1>3, SaveSound, ManualTyped DEF IInv
  <2>2. ImportTyped'
    <3>1. CASE import' = NoImport
      <4>1. made' \in Nat
        BY <2>1 DEF SoundHistory
      <4>2. Sound(Empty, made') /\ Empty \in Inventories
        BY <4>1, EmptySound DEF Sound, Racked
      <4>3. QED
        BY <3>1, <4>2 DEF NoImport, ImportTyped, Sound
    <3>2. CASE import' = [import EXCEPT !.stage = "pending", !.original = original]
      <4>1. Sound(original, made') /\ Racked(import.staged, made') /\ original \in Inventories
        BY <1>1, <1>3, <2>1, SoundMore, RackedMore DEF ImportTyped, SoundHistory, Sound, Racked
      <4>2. import' = [stage |-> "pending", original |-> original, staged |-> import.staged, rows |-> import.rows]
        BY <1>1, <3>2 DEF ImportTyped
      <4>3. QED
        BY <1>1, <4>1, <4>2 DEF ImportTyped
    <3>3. QED
      BY <1>3, <3>1, <3>2 DEF ImportSaved
  <2>3. QED
    BY <1>3, <2>1, <2>2 DEF IInv, FormTyped
<1>4. CASE CommitImport
  <2>1. Sound(MergeInventory(import.original, import.staged, store), made)
    BY <1>1, StoreTyped, MergeSound DEF ImportTyped
  <2>2. QED
    BY <1>3, <1>4, <2>1, StoreTyped DEF CommitImport
<1>5. CASE RetryImport
  BY <1>1, <1>3, <1>5, StoreTyped DEF RetryImport, ImportTyped
<1>6. CASE CancelImport
  <2>1. /\ UNCHANGED <<commits, draft, shown, form, made, session>> /\ import' = NoImport
        /\ store' \in {store, import.original}
    BY <1>6 DEF CancelImport, pages
  <2>2. Sound(store', made')
    BY <1>1, <2>1, StoreTyped DEF ImportTyped
  <2>3. Sound(Empty, made') /\ Empty \in Inventories
    BY <1>1, <2>1, EmptySound DEF Sound, Racked
  <2>4. ImportTyped'
    BY <2>1, <2>3 DEF NoImport, ImportTyped, Sound
  <2>5. QED
    BY <2>1, <2>2, <2>4 DEF IInv, SoundHistory, FormTyped
<1>7. QED
  BY <1>2, <1>4, <1>5, <1>6

LEMMA PatchedTyped ==
  ASSUME NEW T, NEW D, NEW E, NEW f \in [D -> T], NEW g \in [E -> T], NEW xs
  PROVE  Patched(f, g, xs) \in [(D \ xs) \cup (E \cap xs) -> T]
BY DEF Patched

\* An undo, a checkpoint, and the History page.
LEMMA HistoryStep ==
  ASSUME IInv, Asked, UndoLast \/ Checkpoint \/ SelectCommit \/ AskRevert \/ ConfirmRevert
  PROVE  IInv'
<1>1. /\ made \in Nat /\ made <= made /\ Len(commits) \in Nat /\ shown \in 1..Len(commits)
      /\ \A k \in 1..Len(commits) : Sound(commits[k].snapshot, made)
  BY DEF IInv, SoundHistory
<1>2. CASE UndoLast
  <2> DEFINE S == Undoable(commits)
             k == Max(S)
  <2>1. S \in SUBSET Nat /\ S # {} /\ \A j \in S : j <= Len(commits) /\ j \in 2..Len(commits)
    BY <1>1, <1>2 DEF UndoLast, Undoable
  <2>2. Save(commits[k - 1].snapshot, made, Draft(FALSE, k), Stay) /\ UNCHANGED edits
    BY <1>2 DEF UndoLast
  <2> HIDE DEF S
  <2>3. k \in S
    BY <1>1, <2>1, Greatest
  <2> HIDE DEF k
  <2>4. k \in Nat /\ k - 1 \in 1..Len(commits)
    BY <1>1, <2>1, <2>3
  <2>5. QED
    BY <1>1, <2>2, <2>4, SaveKeeps, ManualTyped
<1>3. CASE Checkpoint
  BY <1>1, <1>3, StoreTyped, SaveKeeps, ManualTyped DEF Checkpoint
<1>4. CASE SelectCommit \/ AskRevert
  <2>1. UNCHANGED <<store, commits, draft, form, import, made, session>> /\ shown' \in 1..Len(commits)
    BY <1>1, <1>4 DEF SelectCommit, AskRevert, edits
  <2>2. QED
    BY <2>1 DEF IInv, SoundHistory, FormTyped, ImportTyped
<1>5. CASE ConfirmRevert
  <2> DEFINE target == IF confirming = "snapshot" THEN commits[shown].snapshot
                                                   ELSE ReverseTarget(store, shown)
  <2>1. CASE UNCHANGED <<store, commits, draft, shown, form, import, made, session>>
    BY <2>1 DEF IInv, SoundHistory, FormTyped, ImportTyped
  <2>2. CASE /\ Save(target, made, Draft(FALSE, shown), Closed) /\ UNCHANGED edits
             /\ confirming # "snapshot" => Reversible(store, shown)
    <3>1. Draft(FALSE, shown) \in DraftType
      <4>1. shown \in Nat
        BY <1>1
      <4>2. QED
        BY <4>1 DEF Draft, DraftType
    <3>2. CASE confirming = "snapshot"
      <4>1. Sound(target, made)
        BY <1>1, <3>2
      <4> HIDE DEF target
      <4>2. QED
        BY <1>1, <2>2, <3>1, <4>1, SaveKeeps
    <3>3. CASE confirming # "snapshot"
      <4> DEFINE before == commits[shown - 1].snapshot
                 after == commits[shown].snapshot
                 parts == Patched(store.parts, before.parts, Differs(before.parts, after.parts))
                 racks == Patched(store.racks, before.racks, Differs(before.racks, after.racks))
      <4>1. target = [parts |-> parts, racks |-> racks] /\ ValidSnapshot(target)
        BY <2>2, <3>3 DEF Reversible, ReverseTarget
      <4>2. Racked(before, made) /\ Racked(store, made)
        <5>1. shown - 1 \in 1..Len(commits)
          BY <1>1, <2>2, <3>3 DEF Reversible
        <5>2. QED
          BY <1>1, <5>1, StoreTyped DEF Sound
      <4> HIDE DEF before, after, target
      <4>3. PICK D1 \in SUBSET Parts, D2 \in SUBSET Parts :
              store.parts \in [D1 -> PartType] /\ before.parts \in [D2 -> PartType]
        BY <4>2 DEF Racked, Inventories
      <4>4. PICK E1 \in SUBSET (1..made), E2 \in SUBSET (1..made) :
              store.racks \in [E1 -> RackType] /\ before.racks \in [E2 -> RackType]
        BY <4>2 DEF Racked, Inventories
      <4>5. /\ parts \in [(D1 \ Differs(before.parts, after.parts))
                          \cup (D2 \cap Differs(before.parts, after.parts)) -> PartType]
            /\ racks \in [(E1 \ Differs(before.racks, after.racks))
                          \cup (E2 \cap Differs(before.racks, after.racks)) -> RackType]
        BY <4>3, <4>4, PatchedTyped
      <4> HIDE DEF parts, racks
      <4>6. target.parts = parts /\ target.racks = racks
        BY <4>1
      <4>7. target \in Inventories /\ DOMAIN target.racks \subseteq 1..made
        <5>1. PICK D \in SUBSET Parts, E \in SUBSET (1..made) :
                parts \in [D -> PartType] /\ racks \in [E -> RackType]
          BY <4>5
        <5>2. E \in SUBSET Nat
          BY <1>1
        <5>3. QED
          BY <4>1, <4>6, <5>1, <5>2 DEF Inventories
      <4>8. Sound(target, made)
        BY <4>1, <4>7 DEF Sound, Racked, ValidSnapshot
      <4>9. QED
        BY <1>1, <2>2, <3>1, <4>8, SaveKeeps
    <3>4. QED
      BY <3>2, <3>3
  <2>3. QED
    <3>1. \/ UNCHANGED <<store, commits, draft, shown, form, import, made, session>>
          \/ /\ Save(target, made, Draft(FALSE, shown), Closed) /\ UNCHANGED edits
             /\ confirming # "snapshot" => Reversible(store, shown)
      BY <1>5 DEF ConfirmRevert, edits, Asked
    <3>2. QED
      BY <2>1, <2>2, <3>1
<1>6. QED
  BY <1>2, <1>3, <1>4, <1>5

LEMMA IInvInit ==
  ASSUME Init
  PROVE  IInv
<1>1. made = 0 /\ made \in Nat /\ Sound(Empty, made) /\ Empty \in Inventories
  BY EmptySound DEF Init, Sound, Racked
<1>2. commits = <<Commit(Empty, NoDraft, FALSE)>>
  BY DEF Init
<1>3. NoDraft \in DraftType /\ Commit(Empty, NoDraft, FALSE) \in CommitType
      /\ Commit(Empty, NoDraft, FALSE).snapshot = Empty
  BY <1>1 DEF NoDraft, DraftType, Commit, CommitType
<1>4. commits \in Seq(CommitType) /\ Len(commits) = 1 /\ commits[1].snapshot = Empty
  <2> DEFINE first == Commit(Empty, NoDraft, FALSE)
  <2>1. first \in CommitType /\ first.snapshot = Empty /\ commits = <<first>>
    BY <1>2, <1>3
  <2> HIDE DEF first
  <2>2. QED
    BY <2>1
<1>5. SoundHistory
  <2>1. store = Empty /\ shown = 1 /\ draft = NoDraft
    BY DEF Init
  <2>2. \A k \in 1..Len(commits) : Sound(commits[k].snapshot, made)
    BY <1>1, <1>4
  <2>3. QED
    BY <1>1, <1>3, <1>4, <2>1, <2>2 DEF SoundHistory
<1>6. FormTyped
  BY BlankTyped DEF Init, FormTyped, NoForm
<1>7. ImportTyped
  BY <1>1, NoImportTyped DEF Init
<1>8. QED
  BY <1>5, <1>6, <1>7 DEF Init, IInv

LEMMA IInvStep ==
  ASSUME IInv, Asked, NoNewParts, [Next]_vars
  PROVE  IInv'
<1>1. CASE \E p \in Parts : AddPart(p) \/ DeletePart(p) \/ AdjustQuantity(p)
  BY <1>1, PartsStep
<1>2. CASE \E p \in Parts : Scan(p) \/ Receive(p) \/ Enrich(p)
  BY <1>2, ScansStep
<1>3. CASE \E p \in Parts : MovePart(p) \/ UnassignPart(p)
  BY <1>3, PlacesStep
<1>4. CASE (\E p \in Parts : OpenForm(p)) \/ EditField \/ CloseForm
  BY <1>4, FormStep
<1>5. CASE \E p \in Parts : AcceptRow(p)
  BY <1>5, AcceptStep
<1>6. CASE UNCHANGED vars
  BY <1>6 DEF vars, pages, edits, IInv, SoundHistory, FormTyped, ImportTyped
<1>7. QED
  BY <1>1, <1>2, <1>3, <1>4, <1>5, <1>6, RetryStep, SaveFormStep, ImportStep, RacksStep, HistoryStep
     DEF Next

\* No sequence of edits, placements, vendor answers, imports, undos and reversals leads to
\* an inventory that the next save refuses (validateSnapshotSemantics), if no form of a
\* new part is used: that form adds the part where it was filled in, without a comparison.
THEOREM SavesNotRefused == NoNewParts => (Spec => []SaveNeverRefused)
<1>1. Init => Asked /\ IInv
  BY IInvInit DEF Init, Asked
<1>2. ASSUME NoNewParts, Asked /\ IInv, [Next]_vars
      PROVE  (Asked /\ IInv)'
  BY <1>2, AskedStep, IInvStep
<1>3. IInv => SaveNeverRefused
  BY ReconcileSound DEF IInv, SoundHistory, SaveNeverRefused, Sound
<1>4. QED
  <2>1. NoNewParts /\ Asked /\ IInv /\ [Next]_vars => (Asked /\ IInv)'
    BY <1>2
  <2>2. CASE NoNewParts
    BY <1>1, <1>3, <2>1, <2>2, PTL DEF Spec
  <2>3. QED
    BY <2>2

-----------------------------------------------------------------------------
(* The quantities *)

\* An automatic part has no place until it is placed, and is then no more automatic.
IsPart(part) ==
  /\ part = [qty |-> part.qty, kind |-> part.kind, mode |-> part.mode, at |-> part.at]
  /\ part.qty \in Nat
  /\ part.mode = "automatic" => part.at = Nowhere

IsInventory(inv) ==
  /\ inv = [parts |-> inv.parts, racks |-> inv.racks]
  /\ inv.parts = [p \in DOMAIN inv.parts |-> inv.parts[p]]
  /\ DOMAIN inv.parts \subseteq Parts
  /\ \A p \in DOMAIN inv.parts : IsPart(inv.parts[p])

\* The same parts in the same quantities.
SameStock(inv, other) ==
  /\ DOMAIN inv.parts = DOMAIN other.parts
  /\ \A p \in DOMAIN other.parts : inv.parts[p].qty = other.parts[p].qty

\* One field of a part is another.
LEMMA QuantityField ==
  ASSUME NEW part, IsPart(part), NEW q \in Nat
  PROVE  IsPart([part EXCEPT !.qty = q]) /\ [part EXCEPT !.qty = q].qty = q
<1>1. PICK a, b, c, d : part = [qty |-> a, kind |-> b, mode |-> c, at |-> d]
  BY DEF IsPart
<1>2. [part EXCEPT !.qty = q] = [qty |-> q, kind |-> b, mode |-> c, at |-> d]
  BY <1>1
<1>3. QED
  BY <1>1, <1>2 DEF IsPart

LEMMA KindField ==
  ASSUME NEW part, IsPart(part), NEW kind
  PROVE  IsPart([part EXCEPT !.kind = kind]) /\ [part EXCEPT !.kind = kind].qty = part.qty
<1>1. PICK a, b, c, d : part = [qty |-> a, kind |-> b, mode |-> c, at |-> d]
  BY DEF IsPart
<1>2. [part EXCEPT !.kind = kind] = [qty |-> a, kind |-> kind, mode |-> c, at |-> d]
  BY <1>1
<1>3. QED
  BY <1>1, <1>2 DEF IsPart

Moved(part, mode, at) == [part EXCEPT !.mode = mode, !.at = at]

LEMMA PlaceField ==
  ASSUME NEW part, IsPart(part), NEW mode, NEW at, mode = "automatic" => at = Nowhere
  PROVE  IsPart(Moved(part, mode, at)) /\ Moved(part, mode, at).qty = part.qty
<1>1. PICK a, b, c, d : part = [qty |-> a, kind |-> b, mode |-> c, at |-> d]
  BY DEF IsPart
<1> DEFINE next == [part EXCEPT !.mode = mode, !.at = at]
<1>2. next.qty = a /\ next.kind = b /\ next.mode = mode /\ next.at = at
  BY <1>1
<1>3. DOMAIN part = {"qty", "kind", "mode", "at"} /\ next = [x \in DOMAIN part |-> next[x]]
  BY <1>1
<1>4. Moved(part, mode, at) = next
  BY DEF Moved
<1> HIDE DEF next
<1>5. next = [qty |-> a, kind |-> b, mode |-> mode, at |-> at]
  BY <1>2, <1>3
<1>6. IsPart(next) /\ part.qty = a
  BY <1>1, <1>5 DEF IsPart
<1>7. QED
  BY <1>2, <1>4, <1>6

\* Two fields, in either order.
LEMMA EitherOrder ==
  ASSUME NEW part, IsPart(part), NEW mode, NEW at
  PROVE  [part EXCEPT !.at = at, !.mode = mode] = Moved(part, mode, at)
<1>1. PICK a, b, c, d : part = [qty |-> a, kind |-> b, mode |-> c, at |-> d]
  BY DEF IsPart
<1> DEFINE next == [part EXCEPT !.mode = mode, !.at = at]
           other == [part EXCEPT !.at = at, !.mode = mode]
           fields == {"qty", "kind", "mode", "at"}
<1>2. /\ next.qty = a /\ next.kind = b /\ next.mode = mode /\ next.at = at
      /\ other.qty = a /\ other.kind = b /\ other.mode = mode /\ other.at = at
  BY <1>1
<1>3. DOMAIN part = fields /\ next = [x \in DOMAIN part |-> next[x]] /\ other = [x \in DOMAIN part |-> other[x]]
  BY <1>1
<1>4. \A x \in fields : next[x] = other[x]
  BY <1>2
<1>5. Moved(part, mode, at) = next
  BY DEF Moved
<1>6. next = other
  <2> HIDE DEF next, other, fields
  <2>1. QED
    BY <1>3, <1>4
<1>7. QED
  BY <1>5, <1>6

LEMMA PutStock ==
  ASSUME NEW inv, IsInventory(inv), NEW p \in DOMAIN inv.parts, NEW at, NEW mode,
         mode = "automatic" => at = Nowhere
  PROVE  IsInventory(Put(inv, p, at, mode)) /\ SameStock(Put(inv, p, at, mode), inv)
<1> DEFINE part == [inv.parts[p] EXCEPT !.at = at, !.mode = mode]
           parts == With(inv.parts, p, part)
<1>1. IsPart(part) /\ part.qty = inv.parts[p].qty
  <2>1. IsPart(inv.parts[p])
    BY DEF IsInventory
  <2>2. part = Moved(inv.parts[p], mode, at)
    BY <2>1, EitherOrder
  <2> HIDE DEF part
  <2>3. QED
    BY <2>1, <2>2, PlaceField
<1> HIDE DEF part
<1>2. DOMAIN parts = DOMAIN inv.parts /\ parts[p] = part /\ parts = [q \in DOMAIN parts |-> parts[q]]
      /\ \A q \in DOMAIN inv.parts \ {p} : parts[q] = inv.parts[q]
  BY DEF With
<1> HIDE DEF parts
<1>3. Put(inv, p, at, mode) = [parts |-> parts, racks |-> inv.racks]
  <2>1. Put(inv, p, at, mode) = [inv EXCEPT !.parts = parts]
    BY DEF Put, parts, part
  <2>2. PICK a, b : a = inv.parts /\ b = inv.racks
    OBVIOUS
  <2>3. inv = [parts |-> a, racks |-> b]
    BY <2>2 DEF IsInventory
  <2>4. QED
    BY <2>1, <2>2, <2>3
<1>4. QED
  BY <1>1, <1>2, <1>3 DEF IsInventory, SameStock

LEMMA RackStock ==
  ASSUME NEW inv, IsInventory(inv), NEW id, NEW code, NEW type
  PROVE  LET next == WithRack(inv, id, code, type)
         IN  IsInventory(next) /\ next.parts = inv.parts
<1> DEFINE racks == With(inv.racks, id, [code |-> code, type |-> type])
<1> HIDE DEF racks
<1>1. [inv EXCEPT !.racks = racks] = [parts |-> inv.parts, racks |-> racks]
  <2>1. PICK a, b : a = inv.parts /\ b = inv.racks
    OBVIOUS
  <2>2. inv = [parts |-> a, racks |-> b]
    BY <2>1 DEF IsInventory
  <2>3. QED
    BY <2>1, <2>2
<1>2. QED
  BY <1>1 DEF WithRack, racks, IsInventory

\* A part is placed as much as there is of it.
LEMMA PlacedStock ==
  ASSUME NEW inv, IsInventory(inv), NEW p \in DOMAIN inv.parts, NEW id
  PROVE  IsInventory(Reconciled(inv, p, id)) /\ SameStock(Reconciled(inv, p, id), inv)
<1> DEFINE Good(x) == IsInventory(x) /\ SameStock(x, inv)
           clear == Put(inv, p, Nowhere, "automatic")
           next == Reconciled(inv, p, id)
           free == FreeSlots(clear, inv.parts[p].kind)
           rack == WithRack(clear, id, NextCode(inv), inv.parts[p].kind)
<1>1. Good(inv) /\ Good(clear) /\ Good(Put(inv, p, Nowhere, "unassigned"))
  BY PutStock DEF SameStock
<1>2. p \in DOMAIN clear.parts
  BY <1>1 DEF SameStock
<1>3. Good(Put(clear, p, FirstFree(clear, free), "manual"))
  <2> HIDE DEF clear
  <2>1. \A at : IsInventory(Put(clear, p, at, "manual")) /\ SameStock(Put(clear, p, at, "manual"), clear)
    BY <1>1, <1>2, PutStock
  <2>2. QED
    BY <1>1, <2>1 DEF SameStock
<1>4. Good(Put(rack, p, <<id, 1>>, "manual"))
  <2> HIDE DEF clear
  <2>1. IsInventory(rack) /\ rack.parts = clear.parts
    BY <1>1, RackStock
  <2> HIDE DEF rack
  <2>2. IsInventory(Put(rack, p, <<id, 1>>, "manual")) /\ SameStock(Put(rack, p, <<id, 1>>, "manual"), rack)
    BY <1>2, <2>1, PutStock
  <2>3. QED
    BY <1>1, <2>1, <2>2 DEF SameStock
<1>5. \/ next = inv \/ next = clear \/ next = Put(inv, p, Nowhere, "unassigned")
      \/ next = Put(clear, p, FirstFree(clear, free), "manual")
      \/ next = Put(rack, p, <<id, 1>>, "manual")
  BY DEF Reconciled
<1> HIDE DEF next, clear, free, rack
<1>6. Good(next)
  BY <1>1, <1>3, <1>4, <1>5
<1>7. QED
  BY <1>6 DEF next

\* So are all.
LEMMA ReconcileStock ==
  ASSUME NEW n, NEW inv, IsInventory(inv)
  PROVE  IsInventory(Reconcile(inv, n).inv) /\ SameStock(Reconcile(inv, n).inv, inv)
<1> DEFINE last == Max({0} \cup DOMAIN inv.parts)
           after == CHOOSE f : Places(f, inv, n, last)
           Good(acc) == IsInventory(acc.inv) /\ SameStock(acc.inv, inv)
<1>1. last \in Nat
  BY LastPart DEF IsInventory
<1>2. Reconcile(inv, n) = after[last]
  BY DEF Reconcile, Places
<1>3. Places(after, inv, n, last)
  BY <1>1, PlacesExist
<1> HIDE DEF last, after
<1>4. /\ after[0] = [inv |-> inv, made |-> n]
      /\ \A p \in 1..last : after[p] = ReconciledNext(after[p - 1], p)
  BY <1>1, <1>3 DEF Places
<1>5. ASSUME NEW acc, Good(acc), NEW p PROVE Good(ReconciledNext(acc, p))
  <2> DEFINE next == Reconciled(acc.inv, p, acc.made + 1)
  <2>1. CASE p \in DOMAIN acc.inv.parts
    <3>1. IsInventory(next) /\ SameStock(next, acc.inv)
      BY <1>5, <2>1, PlacedStock
    <3>2. ReconciledNext(acc, p).inv = next
      BY <2>1 DEF ReconciledNext
    <3> HIDE DEF next
    <3>3. QED
      BY <1>5, <3>1, <3>2 DEF SameStock
  <2>2. CASE p \notin DOMAIN acc.inv.parts
    BY <1>5, <2>2 DEF ReconciledNext
  <2>3. QED
    BY <2>1, <2>2
<1>6. \A p \in 0..last : Good(after[p])
  <2>1. Good(after[0])
    BY <1>4 DEF SameStock
  <2> DEFINE Bad == {p \in Nat : p <= last /\ ~Good(after[p])}
  <2> HIDE DEF Good
  <2>2. SUFFICES ASSUME Bad # {} PROVE FALSE
    BY <1>1
  <2>3. PICK p \in Bad : \A q \in Bad : p <= q
    BY <2>2, Least
  <2>4. p \in 1..last /\ p - 1 \in Nat /\ p - 1 \notin Bad /\ p - 1 <= last
    BY <1>1, <2>1, <2>3
  <2>5. Good(after[p - 1])
    BY <2>4
  <2>6. QED
    BY <1>4, <1>5, <2>3, <2>4, <2>5
<1>7. QED
  BY <1>1, <1>2, <1>6

-----------------------------------------------------------------------------
(* What is saved is settled *)

\* An automatic part that has no place yet: it is a placeholder, or there is no room.
Waits(inv, p) ==
  inv.parts[p].mode = "automatic" =>
    /\ inv.parts[p].at = Nowhere /\ inv.parts[p].kind # "bulky"
    /\ inv.parts[p].kind # "placeholder" =>
         FreeSlots(inv, inv.parts[p].kind) = {} /\ NextCode(inv) > MaxCode

Settled(inv) == \A p \in DOMAIN inv.parts : Waits(inv, p)

\* Where the parts that are placed stay, no slot becomes free.
LEMMA StillWaits ==
  ASSUME NEW inv, NEW next, next.racks = inv.racks,
         \A q \in Placed(inv) : q \in DOMAIN next.parts /\ next.parts[q].at = inv.parts[q].at
  PROVE  /\ \A type : FreeSlots(next, type) \subseteq FreeSlots(inv, type)
         /\ NextCode(next) = NextCode(inv)
         /\ \A q : /\ next.parts[q].mode = inv.parts[q].mode /\ next.parts[q].kind = inv.parts[q].kind
                   /\ next.parts[q].at = inv.parts[q].at
                   /\ Waits(inv, q)
                   => Waits(next, q)
<1>1. \A q \in Placed(inv) : q \in Placed(next) /\ next.parts[q].at = inv.parts[q].at
  BY DEF Placed
<1>2. \A at : Occupied(inv, at, 0) => Occupied(next, at, 0)
  BY <1>1 DEF Occupied
<1>3. \A type : FreeSlots(next, type) \subseteq FreeSlots(inv, type)
  BY <1>2 DEF FreeSlots
<1>4. NextCode(next) = NextCode(inv)
  BY DEF NextCode, Codes
<1>5. QED
  BY <1>3, <1>4 DEF Waits

LEMMA UnmovedField ==
  ASSUME NEW part, IsPart(part), part.mode = "automatic"
  PROVE  [part EXCEPT !.at = Nowhere, !.mode = "automatic"] = part
<1>1. PICK a, b : part = [qty |-> a, kind |-> b, mode |-> "automatic", at |-> Nowhere]
  BY DEF IsPart
<1> DEFINE next == [part EXCEPT !.at = Nowhere, !.mode = "automatic"]
<1>2. next.qty = a /\ next.kind = b /\ next.mode = "automatic" /\ next.at = Nowhere
  BY <1>1
<1>3. DOMAIN part = {"qty", "kind", "mode", "at"} /\ next = [x \in DOMAIN part |-> next[x]]
  BY <1>1
<1> HIDE DEF next
<1>4. next = [qty |-> a, kind |-> b, mode |-> "automatic", at |-> Nowhere]
  BY <1>2, <1>3
<1>5. QED
  BY <1>1, <1>4 DEF next

\* An automatic part that was cleared is as it was.
LEMMA ClearIsSame ==
  ASSUME NEW inv, IsInventory(inv), NEW p \in DOMAIN inv.parts, inv.parts[p].mode = "automatic"
  PROVE  Put(inv, p, Nowhere, "automatic") = inv
<1> DEFINE part == [inv.parts[p] EXCEPT !.at = Nowhere, !.mode = "automatic"]
           parts == With(inv.parts, p, part)
<1>1. part = inv.parts[p]
  <2>1. IsPart(inv.parts[p])
    BY DEF IsInventory
  <2>2. QED
    BY <2>1, UnmovedField
<1> HIDE DEF part
<1>2. parts = inv.parts
  <2>1. DOMAIN parts = DOMAIN inv.parts /\ parts = [q \in DOMAIN inv.parts |-> parts[q]]
        /\ \A q \in DOMAIN inv.parts : parts[q] = inv.parts[q]
    BY <1>1 DEF With
  <2>2. inv.parts = [q \in DOMAIN inv.parts |-> inv.parts[q]]
    BY DEF IsInventory
  <2> HIDE DEF parts
  <2>3. QED
    BY <2>1, <2>2
<1> HIDE DEF parts
<1>3. Put(inv, p, Nowhere, "automatic") = [inv EXCEPT !.parts = parts]
  BY DEF Put, parts, part
<1>4. [inv EXCEPT !.parts = parts] = [parts |-> parts, racks |-> inv.racks]
  <2>1. PICK a, b : a = inv.parts /\ b = inv.racks
    OBVIOUS
  <2>2. inv = [parts |-> a, racks |-> b]
    BY <2>1 DEF IsInventory
  <2>3. QED
    BY <2>1, <2>2
<1>5. QED
  BY <1>2, <1>3, <1>4 DEF IsInventory

\* A part that was put somewhere: it is there, and the others are where they were.
LEMMA PutPlace ==
  ASSUME NEW inv, IsInventory(inv), NEW p \in DOMAIN inv.parts, NEW at, NEW mode, mode # "automatic"
  PROVE  LET next == Put(inv, p, at, mode)
         IN  /\ next.parts[p].mode = mode
             /\ \A q \in DOMAIN inv.parts \ {p} : next.parts[q] = inv.parts[q]
             /\ next.racks = inv.racks /\ DOMAIN next.parts = DOMAIN inv.parts
<1> DEFINE part == [inv.parts[p] EXCEPT !.at = at, !.mode = mode]
           parts == With(inv.parts, p, part)
<1>1. part.mode = mode
  <2>1. IsPart(inv.parts[p])
    BY DEF IsInventory
  <2>2. PICK a, b, c, d : inv.parts[p] = [qty |-> a, kind |-> b, mode |-> c, at |-> d]
    BY <2>1 DEF IsPart
  <2>3. QED
    BY <2>2
<1> HIDE DEF part
<1>2. /\ DOMAIN parts = DOMAIN inv.parts /\ parts[p] = part
      /\ \A q \in DOMAIN inv.parts \ {p} : parts[q] = inv.parts[q]
  BY DEF With
<1> HIDE DEF parts
<1>3. Put(inv, p, at, mode) = [inv EXCEPT !.parts = parts]
  BY DEF Put, parts, part
<1>4. [inv EXCEPT !.parts = parts] = [parts |-> parts, racks |-> inv.racks]
  <2>1. PICK a, b : a = inv.parts /\ b = inv.racks
    OBVIOUS
  <2>2. inv = [parts |-> a, racks |-> b]
    BY <2>1 DEF IsInventory
  <2>3. QED
    BY <2>1, <2>2
<1>5. QED
  BY <1>1, <1>2, <1>3, <1>4

\* One part is placed, or waits, and so do the others; a part that waits is as it was.
LEMMA PlacedSettles ==
  ASSUME NEW inv, IsInventory(inv), NEW p \in DOMAIN inv.parts, NEW id
  PROVE  LET next == Reconciled(inv, p, id)
         IN  /\ Waits(next, p)
             /\ \A q \in DOMAIN inv.parts \ {p} : Waits(inv, q) => Waits(next, q)
             /\ Waits(inv, p) => next = inv
<1> DEFINE part == inv.parts[p]
           clear == Put(inv, p, Nowhere, "automatic")
           next == Reconciled(inv, p, id)
           free == FreeSlots(clear, part.kind)
           code == NextCode(inv)
           rack == WithRack(clear, id, code, part.kind)
           Good(x) == /\ Waits(x, p)
                      /\ \A q \in DOMAIN inv.parts \ {p} : Waits(inv, q) => Waits(x, q)
<1>1. CASE part.mode # "automatic"
  <2>1. next = inv
    BY <1>1 DEF Reconciled
  <2> HIDE DEF next
  <2>2. QED
    BY <1>1, <2>1 DEF Waits, next
<1>2. CASE part.mode = "automatic"
  <2>1. clear = inv /\ part.at = Nowhere
    BY <1>2, ClearIsSame DEF IsInventory, IsPart
  <2>2. ~Supported(inv, part.at)
    BY <2>1, RackAssumption DEF Supported, Nowhere
  <2>3. \/ part.kind = "placeholder" /\ next = inv
        \/ part.kind = "bulky" /\ next = Put(inv, p, Nowhere, "unassigned")
        \/ /\ part.kind \notin {"placeholder", "bulky"}
           /\ \/ free # {} /\ next = Put(inv, p, FirstFree(inv, free), "manual")
              \/ free = {} /\ code > MaxCode /\ next = inv
              \/ free = {} /\ ~(code > MaxCode) /\ next = Put(rack, p, <<id, 1>>, "manual")
    BY <1>2, <2>1, <2>2 DEF Reconciled
  <2>4. rack = WithRack(inv, id, code, part.kind) /\ free = FreeSlots(inv, part.kind)
    BY <2>1
  <2> HIDE DEF clear, next, free, rack, code, part
  \* The part is put in a slot, or is not stored.
  <2>5. ASSUME NEW at, NEW mode, mode # "automatic", next = Put(inv, p, at, mode)
        PROVE  Good(next)
    <3>1. /\ next.parts[p].mode = mode /\ next.racks = inv.racks /\ DOMAIN next.parts = DOMAIN inv.parts
          /\ \A q \in DOMAIN inv.parts \ {p} : next.parts[q] = inv.parts[q]
      BY <2>5, PutPlace
    <3>2. p \notin Placed(inv) /\ Placed(inv) \subseteq DOMAIN inv.parts
      BY <2>1 DEF Placed, part
    <3>3. \A q \in Placed(inv) : q \in DOMAIN next.parts /\ next.parts[q].at = inv.parts[q].at
      BY <3>1, <3>2
    <3>4. \A q : /\ next.parts[q].mode = inv.parts[q].mode /\ next.parts[q].kind = inv.parts[q].kind
                 /\ next.parts[q].at = inv.parts[q].at
                 /\ Waits(inv, q)
                 => Waits(next, q)
      BY <3>1, <3>3, StillWaits
    <3>5. Waits(next, p)
      BY <2>5, <3>1 DEF Waits
    <3>6. QED
      BY <3>1, <3>4, <3>5
  \* A rack is made for it: there was room for racks, so that only placeholders wait.
  <2>6. ASSUME ~(code > MaxCode), next = Put(rack, p, <<id, 1>>, "manual")
        PROVE  Good(next)
    <3>1. IsInventory(rack) /\ rack.parts = inv.parts
      BY <2>4, RackStock
    <3>2. /\ next.parts[p].mode = "manual"
          /\ \A q \in DOMAIN inv.parts \ {p} : next.parts[q] = inv.parts[q]
      BY <2>6, <3>1, PutPlace
    <3>3. Waits(next, p)
      BY <3>2 DEF Waits
    <3>4. ASSUME NEW q \in DOMAIN inv.parts \ {p}, Waits(inv, q) PROVE Waits(next, q)
      BY <2>6, <3>2, <3>4 DEF Waits, code
    <3>5. QED
      BY <3>3, <3>4
  <2>7. CASE next = inv /\ (part.kind = "placeholder" \/ (free = {} /\ code > MaxCode /\ part.kind # "bulky"))
    <3>1. Waits(inv, p)
      BY <2>1, <2>4, <2>7 DEF Waits, part, code
    <3>2. QED
      BY <2>7, <3>1 DEF next
  <2>8. CASE Waits(inv, p)
    <3>1. part.kind # "bulky" /\ (part.kind # "placeholder" => free = {} /\ code > MaxCode)
      BY <1>2, <2>4, <2>8 DEF Waits, part, code
    <3>2. next = inv
      BY <2>3, <3>1
    <3>3. QED
      BY <2>8, <3>2 DEF next
  <2>9. CASE ~Waits(inv, p) /\ ~(next = inv /\ (part.kind = "placeholder" \/ (free = {} /\ code > MaxCode /\ part.kind # "bulky")))
    <3>1. Good(next)
      BY <2>3, <2>5, <2>6, <2>9
    <3>2. QED
      BY <2>9, <3>1 DEF next
  <2>10. QED
    BY <2>3, <2>7, <2>8, <2>9
<1>3. QED
  BY <1>1, <1>2

\* When all parts have been placed, those that are left wait; where all wait, nothing is placed.
LEMMA ReconcileSettles ==
  ASSUME NEW n, NEW inv, IsInventory(inv)
  PROVE  /\ Settled(Reconcile(inv, n).inv)
         /\ Settled(inv) => Reconcile(inv, n).inv = inv
<1> DEFINE last == Max({0} \cup DOMAIN inv.parts)
           after == CHOOSE f : Places(f, inv, n, last)
           Good(acc, p) == /\ IsInventory(acc.inv) /\ DOMAIN acc.inv.parts = DOMAIN inv.parts
                           /\ \A q \in DOMAIN inv.parts : q <= p => Waits(acc.inv, q)
                           /\ Settled(inv) => acc.inv = inv
<1>1. last \in Nat /\ \A p \in DOMAIN inv.parts : p \in Nat /\ p \in 1..last
  BY LastPart, HistoryAssumption DEF IsInventory
<1>2. Reconcile(inv, n) = after[last]
  BY DEF Reconcile, Places
<1>3. Places(after, inv, n, last)
  BY <1>1, PlacesExist
<1> HIDE DEF last, after
<1>4. /\ after[0] = [inv |-> inv, made |-> n]
      /\ \A p \in 1..last : after[p] = ReconciledNext(after[p - 1], p)
  BY <1>1, <1>3 DEF Places
<1>5. ASSUME NEW acc, NEW p \in 1..last, Good(acc, p - 1) PROVE Good(ReconciledNext(acc, p), p)
  <2> DEFINE next == Reconciled(acc.inv, p, acc.made + 1)
  <2>1. \A q \in DOMAIN inv.parts : q <= p => q <= p - 1 \/ q = p
    BY <1>1
  <2>2. CASE p \in DOMAIN acc.inv.parts
    <3>1. /\ IsInventory(next) /\ SameStock(next, acc.inv)
          /\ Waits(next, p) /\ \A q \in DOMAIN acc.inv.parts \ {p} : Waits(acc.inv, q) => Waits(next, q)
          /\ Waits(acc.inv, p) => next = acc.inv
      BY <1>5, <2>2, PlacedStock, PlacedSettles
    <3>2. ReconciledNext(acc, p).inv = next
      BY <2>2 DEF ReconciledNext
    <3> HIDE DEF next
    <3>3. DOMAIN next.parts = DOMAIN inv.parts
      BY <1>5, <3>1 DEF SameStock
    <3>4. \A q \in DOMAIN inv.parts : q <= p => Waits(next, q)
      BY <1>5, <2>1, <3>1
    <3>5. Settled(inv) => next = inv
      BY <1>5, <2>2, <3>1 DEF Settled
    <3>6. QED
      BY <3>1, <3>2, <3>3, <3>4, <3>5
  <2>3. CASE p \notin DOMAIN acc.inv.parts
    <3>1. ReconciledNext(acc, p) = acc
      BY <2>3 DEF ReconciledNext
    <3>2. QED
      BY <1>5, <2>1, <2>3, <3>1
  <2>4. QED
    BY <2>2, <2>3
<1>6. \A p \in 0..last : Good(after[p], p)
  <2>1. Good(after[0], 0)
    <3>1. after[0].inv = inv
      BY <1>4
    <3>2. \A q \in DOMAIN inv.parts : ~(q <= 0)
      BY <1>1
    <3>3. QED
      BY <3>1, <3>2
  <2> DEFINE Bad == {p \in Nat : p <= last /\ ~Good(after[p], p)}
  <2> HIDE DEF Good
  <2>2. SUFFICES ASSUME Bad # {} PROVE FALSE
    BY <1>1
  <2>3. PICK p \in Bad : \A q \in Bad : p <= q
    BY <2>2, Least
  <2>4. p \in 1..last /\ p - 1 \in Nat /\ p - 1 \notin Bad /\ p - 1 <= last
    BY <1>1, <2>1, <2>3
  <2>5. Good(after[p - 1], p - 1)
    BY <2>4
  <2>6. QED
    BY <1>4, <1>5, <2>3, <2>4, <2>5
<1>7. Good(after[last], last)
  BY <1>1, <1>6
<1>8. QED
  BY <1>1, <1>2, <1>7 DEF Settled

-----------------------------------------------------------------------------
(* What is kept of the inventories *)

\* The commits, of which the page shows one; what is saved is the last.
Snapshots ==
  /\ \E S : commits \in Seq(S)
  /\ shown \in 1..Len(commits)
  /\ \A k \in 1..Len(commits) : IsInventory(commits[k].snapshot) /\ Settled(commits[k].snapshot)
  /\ saved = commits[Len(commits)].snapshot

LEMMA SavedSettled ==
  ASSUME Snapshots
  PROVE  Settled(saved) /\ IsInventory(saved)
<1>1. Len(commits) \in 1..Len(commits)
  BY DEF Snapshots
<1>2. QED
  BY <1>1 DEF Snapshots

LEMMA Recorded ==
  ASSUME Snapshots, NEW commit, IsInventory(commit.snapshot), Settled(commit.snapshot),
         \/ commits' = commits /\ saved' = saved
         \/ commits' = Append(commits, commit) /\ saved' = commit.snapshot,
         (commits' = commits /\ shown' = shown) \/ Refreshed(commits')
  PROVE  Snapshots'
<1>1. PICK S : commits \in Seq(S)
  BY DEF Snapshots
<1>2. Len(commits) \in Nat /\ commits \in [1..Len(commits) -> S] /\ shown \in 1..Len(commits)
  BY <1>1 DEF Snapshots
<1>3. CASE commits' = commits /\ saved' = saved
  BY <1>2, <1>3 DEF Snapshots, Refreshed
<1>4. CASE commits' = Append(commits, commit) /\ saved' = commit.snapshot
  <2> DEFINE T == S \cup {commit}
  <2>1. commits \in Seq(T)
    BY <1>2, SeqDef
  <2>2. commit \in T
    OBVIOUS
  <2> HIDE DEF T
  <2>3. /\ Append(commits, commit) \in Seq(T) /\ Len(Append(commits, commit)) = Len(commits) + 1
        /\ \A k \in 1..Len(commits) : Append(commits, commit)[k] = commits[k]
        /\ Append(commits, commit)[Len(commits) + 1] = commit
    BY <2>1, <2>2
  <2>4. \A k \in 1..(Len(commits) + 1) : k \in 1..Len(commits) \/ k = Len(commits) + 1
    BY <1>2
  <2>5. \A k \in 1..Len(commits') : IsInventory(commits'[k].snapshot) /\ Settled(commits'[k].snapshot)
    BY <1>4, <2>3, <2>4 DEF Snapshots
  <2>6. Len(commits') = Len(commits) + 1 /\ shown' \in 1..Len(commits')
    <3>1. Len(commits') = Len(commits) + 1
      BY <1>4, <2>3
    <3>2. commits' # commits
      BY <1>2, <3>1
    <3>3. shown' \in {Len(commits') - (Len(commits) - shown), Len(commits')}
      BY <3>2 DEF Refreshed
    <3>4. QED
      BY <1>2, <3>1, <3>3
  <2>7. QED
    BY <1>4, <2>3, <2>5, <2>6 DEF Snapshots
<1>5. QED
  BY <1>3, <1>4

\* A save writes what it was given, in the same quantities.
LEMMA SaveStock ==
  ASSUME Snapshots, NEW inv, IsInventory(inv), NEW used, NEW d,
         Save(inv, used, d, Stay) \/ Save(inv, used, d, Closed)
  PROVE  /\ IsInventory(store') /\ SameStock(store', inv) /\ Snapshots' /\ session' = session
         /\ confirming' \in {confirming, "no"}
<1> DEFINE next == Reconcile(inv, used)
           needsCommit == d.checkpoint \/ next.inv # saved
           commit == Commit(next.inv, d, next.inv # saved)
           history == IF needsCommit THEN Append(commits, commit) ELSE commits
<1>1. IsInventory(next.inv) /\ SameStock(next.inv, inv) /\ Settled(next.inv)
  BY ReconcileStock, ReconcileSettles
<1>2. commit.snapshot = next.inv
  BY DEF Commit
<1>3. /\ store' = next.inv /\ session' = session /\ confirming' \in {confirming, "no"}
      /\ \/ commits' = history /\ saved' = next.inv /\ Refreshed(history)
         \/ UNCHANGED <<commits, saved, shown>>
  BY DEF Save, Stay, Closed, Refreshed
<1> HIDE DEF next, needsCommit, commit
<1>4. /\ \/ commits' = commits /\ saved' = saved
         \/ commits' = Append(commits, commit) /\ saved' = commit.snapshot
      /\ (commits' = commits /\ shown' = shown) \/ Refreshed(commits')
  BY <1>2, <1>3 DEF needsCommit
<1>5. Snapshots'
  BY <1>1, <1>2, <1>4, Recorded
<1>6. QED
  BY <1>1, <1>3, <1>5

\* So does the save of a part.
LEMMA SavePartStock ==
  ASSUME Snapshots, NEW inv, IsInventory(inv), NEW p \in DOMAIN inv.parts, SavePart(inv, p)
  PROVE  /\ IsInventory(store') /\ SameStock(store', inv) /\ Snapshots' /\ session' = session
         /\ confirming' \in {confirming, "no"}
<1> DEFINE placed == Reconciled(inv, p, made + 1)
<1>1. IsInventory(placed) /\ SameStock(placed, inv)
  BY PlacedStock
<1>2. PICK used : Save(placed, used, Manual, Stay)
  BY DEF SavePart
<1> HIDE DEF placed
<1>3. /\ IsInventory(store') /\ SameStock(store', placed) /\ Snapshots' /\ session' = session
      /\ confirming' \in {confirming, "no"}
  BY <1>1, <1>2, SaveStock
<1>4. QED
  BY <1>1, <1>3 DEF SameStock

\* And a scan, which fails without a trace.
LEMMA ScannedStock ==
  ASSUME Snapshots, NEW inv, IsInventory(inv), Settled(inv), NEW used, Scanned(inv, used)
  PROVE  /\ store' = inv /\ Snapshots' /\ session' = session /\ UNCHANGED edits
         /\ confirming' \in {confirming, "no"} /\ ~UnsavedChanges
<1>1. /\ commits' = Append(commits, Commit(inv, Manual, TRUE)) /\ Refreshed(commits')
      /\ saved' = inv /\ store' = inv /\ session' = session /\ UNCHANGED edits /\ ~UnsavedChanges
  BY DEF Scanned
<1>2. Commit(inv, Manual, TRUE).snapshot = inv
  BY DEF Commit
<1>3. Snapshots'
  BY <1>1, <1>2, Recorded
<1>4. QED
  BY <1>1, <1>3 DEF Refreshed

\* A part is changed or added.
LEMMA PartStock ==
  ASSUME NEW inv, IsInventory(inv), NEW p \in Parts, NEW part, IsPart(part)
  PROVE  LET next == WithPart(inv, p, part)
         IN  /\ IsInventory(next) /\ next.racks = inv.racks /\ DOMAIN next.parts = DOMAIN inv.parts \cup {p}
             /\ next.parts[p] = part /\ \A q \in DOMAIN inv.parts \ {p} : next.parts[q] = inv.parts[q]
<1> DEFINE parts == With(inv.parts, p, part)
<1>1. /\ DOMAIN parts = DOMAIN inv.parts \cup {p} /\ parts[p] = part
      /\ parts = [q \in DOMAIN parts |-> parts[q]]
      /\ \A q \in DOMAIN inv.parts \ {p} : parts[q] = inv.parts[q]
  BY DEF With
<1> HIDE DEF parts
<1>2. WithPart(inv, p, part) = [parts |-> parts, racks |-> inv.racks]
  <2>1. WithPart(inv, p, part) = [inv EXCEPT !.parts = parts]
    BY DEF WithPart, parts
  <2>2. PICK a, b : a = inv.parts /\ b = inv.racks
    OBVIOUS
  <2>3. inv = [parts |-> a, racks |-> b]
    BY <2>2 DEF IsInventory
  <2>4. QED
    BY <2>1, <2>2, <2>3
<1>3. QED
  BY <1>1, <1>2 DEF IsInventory

LEMMA ChangedStock ==
  ASSUME NEW inv, IsInventory(inv), NEW p \in DOMAIN inv.parts, NEW part, IsPart(part)
  PROVE  LET next == [inv EXCEPT !.parts[p] = part]
         IN  /\ IsInventory(next) /\ next.racks = inv.racks /\ DOMAIN next.parts = DOMAIN inv.parts
             /\ next.parts[p] = part /\ \A q \in DOMAIN inv.parts \ {p} : next.parts[q] = inv.parts[q]
<1> DEFINE parts == [inv.parts EXCEPT ![p] = part]
<1>1. /\ DOMAIN parts = DOMAIN inv.parts /\ parts[p] = part
      /\ parts = [q \in DOMAIN parts |-> parts[q]]
      /\ \A q \in DOMAIN inv.parts \ {p} : parts[q] = inv.parts[q]
  OBVIOUS
<1>2. [inv EXCEPT !.parts[p] = part] = [parts |-> parts, racks |-> inv.racks]
  <2>1. [inv EXCEPT !.parts[p] = part] = [inv EXCEPT !.parts = parts]
    OBVIOUS
  <2> HIDE DEF parts
  <2>2. PICK a, b : a = inv.parts /\ b = inv.racks
    OBVIOUS
  <2>3. inv = [parts |-> a, racks |-> b]
    BY <2>2 DEF IsInventory
  <2>4. QED
    BY <2>1, <2>2, <2>3
<1> HIDE DEF parts
<1>3. QED
  BY <1>1, <1>2 DEF IsInventory

\* Another quantity of a part, and a part that is not placed yet, leave the others settled.
LEMMA AdjustedSettled ==
  ASSUME NEW inv, IsInventory(inv), Settled(inv), NEW p \in DOMAIN inv.parts, NEW q \in Nat
  PROVE  Settled([inv EXCEPT !.parts[p] = [inv.parts[p] EXCEPT !.qty = q]])
<1> DEFINE part == [inv.parts[p] EXCEPT !.qty = q]
           next == [inv EXCEPT !.parts[p] = part]
<1>1. IsPart(inv.parts[p])
  BY DEF IsInventory
<1>2. /\ IsPart(part) /\ part.mode = inv.parts[p].mode /\ part.kind = inv.parts[p].kind
      /\ part.at = inv.parts[p].at
  <2>1. PICK a, b, c, d : inv.parts[p] = [qty |-> a, kind |-> b, mode |-> c, at |-> d]
    BY <1>1 DEF IsPart
  <2>2. IsPart(part)
    BY <1>1, QuantityField
  <2>3. QED
    BY <2>1, <2>2
<1> HIDE DEF part
<1>3. /\ next.racks = inv.racks /\ DOMAIN next.parts = DOMAIN inv.parts
      /\ next.parts[p] = part /\ \A r \in DOMAIN inv.parts \ {p} : next.parts[r] = inv.parts[r]
  BY <1>2, ChangedStock
<1> HIDE DEF next
<1>4. \A r \in DOMAIN inv.parts : /\ next.parts[r].mode = inv.parts[r].mode
                                 /\ next.parts[r].kind = inv.parts[r].kind
                                 /\ next.parts[r].at = inv.parts[r].at
  BY <1>2, <1>3
<1>5. \A r \in Placed(inv) : r \in DOMAIN next.parts /\ next.parts[r].at = inv.parts[r].at
  BY <1>3, <1>4 DEF Placed
<1>6. \A r : /\ next.parts[r].mode = inv.parts[r].mode /\ next.parts[r].kind = inv.parts[r].kind
             /\ next.parts[r].at = inv.parts[r].at
             /\ Waits(inv, r)
             => Waits(next, r)
  BY <1>3, <1>5, StillWaits
<1>7. Settled(next)
  BY <1>3, <1>4, <1>6 DEF Settled
<1>8. QED
  BY <1>7 DEF next, part

LEMMA AddedSettled ==
  ASSUME NEW inv, IsInventory(inv), Settled(inv), NEW p \in Parts \ DOMAIN inv.parts, NEW part, IsPart(part)
  PROVE  \A q \in DOMAIN inv.parts : Waits(WithPart(inv, p, part), q)
<1> DEFINE next == WithPart(inv, p, part)
<1>1. /\ next.racks = inv.racks /\ DOMAIN next.parts = DOMAIN inv.parts \cup {p}
      /\ \A q \in DOMAIN inv.parts \ {p} : next.parts[q] = inv.parts[q]
  BY PartStock
<1> HIDE DEF next
<1>2. \A q \in DOMAIN inv.parts : next.parts[q] = inv.parts[q]
  BY <1>1
<1>3. \A q \in Placed(inv) : q \in DOMAIN next.parts /\ next.parts[q].at = inv.parts[q].at
  BY <1>1, <1>2 DEF Placed
<1>4. \A q : /\ next.parts[q].mode = inv.parts[q].mode /\ next.parts[q].kind = inv.parts[q].kind
             /\ next.parts[q].at = inv.parts[q].at
             /\ Waits(inv, q)
             => Waits(next, q)
  BY <1>1, <1>3, StillWaits
<1>5. QED
  BY <1>2, <1>4 DEF Settled, next

\* A quantity that was not edited is the current one; one that was added to adds to it.
LEMMA MergedStock ==
  ASSUME NEW base, IsPart(base), NEW edited, IsPart(edited), NEW current, IsPart(current), NEW quantity
  PROVE  LET part == MergeItem(base, edited, current, quantity)
         IN  /\ IsPart(part)
             /\ edited.qty = base.qty => part.qty = current.qty
             /\ quantity = "delta" /\ edited.qty >= base.qty
                  => part.qty = current.qty + (edited.qty - base.qty)
<1> DEFINE part == MergeItem(base, edited, current, quantity)
           sum == current.qty + edited.qty - base.qty
<1>1. sum \in Int /\ current.qty \in Nat /\ edited.qty \in Nat /\ base.qty \in Nat
      /\ sum = current.qty + (edited.qty - base.qty)
  BY DEF IsPart
<1> HIDE DEF sum
<1>2. Max({0, sum}) \in Nat /\ (sum >= 0 => Max({0, sum}) = sum)
  <2>1. \E x \in {0, sum} : \A y \in {0, sum} : x >= y
    BY <1>1
  <2>2. Max({0, sum}) \in {0, sum} /\ Max({0, sum}) >= 0 /\ Max({0, sum}) >= sum
    BY <2>1 DEF Max
  <2>3. QED
    BY <1>1, <2>2
<1>3. /\ part = [qty |-> part.qty, kind |-> part.kind, mode |-> part.mode, at |-> part.at]
      /\ part.mode = "automatic" => part.at = Nowhere
  BY DEF MergeItem, IsPart
<1>4. /\ edited.qty = base.qty => part.qty = current.qty
      /\ edited.qty # base.qty /\ quantity = "delta" => part.qty = Max({0, sum})
      /\ edited.qty # base.qty /\ quantity # "delta" => part.qty = edited.qty
  BY DEF MergeItem, sum
<1> HIDE DEF part
<1>5. quantity = "delta" /\ edited.qty >= base.qty => part.qty = current.qty + (edited.qty - base.qty)
  BY <1>1, <1>2, <1>4
<1>6. IsPart(part)
  BY <1>1, <1>2, <1>3, <1>4 DEF IsPart
<1>7. QED
  BY <1>4, <1>5, <1>6 DEF part

\* A merge adds to what is there what was staged.
LEMMA MergeStock ==
  ASSUME NEW base, IsInventory(base), NEW staged, IsInventory(staged), NEW current, IsInventory(current)
  PROVE  LET all == MergeInventory(base, staged, current)
         IN  /\ IsInventory(all)
             /\ \A p \in DOMAIN all.parts \cap DOMAIN current.parts :
                  IF p \in DOMAIN base.parts \cap DOMAIN staged.parts
                    THEN staged.parts[p].qty >= base.parts[p].qty
                           => all.parts[p].qty = current.parts[p].qty
                                                   + (staged.parts[p].qty - base.parts[p].qty)
                    ELSE all.parts[p].qty = current.parts[p].qty
<1> DEFINE newRacks == {r \in DOMAIN staged.racks \ (DOMAIN base.racks \cup DOMAIN current.racks) :
                          staged.racks[r].code \notin Codes(current)}
           removed == {p \in DOMAIN base.parts \ DOMAIN staged.parts :
                         p \in DOMAIN current.parts /\ current.parts[p] = base.parts[p]}
           edited == {p \in DOMAIN base.parts \cap DOMAIN staged.parts \cap DOMAIN current.parts :
                        staged.parts[p] # base.parts[p]}
           added == DOMAIN staged.parts \ (DOMAIN base.parts \cup DOMAIN current.parts)
           touched == edited \cup added
           parts == [p \in (DOMAIN current.parts \ removed) \cup added |->
                       IF p \in edited
                         THEN MergeItem(base.parts[p], staged.parts[p], current.parts[p], "delta")
                         ELSE IF p \in added THEN staged.parts[p] ELSE current.parts[p]]
           racks == [r \in DOMAIN current.racks \cup newRacks |->
                       IF r \in newRacks THEN staged.racks[r] ELSE current.racks[r]]
           merged == [parts |-> parts, racks |-> racks]
           conflicting == {p \in touched \cap Placed(merged) :
                             \/ merged.parts[p].at[1] \notin DOMAIN merged.racks
                             \/ \E q \in Placed(merged) \ {p} :
                                  /\ merged.parts[q].at = merged.parts[p].at
                                  /\ q \notin touched \/ q < p}
           kept == [p \in DOMAIN parts |->
                      IF p \in conflicting THEN [parts[p] EXCEPT !.mode = "automatic", !.at = Nowhere]
                                           ELSE parts[p]]
           final == [parts |-> kept, racks |-> racks]
<1>1. MergeInventory(base, staged, current) = final
  <2>1. MergeInventory(base, staged, current) =
          [merged EXCEPT !.parts = [p \in DOMAIN @ |->
             IF p \in conflicting THEN [@[p] EXCEPT !.mode = "automatic", !.at = Nowhere] ELSE @[p]]]
    BY DEF MergeInventory
  <2> HIDE DEF parts, racks, conflicting
  <2>2. QED
    BY <2>1
<1> HIDE DEF conflicting, racks
<1>2. ASSUME NEW p \in DOMAIN parts
      PROVE  /\ IsPart(parts[p]) /\ p \in Parts
             /\ p \in DOMAIN current.parts =>
                  IF p \in DOMAIN base.parts \cap DOMAIN staged.parts
                    THEN staged.parts[p].qty >= base.parts[p].qty
                           => parts[p].qty = current.parts[p].qty
                                               + (staged.parts[p].qty - base.parts[p].qty)
                    ELSE parts[p].qty = current.parts[p].qty
  <2>1. CASE p \in edited
    <3>1. parts[p] = MergeItem(base.parts[p], staged.parts[p], current.parts[p], "delta")
      BY <2>1
    <3>2. /\ IsPart(base.parts[p]) /\ IsPart(staged.parts[p]) /\ IsPart(current.parts[p]) /\ p \in Parts
          /\ p \in DOMAIN base.parts \cap DOMAIN staged.parts
      BY <2>1 DEF IsInventory
    <3> DEFINE merge == MergeItem(base.parts[p], staged.parts[p], current.parts[p], "delta")
    <3>3. /\ IsPart(merge)
          /\ staged.parts[p].qty = base.parts[p].qty => merge.qty = current.parts[p].qty
          /\ staged.parts[p].qty >= base.parts[p].qty
               => merge.qty = current.parts[p].qty + (staged.parts[p].qty - base.parts[p].qty)
      <4> HIDE DEF parts, edited, added
      <4>1. \A x, y, z :
              IsPart(x) /\ IsPart(y) /\ IsPart(z) =>
                /\ IsPart(MergeItem(x, y, z, "delta"))
                /\ y.qty = x.qty => MergeItem(x, y, z, "delta").qty = z.qty
                /\ y.qty >= x.qty => MergeItem(x, y, z, "delta").qty = z.qty + (y.qty - x.qty)
        BY MergedStock
      <4>2. QED
        BY <3>2, <4>1
    <3> HIDE DEF parts, edited, added, merge
    <3>4. QED
      BY <3>1, <3>2, <3>3 DEF merge
  <2>2. CASE p \notin edited /\ p \in added
    <3>1. parts[p] = staged.parts[p] /\ p \in DOMAIN staged.parts /\ p \notin DOMAIN current.parts
      BY <2>2
    <3> HIDE DEF parts, edited, added
    <3>2. QED
      BY <3>1 DEF IsInventory
  <2>3. CASE p \notin edited /\ p \notin added
    <3>1. parts[p] = current.parts[p] /\ p \in DOMAIN current.parts
      BY <2>3
    <3>2. p \in DOMAIN base.parts \cap DOMAIN staged.parts => staged.parts[p] = base.parts[p]
      BY <2>3, <3>1
    <3> HIDE DEF parts, edited, added
    <3>3. IsPart(current.parts[p]) /\ p \in Parts
          /\ (p \in DOMAIN base.parts => base.parts[p].qty \in Nat)
      BY <3>1 DEF IsInventory, IsPart
    <3>4. current.parts[p].qty \in Nat
      BY <3>3 DEF IsPart
    <3>5. QED
      BY <3>1, <3>2, <3>3, <3>4
  <2>4. QED
    BY <2>1, <2>2, <2>3
<1> HIDE DEF parts
<1>3. ASSUME NEW p \in DOMAIN parts
      PROVE  IsPart(kept[p]) /\ kept[p].qty = parts[p].qty
  <2>1. IsPart(parts[p])
    BY <1>2, <1>3
  <2>2. IsPart(Moved(parts[p], "automatic", Nowhere))
        /\ Moved(parts[p], "automatic", Nowhere).qty = parts[p].qty
    BY <2>1, PlaceField
  <2>3. QED
    BY <1>3, <2>1, <2>2 DEF Moved
<1>4. DOMAIN kept = DOMAIN parts /\ kept = [p \in DOMAIN kept |-> kept[p]]
  OBVIOUS
<1> HIDE DEF kept
<1>5. final.parts = kept /\ final = [parts |-> final.parts, racks |-> final.racks]
  OBVIOUS
<1> HIDE DEF final
<1>6. IsInventory(final)
  BY <1>2, <1>3, <1>4, <1>5 DEF IsInventory
<1>7. QED
  BY <1>1, <1>2, <1>3, <1>4, <1>5, <1>6

-----------------------------------------------------------------------------
(* What scans change is kept *)

Stocked ==
  /\ session \in Sessions /\ IsInventory(store) /\ Snapshots
  /\ DOMAIN form = {"open", "part", "isNew", "original", "edited"}
  /\ IsPart(form.original) /\ IsPart(form.edited) /\ (form.open => form.part \in Parts)
  /\ DOMAIN import = {"stage", "original", "staged", "rows"}
  /\ import.stage \in {"none", "review", "pending"}
  /\ IsInventory(import.original) /\ IsInventory(import.staged) /\ import.rows \in [Parts -> Nat]

\* One thing is edited at a time, and none while a confirmation is open.
Alone ==
  /\ form # NoForm => import = NoImport
  /\ confirming # "no" => form = NoForm /\ import = NoImport

NewIsNew == form.open /\ form.isNew => form.part \notin DOMAIN store.parts

\* A review has added its rows to what was there, and to new parts that nobody else has.
ReviewCounts ==
  import.stage = "review" =>
    /\ \A p \in DOMAIN import.original.parts :
         /\ p \in DOMAIN import.staged.parts
         /\ import.staged.parts[p].qty = import.original.parts[p].qty + import.rows[p]
    /\ \A p \in Parts \ DOMAIN import.staged.parts : import.rows[p] = 0
    /\ DOMAIN store.parts \cap DOMAIN import.staged.parts \subseteq DOMAIN import.original.parts

\* An import whose save failed has added them to the inventory.
PendingCounts ==
  import.stage = "pending" =>
    \A p \in DOMAIN store.parts \cap DOMAIN import.original.parts :
      store.parts[p].qty = import.original.parts[p].qty + import.rows[p]

\* What the review and the imports have added to the quantities; exact: the rows of an import
\* whose save failed are counted as well, which holds as long as it is unsaved.
Counts(exact) == Alone /\ NewIsNew /\ ReviewCounts /\ (exact => PendingCounts)

\* No other save writes an import whose own save failed.
PendingIsUnsaved == import.stage = "pending" => UnsavedChanges

\* The step of ScansKept.
ScansStay ==
  LET parts == DOMAIN store.parts \cap DOMAIN store'.parts
  IN /\ import # NoImport /\ import' # import /\ store' # store =>
          IF import.stage = "review"
            THEN \A p \in parts : Change(p) = import.rows[p]
            ELSE \A p \in parts : Change(p) \in {0, -import.rows[p]}
     /\ form.open /\ form' = NoForm =>
          \A p \in parts : Change(p) # 0 =>
            p = form.part /\ form.edited.qty # form.original.qty

\* What is not edited changes.
LEMMA Beside ==
  ASSUME NEW exact \in BOOLEAN, Stocked, Counts(exact), UNCHANGED edits, IsInventory(store'), Snapshots', session' = session,
         Alone', NewIsNew', ReviewCounts', exact => PendingCounts'
  PROVE  Stocked' /\ Counts(exact)' /\ (exact => ScansStay)
BY DEF Stocked, Counts, ScansStay, edits, NoForm

LEMMA NothingEdited ==
  ASSUME NEW exact \in BOOLEAN, Stocked, Counts(exact), UNCHANGED edits, form = NoForm, import = NoImport,
         IsInventory(store'), Snapshots', session' = session
  PROVE  Stocked' /\ Counts(exact)' /\ (exact => ScansStay)
<1>1. form' = NoForm /\ import' = NoImport /\ NoForm.open = FALSE /\ NoImport.stage = "none"
  BY DEF edits, NoForm, NoImport
<1>2. Alone' /\ NewIsNew' /\ ReviewCounts' /\ PendingCounts'
  BY <1>1 DEF Alone, NewIsNew, ReviewCounts, PendingCounts
<1>3. QED
  BY <1>2, Beside

LEMMA NewPartStock ==
  ASSUME NEW qty \in Nat, NEW kind
  PROVE  IsPart(NewPart(qty, kind))
BY DEF NewPart, IsPart

LEMMA RacksStock ==
  ASSUME NEW inv, IsInventory(inv), NEW racks
  PROVE  IsInventory([inv EXCEPT !.racks = racks])
<1>1. [inv EXCEPT !.racks = racks] = [parts |-> inv.parts, racks |-> racks]
  <2>1. PICK a, b : a = inv.parts /\ b = inv.racks
    OBVIOUS
  <2>2. inv = [parts |-> a, racks |-> b]
    BY <2>1 DEF IsInventory
  <2>3. QED
    BY <2>1, <2>2
<1>2. QED
  BY <1>1 DEF IsInventory

LEMMA RestrictStock ==
  ASSUME NEW inv, IsInventory(inv), NEW D
  PROVE  IsInventory([inv EXCEPT !.parts = Restrict(@, DOMAIN @ \ D)])
<1> DEFINE parts == Restrict(inv.parts, DOMAIN inv.parts \ D)
<1>1. DOMAIN parts \subseteq DOMAIN inv.parts /\ parts = [p \in DOMAIN parts |-> parts[p]]
      /\ \A p \in DOMAIN parts : parts[p] = inv.parts[p]
  BY DEF Restrict
<1> HIDE DEF parts
<1>2. [inv EXCEPT !.parts = parts] = [parts |-> parts, racks |-> inv.racks]
  <2>1. PICK a, b : a = inv.parts /\ b = inv.racks
    OBVIOUS
  <2>2. inv = [parts |-> a, racks |-> b]
    BY <2>1 DEF IsInventory
  <2>3. QED
    BY <2>1, <2>2
<1>3. IsInventory([inv EXCEPT !.parts = parts])
  BY <1>1, <1>2 DEF IsInventory
<1>4. QED
  BY <1>3 DEF parts

LEMMA ParameterTyped ==
  ASSUME Stocked
  PROVE  session.quantity \in Nat /\ \A q \in 0..session.quantity : q \in Nat
BY HistoryAssumption DEF Stocked, SessionType

\* Changes that the user makes on the page.
LEMMA PageStock ==
  ASSUME NEW exact \in BOOLEAN, Stocked, Counts(exact),
         \/ RetrySave \/ Checkpoint \/ CreateRack \/ ChangeRack
         \/ \E p \in Parts : \/ AddPart(p) \/ DeletePart(p) \/ AdjustQuantity(p)
                             \/ MovePart(p) \/ UnassignPart(p)
  PROVE  Stocked' /\ Counts(exact)' /\ (exact => ScansStay)
<1>1. IsInventory(store) /\ Snapshots
  BY DEF Stocked
<1>2. form = NoForm /\ import = NoImport /\ UNCHANGED edits
  BY DEF RetrySave, Checkpoint, CreateRack, ChangeRack, AddPart, DeletePart, AdjustQuantity,
         MovePart, UnassignPart, Idle
<1>3. SUFFICES IsInventory(store') /\ Snapshots' /\ session' = session
  BY <1>2, NothingEdited
<1>4. CASE RetrySave \/ Checkpoint
  BY <1>1, <1>4, SaveStock DEF RetrySave, Checkpoint
<1>5. CASE CreateRack
  BY <1>1, <1>5, RackStock, SaveStock DEF CreateRack
<1>6. CASE ChangeRack
  <2>1. \A inv : IsInventory(inv) /\ SaveEdit(inv) => IsInventory(store') /\ Snapshots' /\ session' = session
    BY <1>1, SaveStock DEF SaveEdit
  <2>2. PICK racks : SaveEdit([store EXCEPT !.racks = racks])
    BY <1>6 DEF ChangeRack
  <2>3. QED
    BY <1>1, <2>1, <2>2, RacksStock
<1>7. ASSUME NEW p \in Parts, AddPart(p) PROVE IsInventory(store') /\ Snapshots' /\ session' = session
  <2>1. PICK kind : SavePart(WithPart(store, p, NewPart(0, kind)), p)
    BY <1>7 DEF AddPart
  <2>2. IsPart(NewPart(0, kind))
    BY NewPartStock
  <2>3. IsInventory(WithPart(store, p, NewPart(0, kind)))
        /\ p \in DOMAIN WithPart(store, p, NewPart(0, kind)).parts
    BY <1>1, <2>2, PartStock
  <2>4. QED
    BY <1>1, <2>1, <2>3, SavePartStock
<1>8. ASSUME NEW p \in Parts, DeletePart(p) PROVE IsInventory(store') /\ Snapshots' /\ session' = session
  BY <1>1, <1>8, RestrictStock, SaveStock DEF DeletePart, SaveEdit
<1>9. ASSUME NEW p \in Parts, AdjustQuantity(p) PROVE IsInventory(store') /\ Snapshots' /\ session' = session
  <2>1. PICK q \in 0..session.quantity : SaveEdit([store EXCEPT !.parts[p].qty = q])
    BY <1>9 DEF AdjustQuantity
  <2>2. q \in Nat /\ p \in DOMAIN store.parts /\ IsPart(store.parts[p])
    BY <1>1, <1>9, ParameterTyped DEF AdjustQuantity, IsInventory
  <2> DEFINE part == [store.parts[p] EXCEPT !.qty = q]
  <2>3. IsPart(part)
    BY <2>2, QuantityField
  <2>4. [store EXCEPT !.parts[p].qty = q] = [store EXCEPT !.parts[p] = part]
    OBVIOUS
  <2> HIDE DEF part
  <2>5. IsInventory([store EXCEPT !.parts[p] = part])
    BY <1>1, <2>2, <2>3, ChangedStock
  <2>6. QED
    BY <1>1, <2>1, <2>4, <2>5, SaveStock DEF SaveEdit
<1>10. ASSUME NEW p \in Parts, MovePart(p) PROVE IsInventory(store') /\ Snapshots' /\ session' = session
  BY <1>1, <1>10, PutStock, SaveStock DEF MovePart, SaveEdit
<1>11. ASSUME NEW p \in Parts, UnassignPart(p) PROVE IsInventory(store') /\ Snapshots' /\ session' = session
  <2>1. PICK mode : SavePart(Put(store, p, Nowhere, mode), p)
    BY <1>11 DEF UnassignPart
  <2>2. p \in DOMAIN store.parts
    BY <1>11 DEF UnassignPart, Placed
  <2>3. IsInventory(Put(store, p, Nowhere, mode)) /\ p \in DOMAIN Put(store, p, Nowhere, mode).parts
    BY <1>1, <2>2, PutStock DEF SameStock
  <2>4. QED
    BY <1>1, <2>1, <2>3, SavePartStock
<1>12. QED
  BY <1>4, <1>5, <1>6, <1>7, <1>8, <1>9, <1>10, <1>11

\* Scans and vendor answers, whatever is edited.
LEMMA ArrivingStock ==
  ASSUME NEW exact \in BOOLEAN, Stocked, Counts(exact), exact => PendingIsUnsaved, NEW p \in Parts, Scan(p) \/ Receive(p) \/ Enrich(p)
  PROVE  Stocked' /\ Counts(exact)' /\ (exact => ScansStay)
<1>1. IsInventory(store) /\ Snapshots /\ Counts(exact)
  BY DEF Stocked
\* It is enough that no part goes, that none of an edit comes, and that nothing is applied
\* while an import is pending.
<1>2. SUFFICES /\ IsInventory(store') /\ Snapshots' /\ session' = session /\ UNCHANGED edits
               /\ confirming' \in {confirming, "no"}
               /\ DOMAIN store'.parts \subseteq DOMAIN store.parts \cup {p}
               /\ p \notin DOMAIN store.parts /\ p \in DOMAIN store'.parts =>
                    /\ form.open => form.part # p
                    /\ import # NoImport => p \notin DOMAIN import.staged.parts
               /\ ~UnsavedChanges \/ SameStock(store', store)
  <2>1. UNCHANGED <<form, import>>
    BY <1>2 DEF edits
  <2>2. Alone' /\ NewIsNew'
    BY <1>1, <1>2, <2>1 DEF Counts, Alone, NewIsNew
  <2>3. ReviewCounts'
    <3>1. import.stage = "review" => import # NoImport
      BY DEF NoImport
    <3>2. QED
      BY <1>1, <1>2, <2>1, <3>1 DEF Counts, ReviewCounts
  <2>4. exact => PendingCounts'
    BY <1>1, <1>2, <2>1 DEF Counts, PendingCounts, PendingIsUnsaved, SameStock
  <2>5. QED
    BY <1>2, <2>2, <2>3, <2>4, Beside
<1>7. store = saved => Settled(store)
  BY <1>1, SavedSettled
<1>3. CASE Scan(p)
  <2>1. PICK q \in 0..session.quantity :
          LET adjusted == [store EXCEPT !.parts[p].qty = q]
              received == Reconciled(adjusted, p, made + 1)
          IN Scanned(adjusted, made) \/ Scanned(received, Max({made} \cup DOMAIN received.racks))
    BY <1>3 DEF Scan
  <2> DEFINE part == [store.parts[p] EXCEPT !.qty = q]
             adjusted == [store EXCEPT !.parts[p] = part]
             received == Reconciled(adjusted, p, made + 1)
  <2>2. q \in Nat /\ p \in DOMAIN store.parts /\ IsPart(store.parts[p])
    BY <1>1, <1>3, ParameterTyped DEF Scan, IsInventory
  <2>3. IsPart(part)
    BY <2>2, QuantityField
  <2>4. [store EXCEPT !.parts[p].qty = q] = adjusted
    OBVIOUS
  <2>9. store = saved => Settled(adjusted)
    BY <1>1, <1>7, <2>2, AdjustedSettled
  <2> HIDE DEF part
  <2>5. IsInventory(adjusted) /\ DOMAIN adjusted.parts = DOMAIN store.parts
    BY <1>1, <2>2, <2>3, ChangedStock
  <2> HIDE DEF adjusted
  <2>6. IsInventory(received) /\ DOMAIN received.parts = DOMAIN store.parts
    BY <2>2, <2>5, PlacedStock DEF SameStock
  <2>10. Settled(adjusted) => Settled(received)
    BY <2>2, <2>5, <2>6, PlacedSettles DEF Settled
  <2>7. \E used : Scanned(adjusted, used) \/ Scanned(received, used)
    BY <2>1, <2>4
  <2> HIDE DEF received
  <2>11. store = saved
    BY <2>7 DEF Scanned, UnsavedChanges
  <2>8. QED
    BY <1>1, <1>2, <2>2, <2>5, <2>6, <2>7, <2>9, <2>10, <2>11, ScannedStock
<1>4. CASE Receive(p)
  <2>1. PICK kind, used : Scanned(Reconciled(WithPart(store, p, NewPart(0, kind)), p, made + 1), used)
    BY <1>4 DEF Receive
  <2> DEFINE added == WithPart(store, p, NewPart(0, kind))
             inv == Reconciled(added, p, made + 1)
  <2>2. IsPart(NewPart(0, kind))
    BY NewPartStock
  <2>3. IsInventory(added) /\ DOMAIN added.parts = DOMAIN store.parts \cup {p}
    BY <1>1, <2>2, PartStock
  <2>8. p \notin DOMAIN store.parts /\ store = saved
    BY <1>4, <2>1 DEF Receive, Fresh, Scanned, UnsavedChanges
  <2>9. \A q \in DOMAIN store.parts : Waits(added, q)
    BY <1>1, <1>7, <2>2, <2>8, AddedSettled
  <2> HIDE DEF added
  <2>10. Settled(inv)
    <3>1. Waits(inv, p) /\ \A q \in DOMAIN added.parts \ {p} : Waits(added, q) => Waits(inv, q)
      BY <2>3, PlacedSettles
    <3>2. DOMAIN inv.parts = DOMAIN store.parts \cup {p}
      BY <2>3, PlacedStock DEF SameStock
    <3> HIDE DEF inv
    <3>3. QED
      BY <2>3, <2>9, <3>1, <3>2 DEF Settled
  <2>4. IsInventory(inv) /\ DOMAIN inv.parts = DOMAIN store.parts \cup {p}
    BY <2>3, PlacedStock DEF SameStock
  <2>5. Scanned(inv, used)
    BY <2>1 DEF added
  <2>6. Fresh(p)
    BY <1>4 DEF Receive
  <2> HIDE DEF inv
  <2>7. QED
    BY <1>1, <1>2, <2>4, <2>5, <2>6, <2>10, ScannedStock DEF Fresh
<1>5. CASE Enrich(p)
  <2>1. PICK kind : SavePart([store EXCEPT !.parts[p].kind = kind], p)
    BY <1>5 DEF Enrich
  <2> DEFINE part == [store.parts[p] EXCEPT !.kind = kind]
             inv == [store EXCEPT !.parts[p] = part]
  <2>2. p \in DOMAIN store.parts /\ IsPart(store.parts[p]) /\ UNCHANGED edits
    BY <1>1, <1>5 DEF Enrich, IsInventory
  <2>3. IsPart(part) /\ part.qty = store.parts[p].qty
    BY <2>2, KindField
  <2>4. [store EXCEPT !.parts[p].kind = kind] = inv
    OBVIOUS
  <2> HIDE DEF part
  <2>5. IsInventory(inv) /\ SameStock(inv, store)
    BY <1>1, <2>2, <2>3, ChangedStock DEF SameStock
  <2> HIDE DEF inv
  <2>6. p \in DOMAIN inv.parts /\ SavePart(inv, p)
    BY <2>1, <2>2, <2>4, <2>5 DEF SameStock
  <2>7. /\ IsInventory(store') /\ SameStock(store', inv) /\ Snapshots' /\ session' = session
        /\ confirming' \in {confirming, "no"}
    BY <1>1, <2>5, <2>6, SavePartStock
  <2>8. SameStock(store', store)
    BY <2>5, <2>7 DEF SameStock
  <2>9. DOMAIN store'.parts = DOMAIN store.parts
    BY <2>8 DEF SameStock
  <2>10. QED
    BY <1>2, <2>2, <2>7, <2>8, <2>9
<1>6. QED
  BY <1>3, <1>4, <1>5

\* A patch is one inventory's part or the other's.
LEMMA PatchedStock ==
  ASSUME NEW inv, IsInventory(inv), NEW other, IsInventory(other), NEW xs, NEW racks
  PROVE  IsInventory([parts |-> Patched(inv.parts, other.parts, xs), racks |-> racks])
<1> DEFINE parts == Patched(inv.parts, other.parts, xs)
<1>1. /\ parts = [p \in DOMAIN parts |-> parts[p]]
      /\ DOMAIN parts \subseteq DOMAIN inv.parts \cup DOMAIN other.parts
      /\ \A p \in DOMAIN parts :
           \/ p \in DOMAIN inv.parts /\ parts[p] = inv.parts[p]
           \/ p \in DOMAIN other.parts /\ parts[p] = other.parts[p]
  BY DEF Patched
<1> HIDE DEF parts
<1>2. QED
  BY <1>1 DEF IsInventory, parts

\* Changes that the History page makes, and confirmed deletions.
LEMMA HistoryStock ==
  ASSUME NEW exact \in BOOLEAN, Stocked, Counts(exact), Asked,
         \/ ArmRackDeletion \/ ConfirmRackDeletion \/ UndoLast \/ SelectCommit
         \/ AskRevert \/ ConfirmRevert
  PROVE  Stocked' /\ Counts(exact)' /\ (exact => ScansStay)
<1>1. IsInventory(store) /\ Snapshots /\ Alone
  BY DEF Stocked, Counts
<1>2. form = NoForm /\ import = NoImport /\ UNCHANGED edits
  BY <1>1 DEF ArmRackDeletion, ConfirmRackDeletion, UndoLast, SelectCommit, AskRevert, ConfirmRevert,
              Idle, edits, Alone
<1>3. SUFFICES IsInventory(store') /\ Snapshots' /\ session' = session
  BY <1>2, NothingEdited
<1>4. CASE UNCHANGED <<store, commits, saved, session>> /\ shown' \in 1..Len(commits)
  BY <1>1, <1>4 DEF Snapshots
<1>5. CASE ArmRackDeletion \/ SelectCommit \/ AskRevert
  <2>1. UNCHANGED <<store, commits, saved, session>> /\ shown' \in {shown} \cup 1..Len(commits)
    BY <1>5 DEF ArmRackDeletion, SelectCommit, AskRevert
  <2>2. QED
    BY <1>1, <1>4, <2>1 DEF Snapshots
<1>6. CASE ConfirmRackDeletion
  <2>1. CASE armed \in DOMAIN store.racks /\ EmptyRack(store, armed)
    <3>1. \E racks : SaveEdit([store EXCEPT !.racks = racks])
      BY <1>6, <2>1 DEF ConfirmRackDeletion
    <3>2. QED
      BY <1>1, <3>1, RacksStock, SaveStock DEF SaveEdit
  <2>2. CASE UNCHANGED <<store, commits, saved, shown, session>>
    BY <1>1, <1>4, <2>2 DEF Snapshots
  <2>3. QED
    BY <1>6, <2>1, <2>2 DEF ConfirmRackDeletion
<1>7. CASE UndoLast
  <2> DEFINE k == Max(Undoable(commits))
  <2>1. Len(commits) \in Nat
    BY <1>1 DEF Snapshots
  <2>2. Undoable(commits) \in SUBSET Nat /\ Undoable(commits) # {}
        /\ \A j \in Undoable(commits) : j \in 2..Len(commits) /\ j <= Len(commits)
    BY <1>7, <2>1 DEF Undoable, UndoLast
  <2>3. k \in Undoable(commits)
    BY <2>1, <2>2, Greatest
  <2>4. Save(commits[k - 1].snapshot, made, Draft(FALSE, k), Stay)
    BY <1>7 DEF UndoLast
  <2> HIDE DEF k
  <2>5. k - 1 \in 1..Len(commits)
    BY <2>1, <2>2, <2>3
  <2>6. IsInventory(commits[k - 1].snapshot)
    BY <1>1, <2>5 DEF Snapshots
  <2>7. QED
    BY <1>1, <2>4, <2>6, SaveStock
<1>8. CASE ConfirmRevert
  <2> DEFINE target == IF confirming = "snapshot" THEN commits[shown].snapshot
                                                  ELSE ReverseTarget(store, shown)
  <2>1. CASE UNCHANGED <<store, commits, saved, shown, session>>
    BY <1>1, <1>4, <2>1 DEF Snapshots
  <2>2. CASE /\ Save(target, made, Draft(FALSE, shown), Closed)
             /\ confirming = "snapshot" \/ Reversible(store, shown)
    <3>1. IsInventory(commits[shown].snapshot) /\ shown \in 1..Len(commits) /\ Len(commits) \in Nat
      BY <1>1 DEF Snapshots
    <3>2. ASSUME Reversible(store, shown) PROVE IsInventory(ReverseTarget(store, shown))
      <4>1. shown - 1 \in 1..Len(commits)
        BY <3>1, <3>2 DEF Reversible
      <4>2. IsInventory(commits[shown - 1].snapshot)
        BY <1>1, <4>1 DEF Snapshots
      <4>3. QED
        BY <1>1, <4>2, PatchedStock DEF ReverseTarget
    <3>3. IsInventory(target)
      BY <2>2, <3>1, <3>2
    <3> HIDE DEF target
    <3>4. QED
      BY <1>1, <2>2, <3>3, SaveStock
  <2>3. confirming \in {"snapshot", "reverse"}
    BY <1>8 DEF ConfirmRevert, Asked
  <2>4. \/ UNCHANGED <<store, commits, saved, shown, session>>
        \/ /\ Save(target, made, Draft(FALSE, shown), Closed)
           /\ confirming = "reverse" => Reversible(store, shown)
    BY <1>8 DEF ConfirmRevert
  <2> HIDE DEF target
  <2>5. QED
    BY <2>1, <2>2, <2>3, <2>4 DEF target
<1>9. QED
  BY <1>5, <1>6, <1>7, <1>8

\* A displaced part is as much.
LEMMA ReleasedStock ==
  ASSUME NEW inv, IsInventory(inv), NEW p \in DOMAIN inv.parts
  PROVE  IsInventory(ReleasePlacement(inv, p)) /\ SameStock(ReleasePlacement(inv, p), inv)
<1>1. ReleasePlacement(inv, p) = inv \/ ReleasePlacement(inv, p) = Put(inv, p, Nowhere, "automatic")
  BY DEF ReleasePlacement, Displaced
<1>2. SameStock(inv, inv)
  BY DEF SameStock
<1>3. QED
  BY <1>1, <1>2, PutStock

LEMMA ChoiceStock ==
  ASSUME NEW part, NEW p, NEW choice \in StorageChoices(part, p)
  PROVE  choice[1] = "automatic" => choice[2] = Nowhere
BY DEF StorageChoices

\* Until it is saved, a form changes nothing.
LEMMA OpenFormStock ==
  ASSUME NEW exact \in BOOLEAN, Stocked, Counts(exact), EditField \/ CloseForm \/ \E p \in Parts : OpenForm(p)
  PROVE  Stocked' /\ Counts(exact)' /\ (exact => ScansStay)
<1>1. UNCHANGED <<store, commits, saved, shown, confirming, import, session>>
  BY DEF EditField, CloseForm, OpenForm, pages
<1>2. import = NoImport /\ confirming = "no" /\ NoImport.stage = "none"
  <2>1. form.open \/ Idle
    BY DEF EditField, CloseForm, OpenForm
  <2>2. form.open => form # NoForm
    BY DEF NoForm
  <2>3. QED
    BY <2>1, <2>2 DEF Counts, Alone, Idle, NoImport
<1>3. SUFFICES /\ DOMAIN form' = {"open", "part", "isNew", "original", "edited"}
               /\ IsPart(form'.original) /\ IsPart(form'.edited)
               /\ form'.open => form'.part \in Parts
               /\ form'.open /\ form'.isNew => form'.part \notin DOMAIN store.parts
  <2>1. Stocked'
    BY <1>1, <1>3 DEF Stocked, Snapshots
  <2>2. Counts(exact)'
    BY <1>1, <1>2, <1>3 DEF Counts, Alone, NewIsNew, ReviewCounts, PendingCounts
  <2>3. \A p \in DOMAIN store.parts : Change(p) = 0
    BY <1>1 DEF Stocked, IsInventory, IsPart, Change
  <2>4. QED
    BY <1>1, <1>2, <2>1, <2>2, <2>3 DEF ScansStay
<1>4. /\ DOMAIN form = {"open", "part", "isNew", "original", "edited"}
      /\ IsPart(form.original) /\ IsPart(form.edited)
      /\ form.open => form.part \in Parts
      /\ form.open /\ form.isNew => form.part \notin DOMAIN store.parts
  BY DEF Stocked, Counts, NewIsNew
<1>5. IsPart(Blank)
  <2>1. 0 \in Nat
    OBVIOUS
  <2>2. QED
    BY <2>1, NewPartStock DEF Blank
<1>6. ASSUME NEW p \in Parts, OpenForm(p)
      PROVE  /\ DOMAIN form' = {"open", "part", "isNew", "original", "edited"}
             /\ IsPart(form'.original) /\ IsPart(form'.edited) /\ form'.part \in Parts
             /\ form'.isNew => form'.part \notin DOMAIN store.parts
  <2>1. CASE /\ p \in DOMAIN store.parts
             /\ form' = [open |-> TRUE, part |-> p, isNew |-> FALSE,
                         original |-> store.parts[p], edited |-> store.parts[p]]
    BY <2>1 DEF Stocked, IsInventory
  <2>2. ASSUME Fresh(p), NEW mode,
               form' = [open |-> TRUE, part |-> p, isNew |-> TRUE,
                        original |-> [Blank EXCEPT !.mode = mode], edited |-> [Blank EXCEPT !.mode = mode]]
        PROVE  /\ DOMAIN form' = {"open", "part", "isNew", "original", "edited"}
               /\ IsPart(form'.original) /\ IsPart(form'.edited) /\ form'.part \in Parts
               /\ form'.isNew => form'.part \notin DOMAIN store.parts
    <3> DEFINE blank == [Blank EXCEPT !.mode = mode]
    <3>1. IsPart(blank)
      BY DEF IsPart, Blank, NewPart
    <3> HIDE DEF blank
    <3>2. form' = [open |-> TRUE, part |-> p, isNew |-> TRUE, original |-> blank, edited |-> blank]
      BY <2>2 DEF blank
    <3>3. QED
      BY <2>2, <3>1, <3>2 DEF Fresh
  <2>3. QED
    BY <1>6, <2>1, <2>2 DEF OpenForm
<1>7. CASE EditField
  <2> DEFINE Edited(part) == form' = [form EXCEPT !.edited = part]
             Quantity(q) == Edited([form.edited EXCEPT !.qty = q])
             Kind(kind) == Edited([form.edited EXCEPT !.kind = kind])
             Place(mode, at) == (mode = "automatic" => at = Nowhere) /\ Edited(Moved(form.edited, mode, at))
  <2>1. \/ \E q \in 0..session.quantity : Quantity(q)
        \/ \E kind : Kind(kind)
        \/ \E mode, at : Place(mode, at)
    <3>1. ASSUME NEW mode, NEW at, mode = "automatic" => at = Nowhere,
                 form' = [form EXCEPT !.edited.mode = mode, !.edited.at = at]
          PROVE  Place(mode, at)
      BY <1>4, <3>1 DEF Moved
    <3>2. ASSUME NEW q, form' = [form EXCEPT !.edited.qty = q] PROVE Quantity(q)
      BY <3>2
    <3>3. ASSUME NEW kind, form' = [form EXCEPT !.edited.kind = kind] PROVE Kind(kind)
      BY <3>3
    <3> HIDE DEF Quantity, Kind, Place
    <3>4. CASE \E q \in 0..session.quantity : form' = [form EXCEPT !.edited.qty = q]
      BY <3>2, <3>4
    <3>5. CASE \E kind \in session.kinds : form' = [form EXCEPT !.edited.kind = kind]
      BY <3>3, <3>5
    <3>6. CASE \E choice \in StorageChoices(form.edited, form.part) :
                 form' = [form EXCEPT !.edited.mode = choice[1], !.edited.at = choice[2]]
      <4>1. PICK choice \in StorageChoices(form.edited, form.part) :
              form' = [form EXCEPT !.edited.mode = choice[1], !.edited.at = choice[2]]
        BY <3>6
      <4>2. choice[1] = "automatic" => choice[2] = Nowhere
        BY ChoiceStock
      <4>3. Place(choice[1], choice[2])
        BY <3>1, <4>1, <4>2
      <4>4. QED
        BY <4>3
    <3>7. QED
      BY <1>7, <3>4, <3>5, <3>6 DEF EditField
  <2>2. \A part : Edited(part) =>
          /\ DOMAIN form' = DOMAIN form /\ form'.edited = part
          /\ form'.original = form.original /\ form'.part = form.part
          /\ form'.open = form.open /\ form'.isNew = form.isNew
    BY <1>4
  <2> HIDE DEF Edited
  <2>3. \E part : Edited(part) /\ IsPart(part)
    <3>1. \A q \in 0..session.quantity : q \in Nat
      BY ParameterTyped
    <3>2. \A q \in Nat : IsPart([form.edited EXCEPT !.qty = q])
      BY <1>4, QuantityField
    <3>3. /\ \A kind : IsPart([form.edited EXCEPT !.kind = kind])
          /\ \A mode, at : (mode = "automatic" => at = Nowhere) =>
               IsPart(Moved(form.edited, mode, at))
      <4>0. IsPart(form.edited)
        BY <1>4
      <4>1. \A kind : IsPart([form.edited EXCEPT !.kind = kind])
        BY <4>0, KindField
      <4>2. ASSUME NEW mode, NEW at, mode = "automatic" => at = Nowhere
            PROVE  IsPart(Moved(form.edited, mode, at))
        BY <4>0, <4>2, PlaceField, Zenon
      <4>3. QED
        BY <4>1, <4>2
    <3>4. /\ \A q \in 0..session.quantity : Quantity(q) => \E part : Edited(part) /\ IsPart(part)
          /\ \A kind : Kind(kind) => \E part : Edited(part) /\ IsPart(part)
          /\ \A mode, at : Place(mode, at) => \E part : Edited(part) /\ IsPart(part)
      BY <3>1, <3>2, <3>3
    <3> HIDE DEF Quantity, Kind, Place
    <3>5. QED
      BY <2>1, <3>4
  <2>4. QED
    BY <1>4, <2>2, <2>3
<1>8. CASE CloseForm
  BY <1>5, <1>8 DEF CloseForm, NoForm
<1>9. QED
  BY <1>3, <1>6, <1>7, <1>8

\* A form that is saved changes one part, and its quantity only if the user did.
LEMMA SaveFormStock ==
  ASSUME NEW exact \in BOOLEAN, Stocked, Counts(exact), SaveForm
  PROVE  Stocked' /\ Counts(exact)' /\ (exact => ScansStay)
<1> DEFINE p == form.part
<1>1. /\ IsInventory(store) /\ Snapshots /\ p \in Parts
      /\ IsPart(form.original) /\ IsPart(form.edited)
      /\ form.isNew => p \notin DOMAIN store.parts
  BY DEF Stocked, SaveForm, Counts, NewIsNew
<1>2. form' = NoForm /\ import' = import /\ import = NoImport /\ NoImport.stage = "none"
  <2>1. form # NoForm
    BY DEF SaveForm, NoForm
  <2>2. QED
    BY <2>1 DEF SaveForm, Counts, Alone, NoImport
<1>3. SUFFICES /\ IsInventory(store') /\ Snapshots' /\ session' = session
               /\ \A q \in DOMAIN store.parts \cap DOMAIN store'.parts :
                    \/ store'.parts[q].qty = store.parts[q].qty
                    \/ q = p /\ form.edited.qty # form.original.qty
  <2>1. IsPart(Blank) /\ NoForm.open = FALSE
    <3>1. 0 \in Nat
      OBVIOUS
    <3>2. QED
      BY <3>1, NewPartStock DEF Blank, NoForm
  <2>2. Stocked'
    BY <1>2, <1>3, <2>1 DEF Stocked, NoForm
  <2>3. Counts(exact)'
    BY <1>2, <2>1 DEF Counts, Alone, NewIsNew, ReviewCounts, PendingCounts
  <2>4. \A q \in DOMAIN store.parts \cap DOMAIN store'.parts :
          Change(q) # 0 => q = p /\ form.edited.qty # form.original.qty
    <3>1. \A q \in DOMAIN store.parts : store.parts[q].qty \in Nat
      BY <1>1 DEF IsInventory, IsPart
    <3>2. QED
      BY <1>3, <3>1 DEF Change
  <2>5. QED
    BY <1>2, <2>2, <2>3, <2>4 DEF ScansStay
<1>4. CASE form.isNew
  <2> DEFINE inv == WithPart(store, p, form.edited)
  <2>1. SavePart(inv, p) /\ p \notin DOMAIN store.parts
    BY <1>1, <1>4 DEF SaveForm
  <2>2. /\ IsInventory(inv) /\ DOMAIN inv.parts = DOMAIN store.parts \cup {p}
        /\ \A q \in DOMAIN store.parts \ {p} : inv.parts[q] = store.parts[q]
    BY <1>1, PartStock
  <2> HIDE DEF inv
  <2>3. IsInventory(store') /\ SameStock(store', inv) /\ Snapshots' /\ session' = session
    BY <1>1, <2>1, <2>2, SavePartStock
  <2>4. \A q \in DOMAIN store.parts : store'.parts[q].qty = store.parts[q].qty
    BY <2>1, <2>2, <2>3 DEF SameStock
  <2>5. QED
    BY <1>3, <2>3, <2>4
<1>5. CASE ~form.isNew
  <2> DEFINE part == MergeItem(form.original, form.edited, store.parts[p], "typed")
             changed == [store EXCEPT !.parts[p] = part]
             inv == ReleasePlacement(changed, p)
  <2>1. SavePart(inv, p) /\ p \in DOMAIN store.parts
    BY <1>5 DEF SaveForm
  <2>2. /\ IsPart(store.parts[p]) /\ IsPart(part)
        /\ form.edited.qty = form.original.qty => part.qty = store.parts[p].qty
    <3>1. IsPart(store.parts[p])
      BY <1>1, <2>1 DEF IsInventory
    <3>2. \A base, edited, current :
            IsPart(base) /\ IsPart(edited) /\ IsPart(current) =>
              /\ IsPart(MergeItem(base, edited, current, "typed"))
              /\ edited.qty = base.qty => MergeItem(base, edited, current, "typed").qty = current.qty
      BY MergedStock
    <3>3. QED
      BY <1>1, <3>1, <3>2
  <2> HIDE DEF part
  <2>3. /\ IsInventory(changed) /\ DOMAIN changed.parts = DOMAIN store.parts
        /\ changed.parts[p] = part /\ \A q \in DOMAIN store.parts \ {p} : changed.parts[q] = store.parts[q]
    BY <1>1, <2>1, <2>2, ChangedStock
  <2> HIDE DEF changed
  <2>4. IsInventory(inv) /\ SameStock(inv, changed)
    BY <2>1, <2>3, ReleasedStock
  <2> HIDE DEF inv
  <2>5. p \in DOMAIN inv.parts
    BY <2>1, <2>3, <2>4 DEF SameStock
  <2>6. IsInventory(store') /\ SameStock(store', inv) /\ Snapshots' /\ session' = session
    BY <1>1, <2>1, <2>4, <2>5, SavePartStock
  <2>7. \A q \in DOMAIN store.parts : store'.parts[q].qty = changed.parts[q].qty
    BY <2>3, <2>4, <2>6 DEF SameStock
  <2>8. QED
    BY <1>3, <2>2, <2>3, <2>6, <2>7
<1>6. QED
  BY <1>4, <1>5

\* A review starts with nothing accepted.
LEMMA BeginImportStock ==
  ASSUME NEW exact \in BOOLEAN, Stocked, Counts(exact), BeginImport
  PROVE  Stocked' /\ Counts(exact)' /\ (exact => ScansStay)
<1>1. /\ UNCHANGED <<store, commits, saved, shown, confirming, form, session>>
      /\ form = NoForm /\ import = NoImport /\ confirming = "no" /\ NoForm.open = FALSE
  BY DEF BeginImport, pages, Idle, NoForm
<1>2. import' = [stage |-> "review", original |-> store, staged |-> store, rows |-> [p \in Parts |-> 0]]
  BY DEF BeginImport, NoImport
<1>3. IsInventory(store) /\ \A p \in DOMAIN store.parts : p \in Parts /\ store.parts[p].qty \in Nat
  BY DEF Stocked, IsInventory, IsPart
<1>4. Stocked'
  BY <1>1, <1>2, <1>3 DEF Stocked, Snapshots
<1>5. Alone' /\ NewIsNew' /\ PendingCounts'
  BY <1>1, <1>2 DEF Alone, NewIsNew, PendingCounts
<1>6. ReviewCounts'
  BY <1>1, <1>2, <1>3 DEF ReviewCounts
<1>7. QED
  BY <1>1, <1>4, <1>5, <1>6 DEF Counts, ScansStay

\* An accepted row is one piece more of its part.
LEMMA AcceptRowStock ==
  ASSUME NEW exact \in BOOLEAN, Stocked, Counts(exact), NEW p \in Parts, AcceptRow(p)
  PROVE  Stocked' /\ Counts(exact)' /\ (exact => ScansStay)
<1>1. /\ UNCHANGED <<store, commits, saved, shown, confirming, form, session>>
      /\ import.stage = "review" /\ import.rows[p] = 0
      /\ p \in DOMAIN import.original.parts \/ Fresh(p)
  BY DEF AcceptRow, pages
<1>2. import # NoImport /\ form = NoForm /\ NoForm.open = FALSE
  BY <1>1 DEF Counts, Alone, NoImport, NoForm
<1>3. PICK kind, choice :
        /\ choice \in StorageChoices(Blank, p)
        /\ LET row == StagedRow(p, kind, choice)
               next == Reconciled(WithPart(import.staged, p, row), p, made + 1)
           IN import' = [import EXCEPT !.staged = next, !.rows[p] = 1]
  BY DEF AcceptRow
<1>0. choice[1] = "automatic" => choice[2] = Nowhere
  BY <1>3, ChoiceStock
<1> DEFINE row == StagedRow(p, kind, choice)
           with == WithPart(import.staged, p, row)
           next == Reconciled(with, p, made + 1)
           old == import.original.parts
<1>4. /\ DOMAIN import = {"stage", "original", "staged", "rows"}
      /\ IsInventory(import.original) /\ IsInventory(import.staged) /\ import.rows \in [Parts -> Nat]
  BY DEF Stocked
<1>5. /\ \A q \in DOMAIN old :
           q \in DOMAIN import.staged.parts /\ import.staged.parts[q].qty = old[q].qty + import.rows[q]
      /\ \A q \in Parts \ DOMAIN import.staged.parts : import.rows[q] = 0
      /\ DOMAIN store.parts \cap DOMAIN import.staged.parts \subseteq DOMAIN old
  BY <1>1 DEF Counts, ReviewCounts
<1>6. IsPart(row) /\ (p \in DOMAIN old => row.qty = old[p].qty + 1)
  <2>1. CASE p \in DOMAIN old
    <3> DEFINE part == import.staged.parts[p]
    <3>1. /\ row = [qty |-> row.qty, kind |-> row.kind, mode |-> row.mode, at |-> row.at]
          /\ row.qty = part.qty + 1
          /\ \/ row.mode = choice[1] /\ row.at = choice[2]
             \/ row.mode = part.mode /\ row.at = part.at
      BY <2>1 DEF StagedRow
    <3>2. import.staged.parts[p].qty = old[p].qty + 0 /\ old[p].qty \in Nat
      BY <1>1, <1>4, <1>5, <2>1 DEF IsInventory, IsPart
    <3>3. part.mode = "automatic" => part.at = Nowhere
      BY <1>4, <1>5, <2>1 DEF IsInventory, IsPart
    <3> HIDE DEF row, part
    <3>4. row.mode = "automatic" => row.at = Nowhere
      BY <1>0, <3>1, <3>3
    <3>5. QED
      BY <3>1, <3>2, <3>4 DEF IsPart, part
  <2>2. CASE p \notin DOMAIN old
    BY <1>0, <2>2 DEF StagedRow, IsPart
  <2>3. QED
    BY <2>1, <2>2
<1> HIDE DEF row
<1>7. /\ IsInventory(with) /\ DOMAIN with.parts = DOMAIN import.staged.parts \cup {p}
      /\ with.parts[p] = row /\ \A q \in DOMAIN import.staged.parts \ {p} : with.parts[q] = import.staged.parts[q]
  BY <1>4, <1>6, PartStock
<1> HIDE DEF with
<1>8. IsInventory(next) /\ SameStock(next, with)
  BY <1>7, PlacedStock
<1>9. import' = [import EXCEPT !.staged = next, !.rows[p] = 1]
  BY <1>3 DEF next, with, row
<1> HIDE DEF next
<1>10. /\ DOMAIN import' = DOMAIN import /\ import'.stage = "review" /\ import'.original = import.original
       /\ import'.staged = next /\ import'.rows = [import.rows EXCEPT ![p] = 1]
  BY <1>1, <1>4, <1>9
<1>11. import'.rows \in [Parts -> Nat] /\ import'.rows[p] = 1
       /\ \A q \in Parts \ {p} : import'.rows[q] = import.rows[q]
  BY <1>4, <1>10
<1>12. Stocked'
  BY <1>1, <1>4, <1>8, <1>10, <1>11 DEF Stocked, Snapshots
<1>13. Alone' /\ NewIsNew' /\ PendingCounts'
  BY <1>1, <1>2, <1>10 DEF Counts, Alone, NewIsNew, PendingCounts
<1>14. ReviewCounts'
  <2>1. DOMAIN next.parts = DOMAIN import.staged.parts \cup {p} /\ next.parts[p].qty = row.qty
        /\ \A q \in DOMAIN import.staged.parts \ {p} : next.parts[q].qty = import.staged.parts[q].qty
    BY <1>7, <1>8 DEF SameStock
  <2>2. \A q \in DOMAIN old : /\ q \in Parts /\ q \in DOMAIN next.parts
                              /\ next.parts[q].qty = old[q].qty + import'.rows[q]
    BY <1>4, <1>5, <1>6, <1>11, <2>1 DEF IsInventory
  <2>3. \A q \in Parts \ DOMAIN next.parts : import'.rows[q] = 0
    BY <1>5, <1>11, <2>1
  <2>4. p \in DOMAIN old \/ p \notin DOMAIN store.parts
    BY <1>1 DEF Fresh
  <2>5. DOMAIN store.parts \cap DOMAIN next.parts \subseteq DOMAIN old
    BY <1>5, <2>1, <2>4
  <2>6. QED
    BY <1>1, <1>10, <2>2, <2>3, <2>5 DEF ReviewCounts
<1>15. QED
  BY <1>1, <1>2, <1>12, <1>13, <1>14 DEF Counts, ScansStay

LEMMA NoImportStock ==
  /\ NoImport.stage = "none" /\ DOMAIN NoImport = {"stage", "original", "staged", "rows"}
  /\ NoImport.original = Empty /\ NoImport.staged = Empty /\ IsInventory(Empty)
  /\ NoImport.rows \in [Parts -> Nat]
<1>1. IsInventory(Empty)
  <2>1. Empty.parts = << >> /\ Empty = [parts |-> Empty.parts, racks |-> Empty.racks]
    BY DEF Empty
  <2>2. DOMAIN << >> = {}
    OBVIOUS
  <2>3. QED
    BY <2>1, <2>2 DEF IsInventory
<1>2. QED
  BY <1>1 DEF NoImport

\* Whether or not its save fails, the import is there.
LEMMA SavedImportStock ==
  ASSUME NEW exact \in BOOLEAN, Stocked, Counts(exact), import # NoImport, NEW original, IsInventory(original), ImportSaved(original),
         IsInventory(store'), Snapshots', UNCHANGED <<form, session>>, confirming' \in {confirming, "no"},
         exact => \A p \in DOMAIN store'.parts \cap DOMAIN original.parts :
           store'.parts[p].qty = original.parts[p].qty + import.rows[p]
  PROVE  Stocked' /\ Counts(exact)'
<1>1. form = NoForm /\ NoForm.open = FALSE /\ confirming' = "no"
  BY DEF Counts, Alone, NoForm
<1>2. /\ DOMAIN import = {"stage", "original", "staged", "rows"}
      /\ IsInventory(import.staged) /\ import.rows \in [Parts -> Nat]
  BY DEF Stocked
<1>3. CASE import' = NoImport
  <2>1. Stocked'
    BY <1>3, NoImportStock DEF Stocked
  <2>2. QED
    BY <1>1, <1>3, <2>1, NoImportStock DEF Counts, Alone, NewIsNew, ReviewCounts, PendingCounts
<1>4. CASE import' = [import EXCEPT !.stage = "pending", !.original = original]
  <2>1. /\ DOMAIN import' = DOMAIN import /\ import'.stage = "pending" /\ import'.original = original
        /\ import'.staged = import.staged /\ import'.rows = import.rows
    BY <1>2, <1>4
  <2>2. Stocked'
    BY <1>2, <2>1 DEF Stocked
  <2>3. QED
    BY <1>1, <2>1, <2>2 DEF Counts, Alone, NewIsNew, ReviewCounts, PendingCounts
<1>5. QED
  BY <1>3, <1>4 DEF ImportSaved

\* A committed import adds what was accepted.
LEMMA CommitImportStock ==
  ASSUME NEW exact \in BOOLEAN, Stocked, Counts(exact), CommitImport
  PROVE  Stocked' /\ Counts(exact)' /\ (exact => ScansStay)
<1> DEFINE all == MergeInventory(import.original, import.staged, store)
<1>1. /\ IsInventory(store) /\ Snapshots /\ IsInventory(import.original) /\ IsInventory(import.staged)
      /\ import.rows \in [Parts -> Nat]
  BY DEF Stocked
<1>2. /\ import.stage = "review" /\ import # NoImport /\ form = NoForm /\ NoForm.open = FALSE
      /\ UNCHANGED form /\ ImportSaved(store) /\ Save(all, made, Manual, Stay)
  BY DEF CommitImport, Counts, Alone, NoImport, NoForm
<1>3. /\ IsInventory(all)
      /\ \A p \in DOMAIN all.parts \cap DOMAIN store.parts :
           IF p \in DOMAIN import.original.parts \cap DOMAIN import.staged.parts
             THEN import.staged.parts[p].qty >= import.original.parts[p].qty
                    => all.parts[p].qty = store.parts[p].qty
                                            + (import.staged.parts[p].qty - import.original.parts[p].qty)
             ELSE all.parts[p].qty = store.parts[p].qty
  BY <1>1, MergeStock
<1> HIDE DEF all
<1>4. /\ IsInventory(store') /\ SameStock(store', all) /\ Snapshots' /\ session' = session
      /\ confirming' \in {confirming, "no"}
  BY <1>1, <1>2, <1>3, SaveStock
<1>5. ASSUME NEW p \in DOMAIN store.parts \cap DOMAIN store'.parts
      PROVE  store'.parts[p].qty = store.parts[p].qty + import.rows[p]
             /\ store.parts[p].qty \in Nat /\ import.rows[p] \in Nat
  <2>1. p \in DOMAIN all.parts \cap DOMAIN store.parts /\ store'.parts[p].qty = all.parts[p].qty
    BY <1>4 DEF SameStock
  <2>2. p \in Parts /\ store.parts[p].qty \in Nat /\ import.rows[p] \in Nat
    BY <1>1 DEF IsInventory, IsPart
  <2>3. CASE p \in DOMAIN import.original.parts
    <3>1. /\ p \in DOMAIN import.staged.parts
          /\ import.staged.parts[p].qty = import.original.parts[p].qty + import.rows[p]
      BY <1>2, <2>3 DEF Counts, ReviewCounts
    <3>2. import.original.parts[p].qty \in Nat
      BY <1>1, <2>3 DEF IsInventory, IsPart
    <3>3. /\ import.staged.parts[p].qty >= import.original.parts[p].qty
          /\ import.staged.parts[p].qty - import.original.parts[p].qty = import.rows[p]
      BY <2>2, <3>1, <3>2
    <3>4. QED
      BY <1>3, <2>1, <2>2, <2>3, <3>1, <3>3
  <2>4. CASE p \notin DOMAIN import.original.parts
    <3>1. p \notin DOMAIN import.staged.parts /\ import.rows[p] = 0
      BY <1>2, <2>2, <2>4 DEF Counts, ReviewCounts
    <3>2. QED
      BY <1>3, <2>1, <2>2, <2>4, <3>1
  <2>5. QED
    BY <2>3, <2>4
<1>6. Stocked' /\ Counts(exact)'
  BY <1>1, <1>2, <1>4, <1>5, SavedImportStock
<1>7. \A p \in DOMAIN store.parts \cap DOMAIN store'.parts : Change(p) = import.rows[p]
  BY <1>5 DEF Change
<1>8. QED
  BY <1>2, <1>6, <1>7 DEF ScansStay

\* A repeated save adds no more, and an import that is cancelled takes back what it added.
LEMMA PendingImportStock ==
  ASSUME NEW exact \in BOOLEAN, Stocked, Counts(exact), RetryImport \/ CancelImport
  PROVE  Stocked' /\ Counts(exact)' /\ (exact => ScansStay)
<1>1. /\ IsInventory(store) /\ Snapshots /\ IsInventory(import.original)
      /\ import.rows \in [Parts -> Nat] /\ import.stage \in {"none", "review", "pending"}
  BY DEF Stocked
<1>2. /\ import # NoImport /\ form = NoForm /\ NoForm.open = FALSE /\ UNCHANGED form /\ confirming = "no"
  BY DEF RetryImport, CancelImport, Counts, Alone, NoImport, NoForm
<1>3. CASE RetryImport
  <2>1. import.stage = "pending" /\ ImportSaved(import.original) /\ Save(store, made, Manual, Stay)
    BY <1>3 DEF RetryImport
  <2>2. /\ IsInventory(store') /\ SameStock(store', store) /\ Snapshots' /\ session' = session
        /\ confirming' \in {confirming, "no"}
    BY <1>1, <2>1, SaveStock
  <2>3. exact => \A p \in DOMAIN store'.parts \cap DOMAIN import.original.parts :
          store'.parts[p].qty = import.original.parts[p].qty + import.rows[p]
    BY <2>1, <2>2 DEF Counts, PendingCounts, SameStock
  <2>4. Stocked' /\ Counts(exact)'
    BY <1>1, <1>2, <2>1, <2>2, <2>3, SavedImportStock
  <2>5. \A p \in DOMAIN store.parts \cap DOMAIN store'.parts : Change(p) = 0
    BY <1>1, <2>2 DEF SameStock, Change, IsInventory, IsPart
  <2>6. QED
    BY <1>2, <2>1, <2>4, <2>5 DEF ScansStay
<1>4. CASE CancelImport
  <2>1. /\ import' = NoImport /\ UNCHANGED <<commits, saved, shown, confirming, session>>
        /\ store' = IF import.stage = "pending" THEN import.original ELSE store
    BY <1>4 DEF CancelImport, pages
  <2>2. IsInventory(store') /\ Snapshots'
    BY <1>1, <2>1 DEF Snapshots
  <2>3. Stocked'
    BY <1>2, <2>1, <2>2, NoImportStock DEF Stocked
  <2>4. Counts(exact)'
    BY <1>2, <2>1, NoImportStock DEF Counts, Alone, NewIsNew, ReviewCounts, PendingCounts
  <2>5. CASE import.stage = "pending"
    <3>1. ASSUME exact, NEW p \in DOMAIN store.parts \cap DOMAIN store'.parts
          PROVE  Change(p) = -import.rows[p]
      <4>1. /\ store.parts[p].qty = import.original.parts[p].qty + import.rows[p]
            /\ store'.parts[p].qty = import.original.parts[p].qty
        BY <2>1, <2>5, <3>1 DEF Counts, PendingCounts
      <4>2. p \in Parts /\ import.original.parts[p].qty \in Nat /\ import.rows[p] \in Nat
        BY <1>1, <2>1, <2>5 DEF IsInventory, IsPart
      <4>3. QED
        BY <4>1, <4>2 DEF Change
    <3>2. QED
      BY <1>2, <2>3, <2>4, <2>5, <3>1 DEF ScansStay
  <2>6. CASE import.stage # "pending"
    BY <1>2, <2>1, <2>3, <2>4, <2>6 DEF ScansStay
  <2>7. QED
    BY <2>5, <2>6
<1>5. QED
  BY <1>3, <1>4

LEMMA StockStart ==
  ASSUME Init
  PROVE  Stocked /\ Counts(TRUE) /\ Counts(FALSE)
<1>1. /\ DOMAIN NoForm = {"open", "part", "isNew", "original", "edited"} /\ NoForm.open = FALSE
      /\ IsPart(NoForm.original) /\ IsPart(NoForm.edited)
  <2>1. 0 \in Nat
    OBVIOUS
  <2>2. QED
    BY <2>1, NewPartStock DEF Blank, NoForm
<1>2. Snapshots
  <2> DEFINE first == Commit(Empty, NoDraft, FALSE)
  <2>1. first.snapshot = Empty
    BY DEF Commit
  <2> HIDE DEF first
  <2>2. commits = <<first>> /\ shown = 1 /\ saved = Empty
    BY DEF Init, first
  <2>3. commits \in Seq({first}) /\ Len(commits) = 1 /\ commits[1] = first
    BY <2>2
  <2>4. \A k \in 1..Len(commits) : commits[k] = first
    BY <2>3
  <2>5. shown \in 1..Len(commits)
    BY <2>2, <2>3
  <2>6. Settled(Empty)
    <3>1. DOMAIN << >> = {} /\ Empty.parts = << >>
      BY DEF Empty
    <3>2. QED
      BY <3>1 DEF Settled
  <2>7. QED
    BY <2>1, <2>2, <2>3, <2>4, <2>5, <2>6, NoImportStock DEF Snapshots
<1>3. QED
  BY <1>1, <1>2, NoImportStock DEF Init, Stocked, Counts, Alone, NewIsNew, ReviewCounts, PendingCounts

LEMMA StockStep ==
  ASSUME NEW exact \in BOOLEAN, Stocked, Counts(exact), Asked, exact => PendingIsUnsaved, [Next]_vars
  PROVE  Stocked' /\ Counts(exact)' /\ (exact => [ScansStay]_vars)
<1>1. CASE UNCHANGED vars
  <2>1. UNCHANGED <<store, commits, shown, confirming, form, import, session, saved>>
    BY <1>1 DEF vars, pages, edits
  <2>2. Stocked'
    BY <2>1 DEF Stocked, Snapshots
  <2>3. Counts(exact)'
    BY <2>1 DEF Counts, Alone, NewIsNew, ReviewCounts, PendingCounts
  <2>4. QED
    BY <1>1, <2>2, <2>3
<1>2. CASE Next
  BY <1>2, PageStock, ArrivingStock, HistoryStock, OpenFormStock, SaveFormStock, BeginImportStock,
     AcceptRowStock, CommitImportStock, PendingImportStock DEF Next
<1>3. QED
  BY <1>1, <1>2

\* Stock that scans and vendor answers change while a form is open, an import is under review
\* or its save fails is kept, as long as no other save writes an import whose own save failed:
\* CancelImport puts the inventory before the import back, and with it whatever was saved and
\* scanned since (App::saveWorkingCopy, App::commitImportStage, App::cancelImportSession).
THEOREM ScansAreKept == Spec /\ []PendingIsUnsaved => ScansKept
<1>1. Init => Stocked /\ Counts(TRUE) /\ Asked
  BY StockStart DEF Init, Asked
<1>2. Stocked /\ Counts(TRUE) /\ Asked /\ PendingIsUnsaved /\ [Next]_vars
        => Stocked' /\ Counts(TRUE)' /\ Asked' /\ [ScansStay]_vars
  BY StockStep, AskedStep
<1>3. QED
  BY <1>1, <1>2, PTL DEF Spec, ScansKept, ScansStay

-----------------------------------------------------------------------------
(* The stack of the changes that stand *)

UpTo(S, k) == {j \in S : j <= k}

\* A number above the others of a set is its last, and leaves the order of the others.
LEMMA Numbered ==
  ASSUME NEW S \in SUBSET Nat, IsFiniteSet(S), NEW n \in Nat, \A k \in S : k < n
  PROVE  LET T == S \cup {n}
         IN  /\ Cardinality(S) \in Nat /\ Cardinality(T) = Cardinality(S) + 1
             /\ Nth(T, Cardinality(S) + 1) = n /\ Cardinality(UpTo(T, n)) = Cardinality(S) + 1
             /\ \A i \in 1..Cardinality(S) : Nth(T, i) = Nth(S, i)
             /\ \A k \in S : UpTo(T, k) = UpTo(S, k)
<1> DEFINE T == S \cup {n}
<1>1. Cardinality(S) \in Nat /\ Cardinality(T) = Cardinality(S) + 1
  BY FS_CardinalityType, FS_AddElement
<1>2. ASSUME NEW k \in S
      PROVE  UpTo(T, k) = UpTo(S, k) /\ Cardinality(UpTo(S, k)) <= Cardinality(S)
  <2>1. k \in Nat /\ k < n
    OBVIOUS
  <2>2. UpTo(T, k) = UpTo(S, k)
    BY <2>1 DEF UpTo
  <2>3. UpTo(S, k) \subseteq S
    BY DEF UpTo
  <2>4. QED
    BY <2>2, <2>3, FS_Subset
<1>3. UpTo(T, n) = T
  <2>1. \A k \in T : k <= n
    OBVIOUS
  <2> HIDE DEF T
  <2>2. QED
    BY <2>1 DEF UpTo
<1>0. \A k : k \in T <=> k \in S \/ k = n
  OBVIOUS
<1> HIDE DEF T
<1>4. ASSUME NEW i \in 1..Cardinality(S)
      PROVE  Nth(T, i) = Nth(S, i)
  <2>1. \A k : k \in T /\ Cardinality(UpTo(T, k)) = i <=> k \in S /\ Cardinality(UpTo(S, k)) = i
    <3>1. Cardinality(UpTo(T, n)) # i
      BY <1>1, <1>3
    <3>2. QED
      BY <1>0, <1>2, <3>1
  <2>2. (CHOOSE k \in T : Cardinality(UpTo(T, k)) = i) = (CHOOSE k \in S : Cardinality(UpTo(S, k)) = i)
    BY <2>1
  <2>3. QED
    BY <2>2 DEF Nth, UpTo
<1>5. Nth(T, Cardinality(S) + 1) = n
  <2> DEFINE Last1(k) == k \in T /\ Cardinality(UpTo(T, k)) = Cardinality(S) + 1
  <2>1. \A k : Last1(k) <=> k = n
    <3>1. \A k \in S : UpTo(T, k) = UpTo(S, k) /\ Cardinality(UpTo(S, k)) <= Cardinality(S)
                       /\ Cardinality(UpTo(S, k)) \in Nat
      <4>1. ASSUME NEW k \in S PROVE Cardinality(UpTo(S, k)) \in Nat
        <5>1. UpTo(S, k) \subseteq S
          BY DEF UpTo
        <5>2. QED
          BY <5>1, FS_Subset, FS_CardinalityType
      <4>2. QED
        BY <1>2, <4>1
    <3>2. \A k \in S : ~Last1(k)
      BY <1>1, <3>1
    <3>3. Last1(n)
      BY <1>0, <1>1, <1>3
    <3>4. QED
      BY <1>0, <3>2, <3>3
  <2>2. Nth(T, Cardinality(S) + 1) = CHOOSE k : Last1(k)
    BY DEF Nth, UpTo
  <2> HIDE DEF Last1
  <2>3. QED
    BY <2>1, <2>2
<1>6. QED
  BY <1>1, <1>2, <1>3, <1>4, <1>5 DEF T

\* The inventories of a history at a set of commits, in their order.
SnapshotsAt(history, S) == [i \in 1..Cardinality(S) |-> history[Nth(S, i)].snapshot]

Ordered(S) == \A i \in 1..Cardinality(S) : Nth(S, i) \in S /\ Cardinality(UpTo(S, Nth(S, i))) = i

LEMMA ListIsSeq ==
  ASSUME NEW n \in Nat, NEW s, s = [i \in 1..n |-> s[i]], NEW R, \A i \in 1..n : s[i] \in R
  PROVE  s \in Seq(R) /\ Len(s) = n
<1>1. s \in [1..n -> R]
  OBVIOUS
<1>2. s \in Seq(R)
  BY <1>1, SeqDef
<1>3. DOMAIN s = 1..n /\ DOMAIN s = 1..Len(s) /\ Len(s) \in Nat
  BY <1>1, <1>2, LenProperties
<1>4. QED
  BY <1>2, <1>3

\* A sequence with one element more.
LEMMA OneMore ==
  ASSUME NEW n \in Nat, NEW s, s = [i \in 1..n |-> s[i]], NEW t, t = [i \in 1..(n + 1) |-> t[i]],
         \A i \in 1..n : t[i] = s[i]
  PROVE  t = Append(s, t[n + 1]) /\ Front(t) = s /\ Len(t) = n + 1 /\ Len(s) = n
<1> DEFINE R == {s[i] : i \in 1..n} \cup {t[n + 1]}
           x == t[n + 1]
<1>1. \A i \in 1..(n + 1) : i \in 1..n \/ i = n + 1
  OBVIOUS
<1>2. /\ \A i \in 1..n : s[i] \in R
      /\ \A i \in 1..(n + 1) : t[i] \in R
      /\ x \in R
  BY <1>1
<1>3. x = t[n + 1] /\ n + 1 \in Nat
  OBVIOUS
<1> HIDE DEF R, x
<1>4. /\ s \in Seq(R) /\ Len(s) = n
      /\ t \in Seq(R) /\ Len(t) = n + 1
  BY <1>2, <1>3, ListIsSeq
<1>5. t = Append(s, x)
  <2> DEFINE u == Append(s, x)
  <2>1. u \in Seq(R) /\ Len(u) = n + 1 /\ u[n + 1] = x /\ \A i \in 1..n : u[i] = s[i]
    BY <1>2, <1>4, AppendProperties
  <2> HIDE DEF u
  <2>2. \A i \in 1..Len(t) : t[i] = u[i]
    BY <1>1, <1>3, <1>4, <2>1
  <2>3. t = u
    BY <1>4, <2>1, <2>2, SeqEqual
  <2>4. QED
    BY <2>3 DEF u
<1>6. Front(t) = s
  <2>1. n \in 0..Len(t) /\ Len(t) - 1 = n
    BY <1>3, <1>4
  <2>2. SubSeq(t, 1, n) = Restrict(t, 1..n)
    BY <1>4, <2>1, SubSeqRestrict
  <2>3. Restrict(t, 1..n) = [i \in 1..n |-> t[i]]
    BY DEF Restrict
  <2>4. QED
    BY <2>1, <2>2, <2>3 DEF Front
<1>7. QED
  BY <1>4, <1>5, <1>6 DEF x

\* The last of a set of commits is the top of the stack.
LEMMA TopOfStack ==
  ASSUME NEW S \in SUBSET Nat, IsFiniteSet(S), NEW n \in Nat, \A k \in S : k < n,
         Ordered(S) \/ Ordered(S \cup {n}), NEW history
  PROVE  LET t == SnapshotsAt(history, S \cup {n})
             s == SnapshotsAt(history, S)
         IN  /\ Ordered(S) /\ Ordered(S \cup {n})
             /\ t = Append(s, history[n].snapshot) /\ s = Front(t)
             /\ Len(s) = Cardinality(S) /\ Len(t) = Cardinality(S) + 1 /\ Cardinality(S) \in Nat
             /\ Last(t) = history[n].snapshot
<1> DEFINE T == S \cup {n}
           s == SnapshotsAt(history, S)
           t == SnapshotsAt(history, T)
           c == Cardinality(S)
<1>1. /\ c \in Nat /\ Cardinality(T) = c + 1
      /\ Nth(T, c + 1) = n /\ Cardinality(UpTo(T, n)) = c + 1
      /\ \A i \in 1..c : Nth(T, i) = Nth(S, i)
      /\ \A k \in S : UpTo(T, k) = UpTo(S, k)
  BY Numbered
<1>2. S \subseteq T /\ n \in T /\ \A k \in T : k \in S \/ k = n
  OBVIOUS
<1>3. \A i \in 1..(c + 1) : i \in 1..c \/ i = c + 1
  BY <1>1
<1>4. \A i \in 1..c : i \in 1..(c + 1) /\ i # c + 1
  BY <1>1
<1>5. Ordered(S) \/ Ordered(T)
  OBVIOUS
<1> HIDE DEF T, c
<1>6. Ordered(T) => Ordered(S)
  <2>1. SUFFICES ASSUME Ordered(T), NEW i \in 1..c
                 PROVE  Nth(S, i) \in S /\ Cardinality(UpTo(S, Nth(S, i))) = i
    BY DEF Ordered, c
  <2>2. Nth(T, i) \in T /\ Cardinality(UpTo(T, Nth(T, i))) = i
    BY <1>1, <1>4, <2>1 DEF Ordered
  <2>3. Nth(T, i) # n
    BY <1>1, <1>4, <2>2
  <2>4. QED
    BY <1>1, <1>2, <2>2, <2>3
<1>7. Ordered(S) => Ordered(T)
  <2>1. SUFFICES ASSUME Ordered(S), NEW i \in 1..(c + 1)
                 PROVE  Nth(T, i) \in T /\ Cardinality(UpTo(T, Nth(T, i))) = i
    BY <1>1 DEF Ordered
  <2>2. CASE i \in 1..c
    <3>1. Nth(S, i) \in S /\ Cardinality(UpTo(S, Nth(S, i))) = i
      BY <2>1, <2>2 DEF Ordered, c
    <3>2. QED
      BY <1>1, <1>2, <2>2, <3>1
  <2>3. CASE i = c + 1
    BY <1>1, <1>2, <2>3
  <2>4. QED
    BY <1>3, <2>2, <2>3
<1>8. /\ s = [i \in 1..c |-> history[Nth(S, i)].snapshot]
      /\ t = [i \in 1..(c + 1) |-> history[Nth(T, i)].snapshot]
  BY <1>1 DEF SnapshotsAt, c
<1>9. /\ s = [i \in 1..c |-> s[i]] /\ t = [i \in 1..(c + 1) |-> t[i]]
      /\ \A i \in 1..c : t[i] = s[i]
      /\ t[c + 1] = history[n].snapshot
  BY <1>1, <1>4, <1>8
<1> HIDE DEF s, t
<1>10. t = Append(s, t[c + 1]) /\ Front(t) = s /\ Len(t) = c + 1 /\ Len(s) = c
  BY <1>1, <1>9, OneMore
<1>11. Last(t) = history[n].snapshot
  BY <1>9, <1>10 DEF Last
<1>12. QED
  BY <1>1, <1>5, <1>6, <1>7, <1>9, <1>10, <1>11 DEF s, t, T, c

\* Histories that agree on the commits.
LEMMA SameSnapshots ==
  ASSUME NEW S, Ordered(S), NEW history, NEW other, \A k \in S : history[k].snapshot = other[k].snapshot
  PROVE  SnapshotsAt(history, S) = SnapshotsAt(other, S)
BY DEF SnapshotsAt, Ordered

-----------------------------------------------------------------------------
(* Ctrl+Z is a stack *)

StandingIn(history) == {1} \cup Undoable(history)

LEMMA StandingIs ==
  ASSUME Snapshots
  PROVE  /\ Standing = StandingIn(commits)
         /\ Undoable(commits) \subseteq 2..Len(commits)
         /\ Standing \in SUBSET Nat /\ IsFiniteSet(Standing) /\ Standing \subseteq 1..Len(commits)
         /\ 1 \in Standing /\ Len(commits) \in Nat \ {0}
<1>1. Len(commits) \in Nat \ {0}
  BY DEF Snapshots
<1>2. Undoable(commits) \subseteq 2..Len(commits)
  BY DEF Undoable
<1>3. Standing = {1} \cup Undoable(commits)
  BY <1>1 DEF Standing, Undoable
<1>4. Standing \subseteq 1..Len(commits) /\ 1 \in Standing
  BY <1>1, <1>2, <1>3
<1>5. IsFiniteSet(1..Len(commits))
  BY <1>1, FS_Interval
<1>6. IsFiniteSet(Standing)
  BY <1>4, <1>5, FS_Subset
<1>7. QED
  BY <1>1, <1>2, <1>3, <1>4, <1>6 DEF StandingIn

\* The latest commit that Ctrl+Z takes back.
Latest(k) == k \in Undoable(commits) /\ \A j \in Undoable(commits) : j <= k

\* What the last standing commit left is saved, and each standing commit was made over what
\* the one before it left.
Linked ==
  /\ Ordered(Standing)
  /\ \A k \in Standing : (\A j \in Standing : j <= k) => commits[k].snapshot = saved
  /\ \A k, j \in Standing :
       j < k /\ (\A i \in Standing : i < k => i <= j) => commits[k - 1].snapshot = commits[j].snapshot

\* What a step records: nothing, a change, a mark, or that a change was taken back.
Quiet == UNCHANGED <<saved, commits>>

Records(d, changes) == commits' = Append(commits, Commit(saved', d, changes))

RecordsChange == saved' # saved /\ Records(Manual, TRUE)

RecordsMark == saved' = saved /\ Records(Draft(TRUE, 0), FALSE)

RecordsUndo ==
  \E k : Latest(k) /\ saved' = commits[k - 1].snapshot /\ saved' # saved /\ Records(Draft(FALSE, k), TRUE)

\* One commit more, and which can be undone then.
LEMMA OneCommitMore ==
  ASSUME Snapshots, NEW commit, commits' = Append(commits, commit), commit.reverts \in Nat
  PROVE  /\ Len(commits') = Len(commits) + 1 /\ commits'[Len(commits) + 1] = commit
         /\ \A k \in 1..Len(commits) : commits'[k] = commits[k]
         /\ Standing' = {1} \cup Undoable(commits')
         /\ Undoable(commits') =
              {k \in Undoable(commits) : commit.reverts # k}
                \cup {k \in {Len(commits) + 1} : commit.reverts = 0 /\ ~commit.checkpoint /\ commit.changes}
<1> DEFINE n == Len(commits)
<1>1. PICK S : commits \in Seq(S)
  BY DEF Snapshots
<1>2. n \in Nat \ {0}
  BY StandingIs
<1>3. /\ Len(commits') = n + 1 /\ commits'[n + 1] = commit
      /\ \A k \in 1..n : commits'[k] = commits[k]
  <2>1. commits \in Seq(S \cup {commit}) /\ commit \in S \cup {commit}
    BY <1>1, SeqMonotonic
  <2>2. QED
    BY <2>1, AppendProperties
<1> HIDE DEF n
<1>4. \A k \in 1..n : Undone(commits', k) <=> Undone(commits, k) \/ commit.reverts = k
  <2>1. ASSUME NEW k \in 1..n PROVE Undone(commits', k) <=> Undone(commits, k) \/ commit.reverts = k
    <3>1. \A j \in (k + 1)..(n + 1) : j \in (k + 1)..n \/ j = n + 1
      BY <1>2
    <3>2. \A j \in (k + 1)..n : j \in 1..n /\ j \in (k + 1)..(n + 1)
      BY <1>2
    <3>3. n + 1 \in (k + 1)..(n + 1)
      BY <1>2
    <3>4. QED
      BY <1>3, <3>1, <3>2, <3>3 DEF Undone, n
  <2>2. QED
    BY <2>1
<1>5. ~Undone(commits', n + 1)
  BY <1>2, <1>3 DEF Undone
<1>6. \A k \in 2..(n + 1) : (k \in 2..n /\ k \in 1..n) \/ k = n + 1
  BY <1>2
<1>7. \A k \in 2..n : k \in 2..(n + 1) /\ k \in 1..n /\ k # n + 1
  BY <1>2
<1>8. n + 1 \in 2..(n + 1)
  BY <1>2
<1> DEFINE May(history, k) == history[k].reverts = 0 /\ ~history[k].checkpoint /\ history[k].changes
           Now == 2..(n + 1)
           Then == 2..n
<1>9. /\ Undoable(commits') = {k \in Now : May(commits', k) /\ ~Undone(commits', k)}
      /\ Undoable(commits) = {k \in Then : May(commits, k) /\ ~Undone(commits, k)}
  BY <1>3 DEF Undoable, n
<1>10. /\ \A k \in Then : May(commits', k) <=> May(commits, k)
       /\ May(commits', n + 1) <=> commit.reverts = 0 /\ ~commit.checkpoint /\ commit.changes
  BY <1>3, <1>7
<1> HIDE DEF May, Now, Then
<1>11. \A k : k \in Undoable(commits') <=>
                \/ k \in Undoable(commits) /\ commit.reverts # k
                \/ k = n + 1 /\ commit.reverts = 0 /\ ~commit.checkpoint /\ commit.changes
  BY <1>4, <1>5, <1>6, <1>7, <1>8, <1>9, <1>10 DEF Now, Then
<1>12. Standing' = {1} \cup Undoable(commits')
  BY <1>2, <1>3 DEF Standing, Undoable, n
<1>13. QED
  BY <1>3, <1>11, <1>12 DEF n

\* A change is put on the stack.
LEMMA ChangeStacked ==
  ASSUME Snapshots, Linked, RecordsChange
  PROVE  Linked' /\ StandingSnapshots' = Append(StandingSnapshots, saved') /\ saved' # saved
<1> DEFINE n == Len(commits)
           commit == Commit(saved', Manual, TRUE)
           S == Standing
           T == S \cup {n + 1}
<1>1. commit.reverts = 0 /\ ~commit.checkpoint /\ commit.changes /\ commit.snapshot = saved'
  BY DEF Commit, Manual, Draft
<1>2. commits' = Append(commits, commit) /\ saved' # saved
  BY DEF RecordsChange, Records
<1> HIDE DEF commit
<1>3. /\ Len(commits') = n + 1 /\ commits'[n + 1] = commit
      /\ \A k \in 1..n : commits'[k] = commits[k]
      /\ Standing' = {1} \cup Undoable(commits')
      /\ Undoable(commits') =
           {k \in Undoable(commits) : commit.reverts # k}
             \cup {k \in {n + 1} : commit.reverts = 0 /\ ~commit.checkpoint /\ commit.changes}
  BY <1>1, <1>2, OneCommitMore
<1>4. /\ S = {1} \cup Undoable(commits) /\ Undoable(commits) \subseteq 2..n
      /\ S \in SUBSET Nat /\ IsFiniteSet(S) /\ S \subseteq 1..n /\ 1 \in S /\ n \in Nat \ {0}
  BY StandingIs DEF StandingIn
<1>5. saved = commits[n].snapshot
  BY DEF Snapshots
<1> HIDE DEF n
<1>6. Standing' = T
  <2>1. \A k \in Undoable(commits) : commit.reverts # k
    BY <1>1, <1>4
  <2>2. QED
    BY <1>1, <1>3, <1>4, <2>1
<1>7. \A k \in S : k < n + 1 /\ k \in 1..n
  BY <1>4
<1>8. /\ Ordered(S)
      /\ \A k \in S : (\A j \in S : j <= k) => commits[k].snapshot = saved
      /\ \A k, j \in S :
           j < k /\ (\A i \in S : i < k => i <= j) => commits[k - 1].snapshot = commits[j].snapshot
  BY DEF Linked
<1>9. StandingSnapshots = SnapshotsAt(commits, S) /\ StandingSnapshots' = SnapshotsAt(commits', Standing')
  BY DEF StandingSnapshots, SnapshotsAt
<1> HIDE DEF S
<1>10. /\ Ordered(T)
       /\ SnapshotsAt(commits', T) = Append(SnapshotsAt(commits', S), commits'[n + 1].snapshot)
  <2>1. PICK m : m = n + 1
    OBVIOUS
  <2>2. /\ S \in SUBSET Nat /\ IsFiniteSet(S) /\ m \in Nat /\ T = S \cup {m}
        /\ Ordered(S) /\ \A k \in S : k < m
    BY <1>4, <1>7, <1>8, <2>1
  <2> HIDE DEF T
  <2>3. /\ Ordered(T)
        /\ SnapshotsAt(commits', T) = Append(SnapshotsAt(commits', S), commits'[m].snapshot)
    BY <2>2, TopOfStack
  <2>4. QED
    BY <2>1, <2>3
<1>11. SnapshotsAt(commits', S) = SnapshotsAt(commits, S)
  BY <1>3, <1>7, <1>8, SameSnapshots
<1>12. \A k \in T : k \in S \/ k = n + 1
  OBVIOUS
<1>13. S \subseteq T /\ n + 1 \in T
  OBVIOUS
<1> HIDE DEF T
<1>14. ASSUME NEW k \in T, \A j \in T : j <= k PROVE commits'[k].snapshot = saved'
  <2>1. k = n + 1
    BY <1>4, <1>7, <1>12, <1>13, <1>14
  <2>2. QED
    BY <1>1, <1>3, <2>1
<1>15. ASSUME NEW k \in T, NEW j \in T, j < k, \A i \in T : i < k => i <= j
       PROVE  commits'[k - 1].snapshot = commits'[j].snapshot
  <2>1. j \in S
    BY <1>4, <1>7, <1>12, <1>15
  <2>2. CASE k \in S
    <3>1. commits[k - 1].snapshot = commits[j].snapshot
      BY <1>8, <1>13, <1>15, <2>1, <2>2
    <3>2. k - 1 \in 1..n /\ j \in 1..n
      BY <1>4, <1>7, <1>15, <2>1, <2>2
    <3>3. QED
      BY <1>3, <3>1, <3>2
  <2>3. CASE k = n + 1
    <3>1. \A i \in S : i <= j
      BY <1>7, <1>13, <1>15, <2>3
    <3>2. commits[j].snapshot = saved
      BY <1>8, <2>1, <3>1
    <3>3. k - 1 = n /\ n \in 1..n /\ j \in 1..n
      BY <1>4, <1>7, <2>1, <2>3
    <3>4. QED
      BY <1>3, <1>5, <3>2, <3>3
  <2>4. QED
    BY <1>12, <2>2, <2>3
<1>16. Linked'
  BY <1>6, <1>10, <1>14, <1>15 DEF Linked
<1>17. QED
  BY <1>1, <1>2, <1>3, <1>6, <1>9, <1>10, <1>11, <1>16 DEF S

\* A mark is not.
LEMMA MarkStacked ==
  ASSUME Snapshots, Linked, RecordsMark
  PROVE  Linked' /\ StandingSnapshots' = StandingSnapshots /\ saved' = saved
<1> DEFINE n == Len(commits)
           commit == Commit(saved', Draft(TRUE, 0), FALSE)
           S == Standing
<1>1. commit.reverts = 0 /\ commit.checkpoint
  BY DEF Commit, Draft
<1>2. commits' = Append(commits, commit) /\ saved' = saved
  BY DEF RecordsMark, Records
<1> HIDE DEF commit
<1>3. /\ Len(commits') = n + 1 /\ commits'[n + 1] = commit
      /\ \A k \in 1..n : commits'[k] = commits[k]
      /\ Standing' = {1} \cup Undoable(commits')
      /\ Undoable(commits') =
           {k \in Undoable(commits) : commit.reverts # k}
             \cup {k \in {n + 1} : commit.reverts = 0 /\ ~commit.checkpoint /\ commit.changes}
  BY <1>1, <1>2, OneCommitMore
<1>4. /\ S = {1} \cup Undoable(commits) /\ Undoable(commits) \subseteq 2..n
      /\ S \in SUBSET Nat /\ IsFiniteSet(S) /\ S \subseteq 1..n /\ 1 \in S /\ n \in Nat \ {0}
  BY StandingIs DEF StandingIn
<1> HIDE DEF n
<1>6. Standing' = S
  <2>1. \A k \in Undoable(commits) : commit.reverts # k
    BY <1>1, <1>4
  <2>2. QED
    BY <1>1, <1>3, <1>4, <2>1
<1>8. /\ Ordered(S)
      /\ \A k \in S : (\A j \in S : j <= k) => commits[k].snapshot = saved
      /\ \A k, j \in S :
           j < k /\ (\A i \in S : i < k => i <= j) => commits[k - 1].snapshot = commits[j].snapshot
  BY DEF Linked
<1>9. StandingSnapshots = SnapshotsAt(commits, S) /\ StandingSnapshots' = SnapshotsAt(commits', Standing')
  BY DEF StandingSnapshots, SnapshotsAt
<1> HIDE DEF S
<1>10. SnapshotsAt(commits', S) = SnapshotsAt(commits, S)
  BY <1>3, <1>4, <1>8, SameSnapshots
<1>11. \A k \in S : commits'[k].snapshot = commits[k].snapshot
  BY <1>3, <1>4
<1>12. \A k, j \in S : j < k => commits'[k - 1].snapshot = commits[k - 1].snapshot
  <2>1. \A k, j \in S : j < k => k - 1 \in 1..n
    BY <1>4
  <2>2. QED
    BY <1>3, <2>1
<1>13. Linked'
  <2>1. /\ \A k \in S : (\A j \in S : j <= k) => commits'[k].snapshot = saved'
        /\ \A k, j \in S :
             j < k /\ (\A i \in S : i < k => i <= j) => commits'[k - 1].snapshot = commits'[j].snapshot
    <3>1. \A k \in S : (\A j \in S : j <= k) => commits'[k].snapshot = saved'
      BY <1>2, <1>8, <1>11
    <3>2. ASSUME NEW k \in S, NEW j \in S, j < k, \A i \in S : i < k => i <= j
          PROVE  commits'[k - 1].snapshot = commits'[j].snapshot
      BY <1>8, <1>11, <1>12, <3>2
    <3>3. QED
      BY <3>1, <3>2
  <2>2. QED
    BY <1>6, <1>8, <2>1 DEF Linked
<1>14. QED
  BY <1>2, <1>6, <1>9, <1>10, <1>13

\* A change that was taken back is taken off the stack.
LEMMA UndoStacked ==
  ASSUME Snapshots, Linked, RecordsUndo
  PROVE  /\ Linked' /\ Len(StandingSnapshots) > 1
         /\ StandingSnapshots' = Front(StandingSnapshots) /\ saved' = Last(StandingSnapshots')
<1>0. PICK k : Latest(k) /\ saved' = commits[k - 1].snapshot /\ Records(Draft(FALSE, k), TRUE)
  BY DEF RecordsUndo
<1> DEFINE n == Len(commits)
           commit == Commit(saved', Draft(FALSE, k), TRUE)
           T == Standing
           S == T \ {k}
<1>1. commit.reverts = k
  BY DEF Commit, Draft
<1>2. commits' = Append(commits, commit) /\ saved' = commits[k - 1].snapshot
  BY <1>0 DEF Records
<1> HIDE DEF commit
<1>4. /\ T = {1} \cup Undoable(commits) /\ Undoable(commits) \subseteq 2..n
      /\ T \in SUBSET Nat /\ IsFiniteSet(T) /\ T \subseteq 1..n /\ 1 \in T /\ n \in Nat \ {0}
  BY StandingIs DEF StandingIn
<1>5. k \in 2..n /\ k \in T /\ k \in Nat /\ \A j \in T : j <= k
  BY <1>0, <1>4 DEF Latest
<1>3. /\ Len(commits') = n + 1 /\ commits'[n + 1] = commit
      /\ \A j \in 1..n : commits'[j] = commits[j]
      /\ Standing' = {1} \cup Undoable(commits')
      /\ Undoable(commits') =
           {j \in Undoable(commits) : commit.reverts # j}
             \cup {j \in {n + 1} : commit.reverts = 0 /\ ~commit.checkpoint /\ commit.changes}
  BY <1>1, <1>2, <1>5, OneCommitMore
<1> HIDE DEF n
<1>6. Standing' = S
  BY <1>1, <1>3, <1>4, <1>5
<1>8. /\ Ordered(T)
      /\ \A i, j \in T :
           j < i /\ (\A h \in T : h < i => h <= j) => commits[i - 1].snapshot = commits[j].snapshot
  BY DEF Linked
<1>9. StandingSnapshots = SnapshotsAt(commits, T) /\ StandingSnapshots' = SnapshotsAt(commits', Standing')
  BY DEF StandingSnapshots, SnapshotsAt
<1> HIDE DEF T
<1>7. /\ S \in SUBSET Nat /\ IsFiniteSet(S) /\ T = S \cup {k} /\ 1 \in S
      /\ \A j \in S : j < k /\ j \in 1..n /\ j \in T
  <2>1. IsFiniteSet(S)
    BY <1>4, FS_Subset
  <2>2. QED
    BY <1>4, <1>5, <2>1
<1> HIDE DEF S
<1>10. /\ Ordered(S)
       /\ SnapshotsAt(commits, S) = Front(SnapshotsAt(commits, T))
       /\ Len(SnapshotsAt(commits, T)) = Cardinality(S) + 1 /\ Cardinality(S) \in Nat
  BY <1>5, <1>7, <1>8, TopOfStack
<1>11. SnapshotsAt(commits', S) = SnapshotsAt(commits, S)
  BY <1>3, <1>7, <1>10, SameSnapshots
\* The one before it.
<1>12. PICK j \in S : \A i \in S : i <= j
  <2>1. Max(S) \in S /\ \A i \in S : i <= Max(S)
    <3>1. \A i \in S : i <= n
      BY <1>4, <1>7
    <3>2. QED
      BY <1>4, <1>7, <3>1, Greatest
  <2>2. QED
    BY <2>1
<1>13. commits[j].snapshot = saved'
  <2>1. \A h \in T : h < k => h <= j
    BY <1>7, <1>12
  <2>2. j \in T /\ j < k
    BY <1>7
  <2>3. QED
    BY <1>2, <1>5, <1>8, <2>1, <2>2
<1>14. Last(SnapshotsAt(commits, S)) = commits[j].snapshot /\ Cardinality(S) > 0
  <2> DEFINE R == S \ {j}
  <2>1. /\ R \in SUBSET Nat /\ IsFiniteSet(R) /\ S = R \cup {j} /\ j \in Nat
        /\ \A i \in R : i < j
    <3>1. IsFiniteSet(R)
      BY <1>7, FS_Subset
    <3>2. \A i \in R : i < j
      BY <1>7, <1>12
    <3>3. QED
      BY <1>7, <1>12, <3>1, <3>2
  <2> HIDE DEF R
  <2>2. /\ Last(SnapshotsAt(commits, S)) = commits[j].snapshot
        /\ Cardinality(R) \in Nat
    BY <1>10, <2>1, TopOfStack
  <2>3. Cardinality(S) = Cardinality(R) + 1
    BY <2>1, Numbered
  <2>4. QED
    BY <2>2, <2>3
<1>15. \A i \in S : commits'[i].snapshot = commits[i].snapshot
  BY <1>3, <1>7
<1>16. ASSUME NEW i \in S, \A h \in S : h <= i PROVE commits'[i].snapshot = saved'
  <2>1. i = j
    BY <1>7, <1>12, <1>16
  <2>2. QED
    BY <1>13, <1>15, <2>1
<1>17. ASSUME NEW i \in S, NEW h \in S, h < i, \A g \in S : g < i => g <= h
       PROVE  commits'[i - 1].snapshot = commits'[h].snapshot
  <2>1. i - 1 \in 1..n
    BY <1>4, <1>7, <1>17
  <2>2. \A g \in T : g < i => g <= h
    BY <1>5, <1>7, <1>17
  <2>3. commits[i - 1].snapshot = commits[h].snapshot
    BY <1>7, <1>8, <1>17, <2>2
  <2>4. QED
    BY <1>3, <1>15, <2>1, <2>3
<1>18. Linked'
  BY <1>6, <1>10, <1>16, <1>17 DEF Linked
<1>19. Len(SnapshotsAt(commits, T)) > 1
  BY <1>10, <1>14
<1>20. QED
  BY <1>6, <1>9, <1>10, <1>11, <1>13, <1>14, <1>18, <1>19

\* The save that a retry repeats: of a change, of a checkpoint over saved changes, or of an
\* undo, which left the inventory as it was before the commit to be taken back.
DraftHolds ==
  \/ draft \in {NoDraft, Manual}
  \/ /\ import.stage # "pending"
     /\ \/ draft = Draft(TRUE, 0) /\ store = saved
        \/ \E k : Latest(k) /\ draft = Draft(FALSE, k) /\ store = commits[k - 1].snapshot /\ store # saved

UndoReady == confirming = "no" /\ DraftHolds

RecordsStep == Quiet \/ RecordsChange \/ RecordsMark \/ RecordsUndo

\* A change of the inventory is saved as such.
LEMMA ManualSave ==
  ASSUME confirming = "no", NEW inv, NEW used, Save(inv, used, Manual, Stay)
  PROVE  RecordsStep /\ draft' \in {NoDraft, Manual} /\ confirming' = "no"
<1> DEFINE next == Reconcile(inv, used)
           needsCommit == Manual.checkpoint \/ next.inv # saved
           commit == Commit(next.inv, Manual, next.inv # saved)
           history == IF needsCommit THEN Append(commits, commit) ELSE commits
<1>1. \/ saved' = next.inv /\ commits' = history /\ draft' = NoDraft /\ Refreshed(history)
      \/ UNCHANGED <<saved, commits>> /\ draft' \in {Manual, NoDraft} /\ Stay
  BY DEF Save
<1>2. ~Manual.checkpoint /\ (needsCommit <=> next.inv # saved)
  BY DEF Manual, Draft
<1> HIDE DEF next, needsCommit
<1>3. CASE UNCHANGED <<saved, commits>> /\ draft' \in {Manual, NoDraft} /\ Stay
  BY <1>3 DEF Stay, RecordsStep, Quiet
<1>4. CASE saved' = next.inv /\ commits' = history /\ draft' = NoDraft /\ Refreshed(history)
  <2>1. CASE next.inv = saved
    BY <1>2, <1>4, <2>1 DEF Refreshed, RecordsStep, Quiet
  <2>2. CASE next.inv # saved
    <3>1. commit = Commit(saved', Manual, TRUE)
      BY <1>4, <2>2 DEF Commit
    <3>2. commits' = Append(commits, commit) /\ saved' # saved
      BY <1>2, <1>4, <2>2
    <3>3. QED
      BY <1>4, <3>1, <3>2 DEF Refreshed, RecordsStep, RecordsChange, Records
  <2>3. QED
    BY <2>1, <2>2
<1>5. QED
  BY <1>1, <1>3, <1>4

\* So is a scan.
LEMMA ScanRecords ==
  ASSUME UndoReady, NEW inv, NEW used, Scanned(inv, used), inv # store
  PROVE  RecordsStep /\ UndoReady'
<1>1. /\ commits' = Append(commits, Commit(inv, Manual, TRUE)) /\ confirming' = "no"
      /\ saved' = inv /\ store' = inv /\ store = saved /\ UNCHANGED <<draft, import>>
  BY DEF Scanned, UnsavedChanges, Refreshed, edits
<1>2. RecordsStep
  BY <1>1 DEF RecordsStep, RecordsChange, Records
<1>3. DraftHolds'
  BY <1>1 DEF UndoReady, DraftHolds
<1>4. QED
  BY <1>1, <1>2, <1>3 DEF UndoReady

\* What is settled is saved as it is.
LEMMA SettledSave ==
  ASSUME NEW inv, IsInventory(inv), Settled(inv), NEW used, NEW d,
         Save(inv, used, d, Stay) \/ Save(inv, used, d, Closed), confirming = "no"
  PROVE  /\ store' = inv /\ confirming' = "no"
         /\ \/ /\ saved' = inv /\ draft' = NoDraft
               /\ IF d.checkpoint \/ inv # saved THEN Records(d, inv # saved) ELSE commits' = commits
            \/ /\ UNCHANGED <<saved, commits>>
               /\ draft' = IF d.checkpoint \/ inv # saved THEN d ELSE NoDraft
<1> DEFINE next == Reconcile(inv, used)
           history == IF d.checkpoint \/ next.inv # saved
                        THEN Append(commits, Commit(next.inv, d, next.inv # saved)) ELSE commits
<1>1. next.inv = inv
  BY ReconcileSettles
<1>2. /\ store' = next.inv
      /\ \/ /\ saved' = next.inv /\ commits' = history /\ draft' = NoDraft /\ Refreshed(history)
         \/ /\ UNCHANGED <<saved, commits>> /\ (Stay \/ Closed)
            /\ draft' = IF d.checkpoint \/ next.inv # saved THEN d ELSE NoDraft
  BY DEF Save
<1> HIDE DEF next
<1>3. QED
  BY <1>1, <1>2 DEF Refreshed, Stay, Closed, Records

\* A checkpoint over saved changes changes nothing.
LEMMA MarkSave ==
  ASSUME Snapshots, confirming = "no", import.stage # "pending", import' = import, NEW used,
         Save(saved, used, Draft(TRUE, 0), Stay) \/ Save(saved, used, Draft(TRUE, 0), Closed)
  PROVE  RecordsStep /\ UndoReady'
<1> DEFINE d == Draft(TRUE, 0)
<1>1. Settled(saved) /\ IsInventory(saved)
  BY SavedSettled
<1>2. d.checkpoint
  BY DEF Draft
<1> HIDE DEF d
<1>3. Save(saved, used, d, Stay) \/ Save(saved, used, d, Closed)
  BY DEF d
<1>4. /\ store' = saved /\ confirming' = "no"
      /\ \/ saved' = saved /\ draft' = NoDraft /\ Records(d, saved # saved)
         \/ UNCHANGED <<saved, commits>> /\ draft' = d
  BY <1>1, <1>2, <1>3, SettledSave
<1>5. Records(d, saved # saved) => Records(d, FALSE)
  BY DEF Records, Commit
<1>6. RecordsStep
  BY <1>4, <1>5 DEF RecordsStep, RecordsMark, Quiet, d
<1>7. QED
  BY <1>4, <1>6 DEF UndoReady, DraftHolds, d

\* An undo takes back the latest commit.
LEMMA UndoSave ==
  ASSUME Snapshots, confirming = "no", import.stage # "pending", import' = import, NEW used, NEW k, Latest(k),
         Save(commits[k - 1].snapshot, used, Draft(FALSE, k), Stay)
  PROVE  RecordsStep /\ UndoReady'
<1> DEFINE d == Draft(FALSE, k)
           inv == commits[k - 1].snapshot
<1>1. Settled(inv) /\ IsInventory(inv)
  <2>1. k - 1 \in 1..Len(commits)
    BY StandingIs DEF Latest
  <2>2. QED
    BY <2>1 DEF Snapshots
<1>2. ~d.checkpoint
  BY DEF Draft
<1>3. Save(inv, used, d, Stay)
  OBVIOUS
<1> HIDE DEF d, inv
<1>4. /\ store' = inv /\ confirming' = "no"
      /\ \/ /\ saved' = inv /\ draft' = NoDraft
            /\ IF inv # saved THEN Records(d, inv # saved) ELSE commits' = commits
         \/ /\ UNCHANGED <<saved, commits>>
            /\ draft' = IF inv # saved THEN d ELSE NoDraft
  BY <1>1, <1>2, <1>3, SettledSave
<1>5. CASE inv = saved
  BY <1>4, <1>5 DEF RecordsStep, Quiet, UndoReady, DraftHolds
<1>6. CASE inv # saved /\ draft' = NoDraft /\ saved' = inv /\ Records(d, inv # saved)
  <2>1. Records(d, TRUE)
    BY <1>6 DEF Records, Commit
  <2>2. RecordsUndo
    BY <1>6, <2>1 DEF RecordsUndo, d, inv
  <2>3. QED
    BY <1>4, <1>6, <2>2 DEF RecordsStep, UndoReady, DraftHolds
<1>7. CASE inv # saved /\ UNCHANGED <<saved, commits>> /\ draft' = d
  <2>1. Latest(k)'
    BY <1>7 DEF Latest, Undoable, Undone
  <2>2. store' = (commits[k - 1].snapshot)' /\ store' # saved'
    BY <1>4, <1>7 DEF inv
  <2>3. DraftHolds'
    BY <1>7, <2>1, <2>2 DEF DraftHolds, d
  <2>4. QED
    BY <1>4, <1>7, <2>3 DEF RecordsStep, Quiet, UndoReady
<1>8. QED
  BY <1>4, <1>5, <1>6, <1>7

\* Every step records one change, one mark, one change taken back, or nothing.
LEMMA StepRecords ==
  ASSUME Stocked, Plain, UndoReady, [Next]_vars
  PROVE  RecordsStep /\ UndoReady'
<1>1. /\ IsInventory(store) /\ Snapshots /\ confirming = "no" /\ DraftHolds
      /\ DOMAIN import = {"stage", "original", "staged", "rows"}
  BY DEF Stocked, UndoReady
<1>2. SUFFICES \/ RecordsStep /\ UndoReady'
               \/ \E inv, used : Save(inv, used, Manual, Stay)
               \/ /\ UNCHANGED <<store, saved, commits, draft, confirming>>
                  /\ import' = import \/ import'.stage # "pending"
  <2>1. CASE \E inv, used : Save(inv, used, Manual, Stay)
    BY <1>1, <2>1, ManualSave DEF UndoReady, DraftHolds
  <2>2. CASE /\ UNCHANGED <<store, saved, commits, draft, confirming>>
             /\ import' = import \/ import'.stage # "pending"
    <3>1. \A k : Latest(k) => Latest(k)'
      BY <2>2 DEF Latest, Undoable, Undone
    <3>2. DraftHolds'
      <4>1. CASE draft \in {NoDraft, Manual}
        BY <2>2, <4>1 DEF DraftHolds
      <4>2. CASE draft = Draft(TRUE, 0) /\ store = saved /\ import.stage # "pending"
        BY <2>2, <4>2 DEF DraftHolds
      <4>3. CASE /\ import.stage # "pending"
                 /\ \E k : Latest(k) /\ draft = Draft(FALSE, k) /\ store = commits[k - 1].snapshot /\ store # saved
        <5>1. PICK k : Latest(k) /\ draft = Draft(FALSE, k) /\ store = commits[k - 1].snapshot /\ store # saved
          BY <4>3
        <5>2. /\ Latest(k)' /\ draft' = Draft(FALSE, k) /\ store' = commits'[k - 1].snapshot /\ store' # saved'
              /\ import'.stage # "pending"
          BY <2>2, <3>1, <4>3, <5>1
        <5>3. QED
          BY <5>2 DEF DraftHolds
      <4>4. QED
        BY <1>1, <4>1, <4>2, <4>3 DEF DraftHolds
    <3>3. QED
      BY <1>1, <2>2, <3>2 DEF RecordsStep, Quiet, UndoReady
  <2>3. QED
    BY <1>2, <2>1, <2>2
<1>3. CASE \E p \in Parts : AddPart(p) \/ DeletePart(p) \/ AdjustQuantity(p) \/ Enrich(p) \/ MovePart(p) \/ UnassignPart(p)
  BY <1>2, <1>3 DEF AddPart, DeletePart, AdjustQuantity, Enrich, MovePart, UnassignPart, SavePart, SaveEdit
<1>4. CASE CreateRack \/ ChangeRack \/ ConfirmRackDeletion
  <2>1. CASE CreateRack
    BY <1>2, <2>1 DEF CreateRack
  <2>2. CASE ChangeRack
    BY <1>2, <2>2 DEF ChangeRack, SaveEdit
  <2>3. CASE ConfirmRackDeletion
    <3>1. import' = import /\ (UNCHANGED <<store, saved, commits, draft, confirming>> \/ \E inv : SaveEdit(inv))
      BY <2>3 DEF ConfirmRackDeletion, edits
    <3>2. QED
      BY <1>2, <3>1 DEF SaveEdit
  <2>4. QED
    BY <1>4, <2>1, <2>2, <2>3
<1>5. CASE SaveForm \/ CommitImport \/ RetryImport
  BY <1>2, <1>5 DEF SaveForm, CommitImport, RetryImport, SavePart
<1>6. CASE \E p \in Parts : OpenForm(p)
  BY <1>2, <1>6 DEF OpenForm, pages
<1>7. CASE EditField \/ CloseForm \/ ArmRackDeletion \/ UNCHANGED vars
  BY <1>2, <1>7 DEF EditField, CloseForm, ArmRackDeletion, vars, pages, edits
<1>8. CASE BeginImport
  <2>1. import'.stage = "review"
    BY <1>8 DEF BeginImport, NoImport
  <2>2. QED
    BY <1>2, <1>8, <2>1 DEF BeginImport, pages
<1>9. CASE \E p \in Parts : AcceptRow(p)
  <2>1. PICK p \in Parts : AcceptRow(p)
    BY <1>9
  <2>2. /\ import.stage = "review" /\ \E next : import' = [import EXCEPT !.staged = next, !.rows[p] = 1]
        /\ UNCHANGED <<store, saved, commits, draft, confirming>>
    BY <2>1 DEF AcceptRow, pages
  <2>3. import'.stage = "review"
    BY <1>1, <2>2
  <2>4. QED
    BY <1>2, <2>2, <2>3
<1>10. CASE CancelImport
  <2>1. /\ import' = NoImport /\ UNCHANGED <<saved, commits, draft, confirming>>
        /\ store' = IF import.stage = "pending" THEN import.original ELSE store
    BY <1>10 DEF CancelImport, pages
  <2>2. import'.stage # "pending"
    BY <2>1 DEF NoImport
  <2>3. CASE import.stage = "pending"
    <3>1. draft' \in {NoDraft, Manual}
      BY <1>1, <2>1, <2>3 DEF DraftHolds
    <3>2. QED
      BY <1>1, <2>1, <3>1, <1>2 DEF RecordsStep, Quiet, UndoReady, DraftHolds
  <2>4. CASE import.stage # "pending"
    BY <1>2, <2>1, <2>2, <2>4
  <2>5. QED
    BY <2>3, <2>4
<1>11. CASE RetrySave
  <2>1. /\ import' = import /\ import.stage # "pending"
        /\ Save(store, made, IF draft.pending THEN draft ELSE Manual, Stay)
    BY <1>11 DEF RetrySave, Idle, edits, NoImport
  <2>2. CASE draft \in {NoDraft, Manual}
    <3>1. CASE draft = NoDraft
      BY <1>2, <2>1, <3>1 DEF NoDraft
    <3>2. CASE draft = Manual
      BY <1>2, <2>1, <3>2
    <3>3. QED
      BY <2>2, <3>1, <3>2
  <2>3. CASE draft = Draft(TRUE, 0) /\ store = saved
    <3>1. (IF draft.pending THEN draft ELSE Manual) = Draft(TRUE, 0)
      BY <2>3 DEF Draft
    <3>2. QED
      BY <1>1, <1>2, <2>1, <2>3, <3>1, MarkSave
  <2>4. CASE \E k : Latest(k) /\ draft = Draft(FALSE, k) /\ store = commits[k - 1].snapshot
    <3>1. PICK k : Latest(k) /\ draft = Draft(FALSE, k) /\ store = commits[k - 1].snapshot
      BY <2>4
    <3>2. (IF draft.pending THEN draft ELSE Manual) = Draft(FALSE, k)
      BY <3>1 DEF Draft
    <3>3. QED
      BY <1>1, <1>2, <2>1, <3>1, <3>2, UndoSave
  <2>5. QED
    BY <1>1, <2>2, <2>3, <2>4 DEF DraftHolds
<1>12. CASE Checkpoint
  <2>1. /\ import' = import /\ import.stage # "pending" /\ store = saved
        /\ Save(store, made, Draft(TRUE, 0), Closed)
    BY <1>12 DEF Checkpoint, Idle, edits, NoImport, Plain, UnsavedChanges
  <2>2. QED
    BY <1>1, <1>2, <2>1, MarkSave
<1>13. CASE UndoLast
  <2> DEFINE k == Max(Undoable(commits))
  <2>1. /\ import' = import /\ import.stage # "pending" /\ Undoable(commits) # {}
        /\ Save(commits[k - 1].snapshot, made, Draft(FALSE, k), Stay)
    BY <1>13 DEF UndoLast, Idle, edits, NoImport
  <2>2. Latest(k)
    <3>1. Undoable(commits) \in SUBSET Nat /\ Len(commits) \in Nat
          /\ \A j \in Undoable(commits) : j <= Len(commits)
      BY <1>1, StandingIs
    <3>2. QED
      BY <2>1, <3>1, Greatest DEF Latest
  <2> HIDE DEF k
  <2>3. QED
    BY <1>1, <1>2, <2>1, <2>2, UndoSave
<1>14. CASE \E p \in Parts : Scan(p)
  <2>1. PICK p \in Parts : Scan(p)
    BY <1>14
  <2>2. PICK q \in 0..session.quantity \ {store.parts[p].qty} :
          LET adjusted == [store EXCEPT !.parts[p].qty = q]
              received == Reconciled(adjusted, p, made + 1)
          IN Scanned(adjusted, made) \/ Scanned(received, Max({made} \cup DOMAIN received.racks))
    BY <2>1 DEF Scan
  <2> DEFINE part == [store.parts[p] EXCEPT !.qty = q]
             adjusted == [store EXCEPT !.parts[p] = part]
             received == Reconciled(adjusted, p, made + 1)
  <2>3. q \in Nat /\ p \in DOMAIN store.parts /\ IsPart(store.parts[p]) /\ q # store.parts[p].qty
    BY <1>1, <2>1, ParameterTyped DEF Scan, IsInventory
  <2>4. IsPart(part) /\ part.qty = q
    BY <2>3, QuantityField
  <2>5. [store EXCEPT !.parts[p].qty = q] = adjusted
    OBVIOUS
  <2> HIDE DEF part
  <2>6. IsInventory(adjusted) /\ adjusted.parts[p] = part /\ p \in DOMAIN adjusted.parts
    BY <1>1, <2>3, <2>4, ChangedStock
  <2> HIDE DEF adjusted
  <2>7. received.parts[p].qty = q
    BY <2>4, <2>6, PlacedStock DEF SameStock
  <2>8. \E used : Scanned(adjusted, used) \/ Scanned(received, used)
    BY <2>2, <2>5
  <2> HIDE DEF received
  <2>9. adjusted # store /\ received # store
    BY <2>3, <2>4, <2>6, <2>7
  <2>10. QED
    BY <1>2, <2>8, <2>9, ScanRecords
<1>15. CASE \E p \in Parts : Receive(p)
  <2>1. PICK p \in Parts : Receive(p)
    BY <1>15
  <2>2. PICK kind, used : Scanned(Reconciled(WithPart(store, p, NewPart(0, kind)), p, made + 1), used)
    BY <2>1 DEF Receive
  <2> DEFINE added == WithPart(store, p, NewPart(0, kind))
             inv == Reconciled(added, p, made + 1)
  <2>3. IsPart(NewPart(0, kind))
    BY NewPartStock
  <2>4. IsInventory(added) /\ DOMAIN added.parts = DOMAIN store.parts \cup {p}
    BY <1>1, <2>3, PartStock
  <2> HIDE DEF added
  <2>5. DOMAIN inv.parts = DOMAIN store.parts \cup {p}
    BY <2>4, PlacedStock DEF SameStock
  <2>6. Scanned(inv, used)
    BY <2>2 DEF added
  <2>7. p \notin DOMAIN store.parts
    BY <2>1 DEF Receive, Fresh
  <2> HIDE DEF inv
  <2>8. inv # store
    BY <2>5, <2>7
  <2>9. QED
    BY <1>2, <2>6, <2>8, ScanRecords
\* The sessions claimed of do not use the History page.
<1>16. ~SelectCommit /\ ~AskRevert /\ ~ConfirmRevert
  BY <1>1 DEF SelectCommit, AskRevert, ConfirmRevert, Plain
<1>17. QED
  BY <1>3, <1>4, <1>5, <1>6, <1>7, <1>8, <1>9, <1>10, <1>11, <1>12, <1>13, <1>14, <1>15, <1>16 DEF Next

LEMMA SessionStays ==
  ASSUME [Next]_vars
  PROVE  session' = session
<1>1. \A inv, used, d, stay : Save(inv, used, d, stay) => session' = session
  BY DEF Save
<1>2. \A inv, used : Scanned(inv, used) => session' = session
  BY DEF Scanned
<1>3. CASE \E p \in Parts : \/ AddPart(p) \/ DeletePart(p) \/ AdjustQuantity(p) \/ Enrich(p)
                            \/ MovePart(p) \/ UnassignPart(p)
  BY <1>1, <1>3 DEF AddPart, DeletePart, AdjustQuantity, Enrich, MovePart, UnassignPart, SavePart, SaveEdit
<1>4. CASE \E p \in Parts : Scan(p) \/ Receive(p)
  <2>1. \E inv, used : Scanned(inv, used)
    BY <1>4 DEF Scan, Receive
  <2>2. QED
    BY <1>2, <2>1
<1>5. CASE CreateRack \/ ChangeRack \/ ConfirmRackDeletion \/ UndoLast \/ Checkpoint \/ ConfirmRevert
  BY <1>1, <1>5 DEF CreateRack, ChangeRack, ConfirmRackDeletion, UndoLast, Checkpoint, ConfirmRevert, SaveEdit
<1>6. CASE SaveForm \/ CommitImport \/ RetryImport \/ RetrySave
  BY <1>1, <1>6 DEF SaveForm, CommitImport, RetryImport, RetrySave, SavePart
<1>7. CASE \/ \E p \in Parts : OpenForm(p) \/ AcceptRow(p)
           \/ EditField \/ CloseForm \/ BeginImport \/ CancelImport \/ ArmRackDeletion
           \/ SelectCommit \/ AskRevert
  BY <1>7 DEF OpenForm, AcceptRow, EditField, CloseForm, BeginImport, CancelImport, ArmRackDeletion,
              SelectCommit, AskRevert
<1>8. CASE UNCHANGED vars
  BY <1>8 DEF vars
<1>9. QED
  BY <1>3, <1>4, <1>5, <1>6, <1>7, <1>8 DEF Next

\* What is claimed of the sessions without the History page, and whose checkpoints are of saved changes.
StackInv == Plain => UndoReady /\ Linked

LEMMA StackStart ==
  ASSUME Init
  PROVE  StackInv /\ Stack!Init
<1> DEFINE first == Commit(Empty, NoDraft, FALSE)
<1>1. /\ commits = <<first>> /\ saved = Empty /\ draft = NoDraft /\ confirming = "no"
      /\ first.snapshot = Empty
  BY DEF Init, Commit
<1> HIDE DEF first
<1>2. Len(commits) = 1 /\ commits[1] = first
  BY <1>1
<1>3. Standing = {1}
  BY <1>2 DEF Standing
<1>4. Cardinality({1}) = 1 /\ UpTo({1}, 1) = {1}
  BY FS_Singleton DEF UpTo
<1>5. Nth({1}, 1) = 1
  BY <1>4 DEF Nth, UpTo
<1>6. Ordered({1})
  BY <1>4, <1>5 DEF Ordered
<1>7. Linked
  BY <1>1, <1>2, <1>3, <1>6 DEF Linked
<1>8. UndoReady
  BY <1>1 DEF UndoReady, DraftHolds
<1>9. StandingSnapshots = <<saved>>
  <2>1. StandingSnapshots = [i \in 1..1 |-> commits[Nth({1}, i)].snapshot]
    BY <1>3, <1>4 DEF StandingSnapshots
  <2>2. \A i \in 1..1 : commits[Nth({1}, i)].snapshot = saved
    BY <1>1, <1>2, <1>5
  <2>3. QED
    BY <2>1, <2>2
<1>10. QED
  BY <1>7, <1>8, <1>9 DEF StackInv, Stack!Init

LEMMA StackStep ==
  ASSUME Stocked, StackInv, [Next]_vars, session' = session
  PROVE  /\ StackInv'
         /\ [Stack!Change \/ Stack!Undo]_<<IF Plain THEN saved ELSE Empty,
                                           IF Plain THEN StandingSnapshots ELSE <<Empty>>>>
<1>1. Plain' <=> Plain
  BY DEF Plain, Uses
<1>2. CASE ~Plain
  BY <1>1, <1>2 DEF StackInv
<1>3. CASE Plain
  <2>1. RecordsStep /\ UndoReady' /\ Linked /\ Snapshots
    BY <1>3, StepRecords DEF StackInv, Stocked
  <2>2. CASE Quiet
    <3>1. saved' = saved /\ commits' = commits /\ Standing' = Standing
      BY <2>2 DEF Quiet, Standing, Undone
    <3>2. StandingSnapshots' = StandingSnapshots
      BY <3>1 DEF StandingSnapshots
    <3>3. Linked'
      BY <2>1, <3>1 DEF Linked
    <3>4. QED
      BY <1>1, <1>3, <2>1, <3>1, <3>2, <3>3 DEF StackInv
  <2>3. CASE RecordsMark
    <3>1. Linked' /\ StandingSnapshots' = StandingSnapshots /\ saved' = saved
      BY <2>1, <2>3, MarkStacked
    <3>2. QED
      BY <1>1, <1>3, <2>1, <3>1 DEF StackInv
  <2>4. CASE RecordsChange
    <3>1. Linked' /\ StandingSnapshots' = Append(StandingSnapshots, saved') /\ saved' # saved
      BY <2>1, <2>4, ChangeStacked
    <3>2. Stack!Change
      BY <1>1, <1>3, <3>1 DEF Stack!Change
    <3>3. QED
      BY <1>1, <1>3, <2>1, <3>1, <3>2 DEF StackInv
  <2>5. CASE RecordsUndo
    <3>1. /\ Linked' /\ Len(StandingSnapshots) > 1
          /\ StandingSnapshots' = Front(StandingSnapshots) /\ saved' = Last(StandingSnapshots')
      BY <2>1, <2>5, UndoStacked
    <3>2. Stack!Undo
      BY <1>1, <1>3, <3>1 DEF Stack!Undo, Stack!Front, Stack!Last, Front, Last
    <3>3. QED
      BY <1>1, <1>3, <2>1, <3>1, <3>2 DEF StackInv
  <2>6. QED
    BY <2>1, <2>2, <2>3, <2>4, <2>5 DEF RecordsStep
<1>4. QED
  BY <1>2, <1>3

\* Ctrl+Z is a stack of the saved inventories (App::undoLastInventoryChange): every press takes
\* back the last change that stands, whatever was scanned, marked, undone, refused by a save
\* and saved again in between.
THEOREM UndoIsAStack == Spec => UndoIsStack
<1>1. Init => Stocked /\ Counts(FALSE) /\ Asked /\ StackInv /\ Stack!Init
  BY StockStart, StackStart DEF Init, Asked
<1>2. Stocked /\ Counts(FALSE) /\ Asked /\ [Next]_vars => Stocked' /\ Counts(FALSE)' /\ Asked'
  BY StockStep, AskedStep
<1>3. Stocked /\ [Next]_vars => session' = session
  BY SessionStays
<1>4. Stocked /\ StackInv /\ [Next]_vars /\ session' = session
        => /\ StackInv'
           /\ [Stack!Change \/ Stack!Undo]_<<IF Plain THEN saved ELSE Empty,
                                             IF Plain THEN StandingSnapshots ELSE <<Empty>>>>
  BY StackStep
<1>5. QED
  BY <1>1, <1>2, <1>3, <1>4, PTL DEF Spec, UndoIsStack, Stack!Spec

===============================================================================
