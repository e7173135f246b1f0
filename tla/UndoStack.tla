----------------------------- MODULE UndoStack ------------------------------
(***************************************************************************)
(* What Ctrl+Z promises: every change of the inventory is remembered, and  *)
(* each press takes back the last one that was not taken back yet.         *)
(***************************************************************************)
EXTENDS Sequences, SequencesExt

VARIABLES
  current,   \* the inventory
  stack      \* the inventories reached by the changes that stand, oldest first

Init == stack = <<current>>

Change ==
  /\ current' # current
  /\ stack' = Append(stack, current')

Undo ==
  /\ Len(stack) > 1
  /\ stack' = Front(stack)
  /\ current' = Last(stack')

Spec == Init /\ [][Change \/ Undo]_<<current, stack>>

=============================================================================
