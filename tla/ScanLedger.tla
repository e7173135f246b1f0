----------------------------- MODULE ScanLedger -----------------------------
(***************************************************************************)
(* What the device inbox promises: the stock changes only when the user    *)
(* saves a change, or by the effect of one scan, and a scan that has had   *)
(* its effect never has one again.                                         *)
(***************************************************************************)
EXTENDS ScanEffect, Sequences

VARIABLES
  scans,   \* the scans ever made, in order
  stock,
  done,    \* the scans that had their effect
  saves    \* the number of changes the user saved

Init == scans = <<>> /\ stock \in Stocks /\ done = {} /\ saves = 0

MakeScan ==
  /\ Len(scans') = Len(scans) + 1
  /\ SubSeq(scans', 1, Len(scans)) = scans
  /\ scans'[Len(scans')] \in Events
  /\ UNCHANGED <<stock, done, saves>>

UserSave ==
  /\ saves' = saves + 1
  /\ stock' \in Stocks
  /\ UNCHANGED <<scans, done>>

ApplyScan ==
  /\ \E s \in DOMAIN scans \ done :
       /\ Applies(scans[s], stock)
       /\ stock' = StockAfter(scans[s], stock)
       /\ done' = done \cup {s}
  /\ UNCHANGED <<scans, saves>>

Spec == Init /\ [][MakeScan \/ UserSave \/ ApplyScan]_<<scans, stock, done, saves>>

=============================================================================
