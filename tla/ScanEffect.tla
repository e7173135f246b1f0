----------------------------- MODULE ScanEffect -----------------------------
(***************************************************************************)
(* What one scan does to the stock of the part its code names: the pure    *)
(* part of App::processDeviceSyncEvents.  The stock of a part is a quantity*)
(* or Absent, when the inventory has no such part.                         *)
(***************************************************************************)
EXTENDS Integers

CONSTANTS
  MaxQuantity,   \* numeric_limits<int>::max(), where additions saturate
  Absent

ASSUME QuantityAssumption == MaxQuantity \in Nat /\ Absent \notin Int

Quantities == 0..MaxQuantity
Stocks == Quantities \cup {Absent}

\* A scan's type and value, and whether its code is that of a vendor bag,
\* which creates the part it does not find.
Events == [type : {"adjust", "receive", "other"}, value : Int, vendor : BOOLEAN]

Amount(stock) == IF stock = Absent THEN 0 ELSE stock

\* Mutant of Clamp: no saturation.
ClampAtZero(n) == IF n < 0 THEN 0 ELSE n

Clamp(n) == IF n < 0 THEN 0 ELSE IF n > MaxQuantity THEN MaxQuantity ELSE n

\* The events that are completed; every other one gets a failed result.
Applies(event, stock) ==
  \/ event.type = "adjust" /\ stock # Absent
  \/ event.type = "receive" /\ event.value > 0 /\ (stock # Absent \/ event.vendor)

StockAfter(event, stock) ==
  IF Applies(event, stock) THEN Clamp(Amount(stock) + event.value) ELSE stock

=============================================================================
