--------------------------- MODULE MC_DeviceInbox ---------------------------
(* Small instances of DeviceInbox for TLC. *)
EXTENDS DeviceInbox

Adjust(n) == [type |-> "adjust", value |-> n, vendor |-> FALSE]
Receive(n, vendor) == [type |-> "receive", value |-> n, vendor |-> vendor]

\* Everything once, with scans that are clamped, saturated or created, and invalid.
Everything ==
  [scannable |-> {Adjust(-1), Receive(2, TRUE), Receive(0, FALSE)},
   start |-> Stocks, batch |-> 1, retained |-> 0, clockSteps |-> FALSE, unsavedStarts |-> FALSE, scans |-> 2,
   edits |-> 1, faults |-> 1, losses |-> 1, crashes |-> 1, retries |-> 1, discards |-> 1,
   resets |-> 0]

\* A device that loses its counter and asks for several scans at once.
Renumbering ==
  [scannable |-> {Adjust(-1), Receive(1, TRUE)},
   start |-> {1}, batch |-> 2, retained |-> 1, clockSteps |-> TRUE, unsavedStarts |-> FALSE, scans |-> 3,
   edits |-> 0, faults |-> 0, losses |-> 1, crashes |-> 0, retries |-> 0, discards |-> 0,
   resets |-> 1]

\* A device that lost its counter, and a scan whose id is taken behind one that is not.
Overtaking ==
  [scannable |-> {Adjust(-1), Adjust(1)},
   start |-> {1}, batch |-> 3, retained |-> 0, clockSteps |-> FALSE, unsavedStarts |-> FALSE, scans |-> 5,
   edits |-> 0, faults |-> 0, losses |-> 0, crashes |-> 0, retries |-> 0, discards |-> 0,
   resets |-> 1]

\* A part taken out, one received that may be unknown, after any start.
AnyStart ==
  [scannable |-> {Adjust(-1), Receive(1, FALSE)},
   start |-> Stocks, batch |-> 2, retained |-> 1, clockSteps |-> FALSE, unsavedStarts |-> TRUE, scans |-> 2,
   edits |-> 1, faults |-> 1, losses |-> 1, crashes |-> 1, retries |-> 0, discards |-> 1,
   resets |-> 0]

\* A device set up again, and scans behind one whose id is taken.
Reset ==
  [scannable |-> {Adjust(-1), Receive(1, FALSE)},
   start |-> {1}, batch |-> 2, retained |-> 0, clockSteps |-> FALSE, unsavedStarts |-> FALSE, scans |-> 3,
   edits |-> 0, faults |-> 0, losses |-> 0, crashes |-> 0, retries |-> 0, discards |-> 0,
   resets |-> 1]

\* An adjustment of a part that may be unknown, after a start that could not save.
UnsavedStart ==
  [scannable |-> {Adjust(1)},
   start |-> Stocks, batch |-> 1, retained |-> 0, clockSteps |-> FALSE, unsavedStarts |-> TRUE, scans |-> 1,
   edits |-> 1, faults |-> 1, losses |-> 1, crashes |-> 1, retries |-> 0, discards |-> 0,
   resets |-> 0]

SafetySessions == {Everything, Renumbering, Overtaking}
ProgressSessions == {AnyStart, Reset}
UnsavedSessions == {UnsavedStart}

=============================================================================
