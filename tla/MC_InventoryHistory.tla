------------------------ MODULE MC_InventoryHistory -------------------------
(* Small instances of InventoryHistory for TLC. *)
EXTENDS InventoryHistory

\* Placement, rack deletion, the History page.
Placing == [uses |-> {"add", "delete", "racks", "history"},
            kinds |-> {"smd", "placeholder"}, quantity |-> 0, commits |-> 5, faults |-> 0]

\* The same with a save that fails.
Misplacing == [uses |-> {"add", "delete", "racks", "history"},
               kinds |-> {"smd"}, quantity |-> 0, commits |-> 3, faults |-> 1]

\* Long histories of changes, undos, checkpoints and failed saves.
Undoing == [uses |-> {"add", "delete", "adjust", "mark"},
            kinds |-> {"smd"}, quantity |-> 1, commits |-> 5, faults |-> 2]

\* The History page beside Ctrl+Z, without a failure.
Reverting == [uses |-> {"add", "delete", "adjust", "history"},
              kinds |-> {"smd"}, quantity |-> 1, commits |-> 5, faults |-> 0]

\* Forms and imports while scans and vendor answers come.
Editing == [uses |-> {"receive", "adjust", "form"},
            kinds |-> {"smd", "placeholder"}, quantity |-> 1, commits |-> 4, faults |-> 0]
Reviewing == [uses |-> {"receive", "import", "skip_all"},
              kinds |-> {"smd", "placeholder"}, quantity |-> 1, commits |-> 4, faults |-> 0]

\* Slots chosen for a row, while vendor answers fill the racks.
Crowding == [uses |-> {"receive", "import", "places"},
             kinds |-> {"smd", "placeholder"}, quantity |-> 0, commits |-> 3, faults |-> 0]

\* The save of an import that has rows fails.
Failing == [uses |-> {"receive", "import"},
            kinds |-> {"smd"}, quantity |-> 1, commits |-> 4, faults |-> 2]

\* The form of a new part.
FillingIn == [uses |-> {"receive", "racks", "form", "new"},
              kinds |-> {"smd", "placeholder"}, quantity |-> 0, commits |-> 4, faults |-> 0]

\* Another file than the inventory fails to be written with an import.
HalfSaved == [uses |-> {"receive", "import", "other_files"},
              kinds |-> {"smd"}, quantity |-> 1, commits |-> 4, faults |-> 0]

PassingSessions == {Placing, Misplacing, Undoing, Editing, Reviewing, Crowding, Failing}
RevertingSessions == {Reverting}
FillingInSessions == {FillingIn}
HalfSavedSessions == {HalfSaved}

=============================================================================
