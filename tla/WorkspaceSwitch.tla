-------------------------- MODULE WorkspaceSwitch ---------------------------
(***************************************************************************)
(* What restoring a backup promises to whoever uses the program: the        *)
(* workspace that is served is the old one or, after one switch that is     *)
(* never undone, the restored one, and nothing is served in between.        *)
(***************************************************************************)
VARIABLES
  active,   \* the workspace a start would serve: "old" or "new"
  loaded    \* the workspace the program serves now, or "nothing"

Init == active = "old" /\ loaded = "old"

\* The program stops serving: a restore began, or it was quit.
Unload == loaded' = "nothing" /\ UNCHANGED active

Commit == loaded = "nothing" /\ active' = "new" /\ UNCHANGED loaded

Load == loaded = "nothing" /\ loaded' = active /\ UNCHANGED active

Next == Unload \/ Commit \/ Load

Spec == Init /\ [][Next]_<<active, loaded>>

=============================================================================
