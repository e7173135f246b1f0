------------------------- MODULE MC_InstanceHandoff -------------------------
(* Small instances of InstanceHandoff for TLC. *)
EXTENDS InstanceHandoff, TLC

\* Sessions are alike, and so are the services they fork.
Alike == Permutations(Terminals) \cup Permutations(Detached)

=============================================================================
