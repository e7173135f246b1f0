------------------------- MODULE MC_ScannerService -------------------------
(* Small instances of ScannerService for TLC. *)
EXTENDS ScannerService, TLC

Symmetry == Permutations(Workers)

\* Every failure but those of the two writes of a Bluetooth pairing that the
\* removal of the replay state does not wait for.
SafeFaults == {"load_token", "config_save", "token_save", "forget", "marker_save", "start"}
AllFaults == SafeFaults \cup {"ble_config", "ble_token"}

=============================================================================
