------------------------- MODULE MC_RestoreJournal --------------------------
EXTENDS RestoreJournal

AllSteps == ForwardSteps \cup DiscardSteps \cup RollbackSteps \cup CleanupSteps
NoStep == {}

RemovalSteps == {"discard_staging", "discard_settings_backup", "discard_journal",
                 "rb_remove_aside", "rb_remove_dest", "rb_staging", "rb_settings_backup",
                 "rb_journal", "cl_staging", "cl_old", "cl_settings_backup", "cl_journal"}

\* A rename or an atomic write whose directory flush fails has still happened.
FlushedSteps == AllSteps \ RemovalSteps

=============================================================================
