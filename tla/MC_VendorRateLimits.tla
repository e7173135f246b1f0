------------------------ MODULE MC_VendorRateLimits -------------------------
(* Small instances of VendorRateLimits for TLC. *)
EXTENDS VendorRateLimits

\* Vendors with a short and a long window, and one that publishes no limit.
TwoWindows == <<[seconds |-> 2, limit |-> 2], [seconds |-> 5, limit |-> 3]>>
Unlimited == <<>>

\* A clock that steps back, starts, and a save that fails.
Counting == [windows |-> TwoWindows, requests |-> 4, backs |-> 3, refusals |-> 0,
             quotas |-> 0, faults |-> 1, restarts |-> 1]

\* Answers that ask to wait, and a start or a save that fails.
Waiting == [windows |-> TwoWindows, requests |-> 3, backs |-> 0, refusals |-> 2,
            quotas |-> 0, faults |-> 0, restarts |-> 1]
Blocked == [windows |-> Unlimited, requests |-> 2, backs |-> 1, refusals |-> 1,
            quotas |-> 0, faults |-> 1, restarts |-> 1]

\* An answer with a quota.
Rationed == [windows |-> TwoWindows, requests |-> 2, backs |-> 0, refusals |-> 1,
             quotas |-> 1, faults |-> 0, restarts |-> 0]

Vendors == {Counting, Waiting, Blocked, Rationed}

Symmetry == Permutations(Callers)

=============================================================================
