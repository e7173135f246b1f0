------------------------ MODULE MC_ConnectionQueues ------------------------
(* A small instance of ConnectionQueues for TLC: two connections of one      *)
(* address and one of another.                                               *)
EXTENDS ConnectionQueues

PeerAddress == [c \in Clients |-> IF c = 3 THEN 2 ELSE 1]

=============================================================================
