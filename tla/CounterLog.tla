----------------------------- MODULE CounterLog -----------------------------
(***************************************************************************)
(* What the device transport promises about request counters: under one    *)
(* pairing token the accepted counters only go up, whatever is delivered,  *)
(* repeated, restarted or paired again.                                    *)
(***************************************************************************)
EXTENDS Naturals, Sequences

CONSTANTS Tokens, Counters

VARIABLE accepted    \* the counters accepted under each token, in order

Init == accepted = [t \in Tokens |-> <<>>]

Accept(token, counter) ==
  /\ \A i \in 1..Len(accepted[token]) : accepted[token][i] < counter
  /\ accepted' = [accepted EXCEPT ![token] = Append(@, counter)]

Next == \E token \in Tokens, counter \in Counters : Accept(token, counter)

Spec == Init /\ [][Next]_accepted

=============================================================================
