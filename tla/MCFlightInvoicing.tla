-------------------------- MODULE MCFlightInvoicing --------------------------
(* Small instances of FlightInvoicing for TLC.                              *)
EXTENDS FlightInvoicing, TLC

CONSTANTS ann, bob, a1, a2, p1

\* Admins are alike.
Alike == Permutations(Admins)

\* Who a flight or a message belongs to before it exists is of no consequence.
MCInit == Init /\ billed = [f \in Flights |-> ann] /\ payee = [m \in Msgs |-> ann]

MCSpec == MCInit /\ [][Next]_vars

=============================================================================
