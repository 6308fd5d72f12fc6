----------------------------- MODULE MCBookings -----------------------------
(* Small instances of Bookings for TLC.                                     *)
EXTENDS Bookings, TLC

CONSTANTS ann, bob, a1, b1, b2

Morning == [from |-> 1, to |-> 3]
Noon == [from |-> 2, to |-> 4]
Evening == [from |-> 3, to |-> 5]

MCSlots == {Morning, Noon, Evening}

MCAsked == {[status |-> "CONFIRMED", slot |-> Morning],
            [status |-> "TENTATIVE", slot |-> Evening]}

MCPatches == {[set |-> {"status"}, status |-> "CONFIRMED", owner |-> ann, slot |-> Noon],
              [set |-> {"slot"}, status |-> "CONFIRMED", owner |-> ann, slot |-> Noon]}

\* Whose a booking is and when, before it exists, is of no consequence; ann may reserve.
MCInit ==
    /\ BookingsInit
    /\ \A b \in Ids : book[b].owner = ann /\ book[b].slot = Noon
    /\ \A m \in Members : mayReserve[m] <=> m = ann

\* Bookings are alike.
Alike == Permutations(Ids)

MCSpec == MCInit /\ [][BookingsNext]_bookingVars
=============================================================================
