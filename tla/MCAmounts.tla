------------------------------ MODULE MCAmounts ------------------------------
(* Small instances of FuelClaim and of PrepaidHours for TLC, one or the     *)
(* other at a time: what they share is that they reckon.                    *)
EXTENDS FuelClaim, PrepaidHours, TLC

CONSTANTS efn, ohc, first, second, v, w

MCPrices == {NoPrice, 0, 1, 2, 3}

MCAircraftOf == (1 :> efn) @@ (2 :> efn)
MCMessageOf == (1 :> first) @@ (2 :> first) @@ (3 :> second)

Flight == [aircraft |-> efn, mins |-> 2, credited |-> 0, local |-> FALSE, billable |-> TRUE, exempt |-> FALSE]
MCSorts == {[Flight EXCEPT !.local = TRUE, !.mins = 1],
            [Flight EXCEPT !.local = TRUE, !.credited = 1],
            [Flight EXCEPT !.local = TRUE, !.exempt = TRUE],
            [Flight EXCEPT !.credited = 3],
            [Flight EXCEPT !.billable = FALSE],
            [Flight EXCEPT !.aircraft = ohc]}
MCSymmetry == Permutations({v, w})

\* Claims are entered in one of the initial states of PrepaidHours only.
NoHours == /\ \A p \in Packages : package[p] = NotBought
           /\ \A f \in Flights : ~flown[f].billable
           /\ \A f \in Flights : billed[f] = Unbilled
           /\ \A x \in Workers : ~Busy(x)
           /\ day = 1
Init == EntryInit /\ HoursInit
Spec ==
    /\ Init
    /\ [][\/ Enter /\ NoHours /\ UNCHANGED hoursVars
          \/ HoursNext /\ rows = <<>> /\ UNCHANGED rows]_<<rows, hoursVars>>

=============================================================================
