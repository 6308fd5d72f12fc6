-------------------------- MODULE MCItemReservations --------------------------
(* Small instances of ItemReservations for TLC.                             *)
EXTENDS ItemReservations, TLC

CONSTANTS ann, boss, vest, tank, v1, v2, x1, b1, b2

MCItemOf == (v1 :> vest) @@ (v2 :> vest) @@ (x1 :> tank)

One == [status |-> "CONFIRMED", owner |-> ann, item |-> vest, unit |-> v1, quantity |-> 1,
        from |-> 1, to |-> 3]

MCAsked == {One, [One EXCEPT !.unit = AnyUnit, !.from = 2]}

MCPatches == {[status |-> "CONFIRMED"], [status |-> "CANCELLED"],
              [unit |-> v1], [quantity |-> 2], [item |-> tank]}

\* All items are reservable; v2 is yet to be made.
MCInit ==
    /\ Init
    /\ \A i \in Items : item[i].reservable
    /\ \A u \in Units : unit[u].made <=> u # v2

\* Reservations are alike.
Alike == Permutations(Ids)

MCSpec == MCInit /\ [][Next]_vars

=============================================================================
