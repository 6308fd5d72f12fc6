----------------------------- MODULE MCExpenses ------------------------------
(* Small instances of Expenses for TLC.                                     *)
EXTENDS Expenses, TLC

CONSTANTS ann, tom, a1, a2, t1, r1

\* ann has two sessions open, so that two of her saves can overlap.
MCWho == (a1 :> ann) @@ (a2 :> ann) @@ (t1 :> tom)
MCReporter == [r \in Records |-> ann]

\* A claim typed in.
MCByHand == {<<[of |-> Hand, litres |-> 1, cost |-> 2, card |-> FALSE]>>}

\* Whose a claim is before it exists is of no consequence.
MCInit == Init /\ \A k \in Claims : claim[k].owner = ann

\* Her sessions are alike.
Alike == Permutations({a1, a2})

MCSpec == MCInit /\ [][Next]_vars

=============================================================================
