-------------------------------- MODULE MCShop --------------------------------
(* Small instances of Shop for TLC.                                         *)
EXTENDS Shop, TLC

CONSTANTS ann, bob, a1, b1, shirt, hours, large

MCWho == (a1 :> ann) @@ (b1 :> bob)
MCPrice == (shirt :> 2) @@ (hours :> 3)

MCLines == {[product |-> shirt, option |-> large, quantity |-> 1],
            [product |-> hours, option |-> NoOption, quantity |-> 1]}

\* Bound: the admins change one thing.
FewEdits ==
    Cardinality({x \in Products \cup Options : supplied[x] # Stock}
                \cup {p \in Packages : package[p].total # Stock}) =< 1

\* Bound: what becomes of an order placed, which shares nothing with placing one, is
\* followed while no request is open.
InTurn ==
    \/ \A c \in Clients : Asks(c, "none")
    \/ \A o \in Placed : order[o].status = "PENDING"
=============================================================================
