------------------------------ MODULE FuelPayout ------------------------------
(***************************************************************************)
(* What a fuel claim pays: the balanced local price cap and the rows that  *)
(* carry it (services/fuelReimbursement.ts).  What fuel costs, litres      *)
(* times a price, is a number of parts of a cent; what is paid is whole    *)
(* cents, rounded where the code rounds it.  The code reckons with floats: *)
(* which way half a cent goes there is not the model's to say, and nothing *)
(* stated about the result depends on it.                                  *)
(***************************************************************************)
EXTENDS Integers, Functions, FiniteSetsExt

CONSTANT Fine   \* the parts of a cent that costs and prices are reckoned in

ASSUME FineAssumption == Fine \in Nat \ {0}

\* A line item here has its litres, its cost, and whether the club's card paid it.
\* Line items and what is paid for them are functions of the items' places in the claim.
Total(amounts) == SumFunction(amounts)
CostOf(rows) == Total([i \in DOMAIN rows |-> rows[i].cost])
LitresOf(rows) == Total([i \in DOMAIN rows |-> rows[i].litres])
CardRows(rows) == RestrictValues(rows, LAMBDA r : r.card)
MemberRows(rows) == RestrictValues(rows, LAMBDA r : ~r.card)
NoRows == [i \in {} |-> 0]

AtLeast0(n) == IF n > 0 THEN n ELSE 0
Lesser(a, b) == IF a < b THEN a ELSE b

\* No local price is configured for the fuel type and date.
NoPrice == -1

\* cappedTotal, or the raw total where there is no cap.
Capped(rows, price) ==
    IF price = NoPrice \/ LitresOf(rows) = 0
    THEN CostOf(rows)
    ELSE Lesser(CostOf(rows), LitresOf(rows) * price)

\* toFixed(2), halves up.
ToCents(amount) == (2 * amount + Fine) \div (2 * Fine)

\* Mutant of FuelReimbursement: fuel on the club's card is left out of the cap.
FuelReimbursement_OwnCap(rows, price) ==
    [total |-> ToCents(Capped(rows, price)), card |-> ToCents(CostOf(CardRows(rows))),
     member |-> ToCents(Capped(MemberRows(rows), price)), owes |-> 0]

\* computeFuelReimbursement: the trip's total, what of it the club's card paid, what the
\* club pays the member, and what the member owes the club, each rounded by itself.
FuelReimbursement(rows, price) ==
    LET capped == Capped(rows, price)
        card == CostOf(CardRows(rows)) IN
    [total |-> ToCents(capped), card |-> ToCents(card),
     member |-> ToCents(AtLeast0(capped - card)), owes |-> ToCents(AtLeast0(card - capped))]

\* round2 of a row's share of the target, halves up.
Share(cost, target, whole) == (2 * cost * target + whole) \div (2 * whole)

\* Mutant of PayoutRows: every row is rounded, the last as well.
PayoutRows_Rounded(rows, target) ==
    LET own == MemberRows(rows) IN
    IF target = 0 THEN NoRows
    ELSE [i \in DOMAIN own |-> Share(own[i].cost, target, CostOf(own))]

\* Mutant of PayoutRows: every row is paid an equal part.
PayoutRows_Raw(rows, target) ==
    LET places == DOMAIN MemberRows(rows)
        part == target \div Cardinality(places) IN
    IF target = 0 THEN NoRows
    ELSE [i \in places |-> IF i = Max(places) THEN target - (Cardinality(places) - 1) * part
                           ELSE part]

\* buildFuelPayoutLineItems: the member's own rows scaled to the target, the last row
\* taking what rounding left.
PayoutRows(rows, target) ==
    LET own == MemberRows(rows)
        whole == CostOf(own)
        share == [i \in DOMAIN own |-> Share(own[i].cost, target, whole)] IN
    IF DOMAIN own = {} \/ target = 0 THEN NoRows
    ELSE IF whole = 0 THEN [i \in DOMAIN own |-> own[i].cost]
    ELSE [share EXCEPT ![Max(DOMAIN own)] = @ + target - Total(share)]

=============================================================================
