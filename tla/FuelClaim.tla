------------------------------ MODULE FuelClaim ------------------------------
(***************************************************************************)
(* A fuel claim while its line items are entered, and what FuelPayout      *)
(* makes of every such claim at every local price.                         *)
(***************************************************************************)
EXTENDS FuelPayout, Sequences

CONSTANTS
    Litres,     \* litres of a line item
    Amounts,    \* costs of a line item
    Prices,     \* local prices per litre, NoPrice where none is configured
    MaxRows     \* bounds the line items of a claim

ASSUME FuelClaimAssumption ==
    /\ Litres \subseteq Nat /\ Amounts \subseteq Nat
    /\ Prices \subseteq Nat \cup {NoPrice}
    /\ MaxRows \in Nat

VARIABLE rows

EntryInit == rows = <<>>

\* insertLineItems, one at a time.
Enter ==
    /\ Len(rows) < MaxRows
    /\ \E l \in Litres, c \in Amounts, card \in BOOLEAN :
           rows' = Append(rows, [litres |-> l, cost |-> c, card |-> card])

EntrySpec == EntryInit /\ [][Enter]_rows

-----------------------------------------------------------------------------

\* "the summary is what the member and the treasurer see; this is what reaches the
\* SimplBooks purchase, so the two must agree" (services/fuelReimbursement.ts:91): the rows
\* add up to the summary to the cent, and there are none when nothing is due.
AddsUp ==
    \A price \in Prices :
        LET due == FuelReimbursement(rows, price).member IN
        /\ Total(PayoutRows(rows, due)) = due
        /\ due = 0 => DOMAIN PayoutRows(rows, due) = {}

\* "Fuel paid with the club's card is never reimbursed to the member, but its litres and
\* cost still count toward the trip totals" (services/fuelReimbursement.ts:9): the member
\* gets no more than the own rows cost and owes no more than the card paid, never both, and
\* the figures shown, each rounded by itself, miss the trip's total by a cent at most.
CardIsNotReimbursed ==
    \A price \in Prices :
        LET sum == FuelReimbursement(rows, price) IN
        /\ 2 * Fine * sum.member =< 2 * CostOf(MemberRows(rows)) + Fine
        /\ 2 * Fine * sum.owes =< 2 * CostOf(CardRows(rows)) + Fine
        /\ sum.member = 0 \/ sum.owes = 0
        /\ sum.member - sum.owes + sum.card - sum.total \in -1 .. 1

\* Every row is paid its exact share to half a cent, but for the last, which takes what the
\* rounding of the others left: half a cent for each of them.
NearShare ==
    \A price \in Prices :
        LET due == FuelReimbursement(rows, price).member
            own == MemberRows(rows)
            whole == CostOf(own)
            paid == PayoutRows(rows, due)
            off(i) == paid[i] * whole - own[i].cost * due
            halves(i) == IF i = Max(DOMAIN own) THEN Cardinality(DOMAIN own) - 1 ELSE 1 IN
        \A i \in DOMAIN paid :
            /\ 2 * off(i) =< halves(i) * whole
            /\ -2 * off(i) =< halves(i) * whole

=============================================================================
