------------------------------- MODULE Expenses -------------------------------
(***************************************************************************)
(* Expense claims of the fuel category: the member's and the treasurer's   *)
(* requests (routes/expenses/api.ts, db/expense-queries.ts), the fuel      *)
(* records a claim is made from (routes/expenses/liquidClaimItems.ts,      *)
(* db/liquid-queries.ts) and the outbox messages an approved claim leaves  *)
(* for its reimbursement or recovery (simplbooksOutboxHandler.ts).         *)
(* What a claim pays is FuelPayout's.                                      *)
(*                                                                         *)
(* A request reads its claim and judges it by its status, then writes with *)
(* one transaction that does not look at the status again: two steps here, *)
(* with other requests in between.  Composed with OutboxPromise, as        *)
(* MemberFees is: any open message may be dispatched next.  What becomes   *)
(* of a handler that is cut short is SimplbooksOutbox's.                   *)
(***************************************************************************)
EXTENDS Integers, Sequences, SequencesExt, FuelPayout

CONSTANTS
    Ids,            \* outbox messages
    Claims,         \* claims, in the order they are made; bounds how many ever are
    Records,        \* liquid.record rows of type FUEL
    People,         \* members
    Admins,         \* those of them with EXPENSE_ADMIN and LIQUID_ADMIN
    Claimants,      \* those of them who make claims; bounds the instance
    Reviewed,       \* claims the treasurers look at; bounds the instance
    Clients,        \* browser sessions with a request open, one each
    Who,            \* client -> the person signed in
    Reporter,       \* record -> the member who reported it
    Costs,          \* what a record or an edited line item may cost
    ByHand,         \* line items a member may enter by hand
    LocalPrices,    \* local prices per litre the club may have configured
    MaxRequests     \* requests between their checks and their write at a time

Hand == "hand"
NoClaim == 0

\* A line item: the record it is derived from, or Hand.
Items == [of : Records \cup {Hand}, litres : Nat, cost : Nat, card : BOOLEAN]

ASSUME ExpensesAssumption ==
    /\ Admins \subseteq People /\ Claimants \subseteq People
    /\ Reviewed \subseteq Claims
    /\ Who \in [Clients -> People]
    /\ Reporter \in [Records -> People]
    /\ Costs \subseteq Nat
    /\ ByHand \subseteq Seq(Items) /\ \A s \in ByHand : \A i \in DOMAIN s : s[i].of = Hand
    /\ IsFiniteSet(Records)
    /\ LocalPrices \subseteq Nat \cup {NoPrice}
    /\ MaxRequests \in Nat
    /\ Claims \subseteq Nat \ {NoClaim} /\ Hand \notin Records

VARIABLES
    open, settled, filed,   \* the outbox, as OutboxPromise describes it
    msg,                    \* message -> its type and claim
    claim,                  \* accts.expense_claim with its line items
    record,                 \* liquid.record: cost, claim it is linked to, frozen price
    req                     \* client -> the request it has open

outboxVars == <<open, settled, filed, msg>>
vars == <<outboxVars, claim, record, req>>

Outbox == INSTANCE OutboxPromise

-----------------------------------------------------------------------------

\* NONE before the claim is made and GONE after it is deleted: no row in the table.
Statuses == {"DRAFT", "SUBMITTED", "PENDING_INFO", "APPROVED", "REJECTED", "SYNCED"}
Editable == {"DRAFT", "PENDING_INFO"}
Awaiting == {"SUBMITTED", "PENDING_INFO"}
Row(k) == claim[k].status \in Statuses

Messages == [kind : {"REIMBURSEMENT", "CLUB_FUEL_RECOVERY"}, claim : Claims]
Unsent == [kind |-> "none"]

\* What a saved claim is made from: the records picked, or items typed in, or, with keep,
\* the items it has.
Payloads == [by : {"records", "hand", "keep"}, picked : SUBSET Records, items : Seq(Items)]

Nothing == [kind |-> "none"]
Requests ==
    {Nothing}
    \cup [kind : {"create"}, load : Payloads]
    \cup [kind : {"edit"}, claim : Claims, load : Payloads]
    \cup [kind : {"delete", "submit", "reject", "info", "draft"}, claim : Claims]
    \cup [kind : {"correct"}, claim : Claims, from : Seq(Items), row : Nat, to : Items]
    \cup [kind : {"cap"}, claim : Claims, price : Nat]
    \cup [kind : {"approve"}, claim : Claims, items : Seq(Items), price : LocalPrices]
    \cup [kind : {"cost"}, record : Records, cost : Nat]
    \cup [kind : {"remove"}, record : Records]

TypeOK ==
    /\ Outbox!TypeOK
    /\ msg \in [Ids -> Messages \cup {Unsent}]
    /\ claim \in [Claims -> [status : Statuses \cup {"NONE", "GONE"}, owner : People, items : Seq(Items)]]
    /\ record \in [Records -> [cost : Nat, link : Claims \cup {NoClaim}, frozen : Nat, deleted : BOOLEAN]]
    /\ req \in [Clients -> Requests]

Init ==
    /\ Outbox!Init
    /\ msg = [n \in Ids |-> Unsent]
    /\ claim \in [Claims -> [status : {"NONE"}, owner : People, items : {<<>>}]]
    /\ record \in [Records -> [cost : Costs, link : {NoClaim}, frozen : {0}, deleted : {FALSE}]]
    /\ req = [c \in Clients |-> Nothing]

Asks(c, kind) == req[c].kind = kind
Open(c, r) ==
    /\ Asks(c, "none")
    /\ Cardinality({d \in Clients : ~Asks(d, "none")}) < MaxRequests
    /\ req' = [req EXCEPT ![c] = r]
Done(c) == req' = [req EXCEPT ![c] = Nothing]

\* Begin a request: nothing but the request changes.
Begin(c, r) == Open(c, r) /\ UNCHANGED <<outboxVars, claim, record>>

Owns(c, k) == Row(k) /\ claim[k].owner = Who[c]
Reviews(c, k) == Row(k) /\ k \in Reviewed /\ Who[c] \in Admins

-----------------------------------------------------------------------------
(* The records a claim is made from                                        *)

Linked(k) == {r \in Records : record[r].link = k}

\* loadClaimableFuelRecords.  Its limits on a record's age and flight are not kept: a
\* record they rule out is one that is not picked.
Claimable(r, c, k) ==
    /\ ~record[r].deleted
    /\ Reporter[r] = Who[c]
    /\ record[r].link \in {NoClaim, k}

\* deriveLineItemsFromRecords: one item for each record, as it is now.
Derived(picked) ==
    LET item(r) == [of |-> r, litres |-> 1, cost |-> record[r].cost, card |-> FALSE] IN
    [i \in 1 .. Cardinality(picked) |-> item(SetToSeq(picked)[i])]

\* applySelectedFuelRecords: what a client may ask to save on claim k.
Loads(c, k) ==
    {[by |-> "records", picked |-> p, items |-> Derived(p)] :
        p \in {q \in SUBSET Records : \A r \in q : Claimable(r, c, k)}}
    \cup {[by |-> "hand", picked |-> {}, items |-> s] : s \in ByHand}

Free(r) == ~record[r].deleted /\ record[r].link = NoClaim

\* unlinkRecordsFromClaim
Released(k) ==
    [r \in Records |-> IF record[r].link = k
                       THEN [record[r] EXCEPT !.link = NoClaim, !.frozen = 0] ELSE record[r]]

\* Mutant of MayLink: the records that are free are linked, the others passed over.
MayLink_Some(k, picked) == TRUE

\* assertAllRecordsLinked: linkRecordsToClaim finds every record picked free, after claim
\* k has released its own, or the transaction rolls back.
MayLink(k, picked) == \A r \in picked : ~record[r].deleted /\ record[r].link \in {NoClaim, k}

\* The records once claim k holds those picked that are free and no others, at a price
\* frozen now.
Relinked(k, picked) ==
    [r \in Records |-> IF r \in picked /\ ~record[r].deleted /\ Released(k)[r].link = NoClaim
                       THEN [record[r] EXCEPT !.link = k, !.frozen = record[r].cost]
                       ELSE Released(k)[r]]

-----------------------------------------------------------------------------
(* The member's requests                                                   *)

BeginCreate(c) ==
    /\ Who[c] \in Claimants
    /\ \E load \in Loads(c, NoClaim) : Begin(c, [kind |-> "create", load |-> load])

\* createExpenseClaim
Create(c, k) ==
    LET load == req[c].load IN
    /\ Asks(c, "create")
    /\ claim[k].status = "NONE"
    /\ \A j \in Claims : claim[j].status = "NONE" => k =< j
    /\ IF MayLink(k, load.picked)
       THEN /\ claim' = [claim EXCEPT ![k] =
                  [status |-> "DRAFT", owner |-> Who[c], items |-> load.items]]
            /\ record' = Relinked(k, load.picked)
       ELSE UNCHANGED <<claim, record>>
    /\ Done(c)
    /\ UNCHANGED outboxVars

\* PUT /:id, with new items or without.
BeginEdit(c, k) ==
    /\ Owns(c, k)
    /\ claim[k].status \in Editable
    /\ \E load \in Loads(c, k) \cup {[by |-> "keep", picked |-> {}, items |-> <<>>]} :
           Begin(c, [kind |-> "edit", claim |-> k, load |-> load])

\* updateExpenseClaim.  Items typed in leave the records linked; for a claim that is gone
\* the message row's foreign key rolls everything back.
Edit(c) ==
    LET k == req[c].claim
        load == req[c].load IN
    /\ Asks(c, "edit")
    /\ IF Row(k) /\ MayLink(k, load.picked)
       THEN /\ claim' = [claim EXCEPT ![k].status = "DRAFT",
                                      ![k].items = IF load.by = "keep" THEN @ ELSE load.items]
            /\ record' = IF load.by = "records" THEN Relinked(k, load.picked) ELSE record
       ELSE UNCHANGED <<claim, record>>
    /\ Done(c)
    /\ UNCHANGED outboxVars

BeginDelete(c, k) ==
    /\ Owns(c, k)
    /\ claim[k].status = "DRAFT"
    /\ Begin(c, [kind |-> "delete", claim |-> k])

\* deleteExpenseClaim: its records are released, then the row goes with its line items.
Delete(c) ==
    LET k == req[c].claim IN
    /\ Asks(c, "delete")
    /\ claim' = [claim EXCEPT ![k].status = "GONE", ![k].items = <<>>]
    /\ record' = Released(k)
    /\ Done(c)
    /\ UNCHANGED outboxVars

BeginSubmit(c, k) ==
    /\ Owns(c, k)
    /\ claim[k].status \in Editable
    /\ CostOf(claim[k].items) > 0
    /\ Begin(c, [kind |-> "submit", claim |-> k])

\* retractExpenseClaim: the one write whose statement asks for the status it found.
Retract(c, k) ==
    /\ Asks(c, "none")
    /\ Owns(c, k)
    /\ claim[k].status = "SUBMITTED"
    /\ claim' = [claim EXCEPT ![k].status = "DRAFT"]
    /\ UNCHANGED <<outboxVars, record, req>>

-----------------------------------------------------------------------------
(* The treasurer's requests                                                *)

BeginReject(c, k) ==
    /\ Reviews(c, k)
    /\ claim[k].status \in Awaiting
    /\ Begin(c, [kind |-> "reject", claim |-> k])

BeginRequestInfo(c, k) ==
    /\ Reviews(c, k)
    /\ claim[k].status \in Awaiting
    /\ Begin(c, [kind |-> "info", claim |-> k])

BeginSetDraft(c, k) ==
    /\ Reviews(c, k)
    /\ claim[k].status \in Awaiting \cup {"APPROVED", "REJECTED"}
    /\ Begin(c, [kind |-> "draft", claim |-> k])

NewStatus(kind) ==
    CASE kind = "submit" -> "SUBMITTED"
      [] kind = "reject" -> "REJECTED"
      [] kind = "info" -> "PENDING_INFO"
      [] kind = "draft" -> "DRAFT"

\* Mutant of SetStatus: a rejected claim keeps its records.
SetStatus_Hold(c) ==
    LET k == req[c].claim
        status == NewStatus(req[c].kind) IN
    /\ req[c].kind \in {"submit", "reject", "info", "draft"}
    /\ IF Row(k)
       THEN claim' = [claim EXCEPT ![k].status = status]
       ELSE UNCHANGED claim
    /\ Done(c)
    /\ UNCHANGED <<outboxVars, record>>

\* submitExpenseClaim, rejectExpenseClaim, markExpenseClaimPendingInfo and
\* setExpenseClaimToDraft: the status is set whatever it is by now; a rejection releases
\* the claim's records.
SetStatus(c) ==
    LET k == req[c].claim
        status == NewStatus(req[c].kind) IN
    /\ req[c].kind \in {"submit", "reject", "info", "draft"}
    /\ IF Row(k)
       THEN claim' = [claim EXCEPT ![k].status = status]
       ELSE UNCHANGED claim
    /\ record' = IF status = "REJECTED" THEN Released(k) ELSE record
    /\ Done(c)
    /\ UNCHANGED outboxVars

\* treasurerEditExpenseClaim corrects a row: whether the club's card paid it, or, on a claim
\* that no record is linked to, its cost.  It reads claim and records before it writes.
BeginCorrect(c, k) ==
    /\ Reviews(c, k)
    /\ claim[k].status \in Awaiting
    /\ claim[k].owner # Who[c]
    /\ \E i \in DOMAIN claim[k].items :
        LET row == claim[k].items[i] IN
        \E to \in {[row EXCEPT !.card = ~@]}
                 \cup {[row EXCEPT !.cost = cost] : cost \in IF Linked(k) = {} THEN Costs ELSE {}} :
            Begin(c, [kind |-> "correct", claim |-> k, from |-> claim[k].items, row |-> i, to |-> to])

\* A row that an edit has replaced meanwhile is not found.
Correct(c) ==
    LET k == req[c].claim IN
    /\ Asks(c, "correct")
    /\ claim' = IF claim[k].items = req[c].from
                THEN [claim EXCEPT ![k].items[req[c].row] = req[c].to] ELSE claim
    /\ Done(c)
    /\ UNCHANGED <<outboxVars, record>>

BeginOverride(c, k) ==
    /\ Reviews(c, k)
    /\ claim[k].status \in Awaiting
    /\ \E price \in Costs : Begin(c, [kind |-> "cap", claim |-> k, price |-> price])

\* overrideFuelPrice: no litre of the claim costs more than the price.
Override(c) ==
    LET k == req[c].claim
        limit(item) == [item EXCEPT !.cost = Lesser(@, item.litres * req[c].price)] IN
    /\ Asks(c, "cap")
    /\ claim' = [claim EXCEPT ![k].items = [i \in DOMAIN @ |-> limit(@[i])]]
    /\ Done(c)
    /\ UNCHANGED <<outboxVars, record>>

\* The claim is read with its items and the local price of the day its trip began.
BeginApprove(c, k) ==
    /\ Reviews(c, k)
    /\ claim[k].status \in Awaiting
    /\ claim[k].owner # Who[c]
    /\ \E price \in LocalPrices :
           Begin(c, [kind |-> "approve", claim |-> k, items |-> claim[k].items, price |-> price])

\* insertOutboxItem
Send(kind, k) ==
    \E n \in Outbox!Unrequested :
        /\ \A j \in Outbox!Unrequested : n =< j
        /\ Outbox!Request(n)
        /\ msg' = [msg EXCEPT ![n] = [kind |-> kind, claim |-> k]]

\* One transaction approves the claim, whatever it is by now, and sends what it pays or
\* what it recovers.
Approve(c) ==
    LET k == req[c].claim
        due == FuelReimbursement(req[c].items, req[c].price)
        payout == PayoutRows(req[c].items, due.member) IN
    /\ Asks(c, "approve")
    /\ IF Row(k)
       THEN claim' = [claim EXCEPT ![k].status = "APPROVED"]
       ELSE UNCHANGED claim
    /\ IF DOMAIN payout # {} THEN Send("REIMBURSEMENT", k)
       ELSE IF due.owes > 0 THEN Send("CLUB_FUEL_RECOVERY", k)
       ELSE UNCHANGED outboxVars
    /\ Done(c)
    /\ UNCHANGED record

-----------------------------------------------------------------------------
(* PATCH and DELETE /liquid/records/:recordId                              *)

\* assertRecordMutable: not deleted, not linked, and its reporter's or an admin's.
Mutable(c, r) == Free(r) /\ (Who[c] = Reporter[r] \/ Who[c] \in Admins)

BeginRecordEdit(c, r) ==
    /\ Mutable(c, r)
    /\ \/ \E cost \in Costs : Begin(c, [kind |-> "cost", record |-> r, cost |-> cost])
       \/ Begin(c, [kind |-> "remove", record |-> r])

\* updateLiquidRecord and softDeleteLiquidRecord, linked by now or not.
EditRecord(c) ==
    LET r == req[c].record IN
    /\ req[c].kind \in {"cost", "remove"}
    /\ record' = IF Asks(c, "cost") THEN [record EXCEPT ![r].cost = req[c].cost]
                 ELSE [record EXCEPT ![r].deleted = TRUE]
    /\ Done(c)
    /\ UNCHANGED <<outboxVars, claim>>

\* A later check refuses the request, its write fails, or the backend dies: nothing is
\* written.
GiveUp(c) ==
    /\ ~Asks(c, "none")
    /\ Done(c)
    /\ UNCHANGED <<outboxVars, claim, record>>

-----------------------------------------------------------------------------
(* The handlers                                                            *)

\* createExpenseReimbursement: the purchase is made, then one transaction makes the claim
\* SYNCED, if it is there, and settles the message.
Reimburse(n) ==
    LET k == msg[n].claim IN
    /\ n \in open
    /\ msg[n].kind = "REIMBURSEMENT"
    /\ IF Row(k)
       THEN /\ claim' = [claim EXCEPT ![k].status = "SYNCED"]
            /\ filed' = [filed EXCEPT ![n] = {1}]
            /\ Outbox!File(n)
            /\ open' \subseteq open
       ELSE Outbox!Close(n) /\ UNCHANGED claim
    /\ UNCHANGED <<msg, record, req>>

\* createClubFuelRecoveryInvoice
Recover(n) ==
    /\ n \in open
    /\ msg[n].kind = "CLUB_FUEL_RECOVERY"
    /\ filed' = [filed EXCEPT ![n] = {1}]
    /\ Outbox!File(n)
    /\ open' \subseteq open
    /\ UNCHANGED <<msg, claim, record, req>>

-----------------------------------------------------------------------------

Serve(c) ==
    \/ BeginCreate(c)
    \/ \E k \in Claims :
        \/ Create(c, k) \/ BeginEdit(c, k) \/ BeginDelete(c, k) \/ BeginSubmit(c, k)
        \/ Retract(c, k)
        \/ BeginReject(c, k) \/ BeginRequestInfo(c, k) \/ BeginSetDraft(c, k)
        \/ BeginCorrect(c, k) \/ BeginOverride(c, k) \/ BeginApprove(c, k)
    \/ \E r \in Records : BeginRecordEdit(c, r)
    \/ Edit(c) \/ Delete(c) \/ SetStatus(c) \/ Correct(c) \/ Override(c) \/ Approve(c)
    \/ EditRecord(c)
    \/ GiveUp(c)

Next ==
    \/ \E c \in Clients : Serve(c)
    \/ \E n \in Ids : Reimburse(n) \/ Recover(n)

Spec == Init /\ [][Next]_vars

-----------------------------------------------------------------------------
(* What must hold, however requests interleave.                            *)

\* A record is linked to a claim that is there and may yet be paid: deleting and rejecting
\* a claim release its records, or "they become unclaimable and uneditable by anyone"
\* (db/expense-queries.ts:736), also when an edit of the claim is under way.
NoRecordStranded ==
    \A r \in Records :
        record[r].link # NoClaim =>
            Row(record[r].link) /\ claim[record[r].link].status # "REJECTED"

ListedBy(k) == {claim[k].items[i].of : i \in DOMAIN claim[k].items} \ {Hand}

\* A save that puts records on a claim's rows has linked them all: "the claim must not be
\* saved with cost/litres figures for a record it was never actually linked to"
\* (db/expense-queries.ts:494), whoever linked them first.
SavedMeansLinked ==
    [][\A k \in Claims : \A r \in ListedBy(k)' \ ListedBy(k) : record'[r].link = k]_vars

=============================================================================
