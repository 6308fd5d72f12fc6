--------------------------- MODULE FlightInvoicing ---------------------------
(***************************************************************************)
(* From a validated flight to a paid invoice: the treasurer's run over the *)
(* invoicable flights (routes/invoicing/api.ts, db/flight-log-queries.ts), *)
(* the outbox message it leaves for each member, the handler that invoices *)
(* the flights (services/simplbooks/simplbooksOutboxHandler.ts) and the    *)
(* payment sync (workers/simplbooksInvoicePaymentWorker.ts).               *)
(*                                                                         *)
(* Composes FlightLog, whose requests go on meanwhile, with OutboxPromise, *)
(* which SimplbooksOutbox implements: a flight invoice message is never    *)
(* skipped, so it is settled by the step that files its one document.      *)
(***************************************************************************)
EXTENDS FlightLog

CONSTANT Msgs       \* FLIGHT_INVOICE messages; bounds how many invoices a run can ask for

VARIABLES
    open, settled, filed,   \* the outbox, as OutboxPromise describes it
    payload,                \* message -> the flights it is to invoice
    payee,                  \* message -> the member of its flights at the snapshot
    invoiceNo,              \* flight -> the message whose document is its invoice, 0 if none
    paid                    \* messages whose invoice has paid_at set

outboxVars == <<open, settled, filed>>
billVars == <<payload, payee, invoiceNo, paid>>
vars == <<logVars, outboxVars, billVars>>

Outbox == INSTANCE OutboxPromise WITH Ids <- Msgs

ASSUME MsgsAssumption == Msgs \subseteq Nat \ {0}

-----------------------------------------------------------------------------

\* A run in progress: the members it has still to serve, each with the flights of theirs
\* that the snapshot held.
Runs == [kind : {"run"}, rest : [Members -> SUBSET Flights]]

TypeOK ==
    /\ RowsTypeOK
    /\ req \in [Clients -> Requests \cup Runs]
    /\ Outbox!TypeOK
    /\ payload \in [Msgs -> SUBSET Flights]
    /\ payee \in [Msgs -> Members]
    /\ invoiceNo \in [Flights -> Msgs \cup {0}]
    /\ paid \subseteq Msgs

Init ==
    /\ LogInit
    /\ Outbox!Init
    /\ payload = [m \in Msgs |-> {}]
    /\ payee \in [Msgs -> Members]
    /\ invoiceNo = [f \in Flights |-> 0]
    /\ paid = {}

-----------------------------------------------------------------------------
(* POST /invoicing/flights                                                 *)

\* getInvoicableFlights up to an end date, grouped by billable member.
BeginRun(c, last) ==
    LET listed(m) == {f \in Flights : f =< last /\ status[f] = "VALIDATED" /\ billed[f] = m} IN
    /\ Idle(c)
    /\ \E m \in Members : listed(m) # {}
    /\ req' = [req EXCEPT ![c] = [kind |-> "run", rest |-> [m \in Members |-> listed(m)]]]
    /\ UNCHANGED <<status, billed, linked, outboxVars, billVars>>

\* Mutant of InvoiceFlights: the statuses are written and nothing is enqueued.
InvoiceFlights_NoMessage(c, m) ==
    LET due == req[c].rest[m] IN
    /\ Asks(c, "run")
    /\ due # {} /\ \A f \in due : ~Locked(f)
    /\ status' = [f \in Flights |-> IF f \in due /\ Present(f) THEN "QUEUED" ELSE status[f]]
    /\ req' = Noted([req EXCEPT ![c].rest[m] = {}])
    /\ UNCHANGED <<billed, linked, outboxVars, billVars>>

\* Mutant of InvoiceFlights: the statuses are left for the handler to write.
InvoiceFlights_NoStatus(c, m) ==
    LET due == req[c].rest[m] IN
    /\ Asks(c, "run")
    /\ due # {} /\ \A f \in due : ~Locked(f)
    /\ \E n \in Msgs :
        /\ Outbox!Request(n)
        /\ payload' = [payload EXCEPT ![n] = due]
        /\ payee' = [payee EXCEPT ![n] = m]
    /\ req' = [req EXCEPT ![c].rest[m] = {}]
    /\ UNCHANGED <<status, billed, linked, invoiceNo, paid>>

\* invoiceFlights: one transaction per member makes the flights QUEUED, whatever status
\* they have by now, and enqueues their message.
InvoiceFlights(c, m) ==
    LET due == req[c].rest[m] IN
    /\ Asks(c, "run")
    /\ due # {} /\ \A f \in due : ~Locked(f)
    /\ status' = [f \in Flights |-> IF f \in due /\ Present(f) THEN "QUEUED" ELSE status[f]]
    /\ \E n \in Msgs :
        /\ Outbox!Request(n)
        /\ payload' = [payload EXCEPT ![n] = due]
        /\ payee' = [payee EXCEPT ![n] = m]
    /\ req' = Noted([req EXCEPT ![c].rest[m] = {}])
    /\ UNCHANGED <<billed, linked, invoiceNo, paid>>

\* The run has served every member and answers.
EndRun(c) ==
    /\ Asks(c, "run")
    /\ \A m \in Members : req[c].rest[m] = {}
    /\ Done(c)
    /\ UNCHANGED <<status, billed, linked, outboxVars, billVars>>

\* The backend dies: every open request is lost between its transactions.
Crash ==
    /\ \E c \in Clients : ~Idle(c)
    /\ req' = [c \in Clients |-> Nothing]
    /\ UNCHANGED <<status, billed, linked, outboxVars, billVars>>

-----------------------------------------------------------------------------
(* What the outbox and the payment sync write into the flight log          *)

\* Mutant of Invoice: the statement keeps an invoice number that is there.
Invoice_KeepNumber(n) ==
    LET due == {f \in payload[n] : Present(f)} IN
    /\ \A f \in due : ~Locked(f)
    /\ filed' = [filed EXCEPT ![n] = {1}]
    /\ Outbox!File(n)
    /\ open' \subseteq open
    /\ status' = [f \in Flights |-> IF f \in due THEN "INVOICED" ELSE status[f]]
    /\ invoiceNo' = [f \in Flights |-> IF f \in due /\ invoiceNo[f] = 0 THEN n ELSE invoiceNo[f]]
    /\ UNCHANGED <<billed, linked, payload, payee, paid>>
    /\ req' = Noted(req)

\* Mutant of Invoice: the flights get their status and no number.
Invoice_NoNumber(n) ==
    LET due == {f \in payload[n] : Present(f)} IN
    /\ \A f \in due : ~Locked(f)
    /\ filed' = [filed EXCEPT ![n] = {1}]
    /\ Outbox!File(n)
    /\ open' \subseteq open
    /\ status' = [f \in Flights |-> IF f \in due THEN "INVOICED" ELSE status[f]]
    /\ UNCHANGED <<billed, linked, payload, payee, invoiceNo, paid>>
    /\ req' = Noted(req)

\* createFlightInvoice: the transaction that files the invoice makes the flights of the
\* payload INVOICED under its number.  Its e-mail message is of no interest here.
Invoice(n) ==
    LET due == {f \in payload[n] : Present(f)} IN
    /\ \A f \in due : ~Locked(f)
    /\ filed' = [filed EXCEPT ![n] = {1}]
    /\ Outbox!File(n)
    /\ open' \subseteq open
    /\ status' = [f \in Flights |-> IF f \in due THEN "INVOICED" ELSE status[f]]
    /\ invoiceNo' = [f \in Flights |-> IF f \in due THEN n ELSE invoiceNo[f]]
    /\ UNCHANGED <<billed, linked, payload, payee, paid>>
    /\ req' = Noted(req)

\* markInvoiceAsPaid: one transaction sets paid_at and makes the INVOICED flights of the
\* invoice PAID.  The sync's list may be stale by then, so it can happen twice.
MarkPaid(n) ==
    LET settle == {f \in Flights : invoiceNo[f] = n /\ status[f] = "INVOICED"} IN
    /\ n \in settled /\ filed[n] # {}
    /\ \A f \in settle : ~Locked(f)
    /\ paid' = paid \cup {n}
    /\ status' = [f \in Flights |-> IF f \in settle THEN "PAID" ELSE status[f]]
    /\ UNCHANGED <<billed, linked, req, outboxVars, payload, payee, invoiceNo>>

-----------------------------------------------------------------------------

Next ==
    \/ LogNext /\ UNCHANGED <<outboxVars, billVars>>
    \/ \E c \in Admins :
        \/ \E last \in Flights : BeginRun(c, last)
        \/ \E m \in Members : InvoiceFlights(c, m)
        \/ EndRun(c)
    \/ \E n \in Msgs : Invoice(n) \/ MarkPaid(n)
    \/ Crash

Spec == Init /\ [][Next]_vars

-----------------------------------------------------------------------------
(* What must hold, however many admins work at once.                       *)

Requested(n) == n \in open \cup settled

\* A flight that waits for its invoice is in the payload of an open message: no crash and
\* no stale write strands it where no run would list it again.
NoFlightStranded ==
    \A f \in Flights : status[f] = "QUEUED" => \E n \in open : f \in payload[n]

\* An invoiced flight carries the number of an invoice on record that lists it.
InvoiceOnRecord ==
    \A f \in Flights : status[f] \in {"INVOICED", "PAID"} =>
        /\ invoiceNo[f] \in settled
        /\ filed[invoiceNo[f]] # {}
        /\ f \in payload[invoiceNo[f]]

\* A flight is PAID exactly when the invoice it is on is paid.
PaidWithInvoice ==
    \A f \in Flights :
        /\ status[f] = "PAID" => invoiceNo[f] \in paid
        /\ status[f] = "INVOICED" => invoiceNo[f] \notin paid

-----------------------------------------------------------------------------
(* What must hold while one admin works at a time.                         *)

\* "Mark flights as invoiced so they are not selected again by getInvoicableFlights"
\* (db/flight-log-queries.ts:1803): no flight is in two messages.
InvoicedOnce ==
    \A m, n \in Msgs : Requested(m) /\ Requested(n) /\ m # n =>
        payload[m] \cap payload[n] = {}

BillingRank(s) ==
    CASE s = "QUEUED" -> 1 [] s = "INVOICED" -> 2 [] s = "PAID" -> 3 [] OTHER -> 0

\* A flight on its way to an invoice goes forward only: it is never validated, reverted or
\* queued again by a request that had read an earlier status.
BillingGoesForward ==
    [][\A f \in Flights : BillingRank(status[f]) =< BillingRank(status'[f])]_vars

\* "Flight log in status QUEUED, INVOICED or PAID cannot be modified by admin"
\* (routes/flight-log/api.ts:470): a flight's billable member is the payee of its invoice.
BilledToPayee ==
    \A n \in Msgs : Requested(n) => \A f \in payload[n] : billed[f] = payee[n]

=============================================================================
