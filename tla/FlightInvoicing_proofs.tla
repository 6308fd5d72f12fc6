------------------------ MODULE FlightInvoicing_proofs ------------------------
(***************************************************************************)
(* Proofs about FlightLog and FlightInvoicing for any flights, members,    *)
(* clients and messages: what the database holds on to when the routes act *)
(* on what they read earlier, and what ties a flight to its message and    *)
(* its invoice, both survive any number of admins working at once.         *)
(***************************************************************************)
EXTENDS FlightInvoicing, TLAPS

-----------------------------------------------------------------------------
(* The flight log: what the database holds on to.                          *)

\* The part of the type invariant that these proofs need.
StatusTyped == status \in [Flights -> Statuses]

\* A step of the log leaves every flight with a status.
LEMMA StatusStep == StatusTyped /\ [LogNext]_logVars => StatusTyped'
<1> SUFFICES ASSUME StatusTyped, [LogNext]_logVars PROVE StatusTyped'
  OBVIOUS
<1> USE DEF StatusTyped, Statuses, FrozenStatus
<1>1. ASSUME NEW c \in Clients, AnyClient(c) PROVE StatusTyped'
  BY <1>1 DEF AnyClient, Insert, Enter, BeginDelete, BeginLink, Delete, Link, Unlink
<1>2. ASSUME NEW c \in Admins, AdminOnly(c) PROVE StatusTyped'
  BY <1>2 DEF AdminOnly, BeginValidate, BeginRevert, BeginBill, CheckLiquids, Validate,
     Revert, Thaw, Bill
<1>3. CASE UNCHANGED logVars
  BY <1>3 DEF logVars
<1> QED BY <1>1, <1>2, <1>3 DEF LogNext

\* Every flight always has a status.
LEMMA StatusAlways == LogSpec => []StatusTyped
<1>1. LogInit => StatusTyped
  BY DEF LogInit, StatusTyped, Statuses
<1> QED BY <1>1, StatusStep, PTL DEF LogSpec

\* What a step of any client does to a flight: only NEW ones are deleted, with the status
\* in the statement's own condition, and only a commit makes one NEW.
LEMMA ClientStep ==
  ASSUME StatusTyped, NEW c \in Clients, AnyClient(c), NEW f \in Flights
  PROVE  \/ status'[f] = status[f]
         \/ status[f] = "NEW" /\ status'[f] = "GONE"
         \/ Enter(c) /\ req[c].flight = f
BY DEF StatusTyped, AnyClient, Insert, Enter, BeginDelete, BeginLink, Delete, Link, Unlink

\* What a step of an admin's does to a flight.
LEMMA AdminStep ==
  ASSUME StatusTyped, NEW c \in Admins, AdminOnly(c), NEW f \in Flights
  PROVE  \/ status'[f] = status[f]
         \/ Validate(c) /\ status'[f] = "VALIDATED"
         \/ Thaw(c) /\ req[c].flight = f
BY DEF StatusTyped, AdminOnly, BeginValidate, BeginRevert, BeginBill, CheckLiquids, Validate,
   Revert, Thaw, Bill

\* A frozen flight is never deleted.
THEOREM KeptWhenFrozen == LogSpec => FrozenIsKept
<1> DEFINE Kept == \A f \in Flights : Frozen(f) => status'[f] # "GONE"
<1>1. ASSUME StatusTyped, NEW c \in Clients, AnyClient(c) PROVE Kept
  BY <1>1, ClientStep DEF Enter, StatusTyped, Frozen, FrozenStatus
<1>2. ASSUME StatusTyped, NEW c \in Admins, AdminOnly(c) PROVE Kept
  BY <1>2, AdminStep DEF Thaw, StatusTyped, Frozen, FrozenStatus
<1>3. StatusTyped /\ [LogNext]_logVars => [Kept]_logVars
  <2> HIDE DEF Kept
  <2> QED BY <1>1, <1>2 DEF LogNext
<1> QED BY <1>3, StatusAlways, PTL DEF LogSpec, FrozenIsKept

-----------------------------------------------------------------------------
(* Flights, messages and invoices, with any number of admins.              *)

\* What the outbox and the payments know of each other: no message is open and settled,
\* and only a settled message has a paid invoice.
Books ==
    /\ open \cap settled = {}
    /\ paid \subseteq settled

Inv ==
    /\ TypeOK
    /\ Books
    /\ NoFlightStranded
    /\ InvoiceOnRecord
    /\ PaidWithInvoice

-----------------------------------------------------------------------------
(* Initial states.                                                         *)

\* The initial state satisfies the invariant.
LEMMA InitInv == Init => Inv
<1> SUFFICES ASSUME Init PROVE Inv
  OBVIOUS
<1>1. TypeOK
  BY DEF Init, TypeOK, RowsTypeOK, LogInit, Outbox!Init, Outbox!TypeOK, Statuses,
         Requests, Nothing
<1>2. Books /\ NoFlightStranded /\ InvoiceOnRecord /\ PaidWithInvoice
  BY DEF Init, LogInit, Outbox!Init, Books, NoFlightStranded, InvoiceOnRecord, PaidWithInvoice
<1> QED BY <1>1, <1>2 DEF Inv

-----------------------------------------------------------------------------
(* A step of the flight log leaves the books alone and takes no flight     *)
(* into a status after VALIDATED.                                          *)

LogStatus == {"NEW", "VALIDATED", "GONE"}

\* What the routes leave a client with is a request.
LEMMA RequestTypes ==
  /\ Nothing \in Requests
  /\ \A f \in Flights, k \in {"validate", "finalise", "revert", "delete", "link", "unlink"} :
        [kind |-> k, flight |-> f] \in Requests
  /\ \A f \in Flights, m \in Members : [kind |-> "bill", flight |-> f, member |-> m] \in Requests
  /\ \A f \in Flights, k \in Uncommitted, S \in SUBSET Flights :
        [kind |-> k, flight |-> f, since |-> S] \in Requests
BY DEF Requests

\* Noting what was frozen leaves requests that are requests.
LEMMA NotedTypes ==
  ASSUME NEW r \in [Clients -> Requests \cup Runs] PROVE Noted(r) \in [Clients -> Requests \cup Runs]
<1> DEFINE later(c) == {g \in Flights : g > r[c].flight /\ ~Frozen(g) /\ status'[g] \in FrozenStatus}
<1>1. ASSUME NEW c \in Clients, r[c].kind \in Uncommitted
      PROVE  [r[c] EXCEPT !.since = @ \cup later(c)] \in Requests
  <2>1. r[c] \in [kind : Uncommitted, flight : Flights, since : SUBSET Flights]
    BY <1>1 DEF Requests, Runs, Nothing, Uncommitted
  <2>2. [r[c] EXCEPT !.since = @ \cup later(c)] \in [kind : Uncommitted, flight : Flights, since : SUBSET Flights]
    BY <2>1
  <2> QED BY <2>2 DEF Requests
<1> QED BY <1>1 DEF Noted

\* The log keeps types, and no step of it puts a flight on an invoice.
LEMMA LogFacts ==
  ASSUME TypeOK, LogNext, UNCHANGED <<outboxVars, billVars>>
  PROVE  /\ TypeOK'
         /\ \A f \in Flights : status'[f] = status[f] \/ status'[f] \in LogStatus
<1>1. \A c \in Clients : req[c] \in Requests \cup Runs
  BY DEF TypeOK
<1>2. UNCHANGED <<open, settled, filed, payload, payee, invoiceNo, paid>>
  BY DEF outboxVars, billVars
<1> DEFINE Kept ==
      /\ RowsTypeOK'
      /\ req' \in [Clients -> Requests \cup Runs]
      /\ \A f \in Flights : status'[f] = status[f] \/ status'[f] \in LogStatus
<1>3. SUFFICES Kept
  BY <1>2 DEF TypeOK, Outbox!TypeOK
<1>4. \A c \in Clients, r \in Requests :
        req' = [req EXCEPT ![c] = r] => req' \in [Clients -> Requests \cup Runs]
  BY DEF TypeOK
<1>10. Nothing \in Requests
  BY RequestTypes
<1>5. ASSUME NEW c \in Clients, NEW f \in Flights,
             Insert(c, f) \/ BeginDelete(c, f) \/ BeginLink(c, f)
      PROVE  Kept
  <2>1. \E r \in Requests : req' = [req EXCEPT ![c] = r]
    <3>1. CASE Insert(c, f)
      <4>1. [kind |-> "enter", flight |-> f, since |-> {}] \in Requests
        BY RequestTypes DEF Uncommitted
      <4> QED BY <3>1, <4>1 DEF Insert, Wait
    <3>2. CASE BeginDelete(c, f) \/ BeginLink(c, f)
      BY <3>2, RequestTypes DEF BeginDelete, BeginLink, Open
    <3> QED BY <1>5, <3>1, <3>2
  <2>2. req' \in [Clients -> Requests \cup Runs]
    BY <1>4, <1>5, <2>1
  <2>3. UNCHANGED <<status, billed, linked>>
    BY <1>5 DEF Insert, BeginDelete, BeginLink
  <2> QED BY <2>2, <2>3 DEF TypeOK, RowsTypeOK
<1>6. ASSUME NEW c \in Clients, Enter(c) \/ Delete(c) \/ Link(c) \/ Unlink(c)
      PROVE  Kept
  <2>1. req[c].flight \in Flights
    BY <1>1, <1>6 DEF Enter, Delete, Link, Unlink, Asks, Requests, Runs, Nothing, Uncommitted
  <2>2. req' \in [Clients -> Requests \cup Runs]
    BY <1>4, <1>6, <1>10 DEF Enter, Delete, Link, Unlink, Done
  <2>3. CASE Enter(c)
    <3>1. PICK m \in Members : billed' = [billed EXCEPT ![req[c].flight] = m]
      BY <2>3 DEF Enter
    <3>2. status' = [status EXCEPT ![req[c].flight] = "NEW"] /\ linked' = linked
      BY <2>3 DEF Enter
    <3> QED BY <2>1, <2>2, <3>1, <3>2 DEF TypeOK, RowsTypeOK, Statuses, LogStatus
  <2>4. CASE Delete(c) \/ Link(c) \/ Unlink(c)
    BY <2>1, <2>2, <2>4 DEF Delete, Link, Unlink, TypeOK, RowsTypeOK, Statuses, LogStatus
  <2> QED BY <1>6, <2>3, <2>4
<1>7. ASSUME NEW c \in Clients, NEW f \in Flights,
             BeginValidate(c, f) \/ BeginRevert(c, f) \/ \E m \in Members : BeginBill(c, f, m)
      PROVE  Kept
  <2>1. \E r \in Requests : req' = [req EXCEPT ![c] = r]
    BY <1>7, RequestTypes DEF BeginValidate, BeginRevert, BeginBill, Open
  <2>2. req' \in [Clients -> Requests \cup Runs]
    BY <1>4, <1>7, <2>1
  <2>3. UNCHANGED <<status, billed, linked>>
    BY <1>7 DEF BeginValidate, BeginRevert, BeginBill
  <2> QED BY <2>2, <2>3 DEF TypeOK, RowsTypeOK
<1>8. ASSUME NEW c \in Clients, CheckLiquids(c) \/ Validate(c) \/ Revert(c) \/ Thaw(c)
      PROVE  Kept
  <2>1. req[c].flight \in Flights
    BY <1>1, <1>8 DEF CheckLiquids, Validate, Revert, Thaw, Asks, Requests, Runs, Nothing,
       Uncommitted
  <2>2. CASE CheckLiquids(c) \/ Revert(c)
    <3>1. \E r \in Requests : req' = [req EXCEPT ![c] = r]
      <4>1. /\ Nothing \in Requests /\ [kind |-> "finalise", flight |-> req[c].flight] \in Requests
            /\ [kind |-> "thaw", flight |-> req[c].flight, since |-> {}] \in Requests
        BY <2>1, RequestTypes DEF Uncommitted
      <4> QED BY <2>2, <4>1 DEF CheckLiquids, Revert, Open, Done, Wait
    <3>2. req' \in [Clients -> Requests \cup Runs] /\ UNCHANGED <<status, billed, linked>>
      BY <1>4, <1>8, <2>2, <3>1 DEF CheckLiquids, Revert
    <3> QED BY <3>2 DEF TypeOK, RowsTypeOK
  <2>3. CASE Validate(c)
    <3>1. [req EXCEPT ![c] = Nothing] \in [Clients -> Requests \cup Runs]
      BY <1>8, <1>10 DEF TypeOK
    <3>2. req' \in [Clients -> Requests \cup Runs]
      BY <2>3, <3>1, NotedTypes DEF Validate
    <3> QED BY <2>1, <2>3, <3>2 DEF Validate, TypeOK, RowsTypeOK, Statuses, FrozenStatus,
       LogStatus
  <2>4. CASE Thaw(c)
    <3>1. req' \in [Clients -> Requests \cup Runs]
      BY <1>4, <1>8, <1>10, <2>4 DEF Thaw, Done
    <3> QED BY <2>1, <2>4, <3>1 DEF Thaw, TypeOK, RowsTypeOK, Statuses, LogStatus
  <2> QED BY <1>8, <2>2, <2>3, <2>4
<1>9. ASSUME NEW c \in Clients, Bill(c)
      PROVE  Kept
  <2>1. req[c].flight \in Flights /\ req[c].member \in Members
    BY <1>1, <1>9 DEF Bill, Asks, Requests, Runs, Nothing, Uncommitted
  <2>2. req' \in [Clients -> Requests \cup Runs]
    BY <1>4, <1>9, <1>10 DEF Bill, Done
  <2>3. billed' \in [Flights -> Members] /\ UNCHANGED <<status, linked>>
    BY <1>9, <2>1 DEF Bill, TypeOK, RowsTypeOK
  <2> QED BY <2>2, <2>3 DEF TypeOK, RowsTypeOK
<1> QED BY <1>5, <1>6, <1>7, <1>8, <1>9 DEF LogNext, AnyClient, AdminOnly, Clients

-----------------------------------------------------------------------------
(* Every step preserves the invariant.                                     *)

\* The log keeps the invariant.
LEMMA LogStep ==
  ASSUME Inv, LogNext, UNCHANGED <<outboxVars, billVars>> PROVE Inv'
<1>1. UNCHANGED <<open, settled, filed, payload, payee, invoiceNo, paid>>
  BY DEF outboxVars, billVars
<1>2. TypeOK' /\ \A f \in Flights : status'[f] = status[f] \/ status'[f] \in LogStatus
  BY LogFacts DEF Inv
<1>3. Books'
  BY <1>1 DEF Inv, Books
<1>4. NoFlightStranded' /\ InvoiceOnRecord' /\ PaidWithInvoice'
  BY <1>1, <1>2 DEF Inv, NoFlightStranded, InvoiceOnRecord, PaidWithInvoice, LogStatus
<1> QED BY <1>2, <1>3, <1>4 DEF Inv

\* A billing run that begins or ends keeps it.
LEMMA RequestStep ==
  ASSUME Inv, NEW c \in Admins,
         (\E last \in Flights : BeginRun(c, last)) \/ EndRun(c)
  PROVE  Inv'
<1>1. UNCHANGED <<status, billed, linked, open, settled, filed, payload, payee, invoiceNo, paid>>
  BY DEF BeginRun, EndRun, outboxVars, billVars
<1>2. req' \in [Clients -> Requests \cup Runs]
  BY DEF BeginRun, EndRun, Done, Requests, Runs, Inv, TypeOK, Clients
<1> QED BY <1>1, <1>2 DEF Inv, TypeOK, RowsTypeOK, Outbox!TypeOK, Books, NoFlightStranded,
           InvoiceOnRecord, PaidWithInvoice

\* A message with its flights, in one transaction, keeps it.
LEMMA EnqueueStep ==
  ASSUME Inv, NEW c \in Admins, NEW m \in Members, InvoiceFlights(c, m)
  PROVE  Inv'
<1> DEFINE due == req[c].rest[m]
<1>1. PICK n \in Msgs : /\ Outbox!Request(n)
                        /\ payload' = [payload EXCEPT ![n] = due]
                        /\ payee' = [payee EXCEPT ![n] = m]
  BY DEF InvoiceFlights
<1>2. /\ n \notin open /\ n \notin settled
      /\ open' = open \cup {n} /\ settled' = settled /\ filed' = filed
  BY <1>1 DEF Outbox!Request, Outbox!Unrequested
<1>3. /\ status' = [f \in Flights |-> IF f \in due /\ Present(f) THEN "QUEUED" ELSE status[f]]
      /\ req' = Noted([req EXCEPT ![c].rest[m] = {}])
      /\ UNCHANGED <<billed, linked, invoiceNo, paid>>
  BY DEF InvoiceFlights
<1>4. req[c] \in Runs /\ due \subseteq Flights
  <2>1. c \in Clients /\ req[c] \in Requests \cup Runs
    BY DEF Inv, TypeOK, Clients
  <2>2. req[c] \in Runs
    BY <2>1 DEF InvoiceFlights, Asks, Requests, Nothing, Runs, Uncommitted
  <2> QED BY <2>2 DEF Runs
<1>5. TypeOK'
  <2>1. req' \in [Clients -> Requests \cup Runs]
    <3>1. [req EXCEPT ![c].rest[m] = {}] \in [Clients -> Requests \cup Runs]
      BY <1>4 DEF Inv, TypeOK, Runs
    <3> QED BY <1>3, <3>1, NotedTypes
  <2>2. RowsTypeOK'
    BY <1>3 DEF Inv, TypeOK, RowsTypeOK, Statuses, FrozenStatus
  <2>3. payload' \in [Msgs -> SUBSET Flights] /\ payee' \in [Msgs -> Members]
    BY <1>1, <1>4 DEF Inv, TypeOK
  <2> QED BY <1>2, <1>3, <2>1, <2>2, <2>3 DEF Inv, TypeOK, Outbox!TypeOK
<1>6. Books'
  BY <1>2, <1>3 DEF Inv, Books
<1>7. \A k \in Msgs : k # n => payload'[k] = payload[k]
  BY <1>1 DEF Inv, TypeOK
<1>8. payload'[n] = due
  BY <1>1 DEF Inv, TypeOK
<1>9. NoFlightStranded'
  <2> SUFFICES ASSUME NEW f \in Flights, status'[f] = "QUEUED"
               PROVE  \E k \in open' : f \in payload'[k]
    BY DEF NoFlightStranded
  <2>1. CASE f \in due
    BY <1>2, <1>8, <2>1
  <2>2. CASE f \notin due
    <3>1. status[f] = "QUEUED"
      BY <1>3, <2>2
    <3>2. PICK k \in open : f \in payload[k]
      BY <3>1 DEF Inv, NoFlightStranded
    <3>3. k \in Msgs /\ k # n
      BY <1>2 DEF Inv, TypeOK, Outbox!TypeOK
    <3> QED BY <1>2, <1>7, <3>2, <3>3
  <2> QED BY <2>1, <2>2
<1>10. InvoiceOnRecord' /\ PaidWithInvoice'
  <2> SUFFICES ASSUME NEW f \in Flights, status'[f] \in {"INVOICED", "PAID"}
               PROVE  /\ invoiceNo'[f] \in settled'
                      /\ filed'[invoiceNo'[f]] # {}
                      /\ f \in payload'[invoiceNo'[f]]
                      /\ status'[f] = "PAID" => invoiceNo'[f] \in paid'
                      /\ status'[f] = "INVOICED" => invoiceNo'[f] \notin paid'
    BY DEF InvoiceOnRecord, PaidWithInvoice
  <2>1. status'[f] = status[f]
    BY <1>3
  <2>2. /\ invoiceNo[f] \in settled /\ filed[invoiceNo[f]] # {} /\ f \in payload[invoiceNo[f]]
        /\ status[f] = "PAID" => invoiceNo[f] \in paid
        /\ status[f] = "INVOICED" => invoiceNo[f] \notin paid
    BY <2>1 DEF Inv, InvoiceOnRecord, PaidWithInvoice
  <2>3. invoiceNo[f] \in Msgs /\ invoiceNo[f] # n
    BY <1>2, <2>2 DEF Inv, TypeOK, Outbox!TypeOK
  <2> QED BY <1>2, <1>3, <1>7, <2>1, <2>2, <2>3
<1> QED BY <1>5, <1>6, <1>9, <1>10 DEF Inv

\* The outbox handler, which files the invoice with its flights, keeps it.
LEMMA InvoiceStep ==
  ASSUME Inv, NEW n \in Msgs, Invoice(n) PROVE Inv'
<1> DEFINE due == {f \in payload[n] : Present(f)}
<1>1. /\ filed' = [filed EXCEPT ![n] = {1}]
      /\ status' = [f \in Flights |-> IF f \in due THEN "INVOICED" ELSE status[f]]
      /\ invoiceNo' = [f \in Flights |-> IF f \in due THEN n ELSE invoiceNo[f]]
      /\ UNCHANGED <<billed, linked, payload, payee, paid>>
      /\ req' = Noted(req)
  BY DEF Invoice
<1>2. n \in open /\ open' = open \ {n} /\ settled' = settled \cup {n}
  BY DEF Invoice, Outbox!File, Outbox!Unrequested
<1>3. TypeOK'
  <2>1. req' \in [Clients -> Requests \cup Runs]
    BY <1>1, NotedTypes DEF Inv, TypeOK
  <2> QED BY <1>1, <1>2, <2>1 DEF Inv, TypeOK, RowsTypeOK, Outbox!TypeOK, Statuses, FrozenStatus
<1>4. n \notin paid /\ filed'[n] # {}
  BY <1>1, <1>2 DEF Inv, Books, TypeOK, Outbox!TypeOK
<1>5. Books'
  BY <1>1, <1>2 DEF Inv, Books
<1>6. NoFlightStranded'
  <2> SUFFICES ASSUME NEW f \in Flights, status'[f] = "QUEUED"
               PROVE  \E k \in open' : f \in payload[k]
    BY <1>1 DEF NoFlightStranded
  <2>1. status[f] = "QUEUED" /\ f \notin due
    BY <1>1
  <2>2. PICK k \in open : f \in payload[k]
    BY <2>1 DEF Inv, NoFlightStranded
  <2>3. k # n
    BY <2>1, <2>2 DEF Present
  <2> QED BY <1>2, <2>2, <2>3
<1>7. InvoiceOnRecord' /\ PaidWithInvoice'
  <2> SUFFICES ASSUME NEW f \in Flights, status'[f] \in {"INVOICED", "PAID"}
               PROVE  /\ invoiceNo'[f] \in settled'
                      /\ filed'[invoiceNo'[f]] # {}
                      /\ f \in payload'[invoiceNo'[f]]
                      /\ status'[f] = "PAID" => invoiceNo'[f] \in paid'
                      /\ status'[f] = "INVOICED" => invoiceNo'[f] \notin paid'
    BY DEF InvoiceOnRecord, PaidWithInvoice
  <2>1. CASE f \in due
    BY <1>1, <1>2, <1>4, <2>1
  <2>2. CASE f \notin due
    <3>1. status'[f] = status[f] /\ invoiceNo'[f] = invoiceNo[f]
      BY <1>1, <2>2
    <3>2. /\ invoiceNo[f] \in settled /\ filed[invoiceNo[f]] # {} /\ f \in payload[invoiceNo[f]]
          /\ status[f] = "PAID" => invoiceNo[f] \in paid
          /\ status[f] = "INVOICED" => invoiceNo[f] \notin paid
      BY <3>1 DEF Inv, InvoiceOnRecord, PaidWithInvoice
    <3>3. invoiceNo[f] # n
      BY <1>2, <3>2 DEF Inv, Books
    <3>4. filed'[invoiceNo[f]] = filed[invoiceNo[f]]
      BY <1>1, <3>2, <3>3 DEF Inv, TypeOK, Outbox!TypeOK
    <3> QED BY <1>1, <1>2, <3>1, <3>2, <3>4
  <2> QED BY <2>1, <2>2
<1> QED BY <1>3, <1>5, <1>6, <1>7 DEF Inv

\* The payment sync, which pays the invoice with its flights, keeps it.
LEMMA PaidStep ==
  ASSUME Inv, NEW n \in Msgs, MarkPaid(n) PROVE Inv'
<1>1. /\ n \in settled /\ paid' = paid \cup {n}
      /\ status' = [f \in Flights |->
                      IF invoiceNo[f] = n /\ status[f] = "INVOICED" THEN "PAID" ELSE status[f]]
      /\ UNCHANGED <<billed, linked, req, open, settled, filed, payload, payee, invoiceNo>>
  BY DEF MarkPaid, outboxVars
<1>2. TypeOK'
  BY <1>1 DEF Inv, TypeOK, RowsTypeOK, Outbox!TypeOK, Statuses, FrozenStatus
<1>3. Books'
  BY <1>1 DEF Inv, Books
<1>4. NoFlightStranded' /\ InvoiceOnRecord' /\ PaidWithInvoice'
  BY <1>1 DEF Inv, NoFlightStranded, InvoiceOnRecord, PaidWithInvoice
<1> QED BY <1>2, <1>3, <1>4 DEF Inv

\* Every step keeps the invariant.
LEMMA NextInv == Inv /\ [Next]_vars => Inv'
<1> SUFFICES ASSUME Inv, [Next]_vars PROVE Inv'
  OBVIOUS
<1>1. CASE LogNext /\ UNCHANGED <<outboxVars, billVars>>
  BY <1>1, LogStep
<1>2. ASSUME NEW c \in Admins, (\E last \in Flights : BeginRun(c, last)) \/ EndRun(c)
      PROVE  Inv'
  BY <1>2, RequestStep
<1>3. ASSUME NEW c \in Admins, NEW m \in Members, InvoiceFlights(c, m)
      PROVE  Inv'
  BY <1>3, EnqueueStep
<1>4. ASSUME NEW n \in Msgs, Invoice(n) \/ MarkPaid(n)
      PROVE  Inv'
  BY <1>4, InvoiceStep, PaidStep
<1>5. CASE Crash
  <2>1. UNCHANGED <<status, billed, linked, open, settled, filed, payload, payee, invoiceNo, paid>>
    BY <1>5 DEF Crash, outboxVars, billVars
  <2>2. req' \in [Clients -> Requests \cup Runs]
    BY <1>5 DEF Crash, Requests
  <2> QED BY <2>1, <2>2 DEF Inv, TypeOK, RowsTypeOK, Outbox!TypeOK, Books, NoFlightStranded,
             InvoiceOnRecord, PaidWithInvoice
<1>6. CASE UNCHANGED vars
  BY <1>6 DEF vars, logVars, outboxVars, billVars, Inv, TypeOK, RowsTypeOK, Outbox!TypeOK,
     Books, NoFlightStranded, InvoiceOnRecord, PaidWithInvoice
<1> QED BY <1>1, <1>2, <1>3, <1>4, <1>5, <1>6 DEF Next

\* The inductive invariant holds of every reachable state.
THEOREM InvHolds == Spec => []Inv
<1> QED BY InitInv, NextInv, PTL DEF Spec

\* Every variable of the composed model keeps its type.
THEOREM TypeCorrect == Spec => []TypeOK
<1>1. Inv => TypeOK
  BY DEF Inv
<1> QED BY InvHolds, <1>1, PTL

\* A flight that waits for its invoice is listed by an open message, whatever crashed and
\* whoever wrote over whom.
THEOREM NoneStranded == Spec => []NoFlightStranded
<1>1. Inv => NoFlightStranded
  BY DEF Inv
<1> QED BY InvHolds, <1>1, PTL

\* An invoiced flight carries the number of an invoice on record that lists it.
THEOREM OnRecord == Spec => []InvoiceOnRecord
<1>1. Inv => InvoiceOnRecord
  BY DEF Inv
<1> QED BY InvHolds, <1>1, PTL

\* Flights are paid with their invoice, and only with it.
THEOREM PaidTogether == Spec => []PaidWithInvoice
<1>1. Inv => PaidWithInvoice
  BY DEF Inv
<1> QED BY InvHolds, <1>1, PTL

-----------------------------------------------------------------------------
(* The trigger's window: a statement that waits for its commit has noted   *)
(* every later flight that is frozen.                                      *)

Seen ==
    \A c \in Clients : Waits(c) =>
        \A g \in Flights : g > req[c].flight /\ Frozen(g) => g \in req[c].since

\* A step that freezes flights has it noted by every statement that waits.
LEMMA NotedSeen ==
  ASSUME Inv, Seen, NEW r \in [Clients -> Requests \cup Runs],
         \A c \in Clients : r[c].kind \in Uncommitted => req[c] = r[c],
         req' = Noted(r)
  PROVE  Seen'
<1> SUFFICES ASSUME NEW c \in Clients, Waits(c)',
                    NEW g \in Flights, g > req'[c].flight, Frozen(g)'
             PROVE  g \in req'[c].since
  BY DEF Seen
<1> DEFINE later == {h \in Flights : h > r[c].flight /\ ~Frozen(h) /\ status'[h] \in FrozenStatus}
<1>1. r[c].kind \in Uncommitted
  BY DEF Waits, Noted
<1>2. r[c] \in [kind : Uncommitted, flight : Flights, since : SUBSET Flights]
  BY <1>1 DEF Requests, Runs, Nothing, Uncommitted
<1>3. req'[c] = [r[c] EXCEPT !.since = r[c].since \cup later]
  BY <1>1 DEF Noted
<1>4. req'[c].flight = r[c].flight /\ req'[c].since = r[c].since \cup later
  BY <1>2, <1>3
<1>5. status'[g] \in FrozenStatus
  BY DEF Frozen
<1>6. CASE Frozen(g)
  <2>1. Waits(c) /\ req[c] = r[c]
    BY <1>1 DEF Waits
  <2> QED BY <1>4, <1>6, <2>1 DEF Seen
<1>7. CASE ~Frozen(g)
  BY <1>4, <1>5, <1>7
<1> QED BY <1>6, <1>7

\* So does one that freezes none and leaves those that wait alone.
LEMMA QuietSeen ==
  ASSUME Seen,
         \A c \in Clients : req'[c].kind \in Uncommitted => req'[c] = req[c],
         \A g \in Flights : status'[g] \in FrozenStatus => status[g] \in FrozenStatus
  PROVE  Seen'
BY DEF Seen, Waits, Frozen

\* And one that starts to wait: the trigger has just found no later flight frozen.
LEMMA WaitSeen ==
  ASSUME Inv, Seen, NEW c \in Clients, NEW f \in Flights, NEW k \in Uncommitted,
         ~ProtectedPeriod(f), Wait(c, k, f), status' = status
  PROVE  Seen'
BY DEF Inv, TypeOK, Seen, Waits, Wait, Frozen, ProtectedPeriod

\* A member's step keeps it.
LEMMA ClientSeen ==
  ASSUME Inv, Seen, NEW c \in Clients, AnyClient(c)
  PROVE  Seen'
<1>1. ASSUME NEW f \in Flights, Insert(c, f) PROVE Seen'
  BY <1>1, WaitSeen DEF Insert, Uncommitted
<1>2. ASSUME ~\E f \in Flights : Insert(c, f) PROVE Seen'
  <2>1. \A d \in Clients : req'[d].kind \in Uncommitted => req'[d] = req[d]
    BY <1>2 DEF AnyClient, Enter, BeginDelete, BeginLink, Delete, Link, Unlink, Open, Done,
       Nothing, Uncommitted, Inv, TypeOK
  <2>2. \A g \in Flights : status'[g] \in FrozenStatus => status[g] \in FrozenStatus
    BY <1>2 DEF AnyClient, Enter, BeginDelete, BeginLink, Delete, Link, Unlink, FrozenStatus,
       Inv, TypeOK, RowsTypeOK
  <2> QED BY <2>1, <2>2, QuietSeen
<1> QED BY <1>1, <1>2

\* An admin's step keeps it.
LEMMA AdminSeen ==
  ASSUME Inv, Seen, NEW c \in Admins, AdminOnly(c)
  PROVE  Seen'
<1>1. c \in Clients /\ req \in [Clients -> Requests \cup Runs]
  BY DEF Clients, Inv, TypeOK
<1>2. CASE Validate(c)
  <2>1. [req EXCEPT ![c] = Nothing] \in [Clients -> Requests \cup Runs]
    BY <1>1, RequestTypes
  <2>2. \A d \in Clients : [req EXCEPT ![c] = Nothing][d].kind \in Uncommitted =>
            req[d] = [req EXCEPT ![c] = Nothing][d]
    BY <1>1 DEF Nothing, Uncommitted
  <2> QED BY <1>2, <2>1, <2>2, NotedSeen DEF Validate
<1>3. CASE Revert(c) /\ Wait(c, "thaw", req[c].flight)
  <2>1. req[c].flight \in Flights
    BY <1>1, <1>3 DEF Revert, Asks, Requests, Runs, Nothing, Uncommitted
  <2>2. ~ProtectedPeriod(req[c].flight) /\ status' = status
    BY <1>1, <1>3 DEF Revert, Wait, Done, Nothing
  <2> QED BY <1>1, <1>3, <2>1, <2>2, WaitSeen DEF Uncommitted
<1>4. CASE ~Validate(c) /\ ~(Revert(c) /\ Wait(c, "thaw", req[c].flight))
  <2>1. \A d \in Clients : req'[d].kind \in Uncommitted => req'[d] = req[d]
    BY <1>1, <1>4 DEF AdminOnly, BeginValidate, BeginRevert, BeginBill, CheckLiquids, Revert,
       Thaw, Bill, Open, Done, Nothing, Uncommitted
  <2>2. \A g \in Flights : status'[g] \in FrozenStatus => status[g] \in FrozenStatus
    BY <1>4 DEF AdminOnly, BeginValidate, BeginRevert, BeginBill, CheckLiquids, Revert, Thaw,
       Bill, FrozenStatus, Inv, TypeOK, RowsTypeOK
  <2> QED BY <2>1, <2>2, QuietSeen
<1> QED BY <1>2, <1>3, <1>4

\* Every step keeps it.
LEMMA SeenStep == Inv /\ Seen /\ [Next]_vars => Seen'
<1> SUFFICES ASSUME Inv, Seen, [Next]_vars PROVE Seen'
  OBVIOUS
<1>1. req \in [Clients -> Requests \cup Runs]
  BY DEF Inv, TypeOK
<1>2. CASE LogNext
  BY <1>2, ClientSeen, AdminSeen DEF LogNext
<1>3. ASSUME NEW c \in Admins, (\E last \in Flights : BeginRun(c, last)) \/ EndRun(c)
      PROVE  Seen'
  <2>1. \A d \in Clients : req'[d].kind \in Uncommitted => req'[d] = req[d]
    BY <1>1, <1>3 DEF BeginRun, EndRun, Done, Nothing, Uncommitted
  <2> QED BY <1>3, <2>1, QuietSeen DEF BeginRun, EndRun
<1>4. ASSUME NEW c \in Admins, NEW m \in Members, InvoiceFlights(c, m)
      PROVE  Seen'
  <2>1. c \in Clients /\ req[c] \in Runs
    BY <1>1, <1>4 DEF Clients, InvoiceFlights, Asks, Requests, Nothing, Runs, Uncommitted
  <2>2. [req EXCEPT ![c].rest[m] = {}] \in [Clients -> Requests \cup Runs]
    BY <1>1, <2>1 DEF Runs
  <2>3. \A d \in Clients : [req EXCEPT ![c].rest[m] = {}][d].kind \in Uncommitted =>
            req[d] = [req EXCEPT ![c].rest[m] = {}][d]
    BY <1>1, <2>1 DEF Runs, Uncommitted
  <2> QED BY <1>4, <2>2, <2>3, NotedSeen DEF InvoiceFlights
<1>5. ASSUME NEW n \in Msgs, Invoice(n)
      PROVE  Seen'
  BY <1>1, <1>5, NotedSeen DEF Invoice
<1>6. ASSUME NEW n \in Msgs, MarkPaid(n)
      PROVE  Seen'
  <2>1. \A g \in Flights : status'[g] \in FrozenStatus => status[g] \in FrozenStatus
    BY <1>6 DEF MarkPaid, FrozenStatus
  <2> QED BY <1>6, <2>1, QuietSeen DEF MarkPaid
<1>7. CASE Crash
  <2>1. status' = status /\ \A d \in Clients : req'[d].kind \notin Uncommitted
    BY <1>7 DEF Crash, Nothing, Uncommitted
  <2> QED BY <2>1, QuietSeen
<1>8. CASE UNCHANGED vars
  BY <1>8, QuietSeen DEF vars, logVars
<1> QED BY <1>2, <1>3, <1>4, <1>5, <1>6, <1>7, <1>8 DEF Next

\* The part of an action that NewAtTheEnd speaks of.
TurnsNewAtTheEnd ==
    \A f \in Flights : status[f] # "NEW" /\ status'[f] = "NEW" =>
        \E c \in Clients :
            /\ Waits(c) /\ req[c].flight = f
            /\ \A g \in Flights : g > f /\ status'[g] \in FrozenStatus => g \in req[c].since

\* Only a commit makes a flight NEW, and what it finds frozen later on it had noted.
LEMMA TurnsNewStep == Inv /\ Seen /\ [Next]_vars => TurnsNewAtTheEnd \/ UNCHANGED logVars
<1> SUFFICES ASSUME Inv, Seen, [Next]_vars,
                    NEW f \in Flights, status[f] # "NEW", status'[f] = "NEW"
             PROVE  \E c \in Clients :
                      /\ Waits(c) /\ req[c].flight = f
                      /\ \A g \in Flights : g > f /\ status'[g] \in FrozenStatus => g \in req[c].since
  BY DEF TurnsNewAtTheEnd
<1>1. StatusTyped
  BY DEF Inv, TypeOK, RowsTypeOK, StatusTyped
<1>2. LogNext
  BY DEF Next, BeginRun, EndRun, InvoiceFlights, Invoice, MarkPaid, Crash, vars, logVars
<1>3. PICK c \in Clients : (Enter(c) \/ Thaw(c)) /\ req[c].flight = f
  BY <1>1, <1>2, ClientStep, AdminStep DEF LogNext, Clients
<1>4. Waits(c) /\ status' = [status EXCEPT ![f] = "NEW"]
  BY <1>3 DEF Enter, Thaw, Asks, Waits, Uncommitted
<1>5. ASSUME NEW g \in Flights, g > f, status'[g] \in FrozenStatus PROVE g \in req[c].since
  <2>1. Frozen(g)
    BY <1>1, <1>4, <1>5 DEF StatusTyped, Frozen, FrozenStatus
  <2> QED BY <1>3, <1>4, <1>5, <2>1 DEF Seen
<1> QED BY <1>3, <1>4, <1>5

\* A flight turns NEW only behind every frozen one, but for those frozen while its statement
\* waited for its commit: with any number of clients, billing runs and invoices at once.
THEOREM TurnsNewOnlyAtTheEnd == Spec => NewAtTheEnd
<1>1. Init => Seen
  BY DEF Init, LogInit, Seen, Waits, Nothing, Uncommitted
<1>2. Inv /\ Seen /\ [Next]_vars => [TurnsNewAtTheEnd]_logVars
  BY TurnsNewStep
<1> QED BY <1>1, <1>2, InitInv, NextInv, SeenStep, PTL DEF Spec, NewAtTheEnd, TurnsNewAtTheEnd

=============================================================================
