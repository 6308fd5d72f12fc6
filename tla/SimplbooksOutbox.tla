-------------------------- MODULE SimplbooksOutbox ---------------------------
(***************************************************************************)
(* The outbox between the club's database and the SimplBooks accounting    *)
(* service: the table accts.outbox_simplbooks, the worker that drains it   *)
(* (workers/simplbooksOutboxWorker.ts), the skeleton every handler of      *)
(* services/simplbooks/simplbooksOutboxHandler.ts shares, and the admin's  *)
(* retry (routes/outbox/api.ts).                                           *)
(*                                                                         *)
(* A handler awaits SimplBooks between its database transactions, so a     *)
(* worker is a small state machine and everything else may happen between  *)
(* its steps.  What a rollback cannot undo is kept apart from what it can: *)
(* created, emailed and markedSent are effects at SimplBooks and in the    *)
(* member's mailbox, the other variables are the database.                 *)
(***************************************************************************)
EXTENDS Integers, FiniteSets

CONSTANTS
    Ids,            \* outbox rows, in created_at_utc order
    Workers,        \* backend processes running the worker; instance_count is 1
    Requested,      \* event types the rest of the system enqueues in this instance
    MaxRequests,    \* bound on messages enqueued by request handlers
    MaxCrashes,     \* bound on process deaths
    MaxRetries,     \* bound on admin retries
    MaxLost         \* bound on failures the worker could not write down

ASSUME IdsAssumption == Ids \subseteq Nat \ {0}
ASSUME BoundsAssumption ==
    MaxRequests \in Nat /\ MaxCrashes \in Nat /\ MaxRetries \in Nat /\ MaxLost \in Nat

VARIABLES
    status,         \* row -> its status, "ABSENT" before it is inserted
    type,           \* row -> its event type
    cause,          \* row -> the row whose handler inserted it, 0 if none did
    docref,         \* row -> for SEND_INVOICE_PDF, which invoice of cause it is for
    local,          \* row -> numbers of its documents recorded in the database
    sentAt,         \* <<row, document>> of invoices whose sent_at is set
    created,        \* row -> how many documents SimplBooks holds for it
    emailed,        \* SEND_INVOICE_PDF rows whose e-mail has left at least once
    markedSent,     \* <<row, document>> marked as sent in SimplBooks
    pc,             \* worker -> where its loop stands
    cur,            \* worker -> the row it dispatches, 0 if none
    doc,            \* worker -> the document its dispatch created, 0 if none
    sweeping,       \* workers whose start-up sweep has not reached the database
    crashes, retries, lost

tableVars == <<status, type, cause, docref>>
ledgerVars == <<local, sentAt>>
outsideVars == <<created, emailed, markedSent>>
workerVars == <<pc, cur, doc, sweeping>>
budgetVars == <<crashes, retries, lost>>
vars == <<tableVars, ledgerVars, outsideVars, workerVars, budgetVars>>

-----------------------------------------------------------------------------
(* The event types, grouped by what their handlers do.                     *)

Invoicing == {"NEW_MEMBER_FEES", "ANNUAL_MEMBERSHIP_FEE", "EQUIPMENT_INVOICE",
              "FLIGHT_INVOICE", "SHOP_ORDER_INVOICE", "CLUB_FUEL_RECOVERY"}
Pdf == "SEND_INVOICE_PDF"
EventTypes == Invoicing \cup {"ADD_MEMBER", "CREDIT_NOTE", "REIMBURSEMENT", Pdf}

\* Handlers that look for an earlier result of the same job before they start.
Guarded == {"NEW_MEMBER_FEES", "ANNUAL_MEMBERSHIP_FEE", "SHOP_ORDER_INVOICE"}

\* Handlers that write FAILED in a catch of their own and rethrow.
OwnCatch == {"CREDIT_NOTE", "REIMBURSEMENT", "CLUB_FUEL_RECOVERY"}

\* The types a request handler may enqueue: the other two are only inserted by handlers.
ASSUME RequestedAssumption == Requested \subseteq EventTypes \ {Pdf, "NEW_MEMBER_FEES"}

HasFollowUp(t) == t \in Invoicing \cup {"ADD_MEMBER"}
FollowUp(t) == IF t = "ADD_MEMBER" THEN "NEW_MEMBER_FEES" ELSE Pdf

\* Handlers that leave a SimplBooks number in the database: an invoice row, a billing
\* id, an expense's purchase id.  A credit note leaves none.
Recording == Invoicing \cup {"ADD_MEMBER", "REIMBURSEMENT"}

\* Fee handlers insert a member.annual_fees row, whose primary key admits one.
FeeTypes == {"NEW_MEMBER_FEES", "ANNUAL_MEMBERSHIP_FEE", "EQUIPMENT_INVOICE"}

Statuses == {"PENDING", "PROCESSING", "SYNCED", "SKIPPED", "FAILED"}
PCs == {"down", "idle", "claimed", "cleared", "created", "emailed", "marked", "failing"}

Present(i) == status[i] # "ABSENT"

\* The next row id: rows are inserted in created_at order.
NextId(i) == \A j \in Ids : Present(j) <=> j < i

\* An e-mail transaction updates its own outbox row first and keeps it locked
\* until it ends, so another session's UPDATE of that row waits for it.
InEmailTxn(w) == pc[w] \in {"emailed", "marked"}
LockedByOther(w, i) == \E v \in Workers : v # w /\ InEmailTxn(v) /\ cur[v] = i
Locked(i) == \E v \in Workers : InEmailTxn(v) /\ cur[v] = i

TypeOK ==
    /\ status \in [Ids -> Statuses \cup {"ABSENT"}]
    /\ type \in [Ids -> EventTypes]
    /\ cause \in [Ids -> Ids \cup {0}]
    /\ docref \in [Ids -> Nat]
    /\ local \in [Ids -> SUBSET Nat]
    /\ sentAt \subseteq Ids \X Nat
    /\ created \in [Ids -> Nat]
    /\ emailed \subseteq Ids
    /\ markedSent \subseteq Ids \X Nat
    /\ pc \in [Workers -> PCs]
    /\ cur \in [Workers -> Ids \cup {0}]
    /\ doc \in [Workers -> Nat]
    /\ sweeping \subseteq Workers
    /\ crashes \in 0 .. MaxCrashes
    /\ retries \in 0 .. MaxRetries
    /\ lost \in 0 .. MaxLost

Init ==
    /\ status = [i \in Ids |-> "ABSENT"]
    /\ type = [i \in Ids |-> Pdf]
    /\ cause = [i \in Ids |-> 0]
    /\ docref = [i \in Ids |-> 0]
    /\ local = [i \in Ids |-> {}]
    /\ sentAt = {}
    /\ created = [i \in Ids |-> 0]
    /\ emailed = {}
    /\ markedSent = {}
    /\ pc = [w \in Workers |-> "down"]
    /\ cur = [w \in Workers |-> 0]
    /\ doc = [w \in Workers |-> 0]
    /\ sweeping = {}
    /\ crashes = 0
    /\ retries = 0
    /\ lost = 0

-----------------------------------------------------------------------------
(* Writers of the table other than the worker.                             *)

\* A request handler inserts a message, in the transaction of its own business write.
Enqueue(t) ==
    \E i \in Ids :
        /\ NextId(i)
        /\ Cardinality({j \in Ids : Present(j) /\ cause[j] = 0}) < MaxRequests
        /\ status' = [status EXCEPT ![i] = "PENDING"]
        /\ type' = [type EXCEPT ![i] = t]
        /\ UNCHANGED <<cause, docref, ledgerVars, outsideVars, workerVars, budgetVars>>

\* Mutant of Retry: any row may be queued again.
Retry_AnyStatus(i) ==
    /\ Present(i)
    /\ ~Locked(i)
    /\ retries < MaxRetries
    /\ status' = [status EXCEPT ![i] = "PENDING"]
    /\ retries' = retries + 1
    /\ UNCHANGED <<type, cause, docref, ledgerVars, outsideVars, workerVars, crashes, lost>>

\* PATCH /outbox/:id/retry: a row that FAILED becomes PENDING again.
Retry(i) ==
    /\ status[i] = "FAILED"
    /\ ~Locked(i)
    /\ retries < MaxRetries
    /\ status' = [status EXCEPT ![i] = "PENDING"]
    /\ retries' = retries + 1
    /\ UNCHANGED <<type, cause, docref, ledgerVars, outsideVars, workerVars, crashes, lost>>

-----------------------------------------------------------------------------
(* The worker's life: start, sweep, claim, crash.                          *)

\* Mutant of Boot: no start-up sweep.
Boot_NoSweep(w) ==
    /\ pc[w] = "down"
    /\ pc' = [pc EXCEPT ![w] = "idle"]
    /\ UNCHANGED <<tableVars, ledgerVars, outsideVars, cur, doc, sweeping, budgetVars>>

\* The process starts; its sweep is issued but not awaited before the loop.
Boot(w) ==
    /\ pc[w] = "down"
    /\ pc' = [pc EXCEPT ![w] = "idle"]
    /\ sweeping' = sweeping \cup {w}
    /\ UNCHANGED <<tableVars, ledgerVars, outsideVars, cur, doc, budgetVars>>

\* checkAndClearStuckMessages: every PROCESSING row becomes PENDING, whoever holds it.
Sweep(w) ==
    /\ w \in sweeping
    /\ \A i \in Ids : status[i] = "PROCESSING" => ~Locked(i)
    /\ status' = [i \in Ids |-> IF status[i] = "PROCESSING" THEN "PENDING" ELSE status[i]]
    /\ sweeping' = sweeping \ {w}
    /\ UNCHANGED <<type, cause, docref, ledgerVars, outsideVars, pc, cur, doc, budgetVars>>

Claimable(i) == status[i] = "PENDING" /\ ~Locked(i)
OldestPending(i) == Claimable(i) /\ \A j \in Ids : j < i => ~Claimable(j)

\* The claiming transaction: the oldest PENDING row that no one has locked becomes
\* PROCESSING.
Claim(w) ==
    \E i \in Ids :
        /\ pc[w] = "idle"
        /\ OldestPending(i)
        /\ status' = [status EXCEPT ![i] = "PROCESSING"]
        /\ pc' = [pc EXCEPT ![w] = "claimed"]
        /\ cur' = [cur EXCEPT ![w] = i]
        /\ UNCHANGED <<type, cause, docref, ledgerVars, outsideVars, doc, sweeping, budgetVars>>

\* The process dies; an open transaction is rolled back, SimplBooks keeps what it has.
Crash(w) ==
    /\ pc[w] # "down"
    /\ crashes < MaxCrashes
    /\ crashes' = crashes + 1
    /\ pc' = [pc EXCEPT ![w] = "down"]
    /\ cur' = [cur EXCEPT ![w] = 0]
    /\ doc' = [doc EXCEPT ![w] = 0]
    /\ sweeping' = sweeping \ {w}
    /\ UNCHANGED <<tableVars, ledgerVars, outsideVars, retries, lost>>

-----------------------------------------------------------------------------
(* One dispatch.                                                           *)

GoIdle(w) ==
    /\ pc' = [pc EXCEPT ![w] = "idle"]
    /\ cur' = [cur EXCEPT ![w] = 0]
    /\ doc' = [doc EXCEPT ![w] = 0]

\* A guarded handler finds its job done by another message and settles the row.
Skip(w) ==
    LET i == cur[w] IN
    /\ pc[w] = "claimed"
    /\ type[i] \in Guarded
    /\ ~LockedByOther(w, i)
    /\ status' = [status EXCEPT ![i] = "SKIPPED"]
    /\ GoIdle(w)
    /\ UNCHANGED <<type, cause, docref, ledgerVars, outsideVars, sweeping, budgetVars>>

\* The handler has read what it needs and nothing stands against creating the document.
\* A guarded handler does not get here once the job has a recorded document.
Clear(w) ==
    LET i == cur[w] IN
    /\ pc[w] = "claimed"
    /\ type[i] # Pdf
    /\ type[i] \in Guarded => local[i] = {}
    /\ pc' = [pc EXCEPT ![w] = "cleared"]
    /\ UNCHANGED <<tableVars, ledgerVars, outsideVars, cur, doc, sweeping, budgetVars>>

\* The number SimplBooks answers with.  A client is looked up by e-mail first and
\* updated if it is there, every other call creates one document more.
NewDoc(i) == IF type[i] = "ADD_MEMBER" THEN 1 ELSE created[i] + 1
CreatedAfter(i) == [created EXCEPT ![i] = NewDoc(i)]

\* Mutant of Create: a dry run, which makes a number up.
Create_DryRun(w) ==
    LET i == cur[w] IN
    /\ pc[w] = "cleared"
    /\ doc' = [doc EXCEPT ![w] = NewDoc(i)]
    /\ pc' = [pc EXCEPT ![w] = "created"]
    /\ UNCHANGED <<tableVars, ledgerVars, outsideVars, cur, sweeping, budgetVars>>

\* SimplBooks creates the document and the handler learns its number.
Create(w) ==
    LET i == cur[w] IN
    /\ pc[w] = "cleared"
    /\ created' = CreatedAfter(i)
    /\ doc' = [doc EXCEPT ![w] = NewDoc(i)]
    /\ pc' = [pc EXCEPT ![w] = "created"]
    /\ UNCHANGED <<tableVars, ledgerVars, emailed, markedSent, cur, sweeping, budgetVars>>

\* SimplBooks creates the document but the call ends in an error, a time-out for one.
CreateUnheard(w) ==
    LET i == cur[w] IN
    /\ pc[w] = "cleared"
    /\ created' = CreatedAfter(i)
    /\ pc' = [pc EXCEPT ![w] = "failing"]
    /\ UNCHANGED <<tableVars, ledgerVars, emailed, markedSent, cur, doc, sweeping, budgetVars>>

\* Mutant of InsertFollowUp: the row is SYNCED and nothing is enqueued.
InsertFollowUp_Missing(i, k) ==
    /\ status' = [status EXCEPT ![i] = "SYNCED"]
    /\ UNCHANGED <<type, cause, docref>>

\* The follow-up message is inserted by the transaction that makes row i SYNCED.
InsertFollowUp(i, k) ==
    \E n \in Ids :
        /\ NextId(n)
        /\ status' = [status EXCEPT ![i] = "SYNCED", ![n] = "PENDING"]
        /\ type' = [type EXCEPT ![n] = FollowUp(type[i])]
        /\ cause' = [cause EXCEPT ![n] = i]
        /\ docref' = [docref EXCEPT ![n] = k]

\* The handler's transaction: the document is recorded, its follow-up message inserted
\* and the row SYNCED, all or nothing.
Record(w) ==
    LET i == cur[w]
        k == doc[w] IN
    /\ pc[w] = "created"
    /\ ~LockedByOther(w, i)
    /\ type[i] \in FeeTypes => local[i] = {}
    /\ local' = IF type[i] \in Recording THEN [local EXCEPT ![i] = @ \cup {k}] ELSE local
    /\ IF HasFollowUp(type[i])
       THEN InsertFollowUp(i, k)
       ELSE /\ status' = [status EXCEPT ![i] = "SYNCED"]
            /\ UNCHANGED <<type, cause, docref>>
    /\ GoIdle(w)
    /\ UNCHANGED <<sentAt, outsideVars, sweeping, budgetVars>>

Invoice(i) == <<cause[i], docref[i]>>

\* sendInvoiceEmail: its transaction sets the row SYNCED and the invoice's sent_at, one
\* invoice row must be there, and then the e-mail leaves while the transaction is open.
Email(w) ==
    LET i == cur[w] IN
    /\ pc[w] = "claimed"
    /\ type[i] = Pdf
    /\ docref[i] \in local[cause[i]]
    /\ ~LockedByOther(w, i)
    /\ emailed' = emailed \cup {i}
    /\ pc' = [pc EXCEPT ![w] = "emailed"]
    /\ UNCHANGED <<tableVars, ledgerVars, created, markedSent, cur, doc, sweeping, budgetVars>>

\* Mutant of MarkSent: an error of the call is swallowed.
MarkSent_Swallow(w, heard) ==
    LET i == cur[w] IN
    /\ pc[w] = "emailed"
    /\ markedSent' = IF heard THEN markedSent \cup {Invoice(i)} ELSE markedSent
    /\ pc' = [pc EXCEPT ![w] = "marked"]
    /\ UNCHANGED <<tableVars, ledgerVars, created, emailed, cur, doc, sweeping, budgetVars>>

\* SimplBooks is told that the invoice was sent; heard is FALSE when the call errs anyway.
MarkSent(w, heard) ==
    LET i == cur[w] IN
    /\ pc[w] = "emailed"
    /\ markedSent' = markedSent \cup {Invoice(i)}
    /\ pc' = [pc EXCEPT ![w] = IF heard THEN "marked" ELSE "failing"]
    /\ UNCHANGED <<tableVars, ledgerVars, created, emailed, cur, doc, sweeping, budgetVars>>

\* The e-mail transaction commits.
CommitSent(w) ==
    LET i == cur[w] IN
    /\ pc[w] = "marked"
    /\ status' = [status EXCEPT ![i] = "SYNCED"]
    /\ sentAt' = sentAt \cup {Invoice(i)}
    /\ GoIdle(w)
    /\ UNCHANGED <<type, cause, docref, local, outsideVars, sweeping, budgetVars>>

\* Any await of the handler throws: a validation, a read-back, an insert, a commit.
Throw(w) ==
    /\ pc[w] \in {"claimed", "cleared", "created", "emailed", "marked"}
    /\ pc' = [pc EXCEPT ![w] = "failing"]
    /\ UNCHANGED <<tableVars, ledgerVars, outsideVars, cur, doc, sweeping, budgetVars>>

\* The handler's own catch writes FAILED before it rethrows to the worker.
CatchOwn(w) ==
    LET i == cur[w] IN
    /\ pc[w] = "failing"
    /\ type[i] \in OwnCatch
    /\ ~LockedByOther(w, i)
    /\ status' = [status EXCEPT ![i] = "FAILED"]
    /\ UNCHANGED <<type, cause, docref, ledgerVars, outsideVars, workerVars, budgetVars>>

\* Mutant of Report: the failure is only logged.
Report_LogOnly(w) ==
    /\ pc[w] = "failing"
    /\ GoIdle(w)
    /\ UNCHANGED <<tableVars, ledgerVars, outsideVars, sweeping, budgetVars>>

\* The worker's catch writes FAILED on the row it dispatched, whatever its status.
Report(w) ==
    LET i == cur[w] IN
    /\ pc[w] = "failing"
    /\ ~LockedByOther(w, i)
    /\ status' = [status EXCEPT ![i] = "FAILED"]
    /\ GoIdle(w)
    /\ UNCHANGED <<type, cause, docref, ledgerVars, outsideVars, sweeping, budgetVars>>

\* The update to FAILED fails too; the outer catch backs off and the loop goes on.
LoseReport(w) ==
    /\ pc[w] = "failing"
    /\ lost < MaxLost
    /\ lost' = lost + 1
    /\ GoIdle(w)
    /\ UNCHANGED <<tableVars, ledgerVars, outsideVars, sweeping, crashes, retries>>

-----------------------------------------------------------------------------

Dispatch(w) ==
    \/ Skip(w)
    \/ Clear(w)
    \/ Create(w)
    \/ CreateUnheard(w)
    \/ Record(w)
    \/ Email(w)
    \/ \E heard \in BOOLEAN : MarkSent(w, heard)
    \/ CommitSent(w)
    \/ Throw(w)
    \/ Report(w)

Next ==
    \/ \E t \in Requested : Enqueue(t)
    \/ \E i \in Ids : Retry(i)
    \/ \E w \in Workers :
        \/ Boot(w)
        \/ Sweep(w)
        \/ Claim(w)
        \/ Dispatch(w)
        \/ CatchOwn(w)
        \/ LoseReport(w)
        \/ Crash(w)

Spec == Init /\ [][Next]_vars

\* The platform restarts a dead process, the event loop runs the start-up sweep and the
\* drain loop, and an axios call ends within its 30 s time-out one way or the other.
\* Nothing is promised of admins, of request handlers, or of faults.
Fairness ==
    \A w \in Workers :
        /\ WF_vars(Boot(w))
        /\ WF_vars(Sweep(w))
        /\ WF_vars(Claim(w))
        /\ WF_vars(Dispatch(w))

FairSpec == Spec /\ Fairness

-----------------------------------------------------------------------------
(* What must hold.                                                         *)

Settled == {"SYNCED", "SKIPPED"}

\* A message whose handler records a document has exactly one on record when it is SYNCED
\* and none before, whatever crashed or was retried on the way (one worker process).
RecordedOnce ==
    \A i \in Ids : type[i] \in Recording =>
        /\ status[i] = "SYNCED" <=> local[i] # {}
        /\ \A k, l \in local[i] : k = l

\* Every invoice on record has exactly one SEND_INVOICE_PDF message and every such
\* message is for an invoice on record: createInvoice's insert is atomic with its enqueue.
OneMailPerInvoice ==
    /\ \A i \in Ids : \A k \in local[i] : type[i] \in Invoicing =>
            \E p \in Ids :
                /\ Present(p) /\ Invoice(p) = <<i, k>>
                /\ \A q \in Ids : Present(q) /\ Invoice(q) = <<i, k>> => q = p
    /\ \A p \in Ids : Present(p) /\ type[p] = Pdf => docref[p] \in local[cause[p]]

\* Nothing is on record that SimplBooks does not hold: a rollback may leave a document
\* there that the database forgot, never the reverse.
RecordedInSimplbooks ==
    \A i \in Ids : \A k \in local[i] : k \in 1 .. created[i]

\* sent_at is set only on an invoice on record whose e-mail left and which SimplBooks
\* shows as sent, and a SYNCED e-mail message implies it.
SentIsReal ==
    /\ \A x \in sentAt :
        /\ x[2] \in local[x[1]]
        /\ x \in markedSent
        /\ \E p \in emailed : Invoice(p) = x
    /\ \A p \in Ids : status[p] = "SYNCED" /\ type[p] = Pdf => Invoice(p) \in sentAt

\* A PROCESSING row is being dispatched, or will be swept by a process that has still to
\* start or to sweep, or stands for a failure that could not be written down.
NoForgottenRow ==
    \A i \in Ids : status[i] = "PROCESSING" =>
        \/ \E w \in Workers : cur[w] = i \/ pc[w] = "down" \/ w \in sweeping
        \/ lost > 0

\* SYNCED and SKIPPED are final: no sweep, no retry and no failure of a later step takes
\* a settled message back into the queue (one worker process).
SettledIsFinal ==
    [][\A i \in Ids : status[i] \in Settled => status'[i] = status[i]]_vars

\* A message in the queue is settled or ends FAILED, where an admin sees it, unless a report
\* of the worker's on a failure is lost.
EveryMessageEnds ==
    \A i \in Ids :
        (status[i] = "PENDING" /\ lost = 0) ~> (status[i] \in Settled \cup {"FAILED"} \/ lost > 0)

-----------------------------------------------------------------------------
(* The worker keeps the outbox's promise (one worker process).              *)

Promise == INSTANCE OutboxPromise WITH
    open    <- {i \in Ids : status[i] \in {"PENDING", "PROCESSING", "FAILED"}},
    settled <- {i \in Ids : status[i] \in Settled},
    filed   <- local

KeepsPromise == Promise!Spec

=============================================================================
