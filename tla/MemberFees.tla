------------------------------ MODULE MemberFees ------------------------------
(***************************************************************************)
(* The fees of members: joining, annual and equipment.  Approval of a      *)
(* member (db/member-queries.ts), the treasurer's yearly run and the       *)
(* equipment fee a member asks for (services/accounting/                   *)
(* recurringFeesProcessor.ts) write outbox messages; their handlers        *)
(* (services/simplbooks/simplbooksOutboxHandler.ts) invoice them and keep  *)
(* member.annual_fees, whose primary key is member, fee and year.          *)
(*                                                                         *)
(* Composed with OutboxPromise: an open message is PENDING, PROCESSING or  *)
(* FAILED, and since a FAILED one may be retried at any time, any open     *)
(* message may be dispatched next.  There is one worker, so a handler's    *)
(* reads of member.annual_fees are not overtaken by another handler.       *)
(***************************************************************************)
EXTENDS Integers, FiniteSets

CONSTANTS
    Ids,            \* outbox messages, in created_at_utc order
    Members,        \* members whose type and standing the yearly run's query admits
    Renewing,       \* those of them who renew the equipment fee with the annual fee
    Clients,        \* people with a request open at the backend, one each
    Years,          \* calendar years
    MaxFaults,      \* bound on documents SimplBooks made and the handler lost
    MaxDocs         \* bound on SimplBooks documents for one fee of one member and year

ASSUME IdsAssumption == Ids \subseteq Nat \ {0}
ASSUME YearsAssumption == Years \subseteq Nat
ASSUME FeesAssumption == Renewing \subseteq Members /\ MaxFaults \in Nat /\ MaxDocs \in Nat

VARIABLES
    open, settled, filed,   \* the outbox, as OutboxPromise describes it
    msg,                    \* message -> its type, member, and what its payload knows
    approved,               \* members whose membership is approved
    billing,                \* members with a billing id
    process,                \* year -> accts.recurring_fees_processing row of the annual fee
    rows,                   \* member.annual_fees: <<member, fee, year>>
    charges,                \* message -> what its invoice on record charges
    made,                   \* <<member, fee, year>> -> documents at SimplBooks charging it
    req,                    \* client -> the request it has open
    year,                   \* the calendar year
    faults

outboxVars == <<open, settled, filed, msg>>
memberVars == <<approved, billing>>
feeVars == <<process, rows, charges, made>>
vars == <<outboxVars, memberVars, feeVars, req, year, faults>>

Outbox == INSTANCE OutboxPromise

-----------------------------------------------------------------------------

Fees == {"joining", "annual", "equipment"}
Kinds == {"ADD_MEMBER", "NEW_MEMBER_FEES", "ANNUAL_MEMBERSHIP_FEE", "EQUIPMENT_INVOICE"}
Charges == Members \X Fees \X Years

\* knows: the payload is a snapshot of the member, with or without a billing id.
\* run: the year whose run sent it, 0 if none did; the payload does not carry it.
Messages == [kind : Kinds, member : Members, knows : BOOLEAN, run : Years \cup {0}]
Unsent == [kind |-> "none"]

\* insertOutboxItem
Send(kind, m, knows, run) ==
    \E n \in Outbox!Unrequested :
        /\ \A k \in Outbox!Unrequested : n =< k
        /\ Outbox!Request(n)
        /\ msg' = [msg EXCEPT ![n] = [kind |-> kind, member |-> m, knows |-> knows, run |-> run]]

NoRequest == [kind |-> "none"]
Requests ==
    {NoRequest}
    \cup [kind : {"start", "list"}, year : Years]
    \cup [kind : {"queue"}, year : Years, all : SUBSET Members, known : SUBSET Members,
          rest : SUBSET Members]
    \cup [kind : {"equipment"}, member : Members, knows : BOOLEAN]

Idle(c) == req[c].kind = "none"
Asks(c, kind) == req[c].kind = kind
Continue(c, r) == req' = [req EXCEPT ![c] = r]
Done(c) == Continue(c, NoRequest)

TypeOK ==
    /\ Outbox!TypeOK
    /\ msg \in [Ids -> Messages \cup {Unsent}]
    /\ approved \subseteq Members
    /\ billing \subseteq Members
    /\ process \in [Years -> {"none", "inProgress", "processed"}]
    /\ rows \subseteq Charges
    /\ charges \in [Ids -> SUBSET Charges]
    /\ made \in [Charges -> Nat]
    /\ req \in [Clients -> Requests]
    /\ year \in Years
    /\ faults \in 0 .. MaxFaults

\* Any members may have been approved and given their billing id in earlier years.
Init ==
    /\ Outbox!Init
    /\ msg = [n \in Ids |-> Unsent]
    /\ approved \in SUBSET Members
    /\ billing = approved
    /\ process = [y \in Years |-> "none"]
    /\ rows = {}
    /\ charges = [n \in Ids |-> {}]
    /\ made = [x \in Charges |-> 0]
    /\ req = [c \in Clients |-> NoRequest]
    /\ year \in {y \in Years : \A z \in Years : y =< z}
    /\ faults = 0

NewYear ==
    /\ year + 1 \in Years
    /\ year' = year + 1
    /\ UNCHANGED <<outboxVars, memberVars, feeVars, req, faults>>

-----------------------------------------------------------------------------
(* Approval                                                                *)

\* setMembershipApproval: one transaction approves the member, approved before or not, and
\* enqueues ADD_MEMBER.
Approve(m) ==
    /\ approved' = approved \cup {m}
    /\ Send("ADD_MEMBER", m, FALSE, 0)
    /\ UNCHANGED <<billing, feeVars, req, year, faults>>

\* addMember: one transaction stores the billing id, enqueues the new member's fees and
\* settles the message.
AddMember(n) ==
    LET m == msg[n].member IN
    /\ msg[n].kind = "ADD_MEMBER"
    /\ filed' = [filed EXCEPT ![n] = {1}]
    /\ Outbox!File(n)
    /\ \E k \in Outbox!Unrequested :
        /\ \A j \in Outbox!Unrequested : k =< j
        /\ open' = (open \ {n}) \cup {k}
        /\ msg' = [msg EXCEPT ![k] =
               [kind |-> "NEW_MEMBER_FEES", member |-> m, knows |-> TRUE, run |-> 0]]
    /\ billing' = billing \cup {m}
    /\ UNCHANGED <<approved, feeVars, req, year, faults>>

-----------------------------------------------------------------------------
(* The yearly run: createAnnualMemberFeesForMembers                        *)

\* validateFeeProcessingNotInProgressOrAlreadyRun finds no row for this year.
BeginRun(c) ==
    /\ Idle(c)
    /\ process[year] = "none"
    /\ Continue(c, [kind |-> "start", year |-> year])
    /\ UNCHANGED <<outboxVars, memberVars, feeVars, year, faults>>

\* Mutant of StartRun: the insert does nothing on a conflict.
StartRun_Upsert(c) ==
    LET y == req[c].year IN
    /\ Asks(c, "start")
    /\ process' = [process EXCEPT ![y] = "inProgress"]
    /\ Continue(c, [kind |-> "list", year |-> y])
    /\ UNCHANGED <<outboxVars, memberVars, rows, charges, made, year, faults>>

\* startFeeProcessing: the row is inserted, or its primary key stops this run.
StartRun(c) ==
    LET y == req[c].year IN
    /\ Asks(c, "start")
    /\ IF process[y] = "none"
       THEN /\ process' = [process EXCEPT ![y] = "inProgress"]
            /\ Continue(c, [kind |-> "list", year |-> y])
       ELSE Done(c) /\ UNCHANGED process
    /\ UNCHANGED <<outboxVars, memberVars, rows, charges, made, year, faults>>

\* getMembersForAnnualMembershipFee, a snapshot of the approved members.
ListMembers(c) ==
    /\ Asks(c, "list")
    /\ Continue(c, [kind |-> "queue", year |-> req[c].year, all |-> approved,
                    known |-> approved \cap billing, rest |-> approved])
    /\ UNCHANGED <<outboxVars, memberVars, feeVars, year, faults>>

\* queueMemberInvoices: one member at a time, each insert a statement of its own.
QueueMember(c, m) ==
    /\ Asks(c, "queue")
    /\ m \in req[c].rest
    /\ Send("ANNUAL_MEMBERSHIP_FEE", m, m \in req[c].known, req[c].year)
    /\ req' = [req EXCEPT ![c].rest = @ \ {m}]
    /\ UNCHANGED <<memberVars, feeVars, year, faults>>

\* Mutant of CompleteRun: the row is completed before the members are queued.
CompleteRun_Early(c) ==
    /\ Asks(c, "queue")
    /\ process' = [process EXCEPT ![req[c].year] = "processed"]
    /\ UNCHANGED <<outboxVars, memberVars, rows, charges, made, req, year, faults>>

\* completeFeeProcessing
CompleteRun(c) ==
    /\ Asks(c, "queue")
    /\ req[c].rest = {}
    /\ process' = [process EXCEPT ![req[c].year] = "processed"]
    /\ Done(c)
    /\ UNCHANGED <<outboxVars, memberVars, rows, charges, made, year, faults>>

-----------------------------------------------------------------------------
(* The equipment fee: createAnnualEquipmentFeeForMember                    *)

\* isRecurringFeeAlreadyCreated finds no row, and the member is read.
AskEquipment(c, m) ==
    /\ Idle(c)
    /\ <<m, "equipment", year>> \notin rows
    /\ Continue(c, [kind |-> "equipment", member |-> m, knows |-> m \in billing])
    /\ UNCHANGED <<outboxVars, memberVars, feeVars, year, faults>>

QueueEquipment(c) ==
    /\ Asks(c, "equipment")
    /\ Send("EQUIPMENT_INVOICE", req[c].member, req[c].knows, 0)
    /\ Done(c)
    /\ UNCHANGED <<memberVars, feeVars, year, faults>>

\* The backend dies: open requests are lost, the row of a run stays as it is.
Crash ==
    /\ \E c \in Clients : ~Idle(c)
    /\ req' = [c \in Clients |-> NoRequest]
    /\ UNCHANGED <<outboxVars, memberVars, feeVars, year, faults>>

-----------------------------------------------------------------------------
(* The handlers                                                            *)

AnnualDone(m) == <<m, "annual", year>> \in rows

\* A handler that finds the annual fee of this year invoiced settles its message SKIPPED.
Skip(n) ==
    /\ msg[n].kind \in {"NEW_MEMBER_FEES", "ANNUAL_MEMBERSHIP_FEE"}
    /\ AnnualDone(msg[n].member)
    /\ Outbox!Close(n)
    /\ UNCHANGED <<msg, memberVars, feeVars, req, year, faults>>

\* What the invoice for message n charges, in the year it is created.
Charged(n) ==
    LET m == msg[n].member
        x(fee) == <<m, fee, year>> IN
    CASE msg[n].kind = "NEW_MEMBER_FEES" -> {x("joining"), x("annual")}
      [] msg[n].kind = "ANNUAL_MEMBERSHIP_FEE" ->
            {x("annual")} \cup (IF m \in Renewing THEN {x("equipment")} \ rows ELSE {})
      [] msg[n].kind = "EQUIPMENT_INVOICE" -> {x("equipment")}

\* The rows the handler inserts; a joining fee has none of its own.
NewRows(n) == {x \in Charged(n) : x[2] # "joining"}

\* Mutant of MayInvoice: no guard, the primary key is left to stop duplicates.
MayInvoice_NoGuard(n) ==
    /\ n \in open
    /\ msg[n].kind # "ADD_MEMBER"
    /\ msg[n].knows

\* The guards passed and the payload has a billing id; without one the handler throws.
MayInvoice(n) ==
    /\ n \in open
    /\ msg[n].kind # "ADD_MEMBER"
    /\ msg[n].knows
    /\ msg[n].kind # "EQUIPMENT_INVOICE" => ~AnnualDone(msg[n].member)

\* createSimplbooksInvoice
Make(n) ==
    /\ \A x \in Charged(n) : made[x] < MaxDocs
    /\ made' = [x \in Charges |-> IF x \in Charged(n) THEN made[x] + 1 ELSE made[x]]

\* Mutant of Record: the annual fee row is forgotten.
Record_NoRow(n) ==
    /\ NewRows(n) \cap rows = {}
    /\ filed' = [filed EXCEPT ![n] = {1}]
    /\ Outbox!File(n)
    /\ open' \subseteq open
    /\ charges' = [charges EXCEPT ![n] = Charged(n)]
    /\ UNCHANGED rows

\* The handler's transaction: invoice, fee rows and SYNCED, if the primary key admits them.
Record(n) ==
    /\ NewRows(n) \cap rows = {}
    /\ filed' = [filed EXCEPT ![n] = {1}]
    /\ Outbox!File(n)
    /\ open' \subseteq open
    /\ charges' = [charges EXCEPT ![n] = Charged(n)]
    /\ rows' = rows \cup NewRows(n)

\* The document is made and recorded.
InvoiceFees(n) ==
    /\ MayInvoice(n)
    /\ Make(n)
    /\ Record(n)
    /\ UNCHANGED <<msg, memberVars, process, req, year, faults>>

\* The document is made and the primary key rejects its rows: all but it rolls back.
RejectDuplicate(n) ==
    /\ MayInvoice(n)
    /\ Make(n)
    /\ NewRows(n) \cap rows # {}
    /\ UNCHANGED <<outboxVars, memberVars, process, rows, charges, req, year, faults>>

\* The document is made and the handler does not get to its commit.
LoseInvoice(n) ==
    /\ MayInvoice(n)
    /\ Make(n)
    /\ faults < MaxFaults
    /\ faults' = faults + 1
    /\ UNCHANGED <<outboxVars, memberVars, process, rows, charges, req, year>>

-----------------------------------------------------------------------------

Next ==
    \/ \E m \in Members : Approve(m)
    \/ \E c \in Clients :
        \/ BeginRun(c) \/ StartRun(c) \/ ListMembers(c) \/ CompleteRun(c)
        \/ \E m \in Members : QueueMember(c, m) \/ AskEquipment(c, m)
        \/ QueueEquipment(c)
    \/ \E n \in Ids :
        \/ AddMember(n) \/ Skip(n)
        \/ InvoiceFees(n) \/ RejectDuplicate(n) \/ LoseInvoice(n)
    \/ Crash
    \/ NewYear

Spec == Init /\ [][Next]_vars

-----------------------------------------------------------------------------
(* What must hold.                                                         *)

Sent(n) == n \in open \cup settled

\* A year's run queues a member once, whoever starts it at the same time and wherever it
\* crashes.
QueuedOnce ==
    \A i, j \in Ids :
        /\ Sent(i) /\ Sent(j)
        /\ msg[i].kind = "ANNUAL_MEMBERSHIP_FEE" /\ msg[j].kind = "ANNUAL_MEMBERSHIP_FEE"
        /\ msg[i].member = msg[j].member /\ msg[i].run = msg[j].run
        => i = j

\* No fee of a member and year is charged by two invoices on record, and the fee rows say
\* exactly what the invoices on record charge.
ChargedOnce ==
    /\ \A i, j \in Ids : i # j => charges[i] \cap charges[j] = {}
    /\ rows = {x \in UNION {charges[n] : n \in Ids} : x[2] # "joining"}

\* While no handler is cut short, SimplBooks holds at most one document for a member's
\* annual or joining fee of a year: the guard stops duplicates before the call
\* (simplbooksOutboxHandler.ts:169), not the primary key after it.
MadeOnce ==
    faults = 0 =>
        \A m \in Members, y \in Years : made[<<m, "annual", y>>] =< 1 /\ made[<<m, "joining", y>>] =< 1

\* When a run is marked processed, every member it listed has been sent a message.
ProcessedMeansQueued ==
    [][\A y \in Years : process[y] # "processed" /\ process'[y] = "processed" =>
           \E c \in Clients :
               /\ Asks(c, "queue") /\ req[c].year = y
               /\ \A m \in req[c].all : \E n \in Ids :
                   /\ Sent(n)
                   /\ msg[n].kind = "ANNUAL_MEMBERSHIP_FEE"
                   /\ msg[n].member = m /\ msg[n].run = y]_vars

=============================================================================
