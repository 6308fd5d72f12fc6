------------------------------ MODULE FlightLog ------------------------------
(***************************************************************************)
(* The life of a flight log entry up to its invoice: entered by a member,  *)
(* validated, reverted, re-billed and deleted (routes/flight-log/api.ts,   *)
(* db/flight-log-queries.ts), with the database trigger that guards the    *)
(* technical logbook (V1560) and the fuel and oil records that a validated *)
(* flight must have (routes/liquid/recordsApi.ts).                         *)
(*                                                                         *)
(* Every route reads, awaits, and writes.  No transaction spans the two,   *)
(* so a request is a record kept from its last read to its write, and      *)
(* whatever other requests do in between happens here too.  The flights    *)
(* are those of one aircraft, numbered in the order they were flown.       *)
(*                                                                         *)
(* The trigger takes no lock and sees committed rows only, so a statement  *)
(* it let pass waits for its commit as a step of its own, holding its row. *)
(* Other writes commit in the step of their statement: nothing they decide *)
(* on can change in between, and until then nobody sees them.              *)
(***************************************************************************)
EXTENDS Integers

CONSTANTS
    Flights,        \* flights of one aircraft, by off-block time
    Members,        \* members a flight may be billed to
    Admins,         \* clients with flight log admin rights, one open request each
    Pilots          \* clients without them

ASSUME FlightsAssumption == Flights \subseteq Nat \ {0}
ASSUME ClientsAssumption == Admins \cap Pilots = {}

VARIABLES
    status,         \* flight -> its status; "ABSENT" before, "GONE" after its row's life
    billed,         \* flight -> its billable member
    linked,         \* flights whose fuel and oil are resolved by a linked record
    req             \* client -> the request it has open

logVars == <<status, billed, linked, req>>

-----------------------------------------------------------------------------

Clients == Admins \cup Pilots

\* Statuses of a row.  Everything but NEW is frozen: the logbook shows it.
FrozenStatus == {"VALIDATED", "QUEUED", "INVOICED", "PAID"}
Statuses == {"ABSENT", "NEW", "GONE"} \cup FrozenStatus

Frozen(f) == status[f] \in FrozenStatus
Present(f) == status[f] \notin {"ABSENT", "GONE"}

\* Rows that a statement has written and not yet committed.
Uncommitted == {"enter", "thaw"}

Nothing == [kind |-> "none"]
Requests ==
    {Nothing}
    \cup [kind : {"validate", "finalise", "revert", "delete", "link", "unlink"}, flight : Flights]
    \cup [kind : {"bill"}, flight : Flights, member : Members]
    \cup [kind : Uncommitted, flight : Flights, since : SUBSET Flights]

Idle(c) == req[c].kind = "none"
Asks(c, kind) == req[c].kind = kind
Open(c, kind, f) == req' = [req EXCEPT ![c] = [kind |-> kind, flight |-> f]]
Done(c) == req' = [req EXCEPT ![c] = Nothing]

\* A statement passed the trigger.  "since" is history: the later flights frozen from here on.
Wait(c, kind, f) == req' = [req EXCEPT ![c] = [kind |-> kind, flight |-> f, since |-> {}]]
Waits(c) == req[c].kind \in Uncommitted
Locked(f) == \E c \in Clients : Waits(c) /\ req[c].flight = f

\* The requests after a step that leaves them at r: those that wait note the later flights
\* that the step froze.
Noted(r) ==
    [c \in Clients |->
        IF r[c].kind \in Uncommitted
        THEN [r[c] EXCEPT !.since = @ \cup
                {g \in Flights : g > r[c].flight /\ ~Frozen(g) /\ status'[g] \in FrozenStatus}]
        ELSE r[c]]

RowsTypeOK ==
    /\ status \in [Flights -> Statuses]
    /\ billed \in [Flights -> Members]
    /\ linked \subseteq Flights

LogInit ==
    /\ status = [f \in Flights |-> "ABSENT"]
    /\ billed \in [Flights -> Members]
    /\ linked = {}
    /\ req = [c \in Clients |-> Nothing]

-----------------------------------------------------------------------------
(* The trigger flight.no_overlaps_function, run by INSERT and by an UPDATE *)
(* that leaves the row NEW: "Protected time period".                       *)

ProtectedPeriod(f) == \E g \in Flights : g > f /\ Frozen(g)

\* POST /flight-log: the INSERT, with no liquid record linked yet.
Insert(c, f) ==
    /\ Idle(c)
    /\ status[f] = "ABSENT" /\ ~Locked(f)
    /\ ~ProtectedPeriod(f)
    /\ Wait(c, "enter", f)
    /\ UNCHANGED <<status, billed, linked>>

\* Its commit: the row is there, billed to a member.
Enter(c) ==
    LET f == req[c].flight IN
    /\ Asks(c, "enter")
    /\ status' = [status EXCEPT ![f] = "NEW"]
    /\ \E m \in Members : billed' = [billed EXCEPT ![f] = m]
    /\ Done(c)
    /\ UNCHANGED linked

-----------------------------------------------------------------------------
(* POST /flight-log/:id/validate                                           *)

\* The order check: f is the first NEW flight of the aircraft.
BeginValidate(c, f) ==
    /\ Idle(c)
    /\ status[f] = "NEW"
    /\ \A g \in Flights : g < f => status[g] # "NEW"
    /\ Open(c, "validate", f)
    /\ UNCHANGED <<status, billed, linked>>

\* The liquid backstop: a flight with unresolved fuel or oil is refused.
CheckLiquids(c) ==
    LET f == req[c].flight IN
    /\ Asks(c, "validate")
    /\ IF f \in linked THEN Open(c, "finalise", f) ELSE Done(c)
    /\ UNCHANGED <<status, billed, linked>>

\* updateFlightLogStatus to VALIDATED: whatever status the row has by now.
Validate(c) ==
    LET f == req[c].flight IN
    /\ Asks(c, "finalise")
    /\ ~Locked(f)
    /\ status' = IF Present(f) THEN [status EXCEPT ![f] = "VALIDATED"] ELSE status
    /\ req' = Noted([req EXCEPT ![c] = Nothing])
    /\ UNCHANGED <<billed, linked>>

\* Mutant of BeginRevert: any frozen flight may be asked for.
BeginRevert_AnyFrozen(c, f) ==
    /\ Idle(c)
    /\ Frozen(f)
    /\ \A g \in Flights : g > f => status[g] # "VALIDATED"
    /\ Open(c, "revert", f)
    /\ UNCHANGED <<status, billed, linked>>

\* The order check of a revert: f is the last VALIDATED flight of the aircraft.
BeginRevert(c, f) ==
    /\ Idle(c)
    /\ status[f] = "VALIDATED"
    /\ \A g \in Flights : g > f => status[g] # "VALIDATED"
    /\ Open(c, "revert", f)
    /\ UNCHANGED <<status, billed, linked>>

\* Mutant of Revert: the trigger runs on INSERT only.
Revert_NoTrigger(c) ==
    LET f == req[c].flight IN
    /\ Asks(c, "revert")
    /\ ~Locked(f)
    /\ IF Present(f) THEN Wait(c, "thaw", f) ELSE Done(c)
    /\ UNCHANGED <<status, billed, linked>>

\* updateFlightLogStatus to NEW: whatever status the row has by now, unless the trigger
\* refuses.
Revert(c) ==
    LET f == req[c].flight IN
    /\ Asks(c, "revert")
    /\ ~Locked(f)
    /\ IF Present(f) /\ ~ProtectedPeriod(f) THEN Wait(c, "thaw", f) ELSE Done(c)
    /\ UNCHANGED <<status, billed, linked>>

\* Its commit.
Thaw(c) ==
    /\ Asks(c, "thaw")
    /\ status' = [status EXCEPT ![req[c].flight] = "NEW"]
    /\ Done(c)
    /\ UNCHANGED <<billed, linked>>

-----------------------------------------------------------------------------
(* PATCH /flight-log/:id, as far as it decides whom the invoice goes to    *)

\* Mutant of BeginBill: any flight may be changed.
BeginBill_AnyStatus(c, f, m) ==
    /\ Idle(c)
    /\ Present(f)
    /\ req' = [req EXCEPT ![c] = [kind |-> "bill", flight |-> f, member |-> m]]
    /\ UNCHANGED <<status, billed, linked>>

\* An admin may change the billable member of a flight that is NEW or VALIDATED.
BeginBill(c, f, m) ==
    /\ Idle(c)
    /\ status[f] \in {"NEW", "VALIDATED"}
    /\ req' = [req EXCEPT ![c] = [kind |-> "bill", flight |-> f, member |-> m]]
    /\ UNCHANGED <<status, billed, linked>>

\* updateFlightLog: whatever status the row has by now, unless it is NEW and the trigger
\* refuses.
Bill(c) ==
    LET f == req[c].flight IN
    /\ Asks(c, "bill")
    /\ ~Locked(f)
    /\ billed' = IF Present(f) /\ (status[f] = "NEW" => ~ProtectedPeriod(f))
                 THEN [billed EXCEPT ![f] = req[c].member]
                 ELSE billed
    /\ Done(c)
    /\ UNCHANGED <<status, linked>>

-----------------------------------------------------------------------------
(* DELETE /flight-log/:id and the links of liquid records                  *)

BeginDelete(c, f) ==
    /\ Idle(c)
    /\ status[f] = "NEW"
    /\ Open(c, "delete", f)
    /\ UNCHANGED <<status, billed, linked>>

\* Mutant of Delete: the statement trusts the route's check.
Delete_AnyStatus(c) ==
    LET f == req[c].flight IN
    /\ Asks(c, "delete")
    /\ ~Locked(f)
    /\ linked' = linked \ {f}
    /\ status' = IF Present(f) THEN [status EXCEPT ![f] = "GONE"] ELSE status
    /\ Done(c)
    /\ UNCHANGED billed

\* deleteFlightLog: one transaction unlinks the flight's records and deletes the row if it
\* is still NEW; that no row was deleted does not roll the unlinking back.
Delete(c) ==
    LET f == req[c].flight IN
    /\ Asks(c, "delete")
    /\ ~Locked(f)
    /\ linked' = linked \ {f}
    /\ status' = IF status[f] = "NEW" THEN [status EXCEPT ![f] = "GONE"] ELSE status
    /\ Done(c)
    /\ UNCHANGED billed

\* A member may link a record to a NEW flight and take it off again; a liquid admin may at
\* any time, which is that admin's call and not modelled.
BeginLink(c, f) ==
    /\ Idle(c)
    /\ status[f] = "NEW"
    /\ Open(c, IF f \in linked THEN "unlink" ELSE "link", f)
    /\ UNCHANGED <<status, billed, linked>>

\* updateLiquidRecord: flightLogId is set if the row is still there, a foreign key.
Link(c) ==
    LET f == req[c].flight IN
    /\ Asks(c, "link")
    /\ linked' = IF Present(f) THEN linked \cup {f} ELSE linked
    /\ Done(c)
    /\ UNCHANGED <<status, billed>>

Unlink(c) ==
    /\ Asks(c, "unlink")
    /\ linked' = linked \ {req[c].flight}
    /\ Done(c)
    /\ UNCHANGED <<status, billed>>

-----------------------------------------------------------------------------

AnyClient(c) ==
    \/ \E f \in Flights : Insert(c, f) \/ BeginDelete(c, f) \/ BeginLink(c, f)
    \/ Enter(c)
    \/ Delete(c)
    \/ Link(c)
    \/ Unlink(c)

AdminOnly(c) ==
    \/ \E f \in Flights : BeginValidate(c, f) \/ BeginRevert(c, f)
    \/ \E f \in Flights, m \in Members : BeginBill(c, f, m)
    \/ CheckLiquids(c)
    \/ Validate(c)
    \/ Revert(c)
    \/ Thaw(c)
    \/ Bill(c)

LogNext ==
    \/ \E c \in Clients : AnyClient(c)
    \/ \E c \in Admins : AdminOnly(c)

LogSpec == LogInit /\ [][LogNext]_logVars

-----------------------------------------------------------------------------
(* What must hold of the logbook.                                          *)

\* A frozen flight is never deleted, though the route decides on a status it read earlier.
FrozenIsKept ==
    [][\A f \in Flights : Frozen(f) => status'[f] # "GONE"]_logVars

\* A flight is entered, or reverted, only behind every frozen flight of its aircraft: a later
\* one that is frozen when the flight turns NEW was frozen by another request after the
\* trigger had looked.  That window is all there is: neither the route's check, which may be
\* long out of date, nor a billing run or an invoice that freezes flights opens another.
NewAtTheEnd ==
    [][\A f \in Flights : status[f] # "NEW" /\ status'[f] = "NEW" =>
           \E c \in Clients :
               /\ Waits(c) /\ req[c].flight = f
               /\ \A g \in Flights : g > f /\ status'[g] \in FrozenStatus =>
                      g \in req[c].since]_logVars

=============================================================================
