----------------------------- MODULE Suspension -----------------------------
(***************************************************************************)
(* Who may reserve the aircraft: the nightly sweep that suspends members   *)
(* with a flight invoice long overdue and restores those without any       *)
(* (workers/overdueInvoiceWorker.ts, db/member-queries.ts), the admin's    *)
(* change of canMakeReservations (routes/members/api.ts) and the bookings  *)
(* they cancel.  Composes Bookings, whose requests and worker go on        *)
(* meanwhile: suspension writes the register and the bookings in two       *)
(* statements, and a request is judged by its token.                       *)
(***************************************************************************)
EXTENDS Bookings

VARIABLES
    overdue,    \* member -> "none", "late" or, past the grace period, "long"
    sweep       \* where the nightly sweep is

vars == <<bookingVars, overdue, sweep>>

Asleep == [step |-> "asleep"]
Sweeps ==
    {Asleep}
    \cup [step : {"restore", "suspend"}, rest : SUBSET Members]
    \cup [step : {"purge"}, rest : SUBSET Members, who : Members]

\* The two requests that PATCH /members/:memberId can be once it has read the member: about
\* to write the register, or about to cancel the member's bookings.
Revocations == [kind : {"revoke"}, member : Members, was : BOOLEAN]
               \cup [kind : {"purge"}, member : Members]

Init ==
    /\ BookingsInit
    /\ overdue = [m \in Members |-> "none"]
    /\ sweep = Asleep

-----------------------------------------------------------------------------
(* What both do to the bookings                                            *)

Future(m) == {b \in Ids : Live(b) /\ book[b].owner = m /\ book[b].slot.from >= now}

\* cancelAllFutureBookingsForMember, one UPDATE: the trigger runs for each booking, and one
\* that raises leaves them all.
CancelAll(m, fine, raised) ==
    /\ \A b \in Future(m) : ~Locked(b)
    /\ IF \A b \in Future(m) : Passes(b, book[b])
         THEN /\ book' = [b \in Ids |-> IF b \in Future(m)
                                          THEN [book[b] EXCEPT !.status = "CANCELLED"]
                                          ELSE book[b]]
              /\ fine
         ELSE raised /\ UNCHANGED book

-----------------------------------------------------------------------------
(* PATCH /members/:memberId with canMakeReservations                       *)

BeginRevoke(u, m) ==
    /\ u \in Admins
    /\ Open(u, [kind |-> "revoke", member |-> m, was |-> mayReserve[m]])
    /\ UNCHANGED <<rowVars, claim, mailVars, now, crashes, overdue, sweep>>

\* updateMember; the bookings follow only if the member could reserve when first read.
Revoke(u) ==
    LET m == req[u].member IN
    /\ Asks(u, "revoke")
    /\ mayReserve' = [mayReserve EXCEPT ![m] = FALSE]
    /\ IF req[u].was
         THEN req' = [req EXCEPT ![u] = [kind |-> "purge", member |-> m]]
         ELSE Done(u)
    /\ UNCHANGED <<book, claim, mailVars, now, crashes, overdue, sweep>>

Purge(u) ==
    /\ Asks(u, "purge")
    /\ CancelAll(req[u].member, Done(u), Done(u))
    /\ UNCHANGED <<mayReserve, claim, mailVars, now, crashes, overdue, sweep>>

\* The same request with canMakeReservations set, which has nothing to follow up.
Grant(m) ==
    /\ mayReserve' = [mayReserve EXCEPT ![m] = TRUE]
    /\ UNCHANGED <<book, claim, req, mailVars, now, crashes, overdue, sweep>>

\* A member logs in or refreshes the access token: generateJWTUser.
RefreshToken(m) ==
    /\ claim' = [claim EXCEPT ![m] = mayReserve[m]]
    /\ UNCHANGED <<rowVars, req, mailVars, now, crashes, overdue, sweep>>

-----------------------------------------------------------------------------
(* processSuspendedMembers                                                 *)

\* getMembersWithSuspendedReservations.
StartSweep ==
    /\ sweep = Asleep
    /\ sweep' = [step |-> "restore", rest |-> {m \in Members : ~mayReserve[m]}]
    /\ UNCHANGED <<bookingVars, overdue>>

\* Mutant of Restore: a member who was suspended long is looked up with the grace period.
Restore_Late(m) ==
    /\ sweep.step = "restore"
    /\ m \in sweep.rest
    /\ sweep' = [sweep EXCEPT !.rest = @ \ {m}]
    /\ mayReserve' = [mayReserve EXCEPT ![m] = @ \/ overdue[m] = "late"]
    /\ UNCHANGED <<book, claim, req, mailVars, now, crashes, overdue>>

\* One of them is restored if no flight invoice of theirs is overdue, by however little and
\* whoever suspended them.
Restore(m) ==
    /\ sweep.step = "restore"
    /\ m \in sweep.rest
    /\ sweep' = [sweep EXCEPT !.rest = @ \ {m}]
    /\ mayReserve' = [mayReserve EXCEPT ![m] = @ \/ overdue[m] = "none"]
    /\ UNCHANGED <<book, claim, req, mailVars, now, crashes, overdue>>

\* getOverdueFlightInvoicesPastDays, grouped by member.
ListLong ==
    /\ sweep.step = "restore"
    /\ sweep.rest = {}
    /\ sweep' = [step |-> "suspend", rest |-> {m \in Members : overdue[m] = "long"}]
    /\ UNCHANGED <<bookingVars, overdue>>

\* Mutant of Suspend: the bookings are cancelled first, and the register is written after.
Suspend_Later(m) ==
    /\ sweep.step = "suspend"
    /\ m \in sweep.rest
    /\ IF mayReserve[m]
         THEN CancelAll(m, /\ mayReserve' = [mayReserve EXCEPT ![m] = FALSE]
                           /\ sweep' = [sweep EXCEPT !.rest = @ \ {m}],
                           sweep' = Asleep /\ UNCHANGED mayReserve)
         ELSE sweep' = [sweep EXCEPT !.rest = @ \ {m}] /\ UNCHANGED <<mayReserve, book>>
    /\ UNCHANGED <<claim, req, mailVars, now, crashes, overdue>>

\* One of the list is suspended, unless suspended already, and has bookings to cancel then.
Suspend(m) ==
    /\ sweep.step = "suspend"
    /\ m \in sweep.rest
    /\ IF mayReserve[m]
         THEN /\ mayReserve' = [mayReserve EXCEPT ![m] = FALSE]
              /\ sweep' = [step |-> "purge", rest |-> sweep.rest \ {m}, who |-> m]
         ELSE sweep' = [sweep EXCEPT !.rest = @ \ {m}] /\ UNCHANGED mayReserve
    /\ UNCHANGED <<book, claim, req, mailVars, now, crashes, overdue>>

\* The bookings of the suspended member; a trigger that raises ends the sweep.
PurgeSuspended ==
    /\ sweep.step = "purge"
    /\ CancelAll(sweep.who, sweep' = [step |-> "suspend", rest |-> sweep.rest], sweep' = Asleep)
    /\ UNCHANGED <<mayReserve, claim, req, mailVars, now, crashes, overdue>>

EndSweep ==
    /\ sweep.step = "suspend"
    /\ sweep.rest = {}
    /\ sweep' = Asleep
    /\ UNCHANGED <<bookingVars, overdue>>

-----------------------------------------------------------------------------

\* A flight invoice of m falls due, or passes the grace period.
FallBehind(m) ==
    /\ overdue' = [overdue EXCEPT ![m] = IF @ = "none" THEN "late" ELSE "long"]
    /\ UNCHANGED <<bookingVars, sweep>>

\* The payment sync finds the flight invoices of m paid.
Pay(m) ==
    /\ overdue' = [overdue EXCEPT ![m] = "none"]
    /\ UNCHANGED <<bookingVars, sweep>>

\* The backend dies: the sweep is lost with the requests and is not resumed.
Crash == BookingsCrash /\ sweep' = Asleep /\ UNCHANGED overdue

Sweep ==
    \/ StartSweep \/ ListLong \/ EndSweep
    \/ \E m \in Members : Restore(m) \/ Suspend(m)

Next ==
    \/ BookingsStep /\ UNCHANGED <<overdue, sweep>>
    \/ \E u \in Users : Revoke(u) \/ Purge(u) \/ (\E m \in Members : BeginRevoke(u, m))
    \/ \E m \in Members : Grant(m) \/ RefreshToken(m) \/ FallBehind(m) \/ Pay(m)
    \/ Sweep
    \/ PurgeSuspended
    \/ Crash

\* Cron starts the sweep every night and the sweep goes on; a statement commits, and one
\* that waits for a row lock is given it in its turn.
Fairness ==
    /\ WF_vars(Sweep)
    /\ SF_vars(PurgeSuspended)
    /\ \A u \in Users : WF_vars(Commit(u) /\ UNCHANGED <<overdue, sweep>>)

Spec == Init /\ [][Next]_vars
LiveSpec == Spec /\ Fairness

-----------------------------------------------------------------------------
(* Properties                                                              *)

\* A suspended member who has paid every overdue flight invoice, and stays out of debt, can
\* reserve again: no admin is needed, whatever sweeps a crash or a trigger has cut short.  Of
\* members who leave nothing is said here: Removal has them.
PaidIsRestored ==
    \A m \in Members : (overdue[m] = "none") ~> (mayReserve[m] \/ overdue[m] # "none")

\* A member whose flight invoice stays unpaid past the grace period is suspended, though the
\* bookings of theirs that the trigger protects keep the sweep from cancelling any and end it,
\* and though it ended on another member before: the register is written first.
LongDebtIsSuspended ==
    \A m \in Members : (overdue[m] = "long") ~> (~mayReserve[m] \/ overdue[m] # "long")

=============================================================================
