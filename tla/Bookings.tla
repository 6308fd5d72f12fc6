------------------------------ MODULE Bookings ------------------------------
(***************************************************************************)
(* The reservations of one aircraft: the booking requests                  *)
(* (routes/bookings/api.ts, db/booking-queries.ts), the no_overlap_trigger *)
(* (V325), the cancelled_audit_check (V320) and the reminder worker        *)
(* (workers/bookingReminderWorker.ts).                                     *)
(*                                                                         *)
(* A request reads the schedule, cancels what is in its way and writes its *)
(* row, each with a statement of its own.  The trigger of a statement sees *)
(* the rows that are committed: an INSERT or a PATCH is therefore two      *)
(* steps here, the statement with its checks and the commit.               *)
(*                                                                         *)
(* Nothing locks the schedule, so two bookings can come to overlap.  What  *)
(* the code does hold to is that only a booking written behind a request's *)
(* back can be overlapped by it; a request keeps, as history, the bookings *)
(* that others wrote since it read the schedule (since) and since the      *)
(* trigger looked for it (unseen).                                         *)
(***************************************************************************)
EXTENDS Integers, FiniteSets

CONSTANTS
    Ids,            \* booking ids; bounds how many bookings are ever made
    Members,        \* plain members
    Instructors,    \* those of Members who may be a booking's instructor
    Admins,         \* users with BOOKING_ADMIN
    Slots,          \* stretches of time, [from, to) in hours
    Asked,          \* what a create request may ask for: [status, slot]
    Patches,        \* what a PATCH may carry: the columns it sets and their values
    Lead,           \* BOOKING_REMINDER_HOURS_BEFORE
    Horizon,        \* bounds the clock
    MaxRequests,    \* requests served at a time
    MaxStatements,  \* INSERTs and PATCHes between their checks and their commit at a time
    MaxCrashes      \* bounds the crashes of the backend

VARIABLES
    book,       \* schedule.bookings: id -> row, of status NONE before it is inserted
    mayReserve, \* member.register.can_make_reservations
    claim,      \* canMakeReservations in the access token of a member
    req,        \* user -> the request of theirs being served
    claimed,    \* claimed bookings whose reminder mail is still to be sent
    mails,      \* booking -> reminder mails sent, counted up to 2
    now,        \* the clock, in hours
    crashes

rowVars == <<book, mayReserve>>
mailVars == <<claimed, mails>>
bookingVars == <<book, mayReserve, claim, req, claimed, mails, now, crashes>>

Statuses == {"TENTATIVE", "CONFIRMED", "CANCELLED"}
Columns == {"status", "owner", "slot"}
Users == Members \cup Admins

ASSUME BookingsAssumption ==
    /\ IsFiniteSet(Members) /\ IsFiniteSet(Admins)
    /\ Instructors \subseteq Members
    /\ Slots \subseteq [from : Nat, to : Nat] /\ \A s \in Slots : s.from < s.to
    /\ Asked \subseteq [status : Statuses, slot : Slots]
    /\ Patches \subseteq [set : SUBSET Columns, status : Statuses, owner : Members, slot : Slots]
    /\ Lead \in Nat
    /\ MaxRequests \in Nat /\ MaxStatements \in Nat
    /\ Horizon \in Nat
    /\ MaxCrashes \in Nat

Row == [status : Statuses \cup {"NONE"}, owner : Members, slot : Slots, reminded : BOOLEAN]

Nothing == [kind |-> "none"]
Requests ==
    {Nothing}
    \cup [kind : {"create"}, row : Row, rest : SUBSET Ids, since : SUBSET Ids]
    \cup [kind : {"patch"}, id : Ids, patch : Patches, rest : SUBSET Ids, since : SUBSET Ids]
    \cup [kind : {"cancel"}, id : Ids]
    \cup [kind : {"transfer"}, id : Ids, to : Members]
    \cup [kind : {"commit"}, id : Ids, row : Row, since : SUBSET Ids, unseen : SUBSET Ids]

RowsTypeOK ==
    /\ book \in [Ids -> Row]
    /\ mayReserve \in [Members -> BOOLEAN]
    /\ claim \in [Members -> BOOLEAN]
    /\ claimed \subseteq Ids
    /\ mails \in [Ids -> 0..2]
    /\ now \in 0..Horizon
    /\ crashes \in 0..MaxCrashes

\* Type invariant of the tables, the tokens, the requests and the worker.
BookingsTypeOK == RowsTypeOK /\ req \in [Users -> Requests]

BookingsInit ==
    /\ book \in [Ids -> {r \in Row : r.status = "NONE" /\ ~r.reminded}]
    /\ mayReserve \in [Members -> BOOLEAN]
    /\ claim = mayReserve
    /\ req = [u \in Users |-> Nothing]
    /\ claimed = {}
    /\ mails = [b \in Ids |-> 0]
    /\ now = 0
    /\ crashes = 0

-----------------------------------------------------------------------------
(* Rows, locks and requests                                                *)

Live(b) == book[b].status \in {"TENTATIVE", "CONFIRMED"}
Overlap(s, t) == s.from < t.to /\ s.to > t.from
Patched(row, p) ==
    [row EXCEPT !.status = IF "status" \in p.set THEN p.status ELSE @,
                !.owner = IF "owner" \in p.set THEN p.owner ELSE @,
                !.slot = IF "slot" \in p.set THEN p.slot ELSE @]

\* Mutant of Overlapping: only confirmed bookings are in the way.
Overlapping_Confirmed(s, others) ==
    {b \in others : book[b].status = "CONFIRMED" /\ Overlap(book[b].slot, s)}

\* getBookings with exclusiveStartEnd, which leaves cancelled bookings out.
Overlapping(s, others) == {b \in others : Live(b) /\ Overlap(book[b].slot, s)}

\* Mutant of Passes: the trigger compares against bookings that start later only.
Passes_Later(b, row) ==
    ~\E g \in Ids \ {b} : /\ book[g].status = "CONFIRMED"
                          /\ Overlap(book[g].slot, row.slot)
                          /\ book[g].slot.from > row.slot.from

\* schedule.no_overlaps_function: whatever the status of the row, no other booking that
\* is CONFIRMED overlaps it.
Passes(b, row) ==
    ~\E g \in Ids \ {b} : book[g].status = "CONFIRMED" /\ Overlap(book[g].slot, row.slot)

\* Mutant of Audited: V320 without cancelled_audit_check.
Audited_Unchecked(b, row) == TRUE

\* cancelled_audit_check: a row is CANCELLED if and only if cancelled_at is set, which an
\* update to CANCELLED does, an INSERT never, and which nothing clears.
Audited(b, row) ==
    /\ book[b].status = "CANCELLED" => row.status = "CANCELLED"
    /\ book[b].status = "NONE" => row.status # "CANCELLED"

\* The row lock a statement holds until its commit.
Locked(b) == \E u \in Users : req[u].kind = "commit" /\ req[u].id = b

Asks(u, kind) == req[u].kind = kind
Open(u, r) ==
    /\ Asks(u, "none")
    /\ Cardinality({v \in Users : ~Asks(v, "none")}) < MaxRequests
    /\ req' = [req EXCEPT ![u] = r]
Done(u) == req' = [req EXCEPT ![u] = Nothing]

\* A request that has read the schedule, or that the trigger let pass, when another has
\* written booking b.
Noting(r, b) ==
    CASE r.kind \in {"create", "patch"} -> [r EXCEPT !.since = @ \cup {b}]
      [] r.kind = "commit" -> [r EXCEPT !.since = @ \cup {b}, !.unseen = @ \cup {b}]
      [] OTHER -> r

\* validateWriteAccess.  Who a booking's instructor is is not kept: any of Instructors.
MayWrite(u, b) == u = book[b].owner \/ u \in Instructors \cup Admins

-----------------------------------------------------------------------------
(* POST /bookings and PATCH /bookings/:id                                  *)

\* The checks of a create request and its read of the bookings in the way, which only an
\* admin may clear.
BeginCreate(u, m, a) ==
    LET over == Overlapping(a.slot, Ids)
        row == [status |-> a.status, owner |-> m, slot |-> a.slot, reminded |-> FALSE] IN
    /\ u \notin Admins => u = m /\ claim[u] /\ over = {}
    /\ Open(u, [kind |-> "create", row |-> row, rest |-> over, since |-> {}])
    /\ UNCHANGED <<rowVars, claim, mailVars, now, crashes>>

\* The same for a PATCH: its own checks, and the bookings in the way of the patched slot.
\* The status of the booking is not looked at.
BeginPatch(u, b, p) ==
    LET over == Overlapping(Patched(book[b], p).slot, Ids \ {b}) IN
    /\ book[b].status # "NONE"
    /\ MayWrite(u, b)
    /\ u \notin Admins => claim[u] /\ ("owner" \in p.set => p.owner = u) /\ over = {}
    /\ Open(u, [kind |-> "patch", id |-> b, patch |-> p, rest |-> over, since |-> {}])
    /\ UNCHANGED <<rowVars, claim, mailVars, now, crashes>>

\* clearOverlappingBookings: one of the bookings in the way is made CANCELLED, whatever it
\* is by now; a trigger that raises ends the request.
Clear(u, b) ==
    /\ req[u].kind \in {"create", "patch"}
    /\ b \in req[u].rest
    /\ ~Locked(b)
    /\ IF Passes(b, book[b])
         THEN /\ book' = [book EXCEPT ![b].status = "CANCELLED"]
              /\ req' = [req EXCEPT ![u].rest = @ \ {b}]
         ELSE Done(u) /\ UNCHANGED book
    /\ UNCHANGED <<mayReserve, claim, mailVars, now, crashes>>

\* The statement of u leaves row in b: it passes the constraint and the trigger and waits
\* for its commit, or the request answers 500.
Write(u, b, row) ==
    IF Audited(b, row) /\ Passes(b, row)
      THEN /\ Cardinality({v \in Users : Asks(v, "commit")}) < MaxStatements
           /\ req' = [req EXCEPT ![u] = [kind |-> "commit", id |-> b, row |-> row,
                                         since |-> @.since, unseen |-> {}]]
      ELSE Done(u)

\* insertBooking, with an id of its own.
Insert(u, b) ==
    /\ Asks(u, "create")
    /\ req[u].rest = {}
    /\ book[b].status = "NONE"
    /\ ~Locked(b)
    /\ Write(u, b, req[u].row)
    /\ UNCHANGED <<rowVars, claim, mailVars, now, crashes>>

\* updateBooking with the patch.
Update(u) ==
    LET b == req[u].id IN
    /\ Asks(u, "patch")
    /\ req[u].rest = {}
    /\ ~Locked(b)
    /\ Write(u, b, Patched(book[b], req[u].patch))
    /\ UNCHANGED <<rowVars, claim, mailVars, now, crashes>>

Commit(u) ==
    /\ Asks(u, "commit")
    /\ book' = [book EXCEPT ![req[u].id] = req[u].row]
    /\ req' = [v \in Users |-> IF v = u THEN Nothing ELSE Noting(req[v], req[u].id)]
    /\ UNCHANGED <<mayReserve, claim, mailVars, now, crashes>>

-----------------------------------------------------------------------------
(* POST /bookings/:id/cancel and POST /bookings/:id/transfer               *)

BeginCancel(u, b) ==
    /\ Live(b)
    /\ MayWrite(u, b)
    /\ Open(u, [kind |-> "cancel", id |-> b])
    /\ UNCHANGED <<rowVars, claim, mailVars, now, crashes>>

\* cancelBooking, unless the trigger raises: it does so for every update of a booking that
\* a confirmed one overlaps.
Cancel(u) ==
    LET b == req[u].id IN
    /\ Asks(u, "cancel")
    /\ ~Locked(b)
    /\ book' = IF Passes(b, book[b]) THEN [book EXCEPT ![b].status = "CANCELLED"] ELSE book
    /\ Done(u)
    /\ UNCHANGED <<mayReserve, claim, mailVars, now, crashes>>

\* The checks of a transfer: live, not yet started, asked by its owner or an admin, to
\* another member, who must be able to reserve unless an admin asks.
BeginTransfer(u, b, m) ==
    /\ Live(b)
    /\ book[b].slot.from > now
    /\ u \notin Admins => u = book[b].owner /\ mayReserve[m]
    /\ m # book[b].owner
    /\ Open(u, [kind |-> "transfer", id |-> b, to |-> m])
    /\ UNCHANGED <<rowVars, claim, mailVars, now, crashes>>

Transfer(u) ==
    LET b == req[u].id IN
    /\ Asks(u, "transfer")
    /\ ~Locked(b)
    /\ book' = IF Passes(b, book[b]) THEN [book EXCEPT ![b].owner = req[u].to] ELSE book
    /\ Done(u)
    /\ UNCHANGED <<mayReserve, claim, mailVars, now, crashes>>

-----------------------------------------------------------------------------
(* The reminder worker, the clock and crashes                              *)

\* Live bookings that start within an hour of Lead hours from now.
Upcoming == {b \in Ids : Live(b) /\ book[b].slot.from \in (now + Lead - 1)..(now + Lead + 1)}

\* Mutant of ClaimReminders: the statement lacks reminder_sent_at IS NULL.
ClaimReminders_Again ==
    /\ Upcoming # {}
    /\ \A b \in Upcoming : ~Locked(b) /\ Passes(b, book[b])
    /\ book' = [b \in Ids |-> IF b \in Upcoming THEN [book[b] EXCEPT !.reminded = TRUE] ELSE book[b]]
    /\ claimed' = claimed \cup Upcoming
    /\ UNCHANGED <<mayReserve, claim, req, mails, now, crashes>>

\* claimUpcomingBookingsForReminder, one UPDATE of all that are due: the trigger runs for
\* each of them, and one that raises leaves them all unclaimed.
ClaimReminders ==
    LET due == {b \in Upcoming : ~book[b].reminded} IN
    /\ due # {}
    /\ \A b \in due : ~Locked(b) /\ Passes(b, book[b])
    /\ book' = [b \in Ids |-> IF b \in due THEN [book[b] EXCEPT !.reminded = TRUE] ELSE book[b]]
    /\ claimed' = claimed \cup due
    /\ UNCHANGED <<mayReserve, claim, req, mails, now, crashes>>

\* sendEmailFn for one claimed booking; a mail that fails is logged and not tried again.
Remind(b) ==
    /\ b \in claimed
    /\ claimed' = claimed \ {b}
    /\ \/ mails[b] < 2 /\ mails' = [mails EXCEPT ![b] = @ + 1]
       \/ UNCHANGED mails
    /\ UNCHANGED <<rowVars, claim, req, now, crashes>>

Tick ==
    /\ now < Horizon
    /\ now' = now + 1
    /\ UNCHANGED <<rowVars, claim, req, mailVars, crashes>>

\* The backend dies: requests and mails are lost, and with them what is not committed.
BookingsCrash ==
    /\ crashes < MaxCrashes
    /\ crashes' = crashes + 1
    /\ req' = [u \in Users |-> Nothing]
    /\ claimed' = {}
    /\ UNCHANGED <<rowVars, claim, mails, now>>

Serve(u) ==
    \/ \E m \in Members, a \in Asked : BeginCreate(u, m, a)
    \/ \E b \in Ids, p \in Patches : BeginPatch(u, b, p)
    \/ \E b \in Ids : Clear(u, b) \/ Insert(u, b) \/ BeginCancel(u, b)
    \/ \E b \in Ids, m \in Members : BeginTransfer(u, b, m)
    \/ Update(u) \/ Commit(u) \/ Cancel(u) \/ Transfer(u)

BookingsStep ==
    \/ \E u \in Users : Serve(u)
    \/ ClaimReminders
    \/ \E b \in Ids : Remind(b)
    \/ Tick

BookingsNext == BookingsStep \/ BookingsCrash

BookingsSpec == BookingsInit /\ [][BookingsNext]_bookingVars

-----------------------------------------------------------------------------
(* Properties                                                              *)

Clash(b, g) == b # g /\ Live(b) /\ Live(g) /\ Overlap(book[b].slot, book[g].slot)
ConfirmedClash(b, g) == Clash(b, g) /\ book[b].status = "CONFIRMED" /\ book[g].status = "CONFIRMED"

\* Two confirmed bookings come to overlap only if both were between their trigger and their
\* commit at once: schedule.no_overlap_trigger.  What the request had read before then, and
\* how long ago, makes no difference, nor does a transfer or a patch of the other booking.
ConfirmedApart ==
    [][\A b, g \in Ids : ConfirmedClash(b, g)' /\ ~ConfirmedClash(b, g) =>
           \E u \in Users : /\ Asks(u, "commit") /\ req[u].id \in {b, g}
                            /\ {b, g} \ {req[u].id} \subseteq req[u].unseen
      ]_bookingVars

\* Two live bookings, tentative ones included, which the trigger does not look for, come to
\* overlap only by a request behind whose back one of the two was written after it had read
\* the schedule: clearOverlappingBookings cancels whatever else was in its way.
LiveApart ==
    [][\A b, g \in Ids : Clash(b, g)' /\ ~Clash(b, g) =>
           \E u \in Users : /\ Asks(u, "commit") /\ req[u].id \in {b, g}
                            /\ req[u].since \cap {b, g} # {}
      ]_bookingVars

\* A booking is reminded of at most once, with several workers, crashes and a window of
\* three hours that an hourly worker sees three times.
RemindedOnce == \A b \in Ids : mails[b] =< 1

\* A cancelled booking stays cancelled: no request, of those begun before it was cancelled
\* either, brings it back.
CancelledIsFinal ==
    [][\A b \in Ids : book[b].status = "CANCELLED" => book'[b].status = "CANCELLED"]_bookingVars

=============================================================================
