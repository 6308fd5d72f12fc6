--------------------------- MODULE ItemReservations ---------------------------
(***************************************************************************)
(* Reservations of the club's inventory: the reservation requests          *)
(* (routes/inventory-reservations/api.ts, db/item-reservation-queries.ts), *)
(* the capacity trigger (V2030) and the inventory admin's changes to the   *)
(* items and units it counts (routes/inventory/api.ts,                     *)
(* db/item-unit-queries.ts).                                               *)
(*                                                                         *)
(* A request judges the reservation it would leave behind, then writes the *)
(* columns it was sent.  As in Bookings the write is two steps, the        *)
(* statement with its trigger, which sees what is committed and takes no   *)
(* lock, and the commit.  A statement keeps, as history, what others have  *)
(* written while it waits (since): the reservations, and the units taken   *)
(* or moved.                                                               *)
(***************************************************************************)
EXTENDS Integers, FiniteSets, Functions

CONSTANTS
    Ids,            \* reservation ids; bounds how many are ever made
    Items,          \* inventory items
    Units,          \* their units, made or not; bounds how many are ever made
    ItemOf,         \* unit -> the item it is one of
    Members,        \* members who reserve
    Suspended,      \* those whose token says they may not
    Admins,         \* users with INVENTORY_RESERVATION_ADMIN and INVENTORY_ADMIN
    Hours,          \* bounds when reservations begin and end
    Asked,          \* reservations a create request may ask for
    Patches,        \* what a PATCH may carry: a function on some of a row's columns
    Handled,        \* units and items the inventory admin changes; bounds the instance
    Moves,          \* unit statuses an admin sets
    MaxRequests     \* requests served at a time

AnyUnit == "any"
InService == {"AVAILABLE", "RESERVED", "ON_LOAN"}
UnitStatuses == InService \cup {"MAINTENANCE", "LOST", "RETIRED"}
Users == Members \cup Admins

Row == [status : {"CONFIRMED", "CANCELLED"}, owner : Members, item : Items,
        unit : Units \cup {AnyUnit}, quantity : Nat \ {0}, from : Hours, to : Hours]
NoRow == [status |-> "NONE"]

\* The columns a PATCH may set, and what each may hold.
Columns == [status |-> {"CONFIRMED", "CANCELLED"}, owner |-> Members, item |-> Items,
            unit |-> Units \cup {AnyUnit}, quantity |-> Nat \ {0}, from |-> Hours, to |-> Hours]

ASSUME ItemReservationsAssumption ==
    /\ IsFiniteSet(Ids) /\ IsFiniteSet(Units) /\ IsFiniteSet(Members) /\ IsFiniteSet(Admins)
    /\ ItemOf \in [Units -> Items]
    /\ Suspended \subseteq Members
    /\ Hours \subseteq Nat
    /\ Asked \subseteq Row
    /\ \A p \in Patches :
           DOMAIN p \subseteq DOMAIN Columns /\ \A c \in DOMAIN p : p[c] \in Columns[c]
    /\ Handled \subseteq Units \cup Items
    /\ Moves \subseteq UnitStatuses
    /\ AnyUnit \notin Units
    /\ MaxRequests \in Nat

VARIABLES
    item,   \* inventory.items: item -> [active, reservable]
    unit,   \* inventory.item_units: unit -> [made, active, status]
    resv,   \* inventory.reservations: id -> row, NoRow before it is inserted
    req     \* user -> the request of theirs being served

vars == <<item, unit, resv, req>>

Nothing == [kind |-> "none"]
Requests ==
    {Nothing}
    \cup [kind : {"create"}, row : Row]
    \cup [kind : {"patch"}, id : Ids, patch : Patches]
    \cup [kind : {"cancel"}, id : Ids]
    \cup [kind : {"commit"}, id : Ids, row : Row, since : SUBSET (Ids \cup Units)]

TypeOK ==
    /\ item \in [Items -> [active : BOOLEAN, reservable : BOOLEAN]]
    /\ unit \in [Units -> [made : BOOLEAN, active : BOOLEAN, status : UnitStatuses]]
    /\ resv \in [Ids -> Row \cup {NoRow}]
    /\ req \in [Users -> Requests]

Init ==
    /\ item \in [Items -> [active : {TRUE}, reservable : BOOLEAN]]
    /\ unit \in [Units -> [made : BOOLEAN, active : {TRUE}, status : {"AVAILABLE"}]]
    /\ resv = [b \in Ids |-> NoRow]
    /\ req = [u \in Users |-> Nothing]

-----------------------------------------------------------------------------
(* Capacity                                                                *)

Confirmed(b) == resv[b].status = "CONFIRMED"

\* Half-open: a reservation that ends when another begins does not overlap it.
Overlap(r, s) == r.from < s.to /\ r.to > s.from

\* The confirmed reservations in the way of row, which is b's.
Rivals(b, row) == {g \in Ids \ {b} : Confirmed(g) /\ Overlap(resv[g], row)}

\* in_service_unit_count
InServiceUnits(i) ==
    {u \in Units : ItemOf[u] = i /\ unit[u].made /\ unit[u].active /\ unit[u].status \in InService}

Quantity(reservations) ==
    SumFunctionOnSet([b \in reservations |-> resv[b].quantity], reservations)

\* The trigger's two rules, which checkCapacity reads ahead of the write: a named unit is
\* no rival's, and what the rivals leave of the item's units is enough.
UnitIsFree(b, row) ==
    row.unit # AnyUnit => \A g \in Rivals(b, row) : resv[g].unit # row.unit
HasRoom(b, row) ==
    Quantity({g \in Rivals(b, row) : resv[g].item = row.item}) + row.quantity
        =< Cardinality(InServiceUnits(row.item))

Belongs(row) == row.unit # AnyUnit => ItemOf[row.unit] = row.item /\ unit[row.unit].made

\* Mutant of Passes: the unit's own reservations are not looked at, only the item's.
Passes_Pool(b, row) == row.status = "CONFIRMED" => Belongs(row) /\ HasRoom(b, row)

\* Mutant of Passes: each reservation counts as one unit.
Passes_Rows(b, row) ==
    row.status = "CONFIRMED" =>
        /\ Belongs(row) /\ UnitIsFree(b, row)
        /\ Cardinality({g \in Rivals(b, row) : resv[g].item = row.item})
               < Cardinality(InServiceUnits(row.item))

\* check_reservation_capacity: a cancelled reservation holds nothing.
Passes(b, row) ==
    row.status = "CONFIRMED" => Belongs(row) /\ UnitIsFree(b, row) /\ HasRoom(b, row)

\* reservationInvariantError, and the same CHECKs of the table.
WellFormed(row) == row.from < row.to /\ (row.unit # AnyUnit => row.quantity = 1)

\* cancelled_audit_check: an INSERT sets no cancelled_at; an UPDATE sets or clears it along
\* with the status.
Audited(b, row) == resv[b] = NoRow => row.status # "CANCELLED"

\* validateReservationRefs; a reservation on its way to CANCELLED may name a unit that is
\* out of service.
RefsExist(row) ==
    /\ item[row.item].active /\ item[row.item].reservable
    /\ Belongs(row)
    /\ row.unit # AnyUnit =>
        /\ unit[row.unit].active
        /\ row.status = "CONFIRMED" => unit[row.unit].status \in InService

\* The checks of a request that would leave row in b, read one after another.
Judged(b, row) ==
    /\ WellFormed(row) /\ RefsExist(row)
    /\ row.status = "CONFIRMED" => UnitIsFree(b, row) /\ HasRoom(b, row)

-----------------------------------------------------------------------------
(* Requests and statements                                                 *)

Asks(u, kind) == req[u].kind = kind
Open(u, r) ==
    /\ Asks(u, "none")
    /\ Cardinality({v \in Users : ~Asks(v, "none")}) < MaxRequests
    /\ req' = [req EXCEPT ![u] = r]
Done(u) == req' = [req EXCEPT ![u] = Nothing]

\* The row lock a statement holds until its commit.
Locked(b) == \E u \in Users : Asks(u, "commit") /\ req[u].id = b

\* A request when another has written reservation or unit x.
Noting(r, x) == IF r.kind = "commit" THEN [r EXCEPT !.since = @ \cup {x}] ELSE r

\* The statement of u would leave row in b: it passes the constraints and the trigger and
\* waits for its commit, or the request answers with an error.
Write(u, b, row) ==
    IF WellFormed(row) /\ Audited(b, row) /\ Passes(b, row)
    THEN req' = [req EXCEPT ![u] = [kind |-> "commit", id |-> b, row |-> row, since |-> {}]]
    ELSE Done(u)

\* validateWriteAccess
Owns(u, b) == u = resv[b].owner \/ u \in Admins

BeginCreate(u, b, row) ==
    /\ resv[b] = NoRow
    /\ u \notin Admins => row.owner = u /\ u \notin Suspended
    /\ Judged(b, row)
    /\ Open(u, [kind |-> "create", row |-> row])
    /\ UNCHANGED <<item, unit, resv>>

\* insertReservation, with an id of its own.
Insert(u, b) ==
    /\ Asks(u, "create")
    /\ resv[b] = NoRow
    /\ ~Locked(b)
    /\ Write(u, b, req[u].row)
    /\ UNCHANGED <<item, unit, resv>>

\* The reservation with the columns of the patch set.
Patched(row, p) == [c \in DOMAIN row |-> IF c \in DOMAIN p THEN p[c] ELSE row[c]]

\* PATCH /:id: the patch is judged on the reservation as it is now, whatever its status.
BeginPatch(u, b, p) ==
    /\ resv[b] # NoRow
    /\ Owns(u, b)
    /\ u \notin Admins => u \notin Suspended /\ ("owner" \in DOMAIN p => p.owner = u)
    /\ Judged(b, Patched(resv[b], p))
    /\ Open(u, [kind |-> "patch", id |-> b, patch |-> p])
    /\ UNCHANGED <<item, unit, resv>>

\* updateReservation: the columns of the patch, on the reservation as it is by now.
Update(u) ==
    LET b == req[u].id IN
    /\ Asks(u, "patch")
    /\ ~Locked(b)
    /\ Write(u, b, Patched(resv[b], req[u].patch))
    /\ UNCHANGED <<item, unit, resv>>

Commit(u) ==
    /\ Asks(u, "commit")
    /\ resv' = [resv EXCEPT ![req[u].id] = req[u].row]
    /\ req' = [v \in Users |-> IF v = u THEN Nothing ELSE Noting(req[v], req[u].id)]
    /\ UNCHANGED <<item, unit>>

BeginCancel(u, b) ==
    /\ Confirmed(b)
    /\ Owns(u, b)
    /\ Open(u, [kind |-> "cancel", id |-> b])
    /\ UNCHANGED <<item, unit, resv>>

\* cancelReservation, of a reservation that is not CANCELLED by now.
Cancel(u) ==
    LET b == req[u].id IN
    /\ Asks(u, "cancel")
    /\ ~Locked(b)
    /\ resv' = [resv EXCEPT ![b].status = "CANCELLED"]
    /\ Done(u)
    /\ UNCHANGED <<item, unit>>

\* The backend dies, or a check it makes later refuses the request.
GiveUp(u) ==
    /\ ~Asks(u, "none")
    /\ Done(u)
    /\ UNCHANGED <<item, unit, resv>>

-----------------------------------------------------------------------------
(* The inventory admin: one transaction each, with its audit log entry     *)

\* POST /items/:id/units
AddUnit(u) ==
    /\ ~unit[u].made
    /\ unit' = [unit EXCEPT ![u].made = TRUE]
    /\ UNCHANGED <<item, resv, req>>

\* PUT /units/:unitId, which retires a unit or takes it back.
RetireUnit(u) ==
    /\ unit[u].made
    /\ unit' = [unit EXCEPT ![u].active = ~@]
    /\ req' = [v \in Users |-> Noting(req[v], u)]
    /\ UNCHANGED <<item, resv>>

\* transitionUnitStatus: no reservation is asked.
MoveUnit(u, status) ==
    /\ unit[u].made
    /\ unit' = [unit EXCEPT ![u].status = status]
    /\ req' = [v \in Users |-> Noting(req[v], u)]
    /\ UNCHANGED <<item, resv>>

\* upsertItem, which DELETE /items/:id calls as well.
EditItem(i, column) ==
    /\ item' = [item EXCEPT ![i][column] = ~@]
    /\ UNCHANGED <<unit, resv, req>>

-----------------------------------------------------------------------------

Serve(u) ==
    \/ \E b \in Ids, row \in Asked : BeginCreate(u, b, row)
    \/ \E b \in Ids, p \in Patches : BeginPatch(u, b, p)
    \/ \E b \in Ids : Insert(u, b) \/ BeginCancel(u, b)
    \/ Update(u) \/ Commit(u) \/ Cancel(u) \/ GiveUp(u)

Manage ==
    \/ \E u \in Units \cap Handled : AddUnit(u) \/ RetireUnit(u) \/ \E status \in Moves : MoveUnit(u, status)
    \/ \E i \in Items \cap Handled, column \in {"active", "reservable"} : EditItem(i, column)

Next == (\E u \in Users : Serve(u)) \/ Manage

Spec == Init /\ [][Next]_vars

-----------------------------------------------------------------------------
(* Properties                                                              *)

UnitClash(b, g) ==
    /\ b # g /\ Confirmed(b) /\ Confirmed(g)
    /\ resv[b].unit = resv[g].unit /\ resv[b].unit # AnyUnit
    /\ Overlap(resv[b], resv[g])

\* "must not collide with another reservation naming that same unit" (V2030): two confirmed
\* reservations of a unit come to overlap only if one was committed while the other waited
\* for its commit.  A unit retired and taken back, a reservation moved to another item or
\* confirmed again after its cancellation, and a check of the route that has gone stale
\* make no difference.
UnitApart ==
    [][\A b, g \in Ids : UnitClash(b, g)' /\ ~UnitClash(b, g) =>
           \E u \in Users : /\ Asks(u, "commit") /\ req[u].id \in {b, g}
                            /\ {b, g} \ {req[u].id} \subseteq req[u].since]_vars

\* What is promised of item i at hour t, the reservations in late aside.
Load(i, t, late) ==
    Quantity({b \in Ids \ late : /\ Confirmed(b) /\ resv[b].item = i
                                 /\ resv[b].from =< t /\ t < resv[b].to})

\* The units that can keep the promises, those in late included.
Keeping(i, late) == InServiceUnits(i) \cup {u \in Units : ItemOf[u] = i /\ u \in late}

\* A write that promises more of an item, at any hour, leaves no more promised than the units
\* in service can keep, but for what was written while it waited for its commit: promises
\* made and units taken meanwhile.  Units that leave service later leave promises behind;
\* nothing may add to them.
WriteFits ==
    [][\A i \in Items, t \in Hours :
           Load(i, t, {})' > Load(i, t, {}) =>
               \E u \in Users : /\ Asks(u, "commit")
                                /\ \E late \in {req[u].since} :
                                       Load(i, t, late)' =< Cardinality(Keeping(i, late))']_vars

=============================================================================
