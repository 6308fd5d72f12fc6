------------------------------ MODULE Removal ------------------------------
(***************************************************************************)
(* A membership cancelled and restored (routes/members/api.ts,             *)
(* db/member-queries.ts): the register, the snapshot that restoring reads, *)
(* the member's bookings and the credit note for the fee of the year.      *)
(* Composes Suspension, whose sweep and whose admins write the same        *)
(* canMakeReservations while a cancellation is under way.                  *)
(*                                                                         *)
(* A cancellation looks at the member's type, reads what is to be restored *)
(* and writes it back, without a lock: another request may write the       *)
(* register in between, and the snapshot is of that then.  A request keeps *)
(* as history whether one did (late).                                      *)
(***************************************************************************)
EXTENDS Suspension

CONSTANTS
    Kinds,      \* MIKMemberTypes but REMOVED
    Flown       \* members with a billable flight this year

ASSUME RemovalAssumption ==
    /\ "FLYING" \in Kinds /\ Kinds \cap {"REMOVED", "LATE"} = {}
    /\ Flown \subseteq Members

VARIABLES
    kind,       \* member -> member.register.member_type
    snapshot,   \* member -> pre_removal_snapshot, NoSnapshot where it is null
    was,        \* history: member -> the type last removed, "LATE" if by an overtaken request
    fee,        \* member -> the year's annual fee invoice: "none", "unpaid" or "paid"
    notes       \* member -> CREDIT_NOTE messages for that invoice, counted up to 2

registerVars == <<kind, snapshot, was, fee, notes>>
allVars == <<vars, registerVars>>

NoSnapshot == [kind |-> "none"]
Snapshots == [kind : Kinds \cup {"REMOVED"}, mayReserve : BOOLEAN]

\* The requests that cancelling and restoring are once they have read the member's type.
Cancellations == [kind : {"clear", "list", "note", "return"}, member : Members]
                 \cup [kind : {"leave"}, member : Members, late : BOOLEAN]
                 \cup [kind : {"remove"}, member : Members, late : BOOLEAN, seen : Snapshots]

\* Type invariant of the register, the requests and the sweep.
TypeOK ==
    /\ RowsTypeOK
    /\ overdue \in [Members -> {"none", "late", "long"}]
    /\ sweep \in Sweeps
    /\ req \in [Users -> Requests \cup Revocations \cup Cancellations]
    /\ kind \in [Members -> Kinds \cup {"REMOVED"}]
    /\ snapshot \in [Members -> Snapshots \cup {NoSnapshot}]
    /\ was \in [Members -> Kinds \cup {"LATE"}]
    /\ fee \in [Members -> {"none", "unpaid", "paid"}]
    /\ notes \in [Members -> 0..2]

RemovalInit ==
    /\ Init
    /\ kind \in [Members -> Kinds]
    /\ snapshot = [m \in Members |-> NoSnapshot]
    /\ was = kind
    /\ fee = [m \in Members |-> "none"]
    /\ notes = [m \in Members |-> 0]

Elsewhere == <<claim, mailVars, now, crashes, overdue, sweep>>

\* The requests after one about m that leaves them at r has written the register.
Overtaken(r, m) ==
    [v \in Users |-> IF r[v].kind \in {"leave", "remove"} /\ r[v].member = m
                       THEN [r[v] EXCEPT !.late = TRUE] ELSE r[v]]

-----------------------------------------------------------------------------
(* cancelMembershipHandler, asked by the member or by an admin             *)

\* Mutant of BeginLeave: that the member is removed already is not looked at.
BeginLeave_Again(u, m) ==
    /\ u = m \/ u \in Admins
    /\ m \notin Flown
    /\ Open(u, [kind |-> "leave", member |-> m, late |-> FALSE])
    /\ UNCHANGED <<rowVars, Elsewhere, registerVars>>

\* Its checks: not removed yet, nothing flown this year that is billed.
BeginLeave(u, m) ==
    /\ u = m \/ u \in Admins
    /\ kind[m] # "REMOVED"
    /\ m \notin Flown
    /\ Open(u, [kind |-> "leave", member |-> m, late |-> FALSE])
    /\ UNCHANGED <<rowVars, Elsewhere, registerVars>>

\* deactivateMember: what is to be restored is read, ...
ReadMember(u) ==
    LET m == req[u].member IN
    /\ Asks(u, "leave")
    /\ req' = [req EXCEPT ![u] = [kind |-> "remove", member |-> m, late |-> @.late,
                                  seen |-> [kind |-> kind[m], mayReserve |-> mayReserve[m]]]]
    /\ UNCHANGED <<rowVars, Elsewhere, registerVars>>

\* ... and written back with the member's new type.
Deactivate(u) ==
    LET m == req[u].member IN
    /\ Asks(u, "remove")
    /\ kind' = [kind EXCEPT ![m] = "REMOVED"]
    /\ snapshot' = [snapshot EXCEPT ![m] = req[u].seen]
    /\ was' = [was EXCEPT ![m] = IF req[u].late THEN "LATE"
                                 ELSE IF kind[m] = "REMOVED" THEN @ ELSE kind[m]]
    /\ mayReserve' = [mayReserve EXCEPT ![m] = FALSE]
    /\ req' = Overtaken([req EXCEPT ![u] = [kind |-> "clear", member |-> m]], m)
    /\ UNCHANGED <<book, Elsewhere, fee, notes>>

\* The future bookings; if the trigger raises the request ends here.
ClearBookings(u) ==
    /\ Asks(u, "clear")
    /\ CancelAll(req[u].member,
                 req' = [req EXCEPT ![u] = [kind |-> "list", member |-> req[u].member]],
                 Done(u))
    /\ UNCHANGED <<mayReserve, Elsewhere, registerVars>>

\* getUnpaidMembershipFeesForYear: the key of annual_fees leaves one annual fee at most.
ListFees(u) ==
    /\ Asks(u, "list")
    /\ IF fee[req[u].member] = "unpaid"
         THEN req' = [req EXCEPT ![u] = [kind |-> "note", member |-> req[u].member]]
         ELSE Done(u)
    /\ UNCHANGED <<rowVars, Elsewhere, registerVars>>

\* The CREDIT_NOTE message, whatever has become of the invoice since.
SendNote(u) ==
    LET m == req[u].member IN
    /\ Asks(u, "note")
    /\ notes' = [notes EXCEPT ![m] = IF @ < 2 THEN @ + 1 ELSE @]
    /\ Done(u)
    /\ UNCHANGED <<rowVars, Elsewhere, kind, snapshot, was, fee>>

-----------------------------------------------------------------------------
(* POST /members/:memberId/restore                                         *)

BeginReturn(u, m) ==
    /\ u \in Admins
    /\ kind[m] = "REMOVED"
    /\ Open(u, [kind |-> "return", member |-> m])
    /\ UNCHANGED <<rowVars, Elsewhere, registerVars>>

\* restoreMember, on a locked row; without a snapshot it falls back on FLYING.
RestoreMember(u) ==
    LET m == req[u].member
        before == IF snapshot[m] = NoSnapshot THEN [kind |-> "FLYING", mayReserve |-> TRUE]
                  ELSE snapshot[m] IN
    /\ Asks(u, "return")
    /\ kind' = [kind EXCEPT ![m] = before.kind]
    /\ mayReserve' = [mayReserve EXCEPT ![m] = before.mayReserve]
    /\ snapshot' = [snapshot EXCEPT ![m] = NoSnapshot]
    /\ req' = Overtaken([req EXCEPT ![u] = Nothing], m)
    /\ UNCHANGED <<book, Elsewhere, was, fee, notes>>

-----------------------------------------------------------------------------

\* The outbox handler invoices the annual fee, whose message may be older than a removal.
InvoiceFee(m) ==
    /\ fee[m] = "none"
    /\ fee' = [fee EXCEPT ![m] = "unpaid"]
    /\ UNCHANGED <<vars, kind, snapshot, was, notes>>

\* The payment sync finds the invoice paid, or closed by the receipts of a credit note.
PayFee(m) ==
    /\ fee[m] = "unpaid"
    /\ fee' = [fee EXCEPT ![m] = "paid"]
    /\ UNCHANGED <<vars, kind, snapshot, was, notes>>

Register(u) ==
    \/ \E m \in Members : BeginLeave(u, m) \/ BeginReturn(u, m)
    \/ ReadMember(u) \/ Deactivate(u) \/ ClearBookings(u) \/ ListFees(u) \/ SendNote(u)
    \/ RestoreMember(u)

RemovalNext ==
    \/ Next /\ UNCHANGED registerVars
    \/ \E u \in Users : Register(u)
    \/ \E m \in Members : InvoiceFee(m) \/ PayFee(m)

RemovalSpec == RemovalInit /\ [][RemovalNext]_allVars

-----------------------------------------------------------------------------
(* Properties                                                              *)

\* "so it can be accurately restored" (db/member-queries.ts:938): whoever cancels a membership
\* and however often, and wherever a crash stops it, a removed member's snapshot holds the
\* type of before the removal.  Only a cancellation overtaken by another request's write of
\* the register, between its look at the type and its own write, may lose it.
RestorableAsBefore ==
    \A m \in Members : kind[m] = "REMOVED" /\ was[m] # "LATE" =>
        snapshot[m] # NoSnapshot /\ snapshot[m].kind = was[m]

\* "Update member status to REMOVED and revoke permissions" (db/member-queries.ts:948): what
\* a removal has revoked the nightly sweep does not give back.
SweepLeavesRemoved ==
    [][\A m \in Members : kind[m] = "REMOVED" /\ ~mayReserve[m] /\ sweep' # sweep
           => ~mayReserve'[m]]_allVars

=============================================================================
