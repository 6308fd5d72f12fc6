----------------------- MODULE ItemReservations_proofs -----------------------
(***************************************************************************)
(* Proofs about ItemReservations, for any items, units, users,             *)
(* reservations and requests, the statements in flight included.           *)
(*                                                                         *)
(* The argument: a statement that waits for its commit has passed the      *)
(* trigger.  What the trigger counted holds on, but for the reservations   *)
(* committed and the units written since, which the statement notes:       *)
(* nothing but a commit promises a unit, and nothing but a unit's own      *)
(* write takes it out of service.                                          *)
(***************************************************************************)
EXTENDS ItemReservations, SumTheorems

USE ItemReservationsAssumption

\* A request that writes into a reservation is about one that exists.
AboutRows == \A u \in Users : Asks(u, "patch") \/ Asks(u, "cancel") => resv[req[u].id] # NoRow

\* The confirmed reservations, of those in rs, that row r waits next to and that it has seen.
Seen(rs, r) ==
    {g \in Ids \ ({r.id} \cup r.since) : rs[g].status = "CONFIRMED" /\ Overlap(rs[g], r.row)}
SeenOfItem(rs, r) == {g \in Seen(rs, r) : rs[g].item = r.row.item}

Promised(rs, S) == SumFunctionOnSet([g \in S |-> rs[g].quantity], S)

Serves(us, x) == us[x].made /\ us[x].active /\ us[x].status \in InService
ServingItem(us, r) == {x \in Units : ItemOf[x] = r.row.item /\ (Serves(us, x) \/ x \in r.since)}

\* What the trigger has found of the reservations rs and the units us and what holds on: the
\* statement's unit is free and its item has room.
Looked(rs, us, r) ==
    r.kind = "commit" /\ r.row.status = "CONFIRMED" =>
        /\ r.row.unit # AnyUnit => \A g \in Seen(rs, r) : rs[g].unit # r.row.unit
        /\ Promised(rs, SeenOfItem(rs, r)) + r.row.quantity =< Cardinality(ServingItem(us, r))

HaveLooked == \A u \in Users : Looked(resv, unit, req[u])

Typed == TypeOK /\ AboutRows

\* The inductive invariant.
IInv == Typed /\ HaveLooked

-----------------------------------------------------------------------------
(* Types                                                                   *)

\* A row is not the absence of one.
LEMMA RowStatus == \A r \in Row : r # NoRow /\ r.status \in {"CONFIRMED", "CANCELLED"}
BY DEF Row, NoRow

\* A PATCH of a reservation leaves a reservation.
LEMMA PatchedIsRow ==
  ASSUME NEW r \in Row, NEW p \in Patches
  PROVE  Patched(r, p) \in Row
<1> DEFINE q == Patched(r, p)
<1>1. DOMAIN r = DOMAIN Columns
  BY DEF Row, Columns
<1>2. q = [c \in DOMAIN Columns |-> IF c \in DOMAIN p THEN p[c] ELSE r[c]]
  BY <1>1 DEF Patched
<1>3. \A c \in DOMAIN Columns : r[c] \in Columns[c]
  BY DEF Row, Columns
<1>4. \A c \in DOMAIN Columns : q[c] \in Columns[c]
  BY <1>2, <1>3
<1> HIDE DEF q
<1>5. DOMAIN Columns = {"status", "owner", "item", "unit", "quantity", "from", "to"}
  BY DEF Columns
<1>6. /\ q.status \in {"CONFIRMED", "CANCELLED"} /\ q.owner \in Members /\ q.item \in Items
      /\ q.unit \in Units \cup {AnyUnit} /\ q.quantity \in Nat \ {0}
      /\ q.from \in Hours /\ q.to \in Hours
  BY <1>4 DEF Columns
<1>7. q = [c \in {"status", "owner", "item", "unit", "quantity", "from", "to"} |-> q[c]]
  BY <1>2, <1>5
<1>8. q \in Row
  BY <1>6, <1>7 DEF Row
<1> QED BY <1>8 DEF q

\* What a request of each kind carries.
LEMMA RequestTypes ==
  ASSUME TypeOK, NEW u \in Users
  PROVE  /\ req[u] \in Requests
         /\ Asks(u, "create") => req[u].row \in Row
         /\ Asks(u, "patch") => req[u].id \in Ids /\ req[u].patch \in Patches
         /\ Asks(u, "cancel") => req[u].id \in Ids
         /\ Asks(u, "commit") => /\ req[u].id \in Ids /\ req[u].row \in Row
                                 /\ req[u].since \in SUBSET (Ids \cup Units)
BY DEF TypeOK, Requests, Nothing, Asks

\* What a request notes leaves it a request of its kind, about the same.
LEMMA NotingKeeps ==
  ASSUME NEW r \in Requests, NEW x \in Ids \cup Units
  PROVE  /\ Noting(r, x) \in Requests
         /\ Noting(r, x).kind = r.kind
         /\ r.kind = "commit" => /\ Noting(r, x).id = r.id /\ Noting(r, x).row = r.row
                                 /\ Noting(r, x).since = r.since \cup {x}
         /\ r.kind # "commit" => Noting(r, x) = r
<1>1. CASE r.kind = "commit"
  <2>1. PICK id \in Ids, row \in Row, since \in SUBSET (Ids \cup Units) :
            r = [kind |-> "commit", id |-> id, row |-> row, since |-> since]
    BY <1>1 DEF Requests, Nothing
  <2>2. Noting(r, x) = [kind |-> "commit", id |-> id, row |-> row, since |-> since \cup {x}]
    BY <2>1 DEF Noting
  <2> QED BY <2>1, <2>2 DEF Requests
<1>2. CASE r.kind # "commit"
  BY <1>2 DEF Noting
<1> QED BY <1>1, <1>2

-----------------------------------------------------------------------------
(* What a statement has found holds on                                     *)

\* Fewer terms, each as it was, sum to no more.
LEMMA SumShrinks ==
  ASSUME NEW S, IsFiniteSet(S), NEW T \in SUBSET S, NEW f, NEW n,
         \A g \in S : f[g] \in Nat, \A g \in T : n[g] = f[g]
  PROVE  /\ SumFunctionOnSet(n, T) \in Nat /\ SumFunctionOnSet(f, S) \in Nat
         /\ SumFunctionOnSet(n, T) =< SumFunctionOnSet(f, S)
<1>1. IsFiniteSet(T) /\ \A g \in T : f[g] \in Nat
  BY FS_Subset
<1>2. SumFunctionOnSet(n, T) = SumFunctionOnSet(f, T)
  BY <1>1, SumSame
<1> QED BY <1>1, <1>2, SumSubset, SumIsNat

\* What the trigger has found of reservations rs and units us still holds of rl and ul when
\* every confirmed reservation and every lost unit that is new is noted.
LEMMA StillLooked ==
  ASSUME NEW rs \in [Ids -> Row \cup {NoRow}], NEW rl \in [Ids -> Row \cup {NoRow}],
         NEW us, NEW ul, NEW r, NEW s, r.row \in Row, Looked(rs, us, r),
         s.kind = r.kind, s.id = r.id, s.row = r.row, r.since \subseteq s.since,
         \A g \in Ids \ ({s.id} \cup s.since) : rl[g] = rs[g] \/ rl[g].status # "CONFIRMED",
         \A x \in Units \ s.since : Serves(us, x) => Serves(ul, x)
  PROVE  Looked(rl, ul, s)
<1> SUFFICES ASSUME r.kind = "commit", r.row.status = "CONFIRMED"
             PROVE  /\ r.row.unit # AnyUnit => \A g \in Seen(rl, s) : rl[g].unit # r.row.unit
                    /\ Promised(rl, SeenOfItem(rl, s)) + r.row.quantity
                           =< Cardinality(ServingItem(ul, s))
  BY DEF Looked
<1>1. \A g \in Seen(rl, s) : g \in Seen(rs, r) /\ rl[g] = rs[g]
  BY DEF Seen
<1>2. r.row.unit # AnyUnit => \A g \in Seen(rl, s) : rl[g].unit # r.row.unit
  BY <1>1 DEF Looked
<1>3. PICK S : S = SeenOfItem(rs, r)
  OBVIOUS
<1>4. PICK T : T = SeenOfItem(rl, s)
  OBVIOUS
<1>5. PICK f : f = [g \in S |-> rs[g].quantity]
  OBVIOUS
<1>6. PICK n : n = [g \in T |-> rl[g].quantity]
  OBVIOUS
<1>7. T \in SUBSET S /\ \A g \in T : rl[g] = rs[g]
  BY <1>1, <1>3, <1>4 DEF SeenOfItem
<1>8. IsFiniteSet(S) /\ \A g \in S : f[g] \in Nat
  <2>1. S \subseteq Ids /\ \A g \in S : rs[g] \in Row
    BY <1>3 DEF SeenOfItem, Seen, NoRow
  <2> QED BY <1>5, <2>1, FS_Subset DEF Row
<1>9. \A g \in T : n[g] = f[g]
  BY <1>5, <1>6, <1>7
<1>10. /\ Promised(rl, SeenOfItem(rl, s)) = SumFunctionOnSet(n, T)
       /\ Promised(rs, SeenOfItem(rs, r)) = SumFunctionOnSet(f, S)
  BY <1>3, <1>4, <1>5, <1>6 DEF Promised
<1>11. /\ SumFunctionOnSet(n, T) \in Nat /\ SumFunctionOnSet(f, S) \in Nat
       /\ SumFunctionOnSet(n, T) =< SumFunctionOnSet(f, S)
  BY <1>7, <1>8, <1>9, SumShrinks
<1>12. Cardinality(ServingItem(us, r)) =< Cardinality(ServingItem(ul, s))
       /\ Cardinality(ServingItem(us, r)) \in Nat /\ Cardinality(ServingItem(ul, s)) \in Nat
  <2>1. ServingItem(us, r) \subseteq ServingItem(ul, s) /\ ServingItem(ul, s) \subseteq Units
    BY DEF ServingItem
  <2>2. IsFiniteSet(ServingItem(ul, s)) /\ IsFiniteSet(ServingItem(us, r))
    BY <2>1, FS_Subset
  <2> QED BY <2>1, <2>2, FS_Subset, FS_CardinalityType
<1>13. r.row.quantity \in Nat
  BY DEF Row
<1>14. Promised(rs, SeenOfItem(rs, r)) + r.row.quantity =< Cardinality(ServingItem(us, r))
  BY DEF Looked
<1>15. Promised(rl, SeenOfItem(rl, s)) + r.row.quantity =< Cardinality(ServingItem(ul, s))
  BY <1>10, <1>11, <1>12, <1>13, <1>14
<1> QED BY <1>2, <1>15

-----------------------------------------------------------------------------
(* Steps                                                                   *)

\* The initial state satisfies the invariant.
LEMMA InitInv == Init => IInv
<1> SUFFICES ASSUME Init PROVE IInv
  OBVIOUS
<1>1. TypeOK
  BY DEF Init, TypeOK, Requests, UnitStatuses, InService
<1>2. \A u \in Users : req[u].kind = "none"
  BY DEF Init, Nothing
<1>3. AboutRows /\ HaveLooked
  BY <1>2 DEF AboutRows, HaveLooked, Looked, Asks
<1> QED BY <1>1, <1>3 DEF IInv, Typed

\* A request that a user can be left with.
Fine(r) ==
    /\ r \in Requests
    /\ r.kind \in {"patch", "cancel"} => resv[r.id] # NoRow

\* Having no request is fine, and has found nothing.
LEMMA NothingFine ==
  Fine(Nothing) /\ Nothing.kind = "none" /\ \A rs, us : Looked(rs, us, Nothing)
BY DEF Fine, Requests, Nothing, Looked

\* A step that only moves a request on keeps the invariant.
LEMMA RequestStep ==
  ASSUME IInv, NEW u \in Users, NEW r, Fine(r), Looked(resv, unit, r),
         req' = [req EXCEPT ![u] = r], UNCHANGED <<item, unit, resv>>
  PROVE  IInv'
<1>1. /\ req' \in [Users -> Requests] /\ req'[u] = r
      /\ \A v \in Users : v # u => req'[v] = req[v]
  BY DEF IInv, Typed, TypeOK, Fine
<1>2. TypeOK'
  BY <1>1 DEF IInv, Typed, TypeOK
<1>3. AboutRows'
  BY <1>1 DEF IInv, Typed, AboutRows, Fine, Asks
<1>4. HaveLooked'
  <2>1. \A v \in Users : Looked(resv, unit, req'[v])
    BY <1>1 DEF IInv, HaveLooked
  <2> QED BY <2>1 DEF HaveLooked
<1> QED BY <1>2, <1>3, <1>4 DEF IInv, Typed

\* A request other than a statement that waits.
LEMMA QuietStep ==
  ASSUME IInv, NEW u \in Users, NEW r, Fine(r), r.kind # "commit",
         req' = [req EXCEPT ![u] = r], UNCHANGED <<item, unit, resv>>
  PROVE  IInv'
<1>1. Looked(resv, unit, r)
  BY DEF Looked
<1> QED BY <1>1, RequestStep

\* What a statement leaves a user with: a commit to wait for, which the trigger let pass, or
\* nothing.
LEMMA WriteStep ==
  ASSUME IInv, NEW u \in Users, NEW b \in Ids, NEW row \in Row, Write(u, b, row),
         UNCHANGED <<item, unit, resv>>
  PROVE  IInv'
<1> DEFINE r == [kind |-> "commit", id |-> b, row |-> row, since |-> {}]
<1>1. CASE Done(u)
  BY <1>1, NothingFine, QuietStep DEF Done
<1>2. CASE Passes(b, row) /\ req' = [req EXCEPT ![u] = r]
  <2>1. Fine(r)
    BY DEF Fine, Requests
  <2>2. Looked(resv, unit, r)
    <3> SUFFICES ASSUME row.status = "CONFIRMED"
                 PROVE  /\ row.unit # AnyUnit => \A g \in Seen(resv, r) : resv[g].unit # row.unit
                        /\ Promised(resv, SeenOfItem(resv, r)) + row.quantity
                               =< Cardinality(ServingItem(unit, r))
      BY DEF Looked
    <3>1. Seen(resv, r) = Rivals(b, row)
      BY DEF Seen, Rivals, Confirmed
    <3>2. SeenOfItem(resv, r) = {g \in Rivals(b, row) : resv[g].item = row.item}
      BY <3>1 DEF SeenOfItem
    <3>3. ServingItem(unit, r) = InServiceUnits(row.item)
      BY DEF ServingItem, Serves, InServiceUnits
    <3> HIDE DEF r
    <3>4. UnitIsFree(b, row) /\ HasRoom(b, row)
      BY <1>2 DEF Passes
    <3> QED BY <3>1, <3>2, <3>3, <3>4 DEF UnitIsFree, HasRoom, Quantity, Promised
  <2> QED BY <1>2, <2>1, <2>2, RequestStep
<1> QED BY <1>1, <1>2 DEF Write

\* Everyone notes that reservation or unit x was written.
LEMMA Noted ==
  ASSUME TypeOK, NEW x \in Ids \cup Units, NEW v \in Users, req'[v] = Noting(req[v], x)
  PROVE  /\ req'[v] \in Requests /\ req'[v].kind = req[v].kind
         /\ Asks(v, "commit") => /\ req'[v].id = req[v].id /\ req'[v].row = req[v].row
                                 /\ req'[v].since = req[v].since \cup {x}
         /\ ~Asks(v, "commit") => req'[v] = req[v]
<1>1. req[v] \in Requests
  BY DEF TypeOK
<1> QED BY <1>1, NotingKeeps DEF Asks

\* A commit puts a row where its statement said and ends the request.
LEMMA CommitStep ==
  ASSUME IInv, NEW u \in Users, Commit(u)
  PROVE  /\ IInv'
         /\ req[u].id \in Ids /\ req[u].row \in Row /\ resv'[req[u].id] = req[u].row
         /\ \A g \in Ids : g # req[u].id => resv'[g] = resv[g]
         /\ unit' = unit
<1> DEFINE b == req[u].id
           row == req[u].row
<1> USE DEF IInv, Typed
<1>1. b \in Ids /\ row \in Row
  BY RequestTypes DEF Commit
<1>2. /\ req' = [v \in Users |-> IF v = u THEN Nothing ELSE Noting(req[v], b)]
      /\ resv' = [resv EXCEPT ![b] = row] /\ item' = item /\ unit' = unit
  BY DEF Commit
<1> HIDE DEF b, row
<1>3. /\ resv'[b] = row /\ \A g \in Ids : g # b => resv'[g] = resv[g]
      /\ resv' \in [Ids -> Row \cup {NoRow}]
  BY <1>1, <1>2 DEF TypeOK
<1>4. req'[u] = Nothing /\ \A v \in Users : v # u => req'[v] = Noting(req[v], b)
  BY <1>2
<1>5. req' \in [Users -> Requests]
  <2>1. \A v \in Users : req'[v] \in Requests
    BY <1>1, <1>4, Noted, NothingFine DEF Fine
  <2>2. req' = [v \in Users |-> req'[v]]
    BY <1>2
  <2> HIDE DEF IInv, Typed
  <2> QED BY <2>1, <2>2
<1>6. TypeOK'
  BY <1>2, <1>3, <1>5 DEF TypeOK
<1>7. AboutRows'
  <2> SUFFICES ASSUME NEW v \in Users, Asks(v, "patch")' \/ Asks(v, "cancel")'
               PROVE  resv'[req'[v].id] # NoRow
    BY DEF AboutRows
  <2>1. v # u
    BY <1>4, NothingFine DEF Asks
  <2>2. req'[v] = req[v]
    BY <1>1, <1>4, <2>1, Noted DEF Asks
  <2>3. (Asks(v, "patch") \/ Asks(v, "cancel")) /\ req[v].id \in Ids /\ resv[req[v].id] # NoRow
    BY <2>2, RequestTypes DEF Asks, AboutRows
  <2> QED BY <1>1, <1>3, <2>2, <2>3, RowStatus
<1>8. HaveLooked'
  <2> SUFFICES ASSUME NEW v \in Users PROVE Looked(resv', unit, req'[v])
    BY <1>2 DEF HaveLooked
  <2>1. CASE v = u
    BY <1>4, <2>1, NothingFine
  <2>2. CASE v # u /\ Asks(v, "commit")
    <3>1. /\ req'[v].kind = req[v].kind /\ req'[v].id = req[v].id /\ req'[v].row = req[v].row
          /\ req'[v].since = req[v].since \cup {b} /\ req[v].row \in Row
      BY <1>1, <1>4, <2>2, Noted, RequestTypes
    <3>2. \A g \in Ids \ req'[v].since : resv'[g] = resv[g]
      BY <1>3, <3>1
    <3>3. resv \in [Ids -> Row \cup {NoRow}] /\ Looked(resv, unit, req[v])
      BY DEF TypeOK, HaveLooked
    <3> HIDE DEF IInv, Typed
    <3> QED BY <1>3, <3>1, <3>2, <3>3, StillLooked
  <2>3. CASE v # u /\ ~Asks(v, "commit")
    BY <1>1, <1>4, <2>3, Noted DEF Looked, Asks
  <2> QED BY <2>1, <2>2, <2>3
<1> QED BY <1>1, <1>2, <1>3, <1>6, <1>7, <1>8 DEF b, row

\* A cancellation leaves a row that is cancelled and ends the request.
LEMMA CancelStep ==
  ASSUME IInv, NEW u \in Users, Cancel(u)
  PROVE  /\ IInv'
         /\ req[u].id \in Ids /\ resv'[req[u].id].status = "CANCELLED"
         /\ \A g \in Ids : g # req[u].id => resv'[g] = resv[g]
         /\ unit' = unit
<1> DEFINE b == req[u].id
<1> USE DEF IInv, Typed
<1>1. b \in Ids /\ resv[b] \in Row
  BY RequestTypes DEF Cancel, AboutRows, TypeOK
<1>2. /\ req' \in [Users -> Requests] /\ req'[u] = Nothing
      /\ \A v \in Users : v # u => req'[v] = req[v]
  BY NothingFine DEF TypeOK, Cancel, Done, Fine
<1>3. resv' = [resv EXCEPT ![b].status = "CANCELLED"] /\ item' = item /\ unit' = unit
  BY DEF Cancel
<1> HIDE DEF b
<1>4. /\ resv'[b] = [resv[b] EXCEPT !.status = "CANCELLED"]
      /\ \A g \in Ids : g # b => resv'[g] = resv[g]
  BY <1>1, <1>3 DEF TypeOK
<1>5. resv'[b] \in Row /\ resv'[b].status = "CANCELLED"
  BY <1>1, <1>4 DEF Row
<1>6. resv' \in [Ids -> Row \cup {NoRow}]
  BY <1>1, <1>3, <1>4, <1>5 DEF TypeOK
<1>7. TypeOK'
  BY <1>2, <1>3, <1>6 DEF TypeOK
<1>8. AboutRows'
  BY <1>1, <1>2, <1>4, <1>5, RowStatus, RequestTypes, NothingFine DEF AboutRows, Asks
<1>9. HaveLooked'
  <2> SUFFICES ASSUME NEW v \in Users PROVE Looked(resv', unit, req'[v])
    BY <1>3 DEF HaveLooked
  <2>1. CASE v = u \/ ~Asks(v, "commit")
    BY <1>2, <2>1, NothingFine DEF Looked, Asks
  <2>2. CASE v # u /\ Asks(v, "commit")
    <3>1. req'[v] = req[v] /\ req[v].row \in Row
      BY <1>2, <2>2, RequestTypes
    <3>2. \A g \in Ids : resv'[g] = resv[g] \/ resv'[g].status # "CONFIRMED"
      BY <1>4, <1>5
    <3>3. resv \in [Ids -> Row \cup {NoRow}] /\ Looked(resv, unit, req[v])
      BY DEF TypeOK, HaveLooked
    <3> HIDE DEF IInv, Typed
    <3> QED BY <1>6, <3>1, <3>2, <3>3, StillLooked
  <2> QED BY <2>1, <2>2
<1> QED BY <1>1, <1>3, <1>4, <1>5, <1>7, <1>8, <1>9 DEF b

\* A unit is written that the statements note, or that serves no less than before.
LEMMA UnitStep ==
  ASSUME IInv, item' \in [Items -> [active : BOOLEAN, reservable : BOOLEAN]],
         unit' \in [Units -> [made : BOOLEAN, active : BOOLEAN, status : UnitStatuses]],
         resv' = resv, NEW x \in Units,
         \A y \in Units \ {x} : unit'[y] = unit[y],
         \/ req' = [v \in Users |-> Noting(req[v], x)]
         \/ req' = req /\ (Serves(unit, x) => Serves(unit', x))
  PROVE  IInv'
<1> USE DEF IInv, Typed
<1>1. \A v \in Users : req'[v] = req[v] \/ req'[v] = Noting(req[v], x)
  OBVIOUS
<1>2. req' \in [Users -> Requests]
  <2>1. \A v \in Users : req'[v] \in Requests
    BY <1>1, Noted DEF TypeOK
  <2>2. req' = req \/ req' = [v \in Users |-> req'[v]]
    OBVIOUS
  <2>3. req \in [Users -> Requests]
    BY DEF TypeOK
  <2> HIDE DEF IInv, Typed
  <2> QED BY <2>1, <2>2, <2>3
<1>3. TypeOK'
  BY <1>2 DEF TypeOK
<1>4. AboutRows'
  <2> SUFFICES ASSUME NEW v \in Users, Asks(v, "patch")' \/ Asks(v, "cancel")'
               PROVE  resv[req'[v].id] # NoRow
    BY DEF AboutRows
  <2>1. req'[v] = req[v]
    BY <1>1, Noted DEF Asks
  <2> QED BY <2>1 DEF AboutRows, Asks
<1>5. HaveLooked'
  <2> SUFFICES ASSUME NEW v \in Users PROVE Looked(resv, unit', req'[v])
    BY DEF HaveLooked
  <2>1. CASE ~Asks(v, "commit")
    BY <1>1, <2>1, Noted DEF Looked, Asks
  <2>2. CASE Asks(v, "commit")
    <3>1. /\ req'[v].kind = req[v].kind /\ req'[v].id = req[v].id /\ req'[v].row = req[v].row
          /\ req[v].since \subseteq req'[v].since /\ req[v].row \in Row
      BY <1>1, <2>2, Noted, RequestTypes
    <3>2. \A y \in Units \ req'[v].since : Serves(unit, y) => Serves(unit', y)
      <4> SUFFICES ASSUME NEW y \in Units \ req'[v].since PROVE Serves(unit, y) => Serves(unit', y)
        OBVIOUS
      <4>1. CASE y # x
        BY <4>1 DEF Serves
      <4>2. CASE y = x
        BY <2>2, <4>2, Noted
      <4> QED BY <4>1, <4>2
    <3>3. resv \in [Ids -> Row \cup {NoRow}] /\ Looked(resv, unit, req[v])
      BY DEF TypeOK, HaveLooked
    <3> HIDE DEF IInv, Typed
    <3> QED BY <3>1, <3>2, <3>3, StillLooked
  <2> QED BY <2>1, <2>2
<1> QED BY <1>3, <1>4, <1>5

\* The inventory admin keeps the invariant and moves no reservation.
LEMMA ManageStep == ASSUME IInv, Manage PROVE IInv' /\ resv' = resv
<1> USE DEF IInv, Typed, TypeOK
<1>1. ASSUME NEW u \in Units, AddUnit(u) PROVE IInv' /\ resv' = resv
  <2>1. /\ unit' \in [Units -> [made : BOOLEAN, active : BOOLEAN, status : UnitStatuses]]
        /\ \A y \in Units \ {u} : unit'[y] = unit[y]
        /\ Serves(unit, u) => Serves(unit', u)
    BY <1>1 DEF AddUnit, Serves
  <2>2. item' = item /\ resv' = resv /\ req' = req
    BY <1>1 DEF AddUnit
  <2> QED BY <2>1, <2>2, UnitStep
<1>2. ASSUME NEW u \in Units, RetireUnit(u) PROVE IInv' /\ resv' = resv
  <2>1. /\ unit' \in [Units -> [made : BOOLEAN, active : BOOLEAN, status : UnitStatuses]]
        /\ \A y \in Units \ {u} : unit'[y] = unit[y]
    BY <1>2 DEF RetireUnit
  <2>2. item' = item /\ resv' = resv /\ req' = [v \in Users |-> Noting(req[v], u)]
    BY <1>2 DEF RetireUnit
  <2> QED BY <2>1, <2>2, UnitStep
<1>3. ASSUME NEW u \in Units, NEW status \in Moves, MoveUnit(u, status) PROVE IInv' /\ resv' = resv
  <2>1. /\ unit' \in [Units -> [made : BOOLEAN, active : BOOLEAN, status : UnitStatuses]]
        /\ \A y \in Units \ {u} : unit'[y] = unit[y]
    BY <1>3 DEF MoveUnit
  <2>2. item' = item /\ resv' = resv /\ req' = [v \in Users |-> Noting(req[v], u)]
    BY <1>3 DEF MoveUnit
  <2> QED BY <2>1, <2>2, UnitStep
<1>4. ASSUME NEW i \in Items, NEW column \in {"active", "reservable"}, EditItem(i, column)
      PROVE  IInv' /\ resv' = resv
  <2>1. column = "active" \/ column = "reservable"
    OBVIOUS
  <2>2. item' \in [Items -> [active : BOOLEAN, reservable : BOOLEAN]]
    BY <1>4, <2>1 DEF EditItem
  <2>3. UNCHANGED <<unit, resv, req>>
    BY <1>4 DEF EditItem
  <2> QED BY <2>2, <2>3 DEF AboutRows, HaveLooked, Asks
<1> QED BY <1>1, <1>2, <1>3, <1>4 DEF Manage

\* The reservation that a PATCH would leave is one.
LEMMA UpdateIsRow ==
  ASSUME Typed, NEW u \in Users, Update(u)
  PROVE  req[u].id \in Ids /\ Patched(resv[req[u].id], req[u].patch) \in Row
<1>1. req[u].id \in Ids /\ req[u].patch \in Patches /\ resv[req[u].id] \in Row
  BY RequestTypes DEF Update, Typed, AboutRows, TypeOK
<1> QED BY <1>1, PatchedIsRow

\* Every step keeps the invariant.
LEMMA NextInv == IInv /\ [Next]_vars => IInv'
<1> SUFFICES ASSUME IInv, [Next]_vars PROVE IInv'
  OBVIOUS
<1>1. ASSUME NEW u \in Users, NEW b \in Ids, NEW row \in Asked, BeginCreate(u, b, row)
      PROVE  IInv'
  <2>1. Fine([kind |-> "create", row |-> row])
    BY DEF Fine, Requests
  <2> QED BY <1>1, <2>1, QuietStep DEF BeginCreate, Open
<1>2. ASSUME NEW u \in Users, NEW b \in Ids, NEW p \in Patches, BeginPatch(u, b, p)
      PROVE  IInv'
  <2>1. Fine([kind |-> "patch", id |-> b, patch |-> p])
    BY <1>2 DEF Fine, Requests, BeginPatch
  <2> QED BY <1>2, <2>1, QuietStep DEF BeginPatch, Open
<1>3. ASSUME NEW u \in Users, NEW b \in Ids, BeginCancel(u, b)
      PROVE  IInv'
  <2>1. Fine([kind |-> "cancel", id |-> b])
    BY <1>3 DEF Fine, Requests, BeginCancel, Confirmed, NoRow
  <2> QED BY <1>3, <2>1, QuietStep DEF BeginCancel, Open
<1>4. ASSUME NEW u \in Users, NEW b \in Ids, Insert(u, b)
      PROVE  IInv'
  BY <1>4, WriteStep, RequestTypes DEF Insert, IInv, Typed
<1>5. ASSUME NEW u \in Users, Update(u)
      PROVE  IInv'
  BY <1>5, UpdateIsRow, WriteStep DEF Update, IInv
<1>6. ASSUME NEW u \in Users, GiveUp(u)
      PROVE  IInv'
  BY <1>6, QuietStep, NothingFine DEF GiveUp, Done
<1>7. CASE UNCHANGED vars
  BY <1>7 DEF vars, IInv, Typed, TypeOK, AboutRows, HaveLooked, Asks
<1> QED BY <1>1, <1>2, <1>3, <1>4, <1>5, <1>6, <1>7, CommitStep, CancelStep, ManageStep
     DEF Next, Serve

\* Rows, units, items and requests have the types of their tables.
THEOREM TypeCorrect == Spec => []TypeOK
<1>1. IInv => TypeOK
  BY DEF IInv, Typed
<1> QED BY InitInv, NextInv, <1>1, PTL DEF Spec

\* Only a commit and a cancellation write a reservation.
LEMMA Writers ==
  ASSUME IInv, Next, resv' # resv PROVE \E u \in Users : Commit(u) \/ Cancel(u)
BY ManageStep DEF Next, Serve, BeginCreate, BeginPatch, BeginCancel, Insert, Update, GiveUp

-----------------------------------------------------------------------------
(* Units apart                                                             *)

\* Two confirmed reservations of a unit come to overlap only if one was committed while the
\* other waited for its commit: the trigger has found the unit free of all others.
THEOREM UnitsStayApart == Spec => UnitApart
<1> DEFINE Apart ==
      \A b, g \in Ids : UnitClash(b, g)' /\ ~UnitClash(b, g) =>
          \E u \in Users : /\ Asks(u, "commit") /\ req[u].id \in {b, g}
                           /\ {b, g} \ {req[u].id} \subseteq req[u].since
<1>1. IInv /\ [Next]_vars => [Apart]_vars
  <2> SUFFICES ASSUME IInv, Next, NEW b \in Ids, NEW g \in Ids,
                      UnitClash(b, g)', ~UnitClash(b, g)
               PROVE  \E u \in Users : /\ Asks(u, "commit") /\ req[u].id \in {b, g}
                                       /\ {b, g} \ {req[u].id} \subseteq req[u].since
    OBVIOUS
  <2>1. resv' # resv
    BY DEF UnitClash, Confirmed
  <2>2. PICK u \in Users : Commit(u) \/ Cancel(u)
    BY <2>1, Writers
  <2>3. CASE Cancel(u)
    BY <2>3, CancelStep DEF UnitClash, Confirmed
  <2>4. CASE Commit(u)
    <3> DEFINE i == req[u].id
               row == req[u].row
    <3>1. /\ i \in Ids /\ row \in Row /\ resv'[i] = row
          /\ \A h \in Ids : h # i => resv'[h] = resv[h]
          /\ Asks(u, "commit")
      BY <2>4, CommitStep DEF Commit
    <3>2. Looked(resv, unit, req[u]) /\ resv \in [Ids -> Row \cup {NoRow}]
      BY DEF IInv, Typed, TypeOK, HaveLooked
    <3>3. i \in {b, g}
      BY <3>1 DEF UnitClash, Confirmed
    <3>4. PICK h \in {b, g} : h # i /\ {b, g} = {i, h}
      BY <3>3 DEF UnitClash
    <3>5. /\ row.status = "CONFIRMED" /\ row.unit # AnyUnit
          /\ resv[h].status = "CONFIRMED" /\ resv[h].unit = row.unit
          /\ Overlap(resv[h], row) \/ Overlap(row, resv[h])
      BY <3>1, <3>4 DEF UnitClash, Confirmed
    <3>6. Overlap(resv[h], row)
      <4>1. resv[h] \in Row
        BY <3>2, <3>4, <3>5 DEF NoRow
      <4> QED BY <3>1, <3>5, <4>1 DEF Overlap, Row
    <3>7. h \in req[u].since
      BY <3>1, <3>2, <3>4, <3>5, <3>6 DEF Looked, Seen, Asks
    <3> QED BY <3>1, <3>3, <3>4, <3>7
  <2> QED BY <2>2, <2>3, <2>4
<1> QED BY <1>1, InitInv, NextInv, PTL DEF Spec, UnitApart

-----------------------------------------------------------------------------
(* What a write promises                                                   *)

\* The reservations of rs that Load adds up.
Held(rs, i, t, late) ==
    {b \in Ids \ late : /\ rs[b].status = "CONFIRMED" /\ rs[b].item = i
                        /\ rs[b].from =< t /\ t < rs[b].to}

\* A table of reservations that promises no more than another at an hour.
LEMMA LoadShrinks ==
  ASSUME NEW rs \in [Ids -> Row \cup {NoRow}], NEW rl, NEW i, NEW t,
         \A g \in Held(rl, i, t, {}) : rl[g] = rs[g]
  PROVE  ~(Promised(rl, Held(rl, i, t, {})) > Promised(rs, Held(rs, i, t, {})))
<1>1. PICK S : S = Held(rs, i, t, {})
  OBVIOUS
<1>2. PICK T : T = Held(rl, i, t, {})
  OBVIOUS
<1>3. PICK f : f = [g \in S |-> rs[g].quantity]
  OBVIOUS
<1>4. PICK n : n = [g \in T |-> rl[g].quantity]
  OBVIOUS
<1>5. T \in SUBSET S
  BY <1>1, <1>2 DEF Held
<1>6. IsFiniteSet(S) /\ \A g \in S : f[g] \in Nat
  <2>1. S \subseteq Ids /\ \A g \in S : rs[g] \in Row
    BY <1>1 DEF Held, NoRow
  <2> QED BY <1>3, <2>1, FS_Subset DEF Row
<1>7. \A g \in T : n[g] = f[g]
  BY <1>2, <1>3, <1>4, <1>5
<1>8. /\ SumFunctionOnSet(n, T) \in Nat /\ SumFunctionOnSet(f, S) \in Nat
      /\ SumFunctionOnSet(n, T) =< SumFunctionOnSet(f, S)
  BY <1>5, <1>6, <1>7, SumShrinks
<1> QED BY <1>1, <1>2, <1>3, <1>4, <1>8 DEF Promised

\* A row that the trigger let pass, put in its place: what was written since aside, no more
\* is promised of its item than the units can keep.
LEMMA CommitFits ==
  ASSUME NEW rs \in [Ids -> Row \cup {NoRow}], NEW rl, NEW us, NEW r,
         r.kind = "commit", r.row \in Row, r.row.status = "CONFIRMED", Looked(rs, us, r),
         \A g \in Ids : rl[g] = IF g = r.id THEN r.row ELSE rs[g],
         NEW t \in Hours, r.row.from =< t, t < r.row.to
  PROVE  Promised(rl, Held(rl, r.row.item, t, r.since)) =< Cardinality(ServingItem(us, r))
<1>1. PICK V : V = SeenOfItem(rs, r)
  OBVIOUS
<1>2. PICK T : T = Held(rl, r.row.item, t, r.since)
  OBVIOUS
<1>3. PICK R : R = T \ {r.id}
  OBVIOUS
<1>4. PICK q : q = [g \in V |-> rs[g].quantity]
  OBVIOUS
<1>5. PICK n : n = [g \in T |-> rl[g].quantity]
  OBVIOUS
<1>6. R \in SUBSET V /\ \A g \in R : rl[g] = rs[g]
  <2> SUFFICES ASSUME NEW g \in R PROVE g \in V /\ rl[g] = rs[g]
    OBVIOUS
  <2>1. /\ g \in Ids \ r.since /\ g # r.id /\ rl[g] = rs[g] /\ rs[g].status = "CONFIRMED"
        /\ rs[g].item = r.row.item /\ rs[g].from =< t /\ t < rs[g].to
    BY <1>2, <1>3 DEF Held
  <2>2. rs[g] \in Row
    BY <2>1 DEF NoRow
  <2>3. /\ rs[g].from \in Nat /\ rs[g].to \in Nat /\ r.row.from \in Nat /\ r.row.to \in Nat
        /\ t \in Nat
    BY <2>2 DEF Row
  <2>4. Overlap(rs[g], r.row)
    BY <2>1, <2>3 DEF Overlap
  <2> QED BY <1>1, <2>1, <2>4 DEF SeenOfItem, Seen
<1>7. IsFiniteSet(V) /\ \A g \in V : q[g] \in Nat
  <2>1. V \subseteq Ids /\ \A g \in V : rs[g] \in Row
    BY <1>1 DEF SeenOfItem, Seen, NoRow
  <2> QED BY <1>4, <2>1, FS_Subset DEF Row
<1>8. \A g \in R : n[g] = q[g]
  BY <1>3, <1>4, <1>5, <1>6
<1>9. /\ SumFunctionOnSet(n, R) \in Nat /\ SumFunctionOnSet(q, V) \in Nat
      /\ SumFunctionOnSet(n, R) =< SumFunctionOnSet(q, V)
  BY <1>6, <1>7, <1>8, SumShrinks
<1>10. r.row.quantity \in Nat
  BY DEF Row
<1>11. /\ SumFunctionOnSet(n, T) \in Nat
       /\ SumFunctionOnSet(n, T) =< r.row.quantity + SumFunctionOnSet(n, R)
  <2>1. CASE r.id \in T
    <3>1. T = R \cup {r.id} /\ r.id \notin R
      BY <1>3, <2>1
    <3>2. n[r.id] = r.row.quantity
      BY <1>2, <1>5, <2>1 DEF Held
    <3>3. IsFiniteSet(R) /\ \A g \in R \cup {r.id} : n[g] \in Int
      BY <1>6, <1>7, <1>8, <1>10, <3>2, FS_Subset
    <3>4. SumFunctionOnSet(n, R \cup {r.id}) = n[r.id] + SumFunctionOnSet(n, R)
      BY <3>1, <3>3, SumAdd
    <3> QED BY <1>9, <1>10, <3>1, <3>2, <3>4
  <2>2. CASE r.id \notin T
    <3>1. T = R
      BY <1>3, <2>2
    <3> QED BY <1>9, <1>10, <3>1
  <2> QED BY <2>1, <2>2
<1>12. SumFunctionOnSet(q, V) + r.row.quantity =< Cardinality(ServingItem(us, r))
  BY <1>1, <1>4 DEF Looked, Promised
<1>13. Cardinality(ServingItem(us, r)) \in Nat
  <2>1. IsFiniteSet(ServingItem(us, r))
    BY FS_Subset DEF ServingItem
  <2> QED BY <2>1, FS_CardinalityType
<1>14. SumFunctionOnSet(n, T) =< Cardinality(ServingItem(us, r))
  BY <1>9, <1>10, <1>11, <1>12, <1>13
<1> QED BY <1>2, <1>5, <1>14 DEF Promised

\* No write adds to what is promised of an item, at any hour, beyond what the units in service
\* can keep, but for the reservations committed and the units written while it waited.
THEOREM WritesFit == Spec => WriteFits
<1> DEFINE Fits ==
      \A i \in Items, t \in Hours :
          Load(i, t, {})' > Load(i, t, {}) =>
              \E u \in Users : /\ Asks(u, "commit")
                               /\ \E late \in {req[u].since} :
                                      Load(i, t, late)' =< Cardinality(Keeping(i, late))'
<1>1. IInv /\ [Next]_vars => [Fits]_vars
  <2> SUFFICES ASSUME IInv, Next, NEW i \in Items, NEW t \in Hours,
                      Load(i, t, {})' > Load(i, t, {})
               PROVE  \E u \in Users : /\ Asks(u, "commit")
                                       /\ \E late \in {req[u].since} :
                                              Load(i, t, late)' =< Cardinality(Keeping(i, late))'
    OBVIOUS
  <2>1. /\ \A late : Load(i, t, late) = Promised(resv, Held(resv, i, t, late))
        /\ \A late : Load(i, t, late)' = Promised(resv', Held(resv', i, t, late))
    BY DEF Load, Quantity, Promised, Held, Confirmed
  <2>2. resv \in [Ids -> Row \cup {NoRow}] /\ \A u \in Users : Looked(resv, unit, req[u])
    BY DEF IInv, Typed, TypeOK, HaveLooked
  <2>3. PICK g \in Held(resv', i, t, {}) : resv'[g] # resv[g]
    BY <2>1, <2>2, LoadShrinks
  <2>4. g \in Ids /\ resv'[g].status = "CONFIRMED" /\ resv'[g].item = i
        /\ resv'[g].from =< t /\ t < resv'[g].to
    BY <2>3 DEF Held
  <2>5. PICK u \in Users : Commit(u)
    <3>1. PICK u \in Users : Commit(u) \/ Cancel(u)
      BY <2>3, Writers
    <3>2. ~Cancel(u)
      BY <2>3, <2>4, CancelStep
    <3> QED BY <3>1, <3>2
  <2>6. /\ req[u].row \in Row /\ \A h \in Ids : resv'[h] = IF h = req[u].id THEN req[u].row ELSE resv[h]
        /\ unit' = unit /\ Asks(u, "commit") /\ req[u].kind = "commit"
    BY <2>5, CommitStep DEF Commit, Asks
  <2>7. /\ req[u].row.status = "CONFIRMED" /\ req[u].row.item = i
        /\ req[u].row.from =< t /\ t < req[u].row.to
    BY <2>3, <2>4, <2>6
  <2>8. PICK late : late = req[u].since
    OBVIOUS
  <2>9. Promised(resv', Held(resv', i, t, late)) =< Cardinality(ServingItem(unit, req[u]))
    BY <2>2, <2>6, <2>7, <2>8, CommitFits
  <2>10. Keeping(i, late)' = ServingItem(unit, req[u])
    BY <2>6, <2>7, <2>8 DEF Keeping, ServingItem, InServiceUnits, Serves
  <2>11. Load(i, t, late)' =< Cardinality(Keeping(i, late))'
    BY <2>1, <2>9, <2>10
  <2> QED BY <2>6, <2>8, <2>11
<1> QED BY <1>1, InitInv, NextInv, PTL DEF Spec, WriteFits

=============================================================================
