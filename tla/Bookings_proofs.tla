--------------------------- MODULE Bookings_proofs ---------------------------
(***************************************************************************)
(* Proofs about Bookings and, in the second half, about Removal, in which  *)
(* suspensions and membership cancellations go on as well: for any         *)
(* bookings, members, admins, slots and bounds, those of the requests and  *)
(* statements in flight included.                                          *)
(*                                                                         *)
(* The argument: a statement that waits for its commit holds the lock of   *)
(* its row, so the constraint it passed is still passed when it commits.   *)
(* The trigger is about the OTHER rows, which no lock protects, and so is  *)
(* a request's own read of the schedule.  What they found holds on, but    *)
(* for the bookings that others have committed since, which a request      *)
(* notes: nothing but a commit moves a booking or brings one to life.      *)
(* Of the register the argument is the same: what a cancellation has read  *)
(* of a member holds on until another request writes the member.           *)
(***************************************************************************)
EXTENDS Removal, FiniteSetTheorems, TLAPS

\* Whatever waits for its commit passed the checks against the row it replaces.
Pending ==
    \A u \in Users : Asks(u, "commit") =>
        /\ req[u].row.status # "NONE"
        /\ Audited(req[u].id, req[u].row)
        /\ req[u].row.reminded = book[req[u].id].reminded

\* Row locks: one statement per row waits for its commit.
OneWriter ==
    \A u, v \in Users :
        (Asks(u, "commit") /\ Asks(v, "commit") /\ req[u].id = req[v].id) => u = v

\* What create requests carry and PATCHes are about.
WellAsked ==
    \A u \in Users :
        /\ Asks(u, "create") => req[u].row.status # "NONE" /\ ~req[u].row.reminded
        /\ Asks(u, "patch") => book[req[u].id].status # "NONE"

\* Where reminders are: a booking's mail follows its claim, which the row remembers.
Mailed ==
    \A b \in Ids :
        /\ book[b].status = "NONE" => ~book[b].reminded
        /\ b \in claimed => book[b].reminded
        /\ mails[b] # 0 => book[b].reminded /\ b \notin claimed
        /\ mails[b] =< 1

\* Booking g, where the schedule is bk, is not in the way of slot s.
Free(bk, g, s) ==
    bk[g].status \in {"TENTATIVE", "CONFIRMED"} => ~Overlap(bk[g].slot, s)

\* What a request has found of the schedule bk and holds on: nothing is in its way but what it
\* is still to clear, and what others wrote since.
Looked(bk, r) ==
    /\ r.kind = "create" => \A g \in Ids \ (r.rest \cup r.since) : Free(bk, g, r.row.slot)
    /\ r.kind = "patch" =>
         \/ r.id \in r.since
         \/ \A g \in Ids \ (r.rest \cup r.since \cup {r.id}) :
                Free(bk, g, Patched(bk[r.id], r.patch).slot)
    /\ r.kind = "commit" =>
         /\ r.id \in r.since \/ \A g \in Ids \ (r.since \cup {r.id}) : Free(bk, g, r.row.slot)
         /\ \A g \in Ids \ (r.unseen \cup {r.id}) :
                bk[g].status = "CONFIRMED" => ~Overlap(bk[g].slot, r.row.slot)

HaveLooked == \A u \in Users : Looked(book, req[u])

\* The inductive invariant.
IInv == BookingsTypeOK /\ Pending /\ OneWriter /\ WellAsked /\ Mailed /\ HaveLooked

-----------------------------------------------------------------------------
(* Types                                                                   *)

\* Patching a row gives a row, with the same reminder mark, and one that exists if it did.
LEMMA PatchedIsRow ==
    ASSUME NEW r \in Row, NEW p \in Patches
    PROVE  /\ Patched(r, p) \in Row
           /\ Patched(r, p).reminded = r.reminded
           /\ r.status # "NONE" => Patched(r, p).status # "NONE"
  BY BookingsAssumption DEF Patched, Row, Statuses, Columns

\* What a request notes leaves it a request of its kind, about the same.
LEMMA NotingKeeps ==
    ASSUME NEW r \in Requests, NEW b \in Ids
    PROVE  /\ Noting(r, b) \in Requests
           /\ Noting(r, b).kind = r.kind
           /\ r.kind = "create" => /\ Noting(r, b).row = r.row /\ Noting(r, b).rest = r.rest
                                   /\ Noting(r, b).since = r.since \cup {b}
           /\ r.kind = "patch" => /\ Noting(r, b).id = r.id /\ Noting(r, b).patch = r.patch
                                  /\ Noting(r, b).rest = r.rest
                                  /\ Noting(r, b).since = r.since \cup {b}
           /\ r.kind = "commit" => /\ Noting(r, b).id = r.id /\ Noting(r, b).row = r.row
                                   /\ Noting(r, b).since = r.since \cup {b}
                                   /\ Noting(r, b).unseen = r.unseen \cup {b}
           /\ r.kind \notin {"create", "patch", "commit"} => Noting(r, b) = r
  <1>1. CASE r.kind = "create"
    <2>1. PICK row \in Row, rest \in SUBSET Ids, since \in SUBSET Ids :
              r = [kind |-> "create", row |-> row, rest |-> rest, since |-> since]
      BY <1>1 DEF Requests, Nothing
    <2>2. Noting(r, b) = [kind |-> "create", row |-> row, rest |-> rest, since |-> since \cup {b}]
      BY <2>1 DEF Noting
    <2> QED BY <2>1, <2>2 DEF Requests
  <1>2. CASE r.kind = "patch"
    <2>1. PICK id \in Ids, patch \in Patches, rest \in SUBSET Ids, since \in SUBSET Ids :
              r = [kind |-> "patch", id |-> id, patch |-> patch, rest |-> rest, since |-> since]
      BY <1>2 DEF Requests, Nothing
    <2>2. Noting(r, b) = [kind |-> "patch", id |-> id, patch |-> patch, rest |-> rest,
                          since |-> since \cup {b}]
      BY <2>1 DEF Noting
    <2> QED BY <2>1, <2>2 DEF Requests
  <1>3. CASE r.kind = "commit"
    <2>1. PICK id \in Ids, row \in Row, since \in SUBSET Ids, unseen \in SUBSET Ids :
              r = [kind |-> "commit", id |-> id, row |-> row, since |-> since, unseen |-> unseen]
      BY <1>3 DEF Requests, Nothing
    <2>2. Noting(r, b) = [kind |-> "commit", id |-> id, row |-> row, since |-> since \cup {b},
                          unseen |-> unseen \cup {b}]
      BY <2>1 DEF Noting
    <2> QED BY <2>1, <2>2 DEF Requests
  <1>4. CASE r.kind \notin {"create", "patch", "commit"}
    BY <1>4 DEF Noting
  <1> QED BY <1>1, <1>2, <1>3, <1>4

\* What a request has found holds on while no booking moves or comes to life or is confirmed.
LEMMA StillLooked ==
    ASSUME NEW r \in Requests, NEW bk \in [Ids -> Row], NEW bl \in [Ids -> Row], Looked(bk, r),
           \A g \in Ids : /\ bl[g].slot = bk[g].slot
                          /\ bl[g].status = "CONFIRMED" => bk[g].status = "CONFIRMED"
                          /\ bl[g].status = "TENTATIVE"
                                => bk[g].status \in {"TENTATIVE", "CONFIRMED"}
    PROVE  Looked(bl, r)
  <1>1. ASSUME NEW g \in Ids, NEW t, Free(bk, g, t) PROVE Free(bl, g, t)
    BY <1>1 DEF Free
  <1>2. CASE r.kind = "create"
    BY <1>1, <1>2 DEF Looked
  <1>3. CASE r.kind = "patch"
    <2>1. r.id \in Ids
      BY <1>3 DEF Requests, Nothing
    <2>2. Patched(bl[r.id], r.patch).slot = Patched(bk[r.id], r.patch).slot
      BY <2>1 DEF Patched, Row
    <2> QED BY <1>1, <1>3, <2>2 DEF Looked
  <1>4. CASE r.kind = "commit"
    BY <1>1, <1>4 DEF Looked
  <1>5. CASE r.kind \notin {"create", "patch", "commit"}
    BY <1>5 DEF Looked
  <1> QED BY <1>2, <1>3, <1>4, <1>5

\* The initial state satisfies the invariant.
LEMMA InitInv == BookingsInit => IInv
  <1> SUFFICES ASSUME BookingsInit PROVE IInv
    OBVIOUS
  <1>1. BookingsTypeOK
    BY BookingsAssumption
    DEF BookingsInit, BookingsTypeOK, RowsTypeOK, Requests, Nothing, Users
  <1>2. \A u \in Users : req[u] = Nothing
    BY DEF BookingsInit
  <1>3. Pending /\ OneWriter /\ WellAsked
    BY <1>2 DEF Pending, OneWriter, WellAsked, Asks, Nothing
  <1>4. Mailed
    BY DEF BookingsInit, Mailed
  <1>5. HaveLooked
    BY <1>2 DEF HaveLooked, Looked, Nothing
  <1> QED BY <1>1, <1>3, <1>4, <1>5 DEF IInv

-----------------------------------------------------------------------------
(* Kinds of steps                                                          *)

\* A request that a user can be left with, other than one that waits for its commit.
Harmless(r) ==
    /\ r \in Requests
    /\ r.kind # "commit"
    /\ r.kind = "create" => r.row.status # "NONE" /\ ~r.row.reminded
    /\ r.kind = "patch" => book[r.id].status # "NONE"

\* Having no request is harmless.
LEMMA NothingHarmless == Harmless(Nothing) /\ \A bk : Looked(bk, Nothing)
  BY DEF Harmless, Looked, Requests, Nothing

\* A step that only moves a request on.
LEMMA RequestStep ==
    ASSUME IInv, NEW u \in Users, NEW r, Harmless(r), req' = [req EXCEPT ![u] = r],
           Looked(book, r), UNCHANGED <<rowVars, claim, mailVars, now, crashes>>
    PROVE  IInv'
  <1> USE DEF IInv, rowVars, mailVars
  <1>0. /\ req \in [Users -> Requests]
        /\ req' \in [Users -> Requests]
        /\ \A v \in Users : req'[v] = IF v = u THEN r ELSE req[v]
    BY DEF BookingsTypeOK, Harmless
  <1>1. BookingsTypeOK'
    BY <1>0 DEF BookingsTypeOK, RowsTypeOK
  <1>2. \A v \in Users : Asks(v, "commit")' => Asks(v, "commit") /\ req'[v] = req[v]
    BY <1>0 DEF Asks, Harmless
  <1>3. Pending'
    BY <1>2 DEF Pending, Audited
  <1>4. OneWriter'
    BY <1>2 DEF OneWriter
  <1>5. WellAsked'
    BY <1>0 DEF WellAsked, Asks, Harmless
  <1>6. Mailed'
    BY DEF Mailed
  <1>7. HaveLooked'
    BY <1>0 DEF HaveLooked
  <1> QED BY <1>1, <1>3, <1>4, <1>5, <1>6, <1>7

\* A statement leaves row in an unlocked row b and waits, or is refused.
LEMMA WriteStep ==
    ASSUME IInv, NEW u \in Users, NEW b \in Ids, NEW row \in Row, Write(u, b, row),
           row.status # "NONE", row.reminded = book[b].reminded, ~Locked(b),
           req[u].since \in SUBSET Ids,
           b \in req[u].since \/ \A g \in Ids \ (req[u].since \cup {b}) : Free(book, g, row.slot),
           UNCHANGED <<rowVars, claim, mailVars, now, crashes>>
    PROVE  IInv'
  <1>1. CASE ~(Audited(b, row) /\ Passes(b, row))
    BY <1>1, RequestStep, NothingHarmless DEF Write, Done
  <1>2. CASE Audited(b, row) /\ Passes(b, row)
    <2> USE DEF IInv, rowVars, mailVars
    <2> DEFINE r == [kind |-> "commit", id |-> b, row |-> row, since |-> req[u].since, unseen |-> {}]
    <2>0. /\ Cardinality({v \in Users : Asks(v, "commit")}) < MaxStatements
          /\ req' = [req EXCEPT ![u] = r]
      BY <1>2 DEF Write
    <2>1. r \in Requests
      BY DEF Requests
    <2>2. /\ req' \in [Users -> Requests]
          /\ \A v \in Users : req'[v] = IF v = u THEN r ELSE req[v]
      BY <2>0, <2>1 DEF BookingsTypeOK
    <2>3. BookingsTypeOK'
      BY <2>2 DEF BookingsTypeOK, RowsTypeOK
    <2>4. Pending'
      BY <1>2, <2>2 DEF Pending, Asks, Audited
    <2>5. OneWriter'
      BY <2>2 DEF OneWriter, Asks, Locked
    <2>6. WellAsked'
      BY <2>2 DEF WellAsked, Asks
    <2>7. Mailed'
      BY DEF Mailed
    <2>8. HaveLooked'
      <3>1. Looked(book, r)
        BY <1>2 DEF Looked, Passes
      <3> QED BY <2>2, <3>1 DEF HaveLooked
    <2> QED BY <2>3, <2>4, <2>5, <2>6, <2>7, <2>8
  <1> QED BY <1>1, <1>2

\* An update of an unlocked row that neither confirms it, moves it nor touches its mark.
LEMMA EditStep ==
    ASSUME IInv, NEW u \in Users, NEW r, Harmless(r), req' = [req EXCEPT ![u] = r],
           NEW b \in Ids, ~Locked(b), NEW row \in Row, book' = [book EXCEPT ![b] = row],
           row.slot = book[b].slot, row.reminded = book[b].reminded,
           row.status = "CONFIRMED" => book[b].status = "CONFIRMED",
           row.status = "TENTATIVE" => book[b].status = "TENTATIVE",
           Looked(book', r),
           row.status = "NONE" => book[b].status = "NONE",
           UNCHANGED <<mayReserve, claim, mailVars, now, crashes>>
    PROVE  IInv'
  <1> USE DEF IInv, mailVars
  <1>0. /\ req' \in [Users -> Requests]
        /\ \A v \in Users : req'[v] = IF v = u THEN r ELSE req[v]
        /\ book' \in [Ids -> Row]
        /\ \A g \in Ids : book'[g] = IF g = b THEN row ELSE book[g]
    BY DEF BookingsTypeOK, RowsTypeOK, Harmless
  <1>1. BookingsTypeOK'
    BY <1>0 DEF BookingsTypeOK, RowsTypeOK
  <1>2. \A v \in Users :
            Asks(v, "commit")' => Asks(v, "commit") /\ req'[v] = req[v] /\ req[v].id # b
    BY <1>0 DEF Asks, Harmless, Locked
  <1>3. \A v \in Users : Asks(v, "commit") => req[v].id \in Ids
    BY DEF BookingsTypeOK, Requests, Asks, Nothing
  <1>4. Pending'
    BY <1>0, <1>2, <1>3 DEF Pending, Audited
  <1>5. OneWriter'
    BY <1>2 DEF OneWriter
  <1>6. \A v \in Users : Asks(v, "patch") => req[v].id \in Ids
    BY DEF BookingsTypeOK, Requests, Asks, Nothing
  <1>7. r.kind = "patch" => r.id \in Ids
    BY DEF Harmless, Requests, Nothing
  <1>8. WellAsked'
    BY <1>0, <1>6, <1>7 DEF WellAsked, Asks, Harmless
  <1>9. Mailed'
    BY <1>0 DEF Mailed
  <1>11. HaveLooked'
    <2> SUFFICES ASSUME NEW v \in Users, v # u PROVE Looked(book', req'[v])
      BY <1>0 DEF HaveLooked
    <2>1. req'[v] = req[v] /\ req[v] \in Requests /\ book \in [Ids -> Row] /\ Looked(book, req[v])
      BY <1>0 DEF HaveLooked, BookingsTypeOK, RowsTypeOK
    <2> HIDE DEF IInv
    <2> QED BY <1>0, <2>1, StillLooked
  <1> QED BY <1>1, <1>4, <1>5, <1>8, <1>9, <1>11

\* What a request of each kind carries.
LEMMA RequestTypes ==
    ASSUME BookingsTypeOK, NEW u \in Users
    PROVE  /\ req[u] \in Requests
           /\ Asks(u, "create") => /\ req[u].row \in Row /\ req[u].rest \in SUBSET Ids
                                   /\ req[u].since \in SUBSET Ids
           /\ Asks(u, "patch") => /\ req[u].id \in Ids /\ req[u].patch \in Patches
                                  /\ req[u].rest \in SUBSET Ids /\ req[u].since \in SUBSET Ids
           /\ Asks(u, "cancel") => req[u].id \in Ids
           /\ Asks(u, "transfer") => req[u].id \in Ids /\ req[u].to \in Members
           /\ Asks(u, "commit") => req[u].id \in Ids /\ req[u].row \in Row
  BY DEF BookingsTypeOK, Requests, Asks, Nothing

-----------------------------------------------------------------------------
(* The requests                                                            *)

\* A booking in the way is cancelled, or the request fails on it.
LEMMA ClearInv == ASSUME IInv, NEW u \in Users, NEW b \in Ids, Clear(u, b) PROVE IInv'
  <1>0. /\ req[u].kind \in {"create", "patch"} /\ ~Locked(b)
        /\ UNCHANGED <<mayReserve, claim, mailVars, now, crashes>>
        /\ book \in [Ids -> Row] /\ Looked(book, req[u])
    BY DEF Clear, IInv, BookingsTypeOK, RowsTypeOK, HaveLooked
  <1>1. CASE Passes(b, book[b])
    <2> DEFINE row == [book[b] EXCEPT !.status = "CANCELLED"]
    <2> DEFINE r == [req[u] EXCEPT !.rest = @ \ {b}]
    <2>1. book[b] \in Row /\ row \in Row /\ row.status = "CANCELLED"
          /\ row.slot = book[b].slot /\ row.reminded = book[b].reminded
      BY DEF IInv, BookingsTypeOK, RowsTypeOK, Row, Statuses
    <2>2. Harmless(r) /\ r.kind = req[u].kind /\ r.rest = req[u].rest \ {b} /\ r.since = req[u].since
          /\ (Asks(u, "create") => r.row = req[u].row)
          /\ (Asks(u, "patch") => r.id = req[u].id /\ r.patch = req[u].patch)
      <3>1. CASE Asks(u, "create")
        BY <3>1 DEF Harmless, IInv, BookingsTypeOK, Requests, WellAsked, Asks, Nothing
      <3>2. CASE Asks(u, "patch")
        BY <3>2 DEF Harmless, IInv, BookingsTypeOK, Requests, WellAsked, Asks, Nothing
      <3> QED BY <1>0, <3>1, <3>2 DEF Asks
    <2>3. book' = [book EXCEPT ![b] = row] /\ req' = [req EXCEPT ![u] = r]
      BY <1>1 DEF Clear
    <2> HIDE DEF r, row
    <2>4. \A g \in Ids : /\ book'[g] = IF g = b THEN row ELSE book[g]
                         /\ book'[g].slot = book[g].slot
      BY <1>0, <2>1, <2>3
    <2>5. ASSUME NEW g \in Ids, NEW t, g = b \/ Free(book, g, t) PROVE Free(book', g, t)
      BY <2>1, <2>4, <2>5 DEF Free
    <2>6. Looked(book', r)
      <3>1. CASE req[u].kind = "create"
        BY <1>0, <2>2, <2>5, <3>1 DEF Looked, Asks
      <3>2. CASE req[u].kind = "patch"
        <4>1. req[u].id \in Ids /\ req[u].patch \in Patches
          BY <3>2, RequestTypes DEF IInv, Asks
        <4>2. /\ book[req[u].id] \in Row /\ book'[req[u].id] \in Row
              /\ book'[req[u].id].slot = book[req[u].id].slot
          BY <1>0, <2>1, <2>4, <4>1
        <4>3. Patched(book'[req[u].id], req[u].patch).slot = Patched(book[req[u].id], req[u].patch).slot
          BY <4>2 DEF Patched, Row
        <4> QED BY <1>0, <2>2, <2>5, <3>2, <4>3 DEF Looked, Asks
      <3> QED BY <1>0, <3>1, <3>2
    <2> QED BY <1>0, <2>1, <2>2, <2>3, <2>6, EditStep
  <1>2. CASE ~Passes(b, book[b])
    BY <1>0, <1>2, RequestStep, NothingHarmless DEF Clear, Done, rowVars
  <1> QED BY <1>1, <1>2

\* The statements of a create request and of a PATCH.
LEMMA WriteInv ==
    ASSUME IInv, NEW u \in Users, NEW b \in Ids, Insert(u, b) \/ Update(u)
    PROVE  IInv'
  <1>1. CASE Insert(u, b)
    <2>1. req[u].row \in Row /\ req[u].row.status # "NONE" /\ ~req[u].row.reminded
      BY <1>1, RequestTypes DEF Insert, IInv, WellAsked
    <2>2. book[b].reminded = FALSE /\ req[u].row.reminded = FALSE
      BY <1>1, <2>1 DEF Insert, IInv, Mailed, BookingsTypeOK, RowsTypeOK, Row
    <2>3. /\ req[u].since \in SUBSET Ids
          /\ \A g \in Ids \ (req[u].since \cup {b}) : Free(book, g, req[u].row.slot)
      BY <1>1, RequestTypes DEF Insert, IInv, HaveLooked, Looked, Asks
    <2> QED BY <1>1, <2>1, <2>2, <2>3, WriteStep DEF Insert
  <1>2. CASE Update(u)
    <2> DEFINE i == req[u].id
    <2>1. i \in Ids /\ req[u].patch \in Patches /\ book[i] \in Row /\ book[i].status # "NONE"
      BY <1>2, RequestTypes DEF Update, IInv, WellAsked, BookingsTypeOK, RowsTypeOK
    <2>2. /\ Patched(book[i], req[u].patch) \in Row
          /\ Patched(book[i], req[u].patch).status # "NONE"
          /\ Patched(book[i], req[u].patch).reminded = book[i].reminded
      BY <2>1, PatchedIsRow
    <2>3. /\ req[u].since \in SUBSET Ids
          /\ \/ i \in req[u].since
             \/ \A g \in Ids \ (req[u].since \cup {i}) :
                    Free(book, g, Patched(book[i], req[u].patch).slot)
      BY <1>2, RequestTypes DEF Update, IInv, HaveLooked, Looked, Asks
    <2> QED BY <1>2, <2>1, <2>2, <2>3, WriteStep DEF Update
  <1> QED BY <1>1, <1>2

\* A commit: the row it waited for is in place.
LEMMA CommitInv == ASSUME IInv, NEW u \in Users, Commit(u) PROVE IInv'
  <1> DEFINE i == req[u].id
  <1> DEFINE row == req[u].row
  <1> USE DEF IInv, mailVars
  <1>0. /\ i \in Ids /\ row \in Row
        /\ row.status # "NONE" /\ Audited(i, row) /\ row.reminded = book[i].reminded
    BY RequestTypes DEF Commit, Pending
  <1>1. /\ \A v \in Users : req'[v] = IF v = u THEN Nothing ELSE Noting(req[v], i)
        /\ \A v \in Users : req[v] \in Requests /\ req'[v] \in Requests
        /\ req' \in [Users -> Requests]
        /\ book' \in [Ids -> Row]
        /\ \A g \in Ids : book'[g] = IF g = i THEN row ELSE book[g]
    BY <1>0, NothingHarmless, NotingKeeps DEF Commit, BookingsTypeOK, RowsTypeOK, Harmless
  <1>2. BookingsTypeOK'
    BY <1>1 DEF BookingsTypeOK, RowsTypeOK, Commit
  <1>3. \A v \in Users :
            Asks(v, "commit")' => /\ Asks(v, "commit") /\ req[v].id # i
                                  /\ req'[v].id = req[v].id /\ req'[v].row = req[v].row
    BY <1>1, NotingKeeps DEF Asks, Commit, OneWriter, Nothing
  <1>4. \A v \in Users : /\ Asks(v, "commit") => req[v].id \in Ids
                         /\ Asks(v, "patch") => req[v].id \in Ids
    BY RequestTypes
  <1>5. Pending'
    BY <1>1, <1>3, <1>4 DEF Pending, Audited
  <1>6. OneWriter'
    BY <1>3 DEF OneWriter
  <1>7. WellAsked'
    <2> HIDE DEF i, row
    <2>1. \A v \in Users : v # u => /\ Noting(req[v], i).kind = req[v].kind
                                    /\ Asks(v, "create") => Noting(req[v], i).row = req[v].row
                                    /\ Asks(v, "patch") => Noting(req[v], i).id = req[v].id
      BY <1>0, <1>1, NotingKeeps DEF Asks
    <2>2. \A v \in Users : Asks(v, "create")' => Asks(v, "create") /\ req'[v].row = req[v].row
      BY <1>1, <2>1 DEF Asks, Nothing
    <2>3. \A v \in Users : Asks(v, "patch")' => Asks(v, "patch") /\ req'[v].id = req[v].id
      BY <1>1, <2>1 DEF Asks, Nothing
    <2> QED BY <1>0, <1>1, <1>4, <2>2, <2>3 DEF WellAsked
  <1>8. Mailed'
    BY <1>0, <1>1 DEF Mailed, Commit
  <1>9. HaveLooked'
    <2> SUFFICES ASSUME NEW v \in Users, v # u PROVE Looked(book', Noting(req[v], i))
      BY <1>1, NothingHarmless DEF HaveLooked
    <2> DEFINE r == req[v]
    <2>1. r \in Requests /\ Looked(book, r)
      BY <1>1 DEF HaveLooked
    <2> HIDE DEF i, row, IInv
    <2>2. ASSUME NEW g \in Ids \ {i}, NEW t, Free(book, g, t) PROVE Free(book', g, t)
      BY <1>1, <2>2 DEF Free
    <2>3. CASE r.kind = "create"
      BY <1>0, <2>1, <2>2, <2>3, NotingKeeps DEF Looked
    <2>4. CASE r.kind = "patch"
      <3>1. r.id \in Ids
        BY <2>1, <2>4 DEF Requests, Nothing
      <3>2. CASE r.id = i
        BY <1>0, <2>1, <2>4, <3>2, NotingKeeps DEF Looked
      <3>3. CASE r.id # i
        <4>1. book'[r.id] = book[r.id]
          BY <1>1, <3>1, <3>3
        <4> QED BY <1>0, <2>1, <2>2, <2>4, <4>1, NotingKeeps DEF Looked
      <3> QED BY <3>2, <3>3
    <2>5. CASE r.kind = "commit"
      <3>1. \A g \in Ids \ {i} : book'[g] = book[g]
        BY <1>1
      <3> QED BY <1>0, <2>1, <2>2, <2>5, <3>1, NotingKeeps DEF Looked
    <2>6. CASE r.kind \notin {"create", "patch", "commit"}
      BY <1>0, <2>1, <2>6, NotingKeeps DEF Looked
    <2> QED BY <2>3, <2>4, <2>5, <2>6
  <1> QED BY <1>2, <1>5, <1>6, <1>7, <1>8, <1>9

\* A cancellation and a transfer.
LEMMA EditInv == ASSUME IInv, NEW u \in Users, Cancel(u) \/ Transfer(u) PROVE IInv'
  <1> DEFINE i == req[u].id
  <1>0. i \in Ids /\ book[i] \in Row
    BY RequestTypes DEF Cancel, Transfer, IInv, BookingsTypeOK, RowsTypeOK
  <1>1. CASE ~Passes(i, book[i])
    BY <1>1, RequestStep, NothingHarmless DEF Cancel, Transfer, Done, rowVars
  <1>2. CASE Passes(i, book[i]) /\ Cancel(u)
    <2> DEFINE row == [book[i] EXCEPT !.status = "CANCELLED"]
    <2>1. row \in Row /\ row.status = "CANCELLED"
          /\ row.slot = book[i].slot /\ row.reminded = book[i].reminded
      BY <1>0 DEF Row, Statuses
    <2>2. book' = [book EXCEPT ![i] = row] /\ req' = [req EXCEPT ![u] = Nothing] /\ ~Locked(i)
      BY <1>2 DEF Cancel, Done
    <2> QED BY <1>0, <1>2, <2>1, <2>2, EditStep, NothingHarmless DEF Cancel
  <1>3. CASE Passes(i, book[i]) /\ Transfer(u)
    <2> DEFINE row == [book[i] EXCEPT !.owner = req[u].to]
    <2>1. row \in Row /\ row.status = book[i].status
          /\ row.slot = book[i].slot /\ row.reminded = book[i].reminded
      BY <1>0, <1>3, RequestTypes DEF Row, Transfer, IInv
    <2>2. book' = [book EXCEPT ![i] = row] /\ req' = [req EXCEPT ![u] = Nothing] /\ ~Locked(i)
      BY <1>3 DEF Transfer, Done
    <2> QED BY <1>0, <1>3, <2>1, <2>2, EditStep, NothingHarmless DEF Transfer
  <1> QED BY <1>1, <1>2, <1>3

-----------------------------------------------------------------------------
(* The worker, the clock and crashes                                       *)

\* A claim marks the rows it claims, none of which waits for a commit or was claimed.
LEMMA ClaimInv == ASSUME IInv, ClaimReminders PROVE IInv'
  <1> DEFINE due == {b \in Upcoming : ~book[b].reminded}
  <1> USE DEF IInv
  <1>0. due \subseteq Ids /\ \A b \in due : book[b].status # "NONE" /\ ~book[b].reminded
    BY DEF Upcoming, Live
  <1>1. /\ book' \in [Ids -> Row]
        /\ \A g \in Ids : /\ g \in due => book'[g].reminded
                          /\ g \notin due => book'[g] = book[g]
                          /\ book'[g].status = book[g].status
                          /\ book'[g].slot = book[g].slot
    BY DEF ClaimReminders, BookingsTypeOK, RowsTypeOK, Row
  <1>2. BookingsTypeOK'
    BY <1>0, <1>1 DEF BookingsTypeOK, RowsTypeOK, ClaimReminders
  <1>3. \A v \in Users : /\ Asks(v, "commit") => req[v].id \in Ids \ due
                         /\ Asks(v, "patch") => req[v].id \in Ids
    BY RequestTypes DEF ClaimReminders, Locked, Asks
  <1>4. req' = req
    BY DEF ClaimReminders
  <1>5. Pending'
    BY <1>1, <1>3, <1>4 DEF Pending, Audited, Asks
  <1>6. OneWriter'
    BY <1>4 DEF OneWriter, Asks
  <1>7. WellAsked'
    BY <1>1, <1>3, <1>4 DEF WellAsked, Asks
  <1>8. Mailed'
    BY <1>0, <1>1 DEF Mailed, ClaimReminders
  <1>9. HaveLooked'
    <2> SUFFICES ASSUME NEW v \in Users PROVE Looked(book', req[v])
      BY <1>4 DEF HaveLooked
    <2>1. req[v] \in Requests /\ book \in [Ids -> Row] /\ Looked(book, req[v])
      BY DEF HaveLooked, BookingsTypeOK, RowsTypeOK
    <2> HIDE DEF IInv, due
    <2> QED BY <1>1, <2>1, StillLooked
  <1> QED BY <1>2, <1>5, <1>6, <1>7, <1>8, <1>9

\* Mails, the clock and crashes leave the rows alone.
LEMMA OtherInv ==
    ASSUME IInv, (\E b \in Ids : Remind(b)) \/ Tick \/ BookingsCrash
    PROVE  IInv'
  <1> USE DEF IInv, rowVars, mailVars
  <1>1. ASSUME NEW b \in Ids, Remind(b) PROVE IInv'
    <2>1. BookingsTypeOK'
      BY <1>1 DEF BookingsTypeOK, RowsTypeOK, Remind
    <2>2. Pending' /\ OneWriter' /\ WellAsked' /\ HaveLooked'
      BY <1>1 DEF Pending, OneWriter, WellAsked, HaveLooked, Remind, Asks, Audited
    <2>3. Mailed'
      BY <1>1 DEF Mailed, Remind, BookingsTypeOK, RowsTypeOK
    <2> QED BY <2>1, <2>2, <2>3
  <1>2. CASE Tick
    <2>1. BookingsTypeOK'
      BY <1>2, BookingsAssumption DEF BookingsTypeOK, RowsTypeOK, Tick
    <2>2. Pending' /\ OneWriter' /\ WellAsked' /\ HaveLooked' /\ Mailed'
      BY <1>2 DEF Pending, OneWriter, WellAsked, HaveLooked, Mailed, Tick, Asks, Audited
    <2> QED BY <2>1, <2>2
  <1>3. CASE BookingsCrash
    <2>0. Nothing \in Requests /\ \A u \in Users : req'[u] = Nothing
      BY <1>3 DEF BookingsCrash, Requests
    <2>1. BookingsTypeOK'
      BY <1>3, <2>0, BookingsAssumption DEF BookingsTypeOK, RowsTypeOK, BookingsCrash
    <2>2. Pending' /\ OneWriter' /\ WellAsked'
      BY <2>0 DEF Pending, OneWriter, WellAsked, Asks, Nothing
    <2>3. HaveLooked' /\ Mailed'
      BY <1>3, <2>0, NothingHarmless DEF HaveLooked, Mailed, BookingsCrash
    <2> QED BY <2>1, <2>2, <2>3
  <1> QED BY <1>1, <1>2, <1>3

\* Every step keeps the invariant.
LEMMA NextInv == IInv /\ [BookingsNext]_bookingVars => IInv'
  <1> SUFFICES ASSUME IInv, [BookingsNext]_bookingVars PROVE IInv'
    OBVIOUS
  <1>1. ASSUME NEW u \in Users, Serve(u) PROVE IInv'
    <2>1. CASE \E m \in Members, a \in Asked : BeginCreate(u, m, a)
      <3>1. PICK m \in Members, a \in Asked : BeginCreate(u, m, a)
        BY <2>1
      <3> DEFINE r == [kind |-> "create",
                       row |-> [status |-> a.status, owner |-> m, slot |-> a.slot, reminded |-> FALSE],
                       rest |-> Overlapping(a.slot, Ids), since |-> {}]
      <3>2. Harmless(r)
        BY BookingsAssumption DEF Harmless, Requests, Row, Statuses, Overlapping
      <3>3. Looked(book, r)
        BY DEF Looked, Free, Overlapping, Live
      <3> QED BY <3>1, <3>2, <3>3, RequestStep DEF BeginCreate, Open
    <2>2. CASE \E b \in Ids, p \in Patches : BeginPatch(u, b, p)
      <3>1. PICK b \in Ids, p \in Patches : BeginPatch(u, b, p)
        BY <2>2
      <3> DEFINE r == [kind |-> "patch", id |-> b, patch |-> p,
                       rest |-> Overlapping(Patched(book[b], p).slot, Ids \ {b}), since |-> {}]
      <3>2. Harmless(r)
        BY <3>1 DEF Harmless, Requests, BeginPatch, Overlapping
      <3>3. Looked(book, r)
        BY DEF Looked, Free, Overlapping, Live
      <3> QED BY <3>1, <3>2, <3>3, RequestStep DEF BeginPatch, Open
    <2>3. ASSUME NEW b \in Ids, BeginCancel(u, b) PROVE IInv'
      <3>1. Harmless([kind |-> "cancel", id |-> b]) /\ Looked(book, [kind |-> "cancel", id |-> b])
        BY DEF Harmless, Looked, Requests
      <3> QED BY <2>3, <3>1, RequestStep DEF BeginCancel, Open
    <2>4. ASSUME NEW b \in Ids, NEW m \in Members, BeginTransfer(u, b, m) PROVE IInv'
      <3>1. /\ Harmless([kind |-> "transfer", id |-> b, to |-> m])
            /\ Looked(book, [kind |-> "transfer", id |-> b, to |-> m])
        BY DEF Harmless, Looked, Requests
      <3> QED BY <2>4, <3>1, RequestStep DEF BeginTransfer, Open
    <2>5. ASSUME NEW b \in Ids, Clear(u, b) PROVE IInv'
      BY <2>5, ClearInv
    <2>6. ASSUME NEW b \in Ids, Insert(u, b) PROVE IInv'
      BY <2>6, WriteInv
    <2>7. CASE Update(u)
      <3>1. req[u].id \in Ids
        BY <2>7, RequestTypes DEF Update, IInv
      <3> QED BY <2>7, <3>1, WriteInv
    <2>8. CASE Commit(u) \/ Cancel(u) \/ Transfer(u)
      BY <2>8, CommitInv, EditInv
    <2> QED BY <1>1, <2>1, <2>2, <2>3, <2>4, <2>5, <2>6, <2>7, <2>8 DEF Serve
  <1>2. CASE ClaimReminders \/ (\E b \in Ids : Remind(b)) \/ Tick \/ BookingsCrash
    BY <1>2, ClaimInv, OtherInv
  <1>3. CASE UNCHANGED bookingVars
    BY <1>3
    DEF bookingVars, IInv, BookingsTypeOK, RowsTypeOK, Pending, OneWriter, WellAsked, Mailed,
        HaveLooked, Asks, Audited
  <1> QED BY <1>1, <1>2, <1>3 DEF BookingsNext, BookingsStep

-----------------------------------------------------------------------------
(* Theorems                                                                *)

\* The inductive invariant holds of every behaviour.
THEOREM IInvHolds == BookingsSpec => []IInv
  BY InitInv, NextInv, PTL DEF BookingsSpec

\* Type correctness of the bookings, the requests and the reminder worker.
THEOREM TypeCorrect == BookingsSpec => []BookingsTypeOK
  <1>1. IInv => BookingsTypeOK
    BY DEF IInv
  <1> QED BY <1>1, IInvHolds, PTL

\* Only a commit moves a booking, brings one to life or confirms one.
LEMMA OnlyCommits ==
    ASSUME IInv, BookingsNext, \A u \in Users : ~Commit(u), NEW g \in Ids
    PROVE  /\ book'[g].slot = book[g].slot
           /\ Live(g)' => Live(g)
           /\ book'[g].status = "CONFIRMED" => book[g].status = "CONFIRMED"
  <1> DEFINE Still == /\ book'[g].slot = book[g].slot
                      /\ Live(g)' => Live(g)
                      /\ book'[g].status = "CONFIRMED" => book[g].status = "CONFIRMED"
  <1>0. book \in [Ids -> Row]
    BY DEF IInv, BookingsTypeOK, RowsTypeOK
  <1>1. ASSUME NEW u \in Users, NEW b \in Ids, Clear(u, b) PROVE Still
    BY <1>0, <1>1 DEF Clear, Row, Live
  <1>2. ASSUME NEW u \in Users, Cancel(u) \/ Transfer(u) PROVE Still
    <2>1. req[u].id \in Ids
      BY <1>2, RequestTypes DEF IInv, Cancel, Transfer
    <2> QED BY <1>0, <1>2, <2>1 DEF Cancel, Transfer, Row, Live
  <1>3. CASE ClaimReminders
    BY <1>0, <1>3 DEF ClaimReminders, Row, Live
  <1>4. CASE UNCHANGED book
    BY <1>4 DEF Live
  <1>5. ASSUME NEW u \in Users, Serve(u) PROVE Still
    BY <1>1, <1>2, <1>4, <1>5
    DEF Serve, BeginCreate, BeginPatch, BeginCancel, BeginTransfer, Insert, Update, rowVars
  <1>6. CASE (\E b \in Ids : Remind(b)) \/ Tick \/ BookingsCrash
    BY <1>4, <1>6 DEF Remind, Tick, BookingsCrash, rowVars
  <1> QED BY <1>3, <1>5, <1>6 DEF BookingsNext, BookingsStep

\* Two bookings that come to overlap do so by the commit of one of them.
LEMMA ClashByCommit ==
    ASSUME IInv, BookingsNext, NEW b \in Ids, NEW g \in Ids, Clash(b, g)',
           ~Clash(b, g) \/ (ConfirmedClash(b, g)' /\ ~ConfirmedClash(b, g))
    PROVE  \E u \in Users : Commit(u) /\ req[u].id \in {b, g} /\ req[u].id \in Ids /\ req[u].row \in Row
  <1>1. PICK u \in Users : Commit(u)
    <2> SUFFICES ASSUME \A u \in Users : ~Commit(u) PROVE FALSE
      OBVIOUS
    <2>1. /\ book'[b].slot = book[b].slot /\ book'[g].slot = book[g].slot
          /\ (Live(b)' => Live(b)) /\ (Live(g)' => Live(g))
          /\ book'[b].status = "CONFIRMED" => book[b].status = "CONFIRMED"
          /\ book'[g].status = "CONFIRMED" => book[g].status = "CONFIRMED"
      BY OnlyCommits
    <2> QED BY <2>1 DEF Clash, ConfirmedClash
  <1>2. req[u].id \in Ids /\ req[u].row \in Row
    BY <1>1, RequestTypes DEF IInv, Commit
  <1>3. ASSUME req[u].id \notin {b, g} PROVE FALSE
    <2>1. book'[b] = book[b] /\ book'[g] = book[g]
      BY <1>1, <1>2, <1>3 DEF Commit, IInv, BookingsTypeOK, RowsTypeOK
    <2> QED BY <2>1 DEF Clash, ConfirmedClash, Live
  <1> QED BY <1>1, <1>2, <1>3

\* Two confirmed bookings come to overlap only if both were between trigger and commit at once.
THEOREM ConfirmedStayApart == BookingsSpec => ConfirmedApart
  <1> DEFINE Through(b, g) ==
        \E u \in Users : /\ Asks(u, "commit") /\ req[u].id \in {b, g}
                         /\ {b, g} \ {req[u].id} \subseteq req[u].unseen
  <1> DEFINE Kept == \A b, g \in Ids : ConfirmedClash(b, g)' /\ ~ConfirmedClash(b, g) => Through(b, g)
  <1>1. IInv /\ [BookingsNext]_bookingVars => [Kept]_bookingVars
    <2> SUFFICES ASSUME IInv, BookingsNext, NEW b \in Ids, NEW g \in Ids,
                        ConfirmedClash(b, g)', ~ConfirmedClash(b, g)
                 PROVE  Through(b, g)
      OBVIOUS
    <2>1. Clash(b, g)'
      BY DEF ConfirmedClash
    <2>2. PICK u \in Users : /\ Commit(u) /\ req[u].id \in {b, g}
                             /\ req[u].id \in Ids /\ req[u].row \in Row
      BY <2>1, ClashByCommit
    <2>3. book \in [Ids -> Row] /\ Asks(u, "commit") /\ Looked(book, req[u])
      BY <2>2 DEF Commit, IInv, BookingsTypeOK, RowsTypeOK, HaveLooked
    <2>4. ASSUME NEW o \in Ids, o # req[u].id, book'[o].status = "CONFIRMED",
                 Overlap(book'[o].slot, req[u].row.slot)
          PROVE  o \in req[u].unseen
      <3>1. book'[o] = book[o]
        BY <2>2, <2>3, <2>4 DEF Commit
      <3> QED BY <2>3, <2>4, <3>1 DEF Looked, Asks
    <2>5. book'[req[u].id] = req[u].row
      BY <2>2, <2>3 DEF Commit
    <2>6. /\ b # g /\ book'[b].status = "CONFIRMED" /\ book'[g].status = "CONFIRMED"
          /\ Overlap(book'[b].slot, book'[g].slot) /\ Overlap(book'[g].slot, book'[b].slot)
      BY DEF ConfirmedClash, Clash, Overlap
    <2> QED BY <2>2, <2>3, <2>4, <2>5, <2>6
  <1> QED BY <1>1, IInvHolds, PTL DEF BookingsSpec, ConfirmedApart

\* Two live bookings come to overlap only by a request behind whose back one of them was
\* written after it had read the schedule.
THEOREM LiveStayApart == BookingsSpec => LiveApart
  <1> DEFINE Behind(b, g) ==
        \E u \in Users : /\ Asks(u, "commit") /\ req[u].id \in {b, g}
                         /\ req[u].since \cap {b, g} # {}
  <1> DEFINE Kept == \A b, g \in Ids : Clash(b, g)' /\ ~Clash(b, g) => Behind(b, g)
  <1>1. IInv /\ [BookingsNext]_bookingVars => [Kept]_bookingVars
    <2> SUFFICES ASSUME IInv, BookingsNext, NEW b \in Ids, NEW g \in Ids, Clash(b, g)', ~Clash(b, g)
                 PROVE  Behind(b, g)
      OBVIOUS
    <2>2. PICK u \in Users : /\ Commit(u) /\ req[u].id \in {b, g}
                             /\ req[u].id \in Ids /\ req[u].row \in Row
      BY ClashByCommit
    <2>3. book \in [Ids -> Row] /\ Asks(u, "commit") /\ Looked(book, req[u])
      BY <2>2 DEF Commit, IInv, BookingsTypeOK, RowsTypeOK, HaveLooked
    <2>4. ASSUME NEW o \in Ids, o # req[u].id, Live(o)', Overlap(book'[o].slot, req[u].row.slot)
          PROVE  o \in req[u].since \/ req[u].id \in req[u].since
      <3>1. book'[o] = book[o]
        BY <2>2, <2>3, <2>4 DEF Commit
      <3> QED BY <2>3, <2>4, <3>1 DEF Looked, Asks, Free, Live
    <2>5. book'[req[u].id] = req[u].row
      BY <2>2, <2>3 DEF Commit
    <2>6. /\ b # g /\ Live(b)' /\ Live(g)'
          /\ Overlap(book'[b].slot, book'[g].slot) /\ Overlap(book'[g].slot, book'[b].slot)
      BY DEF Clash, Overlap
    <2> QED BY <2>2, <2>3, <2>4, <2>5, <2>6
  <1> QED BY <1>1, IInvHolds, PTL DEF BookingsSpec, LiveApart

\* No booking is reminded of twice.
THEOREM RemindedAtMostOnce == BookingsSpec => []RemindedOnce
  <1>1. IInv => RemindedOnce
    BY DEF IInv, Mailed, RemindedOnce
  <1> QED BY <1>1, IInvHolds, PTL

\* A cancelled booking stays cancelled, however many statements are in flight: the lock
\* keeps the row as the constraint saw it.
THEOREM CancelledStays == BookingsSpec => CancelledIsFinal
  <1> DEFINE Final == \A b \in Ids : book[b].status = "CANCELLED" => book'[b].status = "CANCELLED"
  <1>1. IInv /\ [BookingsNext]_bookingVars => [Final]_bookingVars
    <2> SUFFICES ASSUME IInv, BookingsNext PROVE Final
      OBVIOUS
    <2>0. book \in [Ids -> Row]
      BY DEF IInv, BookingsTypeOK, RowsTypeOK
    <2>1. ASSUME NEW u \in Users, Commit(u) PROVE Final
      <3>1. req[u].id \in Ids /\ Audited(req[u].id, req[u].row)
        BY <2>1, RequestTypes DEF IInv, Pending, Commit
      <3> QED BY <2>0, <2>1, <3>1 DEF Commit, Audited
    <2>2. ASSUME NEW u \in Users, Cancel(u) \/ Transfer(u) PROVE Final
      <3>1. req[u].id \in Ids
        BY <2>2, RequestTypes DEF IInv, Cancel, Transfer
      <3> QED BY <2>0, <2>2, <3>1 DEF Cancel, Transfer, Row
    <2>3. ASSUME NEW u \in Users, NEW b \in Ids, Clear(u, b) PROVE Final
      BY <2>0, <2>3 DEF Clear, Row
    <2>4. CASE ClaimReminders
      BY <2>0, <2>4 DEF ClaimReminders, Row
    <2>5. CASE UNCHANGED book
      BY <2>5
    <2>6. ASSUME NEW u \in Users, Serve(u) PROVE Final
      BY <2>1, <2>2, <2>3, <2>5, <2>6
      DEF Serve, BeginCreate, BeginPatch, BeginCancel, BeginTransfer, Insert, Update, rowVars
    <2>7. CASE (\E b \in Ids : Remind(b)) \/ Tick \/ BookingsCrash
      BY <2>5, <2>7 DEF Remind, Tick, BookingsCrash, rowVars
    <2> QED BY <2>4, <2>6, <2>7 DEF BookingsNext, BookingsStep
  <1> QED BY <1>1, IInvHolds, PTL DEF BookingsSpec, CancelledIsFinal

-----------------------------------------------------------------------------
(* The register, suspension and the snapshots                              *)

\* Whatever a user can be asking for, of the bookings, of the register or of a membership.
AllRequests == Requests \cup Revocations \cup Cancellations

\* What a cancellation has read holds until another request writes the member, and what a
\* removal has kept until the member is restored.
Remembered ==
    /\ RestorableAsBefore
    /\ \A m \in Members : snapshot[m] # NoSnapshot => kind[m] = "REMOVED"
    /\ \A u \in Users : req[u].kind \in {"leave", "remove"} /\ ~req[u].late =>
          /\ kind[req[u].member] # "REMOVED"
          /\ Asks(u, "remove") => req[u].seen.kind = kind[req[u].member]

\* The inductive invariant.
RegisterInv == TypeOK /\ Remembered

-----------------------------------------------------------------------------

\* What a request of each kind carries.
LEMMA Carries ==
    ASSUME TypeOK, NEW u \in Users
    PROVE  /\ req[u] \in AllRequests
           /\ Asks(u, "create") => /\ req[u].row \in Row /\ req[u].rest \in SUBSET Ids
                                   /\ req[u].since \in SUBSET Ids /\ req[u] \in Requests
           /\ Asks(u, "patch") => /\ req[u].id \in Ids /\ req[u].patch \in Patches
                                  /\ req[u].rest \in SUBSET Ids
                                  /\ req[u].since \in SUBSET Ids /\ req[u] \in Requests
           /\ Asks(u, "cancel") => req[u].id \in Ids
           /\ Asks(u, "transfer") => req[u].id \in Ids /\ req[u].to \in Members
           /\ Asks(u, "commit") => req[u].id \in Ids /\ req[u].row \in Row
  BY DEF TypeOK, AllRequests, Requests, Revocations, Cancellations, Asks, Nothing

\* The same for the requests about the register.
LEMMA CarriesMember ==
    ASSUME TypeOK, NEW u \in Users, ~(req[u].kind \in
               {"none", "create", "patch", "cancel", "transfer", "commit"})
    PROVE  /\ req[u].member \in Members
           /\ Asks(u, "revoke") => req[u].was \in BOOLEAN
           /\ req[u].kind \in {"leave", "remove"} => req[u].late \in BOOLEAN
           /\ Asks(u, "remove") => req[u].seen \in Snapshots
  BY DEF TypeOK, AllRequests, Requests, Revocations, Cancellations, Asks, Nothing

\* A snapshot is not the absence of one.
LEMMA SnapshotIsOne == \A s \in Snapshots : s # NoSnapshot
  BY DEF Snapshots, NoSnapshot

\* A step that writes no type and begins, moves on or marks no cancellation.
LEMMA Quiet ==
    ASSUME RegisterInv, TypeOK',
           \A v \in Users : req'[v].kind \in {"leave", "remove"} => req'[v] = req[v],
           UNCHANGED <<kind, snapshot, was>>
    PROVE  RegisterInv'
  BY DEF RegisterInv, Remembered, RestorableAsBefore, Asks

\* The variables that no request about bookings changes.
Untouched == <<claim, mailVars, now, crashes, overdue, sweep, kind, snapshot, was, fee>>

\* A request that opens, moves on or ends, and at most writes bookings.
LEMMA QuietRequest ==
    ASSUME RegisterInv, NEW u \in Users, NEW r \in AllRequests, r.kind \notin {"leave", "remove"},
           req' = [req EXCEPT ![u] = r],
           book' \in [Ids -> Row],
           mayReserve' \in [Members -> BOOLEAN], notes' \in [Members -> 0..2],
           UNCHANGED Untouched
    PROVE  RegisterInv'
  <1>1. \A v \in Users : req'[v] = IF v = u THEN r ELSE req[v]
    BY DEF RegisterInv, TypeOK
  <1>2. TypeOK'
    <2>1. req' \in [Users -> AllRequests]
      BY DEF RegisterInv, TypeOK, AllRequests
    <2> QED BY <2>1 DEF RegisterInv, TypeOK, RowsTypeOK, Untouched, mailVars, AllRequests
  <1>3. UNCHANGED <<kind, snapshot, was>>
    BY DEF Untouched
  <1> QED BY <1>1, <1>2, <1>3, Quiet

\* Cancelling a row gives a row.
LEMMA CancelledRow ==
    ASSUME NEW r \in Row
    PROVE  [r EXCEPT !.status = "CANCELLED"] \in Row
  BY DEF Row, Statuses

\* cancelAllFutureBookingsForMember leaves rows, and goes one way or the other.
LEMMA CancelAllRows ==
    ASSUME TypeOK, NEW m \in Members, NEW fine, NEW raised, CancelAll(m, fine, raised)
    PROVE  book' \in [Ids -> Row] /\ (fine \/ raised)
  <1>1. CASE \A b \in Future(m) : Passes(b, book[b])
    <2>1. \A g \in Ids : book[g] \in Row /\ [book[g] EXCEPT !.status = "CANCELLED"] \in Row
      BY CancelledRow DEF TypeOK, RowsTypeOK
    <2>2. book' = [b \in Ids |-> IF b \in Future(m)
                                   THEN [book[b] EXCEPT !.status = "CANCELLED"] ELSE book[b]]
          /\ fine
      BY <1>1 DEF CancelAll
    <2> QED BY <2>1, <2>2
  <1>2. CASE ~(\A b \in Future(m) : Passes(b, book[b]))
    BY <1>2 DEF CancelAll, TypeOK, RowsTypeOK
  <1> QED BY <1>1, <1>2

-----------------------------------------------------------------------------
(* The requests about bookings                                             *)

\* A request about bookings, of whatever step but the commit, ends in a request and leaves rows.
LEMMA ServeTypes ==
    ASSUME TypeOK, NEW u \in Users, Serve(u), ~Commit(u)
    PROVE  /\ \E r \in Requests : req' = [req EXCEPT ![u] = r]
           /\ book' \in [Ids -> Row]
  <1>0. book \in [Ids -> Row] /\ Nothing \in Requests
    BY DEF TypeOK, RowsTypeOK, Requests
  <1> DEFINE Typed == (\E r \in Requests : req' = [req EXCEPT ![u] = r]) /\ book' \in [Ids -> Row]
  <1>1. ASSUME NEW m \in Members, NEW a \in Asked, BeginCreate(u, m, a) PROVE Typed
    <2> DEFINE r == [kind |-> "create",
                     row |-> [status |-> a.status, owner |-> m, slot |-> a.slot, reminded |-> FALSE],
                     rest |-> Overlapping(a.slot, Ids), since |-> {}]
    <2>1. r \in Requests
      BY BookingsAssumption DEF Requests, Row, Overlapping
    <2>2. req' = [req EXCEPT ![u] = r] /\ book' = book
      BY <1>1 DEF BeginCreate, Open, rowVars
    <2> QED BY <1>0, <2>1, <2>2
  <1>2. ASSUME NEW b \in Ids, NEW p \in Patches, BeginPatch(u, b, p) PROVE Typed
    <2> DEFINE r == [kind |-> "patch", id |-> b, patch |-> p,
                     rest |-> Overlapping(Patched(book[b], p).slot, Ids \ {b}), since |-> {}]
    <2>1. r \in Requests
      BY DEF Requests, Overlapping
    <2>2. req' = [req EXCEPT ![u] = r] /\ book' = book
      BY <1>2 DEF BeginPatch, Open, rowVars
    <2> QED BY <1>0, <2>1, <2>2
  <1>3. ASSUME NEW b \in Ids, Clear(u, b) PROVE Typed
    <2>1. CASE Passes(b, book[b])
      <3>1. req[u] \in Requests /\ [book[b] EXCEPT !.status = "CANCELLED"] \in Row
        BY <1>0, <1>3, Carries, CancelledRow DEF Clear, Asks
      <3>2. [req[u] EXCEPT !.rest = @ \ {b}] \in Requests
        BY <1>3, <3>1 DEF Clear, Requests, Nothing
      <3> QED BY <1>0, <1>3, <2>1, <3>1, <3>2 DEF Clear
    <2>2. CASE ~Passes(b, book[b])
      BY <1>0, <1>3, <2>2 DEF Clear, Done
    <2> QED BY <2>1, <2>2
  <1>4. ASSUME NEW b \in Ids, NEW row \in Row, Write(u, b, row), UNCHANGED book,
               req[u].since \in SUBSET Ids
        PROVE  Typed
    <2>1. [kind |-> "commit", id |-> b, row |-> row, since |-> req[u].since, unseen |-> {}] \in Requests
      BY <1>4 DEF Requests
    <2> QED BY <1>0, <1>4, <2>1 DEF Write, Done
  <1>5. ASSUME NEW b \in Ids, Insert(u, b) PROVE Typed
    BY <1>4, <1>5, Carries DEF Insert, rowVars
  <1>6. CASE Update(u)
    <2>1. req[u].id \in Ids /\ req[u].patch \in Patches /\ req[u].since \in SUBSET Ids
      BY <1>6, Carries DEF Update
    <2>2. Patched(book[req[u].id], req[u].patch) \in Row
      BY <1>0, <2>1, PatchedIsRow
    <2> QED BY <1>4, <1>6, <2>1, <2>2 DEF Update, rowVars
  <1>7. ASSUME NEW b \in Ids, BeginCancel(u, b) PROVE Typed
    <2>1. [kind |-> "cancel", id |-> b] \in Requests
      BY DEF Requests
    <2> QED BY <1>0, <1>7, <2>1 DEF BeginCancel, Open, rowVars
  <1>8. ASSUME NEW b \in Ids, NEW m \in Members, BeginTransfer(u, b, m) PROVE Typed
    <2>1. [kind |-> "transfer", id |-> b, to |-> m] \in Requests
      BY DEF Requests
    <2> QED BY <1>0, <1>8, <2>1 DEF BeginTransfer, Open, rowVars
  <1>9. CASE Cancel(u)
    <2>1. req[u].id \in Ids
      BY <1>9, Carries DEF Cancel
    <2>2. [book[req[u].id] EXCEPT !.status = "CANCELLED"] \in Row
      BY <1>0, <2>1, CancelledRow
    <2> QED BY <1>0, <1>9, <2>1, <2>2 DEF Cancel, Done
  <1>10. CASE Transfer(u)
    <2>1. req[u].id \in Ids /\ req[u].to \in Members
      BY <1>10, Carries DEF Transfer
    <2>2. [book[req[u].id] EXCEPT !.owner = req[u].to] \in Row
      BY <1>0, <2>1 DEF Row
    <2> QED BY <1>0, <1>10, <2>1, <2>2 DEF Transfer, Done
  <1> QED BY <1>1, <1>2, <1>3, <1>5, <1>6, <1>7, <1>8, <1>9, <1>10 DEF Serve

\* A request about bookings keeps the invariant of the register.
LEMMA ServeHolds ==
    ASSUME RegisterInv, UNCHANGED <<overdue, sweep, registerVars>>, NEW u \in Users, Serve(u)
    PROVE  RegisterInv'
  <1> USE DEF rowVars, mailVars, registerVars
  <1>0. /\ UNCHANGED Untouched /\ UNCHANGED <<mayReserve, notes>>
        /\ TypeOK /\ mayReserve \in [Members -> BOOLEAN] /\ notes \in [Members -> 0..2]
    BY DEF Serve, BeginCreate, BeginPatch, BeginCancel, BeginTransfer, Clear, Insert, Update, Commit,
           Cancel, Transfer, Untouched, RegisterInv, TypeOK, RowsTypeOK
  <1>1. CASE ~Commit(u)
    <2>1. PICK r \in Requests : req' = [req EXCEPT ![u] = r]
      BY <1>0, <1>1, ServeTypes
    <2>2. r \in AllRequests /\ r.kind \notin {"leave", "remove"}
      BY DEF AllRequests, Requests, Nothing
    <2>3. book' \in [Ids -> Row]
      BY <1>0, <1>1, ServeTypes
    <2> QED BY <1>0, <2>1, <2>2, <2>3, QuietRequest
  <1>2. CASE Commit(u)
    <2>1. req[u].id \in Ids /\ req[u].row \in Row /\ book \in [Ids -> Row]
      BY <1>0, <1>2, Carries DEF Commit, TypeOK, RowsTypeOK
    <2>2. ASSUME NEW v \in Users
          PROVE  /\ Noting(req[v], req[u].id) \in AllRequests
                 /\ Noting(req[v], req[u].id) = req[v]
                      \/ Noting(req[v], req[u].id).kind \in {"create", "patch", "commit"}
      <3>1. CASE req[v] \in Requests
        BY <2>1, <3>1, NotingKeeps DEF AllRequests
      <3>2. CASE req[v] \notin Requests
        <4>1. req[v] \in Revocations \cup Cancellations
          BY <1>0, <3>2 DEF TypeOK, AllRequests
        <4>2. req[v].kind \notin {"create", "patch", "commit"}
          BY <4>1 DEF Revocations, Cancellations
        <4> QED BY <4>1, <4>2 DEF Noting, AllRequests
      <3> QED BY <3>1, <3>2
    <2>3. Nothing \in AllRequests /\ Nothing.kind = "none"
      BY DEF AllRequests, Requests, Nothing
    <2>4. \A v \in Users : /\ req'[v] \in AllRequests
                           /\ req'[v] = req[v] \/ req'[v].kind \notin {"leave", "remove"}
      BY <1>2, <2>2, <2>3 DEF Commit
    <2>5. req' \in [Users -> AllRequests]
      BY <1>2, <2>4 DEF Commit
    <2>6. book' \in [Ids -> Row]
      BY <1>2, <2>1 DEF Commit
    <2>7. TypeOK'
      BY <1>0, <2>5, <2>6 DEF TypeOK, RowsTypeOK, AllRequests, Untouched
    <2>8. UNCHANGED <<kind, snapshot, was>>
      BY <1>0 DEF Untouched
    <2> QED BY <2>4, <2>7, <2>8, Quiet
  <1> QED BY <1>1, <1>2

-----------------------------------------------------------------------------
(* Steps that are no request's                                             *)

\* The reminder worker, the clock and what goes on in the register and the invoices.
LEMMA AsideHolds ==
    ASSUME RegisterInv,
           \/ /\ UNCHANGED <<overdue, sweep, registerVars>>
              /\ ClaimReminders \/ Tick \/ \E b \in Ids : Remind(b)
           \/ /\ UNCHANGED registerVars
              /\ \/ \E m \in Members : Grant(m) \/ RefreshToken(m) \/ FallBehind(m) \/ Pay(m)
                 \/ Sweep
           \/ \E m \in Members : InvoiceFee(m) \/ PayFee(m)
    PROVE  RegisterInv'
  <1> USE DEF rowVars, mailVars, registerVars, bookingVars, vars
  <1>0. TypeOK /\ RowsTypeOK
    BY DEF RegisterInv, TypeOK
  <1>1. CASE ClaimReminders /\ UNCHANGED <<overdue, sweep, registerVars>>
    <2> DEFINE due == {b \in Upcoming : ~book[b].reminded}
    <2>1. /\ due \subseteq Ids
          /\ book' = [b \in Ids |-> IF b \in due THEN [book[b] EXCEPT !.reminded = TRUE] ELSE book[b]]
          /\ claimed' = claimed \cup due
      BY <1>1 DEF ClaimReminders, Upcoming
    <2> HIDE DEF due
    <2>2. \A g \in Ids : book[g] \in Row /\ [book[g] EXCEPT !.reminded = TRUE] \in Row
      BY <1>0 DEF RowsTypeOK, Row
    <2>3. book' \in [Ids -> Row]
      BY <2>1, <2>2
    <2>5. TypeOK'
      BY <1>0, <1>1, <2>1, <2>3 DEF TypeOK, RowsTypeOK, ClaimReminders
    <2> QED BY <1>1, <2>5, Quiet DEF ClaimReminders
  <1>2. ASSUME UNCHANGED <<req, kind, snapshot, was>>, TypeOK' PROVE RegisterInv'
    BY <1>2, Quiet
  <1>3. ASSUME UNCHANGED <<overdue, sweep, registerVars>>,
               Tick \/ \E b \in Ids : Remind(b)
        PROVE  RegisterInv'
    <2>1. CASE Tick
      <3>1. TypeOK'
        BY <1>0, <1>3, <2>1, BookingsAssumption DEF TypeOK, RowsTypeOK, Tick
      <3> QED BY <1>2, <1>3, <2>1, <3>1 DEF Tick
    <2>2. ASSUME NEW b \in Ids, Remind(b) PROVE RegisterInv'
      <3>1. claimed' \subseteq Ids /\ mails' \in [Ids -> 0..2]
        BY <1>0, <2>2 DEF RowsTypeOK, Remind
      <3>2. TypeOK'
        BY <1>0, <1>3, <2>2, <3>1 DEF TypeOK, RowsTypeOK, Remind
      <3> QED BY <1>2, <1>3, <2>2, <3>2 DEF Remind
    <2> QED BY <1>3, <2>1, <2>2
  <1>4. ASSUME UNCHANGED registerVars, NEW m \in Members,
               Grant(m) \/ RefreshToken(m) \/ FallBehind(m) \/ Pay(m)
        PROVE  RegisterInv'
    <2>1. /\ mayReserve' \in [Members -> BOOLEAN] /\ claim' \in [Members -> BOOLEAN]
          /\ overdue' \in [Members -> {"none", "late", "long"}]
          /\ UNCHANGED <<book, req, mailVars, now, crashes, sweep>>
      BY <1>0, <1>4 DEF TypeOK, RowsTypeOK, Grant, RefreshToken, FallBehind, Pay
    <2>2. TypeOK'
      BY <1>0, <1>4, <2>1 DEF TypeOK, RowsTypeOK
    <2> QED BY <1>2, <1>4, <2>1, <2>2
  <1>5. ASSUME UNCHANGED registerVars, Sweep PROVE RegisterInv'
    <2>0. sweep \in Sweeps /\ mayReserve \in [Members -> BOOLEAN]
      BY <1>0 DEF TypeOK, RowsTypeOK
    <2>1. /\ sweep' \in Sweeps /\ mayReserve' \in [Members -> BOOLEAN]
          /\ UNCHANGED <<book, claim, req, mailVars, now, crashes, overdue>>
      <3>1. CASE StartSweep \/ EndSweep \/ ListLong
        BY <2>0, <3>1 DEF Sweeps, StartSweep, EndSweep, ListLong, Asleep
      <3>2. ASSUME NEW m \in Members, Restore(m) PROVE <2>1
        <4>1. PICK rest \in SUBSET Members : sweep = [step |-> "restore", rest |-> rest]
          BY <2>0, <3>2 DEF Sweeps, Restore, Asleep
        <4>2. sweep' = [step |-> "restore", rest |-> rest \ {m}]
          BY <3>2, <4>1 DEF Restore
        <4>3. sweep' \in Sweeps
          BY <4>2 DEF Sweeps
        <4>4. (mayReserve[m] \/ overdue[m] = "none") \in BOOLEAN
          OBVIOUS
        <4>5. mayReserve' \in [Members -> BOOLEAN]
          BY <2>0, <3>2, <4>4 DEF Restore
        <4> QED BY <3>2, <4>3, <4>5 DEF Restore
      <3>3. ASSUME NEW m \in Members, Suspend(m) PROVE <2>1
        <4>1. PICK rest \in SUBSET Members : sweep = [step |-> "suspend", rest |-> rest]
          BY <2>0, <3>3 DEF Sweeps, Suspend, Asleep
        <4>2. CASE mayReserve[m]
          <5>1. sweep' = [step |-> "purge", rest |-> rest \ {m}, who |-> m]
            BY <3>3, <4>1, <4>2 DEF Suspend
          <5> QED BY <2>0, <3>3, <4>2, <5>1 DEF Sweeps, Suspend
        <4>3. CASE ~mayReserve[m]
          <5>1. sweep' = [step |-> "suspend", rest |-> rest \ {m}]
            BY <3>3, <4>1, <4>3 DEF Suspend
          <5> QED BY <2>0, <3>3, <4>3, <5>1 DEF Sweeps, Suspend
        <4> QED BY <4>2, <4>3
      <3> QED BY <1>5, <3>1, <3>2, <3>3 DEF Sweep
    <2>2. TypeOK'
      BY <1>0, <1>5, <2>1 DEF TypeOK, RowsTypeOK
    <2> QED BY <1>2, <1>5, <2>1, <2>2
  <1>6. ASSUME NEW m \in Members, InvoiceFee(m) \/ PayFee(m) PROVE RegisterInv'
    <2>1. fee' \in [Members -> {"none", "unpaid", "paid"}]
      BY <1>0, <1>6 DEF TypeOK, InvoiceFee, PayFee
    <2>2. TypeOK'
      BY <1>0, <1>6, <2>1 DEF TypeOK, RowsTypeOK, InvoiceFee, PayFee
    <2> QED BY <1>2, <1>6, <2>2 DEF InvoiceFee, PayFee
  <1> QED BY <1>1, <1>3, <1>4, <1>5, <1>6

\* Crashes, and the two requests and the sweep that suspend, with the bookings they cancel.
LEMMA SuspendHolds ==
    ASSUME RegisterInv, UNCHANGED registerVars,
           \/ Crash \/ PurgeSuspended
           \/ \E u \in Users : Revoke(u) \/ Purge(u) \/ \E m \in Members : BeginRevoke(u, m)
    PROVE  RegisterInv'
  <1> USE DEF rowVars, mailVars, registerVars
  <1>0. /\ TypeOK /\ RowsTypeOK
        /\ mayReserve \in [Members -> BOOLEAN] /\ notes \in [Members -> 0..2] /\ book \in [Ids -> Row]
    BY DEF RegisterInv, TypeOK, RowsTypeOK
  <1>1. Nothing \in AllRequests /\ Nothing.kind = "none"
    BY DEF AllRequests, Requests, Nothing
  <1>2. CASE Crash
    <2>1. /\ req' = [u \in Users |-> Nothing] /\ sweep' = Asleep /\ claimed' = {}
          /\ crashes' = crashes + 1 /\ crashes < MaxCrashes
          /\ UNCHANGED <<rowVars, claim, mails, now, overdue>>
      BY <1>2 DEF Crash, BookingsCrash
    <2>2. req' \in [Users -> AllRequests] /\ \A v \in Users : req'[v] = Nothing
      BY <1>1, <2>1
    <2>3. crashes' \in 0..MaxCrashes
      BY <1>0, <2>1, BookingsAssumption DEF RowsTypeOK
    <2>4. TypeOK'
      BY <1>0, <2>1, <2>2, <2>3 DEF TypeOK, RowsTypeOK, Sweeps, AllRequests
    <2> QED BY <1>1, <2>2, <2>4, Quiet
  <1>3. CASE PurgeSuspended
    <2>0. sweep \in Sweeps /\ sweep.step = "purge"
      BY <1>0, <1>3 DEF TypeOK, PurgeSuspended
    <2>1. PICK rest \in SUBSET Members, who \in Members :
              sweep = [step |-> "purge", rest |-> rest, who |-> who]
      BY <2>0 DEF Sweeps, Asleep
    <2>2. CancelAll(who, sweep' = [step |-> "suspend", rest |-> rest], sweep' = Asleep)
      BY <1>3, <2>1 DEF PurgeSuspended
    <2>3. /\ book' \in [Ids -> Row]
          /\ sweep' = [step |-> "suspend", rest |-> rest] \/ sweep' = Asleep
      BY <1>0, <2>2, CancelAllRows
    <2>4. sweep' \in Sweeps
      BY <2>3 DEF Sweeps
    <2>5. TypeOK'
      BY <1>0, <1>3, <2>3, <2>4 DEF TypeOK, RowsTypeOK, PurgeSuspended
    <2> QED BY <1>3, <2>5, Quiet DEF PurgeSuspended
  <1>4. ASSUME NEW u \in Users, NEW m \in Members, BeginRevoke(u, m) PROVE RegisterInv'
    <2> DEFINE r == [kind |-> "revoke", member |-> m, was |-> mayReserve[m]]
    <2>1. r \in AllRequests /\ r.kind = "revoke"
      BY <1>0 DEF AllRequests, Revocations
    <2>2. req' = [req EXCEPT ![u] = r] /\ UNCHANGED Untouched /\ UNCHANGED rowVars /\ UNCHANGED notes
      BY <1>4 DEF BeginRevoke, Open, Untouched
    <2> HIDE DEF r
    <2> QED BY <1>0, <2>1, <2>2, QuietRequest
  <1>5. ASSUME NEW u \in Users, Revoke(u) PROVE RegisterInv'
    <2>1. req[u].member \in Members /\ ~Asks(u, "none")
      BY <1>0, <1>5, CarriesMember DEF Revoke, Asks
    <2>2. PICK r \in AllRequests : /\ r.kind \in {"none", "purge"}
                                   /\ req' = [req EXCEPT ![u] = r]
      <3>1. CASE req[u].was
        <4> DEFINE r == [kind |-> "purge", member |-> req[u].member]
        <4>1. r \in AllRequests /\ r.kind = "purge"
          BY <2>1 DEF AllRequests, Revocations
        <4> QED BY <1>5, <3>1, <4>1 DEF Revoke
      <3>2. CASE ~req[u].was
        BY <1>1, <1>5, <3>2 DEF Revoke, Done
      <3> QED BY <3>1, <3>2
    <2>3. /\ mayReserve' \in [Members -> BOOLEAN]
          /\ UNCHANGED Untouched /\ UNCHANGED book /\ UNCHANGED notes
      BY <1>0, <1>5, <2>1 DEF Revoke, Untouched
    <2> QED BY <1>0, <2>1, <2>2, <2>3, QuietRequest
  <1>6. ASSUME NEW u \in Users, Purge(u) PROVE RegisterInv'
    <2>1. req[u].member \in Members /\ ~Asks(u, "none")
      BY <1>0, <1>6, CarriesMember DEF Purge, Asks
    <2>2. /\ book' \in [Ids -> Row]
          /\ req' = [req EXCEPT ![u] = Nothing]
      BY <1>0, <1>6, <2>1, CancelAllRows DEF Purge, Done
    <2>3. UNCHANGED Untouched /\ UNCHANGED mayReserve /\ UNCHANGED notes
      BY <1>6 DEF Purge, Untouched
    <2> QED BY <1>0, <1>1, <2>1, <2>2, <2>3, QuietRequest
  <1> QED BY <1>2, <1>3, <1>4, <1>5, <1>6

-----------------------------------------------------------------------------
(* The requests about the register                                         *)

\* A cancellation that has the register behind it, and the start of a restoration.
LEMMA AfterwardsHolds ==
    ASSUME RegisterInv, NEW u \in Users,
           \/ ClearBookings(u) \/ ListFees(u) \/ SendNote(u)
           \/ \E m \in Members : BeginReturn(u, m)
    PROVE  RegisterInv'
  <1> USE DEF rowVars, mailVars, registerVars, Elsewhere
  <1>0. /\ TypeOK /\ RowsTypeOK
        /\ mayReserve \in [Members -> BOOLEAN] /\ notes \in [Members -> 0..2] /\ book \in [Ids -> Row]
    BY DEF RegisterInv, TypeOK, RowsTypeOK
  <1>1. Nothing \in AllRequests /\ Nothing.kind = "none"
    BY DEF AllRequests, Requests, Nothing
  <1>2. ASSUME NEW m \in Members, BeginReturn(u, m) PROVE RegisterInv'
    <2> DEFINE r == [kind |-> "return", member |-> m]
    <2>1. r \in AllRequests /\ r.kind = "return"
      BY DEF AllRequests, Cancellations
    <2>2. req' = [req EXCEPT ![u] = r] /\ UNCHANGED Untouched /\ UNCHANGED rowVars /\ UNCHANGED notes
      BY <1>2 DEF BeginReturn, Open, Untouched
    <2> HIDE DEF r
    <2> QED BY <1>0, <2>1, <2>2, QuietRequest
  <1>3. CASE ClearBookings(u)
    <2>1. req[u].member \in Members /\ ~Asks(u, "none")
      BY <1>0, <1>3, CarriesMember DEF ClearBookings, Asks
    <2> DEFINE r == [kind |-> "list", member |-> req[u].member]
    <2>2. r \in AllRequests /\ r.kind = "list"
      BY <2>1 DEF AllRequests, Cancellations
    <2>3. CancelAll(req[u].member, req' = [req EXCEPT ![u] = r], req' = [req EXCEPT ![u] = Nothing])
      BY <1>3 DEF ClearBookings, Done
    <2> HIDE DEF r
    <2>4. /\ book' \in [Ids -> Row]
          /\ req' = [req EXCEPT ![u] = r] \/ req' = [req EXCEPT ![u] = Nothing]
      BY <1>0, <2>1, <2>3, CancelAllRows
    <2>5. UNCHANGED Untouched /\ UNCHANGED mayReserve /\ UNCHANGED notes
      BY <1>3 DEF ClearBookings, Untouched
    <2>6. CASE req' = [req EXCEPT ![u] = r]
      BY <1>0, <2>1, <2>2, <2>4, <2>5, <2>6, QuietRequest
    <2>7. CASE req' = [req EXCEPT ![u] = Nothing]
      BY <1>0, <1>1, <2>1, <2>4, <2>5, <2>7, QuietRequest
    <2> QED BY <2>4, <2>6, <2>7
  <1>4. CASE ListFees(u)
    <2>1. req[u].member \in Members /\ ~Asks(u, "none")
      BY <1>0, <1>4, CarriesMember DEF ListFees, Asks
    <2> DEFINE r == [kind |-> "note", member |-> req[u].member]
    <2>2. r \in AllRequests /\ r.kind = "note"
      BY <2>1 DEF AllRequests, Cancellations
    <2>3. req' = [req EXCEPT ![u] = r] \/ req' = [req EXCEPT ![u] = Nothing]
      BY <1>4 DEF ListFees, Done
    <2> HIDE DEF r
    <2>4. UNCHANGED Untouched /\ UNCHANGED rowVars /\ UNCHANGED notes
      BY <1>4 DEF ListFees, Untouched
    <2>5. CASE req' = [req EXCEPT ![u] = r]
      BY <1>0, <2>1, <2>2, <2>4, <2>5, QuietRequest
    <2>6. CASE req' = [req EXCEPT ![u] = Nothing]
      BY <1>0, <1>1, <2>1, <2>4, <2>6, QuietRequest
    <2> QED BY <2>3, <2>5, <2>6
  <1>5. CASE SendNote(u)
    <2>1. req[u].member \in Members /\ ~Asks(u, "none")
      BY <1>0, <1>5, CarriesMember DEF SendNote, Asks
    <2>2. notes' \in [Members -> 0..2]
      BY <1>0, <1>5, <2>1 DEF SendNote
    <2>3. /\ req' = [req EXCEPT ![u] = Nothing]
          /\ UNCHANGED Untouched /\ UNCHANGED rowVars
      BY <1>5 DEF SendNote, Untouched, Done
    <2> QED BY <1>0, <1>1, <2>1, <2>2, <2>3, QuietRequest
  <1> QED BY <1>2, <1>3, <1>4, <1>5

\* A cancellation that begins, and that has read what is to be restored.
LEMMA LeaveHolds ==
    ASSUME RegisterInv, NEW u \in Users,
           ReadMember(u) \/ \E m \in Members : BeginLeave(u, m)
    PROVE  RegisterInv'
  <1> USE DEF rowVars, mailVars, registerVars, Elsewhere
  <1>0. /\ TypeOK /\ RowsTypeOK
        /\ mayReserve \in [Members -> BOOLEAN] /\ kind \in [Members -> Kinds \cup {"REMOVED"}]
    BY DEF RegisterInv, TypeOK, RowsTypeOK
  <1> DEFINE Fits(m, r) ==
            /\ r.kind \in {"leave", "remove"} /\ r.member = m
            /\ ~r.late => kind[m] # "REMOVED"
            /\ r.kind = "remove" => r.seen.kind = kind[m]
            /\ req' = [req EXCEPT ![u] = r]
            /\ UNCHANGED <<rowVars, Elsewhere, registerVars>>
  <1>1. PICK m \in Members, r \in AllRequests : Fits(m, r)
    <2>1. ASSUME NEW m \in Members, BeginLeave(u, m)
          PROVE \E n \in Members, r \in AllRequests : Fits(n, r)
      <3> DEFINE r == [kind |-> "leave", member |-> m, late |-> FALSE]
      <3>1. r \in AllRequests /\ r.kind = "leave" /\ r.member = m
        BY DEF AllRequests, Cancellations
      <3>2. /\ kind[m] # "REMOVED" /\ req' = [req EXCEPT ![u] = r]
            /\ UNCHANGED <<rowVars, Elsewhere, registerVars>>
        BY <2>1 DEF BeginLeave, Open
      <3> HIDE DEF r
      <3> QED BY <3>1, <3>2
    <2>2. CASE ReadMember(u)
      <3>1. PICK m \in Members, late \in BOOLEAN : m = req[u].member /\ late = req[u].late
        BY <1>0, <2>2, CarriesMember DEF ReadMember, Asks
      <3> DEFINE s == [kind |-> kind[m], mayReserve |-> mayReserve[m]]
      <3> DEFINE r == [kind |-> "remove", member |-> m, late |-> late, seen |-> s]
      <3>2. s \in Snapshots /\ s.kind = kind[m]
        BY <1>0 DEF Snapshots
      <3>3. req' = [req EXCEPT ![u] = r] /\ UNCHANGED <<rowVars, Elsewhere, registerVars>>
        BY <2>2, <3>1 DEF ReadMember, Asks
      <3>4. ~late => kind[m] # "REMOVED"
        BY <1>0, <2>2, <3>1 DEF RegisterInv, Remembered, ReadMember, Asks
      <3> HIDE DEF s
      <3>5. r \in AllRequests /\ r.kind = "remove" /\ r.member = m /\ r.seen = s /\ r.late = late
        BY <3>2 DEF AllRequests, Cancellations
      <3> HIDE DEF r
      <3> QED BY <3>2, <3>3, <3>4, <3>5
    <2> QED BY <2>1, <2>2
  <1>3. /\ req' \in [Users -> AllRequests]
        /\ \A v \in Users : req'[v] = IF v = u THEN r ELSE req[v]
    BY <1>0, <1>1 DEF TypeOK, AllRequests
  <1>4. TypeOK'
    BY <1>0, <1>1, <1>3 DEF TypeOK, RowsTypeOK, AllRequests
  <1>5. Remembered'
    BY <1>1, <1>3 DEF RegisterInv, Remembered, RestorableAsBefore, Asks
  <1> QED BY <1>4, <1>5 DEF RegisterInv

\* The requests after one about a member has written the register: those that cancel that
\* member's membership are late now.
LEMMA OvertakenKeeps ==
    ASSUME NEW r \in [Users -> AllRequests], NEW m \in Members
    PROVE  /\ Overtaken(r, m) \in [Users -> AllRequests]
           /\ \A v \in Users :
                 /\ Overtaken(r, m)[v].kind = r[v].kind
                 /\ r[v].kind \in {"leave", "remove"} =>
                      IF r[v].member = m THEN Overtaken(r, m)[v].late
                                         ELSE Overtaken(r, m)[v] = r[v]
                 /\ r[v].kind \in {"leave", "remove"} => Overtaken(r, m)[v].member = r[v].member
  <1> SUFFICES ASSUME NEW v \in Users
               PROVE  LET o == Overtaken(r, m)[v] IN
                      /\ o \in AllRequests /\ o.kind = r[v].kind
                      /\ r[v].kind \in {"leave", "remove"} => IF r[v].member = m THEN o.late ELSE o = r[v]
                      /\ r[v].kind \in {"leave", "remove"} => o.member = r[v].member
    BY DEF Overtaken
  <1>1. CASE r[v].kind \in {"leave", "remove"} /\ r[v].member = m
    <2>1. r[v] \in [kind : {"leave"}, member : Members, late : BOOLEAN]
                   \cup [kind : {"remove"}, member : Members, late : BOOLEAN, seen : Snapshots]
      <3>1. r[v] \in AllRequests
        OBVIOUS
      <3> QED BY <1>1, <3>1 DEF AllRequests, Requests, Revocations, Cancellations, Nothing
    <2>2. Overtaken(r, m)[v] = [r[v] EXCEPT !.late = TRUE]
      BY <1>1 DEF Overtaken
    <2> QED BY <1>1, <2>1, <2>2 DEF AllRequests, Cancellations
  <1>2. CASE ~(r[v].kind \in {"leave", "remove"} /\ r[v].member = m)
    BY <1>2 DEF Overtaken
  <1> QED BY <1>1, <1>2

\* The register and the snapshot are written together, of a member whom nobody else has
\* written since the type was read, or the request is late.
LEMMA DeactivateHolds ==
    ASSUME RegisterInv, NEW u \in Users, Deactivate(u)
    PROVE  RegisterInv'
  <1> USE DEF rowVars, mailVars, registerVars, Elsewhere
  <1>0. /\ TypeOK /\ RowsTypeOK
        /\ mayReserve \in [Members -> BOOLEAN] /\ kind \in [Members -> Kinds \cup {"REMOVED"}]
        /\ snapshot \in [Members -> Snapshots \cup {NoSnapshot}]
        /\ was \in [Members -> Kinds \cup {"LATE"}]
    BY DEF RegisterInv, TypeOK, RowsTypeOK
  <1>1. PICK m \in Members, s \in Snapshots, late \in BOOLEAN :
            m = req[u].member /\ s = req[u].seen /\ late = req[u].late
    BY <1>0, CarriesMember DEF Deactivate, Asks
  <1>2. ~late => kind[m] # "REMOVED" /\ s.kind = kind[m]
    BY <1>1 DEF RegisterInv, Remembered, Deactivate, Asks
  <1> DEFINE r == [kind |-> "clear", member |-> m]
  <1> DEFINE q == [req EXCEPT ![u] = r]
  <1> DEFINE w == IF late THEN "LATE" ELSE IF kind[m] = "REMOVED" THEN was[m] ELSE kind[m]
  <1>3. r \in AllRequests /\ r.kind = "clear"
    BY DEF AllRequests, Cancellations
  <1>4. /\ req' = Overtaken(q, m)
        /\ kind' = [kind EXCEPT ![m] = "REMOVED"]
        /\ snapshot' = [snapshot EXCEPT ![m] = s]
        /\ was' = [was EXCEPT ![m] = w]
        /\ mayReserve' = [mayReserve EXCEPT ![m] = FALSE]
        /\ UNCHANGED <<book, Elsewhere, fee, notes>>
    BY <1>1 DEF Deactivate, Asks
  <1>w. w \in Kinds \cup {"LATE"}
    BY <1>0
  <1> HIDE DEF r
  <1>5. q \in [Users -> AllRequests] /\ \A v \in Users : q[v] = IF v = u THEN r ELSE req[v]
    BY <1>0, <1>3 DEF TypeOK, AllRequests
  <1> HIDE DEF q, w
  <1>6. /\ req' \in [Users -> AllRequests]
        /\ \A v \in Users : req'[v].kind \in {"leave", "remove"} /\ ~req'[v].late =>
               req'[v] = req[v] /\ req[v].member # m
    BY <1>3, <1>4, <1>5, OvertakenKeeps
  <1>7. TypeOK'
    BY <1>0, <1>4, <1>6, <1>w DEF TypeOK, RowsTypeOK, AllRequests
  <1>8. Remembered'
    <2>1. \A n \in Members : /\ kind'[n] = IF n = m THEN "REMOVED" ELSE kind[n]
                             /\ snapshot'[n] = IF n = m THEN s ELSE snapshot[n]
                             /\ was'[n] = IF n = m THEN w ELSE was[n]
      BY <1>0, <1>4
    <2>2. s # NoSnapshot /\ (w # "LATE" => s.kind = w)
      BY <1>2, SnapshotIsOne DEF w
    <2>3. RestorableAsBefore'
      BY <2>1, <2>2 DEF RegisterInv, Remembered, RestorableAsBefore
    <2>4. \A v \in Users : req[v].kind \in {"leave", "remove"} => req[v].member \in Members
      BY <1>0, CarriesMember
    <2> QED BY <1>6, <2>1, <2>3, <2>4 DEF RegisterInv, Remembered, Asks
  <1> QED BY <1>7, <1>8 DEF RegisterInv

\* What is restored is what the snapshot holds, and no snapshot is left.
LEMMA RestoreHolds ==
    ASSUME RegisterInv, NEW u \in Users, RestoreMember(u)
    PROVE  RegisterInv'
  <1> USE DEF rowVars, mailVars, registerVars, Elsewhere
  <1>0. /\ TypeOK /\ RowsTypeOK
        /\ mayReserve \in [Members -> BOOLEAN] /\ kind \in [Members -> Kinds \cup {"REMOVED"}]
        /\ snapshot \in [Members -> Snapshots \cup {NoSnapshot}]
        /\ was \in [Members -> Kinds \cup {"LATE"}]
    BY DEF RegisterInv, TypeOK, RowsTypeOK
  <1>1. PICK m \in Members : m = req[u].member
    BY <1>0, CarriesMember DEF RestoreMember, Asks
  <1>2. PICK s \in Snapshots :
            /\ was[m] # "LATE" => s.kind # "REMOVED"
            /\ kind' = [kind EXCEPT ![m] = s.kind]
            /\ mayReserve' = [mayReserve EXCEPT ![m] = s.mayReserve]
    <2>1. CASE snapshot[m] = NoSnapshot
      <3> DEFINE s == [kind |-> "FLYING", mayReserve |-> TRUE]
      <3>1. s \in Snapshots /\ s.kind # "REMOVED"
        BY RemovalAssumption DEF Snapshots
      <3>2. kind' = [kind EXCEPT ![m] = s.kind]
            /\ mayReserve' = [mayReserve EXCEPT ![m] = s.mayReserve]
        BY <1>1, <2>1 DEF RestoreMember
      <3> HIDE DEF s
      <3> QED BY <3>1, <3>2
    <2>2. CASE snapshot[m] # NoSnapshot
      <3>1. snapshot[m] \in Snapshots /\ (was[m] # "LATE" => snapshot[m].kind = was[m])
        BY <1>0, <2>2 DEF RegisterInv, Remembered, RestorableAsBefore
      <3>2. was[m] # "LATE" => was[m] # "REMOVED"
        BY <1>0, RemovalAssumption
      <3>3. kind' = [kind EXCEPT ![m] = snapshot[m].kind]
            /\ mayReserve' = [mayReserve EXCEPT ![m] = snapshot[m].mayReserve]
        BY <1>1, <2>2 DEF RestoreMember
      <3> QED BY <3>1, <3>2, <3>3
    <2> QED BY <2>1, <2>2
  <1> DEFINE q == [req EXCEPT ![u] = Nothing]
  <1>3. Nothing \in AllRequests /\ Nothing.kind = "none"
    BY DEF AllRequests, Requests, Nothing
  <1>4. /\ req' = Overtaken(q, m)
        /\ snapshot' = [snapshot EXCEPT ![m] = NoSnapshot]
        /\ UNCHANGED <<book, Elsewhere, was, fee, notes>>
    BY <1>1 DEF RestoreMember
  <1>5. q \in [Users -> AllRequests] /\ \A v \in Users : q[v] = IF v = u THEN Nothing ELSE req[v]
    BY <1>0, <1>3 DEF TypeOK, AllRequests
  <1> HIDE DEF q
  <1>6. /\ req' \in [Users -> AllRequests]
        /\ \A v \in Users : req'[v].kind \in {"leave", "remove"} /\ ~req'[v].late =>
               req'[v] = req[v] /\ req[v].member # m
    BY <1>3, <1>4, <1>5, OvertakenKeeps
  <1>7. TypeOK'
    <2>1. s.kind \in Kinds \cup {"REMOVED"} /\ s.mayReserve \in BOOLEAN
      BY DEF Snapshots
    <2> QED BY <1>0, <1>2, <1>4, <1>6, <2>1 DEF TypeOK, RowsTypeOK, AllRequests
  <1>8. Remembered'
    <2>1. \A n \in Members : /\ kind'[n] = IF n = m THEN s.kind ELSE kind[n]
                             /\ snapshot'[n] = IF n = m THEN NoSnapshot ELSE snapshot[n]
                             /\ was'[n] = was[n]
      BY <1>0, <1>2, <1>4
    <2>2. RestorableAsBefore'
      BY <1>2, <2>1 DEF RegisterInv, Remembered, RestorableAsBefore
    <2>3. \A v \in Users : req[v].kind \in {"leave", "remove"} => req[v].member \in Members
      BY <1>0, CarriesMember
    <2> QED BY <1>6, <2>1, <2>2, <2>3 DEF RegisterInv, Remembered, Asks
  <1> QED BY <1>7, <1>8 DEF RegisterInv

-----------------------------------------------------------------------------

\* The initial state satisfies the invariant.
LEMMA RegisterInit == RemovalInit => RegisterInv
  <1> SUFFICES ASSUME RemovalInit PROVE RegisterInv
    OBVIOUS
  <1>1. BookingsInit /\ \A u \in Users : req[u] = Nothing
    BY DEF RemovalInit, Init, BookingsInit
  <1>2. Nothing \in AllRequests /\ Nothing.kind = "none"
    BY DEF AllRequests, Requests, Nothing
  <1>3. req \in [Users -> AllRequests]
    BY <1>1, <1>2 DEF BookingsInit
  <1>4. RowsTypeOK
    BY <1>1, BookingsAssumption DEF BookingsInit, RowsTypeOK
  <1>5. TypeOK
    BY <1>3, <1>4 DEF RemovalInit, Init, TypeOK, AllRequests, Sweeps
  <1>8. Remembered
    BY <1>1, <1>2, RemovalAssumption DEF RemovalInit, Remembered, RestorableAsBefore, Asks
  <1> QED BY <1>5, <1>8 DEF RegisterInv

\* Every step keeps it.
LEMMA RegisterNext == RegisterInv /\ [RemovalNext]_allVars => RegisterInv'
  <1> SUFFICES ASSUME RegisterInv, [RemovalNext]_allVars PROVE RegisterInv'
    OBVIOUS
  <1>1. ASSUME UNCHANGED registerVars, UNCHANGED <<overdue, sweep>>, BookingsStep
        PROVE  RegisterInv'
    <2>1. ASSUME NEW u \in Users, Serve(u) PROVE RegisterInv'
      BY <1>1, <2>1, ServeHolds
    <2> QED BY <1>1, <2>1, AsideHolds DEF BookingsStep
  <1>2. ASSUME UNCHANGED registerVars, Next PROVE RegisterInv'
    BY <1>1, <1>2, AsideHolds, SuspendHolds DEF Next
  <1>3. ASSUME NEW u \in Users, Register(u) PROVE RegisterInv'
    BY <1>3, LeaveHolds, DeactivateHolds, AfterwardsHolds, RestoreHolds DEF Register
  <1>4. ASSUME NEW m \in Members, InvoiceFee(m) \/ PayFee(m) PROVE RegisterInv'
    BY <1>4, AsideHolds
  <1>5. CASE UNCHANGED allVars
    <2>1. UNCHANGED <<req, kind, snapshot, was>> /\ TypeOK'
      BY <1>5 DEF allVars, vars, bookingVars, registerVars, RegisterInv, TypeOK, RowsTypeOK
    <2> QED BY <2>1, Quiet
  <1> QED BY <1>2, <1>3, <1>4, <1>5 DEF RemovalNext

\* The inductive invariant of the register holds, for any number of requests at a time.
THEOREM RegisterInvHolds == RemovalSpec => []RegisterInv
  BY RegisterInit, RegisterNext, PTL DEF RemovalSpec

\* Type correctness of the register, the requests, the bookings and the sweep.
THEOREM RegisterTypeCorrect == RemovalSpec => []TypeOK
  <1>1. RegisterInv => TypeOK
    BY DEF RegisterInv
  <1> QED BY <1>1, RegisterInvHolds, PTL

\* A removed member can be given back the type of before, unless another request wrote the
\* register between the cancellation's look at the type and its own write.
THEOREM RemovedIsRestorable == RemovalSpec => []RestorableAsBefore
  <1>1. RegisterInv => RestorableAsBefore
    BY DEF RegisterInv, Remembered
  <1> QED BY <1>1, RegisterInvHolds, PTL

=============================================================================
