---------------------------- MODULE Expenses_proofs ----------------------------
(***************************************************************************)
(* Proofs about Expenses, the records a claim is made from, about          *)
(* FuelClaim, what a claim pays, and about PrepaidHours, what a flight's   *)
(* invoice draws on: three that reckon with sums.                          *)
(***************************************************************************)
EXTENDS Expenses, FuelClaim, PrepaidHours, SumTheorems

-----------------------------------------------------------------------------
(* Expenses: the invariant                                                 *)

\* What a request carries besides its type: a claim's new items come from the records picked
\* or are typed in, and a correction leaves an item its record.
Judged(r) ==
    /\ r.kind \in {"create", "edit"} => \A i \in DOMAIN r.load.items :
           r.load.items[i].of \in IF r.load.by = "records" THEN r.load.picked ELSE {Hand}
    /\ r.kind = "create" => r.load.by # "keep"
    /\ r.kind = "correct" => r.row \in DOMAIN r.from /\ r.to.of = r.from[r.row].of

AllJudged == \A c \in Clients : Judged(req[c])

Inv == TypeOK /\ NoRecordStranded /\ AllJudged

\* What the fields of a request are, by its kind.
LEMMA RequestTypes ==
    ASSUME NEW r \in Requests
    PROVE  /\ r.kind \in {"none", "create", "edit", "delete", "submit", "reject", "info", "draft",
                          "correct", "cap", "approve", "cost", "remove"}
           /\ r.kind \in {"create", "edit"} => r.load \in Payloads
           /\ r.kind \in {"edit", "delete", "submit", "reject", "info", "draft", "correct", "cap",
                          "approve"} => r.claim \in Claims
           /\ r.kind = "correct" => r.from \in Seq(Items) /\ r.row \in Nat /\ r.to \in Items
           /\ r.kind = "cap" => r.price \in Nat
           /\ r.kind = "approve" => r.items \in Seq(Items) /\ r.price \in LocalPrices
           /\ r.kind \in {"cost", "remove"} => r.record \in Records
           /\ r.kind = "cost" => r.cost \in Nat
  BY DEF Requests, Nothing

\* One item for each record picked.
LEMMA DerivedFacts ==
    ASSUME TypeOK, NEW p \in SUBSET Records
    PROVE  /\ Derived(p) \in Seq(Items)
           /\ \A i \in DOMAIN Derived(p) : Derived(p)[i].of \in p
  <1>1. IsFiniteSet(p)
    BY ExpensesAssumption, FS_Subset
  <1> DEFINE n == Cardinality(p)
  <1>2. n \in Nat /\ \E f : f \in [1..n -> p] /\ IsInjective(f)
    <2>1. PICK f : f \in Bijection(1..n, p)
      BY <1>1, FS_CardinalityType DEF ExistsBijection
    <2>2. f \in [1..n -> p] /\ IsInjective(f)
      BY <2>1 DEF Bijection, Injection
    <2> QED BY <1>1, <2>2, FS_CardinalityType
  <1>3. SetToSeq(p) \in [1..n -> p]
    BY <1>2 DEF SetToSeq
  <1>4. \A i \in 1..n : SetToSeq(p)[i] \in p
    BY <1>3
  <1> DEFINE item(r) == [of |-> r, litres |-> 1, cost |-> record[r].cost, card |-> FALSE]
  <1>5. \A r \in p : item(r) \in Items /\ item(r).of = r
    BY DEF TypeOK, Items
  <1>6. Derived(p) = [i \in 1..n |-> item(SetToSeq(p)[i])]
    BY DEF Derived
  <1> HIDE DEF item, n
  <1>7. \A i \in 1..n : item(SetToSeq(p)[i]) \in Items /\ item(SetToSeq(p)[i]).of \in p
    BY <1>4, <1>5
  <1> QED BY <1>2, <1>6, <1>7

\* What a client may ask to save.
LEMMA LoadFacts ==
    ASSUME TypeOK, NEW c \in Clients, NEW k, NEW load \in Loads(c, k)
    PROVE  /\ load \in Payloads /\ load.by # "keep"
           /\ \A i \in DOMAIN load.items :
                  load.items[i].of \in IF load.by = "records" THEN load.picked ELSE {Hand}
  <1>1. CASE \E p \in SUBSET Records : load = [by |-> "records", picked |-> p, items |-> Derived(p)]
    <2>1. PICK p \in SUBSET Records :
              load = [by |-> "records", picked |-> p, items |-> Derived(p)]
      BY <1>1
    <2>2. Derived(p) \in Seq(Items) /\ \A i \in DOMAIN Derived(p) : Derived(p)[i].of \in p
      BY DerivedFacts
    <2> QED BY <2>1, <2>2 DEF Payloads
  <1>2. CASE \E s \in ByHand : load = [by |-> "hand", picked |-> {}, items |-> s]
    BY <1>2, ExpensesAssumption DEF Payloads
  <1> QED BY <1>1, <1>2 DEF Loads

\* The initial state.
LEMMA InitInv == Init => Inv
  <1> SUFFICES ASSUME Init PROVE Inv
    OBVIOUS
  <1>1. TypeOK
    <2>1. Outbox!TypeOK /\ msg \in [Ids -> Messages \cup {Unsent}]
      BY DEF Init, Outbox!Init, Outbox!TypeOK
    <2>2. claim \in [Claims -> [status : Statuses \cup {"NONE", "GONE"}, owner : People, items : Seq(Items)]]
      <3> DEFINE Fresh == [status : {"NONE"}, owner : People, items : {<<>>}]
      <3>1. claim \in [Claims -> Fresh]
        BY DEF Init
      <3>2. ASSUME NEW x \in Fresh
            PROVE  x \in [status : Statuses \cup {"NONE", "GONE"}, owner : People, items : Seq(Items)]
        <4>1. PICK o \in People : x = [status |-> "NONE", owner |-> o, items |-> <<>>]
          OBVIOUS
        <4> QED BY <4>1
      <3> HIDE DEF Fresh
      <3> QED BY <3>1, <3>2
    <2>3. record \in [Records -> [cost : Nat, link : Claims \cup {NoClaim}, frozen : Nat, deleted : BOOLEAN]]
      <3> DEFINE Fresh == [cost : Costs, link : {NoClaim}, frozen : {0}, deleted : {FALSE}]
      <3>1. record \in [Records -> Fresh]
        BY DEF Init
      <3>2. ASSUME NEW x \in Fresh
            PROVE  x \in [cost : Nat, link : Claims \cup {NoClaim}, frozen : Nat, deleted : BOOLEAN]
        <4>1. PICK n \in Costs : x = [cost |-> n, link |-> NoClaim, frozen |-> 0, deleted |-> FALSE]
          OBVIOUS
        <4> QED BY <4>1, ExpensesAssumption
      <3> HIDE DEF Fresh
      <3> QED BY <3>1, <3>2
    <2>4. req \in [Clients -> Requests]
      BY DEF Init, Requests
    <2> QED BY <2>1, <2>2, <2>3, <2>4 DEF TypeOK
  <1>2. NoRecordStranded
    BY DEF Init, NoRecordStranded
  <1>3. AllJudged
    BY DEF Init, AllJudged, Judged, Nothing
  <1> QED BY <1>1, <1>2, <1>3 DEF Inv

-----------------------------------------------------------------------------
(* Kinds of steps                                                          *)

\* A step that only opens a request.
LEMMA BeginStep ==
    ASSUME Inv, NEW c \in Clients, NEW r \in Requests, Judged(r), Begin(c, r)
    PROVE  Inv'
  <1> USE DEF Inv
  <1>1. /\ req' = [req EXCEPT ![c] = r] /\ UNCHANGED <<open, settled, filed, msg>>
        /\ UNCHANGED <<claim, record>>
    BY DEF Begin, Open, outboxVars
  <1>2. TypeOK'
    BY <1>1 DEF TypeOK, Outbox!TypeOK
  <1>3. AllJudged'
    BY <1>1 DEF AllJudged, TypeOK
  <1>4. NoRecordStranded'
    BY <1>1 DEF NoRecordStranded, Row
  <1> QED BY <1>2, <1>3, <1>4

\* The type of what a step that ends the request of c leaves, and what it leaves judged.
LEMMA DoneStep ==
    ASSUME Inv, NEW c \in Clients, Done(c)
    PROVE  AllJudged' /\ req' \in [Clients -> Requests]
  BY DEF Inv, Done, AllJudged, Judged, TypeOK, Nothing, Requests

\* The requests as they begin.
LEMMA BeginCreateInv == ASSUME Inv, NEW c \in Clients, BeginCreate(c) PROVE Inv'
  <1>1. PICK load \in Loads(c, NoClaim) : Begin(c, [kind |-> "create", load |-> load])
    BY DEF BeginCreate
  <1> DEFINE q == [kind |-> "create", load |-> load]
  <1>2. q \in Requests /\ Judged(q)
    BY LoadFacts DEF Inv, Requests, Judged
  <1> QED BY <1>1, <1>2, BeginStep

\* An edit of a record begins sound.
LEMMA BeginRecordInv == ASSUME Inv, NEW c \in Clients, NEW r \in Records, BeginRecordEdit(c, r) PROVE Inv'
  <1>1. PICK q \in {[kind |-> "cost", record |-> r, cost |-> n] : n \in Costs}
                   \cup {[kind |-> "remove", record |-> r]} : Begin(c, q)
    BY DEF BeginRecordEdit
  <1>2. CASE q = [kind |-> "remove", record |-> r]
    BY <1>1, <1>2, BeginStep DEF Requests, Judged
  <1>3. CASE \E n \in Costs : q = [kind |-> "cost", record |-> r, cost |-> n]
    BY <1>1, <1>3, ExpensesAssumption, BeginStep DEF Requests, Judged
  <1> QED BY <1>1, <1>2, <1>3

\* Every request begins sound.
LEMMA BeginInv ==
    ASSUME Inv, NEW c \in Clients, NEW k \in Claims,
           \/ BeginEdit(c, k) \/ BeginDelete(c, k) \/ BeginSubmit(c, k)
           \/ BeginReject(c, k) \/ BeginRequestInfo(c, k) \/ BeginSetDraft(c, k)
           \/ BeginCorrect(c, k) \/ BeginOverride(c, k) \/ BeginApprove(c, k)
    PROVE  Inv'
  <1>0. TypeOK /\ claim[k].items \in Seq(Items)
    BY DEF Inv, TypeOK
  <1>1. CASE BeginEdit(c, k)
    <2>1. PICK load \in Loads(c, k) \cup {[by |-> "keep", picked |-> {}, items |-> <<>>]} :
              Begin(c, [kind |-> "edit", claim |-> k, load |-> load])
      BY <1>1 DEF BeginEdit
    <2> DEFINE q == [kind |-> "edit", claim |-> k, load |-> load]
    <2>2. /\ load \in Payloads
          /\ \A i \in DOMAIN load.items :
                 load.items[i].of \in IF load.by = "records" THEN load.picked ELSE {Hand}
      <3>1. CASE load \in Loads(c, k)
        BY <1>0, <3>1, LoadFacts
      <3>2. CASE load = [by |-> "keep", picked |-> {}, items |-> <<>>]
        BY <3>2 DEF Payloads
      <3> QED BY <3>1, <3>2
    <2>3. q \in Requests /\ Judged(q)
      BY <2>2 DEF Requests, Judged
    <2> QED BY <2>1, <2>3, BeginStep
  <1>2. CASE \/ BeginDelete(c, k) \/ BeginSubmit(c, k)
             \/ BeginReject(c, k) \/ BeginRequestInfo(c, k) \/ BeginSetDraft(c, k)
    <2>1. PICK kind \in {"delete", "submit", "reject", "info", "draft"} :
              Begin(c, [kind |-> kind, claim |-> k])
      BY <1>2 DEF BeginDelete, BeginSubmit, BeginReject, BeginRequestInfo, BeginSetDraft
    <2> DEFINE q == [kind |-> kind, claim |-> k]
    <2>2. q \in Requests /\ Judged(q)
      BY DEF Requests, Judged
    <2> QED BY <2>1, <2>2, BeginStep
  <1>3. CASE BeginCorrect(c, k)
    <2>1. PICK i \in DOMAIN claim[k].items, to \in Items :
              /\ to.of = claim[k].items[i].of
              /\ Begin(c, [kind |-> "correct", claim |-> k, from |-> claim[k].items, row |-> i,
                           to |-> to])
      <3> DEFINE row(i) == claim[k].items[i]
                 costs == IF Linked(k) = {} THEN Costs ELSE {}
      <3>1. PICK i \in DOMAIN claim[k].items :
                \E to \in {[row(i) EXCEPT !.card = ~@]} \cup {[row(i) EXCEPT !.cost = cost] : cost \in costs} :
                    Begin(c, [kind |-> "correct", claim |-> k, from |-> claim[k].items, row |-> i,
                              to |-> to])
        BY <1>3 DEF BeginCorrect
      <3>2. row(i) \in Items
        BY <1>0
      <3>3. [row(i) EXCEPT !.card = ~@] \in Items /\ [row(i) EXCEPT !.card = ~@].of = row(i).of
        BY <3>2 DEF Items
      <3>4. \A cost \in costs : /\ [row(i) EXCEPT !.cost = cost] \in Items
                                /\ [row(i) EXCEPT !.cost = cost].of = row(i).of
        BY <3>2, ExpensesAssumption DEF Items
      <3> QED BY <3>1, <3>3, <3>4
    <2> DEFINE q == [kind |-> "correct", claim |-> k, from |-> claim[k].items, row |-> i, to |-> to]
    <2>2. q \in Requests /\ Judged(q)
      BY <1>0, <2>1 DEF Requests, Judged
    <2> QED BY <2>1, <2>2, BeginStep
  <1>4. CASE BeginOverride(c, k)
    <2>1. PICK price \in Costs : Begin(c, [kind |-> "cap", claim |-> k, price |-> price])
      BY <1>4 DEF BeginOverride
    <2> DEFINE q == [kind |-> "cap", claim |-> k, price |-> price]
    <2>2. q \in Requests /\ Judged(q)
      BY ExpensesAssumption DEF Requests, Judged
    <2> QED BY <2>1, <2>2, BeginStep
  <1>5. CASE BeginApprove(c, k)
    <2>1. PICK price \in LocalPrices :
              Begin(c, [kind |-> "approve", claim |-> k, items |-> claim[k].items, price |-> price])
      BY <1>5 DEF BeginApprove
    <2> DEFINE q == [kind |-> "approve", claim |-> k, items |-> claim[k].items, price |-> price]
    <2>2. q \in Requests /\ Judged(q)
      BY <1>0 DEF Requests, Judged
    <2> QED BY <2>1, <2>2, BeginStep
  <1> QED BY <1>1, <1>2, <1>3, <1>4, <1>5

-----------------------------------------------------------------------------
(* Writes                                                                  *)

\* Where a record goes when claim k lets go of its own.
LEMMA ReleasedFacts ==
    ASSUME TypeOK, NEW k \in Claims
    PROVE  /\ Released(k) \in [Records -> [cost : Nat, link : Claims \cup {NoClaim}, frozen : Nat,
                                           deleted : BOOLEAN]]
           /\ \A r \in Records :
                  Released(k)[r].link = IF record[r].link = k THEN NoClaim ELSE record[r].link
  BY ExpensesAssumption DEF Released, TypeOK

\* Where a record goes when claim k takes those picked instead of its own.
LEMMA RelinkedFacts ==
    ASSUME TypeOK, NEW k \in Claims, NEW p \in SUBSET Records
    PROVE  /\ Relinked(k, p) \in [Records -> [cost : Nat, link : Claims \cup {NoClaim}, frozen : Nat,
                                              deleted : BOOLEAN]]
           /\ \A r \in Records :
                  /\ Relinked(k, p)[r].link \in {record[r].link, k, NoClaim}
                  /\ Relinked(k, p)[r].link = record[r].link => r \in p \/ record[r].link # k
                  /\ MayLink(k, p) /\ r \in p => Relinked(k, p)[r].link = k
  <1>1. ASSUME NEW r \in Records
        PROVE  /\ Relinked(k, p)[r] \in [cost : Nat, link : Claims \cup {NoClaim}, frozen : Nat,
                                         deleted : BOOLEAN]
               /\ Relinked(k, p)[r].link \in {record[r].link, k, NoClaim}
               /\ Relinked(k, p)[r].link = record[r].link => r \in p \/ record[r].link # k
               /\ MayLink(k, p) /\ r \in p => Relinked(k, p)[r].link = k
    <2>1. Released(k)[r] \in [cost : Nat, link : Claims \cup {NoClaim}, frozen : Nat, deleted : BOOLEAN]
          /\ Released(k)[r].link = IF record[r].link = k THEN NoClaim ELSE record[r].link
      BY ReleasedFacts
    <2>2. record[r] \in [cost : Nat, link : Claims \cup {NoClaim}, frozen : Nat, deleted : BOOLEAN]
      BY DEF TypeOK
    <2>3. k # NoClaim
      BY ExpensesAssumption
    <2>4. CASE r \in p /\ ~record[r].deleted /\ Released(k)[r].link = NoClaim
      <3>1. Relinked(k, p)[r] = [record[r] EXCEPT !.link = k, !.frozen = record[r].cost]
        BY <2>4 DEF Relinked
      <3> QED BY <2>2, <2>3, <2>4, <3>1
    <2>5. CASE ~(r \in p /\ ~record[r].deleted /\ Released(k)[r].link = NoClaim)
      <3>1. Relinked(k, p)[r] = Released(k)[r]
        BY <2>5 DEF Relinked
      <3>2. ~(MayLink(k, p) /\ r \in p)
        BY <2>1, <2>5 DEF MayLink
      <3> QED BY <2>1, <2>3, <3>1, <3>2
    <2> QED BY <2>4, <2>5
  <1>2. Relinked(k, p) = [r \in Records |-> Relinked(k, p)[r]]
    BY DEF Relinked
  <1> QED BY <1>1, <1>2

\* A write that leaves claim k in a new row, and every other as it is.
Rewrite(k, row) ==
    /\ row \in [status : Statuses \cup {"NONE", "GONE"}, owner : People, items : Seq(Items)]
    /\ claim' = [claim EXCEPT ![k] = row]

\* A step that ends the request of c with a write on claim k and its records.
LEMMA WriteStep ==
    ASSUME Inv, NEW c \in Clients, Done(c), UNCHANGED outboxVars,
           NEW k \in Claims, NEW row, Rewrite(k, row),
           record' \in [Records -> [cost : Nat, link : Claims \cup {NoClaim}, frozen : Nat,
                                    deleted : BOOLEAN]],
           \A r \in Records : record'[r].link \in {record[r].link, k, NoClaim},
           (\E r \in Records : record'[r].link = k) => row.status \in Statuses \ {"REJECTED"}
    PROVE  Inv'
  <1> USE DEF Inv
  <1>1. AllJudged' /\ req' \in [Clients -> Requests]
    BY DoneStep
  <1>2. TypeOK'
    BY <1>1 DEF TypeOK, Rewrite, outboxVars, Outbox!TypeOK
  <1>3. NoRecordStranded'
    BY DEF NoRecordStranded, TypeOK, Rewrite, Row
  <1> QED BY <1>1, <1>2, <1>3

\* The same of a step that leaves the claims alone.
LEMMA IdleStep ==
    ASSUME Inv, NEW c \in Clients, Done(c), UNCHANGED <<outboxVars, claim>>,
           record' \in [Records -> [cost : Nat, link : Claims \cup {NoClaim}, frozen : Nat,
                                    deleted : BOOLEAN]],
           \A r \in Records : record'[r].link \in {record[r].link, NoClaim}
    PROVE  Inv'
  <1> USE DEF Inv
  <1>1. AllJudged' /\ req' \in [Clients -> Requests]
    BY DoneStep
  <1>2. TypeOK'
    BY <1>1 DEF TypeOK, outboxVars, Outbox!TypeOK
  <1>3. NoRecordStranded'
    BY DEF NoRecordStranded, Row
  <1> QED BY <1>1, <1>2, <1>3

\* createExpense links records nobody else has.
LEMMA CreateStep == ASSUME Inv, NEW c \in Clients, NEW k \in Claims, Create(c, k) PROVE Inv'
  <1> DEFINE load == req[c].load
             row == [status |-> "DRAFT", owner |-> Who[c], items |-> load.items]
  <1>0. /\ TypeOK /\ Done(c) /\ UNCHANGED outboxVars
        /\ claim[k].status = "NONE" /\ Asks(c, "create")
        /\ record \in [Records -> [cost : Nat, link : Claims \cup {NoClaim}, frozen : Nat,
                                   deleted : BOOLEAN]]
    BY DEF Inv, Create, TypeOK
  <1>1. load \in Payloads
    BY <1>0, RequestTypes DEF TypeOK, Asks
  <1>2. load.picked \in SUBSET Records /\ load.items \in Seq(Items)
    BY <1>1 DEF Payloads
  <1>3. CASE MayLink(k, load.picked)
    <2>1. Rewrite(k, row) /\ record' = Relinked(k, load.picked)
      BY <1>2, <1>3, ExpensesAssumption DEF Create, Rewrite, Statuses
    <2>2. \A r \in Records : record'[r].link \in {record[r].link, k, NoClaim}
      BY <1>0, <1>2, <2>1, RelinkedFacts
    <2>3. record' \in [Records -> [cost : Nat, link : Claims \cup {NoClaim}, frozen : Nat,
                                   deleted : BOOLEAN]]
      BY <1>0, <1>2, <2>1, RelinkedFacts
    <2>4. row.status \in Statuses \ {"REJECTED"}
      BY DEF Statuses
    <2> HIDE DEF row
    <2> QED BY <1>0, <2>1, <2>2, <2>3, <2>4, WriteStep
  <1>4. CASE ~MayLink(k, load.picked)
    <2>1. UNCHANGED <<claim, record>>
      BY <1>4 DEF Create
    <2> QED BY <1>0, <2>1, IdleStep
  <1> QED BY <1>3, <1>4

\* updateExpense releases the records the claim lets go of.
LEMMA EditStep == ASSUME Inv, NEW c \in Clients, Edit(c) PROVE Inv'
  <1> DEFINE k == req[c].claim
             load == req[c].load
             row == [claim[k] EXCEPT !.status = "DRAFT",
                                     !.items = IF load.by = "keep" THEN @ ELSE load.items]
  <1>0. /\ TypeOK /\ Done(c) /\ UNCHANGED outboxVars
        /\ Asks(c, "edit") /\ Judged(req[c])
        /\ record \in [Records -> [cost : Nat, link : Claims \cup {NoClaim}, frozen : Nat,
                                   deleted : BOOLEAN]]
    BY DEF Inv, Edit, TypeOK, AllJudged
  <1>1. load \in Payloads /\ k \in Claims
    BY <1>0, RequestTypes DEF TypeOK, Asks, Judged
  <1>2. load.picked \in SUBSET Records /\ load.items \in Seq(Items)
    BY <1>1 DEF Payloads
  <1>3. CASE Row(k) /\ MayLink(k, load.picked)
    <2>1. /\ claim' = [claim EXCEPT ![k].status = "DRAFT",
                                    ![k].items = IF load.by = "keep" THEN @ ELSE load.items]
          /\ record' = IF load.by = "records" THEN Relinked(k, load.picked) ELSE record
      BY <1>3 DEF Edit
    <2>2. claim[k] \in [status : Statuses \cup {"NONE", "GONE"}, owner : People, items : Seq(Items)]
      BY <1>0, <1>1 DEF TypeOK
    <2>3. Rewrite(k, row)
      BY <1>2, <2>1, <2>2 DEF Rewrite, Statuses
    <2>4. row.status = "DRAFT"
      BY <2>2
    <2>5. \A r \in Records : record'[r].link \in {record[r].link, k, NoClaim}
      BY <1>0, <1>1, <1>2, <2>1, RelinkedFacts
    <2>6. record' \in [Records -> [cost : Nat, link : Claims \cup {NoClaim}, frozen : Nat,
                                   deleted : BOOLEAN]]
      BY <1>0, <1>1, <1>2, <2>1, RelinkedFacts
    <2> HIDE DEF row, load, k
    <2> QED BY <1>0, <1>1, <2>3, <2>4, <2>5, <2>6, WriteStep DEF Statuses
  <1>4. CASE ~(Row(k) /\ MayLink(k, load.picked))
    <2>1. UNCHANGED <<claim, record>>
      BY <1>4 DEF Edit
    <2> QED BY <1>0, <2>1, IdleStep
  <1> QED BY <1>3, <1>4

\* deleteExpense releases all of the claim's records.
LEMMA DeleteStep == ASSUME Inv, NEW c \in Clients, Delete(c) PROVE Inv'
  <1> DEFINE k == req[c].claim
             row == [claim[k] EXCEPT !.status = "GONE", !.items = <<>>]
  <1>0. /\ TypeOK /\ Done(c) /\ UNCHANGED outboxVars
        /\ Asks(c, "delete") /\ Judged(req[c])
    BY DEF Inv, Delete, TypeOK, AllJudged
  <1>1. k \in Claims
    BY <1>0, RequestTypes DEF TypeOK, Asks, Judged
  <1>2. /\ claim' = [claim EXCEPT ![k].status = "GONE", ![k].items = <<>>]
        /\ record' = Released(k)
    BY DEF Delete
  <1>3. Rewrite(k, row)
    <2>1. claim[k] \in [status : Statuses \cup {"NONE", "GONE"}, owner : People, items : Seq(Items)]
      BY <1>0, <1>1 DEF TypeOK
    <2>2. <<>> \in Seq(Items) /\ "GONE" \in Statuses \cup {"NONE", "GONE"}
      OBVIOUS
    <2>3. row \in [status : Statuses \cup {"NONE", "GONE"}, owner : People, items : Seq(Items)]
      BY <2>1, <2>2
    <2>4. claim' = [claim EXCEPT ![k] = row]
      BY <1>0, <1>1, <1>2 DEF TypeOK
    <2> QED BY <2>3, <2>4 DEF Rewrite
  <1>4. /\ record' \in [Records -> [cost : Nat, link : Claims \cup {NoClaim}, frozen : Nat,
                                    deleted : BOOLEAN]]
        /\ \A r \in Records :
               record'[r].link = IF record[r].link = k THEN NoClaim ELSE record[r].link
    BY <1>0, <1>1, <1>2, ReleasedFacts
  <1>5. k # NoClaim
    BY <1>1, ExpensesAssumption
  <1> HIDE DEF row, k
  <1> QED BY <1>0, <1>1, <1>3, <1>4, <1>5, WriteStep

\* retractExpenseClaim takes a claim back that was only submitted.
LEMMA RetractStep == ASSUME Inv, NEW c \in Clients, NEW k \in Claims, Retract(c, k) PROVE Inv'
  <1> DEFINE row == [claim[k] EXCEPT !.status = "DRAFT"]
  <1>0. TypeOK /\ NoRecordStranded /\ AllJudged
    BY DEF Inv
  <1>1. /\ UNCHANGED <<outboxVars, record, req>> /\ claim[k].status = "SUBMITTED"
        /\ claim' = [claim EXCEPT ![k].status = "DRAFT"]
    BY DEF Retract
  <1>2. claim[k] \in [status : Statuses \cup {"NONE", "GONE"}, owner : People, items : Seq(Items)]
    BY <1>0 DEF TypeOK
  <1>3. Rewrite(k, row)
    BY <1>1, <1>2 DEF Rewrite, Statuses
  <1>4. TypeOK'
    BY <1>0, <1>1, <1>3 DEF TypeOK, Rewrite, outboxVars, Outbox!TypeOK
  <1>5. NoRecordStranded' /\ AllJudged'
    BY <1>0, <1>1, <1>2, <1>3 DEF NoRecordStranded, AllJudged, TypeOK, Rewrite, Row, Statuses
  <1> QED BY <1>4, <1>5 DEF Inv

\* A claim that is rejected lets go of its records, whatever its status by now.
LEMMA SetStatusStep == ASSUME Inv, NEW c \in Clients, SetStatus(c) PROVE Inv'
  <1> DEFINE k == req[c].claim
             status == NewStatus(req[c].kind)
             row == [claim[k] EXCEPT !.status = status]
  <1>0. /\ TypeOK /\ NoRecordStranded /\ Done(c) /\ UNCHANGED outboxVars
        /\ req[c].kind \in {"submit", "reject", "info", "draft"} /\ Judged(req[c])
        /\ record \in [Records -> [cost : Nat, link : Claims \cup {NoClaim}, frozen : Nat,
                                   deleted : BOOLEAN]]
    BY DEF Inv, SetStatus, TypeOK, AllJudged
  <1>1. k \in Claims
    BY <1>0, RequestTypes DEF TypeOK, Asks, Judged
  <1>2. /\ status \in Statuses
        /\ status = "REJECTED" <=> req[c].kind = "reject"
    BY <1>0 DEF NewStatus, Statuses
  <1>3. record' = IF status = "REJECTED" THEN Released(k) ELSE record
    BY DEF SetStatus
  <1>4. /\ \A r \in Records : record'[r].link \in {record[r].link, NoClaim}
        /\ record' \in [Records -> [cost : Nat, link : Claims \cup {NoClaim}, frozen : Nat,
                                    deleted : BOOLEAN]]
        /\ status = "REJECTED" => \A r \in Records : record'[r].link # k
    <2>1. k # NoClaim
      BY <1>1, ExpensesAssumption
    <2> HIDE DEF k, status
    <2> QED BY <1>0, <1>1, <1>3, <2>1, ReleasedFacts
  <1>5. CASE Row(k)
    <2>1. claim' = [claim EXCEPT ![k].status = status]
      BY <1>5 DEF SetStatus
    <2>2. Rewrite(k, row) /\ row.status = status
      <3>1. claim[k] \in [status : Statuses \cup {"NONE", "GONE"}, owner : People, items : Seq(Items)]
        BY <1>0, <1>1 DEF TypeOK
      <3> HIDE DEF k, status
      <3> QED BY <1>2, <2>1, <3>1 DEF Rewrite
    <2> HIDE DEF row, k, status
    <2> QED BY <1>0, <1>1, <1>2, <1>4, <2>2, WriteStep
  <1>6. CASE ~Row(k)
    <2>1. UNCHANGED claim
      BY <1>6 DEF SetStatus
    <2> HIDE DEF k, status
    <2> QED BY <1>0, <1>4, <2>1, IdleStep
  <1> QED BY <1>5, <1>6

\* A treasurer's change of the items of a claim.
LEMMA ItemsStep ==
    ASSUME Inv, NEW c \in Clients, Done(c), UNCHANGED <<outboxVars, record>>,
           NEW k \in Claims, NEW items \in Seq(Items), claim' = [claim EXCEPT ![k].items = items]
    PROVE  Inv'
  <1> DEFINE row == [claim[k] EXCEPT !.items = items]
  <1>0. /\ TypeOK /\ NoRecordStranded
        /\ record \in [Records -> [cost : Nat, link : Claims \cup {NoClaim}, frozen : Nat,
                                   deleted : BOOLEAN]]
        /\ claim[k] \in [status : Statuses \cup {"NONE", "GONE"}, owner : People, items : Seq(Items)]
    BY DEF Inv, TypeOK
  <1>1. Rewrite(k, row) /\ row.status = claim[k].status
    BY <1>0 DEF Rewrite
  <1>2. (\E r \in Records : record[r].link = k) => claim[k].status \in Statuses \ {"REJECTED"}
    BY <1>0, ExpensesAssumption DEF NoRecordStranded, Row
  <1> HIDE DEF row
  <1> QED BY <1>0, <1>1, <1>2, WriteStep

\* A corrected item keeps its record.
LEMMA CorrectStep == ASSUME Inv, NEW c \in Clients, Correct(c) PROVE Inv'
  <1> DEFINE k == req[c].claim
  <1>0. /\ TypeOK /\ Asks(c, "correct") /\ Judged(req[c])
        /\ Done(c) /\ UNCHANGED <<outboxVars, record>>
        /\ record \in [Records -> [cost : Nat, link : Claims \cup {NoClaim}, frozen : Nat,
                                   deleted : BOOLEAN]]
    BY DEF Inv, AllJudged, Correct, TypeOK
  <1>1. /\ k \in Claims /\ req[c].from \in Seq(Items) /\ req[c].to \in Items
        /\ req[c].row \in DOMAIN req[c].from
    BY <1>0, RequestTypes DEF TypeOK, Asks, Judged
  <1>2. CASE claim[k].items = req[c].from
    <2> DEFINE items == [claim[k].items EXCEPT ![req[c].row] = req[c].to]
    <2>1. claim' = [claim EXCEPT ![k].items[req[c].row] = req[c].to]
      BY <1>2 DEF Correct
    <2>2. items \in Seq(Items)
      BY <1>1, <1>2
    <2>3. claim' = [claim EXCEPT ![k].items = items]
      BY <1>0, <1>1, <2>1 DEF TypeOK
    <2> HIDE DEF items, k
    <2> QED BY <1>0, <1>1, <2>2, <2>3, ItemsStep
  <1>3. CASE claim[k].items # req[c].from
    <2>1. UNCHANGED claim
      BY <1>3 DEF Correct
    <2> QED BY <1>0, <2>1, IdleStep
  <1> QED BY <1>2, <1>3

\* A price limit leaves an item its record, and the claim its status.
LEMMA OverrideStep == ASSUME Inv, NEW c \in Clients, Override(c) PROVE Inv'
  <1> DEFINE k == req[c].claim
             limit(item) == [item EXCEPT !.cost = Lesser(@, item.litres * req[c].price)]
             items == [i \in DOMAIN claim[k].items |-> limit(claim[k].items[i])]
  <1>0. /\ TypeOK /\ Asks(c, "cap")
        /\ Done(c) /\ UNCHANGED <<outboxVars, record>>
        /\ claim' = [claim EXCEPT ![k].items = [i \in DOMAIN @ |-> limit(@[i])]]
    BY DEF Inv, Override, TypeOK
  <1>1. k \in Claims /\ req[c].price \in Nat
    BY <1>0, RequestTypes DEF TypeOK, Asks
  <1>2. claim[k].items \in Seq(Items)
    BY <1>0, <1>1 DEF TypeOK
  <1>3. ASSUME NEW x \in Items PROVE limit(x) \in Items
    <2>1. x.litres \in Nat /\ x.cost \in Nat
      BY DEF Items
    <2>2. x.litres * req[c].price \in Nat
      BY <1>1, <2>1
    <2>3. Lesser(x.cost, x.litres * req[c].price) \in Nat
      BY <2>1, <2>2 DEF Lesser
    <2> QED BY <2>3 DEF Items
  <1>4. items \in Seq(Items)
    <2> HIDE DEF limit
    <2>1. \A i \in DOMAIN claim[k].items : claim[k].items[i] \in Items
      BY <1>2
    <2> QED BY <1>2, <1>3, <2>1
  <1>5. claim' = [claim EXCEPT ![k].items = items]
    BY <1>0, <1>1 DEF TypeOK
  <1> HIDE DEF items, k
  <1> QED BY <1>0, <1>1, <1>4, <1>5, ItemsStep

\* What sending a message does to the outbox.
LEMMA SendFacts ==
    ASSUME TypeOK, NEW k \in Claims, NEW kind \in {"REIMBURSEMENT", "CLUB_FUEL_RECOVERY"},
           Send(kind, k)
    PROVE  (Outbox!TypeOK)' /\ msg' \in [Ids -> Messages \cup {Unsent}]
  <1>1. PICK n \in Ids : /\ open' = open \cup {n} /\ settled' = settled /\ filed' = filed
                         /\ msg' = [msg EXCEPT ![n] = [kind |-> kind, claim |-> k]]
    BY DEF Send, Outbox!Unrequested, Outbox!Request
  <1>2. [kind |-> kind, claim |-> k] \in Messages
    BY DEF Messages
  <1> QED BY <1>1, <1>2 DEF TypeOK, Outbox!TypeOK

\* An approval is of a claim that is there, and leaves its records.
LEMMA ApproveStep == ASSUME Inv, NEW c \in Clients, Approve(c) PROVE Inv'
  <1> PICK k : k = req[c].claim
    OBVIOUS
  <1>0. /\ TypeOK /\ NoRecordStranded
        /\ Asks(c, "approve") /\ Done(c) /\ UNCHANGED record
    BY DEF Inv, Approve
  <1>1. k \in Claims
    BY <1>0, RequestTypes DEF TypeOK, Asks
  <1>2. AllJudged' /\ req' \in [Clients -> Requests]
    BY <1>0, DoneStep
  <1>3. claim' = IF Row(k) THEN [claim EXCEPT ![k].status = "APPROVED"] ELSE claim
    BY DEF Approve
  <1>4. /\ claim' \in [Claims -> [status : Statuses \cup {"NONE", "GONE"}, owner : People, items : Seq(Items)]]
        /\ \A j \in Claims : j # k => claim'[j] = claim[j]
        /\ Row(k) => claim'[k].status = "APPROVED"
        /\ ~Row(k) => claim'[k] = claim[k]
    <2>1. claim \in [Claims -> [status : Statuses \cup {"NONE", "GONE"}, owner : People, items : Seq(Items)]]
      BY <1>0 DEF TypeOK
    <2> QED BY <1>1, <1>3, <2>1 DEF Statuses
  <1>5. NoRecordStranded'
    BY <1>0, <1>1, <1>4 DEF NoRecordStranded, TypeOK, Row, Statuses
  <1>6. \/ Send("REIMBURSEMENT", k) \/ Send("CLUB_FUEL_RECOVERY", k) \/ UNCHANGED outboxVars
    BY DEF Approve
  <1>7. (Outbox!TypeOK)' /\ msg' \in [Ids -> Messages \cup {Unsent}]
    <2>1. CASE UNCHANGED outboxVars
      BY <1>0, <2>1 DEF TypeOK, Outbox!TypeOK, outboxVars
    <2>2. CASE Send("REIMBURSEMENT", k) \/ Send("CLUB_FUEL_RECOVERY", k)
      BY <1>0, <1>1, <2>2, SendFacts
    <2> QED BY <1>6, <2>1, <2>2
  <1>8. TypeOK'
    BY <1>0, <1>2, <1>4, <1>7 DEF TypeOK
  <1> QED BY <1>2, <1>5, <1>8 DEF Inv

\* A record is edited, or the request for it is dropped.
LEMMA RecordStep == ASSUME Inv, NEW c \in Clients, EditRecord(c) \/ GiveUp(c) PROVE Inv'
  <1>0. /\ TypeOK /\ Done(c) /\ UNCHANGED <<outboxVars, claim>>
        /\ record \in [Records -> [cost : Nat, link : Claims \cup {NoClaim}, frozen : Nat,
                                   deleted : BOOLEAN]]
    BY DEF Inv, EditRecord, GiveUp, TypeOK
  <1>1. CASE EditRecord(c)
    <2> DEFINE r == req[c].record
    <2>1. /\ req[c].kind \in {"cost", "remove"}
          /\ record' = IF Asks(c, "cost") THEN [record EXCEPT ![r].cost = req[c].cost]
                       ELSE [record EXCEPT ![r].deleted = TRUE]
      BY <1>1 DEF EditRecord
    <2>2. r \in Records /\ (Asks(c, "cost") => req[c].cost \in Nat)
      BY <1>0, <2>1, RequestTypes DEF TypeOK, Asks
    <2>3. /\ record' \in [Records -> [cost : Nat, link : Claims \cup {NoClaim}, frozen : Nat,
                                      deleted : BOOLEAN]]
          /\ \A q \in Records : record'[q].link = record[q].link
      <3> HIDE DEF r
      <3> QED BY <1>0, <2>1, <2>2
    <2> QED BY <1>0, <2>3, IdleStep
  <1>2. CASE GiveUp(c)
    BY <1>0, <1>2, IdleStep DEF GiveUp
  <1> QED BY <1>1, <1>2

\* Settling a message leaves the claims' records.
LEMMA HandlerStep ==
    ASSUME Inv, NEW n \in Ids, Reimburse(n) \/ Recover(n)
    PROVE  Inv'
  <1> DEFINE k == msg[n].claim
  <1>0. /\ TypeOK /\ NoRecordStranded /\ AllJudged
        /\ UNCHANGED <<msg, record, req>>
        /\ n \in open /\ msg[n].kind \in {"REIMBURSEMENT", "CLUB_FUEL_RECOVERY"}
    BY DEF Inv, Reimburse, Recover
  <1>1. k \in Claims
    BY <1>0 DEF TypeOK, Unsent, Messages
  <1>2. \/ claim' = [claim EXCEPT ![k].status = "SYNCED"] /\ Row(k)
        \/ UNCHANGED claim
    BY DEF Reimburse, Recover
  <1>3. /\ open' = open \ {n} /\ settled' = settled \cup {n}
        /\ filed' = filed \/ filed' = [filed EXCEPT ![n] = {1}]
    <2>1. CASE Outbox!Close(n)
      BY <2>1 DEF Outbox!Close
    <2>2. CASE filed' = [filed EXCEPT ![n] = {1}] /\ Outbox!File(n) /\ open' \subseteq open
      BY <2>2 DEF Outbox!File, Outbox!Unrequested
    <2> QED BY <2>1, <2>2 DEF Reimburse, Recover
  <1>4. (Outbox!TypeOK)'
    BY <1>0, <1>3 DEF TypeOK, Outbox!TypeOK
  <1>5. /\ claim' \in [Claims -> [status : Statuses \cup {"NONE", "GONE"}, owner : People, items : Seq(Items)]]
        /\ \A j \in Claims : \/ claim'[j] = claim[j]
                             \/ j = k /\ claim'[j].status = "SYNCED"
    <2> HIDE DEF k
    <2>1. claim \in [Claims -> [status : Statuses \cup {"NONE", "GONE"}, owner : People, items : Seq(Items)]]
      BY <1>0 DEF TypeOK
    <2> QED BY <1>1, <1>2, <2>1 DEF Statuses
  <1>6. TypeOK' /\ AllJudged'
    BY <1>0, <1>4, <1>5 DEF TypeOK, AllJudged
  <1>7. NoRecordStranded'
    BY <1>0, <1>5 DEF NoRecordStranded, TypeOK, Row, Statuses
  <1> QED BY <1>6, <1>7 DEF Inv

\* Every step keeps the invariant.
LEMMA NextInv == Inv /\ [Next]_vars => Inv'
  <1> SUFFICES ASSUME Inv, [Next]_vars PROVE Inv'
    OBVIOUS
  <1>1. CASE \E c \in Clients : Serve(c)
    <2> PICK c \in Clients : Serve(c)
      BY <1>1
    <2>1. CASE BeginCreate(c)
      BY <2>1, BeginCreateInv
    <2>2. CASE \E k \in Claims :
                 \/ BeginEdit(c, k) \/ BeginDelete(c, k) \/ BeginSubmit(c, k)
                 \/ BeginReject(c, k) \/ BeginRequestInfo(c, k) \/ BeginSetDraft(c, k)
                 \/ BeginCorrect(c, k) \/ BeginOverride(c, k) \/ BeginApprove(c, k)
      BY <2>2, BeginInv
    <2>3. CASE \E k \in Claims : Create(c, k) \/ Retract(c, k)
      BY <2>3, CreateStep, RetractStep
    <2>4. CASE \E r \in Records : BeginRecordEdit(c, r)
      BY <2>4, BeginRecordInv
    <2>5. CASE Edit(c) \/ Delete(c) \/ SetStatus(c) \/ Correct(c) \/ Override(c) \/ Approve(c)
      BY <2>5, EditStep, DeleteStep, SetStatusStep, CorrectStep, OverrideStep, ApproveStep
    <2>6. CASE EditRecord(c) \/ GiveUp(c)
      BY <2>6, RecordStep
    <2> QED BY <2>1, <2>2, <2>3, <2>4, <2>5, <2>6 DEF Serve
  <1>2. CASE \E n \in Ids : Reimburse(n) \/ Recover(n)
    BY <1>2, HandlerStep
  <1>3. CASE UNCHANGED vars
    BY <1>3 DEF vars, outboxVars, Inv, TypeOK, Outbox!TypeOK, NoRecordStranded, Row, AllJudged
  <1> QED BY <1>1, <1>2, <1>3 DEF Next

\* The inductive invariant, for every number of claims, records, members and sessions.
THEOREM InvHolds == Spec => []Inv
  BY InitInv, NextInv, PTL DEF Spec

\* Claims, records and requests keep their type.
THEOREM TypeCorrect == Spec => []TypeOK
  <1>1. Inv => TypeOK
    BY DEF Inv
  <1> QED BY <1>1, InvHolds, PTL

\* No record is left linked to a claim that is gone or rejected, however many requests on
\* it are under way (deleteExpenseClaim, rejectExpenseClaim, updateExpenseClaim).
THEOREM NoneStranded == Spec => []NoRecordStranded
  <1>1. Inv => NoRecordStranded
    BY DEF Inv
  <1> QED BY <1>1, InvHolds, PTL

-----------------------------------------------------------------------------
(* What a save puts on a claim's rows                                      *)

Saved == \A k \in Claims : \A r \in ListedBy(k)' \ ListedBy(k) : record'[r].link = k

\* A step that changes no claim's items, or keeps which records they come from.
LEMMA SameRows ==
    ASSUME \A k \in Claims : /\ DOMAIN claim'[k].items \subseteq DOMAIN claim[k].items
                             /\ \A i \in DOMAIN claim'[k].items :
                                    claim'[k].items[i].of = claim[k].items[i].of
    PROVE  Saved
  BY DEF Saved, ListedBy

\* A step that puts the items of a request on claim j, and links what they come from.
LEMMA NewRows ==
    ASSUME TypeOK, NEW j \in Claims, NEW load \in Payloads, NEW row, Rewrite(j, row),
           row.items = load.items,
           \A i \in DOMAIN load.items :
               load.items[i].of \in IF load.by = "records" THEN load.picked ELSE {Hand},
           load.by = "records" => \A r \in load.picked : record'[r].link = j
    PROVE  Saved
  <1> SUFFICES ASSUME NEW k \in Claims, NEW r \in ListedBy(k)' \ ListedBy(k)
               PROVE  record'[r].link = k
    BY DEF Saved
  <1>1. \A i \in Claims : claim'[i] = IF i = j THEN row ELSE claim[i]
    BY DEF TypeOK, Rewrite
  <1>2. CASE k # j
    BY <1>1, <1>2 DEF ListedBy
  <1>3. CASE k = j
    <2>1. PICK i \in DOMAIN load.items : r = load.items[i].of
      BY <1>1, <1>3 DEF ListedBy
    <2>2. r # Hand
      BY DEF ListedBy
    <2> QED BY <1>3, <2>1, <2>2
  <1> QED BY <1>2, <1>3

\* A claim that is created is linked as it was saved.
LEMMA CreateSaves == ASSUME Inv, NEW c \in Clients, NEW k \in Claims, Create(c, k) PROVE Saved
  <1> DEFINE load == req[c].load
             row == [status |-> "DRAFT", owner |-> Who[c], items |-> load.items]
  <1>0. TypeOK /\ Asks(c, "create") /\ Judged(req[c])
    BY DEF Inv, AllJudged, Create
  <1>1. load \in Payloads
    BY <1>0, RequestTypes DEF TypeOK, Asks
  <1>2. load.picked \in SUBSET Records /\ load.items \in Seq(Items)
    BY <1>1 DEF Payloads
  <1>3. CASE MayLink(k, load.picked)
    <2>1. Rewrite(k, row) /\ record' = Relinked(k, load.picked)
      BY <1>2, <1>3, ExpensesAssumption DEF Create, Rewrite, Statuses
    <2>2. \A r \in load.picked : record'[r].link = k
      BY <1>0, <1>2, <1>3, <2>1, RelinkedFacts
    <2>3. \A i \in DOMAIN load.items :
              load.items[i].of \in IF load.by = "records" THEN load.picked ELSE {Hand}
      BY <1>0 DEF Judged, Asks
    <2>4. row.items = load.items
      OBVIOUS
    <2> HIDE DEF load, row
    <2> QED BY <1>0, <1>1, <2>1, <2>2, <2>3, <2>4, NewRows
  <1>4. CASE ~MayLink(k, load.picked)
    BY <1>4, SameRows DEF Create
  <1> QED BY <1>3, <1>4

\* A claim that is edited is linked as it was saved.
LEMMA EditSaves == ASSUME Inv, NEW c \in Clients, Edit(c) PROVE Saved
  <1> DEFINE k == req[c].claim
             load == req[c].load
             row == [claim[k] EXCEPT !.status = "DRAFT",
                                     !.items = IF load.by = "keep" THEN @ ELSE load.items]
  <1>0. TypeOK /\ Asks(c, "edit") /\ Judged(req[c])
    BY DEF Inv, AllJudged, Edit
  <1>1. load \in Payloads /\ k \in Claims
    BY <1>0, RequestTypes DEF TypeOK, Asks
  <1>2. load.picked \in SUBSET Records /\ load.items \in Seq(Items)
    BY <1>1 DEF Payloads
  <1>3. claim[k] \in [status : Statuses \cup {"NONE", "GONE"}, owner : People, items : Seq(Items)]
    BY <1>0, <1>1 DEF TypeOK
  <1>4. CASE Row(k) /\ MayLink(k, load.picked)
    <2>1. /\ claim' = [claim EXCEPT ![k].status = "DRAFT",
                                    ![k].items = IF load.by = "keep" THEN @ ELSE load.items]
          /\ record' = IF load.by = "records" THEN Relinked(k, load.picked) ELSE record
      BY <1>4 DEF Edit
    <2>2. Rewrite(k, row)
      BY <1>2, <1>3, <2>1 DEF Rewrite, Statuses
    <2>3. row.items = IF load.by = "keep" THEN claim[k].items ELSE load.items
      BY <1>3
    <2>4. load.by = "records" => \A r \in load.picked : record'[r].link = k
      BY <1>0, <1>1, <1>2, <1>4, <2>1, RelinkedFacts
    <2>5. \A i \in DOMAIN load.items :
              load.items[i].of \in IF load.by = "records" THEN load.picked ELSE {Hand}
      BY <1>0 DEF Judged, Asks
    <2>6. CASE load.by = "keep"
      <3>1. \A i \in Claims : claim'[i].items = claim[i].items
        <4> HIDE DEF row, k, load
        <4> QED BY <1>0, <1>1, <2>2, <2>3, <2>6 DEF TypeOK, Rewrite
      <3> QED BY <3>1, SameRows
    <2>7. CASE load.by # "keep"
      <3> HIDE DEF row, k, load
      <3> QED BY <1>0, <1>1, <2>2, <2>3, <2>4, <2>5, <2>7, NewRows
    <2> QED BY <2>6, <2>7
  <1>5. CASE ~(Row(k) /\ MayLink(k, load.picked))
    BY <1>5, SameRows DEF Edit
  <1> QED BY <1>4, <1>5

\* A correction and a cap leave each item its record.
LEMMA ItemsSave == ASSUME Inv, NEW c \in Clients, Correct(c) \/ Override(c) PROVE Saved
  <1> DEFINE k == req[c].claim
  <1>0. TypeOK /\ Judged(req[c]) /\ req[c].kind \in {"correct", "cap"}
    BY DEF Inv, AllJudged, Correct, Override, Asks
  <1>1. k \in Claims
    BY <1>0, RequestTypes DEF TypeOK
  <1>2. \A i \in Claims : claim[i] \in [status : Statuses \cup {"NONE", "GONE"}, owner : People, items : Seq(Items)]
    BY <1>0 DEF TypeOK
  <1>3. CASE Correct(c) /\ claim[k].items = req[c].from
    <2>1. claim' = [claim EXCEPT ![k].items[req[c].row] = req[c].to]
      BY <1>3 DEF Correct
    <2>2. req[c].row \in DOMAIN claim[k].items /\ req[c].to.of = claim[k].items[req[c].row].of
      BY <1>0, <1>3 DEF Judged, Correct, Asks
    <2>3. \A i \in Claims :
              /\ DOMAIN claim'[i].items = DOMAIN claim[i].items
              /\ \A x \in DOMAIN claim[i].items : claim'[i].items[x].of = claim[i].items[x].of
      <3> HIDE DEF k
      <3> QED BY <1>0, <1>1, <1>2, <2>1, <2>2 DEF TypeOK
    <2> QED BY <2>3, SameRows
  <1>4. CASE Correct(c) /\ claim[k].items # req[c].from
    BY <1>4, SameRows DEF Correct
  <1>5. CASE Override(c)
    <2> DEFINE limit(item) == [item EXCEPT !.cost = Lesser(@, item.litres * req[c].price)]
    <2>1. claim' = [claim EXCEPT ![k].items = [i \in DOMAIN @ |-> limit(@[i])]]
      BY <1>5 DEF Override
    <2>2. \A x \in Items : limit(x).of = x.of
      BY DEF Items
    <2> HIDE DEF limit, k
    <2>3. /\ \A i \in Claims : i # k => claim'[i].items = claim[i].items
          /\ claim'[k].items = [i \in DOMAIN claim[k].items |-> limit(claim[k].items[i])]
      BY <1>0, <1>1, <1>2, <2>1 DEF TypeOK
    <2>4. \A i \in DOMAIN claim[k].items : claim[k].items[i] \in Items
      BY <1>1, <1>2
    <2>5. \A i \in Claims :
              /\ DOMAIN claim'[i].items = DOMAIN claim[i].items
              /\ \A x \in DOMAIN claim[i].items : claim'[i].items[x].of = claim[i].items[x].of
      BY <2>2, <2>3, <2>4
    <2> QED BY <2>5, SameRows
  <1> QED BY <1>3, <1>4, <1>5

\* A step that only moves claims from status to status, or takes their rows away.
LEMMA StatusSaves ==
    ASSUME TypeOK,
           \/ UNCHANGED claim
           \/ \E k, s : claim' = [claim EXCEPT ![k].status = s]
           \/ \E k, s : claim' = [claim EXCEPT ![k].status = s, ![k].items = <<>>]
    PROVE  Saved
  <1>1. \A k \in Claims : claim[k] \in [status : Statuses \cup {"NONE", "GONE"}, owner : People, items : Seq(Items)]
    BY DEF TypeOK
  <1>2. \A k \in Claims : claim'[k].items = claim[k].items \/ claim'[k].items = <<>>
    <2>1. CASE \E k, s : claim' = [claim EXCEPT ![k].status = s]
      BY <1>1, <2>1 DEF TypeOK
    <2>2. CASE \E k, s : claim' = [claim EXCEPT ![k].status = s, ![k].items = <<>>]
      BY <1>1, <2>2 DEF TypeOK
    <2> QED BY <2>1, <2>2
  <1> QED BY <1>2, SameRows

\* A step that only begins a request saves no records.
LEMMA BeginSaves == ASSUME NEW c \in Clients, NEW r, Begin(c, r) PROVE Saved
  BY SameRows DEF Begin

\* A claim that is saved with figures for a record has the record, whoever asked for it at
\* the same time (linkRecordsToClaim, assertAllRecordsLinked).
THEOREM SavedIsLinked == Spec => SavedMeansLinked
  <1>1. Inv /\ [Next]_vars => [Saved]_vars
    <2> SUFFICES ASSUME Inv, Next PROVE Saved
      OBVIOUS
    <2>1. CASE \E c \in Clients : Serve(c)
      <3> PICK c \in Clients : Serve(c)
        BY <2>1
      <3>1. CASE \/ BeginCreate(c)
                 \/ \E k \in Claims :
                        \/ BeginEdit(c, k) \/ BeginDelete(c, k) \/ BeginSubmit(c, k)
                        \/ BeginReject(c, k) \/ BeginRequestInfo(c, k) \/ BeginSetDraft(c, k)
                        \/ BeginCorrect(c, k) \/ BeginOverride(c, k) \/ BeginApprove(c, k)
                 \/ \E r \in Records : BeginRecordEdit(c, r)
        BY <3>1, BeginSaves
        DEF BeginCreate, BeginEdit, BeginDelete, BeginSubmit, BeginReject, BeginRequestInfo,
            BeginSetDraft, BeginCorrect, BeginOverride, BeginApprove, BeginRecordEdit
      <3>2. CASE \E k \in Claims : Create(c, k)
        BY <3>2, CreateSaves
      <3>3. CASE Edit(c) \/ Correct(c) \/ Override(c)
        BY <3>3, EditSaves, ItemsSave
      <3>4. CASE Delete(c) \/ SetStatus(c) \/ Approve(c) \/ (\E k \in Claims : Retract(c, k))
        BY <3>4, StatusSaves DEF Delete, SetStatus, Approve, Retract, Inv
      <3>5. CASE EditRecord(c) \/ GiveUp(c)
        BY <3>5, SameRows DEF EditRecord, GiveUp
      <3> QED BY <3>1, <3>2, <3>3, <3>4, <3>5 DEF Serve
    <2>2. CASE \E n \in Ids : Reimburse(n)
      BY <2>2, StatusSaves DEF Reimburse, Inv
    <2>3. CASE \E n \in Ids : Recover(n)
      BY <2>3, SameRows DEF Recover
    <2> QED BY <2>1, <2>2, <2>3 DEF Next
  <1> QED BY <1>1, InvHolds, PTL DEF Spec, SavedMeansLinked, Saved

-----------------------------------------------------------------------------
(* FuelPayout: what is due                                                 *)

\* What the arithmetic takes for granted of line items.
Entered(items) ==
    /\ IsFiniteSet(DOMAIN items) /\ DOMAIN items \subseteq Int
    /\ \A i \in DOMAIN items : /\ items[i].litres \in Nat /\ items[i].cost \in Nat
                               /\ items[i].card \in BOOLEAN

CostsOf(items) == [i \in DOMAIN items |-> items[i].cost]

\* A finite set of integers has its greatest element.
LEMMA MaxIsIn == ASSUME NEW S, IsFiniteSet(S), S # {}, S \subseteq Int PROVE Max(S) \in S
  <1> DEFINE F == {s \in SUBSET S : s = {} \/ \E x \in s : \A y \in s : x >= y}
  <1>1. {} \in F
    OBVIOUS
  <1>2. ASSUME NEW s \in SUBSET S, NEW x \in S, s \in F, x \notin s PROVE s \cup {x} \in F
    <2>1. CASE s = {}
      BY <2>1
    <2>2. CASE s # {}
      <3>1. PICK z \in s : \A y \in s : z >= y
        BY <1>2, <2>2
      <3>2. CASE z >= x
        BY <3>1, <3>2
      <3>3. CASE ~(z >= x)
        <4>1. \A y \in s \cup {x} : x >= y
          BY <3>1, <3>3
        <4> QED BY <4>1
      <3> QED BY <3>2, <3>3
    <2> QED BY <2>1, <2>2
  <1> HIDE DEF F
  <1>3. \A s \in SUBSET S : s \in F
    BY <1>1, <1>2, FamilyHasAll
  <1>4. \E x \in S : \A y \in S : x >= y
    BY <1>3 DEF F
  <1> QED BY <1>4 DEF Max

\* What some of the line items cost.
LEMMA CostOfSome ==
    ASSUME NEW items, Entered(items), NEW S \in SUBSET DOMAIN items
    PROVE  /\ CostOf(Restrict(items, S)) = SumFunctionOnSet(CostsOf(items), S)
           /\ CostOf(Restrict(items, S)) \in Nat
  <1> DEFINE f == [i \in S |-> Restrict(items, S)[i].cost]
  <1>1. DOMAIN Restrict(items, S) = S /\ IsFiniteSet(S)
    BY FS_Subset DEF Restrict, Entered
  <1>2. CostOf(Restrict(items, S)) = SumFunctionOnSet(f, S)
    BY <1>1 DEF CostOf, Total, SumFunction
  <1>3. \A i \in S : f[i] = CostsOf(items)[i] /\ f[i] \in Nat
    BY DEF Restrict, CostsOf, Entered
  <1> HIDE DEF f
  <1>4. SumFunctionOnSet(f, S) \in Nat
    BY <1>1, <1>3, SumIsNat
  <1>5. SumFunctionOnSet(f, S) = SumFunctionOnSet(CostsOf(items), S)
    BY <1>1, <1>3, SumSame
  <1> QED BY <1>2, <1>4, <1>5

CardPlaces(items) == {i \in DOMAIN items : items[i].card}
OwnPlaces(items) == {i \in DOMAIN items : ~items[i].card}

\* Every line item is paid with the club's card or by the member.
LEMMA CostsSplit ==
    ASSUME NEW items, Entered(items)
    PROVE  /\ CardRows(items) = Restrict(items, CardPlaces(items))
           /\ MemberRows(items) = Restrict(items, OwnPlaces(items))
           /\ CostOf(CardRows(items)) \in Nat /\ CostOf(MemberRows(items)) \in Nat
           /\ CostOf(items) = CostOf(CardRows(items)) + CostOf(MemberRows(items))
  <1> DEFINE C == CardPlaces(items)
             M == OwnPlaces(items)
  <1>1. CardRows(items) = Restrict(items, C) /\ MemberRows(items) = Restrict(items, M)
    BY DEF CardRows, MemberRows, RestrictValues, CardPlaces, OwnPlaces
  <1>2. /\ C \in SUBSET DOMAIN items /\ M \in SUBSET DOMAIN items
        /\ C \cap M = {} /\ C \cup M = DOMAIN items
    BY DEF CardPlaces, OwnPlaces, Entered
  <1> HIDE DEF C, M
  <1>3. IsFiniteSet(C) /\ IsFiniteSet(M)
    BY <1>2, FS_Subset DEF Entered
  <1>4. \A i \in C \cup M : CostsOf(items)[i] \in Int
    BY <1>2 DEF CostsOf, Entered
  <1>5. SumFunctionOnSet(CostsOf(items), DOMAIN items)
            = SumFunctionOnSet(CostsOf(items), C) + SumFunctionOnSet(CostsOf(items), M)
    BY <1>2, <1>3, <1>4, SumUnion
  <1>6. CostOf(items) = SumFunctionOnSet(CostsOf(items), DOMAIN items)
    BY DEF CostOf, Total, SumFunction, CostsOf
  <1> QED BY <1>1, <1>2, <1>5, <1>6, CostOfSome DEF C, M

\* The litres of line items, and the total at the local price.
LEMMA CappedFacts ==
    ASSUME NEW items, Entered(items), NEW price \in Nat \cup {NoPrice}
    PROVE  /\ LitresOf(items) \in Nat
           /\ Capped(items, price) \in Nat /\ Capped(items, price) =< CostOf(items)
  <1> DEFINE f == [i \in DOMAIN items |-> items[i].litres]
  <1>1. LitresOf(items) = SumFunctionOnSet(f, DOMAIN items)
    BY DEF LitresOf, Total, SumFunction
  <1>2. \A i \in DOMAIN items : f[i] \in Nat
    BY DEF Entered
  <1>3. LitresOf(items) \in Nat
    <2> HIDE DEF f
    <2> QED BY <1>1, <1>2, SumIsNat DEF Entered
  <1>4. CostOf(items) \in Nat
    BY CostsSplit
  <1>5. CASE price = NoPrice
    BY <1>3, <1>4, <1>5 DEF Capped
  <1>6. CASE price \in Nat
    <2>1. LitresOf(items) * price \in Nat
      BY <1>3, <1>6
    <2> QED BY <1>3, <1>4, <2>1 DEF Capped, Lesser
  <1> QED BY <1>3, <1>5, <1>6

\* A quotient, and what is left of what was divided.
LEMMA DivFacts ==
    ASSUME NEW m \in Int, NEW d \in Nat \ {0}
    PROVE  m \div d \in Int /\ d * (m \div d) =< m /\ m < d * (m \div d) + d
  OBVIOUS

\* An amount in cents is the amount, rounded by half a cent at most.
LEMMA ToCentsFacts ==
    ASSUME NEW a \in Nat
    PROVE  /\ ToCents(a) \in Nat
           /\ a = 0 => ToCents(a) = 0
           /\ 2 * Fine * ToCents(a) =< 2 * a + Fine
           /\ 2 * a < 2 * Fine * ToCents(a) + Fine
  <1> DEFINE q == ToCents(a)
             d == 2 * Fine
  <1>1. Fine \in Nat \ {0} /\ d \in Nat \ {0} /\ 2 * a + Fine \in Int
    BY FineAssumption
  <1>2. q \in Int /\ d * q =< 2 * a + Fine /\ 2 * a + Fine < d * q + d
    <2> HIDE DEF d
    <2>1. q = (2 * a + Fine) \div d
      BY DEF ToCents, d
    <2> HIDE DEF q
    <2> QED BY <1>1, <2>1, DivFacts
  <1>3. (q =< -1 => d * q =< -d) /\ (q >= 1 => d * q >= d) /\ d * q \in Int
    <2> HIDE DEF d, q
    <2> QED BY <1>1, <1>2
  <1>4. d = Fine + Fine
    BY <1>1
  <1> DEFINE dq == d * q
  <1>5. /\ dq \in Int /\ dq =< 2 * a + Fine /\ 2 * a + Fine < dq + d
        /\ (q =< -1 => dq =< -d) /\ (q >= 1 => dq >= d)
    BY <1>2, <1>3
  <1>6. dq = 2 * Fine * ToCents(a)
    OBVIOUS
  <1> HIDE DEF d, q, dq
  <1>7. q \in Nat /\ (a = 0 => q = 0) /\ 2 * a < dq + Fine
    BY <1>1, <1>2, <1>4, <1>5
  <1> QED BY <1>5, <1>6, <1>7 DEF q

\* What is due to the member, what is owed, and what it is rounded from.
LEMMA DueFacts ==
    ASSUME NEW items, Entered(items), NEW price \in Nat \cup {NoPrice}
    PROVE  LET sum == FuelReimbursement(items, price)
               capped == Capped(items, price)
               card == CostOf(CardRows(items))
               own == CostOf(MemberRows(items))
           IN  /\ card \in Nat /\ own \in Nat /\ capped \in Nat /\ capped =< card + own
               /\ sum.total = ToCents(capped) /\ sum.card = ToCents(card)
               /\ sum.member = ToCents(AtLeast0(capped - card))
               /\ sum.owes = ToCents(AtLeast0(card - capped))
               /\ sum.member \in Nat /\ sum.owes \in Nat
               /\ own = 0 => sum.member = 0
  <1> DEFINE card == CostOf(CardRows(items))
             own == CostOf(MemberRows(items))
             capped == Capped(items, price)
             sum == FuelReimbursement(items, price)
  <1>1. card \in Nat /\ own \in Nat /\ capped \in Nat /\ capped =< card + own
    BY CostsSplit, CappedFacts
  <1>2. /\ sum.total = ToCents(capped) /\ sum.card = ToCents(card)
        /\ sum.member = ToCents(AtLeast0(capped - card))
        /\ sum.owes = ToCents(AtLeast0(card - capped))
    BY DEF FuelReimbursement
  <1> HIDE DEF card, own, capped, sum
  <1>3. /\ AtLeast0(capped - card) \in Nat /\ AtLeast0(card - capped) \in Nat
        /\ own = 0 => AtLeast0(capped - card) = 0
    BY <1>1 DEF AtLeast0
  <1>4. sum.member \in Nat /\ sum.owes \in Nat /\ (own = 0 => sum.member = 0)
    BY <1>2, <1>3, ToCentsFacts
  <1> QED BY <1>1, <1>2, <1>4 DEF card, own, capped, sum

-----------------------------------------------------------------------------
(* FuelPayout: the rows of a payout                                        *)

\* A share is the exact one, rounded by half a cent at most.
LEMMA ShareFacts ==
    ASSUME NEW c \in Nat, NEW t \in Nat, NEW w \in Nat \ {0}
    PROVE  /\ Share(c, t, w) \in Int
           /\ 2 * (Share(c, t, w) * w - c * t) =< w
           /\ -2 * (Share(c, t, w) * w - c * t) =< w
  <1> DEFINE a == 2 * c * t + w
             q == Share(c, t, w)
  <1>1. a \in Int /\ 2 * w \in Nat \ {0} /\ c * t \in Nat
    OBVIOUS
  <1>2. q = a \div (2 * w)
    BY DEF Share
  <1>3. q \in Int /\ (2 * w) * q =< a /\ a < (2 * w) * q + 2 * w
    <2> HIDE DEF a, q
    <2> QED BY <1>1, <1>2, DivFacts
  <1>4. a = 2 * (c * t) + w /\ (2 * w) * q = 2 * (q * w) /\ q * w \in Int
    BY <1>3
  <1> HIDE DEF a, q
  <1>5. 2 * (q * w) =< 2 * (c * t) + w /\ 2 * (c * t) + w < 2 * (q * w) + 2 * w
    BY <1>3, <1>4
  <1> QED BY <1>1, <1>3, <1>4, <1>5 DEF q

SharesOf(items, due) ==
    [i \in OwnPlaces(items) |-> Share(items[i].cost, due, CostOf(MemberRows(items)))]

\* What PayoutRows is where something is due, in terms of the places of the member's rows.
LEMMA PayoutFacts ==
    ASSUME NEW items, Entered(items), NEW due \in Nat, CostOf(MemberRows(items)) = 0 => due = 0, due # 0
    PROVE  LET own == OwnPlaces(items)
               share == SharesOf(items, due)
           IN  /\ IsFiniteSet(own) /\ own # {} /\ Max(own) \in own
               /\ CostOf(MemberRows(items)) \in Nat \ {0}
               /\ CostOf(MemberRows(items)) = SumFunctionOnSet(CostsOf(items), own)
               /\ PayoutRows(items, due) = [share EXCEPT ![Max(own)] = @ + due - Total(share)]
               /\ DOMAIN MemberRows(items) = own
               /\ \A i \in own : MemberRows(items)[i] = items[i]
  <1> DEFINE own == OwnPlaces(items)
             share == SharesOf(items, due)
             whole == CostOf(MemberRows(items))
  <1>1. own \in SUBSET DOMAIN items /\ IsFiniteSet(own) /\ own \subseteq Int
    BY FS_Subset DEF OwnPlaces, Entered
  <1>2. MemberRows(items) = Restrict(items, own) /\ whole \in Nat
    BY CostsSplit
  <1>3. DOMAIN MemberRows(items) = own /\ \A i \in own : MemberRows(items)[i] = items[i]
    BY <1>2 DEF Restrict
  <1>4. whole = SumFunctionOnSet(CostsOf(items), own)
    <2> HIDE DEF own
    <2> QED BY <1>1, <1>2, CostOfSome
  <1>5. whole # 0
    OBVIOUS
  <1>6. own # {}
    <2> HIDE DEF own
    <2> QED BY <1>4, <1>5, SumEmpty
  <1>7. Max(own) \in own
    BY <1>1, <1>6, MaxIsIn
  <1>8. PayoutRows(items, due) = [share EXCEPT ![Max(own)] = @ + due - Total(share)]
    <2>1. share = [i \in DOMAIN MemberRows(items) |-> Share(MemberRows(items)[i].cost, due, whole)]
      BY <1>3 DEF SharesOf
    <2> HIDE DEF share, own
    <2> QED BY <1>3, <1>5, <1>6, <2>1 DEF PayoutRows
  <1> QED BY <1>1, <1>2, <1>3, <1>4, <1>5, <1>6, <1>7, <1>8

\* The rows of a payout add up to what is due.
LEMMA PayoutAddsUp ==
    ASSUME NEW items, Entered(items), NEW due \in Nat, CostOf(MemberRows(items)) = 0 => due = 0
    PROVE  /\ Total(PayoutRows(items, due)) = due
           /\ due = 0 => DOMAIN PayoutRows(items, due) = {}
  <1>1. CASE due = 0
    <2>1. PayoutRows(items, due) = NoRows /\ DOMAIN NoRows = {}
      BY <1>1 DEF PayoutRows, NoRows
    <2> QED BY <1>1, <2>1, SumEmpty DEF Total, SumFunction
  <1>2. CASE due # 0
    <2> DEFINE own == OwnPlaces(items)
               share == SharesOf(items, due)
               last == Max(own)
               paid == PayoutRows(items, due)
    <2>1. /\ IsFiniteSet(own) /\ last \in own
          /\ CostOf(MemberRows(items)) \in Nat \ {0}
          /\ paid = [share EXCEPT ![last] = @ + due - Total(share)]
      BY <1>2, PayoutFacts
    <2>2. \A i \in own : share[i] \in Int
      BY <2>1, ShareFacts DEF SharesOf, OwnPlaces, Entered
    <2>3. DOMAIN share = own
      BY DEF SharesOf
    <2> DEFINE rest == own \ {last}
               others == SumFunctionOnSet(share, rest)
    <2> HIDE DEF own, share, last, paid
    <2>4. Total(share) = share[last] + others /\ Total(share) \in Int /\ others \in Int
      <3>1. Total(share) = SumFunctionOnSet(share, own)
        BY <2>3 DEF Total, SumFunction
      <3>2. IsFiniteSet(rest) /\ \A i \in rest : share[i] \in Int
        BY <2>1, <2>2, FS_Subset
      <3> QED BY <2>1, <2>2, <3>1, <3>2, SumRemove, SumType
    <2>5. /\ DOMAIN paid = own /\ paid[last] = share[last] + due - Total(share)
          /\ \A i \in rest : paid[i] = share[i]
      BY <2>1, <2>3
    <2>6. \A i \in own : paid[i] \in Int
      BY <2>1, <2>2, <2>4, <2>5
    <2>7. Total(paid) = paid[last] + SumFunctionOnSet(paid, rest)
      <3>1. Total(paid) = SumFunctionOnSet(paid, own)
        BY <2>5 DEF Total, SumFunction
      <3>2. IsFiniteSet(own) /\ last \in own
        BY <2>1
      <3> QED BY <2>6, <3>1, <3>2, SumRemove
    <2>8. SumFunctionOnSet(paid, rest) = others
      <3>1. IsFiniteSet(rest)
        BY <2>1, FS_Subset
      <3> QED BY <2>5, <3>1, SumSame
    <2> HIDE DEF others
    <2>9. Total(paid) = due
      BY <2>1, <2>2, <2>4, <2>5, <2>7, <2>8
    <2> QED BY <1>2, <2>9 DEF paid
  <1> QED BY <1>1, <1>2

\* Terms that are no more than half of b each.
LEMMA HalvesBounded ==
    ASSUME NEW f, NEW b \in Int, NEW S, IsFiniteSet(S), \A x \in S : f[x] \in Int /\ 2 * f[x] =< b
    PROVE  2 * SumFunctionOnSet(f, S) =< Cardinality(S) * b
  <1> DEFINE twice == [x \in S |-> f[x] + f[x]]
  <1>1. \A x \in S : f[x] \in Int /\ twice[x] = f[x] + f[x]
    OBVIOUS
  <1>2. \A x \in S : twice[x] \in Int /\ twice[x] =< b
    OBVIOUS
  <1> HIDE DEF twice
  <1>3. SumFunctionOnSet(twice, S) = SumFunctionOnSet(f, S) + SumFunctionOnSet(f, S)
    BY <1>1, SumPlus
  <1>4. SumFunctionOnSet(twice, S) =< Cardinality(S) * b
    BY <1>2, SumBounded
  <1>5. SumFunctionOnSet(f, S) \in Int
    BY <1>1, SumType
  <1> QED BY <1>3, <1>4, <1>5

\* Every row is paid its exact share to half a cent, but for the last, which is off by what
\* the others are.
LEMMA PayoutIsNear ==
    ASSUME NEW items, Entered(items), NEW due \in Nat, CostOf(MemberRows(items)) = 0 => due = 0,
           NEW i \in DOMAIN PayoutRows(items, due)
    PROVE  LET whole == CostOf(MemberRows(items))
               places == DOMAIN MemberRows(items)
               halves == IF i = Max(places) THEN Cardinality(places) - 1 ELSE 1
               off == PayoutRows(items, due)[i] * whole - MemberRows(items)[i].cost * due
           IN  2 * off =< halves * whole /\ -2 * off =< halves * whole
  <1> DEFINE own == OwnPlaces(items)
             share == SharesOf(items, due)
             last == Max(own)
             paid == PayoutRows(items, due)
             whole == CostOf(MemberRows(items))
             cost == CostsOf(items)
             rest == own \ {last}
             n == Cardinality(own)
  <1>0. due # 0
    <2>1. due = 0 => DOMAIN PayoutRows(items, due) = {}
      BY PayoutAddsUp
    <2> QED BY <2>1
  <1>1. /\ IsFiniteSet(own) /\ last \in own
        /\ whole \in Nat \ {0} /\ whole = SumFunctionOnSet(cost, own)
        /\ paid = [share EXCEPT ![last] = @ + due - Total(share)]
        /\ DOMAIN MemberRows(items) = own /\ \A j \in own : MemberRows(items)[j] = items[j]
    BY <1>0, PayoutFacts
  <1>2. \A j \in own : cost[j] \in Nat /\ cost[j] = items[j].cost
    BY DEF OwnPlaces, Entered, CostsOf
  <1>3. DOMAIN share = own /\ \A j \in own : share[j] = Share(cost[j], due, whole)
    BY <1>2 DEF SharesOf
  \* How far a share, taken whole times, is from exact, in rounding up and in rounding down.
  <1> DEFINE up == [j \in own |-> share[j] * whole - cost[j] * due]
             down == [j \in own |-> -up[j]]
  <1> HIDE DEF own, share, last, paid, whole, cost
  <1>4. \A j \in own : /\ share[j] \in Int /\ up[j] \in Int /\ down[j] \in Int
                       /\ 2 * up[j] =< whole /\ 2 * down[j] =< whole
    <2> SUFFICES ASSUME NEW j \in own
                 PROVE  /\ share[j] \in Int /\ up[j] \in Int /\ down[j] \in Int
                        /\ 2 * up[j] =< whole /\ 2 * down[j] =< whole
      OBVIOUS
    <2>1. /\ share[j] \in Int
          /\ 2 * (share[j] * whole - cost[j] * due) =< whole
          /\ -2 * (share[j] * whole - cost[j] * due) =< whole
      BY <1>1, <1>2, <1>3, ShareFacts
    <2>2. share[j] * whole \in Int /\ cost[j] * due \in Int
      BY <1>1, <1>2, <2>1
    <2>3. up[j] = share[j] * whole - cost[j] * due /\ down[j] = -up[j]
      OBVIOUS
    <2> HIDE DEF up, down
    <2> QED BY <1>1, <2>1, <2>2, <2>3
  <1>5. n \in Nat /\ n >= 1 /\ IsFiniteSet(rest) /\ Cardinality(rest) = n - 1
    BY <1>1, FS_CardinalityType, FS_EmptySet, FS_RemoveElement, FS_Subset
  <1>6. (n - 1) * whole \in Int /\ 1 * whole = whole
    BY <1>1, <1>5
  <1>7. i \in own /\ MemberRows(items)[i].cost = cost[i]
    BY <1>1, <1>2, <1>3 DEF paid
  <1>8. CASE i # last
    <2>1. paid[i] = share[i]
      BY <1>1, <1>3, <1>7, <1>8
    <2>2. 2 * up[i] =< whole /\ 2 * down[i] =< whole /\ up[i] \in Int
      BY <1>4, <1>7
    <2>3. up[i] = paid[i] * whole - cost[i] * due /\ down[i] = -up[i]
      BY <1>7, <2>1
    <2> HIDE DEF up, down, n
    <2>4. 2 * up[i] =< 1 * whole /\ -2 * up[i] =< 1 * whole
      BY <1>1, <1>6, <2>2, <2>3
    <2> QED BY <1>1, <1>7, <1>8, <2>3, <2>4 DEF whole, paid, last
  <1>9. CASE i = last
    <2> DEFINE off == paid[last] * whole - cost[last] * due
    <2>1. Total(share) = SumFunctionOnSet(share, own) /\ Total(share) \in Int
      BY <1>1, <1>3, <1>4, SumType DEF Total, SumFunction
    <2>2. paid[last] = share[last] + due - Total(share)
      BY <1>1, <1>3
    \* The remainders of all shares add up to that of the last row.
    <2>3. SumFunctionOnSet(up, own) = Total(share) * whole - whole * due
      <3> DEFINE scaled == [j \in own |-> share[j] * whole]
                 exact == [j \in own |-> cost[j] * due]
      <3>1. SumFunctionOnSet(scaled, own) = Total(share) * whole
        BY <1>1, <1>4, <2>1, SumTimes
      <3>2. SumFunctionOnSet(exact, own) = whole * due
        BY <1>1, <1>2, SumTimes
      <3>3. \A j \in own : up[j] \in Int /\ exact[j] \in Int /\ scaled[j] = up[j] + exact[j]
        BY <1>1, <1>2, <1>4
      <3> HIDE DEF scaled, exact, up
      <3>4. SumFunctionOnSet(scaled, own) = SumFunctionOnSet(up, own) + SumFunctionOnSet(exact, own)
        BY <1>1, <3>3, SumPlus
      <3>5. SumFunctionOnSet(up, own) \in Int /\ SumFunctionOnSet(exact, own) \in Int
        BY <1>1, <3>3, SumType
      <3> QED BY <3>1, <3>2, <3>4, <3>5
    <2>4. SumFunctionOnSet(up, own) = up[last] + SumFunctionOnSet(up, rest)
      <3> HIDE DEF up
      <3> QED BY <1>1, <1>4, SumRemove
    <2>5. up[last] = share[last] * whole - cost[last] * due
      BY <1>1
    <2>6. SumFunctionOnSet(up, rest) \in Int
      <3> HIDE DEF up, down
      <3> QED BY <1>4, <1>5, SumType
    <2>7. off = -SumFunctionOnSet(up, rest)
      <3>1. share[last] \in Int /\ cost[last] \in Int /\ whole \in Int
        BY <1>1, <1>2, <1>4
      <3>2. (share[last] + due - Total(share)) * whole
                = share[last] * whole + whole * due - Total(share) * whole
        BY <2>1, <3>1
      <3>3. /\ share[last] * whole \in Int /\ whole * due \in Int /\ Total(share) * whole \in Int
            /\ cost[last] * due \in Int
        BY <2>1, <3>1
      <3> DEFINE up0 == SumFunctionOnSet(up, rest)
      <3>4. Total(share) * whole - whole * due = (share[last] * whole - cost[last] * due) + up0
        BY <2>3, <2>4, <2>5
      <3>5. off = (share[last] * whole + whole * due - Total(share) * whole) - cost[last] * due
        BY <2>2, <3>2
      <3>6. up0 \in Int
        BY <2>6
      <3> HIDE DEF up0, off
      <3>7. off = -up0
        BY <3>3, <3>4, <3>5, <3>6
      <3> QED BY <3>7 DEF up0
    <2>8. SumFunctionOnSet(down, rest) = -SumFunctionOnSet(up, rest)
      <3> DEFINE minus == -1
      <3>1. minus \in Int /\ \A j \in rest : up[j] \in Int /\ down[j] = up[j] * minus
        BY <1>4
      <3> HIDE DEF up, down, minus
      <3>2. IsFiniteSet(rest)
        BY <1>5
      <3>3. SumFunctionOnSet(down, rest) = SumFunctionOnSet(up, rest) * minus
        BY ONLY <3>1, <3>2, SumTimes
      <3> QED BY <2>6, <3>3 DEF minus
    <2>9. 2 * SumFunctionOnSet(up, rest) =< (n - 1) * whole
      <3>1. \A j \in rest : up[j] \in Int /\ 2 * up[j] =< whole
        BY <1>4
      <3> HIDE DEF up, down
      <3> QED BY <1>1, <1>5, <3>1, HalvesBounded
    <2>10. 2 * SumFunctionOnSet(down, rest) =< (n - 1) * whole
      <3>1. \A j \in rest : down[j] \in Int /\ 2 * down[j] =< whole
        BY <1>4
      <3> HIDE DEF up, down
      <3> QED BY <1>1, <1>5, <3>1, HalvesBounded
    <2>11. 2 * off =< (n - 1) * whole /\ -2 * off =< (n - 1) * whole
      <3> DEFINE up0 == SumFunctionOnSet(up, rest)
                 down0 == SumFunctionOnSet(down, rest)
                 less == (n - 1) * whole
      <3>1. /\ up0 \in Int /\ down0 = -up0 /\ off = -up0
            /\ 2 * up0 =< less /\ 2 * down0 =< less /\ less \in Int
        BY <1>6, <2>6, <2>7, <2>8, <2>9, <2>10
      <3> HIDE DEF up0, down0, less, off
      <3>2. 2 * off =< less /\ -2 * off =< less
        BY <3>1
      <3> QED BY <3>2 DEF less
    <2> QED BY <1>1, <1>7, <1>9, <2>11 DEF n, whole, paid, last
  <1> QED BY <1>8, <1>9

-----------------------------------------------------------------------------
(* FuelClaim: a claim as it is entered                                     *)

LineItems == [litres : Litres, cost : Amounts, card : BOOLEAN]
EntryTypeOK == rows \in Seq(LineItems)

\* The rows entered so far are those of some claim.
LEMMA RowsEntered == EntryTypeOK => Entered(rows)
  <1> SUFFICES ASSUME EntryTypeOK PROVE Entered(rows)
    OBVIOUS
  <1>1. DOMAIN rows = 1..Len(rows) /\ Len(rows) \in Nat
    BY DEF EntryTypeOK
  <1>2. IsFiniteSet(DOMAIN rows)
    BY <1>1, FS_Interval
  <1>3. \A i \in DOMAIN rows : rows[i] \in LineItems
    BY DEF EntryTypeOK
  <1>4. \A x \in LineItems : x.litres \in Nat /\ x.cost \in Nat /\ x.card \in BOOLEAN
    BY FuelClaimAssumption DEF LineItems
  <1>5. \A i \in DOMAIN rows : /\ rows[i].litres \in Nat /\ rows[i].cost \in Nat
                               /\ rows[i].card \in BOOLEAN
    BY <1>3, <1>4
  <1>6. DOMAIN rows \subseteq Int
    BY <1>1
  <1> QED BY <1>2, <1>5, <1>6 DEF Entered

\* The rows keep their type.
LEMMA EntryTyped == EntrySpec => []EntryTypeOK
  <1>1. EntryInit => EntryTypeOK
    BY DEF EntryInit, EntryTypeOK
  <1>2. EntryTypeOK /\ [Enter]_rows => EntryTypeOK'
    <2>1. ASSUME EntryTypeOK, Enter PROVE EntryTypeOK'
      <3>1. PICK item \in LineItems : rows' = Append(rows, item)
        BY <2>1 DEF Enter, LineItems
      <3> QED BY <2>1, <3>1 DEF EntryTypeOK
    <2>2. ASSUME EntryTypeOK, UNCHANGED rows PROVE EntryTypeOK'
      BY <2>2 DEF EntryTypeOK
    <2> QED BY <2>1, <2>2
  <1> QED BY <1>1, <1>2, PTL DEF EntrySpec

\* The rows that reach the SimplBooks purchase add up to the summary to the cent, however
\* many line items of whatever cost, at every local price (buildFuelPayoutLineItems).
THEOREM PayoutIsExact == EntrySpec => []AddsUp
  <1>1. EntryTypeOK => AddsUp
    <2> SUFFICES ASSUME EntryTypeOK, NEW price \in Prices
                 PROVE  LET due == FuelReimbursement(rows, price).member IN
                        /\ Total(PayoutRows(rows, due)) = due
                        /\ due = 0 => DOMAIN PayoutRows(rows, due) = {}
      BY DEF AddsUp
    <2>1. Entered(rows) /\ price \in Nat \cup {NoPrice}
      BY RowsEntered, FuelClaimAssumption
    <2> QED BY <2>1, DueFacts, PayoutAddsUp
  <1> QED BY <1>1, EntryTyped, PTL

\* Every row of a payout but the last is its exact share to half a cent, and the last is off
\* by half a cent for each of the others at most (buildFuelPayoutLineItems).
THEOREM PayoutIsFair == EntrySpec => []NearShare
  <1>1. EntryTypeOK => NearShare
    <2> SUFFICES ASSUME EntryTypeOK, NEW price \in Prices,
                        NEW i \in DOMAIN PayoutRows(rows, FuelReimbursement(rows, price).member)
                 PROVE  LET due == FuelReimbursement(rows, price).member
                            own == MemberRows(rows)
                            whole == CostOf(own)
                            off == PayoutRows(rows, due)[i] * whole - own[i].cost * due
                            halves == IF i = Max(DOMAIN own) THEN Cardinality(DOMAIN own) - 1 ELSE 1
                        IN  /\ 2 * off =< halves * whole
                            /\ -2 * off =< halves * whole
      BY DEF NearShare
    <2>1. Entered(rows) /\ price \in Nat \cup {NoPrice}
      BY RowsEntered, FuelClaimAssumption
    <2>2. /\ FuelReimbursement(rows, price).member \in Nat
          /\ CostOf(MemberRows(rows)) = 0 => FuelReimbursement(rows, price).member = 0
      BY <2>1, DueFacts
    <2> QED BY <2>1, <2>2, PayoutIsNear
  <1> QED BY <1>1, EntryTyped, PTL

\* The member is paid no fuel that the club's card paid, owes no more than it paid, never both,
\* and the rounded figures miss the trip's total by a cent at most (computeFuelReimbursement).
THEOREM CardNotReimbursed == EntrySpec => []CardIsNotReimbursed
  <1>1. EntryTypeOK => CardIsNotReimbursed
    <2> SUFFICES ASSUME EntryTypeOK, NEW price \in Prices
                 PROVE  LET sum == FuelReimbursement(rows, price) IN
                        /\ 2 * Fine * sum.member =< 2 * CostOf(MemberRows(rows)) + Fine
                        /\ 2 * Fine * sum.owes =< 2 * CostOf(CardRows(rows)) + Fine
                        /\ sum.member = 0 \/ sum.owes = 0
                        /\ sum.member - sum.owes + sum.card - sum.total \in -1 .. 1
      BY DEF CardIsNotReimbursed
    <2> DEFINE sum == FuelReimbursement(rows, price)
               capped == Capped(rows, price)
               card == CostOf(CardRows(rows))
               own == CostOf(MemberRows(rows))
               up == AtLeast0(capped - card)
               down == AtLeast0(card - capped)
    <2>1. Entered(rows) /\ price \in Nat \cup {NoPrice}
      BY RowsEntered, FuelClaimAssumption
    <2>2. /\ card \in Nat /\ own \in Nat /\ capped \in Nat /\ capped =< card + own
          /\ sum.total = ToCents(capped) /\ sum.card = ToCents(card)
          /\ sum.member = ToCents(up) /\ sum.owes = ToCents(down)
      BY <2>1, DueFacts
    <2>3. Fine \in Nat \ {0}
      BY FineAssumption
    <2> HIDE DEF sum, capped, card, own
    <2>4. /\ up \in Nat /\ down \in Nat /\ up - down + card = capped
          /\ up =< own /\ down =< card /\ (up = 0 \/ down = 0)
      BY <2>2 DEF AtLeast0
    <2> HIDE DEF up, down
    <2>5. ASSUME NEW a \in Nat, NEW x, x = ToCents(a)
          PROVE  /\ x \in Nat /\ (a = 0 => x = 0)
                 /\ 2 * (Fine * x) =< 2 * a + Fine /\ 2 * a < 2 * (Fine * x) + Fine
      <3>1. 2 * Fine * x = 2 * (Fine * x)
        BY <2>3, <2>5, ToCentsFacts
      <3> QED BY <2>5, <3>1, ToCentsFacts
    <2>6. /\ sum.member \in Nat /\ (up = 0 => sum.member = 0)
          /\ 2 * (Fine * sum.member) =< 2 * up + Fine /\ 2 * up < 2 * (Fine * sum.member) + Fine
      BY <2>2, <2>4, <2>5
    <2>7. /\ sum.owes \in Nat /\ (down = 0 => sum.owes = 0)
          /\ 2 * (Fine * sum.owes) =< 2 * down + Fine /\ 2 * down < 2 * (Fine * sum.owes) + Fine
      BY <2>2, <2>4, <2>5
    <2>8. /\ sum.card \in Nat /\ 2 * (Fine * sum.card) =< 2 * card + Fine
          /\ 2 * card < 2 * (Fine * sum.card) + Fine
      BY <2>2, <2>5
    <2>9. /\ sum.total \in Nat /\ 2 * (Fine * sum.total) =< 2 * capped + Fine
          /\ 2 * capped < 2 * (Fine * sum.total) + Fine
      BY <2>2, <2>5
    <2>10. sum.member - sum.owes + sum.card - sum.total \in -1 .. 1
      <3> DEFINE m == sum.member
                 o == sum.owes
                 k == sum.card
                 t == sum.total
                 off == m - o + k - t
      <3>1. m \in Nat /\ o \in Nat /\ k \in Nat /\ t \in Nat /\ (m = 0 \/ o = 0)
        BY <2>4, <2>6, <2>7, <2>8, <2>9
      <3>2. /\ Fine * m \in Nat /\ Fine * o \in Nat /\ Fine * k \in Nat /\ Fine * t \in Nat
            /\ (m = 0 => Fine * m = 0) /\ (o = 0 => Fine * o = 0)
        <4> HIDE DEF m, o, k, t
        <4> QED BY <2>3, <3>1
      <3>3. /\ 2 * (Fine * m) - 2 * (Fine * o) + 2 * (Fine * k) - 2 * (Fine * t) < 4 * Fine
            /\ 2 * (Fine * m) - 2 * (Fine * o) + 2 * (Fine * k) - 2 * (Fine * t) > -(4 * Fine)
        <4> DEFINE fm == Fine * m
                   fo == Fine * o
                   fk == Fine * k
                   ft == Fine * t
        <4>1. /\ fm \in Nat /\ fo \in Nat /\ fk \in Nat /\ ft \in Nat
              /\ (up = 0 => fm = 0) /\ (down = 0 => fo = 0)
              /\ 2 * fm =< 2 * up + Fine /\ 2 * up < 2 * fm + Fine
              /\ 2 * fo =< 2 * down + Fine /\ 2 * down < 2 * fo + Fine
              /\ 2 * fk =< 2 * card + Fine /\ 2 * card < 2 * fk + Fine
              /\ 2 * ft =< 2 * capped + Fine /\ 2 * capped < 2 * ft + Fine
          BY <2>6, <2>7, <2>8, <2>9, <3>2
        <4> HIDE DEF fm, fo, fk, ft
        <4>2. 2 * fm - 2 * fo + 2 * fk - 2 * ft < 4 * Fine /\ 2 * fm - 2 * fo + 2 * fk - 2 * ft > -(4 * Fine)
          BY <2>2, <2>3, <2>4, <4>1
        <4> QED BY <4>2 DEF fm, fo, fk, ft
      <3>4. Fine * off = Fine * m - Fine * o + Fine * k - Fine * t /\ off \in Int
        <4> HIDE DEF m, o, k, t
        <4> QED BY <2>3, <3>1
      <3>5. (off >= 2 => Fine * off >= 2 * Fine) /\ (off =< -2 => Fine * off =< -(2 * Fine))
        <4>1. off \in Int
          BY <3>4
        <4> HIDE DEF off
        <4> QED BY <2>3, <4>1
      <3> DEFINE x == Fine * off
      <3>6. /\ x \in Int /\ 2 * x < 4 * Fine /\ 2 * x > -(4 * Fine)
            /\ (off >= 2 => x >= 2 * Fine) /\ (off =< -2 => x =< -(2 * Fine))
        <4>1. off \in Int /\ x \in Int
          BY <2>3, <3>4
        <4> HIDE DEF m, o, k, t, off
        <4> QED BY <2>3, <3>2, <3>3, <3>4, <3>5, <4>1
      <3>7. off \in Int
        BY <3>4
      <3> HIDE DEF x, off
      <3>8. off \in -1 .. 1
        BY <2>3, <3>6, <3>7
      <3> QED BY <3>8 DEF off
    <2>11. /\ 2 * (Fine * sum.member) =< 2 * own + Fine
           /\ 2 * (Fine * sum.owes) =< 2 * card + Fine
      <3> DEFINE fm == Fine * sum.member
                 fo == Fine * sum.owes
      <3>1. /\ fm \in Int /\ fo \in Int
            /\ 2 * fm =< 2 * up + Fine /\ 2 * fo =< 2 * down + Fine
        BY <2>3, <2>6, <2>7
      <3> HIDE DEF fm, fo
      <3>2. 2 * fm =< 2 * own + Fine /\ 2 * fo =< 2 * card + Fine
        BY <2>2, <2>3, <2>4, <3>1
      <3> QED BY <3>2 DEF fm, fo
    <2>12. 2 * Fine * sum.member = 2 * (Fine * sum.member) /\ 2 * Fine * sum.owes = 2 * (Fine * sum.owes)
      BY <2>3, <2>6, <2>7
    <2> QED BY <2>4, <2>6, <2>7, <2>10, <2>11, <2>12 DEF sum, own, card
  <1> QED BY <1>1, EntryTyped, PTL

-----------------------------------------------------------------------------
(* PrepaidHours: the allocator                                             *)

\* Packages as the table keeps them: none gives more than it came with.
PackageRows ==
    {r \in [total : Nat, used : Nat, expires : Nat, expired : BOOLEAN] : r.used =< r.total}

HoursTypeOK ==
    /\ flown \in [Flights -> Sorts]
    /\ package \in [Packages -> PackageRows]
    /\ log \in [Draws -> Nat]
    /\ billed \in [Flights -> Int]

\* The uses of S are made one after the other, each as large as it can be, and in order: a
\* package gives to a flight only when those before it have nothing left.
Greedy(uses, S) ==
    /\ uses \in [Draws -> Nat]
    /\ \A u \in Draws \ S : uses[u] = 0
    /\ \A p \in Packages : OfPackage(uses, p) =< Left(p)
    /\ \A f \in Flights : OfFlight(uses, f) =< Eligible(f)
    /\ \A u \in S : \/ OfFlight(uses, u[1]) = Eligible(u[1])
                    \/ OfPackage(uses, u[2]) = Left(u[2])
    /\ \A u, v \in S : (u[1] = v[1] /\ Before(v, u) /\ uses[u] # 0)
                           => OfPackage(uses, v[2]) = Left(v[2])

\* Minutes left, and minutes that packages may cover, are no fewer than none.
LEMMA MinutesTyped ==
    ASSUME HoursTypeOK
    PROVE  /\ \A p \in Packages : Left(p) \in Nat /\ package[p].expires \in Nat
           /\ \A f \in Flights : Eligible(f) \in Nat /\ TopUp(f) \in Nat
  BY PrepaidHoursAssumption DEF HoursTypeOK, PackageRows, Left, Eligible, TopUp, Positive

\* The uses that a plan can make are finitely many.
LEMMA PairsFinite ==
    ASSUME NEW m
    PROVE  /\ IsFiniteSet(Draws) /\ Pairs(m) \subseteq Draws /\ IsFiniteSet(Pairs(m))
           /\ \A u \in Draws : u[1] \in Flights /\ u[2] \in Packages /\ u = <<u[1], u[2]>>
  <1>1. IsFiniteSet(Draws)
    BY PrepaidHoursAssumption, FS_Product DEF Draws
  <1>2. Pairs(m) \subseteq Draws
    BY DEF Pairs, Draws, Listed, Active
  <1>3. \A u \in Draws : u[1] \in Flights /\ u[2] \in Packages /\ u = <<u[1], u[2]>>
    BY DEF Draws
  <1> QED BY <1>1, <1>2, <1>3, FS_Subset

\* Uses are in one order.
LEMMA BeforeIsOrder ==
    ASSUME HoursTypeOK, NEW u \in Draws, NEW v \in Draws
    PROVE  /\ u = v \/ Before(u, v) \/ Before(v, u)
           /\ ~(Before(u, v) /\ Before(v, u))
           /\ \A t \in Draws : Before(u, v) /\ Before(v, t) => Before(u, t)
  <1>1. \A t \in Draws : /\ t[1] \in Nat /\ t[2] \in Nat /\ package[t[2]].expires \in Nat
                         /\ t = <<t[1], t[2]>>
    BY MinutesTyped, PairsFinite, PrepaidHoursAssumption
  <1> QED BY <1>1 DEF Before

\* So some uses have a last.
LEMMA LatestIsLast ==
    ASSUME HoursTypeOK, NEW W \in SUBSET Draws, W # {}
    PROVE  Latest(W) \in W /\ \A v \in W \ {Latest(W)} : Before(v, Latest(W))
  <1> DEFINE IsLast(S, u) == \A v \in S \ {u} : Before(v, u)
  <1> DEFINE F == {S \in SUBSET W : S = {} \/ \E u \in S : IsLast(S, u)}
  <1>0. IsFiniteSet(W)
    BY PairsFinite, FS_Subset
  <1>1. {} \in F
    OBVIOUS
  <1>2. ASSUME NEW S \in SUBSET W, NEW x \in W, S \in F, x \notin S PROVE S \cup {x} \in F
    <2>1. CASE S = {}
      <3>1. IsLast(S \cup {x}, x)
        BY <2>1
      <3> QED BY <3>1
    <2>2. CASE S # {}
      <3>1. PICK u \in S : IsLast(S, u)
        BY <1>2, <2>2
      <3>2. Before(u, x) \/ Before(x, u)
        BY <1>2, <3>1, BeforeIsOrder
      <3>3. CASE Before(x, u)
        <4>1. IsLast(S \cup {x}, u)
          BY <3>1, <3>3
        <4> QED BY <4>1
      <3>4. CASE Before(u, x)
        <4>1. \A v \in S : Before(v, x)
          BY <3>1, <3>4, BeforeIsOrder
        <4>2. IsLast(S \cup {x}, x)
          BY <4>1
        <4> QED BY <4>2
      <3> QED BY <3>2, <3>3, <3>4
    <2> QED BY <2>1, <2>2
  <1>3. W \in F
    <2> HIDE DEF F
    <2>1. \A S \in SUBSET W : S \in F
      BY <1>0, <1>1, <1>2, FamilyHasAll
    <2> QED BY <2>1
  <1>4. \E u \in W : IsLast(W, u)
    BY <1>3
  <1> QED BY <1>4, Zenon DEF Latest

\* What flights and packages give and take are numbers of minutes.
LEMMA SumsTyped ==
    ASSUME NEW uses \in [Draws -> Nat]
    PROVE  /\ \A p \in Packages : OfPackage(uses, p) \in Nat
           /\ \A f \in Flights : OfFlight(uses, f) \in Nat
  <1>1. ASSUME NEW p \in Packages PROVE OfPackage(uses, p) \in Nat
    <2>1. IsFiniteSet(Flights \X {p}) /\ \A u \in Flights \X {p} : uses[u] \in Nat
      BY PrepaidHoursAssumption, FS_Product, FS_Singleton DEF Draws
    <2> QED BY <2>1, SumIsNat DEF OfPackage
  <1>2. ASSUME NEW f \in Flights PROVE OfFlight(uses, f) \in Nat
    <2>1. IsFiniteSet({f} \X Packages) /\ \A u \in {f} \X Packages : uses[u] \in Nat
      BY PrepaidHoursAssumption, FS_Product, FS_Singleton DEF Draws
    <2> QED BY <2>1, SumIsNat DEF OfFlight
  <1> QED BY <1>1, <1>2

\* A package and a flight whose uses come to nothing have none.
LEMMA SumsZero ==
    ASSUME NEW uses \in [Draws -> Nat]
    PROVE  /\ \A p \in Packages : (\A f \in Flights : uses[<<f, p>>] = 0) <=> OfPackage(uses, p) = 0
           /\ \A f \in Flights : (\A p \in Packages : uses[<<f, p>>] = 0) => OfFlight(uses, f) = 0
  <1>1. ASSUME NEW p \in Packages, \A f \in Flights : uses[<<f, p>>] = 0
        PROVE  OfPackage(uses, p) = 0
    <2>1. IsFiniteSet(Flights \X {p})
      BY PrepaidHoursAssumption, FS_Product, FS_Singleton
    <2>2. \A u \in Flights \X {p} : u[1] \in Flights /\ u = <<u[1], p>>
      OBVIOUS
    <2>3. \A u \in Flights \X {p} : uses[u] = 0
      BY <1>1, <2>2
    <2> QED BY <2>1, <2>3, SumOfZeros DEF OfPackage
  <1>2. ASSUME NEW f \in Flights, \A p \in Packages : uses[<<f, p>>] = 0
        PROVE  OfFlight(uses, f) = 0
    <2>1. IsFiniteSet({f} \X Packages)
      BY PrepaidHoursAssumption, FS_Product, FS_Singleton
    <2>2. \A u \in {f} \X Packages : u[2] \in Packages /\ u = <<f, u[2]>>
      OBVIOUS
    <2>3. \A u \in {f} \X Packages : uses[u] = 0
      BY <1>2, <2>2
    <2> QED BY <2>1, <2>3, SumOfZeros DEF OfFlight
  <1>3. ASSUME NEW p \in Packages, OfPackage(uses, p) = 0, NEW f \in Flights
        PROVE  uses[<<f, p>>] = 0
    <2> DEFINE S == Flights \X {p}
    <2> DEFINE R == S \ {<<f, p>>}
    <2>1. IsFiniteSet(S) /\ \A u \in S : uses[u] \in Nat
      BY PrepaidHoursAssumption, FS_Product, FS_Singleton DEF Draws
    <2>2. <<f, p>> \in S /\ IsFiniteSet(R) /\ \A u \in R : uses[u] \in Nat
      BY <2>1, FS_Subset
    <2>3. OfPackage(uses, p) = uses[<<f, p>>] + SumFunctionOnSet(uses, R)
      <3> HIDE DEF S
      <3>1. SumFunctionOnSet(uses, S) = uses[<<f, p>>] + SumFunctionOnSet(uses, R)
        BY <2>1, <2>2, SumRemove
      <3> QED BY <3>1 DEF OfPackage, S
    <2>4. SumFunctionOnSet(uses, R) \in Nat
      <3> HIDE DEF R
      <3> QED BY <2>2, SumIsNat
    <2>5. uses[<<f, p>>] \in Nat
      BY DEF Draws
    <2> QED BY <1>3, <2>3, <2>4, <2>5
  <1> QED BY <1>1, <1>2, <1>3

\* A use more, of d minutes, is that of its package and of its flight.
LEMMA TakeSums ==
    ASSUME NEW uses \in [Draws -> Nat], NEW x \in Draws, uses[x] = 0, NEW d \in Nat,
           NEW more, \A y \in Draws : more[y] = IF y = x THEN d ELSE uses[y]
    PROVE  /\ \A p \in Packages :
                 OfPackage(more, p) = OfPackage(uses, p) + (IF p = x[2] THEN d ELSE 0)
           /\ \A f \in Flights :
                 OfFlight(more, f) = OfFlight(uses, f) + (IF f = x[1] THEN d ELSE 0)
  <1>0. uses \in [Draws -> Int] /\ d \in Int /\ x[1] \in Flights /\ x[2] \in Packages
    BY DEF Draws
  <1>1. ASSUME NEW p \in Packages
        PROVE  OfPackage(more, p)
                   = OfPackage(uses, p) + (IF p = x[2] THEN d ELSE 0)
    <2> DEFINE S == Flights \X {p}
    <2>1. S \in SUBSET Draws /\ IsFiniteSet(S) /\ (x \in S <=> p = x[2])
      BY <1>0, PrepaidHoursAssumption, FS_Product, FS_Singleton DEF Draws
    <2> HIDE DEF S
    <2>2. SumFunctionOnSet(more, S) = SumFunctionOnSet(uses, S) + (IF x \in S THEN d ELSE 0)
      <3>1. \A y \in S : uses[y] \in Int /\ more[y] = IF y = x THEN d ELSE uses[y]
        BY <1>0, <2>1
      <3> QED BY <1>0, <2>1, <3>1, SumRaise
    <2> QED BY <2>1, <2>2 DEF OfPackage, S
  <1>2. ASSUME NEW f \in Flights
        PROVE  OfFlight(more, f)
                   = OfFlight(uses, f) + (IF f = x[1] THEN d ELSE 0)
    <2> DEFINE S == {f} \X Packages
    <2>1. S \in SUBSET Draws /\ IsFiniteSet(S) /\ (x \in S <=> f = x[1])
      BY <1>0, PrepaidHoursAssumption, FS_Product, FS_Singleton DEF Draws
    <2> HIDE DEF S
    <2>2. SumFunctionOnSet(more, S) = SumFunctionOnSet(uses, S) + (IF x \in S THEN d ELSE 0)
      <3>1. \A y \in S : uses[y] \in Int /\ more[y] = IF y = x THEN d ELSE uses[y]
        BY <1>0, <2>1
      <3> QED BY <1>0, <2>1, <3>1, SumRaise
    <2> QED BY <2>1, <2>2 DEF OfFlight, S
  <1> QED BY <1>1, <1>2

\* Making one more use, later than those made, is greedy again.
LEMMA TakeGreedy ==
    ASSUME HoursTypeOK, NEW S \in SUBSET Draws, NEW x \in Draws, x \notin S,
           \A v \in S : Before(v, x), NEW uses, Greedy(uses, S)
    PROVE  Greedy(Take(uses, x), S \cup {x})
  <1>1. PICK f \in Flights, p \in Packages : x = <<f, p>>
    BY DEF Draws
  <1>2. /\ uses \in [Draws -> Nat] /\ uses[x] = 0
        /\ Left(p) \in Nat /\ OfPackage(uses, p) \in Nat /\ OfPackage(uses, p) =< Left(p)
        /\ Eligible(f) \in Nat /\ OfFlight(uses, f) \in Nat /\ OfFlight(uses, f) =< Eligible(f)
    BY <1>1, MinutesTyped, SumsTyped DEF Greedy
  <1>3. PICK d : d = Least(Left(p) - OfPackage(uses, p), Eligible(f) - OfFlight(uses, f))
    OBVIOUS
  <1>4. /\ d \in Nat
        /\ d =< Left(p) - OfPackage(uses, p) /\ d =< Eligible(f) - OfFlight(uses, f)
        /\ d = Left(p) - OfPackage(uses, p) \/ d = Eligible(f) - OfFlight(uses, f)
    BY <1>2, <1>3 DEF Least
  <1>5. PICK more : more = [uses EXCEPT ![x] = d]
    OBVIOUS
  <1>6. Take(uses, x) = more
    BY <1>1, <1>3, <1>5 DEF Take
  <1>7. /\ more \in [Draws -> Nat]
        /\ \A u \in Draws : more[u] = IF u = x THEN d ELSE uses[u]
    BY <1>2, <1>4, <1>5
  <1>8. /\ \A q \in Packages : /\ OfPackage(uses, q) \in Nat /\ Left(q) \in Nat
                               /\ OfPackage(uses, q) =< Left(q)
                               /\ OfPackage(more, q) = OfPackage(uses, q) + (IF q = p THEN d ELSE 0)
        /\ \A g \in Flights : /\ OfFlight(uses, g) \in Nat /\ Eligible(g) \in Nat
                              /\ OfFlight(uses, g) =< Eligible(g)
                              /\ OfFlight(more, g) = OfFlight(uses, g) + (IF g = f THEN d ELSE 0)
    <2>1. /\ \A q \in Packages : OfPackage(more, q) = OfPackage(uses, q) + (IF q = x[2] THEN d ELSE 0)
          /\ \A g \in Flights : OfFlight(more, g) = OfFlight(uses, g) + (IF g = x[1] THEN d ELSE 0)
      BY <1>2, <1>4, <1>7, TakeSums
    <2>2. x[1] = f /\ x[2] = p
      BY <1>1
    <2> QED BY <1>2, <2>1, <2>2, MinutesTyped, SumsTyped DEF Greedy
  <1>9. \A q \in Packages : /\ OfPackage(more, q) =< Left(q)
                            /\ OfPackage(uses, q) = Left(q) => OfPackage(more, q) = Left(q)
    BY <1>4, <1>8
  <1>10. \A g \in Flights : /\ OfFlight(more, g) =< Eligible(g)
                            /\ OfFlight(uses, g) = Eligible(g) => OfFlight(more, g) = Eligible(g)
    BY <1>4, <1>8
  <1>11. OfFlight(more, f) = Eligible(f) \/ OfPackage(more, p) = Left(p)
    BY <1>4, <1>8
  <1>12. \A u \in S : u[1] \in Flights /\ u[2] \in Packages /\ u # x /\ u \in Draws
    BY DEF Draws
  <1>13. \A u \in S \cup {x} : \/ OfFlight(more, u[1]) = Eligible(u[1])
                               \/ OfPackage(more, u[2]) = Left(u[2])
    BY <1>1, <1>9, <1>10, <1>11, <1>12 DEF Greedy
  <1>14. ASSUME NEW u \in S \cup {x}, NEW v \in S \cup {x},
                u[1] = v[1], Before(v, u), more[u] # 0
         PROVE  OfPackage(more, v[2]) = Left(v[2])
    <2>1. CASE u = x
      <3>1. v \in S
        BY <1>14, <2>1, BeforeIsOrder
      <3>2. OfFlight(uses, f) # Eligible(f)
        BY <1>2, <1>4, <1>7, <1>14, <2>1
      <3>3. v[1] = f
        BY <1>1, <1>14, <2>1
      <3>4. OfPackage(uses, v[2]) = Left(v[2])
        BY <3>1, <3>2, <3>3 DEF Greedy
      <3> QED BY <1>9, <1>12, <3>1, <3>4
    <2>2. CASE u \in S /\ v = x
      <3>1. Before(u, x)
        BY <2>2
      <3> QED BY <1>12, <1>14, <2>2, <3>1, BeforeIsOrder
    <2>3. CASE u \in S /\ v \in S
      <3>1. uses[u] # 0
        BY <1>7, <1>12, <1>14, <2>3
      <3>2. OfPackage(uses, v[2]) = Left(v[2])
        BY <1>14, <2>3, <3>1 DEF Greedy
      <3> QED BY <1>9, <1>12, <2>3, <3>2
    <2> QED BY <2>1, <2>2, <2>3
  <1>15. \A u \in Draws \ (S \cup {x}) : more[u] = 0
    BY <1>7 DEF Greedy
  <1>16. Greedy(more, S \cup {x})
    BY <1>7, <1>9, <1>10, <1>13, <1>14, <1>15 DEF Greedy
  <1> QED BY <1>6, <1>16

\* No use at all is greedy.
LEMMA NoneGreedy == ASSUME HoursTypeOK PROVE Greedy([u \in Draws |-> 0], {})
  <1>1. PICK uses : uses = [u \in Draws |-> 0]
    OBVIOUS
  <1>2. uses \in [Draws -> Nat] /\ \A u \in Draws : uses[u] = 0
    BY <1>1
  <1>3. \A f \in Flights, p \in Packages : uses[<<f, p>>] = 0
    BY <1>2 DEF Draws
  <1>4. /\ \A p \in Packages : OfPackage(uses, p) = 0
        /\ \A f \in Flights : OfFlight(uses, f) = 0
    BY <1>2, <1>3, SumsZero
  <1>5. Greedy(uses, {})
    BY <1>2, <1>4, MinutesTyped DEF Greedy
  <1> QED BY <1>1, <1>5

\* The plan of Allocate, one value for each set of uses, as its recursion defines it.
Follows(t, D) ==
    t = [S \in D |-> IF S = {} THEN [u \in Draws |-> 0] ELSE Take(t[S \ {Latest(S)}], Latest(S))]

Planning(P) ==
    CHOOSE t : t = [S \in SUBSET P |-> IF S = {} THEN [u \in Draws |-> 0]
                                       ELSE Take(t[S \ {Latest(S)}], Latest(S))]

\* Allocate is that value for all its pairs.
LEMMA AllocateIsPlanning == ASSUME NEW m PROVE Allocate(m) = Planning(Pairs(m))[Pairs(m)]
  BY DEF Allocate, Planning

\* The recursion has a solution.
LEMMA PlanningExists ==
    ASSUME HoursTypeOK, NEW P \in SUBSET Draws
    PROVE  \E t : Follows(t, SUBSET P)
  <1> DEFINE Upto(n) == {s \in SUBSET P : Cardinality(s) =< n}
  <1> DEFINE Sizes == {n \in Nat : \E t : Follows(t, Upto(n))}
  <1>f. IsFiniteSet(P)
    BY PairsFinite, FS_Subset
  <1>0. \A s \in SUBSET P : IsFiniteSet(s) /\ Cardinality(s) \in Nat
    BY <1>f, FS_Subset, FS_CardinalityType
  <1>1. 0 \in Sizes
    <2>1. \A s \in Upto(0) : s = {}
      BY <1>0, FS_EmptySet
    <2> DEFINE t == [s \in Upto(0) |-> [u \in Draws |-> 0]]
    <2>2. Follows(t, Upto(0))
      BY <2>1 DEF Follows
    <2> HIDE DEF t
    <2> QED BY <2>2
  <1>2. ASSUME NEW n \in Sizes PROVE n + 1 \in Sizes
    <2>1. PICK t : Follows(t, Upto(n))
      OBVIOUS
    <2> DEFINE next(s) == IF s = {} THEN [u \in Draws |-> 0]
                          ELSE Take(t[s \ {Latest(s)}], Latest(s))
    <2> DEFINE v == [s \in Upto(n + 1) |-> next(s)]
    <2>2. ASSUME NEW s \in Upto(n + 1), s # {} PROVE v[s \ {Latest(s)}] = t[s \ {Latest(s)}]
      <3>1. Latest(s) \in s
        BY <2>2, LatestIsLast
      <3>2. s \ {Latest(s)} \in Upto(n)
        BY <1>0, <3>1, FS_RemoveElement
      <3>3. s \ {Latest(s)} \in Upto(n + 1)
        BY <1>0, <3>2
      <3> DEFINE r == s \ {Latest(s)}
      <3>4. t[r] = next(r)
        BY <2>1, <3>2 DEF Follows
      <3> QED BY <3>3, <3>4
    <2>3. Follows(v, Upto(n + 1))
      BY <2>2 DEF Follows
    <2> HIDE DEF v, Upto
    <2>4. \E w : Follows(w, Upto(n + 1))
      BY <2>3
    <2> QED BY <2>4
  <1>3. Sizes = Nat
    <2> HIDE DEF Sizes
    <2> QED BY <1>1, <1>2, InductiveIsNat DEF Sizes
  <1>4. Upto(Cardinality(P)) = SUBSET P
    BY <1>f, <1>0, FS_Subset
  <1>5. Cardinality(P) \in Sizes
    BY <1>0, <1>3
  <1> QED BY <1>4, <1>5

\* What the allocator returns is greedy.
LEMMA AllocateGreedy == ASSUME HoursTypeOK, NEW m PROVE Greedy(Allocate(m), Pairs(m))
  <1> DEFINE P == Pairs(m)
             T == Planning(P)
  <1>0. P \in SUBSET Draws /\ IsFiniteSet(P)
    BY PairsFinite
  <1> HIDE DEF P
  <1>1. PICK t : Follows(t, SUBSET P)
    BY <1>0, PlanningExists
  <1>2. Follows(T, SUBSET P)
    BY <1>1, Zenon DEF Planning, Follows
  <1> HIDE DEF T
  <1>3. /\ T[{}] = [u \in Draws |-> 0]
        /\ \A S \in SUBSET P : S # {} => T[S] = Take(T[S \ {Latest(S)}], Latest(S))
    BY <1>2 DEF Follows
  <1> DEFINE F == {S \in SUBSET P : Greedy(T[S], S)}
  <1>4. {} \in F
    BY <1>3, NoneGreedy
  <1>5. ASSUME NEW S \in SUBSET P, S # {} PROVE \E x \in S : S \ {x} \in F => S \in F
    <2>1. /\ Latest(S) \in S /\ S \in SUBSET Draws
          /\ \A v \in S \ {Latest(S)} : Before(v, Latest(S))
      BY <1>0, <1>5, LatestIsLast
    <2>2. ASSUME S \ {Latest(S)} \in F PROVE S \in F
      <3> DEFINE x == Latest(S)
                 R == S \ {x}
      <3>1. Greedy(T[R], R)
        BY <2>2
      <3>2. R \in SUBSET Draws /\ x \in Draws /\ x \notin R /\ R \cup {x} = S
            /\ \A v \in R : Before(v, x)
        BY <2>1
      <3>3. T[S] = Take(T[R], x)
        BY <1>3, <1>5
      <3> HIDE DEF x, R
      <3>4. Greedy(Take(T[R], x), R \cup {x})
        BY <3>1, <3>2, TakeGreedy
      <3>5. Greedy(T[S], S)
        BY <3>2, <3>3, <3>4
      <3> QED BY <3>5
    <2> QED BY <2>1, <2>2
  <1> HIDE DEF F
  <1>6. \A S \in SUBSET P : S \in F
    BY <1>0, <1>4, <1>5, FamilyByOne
  <1>7. Greedy(T[P], P)
    BY <1>6 DEF F
  <1> QED BY <1>7, AllocateIsPlanning DEF P, T

-----------------------------------------------------------------------------
(* PrepaidHours: the package that expires first                            *)

\* The packages of an aircraft that can give, the flights of a message on it, and the packages
\* taken before one.
Peers(a) == {q \in Active : AircraftOf[q] = a}
Craft(m, a) == {f \in Listed(m) : flown[f].aircraft = a}
Sooner(q, p) ==
    \/ package[q].expires < package[p].expires
    \/ package[q].expires = package[p].expires /\ q < p

Given(uses) == [q \in Packages |-> OfPackage(uses, q)]
Taken(uses) == [f \in Flights |-> OfFlight(uses, f)]
Lefts == [q \in Packages |-> Left(q)]
Needs == [f \in Flights |-> Eligible(f)]

\* What the packages of an aircraft give is what its flights take.
LEMMA GivenIsTaken ==
    ASSUME HoursTypeOK, NEW m, NEW a, NEW uses, Greedy(uses, Pairs(m))
    PROVE  SumFunctionOnSet(Given(uses), Peers(a)) = SumFunctionOnSet(Taken(uses), Craft(m, a))
  <1> DEFINE Q == Peers(a)
             F == Craft(m, a)
  <1>1. /\ Q \subseteq Packages /\ F \subseteq Flights
        /\ IsFiniteSet(Q) /\ IsFiniteSet(F) /\ IsFiniteSet(Packages) /\ IsFiniteSet(Flights)
    BY PrepaidHoursAssumption, FS_Subset DEF Peers, Craft, Active, Listed
  <1>2. uses \in [Draws -> Nat]
    BY DEF Greedy
  <1>3. \A f \in Flights, q \in Packages : uses[<<f, q>>] \in Nat
    BY <1>2 DEF Draws
  <1>4. ASSUME NEW f \in Flights, NEW q \in Packages, uses[<<f, q>>] # 0
        PROVE  f \in F <=> q \in Q
    <2>1. <<f, q>> \in Draws
      BY DEF Draws
    <2>2. <<f, q>> \in Pairs(m)
      BY <1>4, <2>1 DEF Greedy
    <2>3. f \in Listed(m) /\ q \in Active /\ AircraftOf[q] = flown[f].aircraft
      BY <2>2 DEF Pairs
    <2> QED BY <2>3 DEF Peers, Craft
  <1> HIDE DEF Q, F
  <1>5. ASSUME NEW q \in Q PROVE Given(uses)[q] = SumFunctionOnSet(uses, F \X {q})
    <2> DEFINE S == F \X {q}
               T == (Flights \ F) \X {q}
    <2>1. /\ IsFiniteSet(S) /\ IsFiniteSet(T) /\ S \cap T = {} /\ Flights \X {q} = S \cup T
          /\ \A u \in S \cup T : uses[u] \in Int
      <3>1. IsFiniteSet(Flights \ F) /\ IsFiniteSet({q})
        BY <1>1, FS_Subset, FS_Singleton
      <3>2. IsFiniteSet(S) /\ IsFiniteSet(T)
        BY <1>1, <3>1, FS_Product
      <3>3. S \cap T = {} /\ Flights \X {q} = S \cup T
        BY <1>1
      <3>4. \A u \in Flights \X {q} : u[1] \in Flights /\ u = <<u[1], q>>
        OBVIOUS
      <3> QED BY <1>1, <1>3, <3>2, <3>3, <3>4
    <2>2. \A u \in T : uses[u] = 0
      <3>1. \A u \in T : u[1] \in Flights /\ u[1] \notin F /\ u = <<u[1], q>>
        OBVIOUS
      <3> QED BY <1>1, <1>4, <3>1
    <2> HIDE DEF S, T
    <2>3. SumFunctionOnSet(uses, S \cup T) = SumFunctionOnSet(uses, S) + SumFunctionOnSet(uses, T)
      BY <2>1, SumUnion
    <2>4. SumFunctionOnSet(uses, T) = 0
      BY <2>1, <2>2, SumOfZeros
    <2>5. SumFunctionOnSet(uses, S) \in Int
      BY <2>1, SumType
    <2>6. OfPackage(uses, q) = SumFunctionOnSet(uses, S)
      <3>1. OfPackage(uses, q) = SumFunctionOnSet(uses, S \cup T)
        BY <2>1, Zenon DEF OfPackage
      <3> QED BY <2>3, <2>4, <2>5, <3>1
    <2> QED BY <1>1, <2>6 DEF Given, S
  <1>6. ASSUME NEW f \in F PROVE Taken(uses)[f] = SumFunctionOnSet(uses, {f} \X Q)
    <2> DEFINE S == {f} \X Q
               T == {f} \X (Packages \ Q)
    <2>1. /\ IsFiniteSet(S) /\ IsFiniteSet(T) /\ S \cap T = {} /\ {f} \X Packages = S \cup T
          /\ \A u \in S \cup T : uses[u] \in Int
      <3>1. IsFiniteSet(Packages \ Q) /\ IsFiniteSet({f})
        BY <1>1, FS_Subset, FS_Singleton
      <3>2. IsFiniteSet(S) /\ IsFiniteSet(T)
        BY <1>1, <3>1, FS_Product
      <3>3. S \cap T = {} /\ {f} \X Packages = S \cup T
        BY <1>1
      <3>4. \A u \in {f} \X Packages : u[2] \in Packages /\ u = <<f, u[2]>>
        OBVIOUS
      <3> QED BY <1>1, <1>3, <3>2, <3>3, <3>4
    <2>2. \A u \in T : uses[u] = 0
      <3>1. \A u \in T : u[2] \in Packages /\ u[2] \notin Q /\ u = <<f, u[2]>>
        OBVIOUS
      <3> QED BY <1>1, <1>4, <3>1
    <2> HIDE DEF S, T
    <2>3. SumFunctionOnSet(uses, S \cup T) = SumFunctionOnSet(uses, S) + SumFunctionOnSet(uses, T)
      BY <2>1, SumUnion
    <2>4. SumFunctionOnSet(uses, T) = 0
      BY <2>1, <2>2, SumOfZeros
    <2>5. SumFunctionOnSet(uses, S) \in Int
      BY <2>1, SumType
    <2>6. OfFlight(uses, f) = SumFunctionOnSet(uses, S)
      <3>1. OfFlight(uses, f) = SumFunctionOnSet(uses, S \cup T)
        BY <2>1, Zenon DEF OfFlight
      <3> QED BY <2>3, <2>4, <2>5, <3>1
    <2> QED BY <1>1, <2>6 DEF Taken, S
  <1>7. \A u \in F \X Q : uses[u] \in Int
    <2>1. \A u \in F \X Q : u[1] \in F /\ u[2] \in Q /\ u = <<u[1], u[2]>>
      OBVIOUS
    <2> QED BY <1>1, <1>3, <2>1
  <1>8. SumFunctionOnSet(Given(uses), Q) = SumFunctionOnSet(uses, F \X Q)
    BY <1>1, <1>5, <1>7, SumColumns
  <1>9. SumFunctionOnSet(Taken(uses), F) = SumFunctionOnSet(uses, F \X Q)
    <2>1. IsFiniteSet(F) /\ IsFiniteSet(Q)
      BY <1>1
    <2> QED BY <1>6, <1>7, <2>1, SumRows
  <1> QED BY <1>8, <1>9 DEF Q, F

Older(held, p) == {q \in held : AircraftOf[q] = AircraftOf[p] /\ Sooner(q, p)}

\* What OldestFirst says of a plan.
FromOldest(uses, m, held) ==
    \A p \in held :
        OfPackage(uses, p) =
            Least(Left(p), Positive(SumFunctionOnSet(Needs, Craft(m, AircraftOf[p]))
                                    - SumFunctionOnSet(Lefts, Older(held, p))))

\* Of two packages of an aircraft the later gives nothing unless the sooner has given all, and
\* when one has minutes left, the flights have all they need.
LEMMA SoonerFirst ==
    ASSUME HoursTypeOK, NEW m, NEW a, NEW uses, Greedy(uses, Pairs(m)), NEW q \in Peers(a),
           OfPackage(uses, q) # Left(q)
    PROVE  /\ \A f \in Craft(m, a) : Taken(uses)[f] = Needs[f]
           /\ \A r \in Peers(a) : Sooner(q, r) => OfPackage(uses, r) = 0
  <1>1. q \in Packages /\ q \in Active /\ AircraftOf[q] = a /\ uses \in [Draws -> Nat]
    BY DEF Peers, Active, Greedy
  <1>2. ASSUME NEW f \in Craft(m, a) PROVE Taken(uses)[f] = Needs[f]
    <2>1. f \in Flights /\ f \in Listed(m) /\ flown[f].aircraft = a
      BY DEF Craft, Listed
    <2>2. <<f, q>> \in Pairs(m)
      BY <1>1, <2>1 DEF Pairs
    <2>3. OfFlight(uses, f) = Eligible(f)
      BY <2>2 DEF Greedy
    <2> QED BY <2>1, <2>3 DEF Taken, Needs
  <1>3. ASSUME NEW r \in Peers(a), Sooner(q, r) PROVE OfPackage(uses, r) = 0
    <2>1. r \in Packages /\ r \in Active /\ AircraftOf[r] = a
      BY DEF Peers, Active
    <2>2. ASSUME NEW f \in Flights, uses[<<f, r>>] # 0 PROVE FALSE
      <3>1. <<f, r>> \in Draws /\ <<f, q>> \in Draws
        BY <1>1, <2>1 DEF Draws
      <3>2. <<f, r>> \in Pairs(m)
        BY <2>2, <3>1 DEF Greedy
      <3>3. f \in Listed(m) /\ flown[f].aircraft = a
        BY <2>1, <3>2 DEF Pairs
      <3>4. <<f, q>> \in Pairs(m)
        BY <1>1, <3>3 DEF Pairs
      <3>5. Before(<<f, q>>, <<f, r>>)
        BY <1>3 DEF Before, Sooner
      <3> QED BY <2>2, <3>2, <3>4, <3>5 DEF Greedy
    <2> QED BY <1>1, <2>1, <2>2, SumsZero
  <1> QED BY <1>2, <1>3

\* A greedy plan takes the package that expires first to its end before the next.
LEMMA GreedyOldest ==
    ASSUME HoursTypeOK, NEW m, NEW uses, Greedy(uses, Pairs(m))
    PROVE  FromOldest(uses, m, Active)
  <1> SUFFICES ASSUME NEW p \in Active
               PROVE  OfPackage(uses, p) =
                        Least(Left(p), Positive(SumFunctionOnSet(Needs, Craft(m, AircraftOf[p]))
                                                - SumFunctionOnSet(Lefts, Older(Active, p))))
    BY DEF FromOldest
  <1>0. PICK a : a = AircraftOf[p]
    OBVIOUS
  <1> DEFINE Q == Peers(a)
             F == Craft(m, a)
             O == Older(Active, p)
             Y == {q \in Q : Sooner(p, q)}
             G == Given(uses)
             due == SumFunctionOnSet(Needs, F)
             before == SumFunctionOnSet(Lefts, O)
             sO == SumFunctionOnSet(G, O)
             sY == SumFunctionOnSet(G, Y)
             taken == SumFunctionOnSet(Taken(uses), F)
  <1>1. /\ Active \subseteq Packages /\ p \in Packages /\ p \in Q
        /\ \A q \in Packages : q \in Nat /\ package[q].expires \in Nat
    BY <1>0, MinutesTyped, PrepaidHoursAssumption DEF Active, Peers
  <1>2. /\ O \subseteq Q /\ Y \subseteq Q /\ O \cap Y = {} /\ p \notin O /\ p \notin Y
        /\ Q = O \cup ({p} \cup Y) /\ O \cap ({p} \cup Y) = {}
        /\ \A q \in O : Sooner(q, p) /\ \A r \in {p} \cup Y : Sooner(q, r)
    BY <1>0, <1>1 DEF Older, Peers, Sooner
  <1>3. /\ Q \subseteq Packages /\ F \subseteq Flights
        /\ IsFiniteSet(Q) /\ IsFiniteSet(O) /\ IsFiniteSet(Y) /\ IsFiniteSet({p} \cup Y)
        /\ IsFiniteSet(F)
    <2>1. Q \subseteq Packages /\ F \subseteq Flights /\ {p} \cup Y \subseteq Q
      BY <1>1, <1>2 DEF Peers, Craft, Listed
    <2>2. IsFiniteSet(Q) /\ IsFiniteSet(F)
      BY <2>1, PrepaidHoursAssumption, FS_Subset
    <2> QED BY <1>2, <2>1, <2>2, FS_Subset
  <1>4. /\ uses \in [Draws -> Nat]
        /\ \A q \in Packages : /\ OfPackage(uses, q) \in Nat /\ Left(q) \in Nat
                               /\ OfPackage(uses, q) =< Left(q)
        /\ \A f \in Flights : /\ OfFlight(uses, f) \in Nat /\ Eligible(f) \in Nat
                              /\ OfFlight(uses, f) =< Eligible(f)
    BY MinutesTyped, SumsTyped DEF Greedy
  <1>5. /\ \A q \in Packages : /\ G[q] = OfPackage(uses, q) /\ Lefts[q] = Left(q)
                               /\ G[q] \in Nat /\ Lefts[q] \in Nat /\ G[q] =< Lefts[q]
        /\ \A f \in Flights : /\ Taken(uses)[f] \in Nat /\ Needs[f] \in Nat
                              /\ Taken(uses)[f] =< Needs[f]
    BY <1>4 DEF Given, Taken, Lefts, Needs
  <1>6. ASSUME NEW q \in Q, G[q] # Lefts[q]
        PROVE  /\ \A f \in F : Taken(uses)[f] = Needs[f]
               /\ \A r \in Q : Sooner(q, r) => G[r] = 0
    <2>1. OfPackage(uses, q) # Left(q)
      BY <1>3, <1>5, <1>6
    <2>2. /\ \A f \in F : Taken(uses)[f] = Needs[f]
          /\ \A r \in Q : Sooner(q, r) => OfPackage(uses, r) = 0
      BY <2>1, SoonerFirst
    <2> QED BY <1>3, <1>5, <2>2
  <1>7. SumFunctionOnSet(G, Q) = taken
    BY GivenIsTaken
  <1> HIDE DEF Q, F, O, Y, G
  <1>8. SumFunctionOnSet(G, Q) = sO + G[p] + sY /\ sO \in Nat /\ sY \in Nat /\ G[p] \in Nat
    <2>1. /\ \A q \in O \cup ({p} \cup Y) : G[q] \in Int
          /\ \A q \in {p} \cup Y : G[q] \in Int
          /\ \A q \in O : G[q] \in Nat
          /\ \A q \in Y : G[q] \in Nat
          /\ G[p] \in Nat
      BY <1>1, <1>2, <1>3, <1>5
    <2>2. SumFunctionOnSet(G, O \cup ({p} \cup Y)) = sO + SumFunctionOnSet(G, {p} \cup Y)
      BY <1>2, <1>3, <2>1, SumUnion
    <2>3. {p} \cup Y = Y \cup {p}
      OBVIOUS
    <2>4. \A q \in Y \cup {p} : G[q] \in Int
      BY <2>1
    <2>5. SumFunctionOnSet(G, Y \cup {p}) = G[p] + sY
      BY <1>2, <1>3, <2>4, SumAdd
    <2>6. sO \in Nat /\ sY \in Nat
      BY <1>3, <2>1, SumIsNat
    <2>7. SumFunctionOnSet(G, Q) = sO + SumFunctionOnSet(G, Y \cup {p})
      BY <1>2, <2>2, <2>3
    <2> QED BY <2>1, <2>5, <2>6, <2>7
  <1>9. due \in Nat /\ taken =< due
    <2>1. \A f \in F : /\ Taken(uses)[f] \in Int /\ Needs[f] \in Int /\ Needs[f] \in Nat
                       /\ Taken(uses)[f] =< Needs[f]
      BY <1>3, <1>5
    <2>2. due \in Nat
      BY <1>3, <2>1, SumIsNat
    <2>3. taken =< due
      BY <1>3, <2>1, SumMonotone
    <2> QED BY <2>2, <2>3
  <1>10. before \in Nat /\ sO =< before
    <2>1. \A q \in O : G[q] \in Int /\ Lefts[q] \in Int /\ Lefts[q] \in Nat /\ G[q] =< Lefts[q]
      BY <1>2, <1>3, <1>5
    <2>2. before \in Nat
      BY <1>3, <2>1, SumIsNat
    <2>3. sO =< before
      BY <1>3, <2>1, SumMonotone
    <2> QED BY <2>2, <2>3
  <1>11. ASSUME NEW q \in Q, G[q] # Lefts[q] PROVE taken = due
    BY <1>3, <1>6, <1>11, SumSame
  <1>12. ASSUME \A r \in Y : G[r] = 0 PROVE sY = 0
    BY <1>3, <1>12, SumOfZeros
  <1> HIDE DEF due, before, sO, sY, taken
  <1>13. sO + G[p] + sY = taken
    BY <1>7, <1>8
  <1>14. Left(p) \in Nat /\ G[p] = OfPackage(uses, p) /\ G[p] =< Left(p) /\ Lefts[p] = Left(p)
    BY <1>1, <1>5
  <1>15. CASE \E q \in O : G[q] # Lefts[q]
    <2>1. PICK q \in O : G[q] # Lefts[q]
      BY <1>15
    <2>2. q \in Q /\ \A r \in {p} \cup Y : r \in Q /\ Sooner(q, r)
      BY <1>1, <1>2
    <2>3. \A r \in {p} \cup Y : G[r] = 0
      BY <1>6, <2>1, <2>2
    <2>4. sY = 0 /\ G[p] = 0
      BY <1>12, <2>3
    <2>5. taken = due
      BY <1>11, <2>1, <2>2
    <2>6. due =< before
      BY <1>8, <1>9, <1>10, <1>13, <2>4, <2>5
    <2>7. Positive(due - before) = 0
      BY <1>9, <1>10, <2>6 DEF Positive
    <2>8. Least(Left(p), 0) = 0
      BY <1>14 DEF Least
    <2> QED BY <1>0, <1>14, <2>4, <2>7, <2>8 DEF F, O, due, before
  <1>16. CASE \A q \in O : G[q] = Lefts[q]
    <2>1. sO = before
      BY <1>3, <1>16, SumSame DEF sO, before
    <2>2. CASE G[p] = Left(p)
      <3>1. due - before >= Left(p)
        BY <1>8, <1>9, <1>10, <1>14, <1>13, <2>1, <2>2
      <3>2. Least(Left(p), Positive(due - before)) = Left(p)
        BY <1>9, <1>10, <1>14, <3>1 DEF Least, Positive
      <3> QED BY <1>0, <1>14, <2>2, <3>2 DEF F, O, due, before
    <2>3. CASE G[p] # Left(p)
      <3>1. taken = due
        BY <1>1, <1>11, <1>14, <2>3
      <3>2. \A r \in Y : r \in Q /\ Sooner(p, r)
        BY <1>2 DEF Y
      <3>3. \A r \in Y : G[r] = 0
        BY <1>1, <1>6, <1>14, <2>3, <3>2
      <3>4. sY = 0
        BY <1>12, <3>3
      <3>5. due - before = G[p]
        BY <1>8, <1>9, <1>10, <1>13, <2>1, <3>1, <3>4
      <3>6. Least(Left(p), Positive(G[p])) = G[p]
        BY <1>8, <1>14, <2>3 DEF Least, Positive
      <3> QED BY <1>0, <1>14, <3>5, <3>6 DEF F, O, due, before
    <2> QED BY <2>2, <2>3
  <1> QED BY <1>15, <1>16

-----------------------------------------------------------------------------
(* PrepaidHours: the handler's transactions                                *)

\* The plans that a transaction may hold.
Plans == [msg : Listings, rows : SUBSET Packages, uses : [Draws -> Nat]]

\* A plan draws only on the rows it has locked and only for the flights of its message, which
\* no invoice has; it can be applied and takes the package that expires first.
Sound(plan) ==
    /\ \A u \in Draws : plan.uses[u] # 0 => u[1] \in Listed(plan.msg) /\ u[2] \in plan.rows
    /\ \A p \in plan.rows : package[p] # NotBought
    /\ Fits(plan.uses)
    /\ FromOldest(plan.uses, plan.msg, plan.rows)
    /\ \A f \in Flights : OfFlight(plan.uses, f) =< Eligible(f)
    /\ \A f \in Listed(plan.msg) : billed[f] = Unbilled /\ flown[f].credited =< flown[f].mins

\* Two plans have no package and no message in common.
Separate(plan, other) == plan.rows \cap other.rows = {} /\ plan.msg # other.msg

\* The invariant of the proofs: the plans are sound and apart, the flights of a message are
\* invoiced together, and a flight that has no invoice has used no package.
HoursInv ==
    /\ HoursTypeOK
    /\ planned \in [Workers -> Plans \cup {NoPlan}]
    /\ \A w \in Workers, plan \in Plans : planned[w] = plan => Sound(plan)
    /\ \A v, w \in Workers, plan, other \in Plans :
           v # w /\ planned[v] = plan /\ planned[w] = other => Separate(plan, other)
    /\ \A f, g \in Flights :
           MessageOf[f] = MessageOf[g] /\ billed[f] = Unbilled => billed[g] = Unbilled
    /\ \A f \in Flights : billed[f] = Unbilled => OfFlight(log, f) = 0
    /\ BilledInFull

\* No plan is not a plan.
LEMMA NoPlanIsNone == \A plan \in Plans : plan # NoPlan
  <1> SUFFICES ASSUME NEW plan \in Plans, plan = NoPlan PROVE FALSE
    OBVIOUS
  <1>1. DOMAIN plan = {"msg", "rows", "uses"}
    BY DEF Plans
  <1>2. DOMAIN NoPlan = {}
    BY DEF NoPlan
  <1> QED BY <1>1, <1>2

\* With no more credited than flown, what the packages give and what the invoice charges is
\* what the flight needs.
LEMMA ChargedInFull ==
    ASSUME HoursTypeOK, NEW f \in Flights, flown[f].credited =< flown[f].mins,
           NEW prepaid \in Nat, prepaid =< Eligible(f)
    PROVE  Charged(f, prepaid) + prepaid = Eligible(f) /\ Charged(f, prepaid) \in Nat
  <1>1. TopUp(f) \in Nat /\ flown[f].mins \in Nat /\ flown[f].credited \in Nat
    BY MinutesTyped, PrepaidHoursAssumption DEF HoursTypeOK
  <1>2. CASE ~flown[f].billable
    BY <1>2 DEF Eligible, Charged
  <1>3. CASE flown[f].billable
    <2>1. PICK t \in Nat : t = TopUp(f)
      BY <1>1
    <2>2. PICK n \in Nat : n = flown[f].mins
      BY <1>1
    <2>3. PICK c \in Nat : c = flown[f].credited
      BY <1>1
    <2>4. c =< n /\ Eligible(f) = n + t - c
      BY <1>3, <2>1, <2>2, <2>3 DEF Eligible, Positive
    <2>5. PICK r : r = ResidualTopUp(f, prepaid)
      OBVIOUS
    <2>6. r = Positive(t - Positive(prepaid - (n - c)))
      BY <2>1, <2>2, <2>3, <2>5 DEF ResidualTopUp
    <2>7. Charged(f, prepaid) = Positive((Eligible(f) - prepaid) - r + c) + Positive(r) - Positive(c)
      <3>1. Charged(f, prepaid) =
                Positive((Eligible(f) - prepaid) - ResidualTopUp(f, prepaid) + flown[f].credited)
                    + Positive(ResidualTopUp(f, prepaid)) - Positive(flown[f].credited)
        BY <1>3, Zenon DEF Charged
      <3> QED BY <2>3, <2>5, <3>1, Zenon
    <2>8. CASE prepaid =< n - c
      <3>1. r = t
        BY <2>4, <2>6, <2>8 DEF Positive
      <3> QED BY <2>4, <2>7, <2>8, <3>1 DEF Positive
    <2>9. CASE prepaid > n - c
      <3>1. r = t - (prepaid - (n - c)) /\ r >= 0
        BY <2>4, <2>6, <2>9 DEF Positive
      <3> QED BY <2>4, <2>7, <2>9, <3>1 DEF Positive
    <2> QED BY <2>8, <2>9
  <1> QED BY <1>2, <1>3

\* A plan stays sound while nobody else touches its packages and its flights.
LEMMA SoundKept ==
    ASSUME HoursTypeOK, HoursTypeOK', NEW CONSTANT plan \in Plans, Sound(plan), flown' = flown,
           \A p \in plan.rows : package'[p] = package[p],
           \A f \in Listed(plan.msg) : billed'[f] = billed[f]
    PROVE  Sound(plan)'
  <1>1. /\ plan.msg \in Listings /\ plan.rows \subseteq Packages
        /\ plan.uses \in [Draws -> Nat] /\ IsFiniteSet(plan.rows)
    BY PrepaidHoursAssumption, FS_Subset DEF Plans
  <1>2. \A p \in plan.rows : Left(p)' = Left(p) /\ package'[p] = package[p]
    BY DEF Left
  <1>3. \A p \in Packages : Left(p)' \in Nat /\ Left(p) \in Nat
    <2>1. \A p \in Packages : Left(p) \in Nat
      BY MinutesTyped
    <2>2. (\A p \in Packages : Left(p) \in Nat)'
      BY DEF HoursTypeOK, PackageRows, Left
    <2> QED BY <2>1, <2>2
  <1>4. Fits(plan.uses)'
    <2> SUFFICES ASSUME NEW p \in Packages PROVE OfPackage(plan.uses, p) =< Left(p)'
      BY DEF Fits
    <2>1. CASE p \in plan.rows
      BY <1>2, <2>1 DEF Sound, Fits
    <2>2. CASE p \notin plan.rows
      <3>1. \A f \in Flights : <<f, p>> \in Draws
        BY DEF Draws
      <3>2. \A f \in Flights : plan.uses[<<f, p>>] = 0
        BY <2>2, <3>1 DEF Sound
      <3>3. OfPackage(plan.uses, p) = 0
        BY <1>1, <3>2, SumsZero
      <3> QED BY <1>3, <3>3
    <2> QED BY <2>1, <2>2
  <1>5. \A f \in Flights : Eligible(f)' = Eligible(f)
    BY DEF Eligible, TopUp
  <1>6. FromOldest(plan.uses, plan.msg, plan.rows)'
    <2> SUFFICES ASSUME NEW p \in plan.rows
                 PROVE  OfPackage(plan.uses, p) =
                          Least(Left(p)', Positive(SumFunctionOnSet(Needs', Craft(plan.msg, AircraftOf[p])')
                                                   - SumFunctionOnSet(Lefts', Older(plan.rows, p)')))
      BY DEF FromOldest
    <2>1. Needs' = Needs
      BY <1>5 DEF Needs
    <2>2. Craft(plan.msg, AircraftOf[p])' = Craft(plan.msg, AircraftOf[p])
      BY DEF Craft
    <2>3. Older(plan.rows, p)' = Older(plan.rows, p)
      BY DEF Older, Sooner
    <2>4. SumFunctionOnSet(Lefts', Older(plan.rows, p)) = SumFunctionOnSet(Lefts, Older(plan.rows, p))
      <3> DEFINE O == Older(plan.rows, p)
      <3>1. O \subseteq plan.rows /\ IsFiniteSet(O)
        BY <1>1, FS_Subset DEF Older
      <3>2. PICK left : left = Lefts'
        OBVIOUS
      <3>3. \A q \in O : left[q] = Lefts[q]
        BY <1>1, <1>2, <3>1, <3>2 DEF Lefts
      <3> HIDE DEF O
      <3>4. SumFunctionOnSet(left, O) = SumFunctionOnSet(Lefts, O)
        BY <3>1, <3>3, SumSame
      <3> QED BY <3>2, <3>4 DEF O
    <2> QED BY <1>2, <2>1, <2>2, <2>3, <2>4 DEF Sound, FromOldest
  <1> QED BY <1>1, <1>2, <1>4, <1>5, <1>6 DEF Sound, Listed

\* Plans that no step changes, and whose packages and flights it leaves alone, stay sound and
\* apart.
LEMMA PlansKept ==
    ASSUME HoursInv, HoursTypeOK', flown' = flown,
           \A w \in Workers, plan \in Plans : planned'[w] = plan =>
               /\ planned[w] = plan
               /\ \A p \in plan.rows : package'[p] = package[p]
               /\ \A f \in Listed(plan.msg) : billed'[f] = billed[f]
    PROVE  /\ \A w \in Workers, plan \in Plans : planned'[w] = plan => Sound(plan)'
           /\ \A v, w \in Workers, plan, other \in Plans :
                  v # w /\ planned'[v] = plan /\ planned'[w] = other => Separate(plan, other)
  <1>1. ASSUME NEW w \in Workers, NEW CONSTANT plan \in Plans, planned'[w] = plan
        PROVE  Sound(plan)'
    <2>1. /\ planned[w] = plan /\ HoursTypeOK /\ Sound(plan)
          /\ \A p \in plan.rows : package'[p] = package[p]
          /\ \A f \in Listed(plan.msg) : billed'[f] = billed[f]
      BY <1>1 DEF HoursInv
    <2> QED BY <2>1, SoundKept
  <1>2. ASSUME NEW v \in Workers, NEW w \in Workers, NEW plan \in Plans, NEW other \in Plans,
               v # w, planned'[v] = plan, planned'[w] = other
        PROVE  Separate(plan, other)
    <2>1. planned[v] = plan /\ planned[w] = other
      BY <1>2
    <2> QED BY <1>2, <2>1 DEF HoursInv
  <1> QED BY <1>1, <1>2

\* HoursInv holds at the start: nothing is bought, planned or invoiced.
LEMMA HoursInvInit == HoursInit => HoursInv
  <1> SUFFICES ASSUME HoursInit PROVE HoursInv
    OBVIOUS
  <1>1. HoursTypeOK
    <2>1. NotBought \in PackageRows
      BY DEF NotBought, PackageRows
    <2> QED BY <2>1 DEF HoursInit, HoursTypeOK, Unbilled
  <1>2. \A w \in Workers : planned[w] = NoPlan
    BY DEF HoursInit
  <1>3. \A w \in Workers, plan \in Plans : planned[w] # plan
    BY <1>2, NoPlanIsNone
  <1>4. \A f \in Flights : billed[f] = Unbilled
    BY DEF HoursInit
  <1>5. \A f \in Flights : OfFlight(log, f) = 0
    <2>1. \A f \in Flights, p \in Packages : log[<<f, p>>] = 0
      BY DEF HoursInit, Draws
    <2> QED BY <1>1, <2>1, SumsZero DEF HoursTypeOK
  <1>6. planned \in [Workers -> Plans \cup {NoPlan}]
    BY DEF HoursInit
  <1> QED BY <1>1, <1>3, <1>4, <1>5, <1>6 DEF HoursInv, BilledInFull

\* The plan made on locked packages is sound, and apart from those of the other workers.
LEMMA PlanStep ==
    ASSUME HoursInv, NEW w \in Workers, NEW m \in Listings, Plan(w, m)
    PROVE  HoursInv'
  <1> USE DEF HoursInv
  <1>1. PICK plan : plan = [msg |-> m, rows |-> Active, uses |-> Allocate(m)]
    OBVIOUS
  <1>2. Greedy(Allocate(m), Pairs(m))
    BY AllocateGreedy
  <1>3. /\ planned' = [planned EXCEPT ![w] = plan]
        /\ UNCHANGED <<flown, package, log, billed>>
    BY <1>1 DEF Plan
  <1>4. plan \in Plans /\ plan.msg = m /\ plan.rows = Active /\ plan.uses = Allocate(m)
    BY <1>1, <1>2 DEF Plans, Greedy, Active
  <1>5. Sound(plan)
    <2>1. \A u \in Draws : plan.uses[u] # 0 => u[1] \in Listed(m) /\ u[2] \in Active
      BY <1>2, <1>4 DEF Greedy, Pairs
    <2>2. \A p \in Active : package[p] # NotBought
      BY DEF Active, Left, NotBought
    <2>3. Fits(plan.uses) /\ \A f \in Flights : OfFlight(plan.uses, f) =< Eligible(f)
      BY <1>2, <1>4 DEF Greedy, Fits
    <2>4. FromOldest(plan.uses, m, Active)
      BY <1>2, <1>4, GreedyOldest
    <2>5. \A f \in Listed(m) : billed[f] = Unbilled /\ flown[f].credited =< flown[f].mins
      BY DEF Plan, Invoiced, Listed
    <2> QED BY <1>4, <2>1, <2>2, <2>3, <2>4, <2>5 DEF Sound
  <1>6. /\ HoursTypeOK'
        /\ planned' \in [Workers -> Plans \cup {NoPlan}]
    BY <1>3, <1>4 DEF HoursTypeOK
  <1>7. ASSUME NEW v \in Workers, NEW CONSTANT kept \in Plans, planned'[v] = kept
        PROVE  Sound(kept)'
    <2>1. Sound(kept)
      BY <1>3, <1>5, <1>7
    <2> QED BY <1>3, <1>6, <2>1, SoundKept
  <1>8. ASSUME NEW v \in Workers, NEW other \in Plans, v # w, planned[v] = other
        PROVE  Separate(plan, other) /\ Separate(other, plan)
    <2>1. Busy(v)
      BY <1>8, NoPlanIsNone DEF Busy
    <2>2. other.msg # m
      BY <1>8, <2>1 DEF Plan
    <2>3. other.rows \subseteq Locked(w)
      BY <1>8, <2>1 DEF Locked
    <2> QED BY <1>4, <2>2, <2>3 DEF Plan, Separate
  <1>9. ASSUME NEW v \in Workers, NEW x \in Workers, NEW kept \in Plans, NEW other \in Plans,
               v # x, planned'[v] = kept, planned'[x] = other
        PROVE  Separate(kept, other)
    <2>1. CASE v = w
      BY <1>3, <1>8, <1>9, <2>1
    <2>2. CASE x = w
      BY <1>3, <1>8, <1>9, <2>2
    <2>3. CASE v # w /\ x # w
      BY <1>3, <1>9, <2>3
    <2> QED BY <2>1, <2>2, <2>3
  <1>10. \A f \in Flights : Eligible(f)' = Eligible(f)
    BY <1>3 DEF Eligible, TopUp
  <1>11. BilledInFull' /\ \A f \in Flights : billed'[f] = Unbilled => OfFlight(log', f) = 0
    BY <1>3, <1>10 DEF BilledInFull
  <1> QED BY <1>3, <1>6, <1>7, <1>9, <1>11

\* A row with no more minutes used than it came with is a row.
LEMMA UsedRow ==
    ASSUME NEW row \in PackageRows, NEW x \in Nat, x =< row.total, NEW c \in BOOLEAN
    PROVE  [row EXCEPT !.used = x, !.expired = c] \in PackageRows
  <1> DEFINE R == [total : Nat, used : Nat, expires : Nat, expired : BOOLEAN]
             new == [row EXCEPT !.used = x, !.expired = c]
  <1>1. row \in R
    BY DEF PackageRows
  <1>2. new \in R /\ new.used = x /\ new.total = row.total
    BY <1>1
  <1> QED BY <1>2 DEF PackageRows

\* A plan that is applied fits, pays for its flights with what the packages give, and leaves
\* the rows and the messages of the others alone.
LEMMA ApplyStep ==
    ASSUME HoursInv, NEW w \in Workers, Apply(w)
    PROVE  HoursInv'
  <1>1. PICK plan \in Plans : planned[w] = plan
    BY DEF Apply, Busy, HoursInv
  <1>2. /\ Sound(plan)
        /\ plan.uses \in [Draws -> Nat] /\ plan.msg \in Listings /\ plan.rows \subseteq Packages
    BY <1>1 DEF Plans, HoursInv
  <1>3. PICK uses \in [Draws -> Nat] : uses = plan.uses
    BY <1>2
  <1>4. PICK m : m = plan.msg
    OBVIOUS
  <1>5. /\ package' = [p \in Packages |->
               IF OfPackage(uses, p) = 0 THEN package[p]
               ELSE [package[p] EXCEPT !.used = package[p].used + OfPackage(uses, p),
                                       !.expired = package[p].used + OfPackage(uses, p)
                                                       >= package[p].total]]
        /\ log' = [u \in Draws |-> log[u] + uses[u]]
        /\ billed' = [f \in Flights |->
               IF f \in Listed(m) THEN Charged(f, OfFlight(uses, f)) ELSE billed[f]]
        /\ planned' = [planned EXCEPT ![w] = NoPlan]
        /\ flown' = flown
    BY <1>1, <1>2, <1>3, <1>4 DEF Apply, Sound
  <1>a. /\ HoursTypeOK /\ planned \in [Workers -> Plans \cup {NoPlan}]
        /\ log \in [Draws -> Nat] /\ billed \in [Flights -> Int]
    BY DEF HoursInv, HoursTypeOK
  <1>b. /\ \A u \in Draws : log'[u] = log[u] + uses[u]
        /\ \A f \in Flights :
               billed'[f] = IF f \in Listed(m) THEN Charged(f, OfFlight(uses, f)) ELSE billed[f]
    BY <1>5
  <1>6. /\ \A p \in Packages : OfPackage(uses, p) \in Nat /\ OfPackage(uses, p) =< Left(p)
        /\ \A f \in Flights : OfFlight(uses, f) \in Nat /\ OfFlight(uses, f) =< Eligible(f)
    BY <1>2, <1>3, SumsTyped DEF Sound, Fits
  <1>7. \A f \in Listed(m) : /\ f \in Flights
                             /\ Charged(f, OfFlight(uses, f)) + OfFlight(uses, f) = Eligible(f)
                             /\ Charged(f, OfFlight(uses, f)) \in Nat
    BY <1>2, <1>4, <1>6, <1>a, ChargedInFull DEF Sound, Listed
  <1>8. package' \in [Packages -> PackageRows]
    <2> SUFFICES ASSUME NEW p \in Packages PROVE package'[p] \in PackageRows
      BY <1>5
    <2>1. /\ package[p] \in PackageRows
          /\ package[p].used \in Nat /\ package[p].total \in Nat
      BY <1>a DEF HoursTypeOK, PackageRows
    <2>2. PICK x : x = package[p].used + OfPackage(uses, p)
      OBVIOUS
    <2>3. x \in Nat /\ x =< package[p].total
      BY <1>6, <2>1, <2>2 DEF Left
    <2>4. (x >= package[p].total) \in BOOLEAN
      OBVIOUS
    <2>5. \/ package'[p] = package[p]
          \/ package'[p] = [package[p] EXCEPT !.used = x, !.expired = x >= package[p].total]
      BY <1>5, <2>2
    <2> QED BY <2>1, <2>3, <2>4, <2>5, UsedRow
  <1>9. log' \in [Draws -> Nat]
    <2>1. \A u \in Draws : log[u] + uses[u] \in Nat
      BY <1>a
    <2> QED BY <1>5, <2>1
  <1>10. HoursTypeOK'
    <2>1. billed' \in [Flights -> Int]
      <3>1. \A f \in Flights : (IF f \in Listed(m) THEN Charged(f, OfFlight(uses, f))
                               ELSE billed[f]) \in Int
        BY <1>7, <1>a
      <3> QED BY <1>5, <3>1
    <2> QED BY <1>5, <1>8, <1>9, <1>a, <2>1 DEF HoursTypeOK
  <1>11. planned' \in [Workers -> Plans \cup {NoPlan}]
    BY <1>5, <1>a
  <1>12. ASSUME NEW v \in Workers, NEW kept \in Plans, planned'[v] = kept
         PROVE  /\ planned[v] = kept
                /\ \A p \in kept.rows : package'[p] = package[p]
                /\ \A f \in Listed(kept.msg) : billed'[f] = billed[f]
    <2>1. v # w
      BY <1>5, <1>12, <1>a, NoPlanIsNone
    <2>2. planned[v] = kept
      BY <1>5, <1>12, <1>a, <2>1
    <2>3. plan.rows \cap kept.rows = {} /\ plan.msg # kept.msg /\ kept.rows \subseteq Packages
      BY <1>1, <2>1, <2>2 DEF Separate, Plans, HoursInv
    <2>4. ASSUME NEW p \in kept.rows PROVE package'[p] = package[p]
      <3>1. \A f \in Flights : uses[<<f, p>>] = 0
        BY <1>2, <1>3, <2>3 DEF Sound, Draws
      <3>2. OfPackage(uses, p) = 0
        BY <2>3, <3>1, SumsZero
      <3> QED BY <1>5, <2>3, <3>2
    <2>5. \A f \in Listed(kept.msg) : billed'[f] = billed[f]
      BY <1>4, <1>b, <2>3 DEF Listed
    <2> QED BY <2>2, <2>4, <2>5
  <1>13. /\ \A v \in Workers, kept \in Plans : planned'[v] = kept => Sound(kept)'
         /\ \A v, x \in Workers, kept, other \in Plans :
                v # x /\ planned'[v] = kept /\ planned'[x] = other => Separate(kept, other)
    BY <1>5, <1>10, <1>12, PlansKept
  <1>14. \A f, g \in Flights :
             MessageOf[f] = MessageOf[g] /\ billed'[f] = Unbilled => billed'[g] = Unbilled
    <2> SUFFICES ASSUME NEW f \in Flights, NEW g \in Flights,
                        MessageOf[f] = MessageOf[g], billed'[f] = Unbilled
                 PROVE  billed'[g] = Unbilled
      OBVIOUS
    <2>1. f \notin Listed(m)
      BY <1>7, <1>b DEF Unbilled
    <2>2. g \notin Listed(m)
      BY <2>1 DEF Listed
    <2>3. billed[f] = Unbilled
      BY <1>b, <2>1
    <2>4. billed[g] = Unbilled
      BY <2>3 DEF HoursInv
    <2> QED BY <1>b, <2>2, <2>4
  <1>15. \A f \in Flights : OfFlight(log', f) = OfFlight(log, f) + OfFlight(uses, f)
    <2> SUFFICES ASSUME NEW f \in Flights
                 PROVE  OfFlight(log', f) = OfFlight(log, f) + OfFlight(uses, f)
      OBVIOUS
    <2> DEFINE S == {f} \X Packages
    <2>1. S \subseteq Draws /\ IsFiniteSet(S)
      BY PrepaidHoursAssumption, FS_Product, FS_Singleton DEF Draws
    <2>2. PICK l : l = log'
      OBVIOUS
    <2>3. \A u \in S : log[u] \in Int /\ uses[u] \in Int /\ l[u] = log[u] + uses[u]
      BY <1>a, <1>b, <2>1, <2>2
    <2> HIDE DEF S
    <2>4. SumFunctionOnSet(l, S) = SumFunctionOnSet(log, S) + SumFunctionOnSet(uses, S)
      BY <2>1, <2>3, SumPlus
    <2> QED BY <2>2, <2>4 DEF OfFlight, S
  <1>16. \A f \in Flights : Eligible(f)' = Eligible(f)
    BY <1>5 DEF Eligible, TopUp
  <1>17. ASSUME NEW f \in Flights
         PROVE  /\ billed'[f] = Unbilled => OfFlight(log', f) = 0
                /\ billed'[f] # Unbilled => billed'[f] + OfFlight(log', f) = Eligible(f) /\ billed'[f] >= 0
    <2>1. CASE f \in Listed(m)
      <3>1. billed[f] = Unbilled /\ OfFlight(log, f) = 0
        BY <1>2, <1>4, <2>1 DEF Sound, HoursInv
      <3>2. OfFlight(log', f) = OfFlight(uses, f)
        BY <1>6, <1>15, <3>1
      <3>3. billed'[f] = Charged(f, OfFlight(uses, f))
        BY <1>b, <2>1
      <3> QED BY <1>7, <2>1, <3>2, <3>3 DEF Unbilled
    <2>2. CASE f \notin Listed(m)
      <3>1. \A p \in Packages : uses[<<f, p>>] = 0
        BY <1>2, <1>3, <1>4, <2>2 DEF Sound, Draws
      <3>2. OfFlight(uses, f) = 0
        BY <3>1, SumsZero
      <3>3. OfFlight(log, f) \in Nat
        BY <1>a, SumsTyped
      <3>4. OfFlight(log', f) = OfFlight(log, f) /\ billed'[f] = billed[f]
        BY <1>15, <1>b, <2>2, <3>2, <3>3
      <3> QED BY <3>4 DEF BilledInFull, HoursInv
    <2> QED BY <2>1, <2>2
  <1>18. BilledInFull'
    BY <1>16, <1>17 DEF BilledInFull
  <1> QED BY <1>10, <1>11, <1>13, <1>14, <1>17, <1>18 DEF HoursInv

\* A package that is bought is in nobody's rows.
LEMMA BuyStep ==
    ASSUME HoursInv, NEW p \in Packages, Buy(p)
    PROVE  HoursInv'
  <1> USE DEF HoursInv
  <1>1. PICK n \in Minutes, d \in Days :
            package' = [package EXCEPT ![p] = [total |-> n, used |-> 0, expires |-> d, expired |-> FALSE]]
    BY DEF Buy
  <1>2. n \in Nat /\ d \in Nat /\ UNCHANGED <<flown, log, billed, planned>>
    BY PrepaidHoursAssumption DEF Buy
  <1>3. HoursTypeOK'
    <2>1. [total |-> n, used |-> 0, expires |-> d, expired |-> FALSE] \in PackageRows
      BY <1>2 DEF PackageRows
    <2> QED BY <1>1, <1>2, <2>1 DEF HoursTypeOK
  <1>4. ASSUME NEW v \in Workers, NEW kept \in Plans, planned'[v] = kept
        PROVE  planned[v] = kept /\ \A q \in kept.rows : package'[q] = package[q]
    <2>1. planned[v] = kept
      BY <1>2, <1>4
    <2>2. \A q \in kept.rows : package[q] # NotBought /\ q \in Packages
      BY <2>1 DEF Sound, Plans
    <2>3. p \notin kept.rows
      BY <2>2 DEF Buy
    <2> QED BY <1>1, <2>1, <2>2, <2>3 DEF HoursTypeOK
  <1>5. /\ \A v \in Workers, kept \in Plans : planned'[v] = kept => Sound(kept)'
        /\ \A v, x \in Workers, kept, other \in Plans :
               v # x /\ planned'[v] = kept /\ planned'[x] = other => Separate(kept, other)
    BY <1>2, <1>3, <1>4, PlansKept
  <1>6. \A f \in Flights : Eligible(f)' = Eligible(f)
    BY <1>2 DEF Eligible, TopUp
  <1> QED BY <1>2, <1>3, <1>5, <1>6 DEF BilledInFull

\* Packages that are extended are in nobody's rows either.
LEMMA ExtendStep ==
    ASSUME HoursInv, NEW a, Extend(a)
    PROVE  HoursInv'
  <1> USE DEF HoursInv
  <1>1. PICK S : S = {p \in Packages : AircraftOf[p] = a /\ ~package[p].expired}
    OBVIOUS
  <1>2. /\ package' = [p \in Packages |->
               IF p \in S THEN [package[p] EXCEPT !.expires = @ + 1] ELSE package[p]]
        /\ \A w \in Workers : Busy(w) => planned[w].rows \cap S = {}
        /\ UNCHANGED <<flown, log, billed, planned>>
    BY <1>1 DEF Extend
  <1>3. HoursTypeOK'
    <2> SUFFICES ASSUME NEW p \in Packages PROVE package'[p] \in PackageRows
      BY <1>2 DEF HoursTypeOK
    <2>1. PICK t \in Nat, n \in Nat, e \in Nat, b \in BOOLEAN :
             package[p] = [total |-> t, used |-> n, expires |-> e, expired |-> b] /\ n =< t
      BY DEF HoursTypeOK, PackageRows
    <2>2. CASE p \notin S
      BY <1>2, <2>2 DEF HoursTypeOK
    <2>3. CASE p \in S
      <3>1. package'[p] = [total |-> t, used |-> n, expires |-> e + 1, expired |-> b]
        BY <1>2, <2>1, <2>3
      <3> QED BY <2>1, <3>1 DEF PackageRows
    <2> QED BY <2>2, <2>3
  <1>4. ASSUME NEW v \in Workers, NEW kept \in Plans, planned'[v] = kept
        PROVE  planned[v] = kept /\ \A q \in kept.rows : package'[q] = package[q]
    <2>1. planned[v] = kept /\ Busy(v)
      BY <1>2, <1>4, NoPlanIsNone DEF Busy
    <2>2. kept.rows \cap S = {} /\ kept.rows \subseteq Packages
      BY <1>2, <2>1 DEF Plans
    <2> QED BY <1>2, <2>1, <2>2
  <1>5. /\ \A v \in Workers, kept \in Plans : planned'[v] = kept => Sound(kept)'
        /\ \A v, x \in Workers, kept, other \in Plans :
               v # x /\ planned'[v] = kept /\ planned'[x] = other => Separate(kept, other)
    BY <1>2, <1>3, <1>4, PlansKept
  <1>6. \A f \in Flights : Eligible(f)' = Eligible(f)
    BY <1>2 DEF Eligible, TopUp
  <1> QED BY <1>2, <1>3, <1>5, <1>6 DEF BilledInFull

\* A plan that is given up, a midnight and a step that changes nothing take nothing away.
LEMMA OtherHoursStep ==
    ASSUME HoursInv,
           (\E w \in Workers : Fail(w)) \/ Midnight \/ UNCHANGED hoursVars
    PROVE  HoursInv'
  <1> USE DEF HoursInv
  <1>1. /\ UNCHANGED <<flown, package, log, billed>>
        /\ \A v \in Workers : planned'[v] = planned[v] \/ planned'[v] = NoPlan
        /\ planned' \in [Workers -> Plans \cup {NoPlan}]
    BY DEF Fail, Midnight, hoursVars
  <1>2. HoursTypeOK'
    BY <1>1 DEF HoursTypeOK
  <1>3. \A v \in Workers, kept \in Plans : planned'[v] = kept => planned[v] = kept
    BY <1>1, NoPlanIsNone
  <1>4. /\ \A v \in Workers, kept \in Plans : planned'[v] = kept => Sound(kept)'
        /\ \A v, x \in Workers, kept, other \in Plans :
               v # x /\ planned'[v] = kept /\ planned'[x] = other => Separate(kept, other)
    BY <1>1, <1>2, <1>3, PlansKept
  <1>5. \A f \in Flights : Eligible(f)' = Eligible(f)
    BY <1>1 DEF Eligible, TopUp
  <1> QED BY <1>1, <1>2, <1>4, <1>5 DEF BilledInFull

\* HoursInv holds in every state that the handler, the shop and the admins can reach.
THEOREM HoursInvHolds == HoursSpec => []HoursInv
  <1>1. HoursInit => HoursInv
    BY HoursInvInit
  <1>2. HoursInv /\ [HoursNext]_hoursVars => HoursInv'
    <2> SUFFICES ASSUME HoursInv, [HoursNext]_hoursVars PROVE HoursInv'
      OBVIOUS
    <2>1. ASSUME NEW w \in Workers, NEW m \in Listings, Plan(w, m) PROVE HoursInv'
      BY <2>1, PlanStep
    <2>2. ASSUME NEW w \in Workers, Apply(w) PROVE HoursInv'
      BY <2>2, ApplyStep
    <2>3. ASSUME NEW p \in Packages, Buy(p) PROVE HoursInv'
      BY <2>3, BuyStep
    <2>4. ASSUME NEW p \in Packages, Extend(AircraftOf[p]) PROVE HoursInv'
      BY <2>4, ExtendStep
    <2>5. ASSUME (\E w \in Workers : Fail(w)) \/ Midnight \/ UNCHANGED hoursVars PROVE HoursInv'
      BY <2>5, OtherHoursStep
    <2> QED BY <2>1, <2>2, <2>3, <2>4, <2>5 DEF HoursNext
  <1> QED BY <1>1, <1>2, PTL DEF HoursSpec

\* A plan that is held can be applied when the invoice has come back, whatever other processes
\* plan for the member and whatever an admin extends meanwhile.
THEOREM PlansStillFit == HoursSpec => []PlanStillFits
  <1>1. HoursInv => PlanStillFits
    BY DEF HoursInv, PlanStillFits, Busy, Sound
  <1> QED BY <1>1, HoursInvHolds, PTL

\* What an invoice charges for a flight at the aircraft's price and what its packages gave are
\* together the minutes it is billed for.
THEOREM FlightsBilledInFull == HoursSpec => []BilledInFull
  <1>1. HoursInv => BilledInFull
    BY DEF HoursInv
  <1> QED BY <1>1, HoursInvHolds, PTL

\* A plan empties the package that expires first before it touches the next, and none is left
\* with minutes that a flight needs.
THEOREM OldestGivesFirst == HoursSpec => []OldestFirst
  <1>1. HoursInv => OldestFirst
    <2> SUFFICES ASSUME HoursInv, NEW w \in Workers, Busy(w),
                        NEW p \in planned[w].rows
                 PROVE  OfPackage(planned[w].uses, p) =
                          Least(Left(p), Positive(
                              SumFunctionOnSet([f \in Flights |-> Eligible(f)],
                                  {f \in Listed(planned[w].msg) : flown[f].aircraft = AircraftOf[p]})
                              - SumFunctionOnSet([q \in Packages |-> Left(q)],
                                  {q \in {q \in planned[w].rows : AircraftOf[q] = AircraftOf[p]} :
                                      \/ package[q].expires < package[p].expires
                                      \/ package[q].expires = package[p].expires /\ q < p})))
      BY DEF OldestFirst
    <2>1. FromOldest(planned[w].uses, planned[w].msg, planned[w].rows)
      BY DEF HoursInv, Busy, Sound
    <2>2. Older(planned[w].rows, p) =
              {q \in {q \in planned[w].rows : AircraftOf[q] = AircraftOf[p]} :
                  \/ package[q].expires < package[p].expires
                  \/ package[q].expires = package[p].expires /\ q < p}
      BY DEF Older, Sooner
    <2> QED BY <2>1, <2>2 DEF FromOldest, Needs, Lefts, Craft
  <1> QED BY <1>1, HoursInvHolds, PTL
=============================================================================
