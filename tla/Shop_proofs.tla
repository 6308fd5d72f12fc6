----------------------------- MODULE Shop_proofs -----------------------------
(***************************************************************************)
(* Proofs about Shop: what is in stock and what is ordered is what the     *)
(* admins put in, however many orders are made at once, and every order    *)
(* has its invoice exactly when its message is settled.                    *)
(***************************************************************************)
EXTENDS Shop, SequenceTheorems, SumTheorems

-----------------------------------------------------------------------------
(* The invariant                                                           *)

OrderRows == [status : Statuses, owner : Members, lines : Seq(Line), code : BOOLEAN,
              invoiced : BOOLEAN]

OrderRequests == [kind : {"order"}, lines : Seq(Line), code : BOOLEAN, taken : Nat, drawn : Nat,
                  seen : Nat \cup {Unread}, left : [Options -> Nat \cup {Unread}]]

\* What the first n lines have of product p, and of option x.
Part(lines, n, p) == Quantity(lines, {i \in 1..n : lines[i].product = p})
PartOf(lines, n, x) == Quantity(lines, {i \in 1..n : lines[i].option = x})

\* What request r has taken of product p.
Held(r, p) == IF r.kind = "order" THEN Part(r.lines, r.taken, p) ELSE 0

\* A line names an option of its product.
Offered(l) == \E k \in Lines : k.product = l.product /\ k.option = l.option

\* How far a transaction is: options are read once all stock is taken, and those written are
\* those of the lines gone through.
InOrder(r) == r.kind = "order" =>
    /\ \A i \in DOMAIN r.lines : Offered(r.lines[i])
    /\ r.taken =< Len(r.lines) /\ r.drawn =< Len(r.lines)
    /\ r.drawn > 0 \/ r.seen # Unread => r.taken = Len(r.lines)
    /\ r.seen # Unread => r.drawn < Len(r.lines) /\ r.lines[r.drawn + 1].option # NoOption
    /\ \A x \in Options : r.left[x] # Unread <=> \E i \in 1..r.drawn : r.lines[i].option = x

\* There is enough of what a transaction has taken.
Covered(r) == \A p \in Products :
    /\ Held(r, p) =< stock[p]
    /\ p \in Packages => package[p].sold + Held(r, p) =< package[p].total

\* What a transaction has read and written of an option is what the option had, less what
\* the lines gone through take of it.
ReadTrue(r) == r.kind = "order" => \A x \in Options \ overtaken :
    /\ r.left[x] # Unread => r.left[x] = option[x] - PartOf(r.lines, r.drawn, x)
    /\ r.seen # Unread /\ r.lines[r.drawn + 1].option = x
           => r.seen = option[x] - PartOf(r.lines, r.drawn, x)

Sound(r) == InOrder(r) /\ Covered(r) /\ ReadTrue(r)

\* No two transactions have taken of the same product.
Apart == \A c, d \in Clients, p \in Products :
    c # d => Held(req[c], p) = 0 \/ Held(req[d], p) = 0

CartsOffered == \A m \in Members : \A i \in DOMAIN cart[m].lines : Offered(cart[m].lines[i])

Accounts ==
    /\ IsFiniteSet(Placed)
    /\ StockConserved
    /\ OptionsConserved
    /\ PackagesIssued

\* A message is for an order, and the one being billed is open.
Billing ==
    /\ open \subseteq Placed /\ settled \subseteq Placed /\ open \cap settled = {}
    /\ billing \subseteq open
    /\ InvoicedWithMessage

Inv ==
    /\ TypeOK
    /\ \A c \in Clients : Sound(req[c])
    /\ Apart
    /\ CartsOffered
    /\ Accounts
    /\ Billing

-----------------------------------------------------------------------------
(* Quantities                                                              *)

\* What lines add up to: a number, above zero where there is a line, and one more line adds
\* its own quantity.
LEMMA QuantityFacts ==
    ASSUME NEW lines \in Seq(Line), NEW J \in SUBSET (1..Len(lines))
    PROVE  /\ Quantity(lines, J) \in Nat
           /\ J = {} => Quantity(lines, J) = 0
           /\ J # {} => Quantity(lines, J) > 0
           /\ \A n \in 1..Len(lines) : n \notin J =>
                  Quantity(lines, J \cup {n}) = Quantity(lines, J) + lines[n].quantity
  <1> DEFINE q == [i \in DOMAIN lines |-> lines[i].quantity]
  <1>1. /\ DOMAIN lines = 1..Len(lines) /\ Len(lines) \in Nat
        /\ \A i \in 1..Len(lines) : q[i] = lines[i].quantity /\ q[i] \in Nat /\ q[i] > 0
    <2>1. DOMAIN lines = 1..Len(lines) /\ Len(lines) \in Nat
      OBVIOUS
    <2>2. ASSUME NEW i \in 1..Len(lines)
          PROVE  q[i] = lines[i].quantity /\ q[i] \in Nat /\ q[i] > 0
      <3>1. lines[i] \in Line
        BY <2>1
      <3>2. lines[i].quantity \in Nat /\ lines[i].quantity # 0
        BY <3>1 DEF Line
      <3> QED BY <2>1, <3>2
    <2> QED BY <2>1, <2>2
  <1>2. IsFiniteSet(1..Len(lines)) /\ IsFiniteSet(J)
    <2>1. 1 \in Int /\ Len(lines) \in Int
      BY <1>1
    <2>2. IsFiniteSet(1..Len(lines))
      BY <2>1, FS_Interval
    <2> QED BY <2>2, FS_Subset
  <1>3. \A S : Quantity(lines, S) = SumFunctionOnSet(q, S)
    BY DEF Quantity
  <1> HIDE DEF q
  <1>4. \A i \in J : q[i] \in Nat
    BY <1>1
  <1>5. SumFunctionOnSet(q, J) \in Nat
    BY <1>2, <1>4, SumIsNat
  <1>6. SumFunctionOnSet(q, {}) = 0
    BY SumEmpty
  <1>7. ASSUME NEW e \in J PROVE SumFunctionOnSet(q, J) > 0
    <2>1. \A i \in J : q[i] \in Int
      BY <1>4
    <2>2. SumFunctionOnSet(q, J) = q[e] + SumFunctionOnSet(q, J \ {e})
      BY <1>2, <2>1, SumRemove
    <2>3. IsFiniteSet(J \ {e}) /\ \A i \in J \ {e} : q[i] \in Nat
      BY <1>2, <1>4, FS_RemoveElement
    <2>4. SumFunctionOnSet(q, J \ {e}) \in Nat
      BY <2>3, SumIsNat
    <2>5. q[e] \in Nat /\ q[e] > 0
      BY <1>1
    <2> QED BY <2>2, <2>4, <2>5
  <1>8. ASSUME NEW n \in 1..Len(lines), n \notin J
        PROVE  SumFunctionOnSet(q, J \cup {n}) = SumFunctionOnSet(q, J) + lines[n].quantity
    <2>1. \A i \in J \cup {n} : q[i] \in Int
      BY <1>1
    <2>2. SumFunctionOnSet(q, J \cup {n}) = q[n] + SumFunctionOnSet(q, J)
      BY <1>2, <1>8, <2>1, SumAdd
    <2>3. q[n] = lines[n].quantity /\ q[n] \in Nat
      BY <1>1
    <2> QED BY <1>5, <2>2, <2>3
  <1> QED BY <1>3, <1>5, <1>6, <1>7, <1>8

\* What the first n lines have of a product, and what the next one adds.
LEMMA PartFacts ==
    ASSUME NEW lines \in Seq(Line), NEW p, NEW n \in 0..Len(lines)
    PROVE  /\ Part(lines, n, p) \in Nat
           /\ n = 0 => Part(lines, n, p) = 0
           /\ n < Len(lines) => Part(lines, n + 1, p) = Part(lines, n, p) +
                  (IF lines[n + 1].product = p THEN lines[n + 1].quantity ELSE 0)
           /\ \A i \in 1..n : lines[i].product = p => Part(lines, n, p) > 0
           /\ n = Len(lines) => Part(lines, n, p) = OfProduct(lines, p)
  <1> DEFINE J == {i \in 1..n : lines[i].product = p}
             K == {i \in 1..(n + 1) : lines[i].product = p}
  <1>1. J \in SUBSET (1..Len(lines)) /\ n + 1 \notin J
    OBVIOUS
  <1>2. /\ Part(lines, n, p) = Quantity(lines, J)
        /\ Part(lines, n + 1, p) = Quantity(lines, K)
    BY DEF Part
  <1>3. n = 0 => J = {}
    OBVIOUS
  <1>4. K = IF lines[n + 1].product = p THEN J \cup {n + 1} ELSE J
    OBVIOUS
  <1>5. n = Len(lines) => OfProduct(lines, p) = Quantity(lines, J)
    <2>1. DOMAIN lines = 1..Len(lines)
      OBVIOUS
    <2> QED BY <2>1 DEF OfProduct
  <1>6. \A i \in 1..n : lines[i].product = p => J # {}
    OBVIOUS
  <1>7. n < Len(lines) => n + 1 \in 1..Len(lines)
    OBVIOUS
  <1> HIDE DEF J, K
  <1>8. /\ Quantity(lines, J) \in Nat
        /\ J = {} => Quantity(lines, J) = 0
        /\ J # {} => Quantity(lines, J) > 0
        /\ \A k \in 1..Len(lines) : k \notin J =>
               Quantity(lines, J \cup {k}) = Quantity(lines, J) + lines[k].quantity
    BY <1>1, QuantityFacts
  <1>9. n < Len(lines) => Quantity(lines, K) = Quantity(lines, J) +
            (IF lines[n + 1].product = p THEN lines[n + 1].quantity ELSE 0)
    BY <1>1, <1>4, <1>7, <1>8
  <1> QED BY <1>2, <1>3, <1>5, <1>6, <1>8, <1>9

\* The same of an option.
LEMMA PartOfFacts ==
    ASSUME NEW lines \in Seq(Line), NEW x, NEW n \in 0..Len(lines)
    PROVE  /\ PartOf(lines, n, x) \in Nat
           /\ (\A i \in 1..n : lines[i].option # x) => PartOf(lines, n, x) = 0
           /\ n < Len(lines) => PartOf(lines, n + 1, x) = PartOf(lines, n, x) +
                  (IF lines[n + 1].option = x THEN lines[n + 1].quantity ELSE 0)
           /\ n = Len(lines) => PartOf(lines, n, x) = OfOption(lines, x)
  <1> DEFINE J == {i \in 1..n : lines[i].option = x}
             K == {i \in 1..(n + 1) : lines[i].option = x}
  <1>1. J \in SUBSET (1..Len(lines)) /\ n + 1 \notin J
    OBVIOUS
  <1>2. /\ PartOf(lines, n, x) = Quantity(lines, J)
        /\ PartOf(lines, n + 1, x) = Quantity(lines, K)
    BY DEF PartOf
  <1>3. (\A i \in 1..n : lines[i].option # x) => J = {}
    OBVIOUS
  <1>4. K = IF lines[n + 1].option = x THEN J \cup {n + 1} ELSE J
    OBVIOUS
  <1>5. n = Len(lines) => OfOption(lines, x) = Quantity(lines, J)
    <2>1. DOMAIN lines = 1..Len(lines)
      OBVIOUS
    <2> QED BY <2>1 DEF OfOption
  <1>7. n < Len(lines) => n + 1 \in 1..Len(lines)
    OBVIOUS
  <1> HIDE DEF J, K
  <1>8. /\ Quantity(lines, J) \in Nat
        /\ J = {} => Quantity(lines, J) = 0
        /\ \A k \in 1..Len(lines) : k \notin J =>
               Quantity(lines, J \cup {k}) = Quantity(lines, J) + lines[k].quantity
    BY <1>1, QuantityFacts
  <1>9. n < Len(lines) => Quantity(lines, K) = Quantity(lines, J) +
            (IF lines[n + 1].option = x THEN lines[n + 1].quantity ELSE 0)
    BY <1>1, <1>4, <1>7, <1>8
  <1> QED BY <1>2, <1>3, <1>5, <1>8, <1>9

\* All the lines of an order.
LEMMA OfFacts ==
    ASSUME NEW lines \in Seq(Line), NEW p
    PROVE  OfProduct(lines, p) \in Nat /\ OfOption(lines, p) \in Nat
  <1>1. Len(lines) \in 0..Len(lines)
    OBVIOUS
  <1> QED BY <1>1, PartFacts, PartOfFacts

\* A sum over one thing more.
LEMMA OneMore ==
    ASSUME NEW A, IsFiniteSet(A), NEW o, o \notin A, NEW f, NEW g,
           \A x \in A : f[x] \in Int /\ g[x] = f[x], g[o] \in Int
    PROVE  SumFunctionOnSet(g, A \cup {o}) = SumFunctionOnSet(f, A) + g[o]
  <1>1. \A x \in A \cup {o} : g[x] \in Int
    OBVIOUS
  <1>2. SumFunctionOnSet(g, A \cup {o}) = g[o] + SumFunctionOnSet(g, A)
    BY <1>1, SumAdd
  <1>3. SumFunctionOnSet(f, A) = SumFunctionOnSet(g, A)
    BY SumSame
  <1>4. SumFunctionOnSet(f, A) \in Int
    BY SumType
  <1> QED BY <1>2, <1>3, <1>4

-----------------------------------------------------------------------------
(* Steps that only change a request                                        *)

\* A request that makes an order is a record with the order's fields.
LEMMA RequestForm ==
    /\ Nothing \in Requests /\ OrderRequests \subseteq Requests
    /\ \A r \in Requests : r.kind \in {"none", "order"} /\ (r.kind = "order" => r \in OrderRequests)
  BY DEF Requests, Nothing, OrderRequests

\* What the model calls taken is what the request holds.
LEMMA TakenIsHeld == ASSUME NEW c, NEW p PROVE Taken(c, p) = Held(req[c], p)
  BY DEF Taken, Held, Part, Asks

\* A request holds a natural number of every product, and none when it makes no order.
LEMMA HeldFacts ==
    ASSUME NEW r \in Requests, InOrder(r), NEW p
    PROVE  Held(r, p) \in Nat /\ (r.kind # "order" => Held(r, p) = 0)
  <1>1. CASE r.kind = "order"
    <2>1. r \in OrderRequests
      BY <1>1, RequestForm
    <2>2. r.lines \in Seq(Line) /\ r.taken \in Nat
      BY <2>1 DEF OrderRequests
    <2>3. Len(r.lines) \in Nat
      BY <2>2
    <2>4. r.taken \in 0..Len(r.lines)
      BY <1>1, <2>2, <2>3 DEF InOrder
    <2>5. Part(r.lines, r.taken, p) \in Nat
      BY <2>2, <2>4, PartFacts
    <2> QED BY <1>1, <2>5 DEF Held
  <1>2. CASE r.kind # "order"
    BY <1>2 DEF Held
  <1> QED BY <1>1, <1>2

\* A step that changes nothing but a request keeps what the request does not disturb.
LEMMA RequestStep ==
    ASSUME Inv, NEW c \in Clients, NEW r \in Requests, req' = [req EXCEPT ![c] = r],
           UNCHANGED <<outboxVars, goods, cart, uses, order, resize, billing, history>>,
           Sound(r),
           \A d \in Clients \ {c}, p \in Products : Held(r, p) = 0 \/ Held(req[d], p) = 0
    PROVE  Inv'
  <1>0. TypeOK /\ req \in [Clients -> Requests]
    BY DEF Inv, TypeOK
  <1>1. req' \in [Clients -> Requests] /\ req'[c] = r /\ \A d \in Clients \ {c} : req'[d] = req[d]
    BY <1>0
  <1>2. TypeOK'
    BY <1>0, <1>1 DEF TypeOK, outboxVars, goods, history, Outbox!TypeOK
  <1>3. UNCHANGED <<stock, package, option, overtaken, order, cart>>
    BY DEF goods, history
  <1>4. ASSUME NEW d \in Clients PROVE Sound(req[d])'
    <2>1. Sound(req'[d])
      BY <1>1 DEF Inv
    <2> QED BY <2>1, <1>3 DEF Sound, InOrder, Covered, ReadTrue
  <1>5. Apart'
    BY <1>1 DEF Inv, Apart
  <1>6. CartsOffered'
    BY <1>3 DEF Inv, CartsOffered
  <1>7. Accounts' /\ Billing'
    BY DEF Inv, Accounts, Billing, Placed, StockConserved, OptionsConserved, PackagesIssued,
           InvoicedWithMessage, Ordered, Drawn, goods, history, outboxVars
  <1> QED BY <1>2, <1>4, <1>5, <1>6, <1>7 DEF Inv

\* There is always enough for a request that has taken nothing.
LEMMA NothingHeld == ASSUME Inv, NEW r, \A p : Held(r, p) = 0 PROVE Covered(r)
  <1> SUFFICES ASSUME NEW p \in Products
               PROVE  /\ 0 =< stock[p]
                      /\ p \in Packages => package[p].sold + 0 =< package[p].total
    BY DEF Covered
  <1>1. stock[p] \in Nat
    BY DEF Inv, TypeOK
  <1>2. ASSUME p \in Packages PROVE package[p].sold + 0 =< package[p].total
    <2>1. package[p].sold \in Nat /\ package[p].sold =< package[p].total
      BY <1>2 DEF Inv, TypeOK, Accounts, PackagesIssued
    <2> QED BY <2>1
  <1> QED BY <1>1, <1>2

\* A request that ends takes nothing with it.
LEMMA RollbackStep == ASSUME Inv, NEW c \in Clients, Rollback(c) PROVE Inv'
  <1>1. /\ Nothing \in Requests /\ InOrder(Nothing) /\ ReadTrue(Nothing)
        /\ \A p : Held(Nothing, p) = 0
    BY RequestForm DEF Nothing, InOrder, ReadTrue, Held
  <1>2. Covered(Nothing)
    BY <1>1, NothingHeld
  <1>3. req' = [req EXCEPT ![c] = Nothing]
    BY DEF Rollback, Done
  <1> QED BY <1>1, <1>2, <1>3, RequestStep DEF Rollback, Sound

\* What a client's order is, as far as it is.
LEMMA OrderFacts ==
    ASSUME Inv, NEW c \in Clients, Asks(c, "order")
    PROVE  /\ req[c] \in OrderRequests /\ req[c].kind = "order" /\ req[c] \in Requests
           /\ req[c].lines \in Seq(Line) /\ Len(req[c].lines) \in Nat
           /\ req[c].taken \in 0..Len(req[c].lines) /\ req[c].drawn \in 0..Len(req[c].lines)
           /\ req[c].code \in BOOLEAN /\ req[c].seen \in Nat \cup {Unread}
           /\ req[c].left \in [Options -> Nat \cup {Unread}]
           /\ Sound(req[c])
  <1>1. req[c] \in Requests /\ req[c].kind = "order" /\ Sound(req[c])
    BY DEF Inv, TypeOK, Asks
  <1>2. req[c] \in OrderRequests
    BY <1>1, RequestForm
  <1>3. /\ req[c].lines \in Seq(Line) /\ req[c].taken \in Nat /\ req[c].drawn \in Nat
        /\ req[c].code \in BOOLEAN /\ req[c].seen \in Nat \cup {Unread}
        /\ req[c].left \in [Options -> Nat \cup {Unread}]
    BY <1>2 DEF OrderRequests
  <1> QED BY <1>1, <1>2, <1>3 DEF Sound, InOrder

\* A new request has taken nothing.
LEMMA BeginOrderStep == ASSUME Inv, NEW c \in Clients, BeginOrder(c) PROVE Inv'
  <1> DEFINE lines == cart[Who[c]].lines
             r == [kind |-> "order", lines |-> lines, code |-> cart[Who[c]].code, taken |-> 0,
                   drawn |-> 0, seen |-> Unread, left |-> [x \in Options |-> Unread]]
  <1>1. /\ lines \in Seq(Line) /\ cart[Who[c]].code \in BOOLEAN
        /\ \A i \in DOMAIN lines : Offered(lines[i])
    BY ShopAssumption DEF Inv, TypeOK, CartsOffered
  <1>2. r \in OrderRequests
    BY <1>1 DEF OrderRequests
  <1>3. req' = [req EXCEPT ![c] = r]
    BY DEF BeginOrder, Open
  <1>4. /\ r.kind = "order" /\ r.lines = lines /\ r.taken = 0 /\ r.drawn = 0 /\ r.seen = Unread
        /\ \A x \in Options : r.left[x] = Unread
    OBVIOUS
  <1> HIDE DEF lines, r
  <1>5. Len(lines) \in Nat /\ 0 \in 0..Len(lines)
    BY <1>1
  <1>6. \A p : Held(r, p) = 0
    BY <1>1, <1>4, <1>5, PartFacts DEF Held
  <1>7. InOrder(r) /\ ReadTrue(r)
    BY <1>1, <1>4, <1>5 DEF InOrder, ReadTrue
  <1>8. Covered(r)
    BY <1>6, NothingHeld
  <1> QED BY <1>2, <1>3, <1>6, <1>7, <1>8, RequestForm, RequestStep DEF BeginOrder, Sound

\* A transaction takes of a product no other has taken of, and no more than there is.
LEMMA TakeStockStep == ASSUME Inv, NEW c \in Clients, TakeStock(c) PROVE Inv'
  <1> DEFINE p == NextLine(c).product
             n == NextLine(c).quantity
             r == [req[c] EXCEPT !.taken = @ + 1]
  <1>0. Asks(c, "order") /\ ~AllTaken(c) /\ ~Locked(p, c)
    BY DEF TakeStock
  <1>1. CASE UNCHANGED stock /\ Rollback(c)
    BY <1>1, RollbackStep
  <1>2. CASE /\ req' = [req EXCEPT ![c].taken = @ + 1]
             /\ UNCHANGED <<outboxVars, goods, cart, uses, order, resize, billing, history>>
             /\ stock[p] - Taken(c, p) >= n
             /\ p \in Packages => package[p].sold + Taken(c, p) + n =< package[p].total
    <2>1. /\ req[c] \in OrderRequests /\ req[c].kind = "order"
          /\ req[c].lines \in Seq(Line) /\ Len(req[c].lines) \in Nat
          /\ req[c].taken \in 0..Len(req[c].lines) /\ req[c].drawn \in 0..Len(req[c].lines)
          /\ Sound(req[c])
      BY <1>0, OrderFacts
    <2>2. /\ r \in OrderRequests /\ r.kind = "order" /\ r.lines = req[c].lines
          /\ r.taken = req[c].taken + 1 /\ r.drawn = req[c].drawn /\ r.seen = req[c].seen
          /\ r.left = req[c].left
      BY <2>1 DEF OrderRequests
    <2>3. req' = [req EXCEPT ![c] = r]
      BY <1>2
    <2>4. req[c].taken < Len(req[c].lines)
      BY <1>0, <2>1 DEF AllTaken
    <2>5. p = req[c].lines[req[c].taken + 1].product /\ n = req[c].lines[req[c].taken + 1].quantity
      BY DEF NextLine
    <2>6. req[c].lines[req[c].taken + 1] \in Line
      BY <2>1, <2>4
    <2>7. p \in Products /\ n \in Nat
      BY <2>5, <2>6 DEF Line
    <2> HIDE DEF r, p, n
    <2>8. \A x : Held(r, x) = Held(req[c], x) + (IF p = x THEN n ELSE 0) /\ Held(req[c], x) \in Nat
      BY <2>1, <2>2, <2>4, <2>5, PartFacts DEF Held
    <2>9. InOrder(r)
      BY <2>1, <2>2, <2>4 DEF Sound, InOrder
    <2>10. ReadTrue(r)
      BY <2>1, <2>2 DEF Sound, ReadTrue
    <2>11. Covered(r)
      <3>1. Taken(c, p) = Held(req[c], p)
        BY TakenIsHeld
      <3>2. stock[p] \in Nat /\ p \in Packages => package[p].sold \in Nat /\ package[p].total \in Nat
        BY <2>7 DEF Inv, TypeOK
      <3>3. ASSUME NEW x \in Products
            PROVE  /\ Held(r, x) =< stock[x]
                   /\ x \in Packages => package[x].sold + Held(r, x) =< package[x].total
        <4>1. CASE x = p
          <5>1. stock[p] \in Nat
            BY <2>7 DEF Inv, TypeOK
          <5>2. Held(r, p) =< stock[p]
            BY <1>2, <2>7, <2>8, <3>1, <5>1
          <5>3. ASSUME p \in Packages PROVE package[p].sold + Held(r, p) =< package[p].total
            <6>1. package[p].sold \in Nat /\ package[p].total \in Nat
              BY <5>3 DEF Inv, TypeOK
            <6> QED BY <1>2, <2>7, <2>8, <3>1, <5>3, <6>1
          <5> QED BY <4>1, <5>2, <5>3
        <4>2. CASE x # p
          <5>1. Held(r, x) = Held(req[c], x)
            BY <2>8, <4>2
          <5> QED BY <2>1, <5>1 DEF Sound, Covered
        <4> QED BY <4>1, <4>2
      <3> QED BY <3>3 DEF Covered
    <2>12. ASSUME NEW d \in Clients \ {c}, NEW x \in Products
           PROVE  Held(r, x) = 0 \/ Held(req[d], x) = 0
      <3>1. CASE x = p
        <4>1. ~(Taken(d, p) > 0)
          BY <1>0 DEF Locked
        <4>2. Taken(d, p) = Held(req[d], p)
          BY TakenIsHeld
        <4>3. Held(req[d], p) \in Nat
          BY HeldFacts DEF Inv, TypeOK, Sound
        <4> QED BY <3>1, <4>1, <4>2, <4>3
      <3>2. CASE x # p
        <4>1. Held(r, x) = Held(req[c], x)
          BY <2>8, <3>2
        <4> QED BY <4>1 DEF Inv, Apart
      <3> QED BY <3>1, <3>2
    <2>13. r \in Requests
      BY <2>2, RequestForm
    <2> QED BY <1>2, <2>3, <2>9, <2>10, <2>11, <2>12, <2>13, RequestStep DEF Sound
  <1>3. Rollback(c) => UNCHANGED stock
    BY DEF Rollback, goods
  <1> QED BY <1>1, <1>2, <1>3 DEF TakeStock

\* The option of the next line is read: nothing else of it was, or what was written is there.
LEMMA ReadOptionStep == ASSUME Inv, NEW c \in Clients, ReadOption(c) PROVE Inv'
  <1> DEFINE l == req[c].lines[req[c].drawn + 1]
             x == l.option
  <1>0. /\ Asks(c, "order") /\ AllTaken(c) /\ ~AllDrawn(c) /\ req[c].seen = Unread
        /\ UNCHANGED <<outboxVars, goods, cart, uses, order, resize, billing, history>>
    BY DEF ReadOption
  <1>1. /\ req[c] \in OrderRequests /\ req[c].kind = "order"
        /\ req[c].lines \in Seq(Line) /\ Len(req[c].lines) \in Nat
        /\ req[c].taken \in 0..Len(req[c].lines) /\ req[c].drawn \in 0..Len(req[c].lines)
        /\ req[c].left \in [Options -> Nat \cup {Unread}]
        /\ Sound(req[c])
    BY <1>0, OrderFacts
  <1>2. req[c].drawn < Len(req[c].lines) /\ req[c].taken = Len(req[c].lines)
    BY <1>0, <1>1 DEF AllDrawn, AllTaken
  <1>3. l \in Line
    BY <1>1, <1>2
  <1>4. x \in Options \cup {NoOption}
    BY <1>3 DEF Line
  <1>5. ASSUME NEW r \in OrderRequests, req' = [req EXCEPT ![c] = r], r.taken = req[c].taken,
               r.lines = req[c].lines, InOrder(r), ReadTrue(r)
        PROVE  Inv'
    <2>1. r.kind = "order" /\ r \in Requests
      BY RequestForm DEF OrderRequests
    <2>2. \A p : Held(r, p) = Held(req[c], p)
      BY <1>1, <1>5, <2>1 DEF Held
    <2>3. Covered(r)
      BY <1>1, <2>2 DEF Sound, Covered
    <2>4. \A d \in Clients \ {c}, p \in Products : Held(r, p) = 0 \/ Held(req[d], p) = 0
      BY <2>2 DEF Inv, Apart
    <2> QED BY <1>0, <1>5, <2>1, <2>3, <2>4, RequestStep DEF Sound
  <1>6. CASE x = NoOption
    <2> DEFINE r == [req[c] EXCEPT !.drawn = @ + 1]
    <2>1. req' = [req EXCEPT ![c] = r]
      BY <1>6 DEF ReadOption
    <2>2. /\ r \in OrderRequests /\ r.kind = "order" /\ r.lines = req[c].lines
          /\ r.taken = req[c].taken /\ r.drawn = req[c].drawn + 1 /\ r.seen = Unread
          /\ r.left = req[c].left
      BY <1>0, <1>1 DEF OrderRequests
    <2> HIDE DEF r
    <2>3. ASSUME NEW y \in Options
          PROVE  /\ PartOf(r.lines, r.drawn, y) = PartOf(req[c].lines, req[c].drawn, y)
                 /\ (\E i \in 1..r.drawn : r.lines[i].option = y)
                       <=> \E i \in 1..req[c].drawn : req[c].lines[i].option = y
      <3>1. l.option # y
        BY <1>6, ShopAssumption
      <3>2. PartOf(req[c].lines, req[c].drawn + 1, y) = PartOf(req[c].lines, req[c].drawn, y)
        <4>1. PartOf(req[c].lines, req[c].drawn, y) \in Nat
          BY <1>1, PartOfFacts
        <4>2. PartOf(req[c].lines, req[c].drawn + 1, y) = PartOf(req[c].lines, req[c].drawn, y) + 0
          BY <1>1, <1>2, <3>1, PartOfFacts
        <4> QED BY <4>1, <4>2
      <3>3. \A i \in 1..(req[c].drawn + 1) : i \in 1..req[c].drawn \/ i = req[c].drawn + 1
        BY <1>1
      <3> QED BY <1>1, <2>2, <3>1, <3>2, <3>3
    <2>4. InOrder(r)
      BY <1>1, <1>2, <2>2, <2>3 DEF Sound, InOrder
    <2>5. ReadTrue(r)
      BY <1>1, <2>2, <2>3 DEF Sound, ReadTrue
    <2> QED BY <1>5, <2>1, <2>2, <2>4, <2>5
  <1>7. CASE x # NoOption
    <2> DEFINE s == IF req[c].left[x] # Unread THEN req[c].left[x] ELSE option[x]
               r == [req[c] EXCEPT !.seen = s]
    <2>1. req' = [req EXCEPT ![c] = r]
      BY <1>7 DEF ReadOption
    <2>2. x \in Options /\ s \in Nat
      BY <1>1, <1>4, <1>7 DEF Inv, TypeOK
    <2>3. /\ r \in OrderRequests /\ r.kind = "order" /\ r.lines = req[c].lines
          /\ r.taken = req[c].taken /\ r.drawn = req[c].drawn /\ r.seen = s
          /\ r.left = req[c].left
      BY <1>1, <2>2 DEF OrderRequests
    <2>4. InOrder(r)
      BY <1>1, <1>2, <1>7, <2>3 DEF Sound, InOrder
    <2>5. ASSUME x \notin overtaken PROVE s = option[x] - PartOf(req[c].lines, req[c].drawn, x)
      <3>1. CASE req[c].left[x] # Unread
        BY <1>1, <2>2, <2>5, <3>1 DEF Sound, ReadTrue
      <3>2. CASE req[c].left[x] = Unread
        <4>1. \A i \in 1..req[c].drawn : req[c].lines[i].option # x
          BY <1>1, <2>2, <3>2 DEF Sound, InOrder
        <4>2. PartOf(req[c].lines, req[c].drawn, x) = 0
          BY <1>1, <4>1, PartOfFacts
        <4> QED BY <2>2, <3>2, <4>2
      <3> QED BY <3>1, <3>2
    <2> HIDE DEF s, r
    <2>6. ReadTrue(r)
      BY <1>1, <2>3, <2>5 DEF Sound, ReadTrue
    <2> QED BY <1>5, <2>1, <2>3, <2>4, <2>6
  <1> QED BY <1>6, <1>7

\* The option is written as it was read, less what the line takes.
LEMMA WriteOptionStep == ASSUME Inv, NEW c \in Clients, WriteOption(c) PROVE Inv'
  <1> DEFINE l == req[c].lines[req[c].drawn + 1]
             x == l.option
             s == req[c].seen - l.quantity
             left == [req[c].left EXCEPT ![x] = s]
             r == [req[c] EXCEPT !.drawn = @ + 1, !.seen = Unread, !.left = left]
  <1>0. Asks(c, "order") /\ req[c].seen # Unread
    BY DEF WriteOption
  <1>1. /\ req[c] \in OrderRequests /\ req[c].kind = "order"
        /\ req[c].lines \in Seq(Line) /\ Len(req[c].lines) \in Nat
        /\ req[c].taken \in 0..Len(req[c].lines) /\ req[c].drawn \in 0..Len(req[c].lines)
        /\ req[c].left \in [Options -> Nat \cup {Unread}] /\ req[c].seen \in Nat \cup {Unread}
        /\ Sound(req[c])
    BY <1>0, OrderFacts
  <1>2. /\ req[c].drawn < Len(req[c].lines) /\ req[c].taken = Len(req[c].lines)
        /\ x # NoOption
    BY <1>0, <1>1 DEF Sound, InOrder
  <1>3. l \in Line
    BY <1>1, <1>2
  <1>4. x \in Options /\ l.quantity \in Nat
    BY <1>2, <1>3 DEF Line
  <1>5. CASE req[c].seen < l.quantity
    BY <1>5, RollbackStep DEF WriteOption
  <1>6. CASE ~(req[c].seen < l.quantity)
    <2>1. /\ req' = [req EXCEPT ![c].drawn = @ + 1, ![c].seen = Unread, ![c].left[x] = s]
          /\ UNCHANGED <<outboxVars, goods, cart, uses, order, resize, billing, history>>
      BY <1>6 DEF WriteOption
    <2>2. req' = [req EXCEPT ![c] = r]
      BY <2>1
    <2>3. s \in Nat
      BY <1>0, <1>1, <1>4, <1>6 DEF Unread
    <2>4. /\ r \in OrderRequests /\ r.kind = "order" /\ r.lines = req[c].lines
          /\ r.taken = req[c].taken /\ r.drawn = req[c].drawn + 1 /\ r.seen = Unread
          /\ r.left = left
      <3>1. left \in [Options -> Nat \cup {Unread}]
        BY <1>1, <1>4, <2>3
      <3> HIDE DEF left, s
      <3> DEFINE r1 == [req[c] EXCEPT !.drawn = @ + 1]
                 r2 == [r1 EXCEPT !.seen = Unread]
      <3>2. /\ r1 \in OrderRequests /\ r1.lines = req[c].lines /\ r1.taken = req[c].taken
            /\ r1.drawn = req[c].drawn + 1
        BY <1>1 DEF OrderRequests
      <3>3. r = [r2 EXCEPT !.left = left]
        OBVIOUS
      <3> HIDE DEF r1, r
      <3>4. /\ r2 \in OrderRequests /\ r2.lines = r1.lines /\ r2.taken = r1.taken
            /\ r2.drawn = r1.drawn /\ r2.seen = Unread
        BY <3>2 DEF OrderRequests
      <3> HIDE DEF r2
      <3>5. /\ r \in OrderRequests /\ r.lines = r2.lines /\ r.taken = r2.taken
            /\ r.drawn = r2.drawn /\ r.seen = r2.seen /\ r.left = left /\ r.kind = "order"
        BY <3>1, <3>3, <3>4 DEF OrderRequests
      <3> QED BY <3>2, <3>4, <3>5
    <2> HIDE DEF r
    <2>5. r.left[x] = s /\ s # Unread /\ \A y \in Options \ {x} : r.left[y] = req[c].left[y]
      BY <1>1, <1>4, <2>3, <2>4 DEF Unread
    <2>6. \A i \in 1..(req[c].drawn + 1) : i \in 1..req[c].drawn \/ i = req[c].drawn + 1
      BY <1>1
    <2>7. \A y \in Options : PartOf(r.lines, r.drawn, y) =
              PartOf(req[c].lines, req[c].drawn, y) + (IF y = x THEN l.quantity ELSE 0)
      BY <1>1, <1>2, <2>4, PartOfFacts
    <2>8. \A y \in Options : PartOf(req[c].lines, req[c].drawn, y) \in Nat
      BY <1>1, PartOfFacts
    <2>9. InOrder(r)
      <3>1. ASSUME NEW y \in Options
            PROVE  r.left[y] # Unread <=> \E i \in 1..r.drawn : r.lines[i].option = y
        <4>1. CASE y = x
          <5>1. req[c].drawn + 1 \in 1..r.drawn
            BY <1>1, <2>4
          <5> QED BY <2>4, <2>5, <4>1, <5>1
        <4>2. CASE y # x
          <5>1. req[c].left[y] # Unread <=> \E i \in 1..req[c].drawn : req[c].lines[i].option = y
            BY <1>1 DEF Sound, InOrder
          <5>2. \A i \in 1..req[c].drawn : i \in 1..(req[c].drawn + 1)
            BY <1>1
          <5> QED BY <2>4, <2>5, <2>6, <4>2, <5>1, <5>2
        <4> QED BY <4>1, <4>2
      <3> QED BY <1>1, <1>2, <2>4, <3>1 DEF Sound, InOrder
    <2>10. ReadTrue(r)
      <3>1. ASSUME NEW y \in Options \ overtaken, r.left[y] # Unread
            PROVE  r.left[y] = option[y] - PartOf(r.lines, r.drawn, y)
        <4>0. option[y] \in Nat
          BY DEF Inv, TypeOK
        <4>1. CASE y = x
          <5>1. req[c].seen = option[x] - PartOf(req[c].lines, req[c].drawn, x)
            BY <1>0, <1>1, <3>1, <4>1 DEF Sound, ReadTrue
          <5>2. PartOf(r.lines, r.drawn, x) = PartOf(req[c].lines, req[c].drawn, x) + l.quantity
            BY <2>7, <1>4
          <5>3. PartOf(req[c].lines, req[c].drawn, x) \in Nat
            BY <1>4, <2>8
          <5> QED BY <1>4, <2>5, <4>0, <4>1, <5>1, <5>2, <5>3
        <4>2. CASE y # x
          <5>1. r.left[y] = req[c].left[y]
            BY <2>5, <4>2
          <5>2. req[c].left[y] = option[y] - PartOf(req[c].lines, req[c].drawn, y)
            BY <1>1, <3>1, <5>1 DEF Sound, ReadTrue
          <5>3. PartOf(r.lines, r.drawn, y) = PartOf(req[c].lines, req[c].drawn, y) + 0
            BY <2>7, <4>2
          <5> QED BY <2>8, <5>1, <5>2, <5>3
        <4> QED BY <4>1, <4>2
      <3> QED BY <2>4, <3>1 DEF ReadTrue
    <2>11. r \in Requests
      BY <2>4, RequestForm
    <2>12. \A p : Held(r, p) = Held(req[c], p)
      BY <1>1, <2>4 DEF Held
    <2>13. Covered(r)
      BY <1>1, <2>12 DEF Sound, Covered
    <2>14. \A d \in Clients \ {c}, p \in Products : Held(r, p) = 0 \/ Held(req[d], p) = 0
      BY <2>12 DEF Inv, Apart
    <2> QED BY <2>1, <2>2, <2>9, <2>10, <2>11, <2>13, <2>14, RequestStep DEF Sound
  <1> QED BY <1>5, <1>6
-----------------------------------------------------------------------------
(* An order is committed                                                   *)

\* Two transactions that have read an option have both taken of its product.
LEMMA SameProduct ==
    ASSUME NEW r \in OrderRequests, InOrder(r), NEW i \in 1..Len(r.lines), r.taken = Len(r.lines),
           NEW q \in OrderRequests, InOrder(q), NEW j \in 1..Len(q.lines), q.taken = Len(q.lines),
           r.lines[i].option = q.lines[j].option, r.lines[i].option \in Options
    PROVE  \E p \in Products : Held(r, p) # 0 /\ Held(q, p) # 0
  <1>1. /\ r.kind = "order" /\ r.lines \in Seq(Line) /\ q.kind = "order" /\ q.lines \in Seq(Line)
    BY DEF OrderRequests
  <1>2. DOMAIN r.lines = 1..Len(r.lines) /\ DOMAIN q.lines = 1..Len(q.lines)
    BY <1>1
  <1>3. PICK k \in Lines : k.product = r.lines[i].product /\ k.option = r.lines[i].option
    BY <1>1, <1>2 DEF InOrder, Offered
  <1>4. PICK l \in Lines : l.product = q.lines[j].product /\ l.option = q.lines[j].option
    BY <1>1, <1>2 DEF InOrder, Offered
  <1>5. k.product = l.product
    BY <1>3, <1>4, ShopAssumption
  <1>6. r.lines[i].product \in Products
    <2>1. r.lines[i] \in Line
      BY <1>1
    <2> QED BY <2>1 DEF Line
  <1> DEFINE p == r.lines[i].product
  <1>7. Len(r.lines) \in 0..Len(r.lines) /\ Len(q.lines) \in 0..Len(q.lines)
    BY <1>1
  <1>8. Part(r.lines, r.taken, p) > 0 /\ Part(q.lines, q.taken, p) > 0
    BY <1>1, <1>3, <1>4, <1>5, <1>7, PartFacts
  <1>9. Held(r, p) # 0 /\ Held(q, p) # 0
    BY <1>1, <1>7, <1>8, PartFacts DEF Held
  <1> QED BY <1>6, <1>9

\* What an order takes of a product comes off the stock and is counted as sold.
LEMMA CommitGoods ==
    ASSUME Inv, NEW c \in Clients, NEW o \in Orders, CommitOrder(c, o)
    PROVE  /\ req[c].lines \in Seq(Line)
           /\ \A p : Held(req[c], p) = OfProduct(req[c].lines, p)
           /\ \A p \in Products : /\ stock'[p] = stock[p] - OfProduct(req[c].lines, p)
                                  /\ stock'[p] \in Nat
           /\ \A x \in Options :
                  /\ option'[x] \in Nat
                  /\ req[c].left[x] = Unread => option'[x] = option[x] /\ OfOption(req[c].lines, x) = 0
                  /\ req[c].left[x] # Unread /\ x \notin overtaken =>
                         option'[x] = option[x] - OfOption(req[c].lines, x)
           /\ \A p \in Packages :
                  /\ package'[p].sold = package[p].sold + OfProduct(req[c].lines, p)
                  /\ package'[p].total = package[p].total
                  /\ package'[p].sold =< package'[p].total
  <1>0. Asks(c, "order") /\ AllTaken(c) /\ AllDrawn(c)
    BY DEF CommitOrder
  <1>1. /\ req[c] \in OrderRequests /\ req[c].kind = "order"
        /\ req[c].lines \in Seq(Line) /\ Len(req[c].lines) \in Nat
        /\ req[c].taken \in 0..Len(req[c].lines) /\ req[c].drawn \in 0..Len(req[c].lines)
        /\ req[c].left \in [Options -> Nat \cup {Unread}]
        /\ Sound(req[c])
    BY <1>0, OrderFacts
  <1>2. req[c].taken = Len(req[c].lines) /\ req[c].drawn = Len(req[c].lines)
    BY <1>0 DEF AllTaken, AllDrawn
  <1>3. \A p : Held(req[c], p) = OfProduct(req[c].lines, p)
    BY <1>1, <1>2, PartFacts DEF Held
  <1>4. \A x : PartOf(req[c].lines, req[c].drawn, x) = OfOption(req[c].lines, x)
    BY <1>1, <1>2, PartOfFacts
  <1>5. /\ stock' = [p \in Products |-> stock[p] - OfProduct(req[c].lines, p)]
        /\ option' = [x \in Options |-> IF req[c].left[x] = Unread THEN option[x]
                                                                  ELSE req[c].left[x]]
        /\ package' = [p \in Packages |-> [package[p] EXCEPT !.sold = @ + OfProduct(req[c].lines, p)]]
    BY DEF CommitOrder
  <1>6. /\ stock \in [Products -> Nat] /\ option \in [Options -> Nat]
        /\ package \in [Packages -> [total : Nat, sold : Nat]]
    BY DEF Inv, TypeOK
  <1>7. ASSUME NEW p \in Products
        PROVE  stock'[p] = stock[p] - OfProduct(req[c].lines, p) /\ stock'[p] \in Nat
    <2>1. OfProduct(req[c].lines, p) \in Nat
      BY <1>1, OfFacts
    <2>2. OfProduct(req[c].lines, p) =< stock[p]
      BY <1>1, <1>3 DEF Sound, Covered
    <2> QED BY <1>5, <1>6, <2>1, <2>2
  <1>8. ASSUME NEW x \in Options
        PROVE  /\ option'[x] \in Nat
               /\ req[c].left[x] = Unread => option'[x] = option[x] /\ OfOption(req[c].lines, x) = 0
               /\ req[c].left[x] # Unread /\ x \notin overtaken =>
                      option'[x] = option[x] - OfOption(req[c].lines, x)
    <2>1. option'[x] = IF req[c].left[x] = Unread THEN option[x] ELSE req[c].left[x]
      BY <1>5
    <2>2. option'[x] \in Nat
      BY <1>1, <1>6, <2>1
    <2>3. ASSUME req[c].left[x] = Unread PROVE OfOption(req[c].lines, x) = 0
      <3>1. \A i \in 1..req[c].drawn : req[c].lines[i].option # x
        BY <1>1, <2>3 DEF Sound, InOrder
      <3>2. PartOf(req[c].lines, req[c].drawn, x) = 0
        BY <1>1, <3>1, PartOfFacts
      <3> QED BY <1>4, <3>2
    <2>4. ASSUME req[c].left[x] # Unread, x \notin overtaken
          PROVE  option'[x] = option[x] - OfOption(req[c].lines, x)
      <3>1. req[c].left[x] = option[x] - PartOf(req[c].lines, req[c].drawn, x)
        BY <1>1, <2>4 DEF Sound, ReadTrue
      <3> QED BY <1>4, <2>1, <2>4, <3>1
    <2> QED BY <2>1, <2>2, <2>3, <2>4
  <1>9. ASSUME NEW p \in Packages
        PROVE  /\ package'[p].sold = package[p].sold + OfProduct(req[c].lines, p)
               /\ package'[p].total = package[p].total
               /\ package'[p].sold =< package'[p].total
    <2>1. p \in Products
      BY ShopAssumption
    <2>2. package[p].sold + OfProduct(req[c].lines, p) =< package[p].total
      BY <1>1, <1>3, <2>1 DEF Sound, Covered
    <2>3. package'[p] = [package[p] EXCEPT !.sold = @ + OfProduct(req[c].lines, p)]
      BY <1>5
    <2>4. package[p] \in [total : Nat, sold : Nat]
      BY <1>6
    <2> QED BY <2>2, <2>3, <2>4
  <1> QED BY <1>1, <1>3, <1>7, <1>8, <1>9

\* Transactions that stay are as sound as they were: they hold other products.
LEMMA CommitKeepsOthers ==
    ASSUME Inv, NEW c \in Clients, NEW o \in Orders, CommitOrder(c, o), NEW d \in Clients \ {c}
    PROVE  Sound(req[d])'
  <1>1. /\ req[c].lines \in Seq(Line)
        /\ \A p : Held(req[c], p) = OfProduct(req[c].lines, p)
        /\ \A p \in Products : /\ stock'[p] = stock[p] - OfProduct(req[c].lines, p)
                               /\ stock'[p] \in Nat
        /\ \A x \in Options : req[c].left[x] = Unread => option'[x] = option[x]
        /\ \A p \in Packages :
               /\ package'[p].sold = package[p].sold + OfProduct(req[c].lines, p)
               /\ package'[p].total = package[p].total
               /\ package'[p].sold =< package'[p].total
    BY CommitGoods
  <1>2. req'[d] = req[d] /\ overtaken' = overtaken
    BY DEF CommitOrder, Done, Inv, TypeOK, history
  <1>3. req[d] \in Requests /\ Sound(req[d])
    BY DEF Inv, TypeOK
  <1>4. \A p \in Products : Held(req[c], p) = 0 \/ Held(req[d], p) = 0
    BY DEF Inv, Apart
  <1>5. /\ stock \in [Products -> Nat]
        /\ package \in [Packages -> [total : Nat, sold : Nat]]
    BY DEF Inv, TypeOK
  <1>6. ASSUME NEW p \in Products PROVE Held(req[d], p) =< stock'[p]
    <2>1. Held(req[d], p) =< stock[p] /\ Held(req[d], p) \in Nat
      BY <1>3, HeldFacts DEF Sound, Covered
    <2>2. CASE Held(req[d], p) = 0
      BY <1>1, <2>2
    <2>3. CASE Held(req[c], p) = 0
      BY <1>1, <1>5, <2>1, <2>3
    <2> QED BY <1>4, <2>2, <2>3
  <1>7. ASSUME NEW p \in Packages PROVE package'[p].sold + Held(req[d], p) =< package'[p].total
    <2>0. p \in Products
      BY ShopAssumption
    <2>1. package[p].sold + Held(req[d], p) =< package[p].total /\ Held(req[d], p) \in Nat
      BY <1>3, <2>0, HeldFacts DEF Sound, Covered
    <2>2. package[p].sold \in Nat /\ package[p].total \in Nat
      BY <1>5
    <2>3. package'[p].sold \in Nat
      BY <1>1, <2>2, OfFacts
    <2>4. CASE Held(req[d], p) = 0
      <3>1. package'[p].sold + 0 =< package'[p].total
        BY <1>1, <2>3
      <3> QED BY <2>4, <3>1
    <2>5. CASE Held(req[c], p) = 0
      <3>1. package'[p].sold = package[p].sold + 0
        BY <1>1, <2>5
      <3> QED BY <1>1, <2>1, <2>2, <3>1
    <2> QED BY <1>4, <2>0, <2>4, <2>5
  <1>8. Covered(req[d])'
    BY <1>2, <1>6, <1>7 DEF Covered
  <1>9. InOrder(req[d])'
    BY <1>2, <1>3 DEF Sound, InOrder
  <1>10. ReadTrue(req[d])'
    <2> DEFINE Reads(x) == \/ req[d].left[x] # Unread
                           \/ req[d].seen # Unread /\ req[d].lines[req[d].drawn + 1].option = x
    <2> HIDE DEF Reads
    <2>1. ASSUME req[d].kind = "order", NEW x \in Options \ overtaken, Reads(x)
          PROVE  option'[x] = option[x]
      <3>2. SUFFICES ASSUME req[c].left[x] # Unread PROVE FALSE
        BY <1>1
      <3>3. /\ req[d] \in OrderRequests /\ Len(req[d].lines) \in Nat
            /\ req[d].drawn \in 0..Len(req[d].lines)
        BY <2>1, OrderFacts DEF Asks
      <3>4. Asks(c, "order")
        BY DEF CommitOrder
      <3>5. /\ req[c] \in OrderRequests /\ req[c].kind = "order" /\ Sound(req[c])
            /\ Len(req[c].lines) \in Nat /\ req[c].drawn \in 0..Len(req[c].lines)
        BY <3>4, OrderFacts
      <3>6. PICK i \in 1..req[c].drawn : req[c].lines[i].option = x
        BY <3>2, <3>5 DEF Sound, InOrder
      <3>7. req[c].taken = Len(req[c].lines) /\ i \in 1..Len(req[c].lines)
        BY <3>5, <3>6 DEF Sound, InOrder
      <3>8. req[d].taken = Len(req[d].lines)
            /\ \E j \in 1..Len(req[d].lines) : req[d].lines[j].option = x
        <4>1. CASE req[d].left[x] # Unread
          <5>1. PICK j \in 1..req[d].drawn : req[d].lines[j].option = x
            BY <1>3, <2>1, <4>1 DEF Sound, InOrder
          <5>2. j \in 1..Len(req[d].lines) /\ req[d].drawn > 0
            BY <3>3
          <5> QED BY <1>3, <2>1, <5>1, <5>2 DEF Sound, InOrder
        <4>2. CASE req[d].seen # Unread /\ req[d].lines[req[d].drawn + 1].option = x
          <5>1. req[d].drawn < Len(req[d].lines) /\ req[d].taken = Len(req[d].lines)
            BY <1>3, <2>1, <4>2 DEF Sound, InOrder
          <5>2. req[d].drawn + 1 \in 1..Len(req[d].lines)
            BY <3>3, <5>1
          <5> QED BY <4>2, <5>1, <5>2
        <4> QED BY <2>1, <4>1, <4>2 DEF Reads
      <3>9. PICK j \in 1..Len(req[d].lines) : req[d].lines[j].option = x
        BY <3>8
      <3>10. InOrder(req[c]) /\ InOrder(req[d])
        BY <1>3, <3>5 DEF Sound
      <3>11. \E p \in Products : Held(req[c], p) # 0 /\ Held(req[d], p) # 0
        BY <3>3, <3>5, <3>6, <3>7, <3>8, <3>9, <3>10, SameProduct
      <3> QED BY <1>4, <3>11
    <2>2. ReadTrue(req[d])
      BY <1>3 DEF Sound
    <2> DEFINE q == req[d]
    <2>3. ASSUME q.kind = "order", NEW x \in Options \ overtaken
          PROVE  /\ q.left[x] # Unread => q.left[x] = option'[x] - PartOf(q.lines, q.drawn, x)
                 /\ q.seen # Unread /\ q.lines[q.drawn + 1].option = x
                        => q.seen = option'[x] - PartOf(q.lines, q.drawn, x)
      <3>1. ASSUME q.left[x] # Unread
            PROVE  q.left[x] = option'[x] - PartOf(q.lines, q.drawn, x)
        <4>0. req[d].kind = "order" /\ Reads(x)
          BY <2>3, <3>1 DEF Reads
        <4>1. option'[x] = option[x]
          BY <2>1, <4>0
        <4>2. q.left[x] = option[x] - PartOf(q.lines, q.drawn, x)
          BY <2>2, <2>3, <3>1 DEF ReadTrue
        <4> QED BY <4>1, <4>2
      <3>2. ASSUME q.seen # Unread /\ q.lines[q.drawn + 1].option = x
            PROVE  q.seen = option'[x] - PartOf(q.lines, q.drawn, x)
        <4>0. req[d].kind = "order" /\ Reads(x)
          BY <2>3, <3>2 DEF Reads
        <4>1. option'[x] = option[x]
          BY <2>1, <4>0
        <4>2. q.seen = option[x] - PartOf(q.lines, q.drawn, x)
          BY <2>2, <2>3, <3>2 DEF ReadTrue
        <4> QED BY <4>1, <4>2
      <3> QED BY <3>1, <3>2
    <2>4. req'[d] = q
      BY <1>2
    <2> HIDE DEF q
    <2> QED BY <1>2, <2>3, <2>4 DEF ReadTrue
  <1> QED BY <1>8, <1>9, <1>10 DEF Sound

\* The orders placed are those before and the new one.
LEMMA CommitRows ==
    ASSUME Inv, NEW c \in Clients, NEW o \in Orders, CommitOrder(c, o)
    PROVE  /\ o \in Orders \ Placed /\ Placed' = Placed \cup {o}
           /\ order' \in [Orders -> {NoOrder} \cup OrderRows]
           /\ order'[o].lines = req[c].lines /\ ~order'[o].invoiced
           /\ \A q \in Placed : order'[q] = order[q]
  <1> DEFINE row == [status |-> "PENDING", owner |-> Who[c], lines |-> req[c].lines,
                     code |-> req[c].code, invoiced |-> FALSE]
  <1>1. order' = [order EXCEPT ![o] = row] /\ order[o] = NoOrder
    BY DEF CommitOrder
  <1>2. order \in [Orders -> {NoOrder} \cup OrderRows]
    BY DEF Inv, TypeOK, OrderRows
  <1>3. row \in OrderRows
    <2>1. Asks(c, "order")
      BY DEF CommitOrder
    <2>2. req[c].lines \in Seq(Line) /\ req[c].code \in BOOLEAN /\ Who[c] \in Members
      BY <2>1, OrderFacts, ShopAssumption
    <2> QED BY <2>2 DEF OrderRows, Statuses
  <1>4. row # NoOrder
    <2>1. row.status # NoOrder.status
      BY DEF NoOrder
    <2> QED BY <2>1
  <1>5. row.lines = req[c].lines /\ ~row.invoiced
    OBVIOUS
  <1> HIDE DEF row
  <1> QED BY <1>1, <1>2, <1>3, <1>4, <1>5 DEF Placed

\* What is ordered of a product, and drawn of an option, is a number.
LEMMA RowFacts ==
    ASSUME Inv, NEW q \in Placed
    PROVE  /\ order[q] \in OrderRows
           /\ \A x : OfProduct(order[q].lines, x) \in Int /\ OfOption(order[q].lines, x) \in Int
  <1>1. order[q] \in OrderRows
    BY DEF Inv, TypeOK, OrderRows, Placed
  <1>2. order[q].lines \in Seq(Line)
    BY <1>1 DEF OrderRows
  <1> QED BY <1>1, <1>2, OfFacts

\* What is ordered and drawn grows by the lines of the order.
LEMMA CommitSums ==
    ASSUME Inv, NEW c \in Clients, NEW o \in Orders, CommitOrder(c, o)
    PROVE  /\ IsFiniteSet(Placed')
           /\ \A x : Ordered(x)' = Ordered(x) + OfProduct(req[c].lines, x)
           /\ \A x : Drawn(x)' = Drawn(x) + OfOption(req[c].lines, x)
           /\ \A x : Ordered(x) \in Int /\ Drawn(x) \in Int
  <1>1. /\ o \in Orders \ Placed /\ Placed' = Placed \cup {o}
        /\ order'[o].lines = req[c].lines
        /\ \A q \in Placed : order'[q] = order[q]
    BY CommitRows
  <1>2. IsFiniteSet(Placed)
    BY DEF Inv, Accounts
  <1>3. IsFiniteSet(Placed')
    BY <1>1, <1>2, FS_AddElement
  <1>4. req[c].lines \in Seq(Line)
    BY CommitGoods
  <1>5. \A q \in Placed : \A x : OfProduct(order[q].lines, x) \in Int
                                  /\ OfOption(order[q].lines, x) \in Int
    BY RowFacts
  <1>6. ASSUME NEW x
        PROVE  Ordered(x)' = Ordered(x) + OfProduct(req[c].lines, x) /\ Ordered(x) \in Int
    <2> DEFINE f == [q \in Placed |-> OfProduct(order[q].lines, x)]
               g == [q \in Placed' |-> OfProduct(order'[q].lines, x)]
               A == Placed
    <2>1. Ordered(x) = SumFunctionOnSet(f, A)
      BY DEF Ordered
    <2>2. Ordered(x)' = SumFunctionOnSet(g, Placed')
      BY DEF Ordered
    <2>3. Placed' = A \cup {o} /\ IsFiniteSet(A) /\ o \notin A
      BY <1>1, <1>2
    <2>4. g[o] = OfProduct(req[c].lines, x) /\ g[o] \in Int
      BY <1>1, <1>4, OfFacts
    <2>5. \A q \in A : f[q] \in Int /\ g[q] = f[q]
      BY <1>1, <1>5
    <2> HIDE DEF f, g, A
    <2>6. SumFunctionOnSet(g, A \cup {o}) = SumFunctionOnSet(f, A) + g[o]
      <3>1. IsFiniteSet(A) /\ o \notin A /\ g[o] \in Int
        BY <2>3, <2>4
      <3> QED BY <2>5, <3>1, OneMore
    <2>7. SumFunctionOnSet(f, A) \in Int
      BY <2>3, <2>5, SumType
    <2> QED BY <2>1, <2>2, <2>3, <2>4, <2>6, <2>7
  <1>7. ASSUME NEW x
        PROVE  Drawn(x)' = Drawn(x) + OfOption(req[c].lines, x) /\ Drawn(x) \in Int
    <2> DEFINE f == [q \in Placed |-> OfOption(order[q].lines, x)]
               g == [q \in Placed' |-> OfOption(order'[q].lines, x)]
               A == Placed
    <2>1. Drawn(x) = SumFunctionOnSet(f, A)
      BY DEF Drawn
    <2>2. Drawn(x)' = SumFunctionOnSet(g, Placed')
      BY DEF Drawn
    <2>3. Placed' = A \cup {o} /\ IsFiniteSet(A) /\ o \notin A
      BY <1>1, <1>2
    <2>4. g[o] = OfOption(req[c].lines, x) /\ g[o] \in Int
      BY <1>1, <1>4, OfFacts
    <2>5. \A q \in A : f[q] \in Int /\ g[q] = f[q]
      BY <1>1, <1>5
    <2> HIDE DEF f, g, A
    <2>6. SumFunctionOnSet(g, A \cup {o}) = SumFunctionOnSet(f, A) + g[o]
      <3>1. IsFiniteSet(A) /\ o \notin A /\ g[o] \in Int
        BY <2>3, <2>4
      <3> QED BY <2>5, <3>1, OneMore
    <2>7. SumFunctionOnSet(f, A) \in Int
      BY <2>3, <2>5, SumType
    <2> QED BY <2>1, <2>2, <2>3, <2>4, <2>6, <2>7
  <1> QED BY <1>3, <1>6, <1>7

\* The packages of the order are the member's.
LEMMA CommitOwned ==
    ASSUME Inv, NEW c \in Clients, NEW o \in Orders, CommitOrder(c, o)
    PROVE  /\ owned' \in [Members \X Packages -> Nat]
           /\ \A p \in Packages : SumFunctionOnSet([m \in Members |-> owned'[<<m, p>>]], Members) =
                  SumFunctionOnSet([m \in Members |-> owned[<<m, p>>]], Members)
                  + OfProduct(req[c].lines, p)
  <1> DEFINE a == Who[c]
  <1>1. /\ owned \in [Members \X Packages -> Nat] /\ a \in Members /\ IsFiniteSet(Members)
        /\ req[c].lines \in Seq(Line)
    BY CommitGoods, ShopAssumption DEF Inv, TypeOK
  <1>2. owned' = [mp \in Members \X Packages |->
                      owned[mp] + IF mp[1] = a THEN IssuedBy(c, mp[2]) ELSE 0]
    BY DEF CommitOrder
  <1> HIDE DEF a
  <1>3. \A p : IssuedBy(c, p) = OfProduct(req[c].lines, p) /\ OfProduct(req[c].lines, p) \in Nat
    BY <1>1, OfFacts DEF IssuedBy
  <1>4. ASSUME NEW m \in Members, NEW p \in Packages
        PROVE  /\ owned[<<m, p>>] \in Nat /\ owned'[<<m, p>>] \in Nat
               /\ owned'[<<m, p>>] = owned[<<m, p>>] +
                      (IF m = a THEN OfProduct(req[c].lines, p) ELSE 0)
    BY <1>1, <1>2, <1>3
  <1>5. owned' \in [Members \X Packages -> Nat]
    <2>1. ASSUME NEW mp \in Members \X Packages PROVE owned'[mp] \in Nat
      <3>1. PICK m \in Members, p \in Packages : mp = <<m, p>>
        OBVIOUS
      <3> QED BY <1>4, <3>1
    <2> QED BY <1>2, <2>1
  <1>6. ASSUME NEW p \in Packages
        PROVE  SumFunctionOnSet([m \in Members |-> owned'[<<m, p>>]], Members) =
                  SumFunctionOnSet([m \in Members |-> owned[<<m, p>>]], Members)
                  + OfProduct(req[c].lines, p)
    <2> DEFINE f == [m \in Members |-> owned[<<m, p>>]]
               g == [m \in Members |-> owned'[<<m, p>>]]
               A == Members \ {a}
               q == OfProduct(req[c].lines, p)
    <2>1. /\ \A m \in Members : f[m] \in Int /\ g[m] \in Int
          /\ \A m \in A : f[m] = g[m]
          /\ g[a] = f[a] + q /\ f[a] \in Int /\ q \in Int
      BY <1>1, <1>3, <1>4
    <2>2. IsFiniteSet(A)
      BY <1>1, FS_RemoveElement
    <2> HIDE DEF f, g, q
    <2>3. /\ SumFunctionOnSet(f, Members) = f[a] + SumFunctionOnSet(f, A)
          /\ SumFunctionOnSet(g, Members) = g[a] + SumFunctionOnSet(g, A)
      <3>1. IsFiniteSet(Members) /\ a \in Members
        BY <1>1
      <3>2. (\A m \in Members : f[m] \in Int) /\ (\A m \in Members : g[m] \in Int)
        BY <2>1
      <3> QED BY <3>1, <3>2, SumRemove
    <2>4. SumFunctionOnSet(f, A) = SumFunctionOnSet(g, A)
      BY <2>1, <2>2, SumSame
    <2>5. SumFunctionOnSet(f, A) \in Int
      BY <2>1, <2>2, SumType
    <2>6. SumFunctionOnSet(g, Members) = SumFunctionOnSet(f, Members) + q
      BY <2>1, <2>3, <2>4, <2>5
    <2> QED BY <2>6 DEF f, g, q
  <1> QED BY <1>5, <1>6

\* An order is placed with what it asks for taken, its message sent and its packages issued.
LEMMA CommitOrderStep ==
    ASSUME Inv, NEW c \in Clients, NEW o \in Orders, CommitOrder(c, o)
    PROVE  Inv'
  <1>0. TypeOK /\ Who[c] \in Members /\ Asks(c, "order")
    BY ShopAssumption DEF Inv, CommitOrder
  <1>1. /\ req[c].lines \in Seq(Line)
        /\ \A p \in Products : stock'[p] = stock[p] - OfProduct(req[c].lines, p) /\ stock'[p] \in Nat
        /\ \A x \in Options :
               /\ option'[x] \in Nat
               /\ req[c].left[x] = Unread => option'[x] = option[x] /\ OfOption(req[c].lines, x) = 0
               /\ req[c].left[x] # Unread /\ x \notin overtaken =>
                      option'[x] = option[x] - OfOption(req[c].lines, x)
        /\ \A p \in Packages :
               /\ package'[p].sold = package[p].sold + OfProduct(req[c].lines, p)
               /\ package'[p].total = package[p].total
               /\ package'[p].sold =< package'[p].total
    BY CommitGoods
  <1>2. /\ o \in Orders \ Placed /\ Placed' = Placed \cup {o}
        /\ order' \in [Orders -> {NoOrder} \cup OrderRows]
        /\ order'[o].lines = req[c].lines /\ ~order'[o].invoiced
        /\ \A q \in Placed : order'[q] = order[q]
    BY CommitRows
  <1>3. /\ IsFiniteSet(Placed')
        /\ \A x : Ordered(x)' = Ordered(x) + OfProduct(req[c].lines, x)
        /\ \A x : Drawn(x)' = Drawn(x) + OfOption(req[c].lines, x)
        /\ \A x : Ordered(x) \in Int /\ Drawn(x) \in Int
    BY CommitSums
  <1>4. /\ owned' \in [Members \X Packages -> Nat]
        /\ \A p \in Packages : SumFunctionOnSet([m \in Members |-> owned'[<<m, p>>]], Members) =
               SumFunctionOnSet([m \in Members |-> owned[<<m, p>>]], Members)
               + OfProduct(req[c].lines, p)
    BY CommitOwned
  <1>5. /\ uses' = IF req[c].code THEN uses + 1 ELSE uses
        /\ Outbox!Request(o)
        /\ cart' = [cart EXCEPT ![Who[c]] = [lines |-> <<>>, code |-> FALSE]]
        /\ req' = [req EXCEPT ![c] = Nothing]
        /\ UNCHANGED <<resize, billing, supplied, overtaken>>
    BY DEF CommitOrder, Done, history
  <1>6. /\ req' \in [Clients -> Requests] /\ req'[c] = Nothing
        /\ \A d \in Clients \ {c} : req'[d] = req[d]
    BY <1>0, <1>5, RequestForm DEF TypeOK
  <1>7. TypeOK'
    <2>1. stock' \in [Products -> Nat] /\ option' \in [Options -> Nat]
      <3>1. DOMAIN stock' = Products /\ DOMAIN option' = Options /\ stock' = [p \in Products |-> stock'[p]]
            /\ option' = [x \in Options |-> option'[x]]
        BY DEF CommitOrder
      <3> QED BY <1>1, <3>1
    <2>2. package' \in [Packages -> [total : Nat, sold : Nat]]
      <3>1. package' = [p \in Packages |-> [package[p] EXCEPT !.sold = @ + OfProduct(req[c].lines, p)]]
        BY DEF CommitOrder
      <3>2. \A p \in Packages : package[p] \in [total : Nat, sold : Nat]
        BY <1>0 DEF TypeOK
      <3>3. \A p \in Packages : OfProduct(req[c].lines, p) \in Nat
        BY <1>1, OfFacts
      <3> QED BY <3>1, <3>2, <3>3
    <2>3. cart' \in [Members -> [lines : Seq(Line), code : BOOLEAN]]
      <3>1. <<>> \in Seq(Line)
        OBVIOUS
      <3>2. [lines |-> <<>>, code |-> FALSE] \in [lines : Seq(Line), code : BOOLEAN]
        BY <3>1
      <3> QED BY <1>0, <1>5, <3>2 DEF TypeOK
    <2>4. uses' \in Nat
      BY <1>0, <1>5 DEF TypeOK
    <2>5. Outbox!TypeOK'
      BY <1>0, <1>2, <1>5 DEF TypeOK, Outbox!TypeOK, Outbox!Request
    <2>6. order' \in [Orders -> {NoOrder} \cup
           [status : Statuses, owner : Members, lines : Seq(Line), code : BOOLEAN, invoiced : BOOLEAN]]
      BY <1>2 DEF OrderRows
    <2> QED BY <1>0, <1>4, <1>5, <1>6, <2>1, <2>2, <2>3, <2>4, <2>5, <2>6 DEF TypeOK
  <1>8. ASSUME NEW d \in Clients PROVE Sound(req[d])'
    <2>1. CASE d # c
      BY <2>1, CommitKeepsOthers
    <2>2. CASE d = c
      <3>1. Nothing.kind # "order" /\ \A p : Held(Nothing, p) = 0
        BY DEF Nothing, Held
      <3>2. ASSUME NEW p \in Products
            PROVE  0 =< stock'[p] /\ (p \in Packages => package'[p].sold + 0 =< package'[p].total)
        <4>1. stock'[p] \in Nat
          BY <1>1
        <4>2. ASSUME p \in Packages PROVE package'[p].sold + 0 =< package'[p].total
          <5>1. package'[p].sold \in Nat
            BY <1>7, <4>2 DEF TypeOK
          <5> QED BY <1>1, <4>2, <5>1
        <4> QED BY <4>1, <4>2
      <3> QED BY <1>6, <2>2, <3>1, <3>2 DEF Sound, InOrder, Covered, ReadTrue
    <2> QED BY <2>1, <2>2
  <1>9. Apart'
    <2>1. \A p : Held(Nothing, p) = 0
      BY DEF Nothing, Held
    <2> QED BY <1>6, <2>1 DEF Inv, Apart
  <1>10. CartsOffered'
    <2>1. \A m \in Members : cart'[m] = cart[m] \/ cart'[m].lines = <<>>
      BY <1>0, <1>5 DEF TypeOK
    <2> QED BY <2>1 DEF Inv, CartsOffered
  <1>11. Accounts'
    <2>0. Accounts
      BY DEF Inv
    <2>1. StockConserved'
      <3>1. ASSUME NEW p \in Products
            PROVE  stock'[p] >= 0 /\ stock'[p] + Ordered(p)' = supplied'[p]
        <4>1. stock[p] + Ordered(p) = supplied[p] /\ stock[p] \in Nat
          BY <1>0, <2>0 DEF Accounts, StockConserved, TypeOK
        <4>2. OfProduct(req[c].lines, p) \in Nat
          BY <1>1, OfFacts
        <4> QED BY <1>1, <1>3, <1>5, <4>1, <4>2
      <3> QED BY <3>1 DEF StockConserved
    <2>2. OptionsConserved'
      <3>1. ASSUME NEW x \in Options \ overtaken
            PROVE  option'[x] >= 0 /\ option'[x] + Drawn(x)' = supplied'[x]
        <4>1. option[x] + Drawn(x) = supplied[x] /\ option[x] \in Nat
          BY <1>0, <2>0 DEF Accounts, OptionsConserved, TypeOK
        <4>2. OfOption(req[c].lines, x) \in Nat
          BY <1>1, OfFacts
        <4>3. option'[x] = option[x] - OfOption(req[c].lines, x) /\ option'[x] \in Nat
          BY <1>1, <4>1
        <4> QED BY <1>3, <1>5, <4>1, <4>2, <4>3
      <3> QED BY <1>5, <3>1 DEF OptionsConserved
    <2>3. PackagesIssued'
      <3>1. ASSUME NEW p \in Packages
            PROVE  /\ package'[p].sold = Ordered(p)'
                   /\ package'[p].sold = SumFunctionOnSet([m \in Members |-> owned'[<<m, p>>]], Members)
                   /\ package'[p].sold =< package'[p].total
        <4>1. /\ package[p].sold = Ordered(p)
              /\ package[p].sold = SumFunctionOnSet([m \in Members |-> owned[<<m, p>>]], Members)
          BY <2>0 DEF Accounts, PackagesIssued
        <4> QED BY <1>1, <1>3, <1>4, <4>1
      <3> QED BY <3>1 DEF PackagesIssued
    <2> QED BY <1>3, <2>1, <2>2, <2>3 DEF Accounts
  <1>12. Billing'
    <2>1. /\ open' = open \cup {o} /\ settled' = settled /\ o \notin open /\ o \notin settled
      BY <1>5 DEF Outbox!Request, Outbox!Unrequested
    <2>2. \A q \in Placed : order'[q].invoiced = order[q].invoiced
      BY <1>2
    <2> QED BY <1>2, <1>5, <2>1, <2>2 DEF Inv, Billing, InvoicedWithMessage
  <1> QED BY <1>7, <1>8, <1>9, <1>10, <1>11, <1>12 DEF Inv

-----------------------------------------------------------------------------
(* The cart and the store admin                                            *)

\* A step that leaves what requests rely on leaves them sound.
LEMMA RequestsKept ==
    ASSUME Inv, UNCHANGED <<stock, option, package, req, overtaken>>
    PROVE  (\A d \in Clients : Sound(req[d])') /\ Apart'
  <1>1. ASSUME NEW d \in Clients PROVE Sound(req[d])'
    <2>1. Sound(req[d])
      BY DEF Inv
    <2> QED BY <2>1 DEF Sound, InOrder, Covered, ReadTrue
  <1>2. Apart'
    BY DEF Inv, Apart
  <1> QED BY <1>1, <1>2

\* A step that only changes carts, and puts in lines the shop offers.
LEMMA CartStep ==
    ASSUME Inv, UNCHANGED <<outboxVars, goods, uses, order, req, resize, billing, history>>,
           NEW m \in Members, NEW k \in [lines : Seq(Line), code : BOOLEAN],
           cart' = [cart EXCEPT ![m] = k], \A i \in DOMAIN k.lines : Offered(k.lines[i])
    PROVE  Inv'
  <1>0. cart \in [Members -> [lines : Seq(Line), code : BOOLEAN]] /\ CartsOffered
    BY DEF Inv, TypeOK
  <1>1. /\ cart' \in [Members -> [lines : Seq(Line), code : BOOLEAN]]
        /\ cart'[m] = k /\ \A n \in Members \ {m} : cart'[n] = cart[n]
    BY <1>0
  <1>2. TypeOK'
    BY <1>1 DEF Inv, TypeOK, Outbox!TypeOK, outboxVars, goods, history
  <1>3. CartsOffered'
    BY <1>0, <1>1 DEF CartsOffered
  <1>4. (\A d \in Clients : Sound(req[d])') /\ Apart'
    BY RequestsKept DEF goods, history
  <1>5. Accounts' /\ Billing'
    BY DEF Inv, Accounts, Billing, Placed, StockConserved, OptionsConserved, PackagesIssued,
           InvoicedWithMessage, Ordered, Drawn, goods, history, outboxVars
  <1> QED BY <1>2, <1>3, <1>4, <1>5 DEF Inv

\* What a client's cart is.
LEMMA CartFacts ==
    ASSUME Inv, NEW c \in Clients
    PROVE  /\ Who[c] \in Members
           /\ cart \in [Members -> [lines : Seq(Line), code : BOOLEAN]]
           /\ cart[Who[c]] \in [lines : Seq(Line), code : BOOLEAN]
           /\ cart[Who[c]].lines \in Seq(Line) /\ cart[Who[c]].code \in BOOLEAN
           /\ \A i \in DOMAIN cart[Who[c]].lines : Offered(cart[Who[c]].lines[i])
  <1>1. Who[c] \in Members /\ cart \in [Members -> [lines : Seq(Line), code : BOOLEAN]]
    BY ShopAssumption DEF Inv, TypeOK
  <1> QED BY <1>1 DEF Inv, CartsOffered

\* addCartItem puts in a line the shop offers.
LEMMA AddCartItemStep ==
    ASSUME Inv, NEW c \in Clients, NEW l \in Lines, AddCartItem(c, l)
    PROVE  Inv'
  <1> DEFINE m == Who[c]
             lines == cart[m].lines
             same == Same(lines, l)
             new == WithLine(lines, l)
             k == [cart[m] EXCEPT !.lines = new]
  <1>1. /\ m \in Members /\ cart[m] \in [lines : Seq(Line), code : BOOLEAN] /\ lines \in Seq(Line)
        /\ \A i \in DOMAIN lines : Offered(lines[i])
    BY CartFacts
  <1>2. l \in Line /\ Offered(l)
    BY ShopAssumption DEF Line, Offered
  <1>3. UNCHANGED <<outboxVars, goods, uses, order, req, resize, billing, history>>
    BY DEF AddCartItem
  <1>7. cart' = [cart EXCEPT ![m].lines = new]
    BY DEF AddCartItem
  <1>4. new \in Seq(Line) /\ \A i \in DOMAIN new : Offered(new[i])
    <2>1. CASE same = {}
      <3>1. new = Append(lines, l)
        BY <2>1 DEF WithLine
      <3>2. /\ new \in Seq(Line) /\ Len(new) = Len(lines) + 1
            /\ \A i \in 1..Len(lines) : new[i] = lines[i]
            /\ new[Len(lines) + 1] = l
        <4> HIDE DEF new, lines
        <4> QED BY <1>1, <1>2, <3>1, AppendProperties
      <3>3. DOMAIN new = 1..(Len(lines) + 1) /\ DOMAIN lines = 1..Len(lines) /\ Len(lines) \in Nat
        <4> HIDE DEF new
        <4> QED BY <1>1, <3>2
      <3>4. ASSUME NEW i \in DOMAIN new PROVE Offered(new[i])
        <4>1. i \in 1..Len(lines) \/ i = Len(lines) + 1
          BY <3>3
        <4> QED BY <1>1, <1>2, <3>2, <3>3, <4>1
      <3> QED BY <3>2, <3>4
    <2>2. CASE same # {}
      <3> DEFINE grown(i) == IF i \in same THEN [lines[i] EXCEPT !.quantity = @ + l.quantity]
                                          ELSE lines[i]
      <3>1. new = [i \in DOMAIN lines |-> grown(i)]
        BY <2>2 DEF WithLine
      <3>2. ASSUME NEW i \in DOMAIN lines
            PROVE  /\ grown(i) \in Line /\ grown(i).product = lines[i].product
                   /\ grown(i).option = lines[i].option
        <4>1. lines[i] \in Line
          BY <1>1
        <4> QED BY <1>2, <4>1 DEF Line
      <3>3. \A i \in DOMAIN lines : Offered(grown(i))
        BY <1>1, <3>2 DEF Offered
      <3> HIDE DEF grown
      <3>4. DOMAIN lines = 1..Len(lines) /\ Len(lines) \in Nat
        BY <1>1
      <3>5. new \in Seq(Line)
        BY <3>1, <3>2, <3>4
      <3> QED BY <3>1, <3>3, <3>5
    <2> QED BY <2>1, <2>2
  <1> HIDE DEF new
  <1>5. k \in [lines : Seq(Line), code : BOOLEAN] /\ k.lines = new
    BY <1>1, <1>4
  <1>6. cart' = [cart EXCEPT ![m] = k]
    BY <1>7
  <1> HIDE DEF k, m
  <1> QED BY <1>1, <1>3, <1>4, <1>5, <1>6, CartStep

\* removeCartItem keeps the other lines.
LEMMA RemoveCartItemStep ==
    ASSUME Inv, NEW c \in Clients, NEW i \in 1..MaxItems, RemoveCartItem(c, i)
    PROVE  Inv'
  <1> DEFINE m == Who[c]
             lines == cart[m].lines
             new == RemoveAt(lines, i)
             k == [cart[m] EXCEPT !.lines = new]
  <1>1. /\ m \in Members /\ cart[m] \in [lines : Seq(Line), code : BOOLEAN] /\ lines \in Seq(Line)
        /\ \A j \in DOMAIN lines : Offered(lines[j])
    BY CartFacts
  <1>2. /\ i \in DOMAIN lines /\ cart' = [cart EXCEPT ![m].lines = new]
        /\ UNCHANGED <<outboxVars, goods, uses, order, req, resize, billing, history>>
    BY DEF RemoveCartItem
  <1>3. DOMAIN lines = 1..Len(lines) /\ Len(lines) \in Nat
    BY <1>1
  <1>4. new \in Seq(Line) /\ \A j \in DOMAIN new : Offered(new[j])
    <2> DEFINE before == SubSeq(lines, 1, i - 1)
               after == SubSeq(lines, i + 1, Len(lines))
               Fine == {x \in Line : Offered(x)}
    <2>1. lines \in Seq(Fine)
      BY <1>1, <1>3
    <2>2. before \in Seq(Fine) /\ after \in Seq(Fine)
      <3>1. 1 \in Int /\ i - 1 \in Int /\ i + 1 \in Int /\ Len(lines) \in Int
        BY <1>2, <1>3
      <3>2. (\A j \in 1..(i - 1) : lines[j] \in Fine) /\ \A j \in (i + 1)..Len(lines) : lines[j] \in Fine
        BY <1>2, <1>3, <2>1
      <3> HIDE DEF Fine
      <3> QED BY <3>1, <3>2, SubSeqProperties
    <2>3. new = before \o after
      BY DEF RemoveAt
    <2> HIDE DEF before, after
    <2>4. new \in Seq(Fine)
      BY <2>2, <2>3, ConcatProperties
    <2>5. \A x \in Fine : x \in Line /\ Offered(x)
      OBVIOUS
    <2> HIDE DEF Fine, new
    <2>6. new \in Seq(Line)
      BY <2>4, <2>5
    <2> QED BY <2>4, <2>5, <2>6
  <1> HIDE DEF new
  <1>5. k \in [lines : Seq(Line), code : BOOLEAN] /\ k.lines = new
    BY <1>1, <1>4
  <1>6. cart' = [cart EXCEPT ![m] = k]
    BY <1>2
  <1> HIDE DEF k, m
  <1> QED BY <1>1, <1>2, <1>4, <1>5, <1>6, CartStep

\* clearCart leaves no lines.
LEMMA ClearCartStep == ASSUME Inv, NEW c \in Clients, ClearCart(c) PROVE Inv'
  <1> DEFINE k == [lines |-> <<>>, code |-> FALSE]
  <1>1. k \in [lines : Seq(Line), code : BOOLEAN] /\ DOMAIN k.lines = {} /\ Who[c] \in Members
    BY CartFacts
  <1>2. /\ cart' = [cart EXCEPT ![Who[c]] = k]
        /\ UNCHANGED <<outboxVars, goods, uses, order, req, resize, billing, history>>
    BY DEF ClearCart
  <1> HIDE DEF k
  <1> QED BY <1>1, <1>2, CartStep

\* applyDiscountToCart leaves the lines.
LEMMA ApplyDiscountStep == ASSUME Inv, NEW c \in Clients, ApplyDiscount(c) PROVE Inv'
  <1> DEFINE m == Who[c]
             k == [cart[m] EXCEPT !.code = ~@]
  <1>1. /\ m \in Members /\ cart[m] \in [lines : Seq(Line), code : BOOLEAN]
        /\ \A j \in DOMAIN cart[m].lines : Offered(cart[m].lines[j])
    BY CartFacts
  <1>2. /\ cart' = [cart EXCEPT ![m] = k]
        /\ UNCHANGED <<outboxVars, goods, uses, order, req, resize, billing, history>>
    BY DEF ApplyDiscount
  <1>3. k \in [lines : Seq(Line), code : BOOLEAN] /\ k.lines = cart[m].lines
    BY <1>1
  <1> HIDE DEF k, m
  <1> QED BY <1>1, <1>2, <1>3, CartStep

\* A step that keeps the lines of the orders placed keeps what they add up to.
LEMMA SumsKept ==
    ASSUME Placed' = Placed, \A q \in Placed : order'[q].lines = order[q].lines
    PROVE  \A x : Ordered(x)' = Ordered(x) /\ Drawn(x)' = Drawn(x)
  <1> TAKE x
  <1>1. [q \in Placed' |-> OfProduct(order'[q].lines, x)] = [q \in Placed |-> OfProduct(order[q].lines, x)]
    OBVIOUS
  <1>2. [q \in Placed' |-> OfOption(order'[q].lines, x)] = [q \in Placed |-> OfOption(order[q].lines, x)]
    OBVIOUS
  <1>3. Ordered(x)' = Ordered(x)
    BY <1>1 DEF Ordered
  <1>4. Drawn(x)' = Drawn(x)
    BY <1>2 DEF Drawn
  <1> QED BY <1>3, <1>4

\* Nobody who waits for a row has taken of its product.
LEMMA NoneHeld ==
    ASSUME Inv, NEW p, ~\E c \in Clients : Taken(c, p) > 0
    PROVE  \A c \in Clients : Held(req[c], p) = 0
  <1> TAKE c \in Clients
  <1>1. Held(req[c], p) \in Nat
    BY HeldFacts DEF Inv, TypeOK, Sound
  <1>2. ~(Held(req[c], p) > 0)
    BY TakenIsHeld
  <1> QED BY <1>1, <1>2

\* A step that sets the stock of a product nobody has taken of.
LEMMA StockStep ==
    ASSUME Inv, NEW p \in Products, NEW n \in Nat, ~\E c \in Clients : Taken(c, p) > 0,
           stock' = [stock EXCEPT ![p] = n], Supply(p, n - stock[p]),
           UNCHANGED <<outboxVars, option, package, owned, cart, uses, order, req, billing, overtaken>>,
           resize' \in {Nothing, resize}
    PROVE  Inv'
  <1>0. TypeOK /\ Accounts /\ p \notin Options
    BY ShopAssumption DEF Inv
  <1>1. /\ stock \in [Products -> Nat] /\ supplied \in [Products \cup Options -> Int]
    BY <1>0 DEF TypeOK
  <1>2. /\ stock' \in [Products -> Nat] /\ stock'[p] = n
        /\ \A q \in Products \ {p} : stock'[q] = stock[q]
    BY <1>1
  <1>3. /\ supplied' \in [Products \cup Options -> Int] /\ supplied'[p] = supplied[p] + (n - stock[p])
        /\ \A q \in (Products \cup Options) \ {p} : supplied'[q] = supplied[q]
    BY <1>1 DEF Supply
  <1>4. TypeOK'
    BY <1>0, <1>2, <1>3 DEF TypeOK, Outbox!TypeOK, outboxVars
  <1>5. ASSUME NEW d \in Clients PROVE Sound(req[d])'
    <2>1. Sound(req[d]) /\ Held(req[d], p) = 0
      BY NoneHeld DEF Inv
    <2>2. \A q \in Products : Held(req[d], q) =< stock'[q]
      BY <1>2, <2>1 DEF Sound, Covered
    <2> QED BY <2>1, <2>2 DEF Sound, InOrder, Covered, ReadTrue
  <1>6. Apart' /\ CartsOffered' /\ Billing'
    BY DEF Inv, Apart, CartsOffered, Billing, InvoicedWithMessage, Placed, outboxVars
  <1>7. Placed' = Placed /\ \A x : Ordered(x)' = Ordered(x) /\ Drawn(x)' = Drawn(x)
    <2>1. Placed' = Placed /\ order' = order
      BY DEF Placed
    <2> QED BY <2>1, SumsKept
  <1>8. StockConserved'
    <2>1. ASSUME NEW q \in Products PROVE stock'[q] >= 0 /\ stock'[q] + Ordered(q) = supplied'[q]
      <3>1. stock[q] + Ordered(q) = supplied[q] /\ stock[q] \in Nat
        BY <1>0, <1>1 DEF Accounts, StockConserved
      <3>2. CASE q = p
        <4>1. Ordered(p) = supplied[p] - stock[p]
          <5>1. supplied[p] \in Int
            BY <1>1
          <5>2. IsFiniteSet(Placed) /\ \A o \in Placed : OfProduct(order[o].lines, p) \in Int
            BY <1>0, RowFacts DEF Accounts
          <5> DEFINE f == [o \in Placed |-> OfProduct(order[o].lines, p)]
          <5>3. IsFiniteSet(Placed) /\ \A o \in Placed : f[o] \in Int
            BY <5>2
          <5>4. Ordered(p) = SumFunctionOnSet(f, Placed)
            BY DEF Ordered
          <5> HIDE DEF f
          <5>5. Ordered(p) \in Int
            BY <5>3, <5>4, SumType
          <5> QED BY <3>1, <3>2, <5>1, <5>5
        <4>2. supplied[p] \in Int
          BY <1>1
        <4> QED BY <1>2, <1>3, <3>1, <3>2, <4>1, <4>2
      <3>3. CASE q # p
        BY <1>2, <1>3, <3>1, <3>3
      <3> QED BY <3>2, <3>3
    <2> QED BY <1>7, <2>1 DEF StockConserved
  <1>9. OptionsConserved'
    <2>1. \A x \in Options : supplied'[x] = supplied[x]
      BY <1>0, <1>3
    <2> QED BY <1>0, <1>7, <2>1 DEF Accounts, OptionsConserved
  <1>10. PackagesIssued'
    BY <1>0, <1>7 DEF Accounts, PackagesIssued
  <1> QED BY <1>0, <1>4, <1>5, <1>6, <1>7, <1>8, <1>9, <1>10 DEF Inv, Accounts

\* updateProduct sets the stock of what nobody has taken of.
LEMMA SetStockStep ==
    ASSUME Inv, NEW p \in Products, NEW n \in Stocks, SetStock(p, n)
    PROVE  Inv'
  <1>1. n \in Nat
    BY ShopAssumption
  <1> QED BY <1>1, StockStep DEF SetStock

\* updatePrepaidPackage sets it too, to what it read of the definition.
LEMMA SyncStockStep == ASSUME Inv, SyncStock PROVE Inv'
  <1> DEFINE p == resize.product
             left == resize.total - resize.sold
             n == IF left < 0 THEN 0 ELSE left
  <1>1. p \in Products /\ resize.total \in Nat /\ resize.sold \in Nat
    BY ShopAssumption DEF SyncStock, Inv, TypeOK, Nothing
  <1>2. n \in Nat
    BY <1>1
  <1>3. /\ ~\E c \in Clients : Taken(c, p) > 0
        /\ stock' = [stock EXCEPT ![p] = n] /\ Supply(p, n - stock[p]) /\ resize' = Nothing
        /\ UNCHANGED <<outboxVars, option, package, owned, cart, uses, order, req, billing, overtaken>>
    BY DEF SyncStock
  <1> HIDE DEF p, n, left
  <1> QED BY <1>1, <1>2, <1>3, StockStep

\* An option is set while no order has written it; those that have only read something make
\* it overtaken.
LEMMA SetOptionStep ==
    ASSUME Inv, NEW x \in Options, NEW n \in Stocks, SetOption(x, n)
    PROVE  Inv'
  <1>0. TypeOK /\ Accounts /\ x \notin Products /\ n \in Nat
    BY ShopAssumption DEF Inv
  <1>1. /\ option \in [Options -> Nat] /\ supplied \in [Products \cup Options -> Int]
        /\ overtaken \subseteq Options
    BY <1>0 DEF TypeOK
  <1>2. /\ option' = [option EXCEPT ![x] = n] /\ Supply(x, n - option[x])
        /\ \A c \in Clients : Asks(c, "order") => req[c].left[x] = Unread
        /\ overtaken' = IF \E c \in Clients : Asks(c, "order") /\ req[c].seen # Unread
                        THEN overtaken \cup {x} ELSE overtaken
        /\ UNCHANGED <<outboxVars, stock, package, owned, cart, uses, order, req, resize, billing>>
    BY DEF SetOption
  <1>3. /\ option' \in [Options -> Nat] /\ option'[x] = n
        /\ \A y \in Options \ {x} : option'[y] = option[y]
    BY <1>0, <1>1, <1>2
  <1>4. /\ supplied' \in [Products \cup Options -> Int] /\ supplied'[x] = supplied[x] + (n - option[x])
        /\ \A y \in (Products \cup Options) \ {x} : supplied'[y] = supplied[y]
    BY <1>0, <1>1, <1>2 DEF Supply
  <1>5. /\ overtaken \subseteq overtaken' /\ overtaken' \subseteq overtaken \cup {x}
        /\ x \notin overtaken' => \A c \in Clients : Asks(c, "order") => req[c].seen = Unread
    BY <1>2
  <1>6. TypeOK'
    BY <1>0, <1>1, <1>2, <1>3, <1>4, <1>5 DEF TypeOK, Outbox!TypeOK, outboxVars
  <1>7. ASSUME NEW d \in Clients PROVE Sound(req[d])'
    <2> DEFINE r == req[d]
    <2>1. Sound(r) /\ req'[d] = r
      BY <1>2 DEF Inv
    <2>2. r.kind = "order" => r.left[x] = Unread /\ (x \notin overtaken' => r.seen = Unread)
      BY <1>2, <1>5 DEF Asks
    <2> HIDE DEF r
    <2>3. ASSUME r.kind = "order", NEW y \in Options \ overtaken'
          PROVE  /\ r.left[y] # Unread => r.left[y] = option'[y] - PartOf(r.lines, r.drawn, y)
                 /\ r.seen # Unread /\ r.lines[r.drawn + 1].option = y
                        => r.seen = option'[y] - PartOf(r.lines, r.drawn, y)
      <3>1. CASE y = x
        BY <2>2, <2>3, <3>1
      <3>2. CASE y # x
        <4>1. option'[y] = option[y] /\ y \in Options \ overtaken
          BY <1>3, <1>5, <3>2
        <4>2. ASSUME r.left[y] # Unread
              PROVE  r.left[y] = option[y] - PartOf(r.lines, r.drawn, y)
          BY <2>1, <2>3, <4>1, <4>2 DEF Sound, ReadTrue
        <4>3. ASSUME r.seen # Unread /\ r.lines[r.drawn + 1].option = y
              PROVE  r.seen = option[y] - PartOf(r.lines, r.drawn, y)
          BY <2>1, <2>3, <4>1, <4>3 DEF Sound, ReadTrue
        <4> QED BY <4>1, <4>2, <4>3
      <3> QED BY <3>1, <3>2
    <2>4. ReadTrue(req[d])'
      BY <2>1, <2>3 DEF ReadTrue
    <2>5. InOrder(req[d])' /\ Covered(req[d])'
      BY <1>2, <2>1 DEF Sound, InOrder, Covered
    <2> QED BY <2>4, <2>5 DEF Sound
  <1>8. Apart' /\ CartsOffered' /\ Billing'
    BY <1>2 DEF Inv, Apart, CartsOffered, Billing, InvoicedWithMessage, Placed, outboxVars
  <1>9. Placed' = Placed /\ \A y : Ordered(y)' = Ordered(y) /\ Drawn(y)' = Drawn(y)
    <2>1. Placed' = Placed /\ order' = order
      BY <1>2 DEF Placed
    <2> QED BY <2>1, SumsKept
  <1>10. StockConserved'
    <2>1. \A q \in Products : supplied'[q] = supplied[q] /\ stock'[q] = stock[q]
      BY <1>0, <1>2, <1>4
    <2> QED BY <1>0, <1>9, <2>1 DEF Accounts, StockConserved
  <1>11. OptionsConserved'
    <2>1. ASSUME NEW y \in Options \ overtaken'
          PROVE  option'[y] >= 0 /\ option'[y] + Drawn(y) = supplied'[y]
      <3>1. y \in Options \ overtaken /\ option[y] \in Nat
        BY <1>1, <1>5
      <3>2. option[y] + Drawn(y) = supplied[y] /\ supplied[y] \in Int
        BY <1>0, <1>1, <3>1 DEF Accounts, OptionsConserved
      <3>3. CASE y = x
        <4>1. IsFiniteSet(Placed) /\ \A o \in Placed : OfOption(order[o].lines, y) \in Int
          BY <1>0, RowFacts DEF Accounts
        <4> DEFINE f == [o \in Placed |-> OfOption(order[o].lines, y)]
        <4>2. IsFiniteSet(Placed) /\ \A o \in Placed : f[o] \in Int
          BY <4>1
        <4>3. Drawn(y) = SumFunctionOnSet(f, Placed)
          BY DEF Drawn
        <4> HIDE DEF f
        <4>4. Drawn(y) \in Int
          BY <4>2, <4>3, SumType
        <4>5. option'[y] = n /\ supplied'[y] = supplied[y] + (n - option[y])
          BY <1>3, <1>4, <3>3
        <4> QED BY <1>0, <3>1, <3>2, <4>4, <4>5
      <3>4. CASE y # x
        <4>1. option'[y] = option[y] /\ supplied'[y] = supplied[y]
          BY <1>3, <1>4, <3>4
        <4> QED BY <3>1, <3>2, <4>1
      <3> QED BY <3>3, <3>4
    <2> QED BY <1>9, <2>1 DEF OptionsConserved
  <1>12. PackagesIssued'
    BY <1>0, <1>2, <1>9 DEF Accounts, PackagesIssued
  <1> QED BY <1>0, <1>6, <1>7, <1>8, <1>9, <1>10, <1>11, <1>12 DEF Inv, Accounts

\* A package is not resized below what is sold of it.
LEMMA ResizePackageStep ==
    ASSUME Inv, NEW p \in Packages, NEW n \in Stocks, ResizePackage(p, n)
    PROVE  Inv'
  <1>0. TypeOK /\ Accounts /\ n \in Nat
    BY ShopAssumption DEF Inv
  <1>1. /\ package' = [package EXCEPT ![p].total = n] /\ n >= package[p].sold
        /\ ~\E c \in Clients : Taken(c, p) > 0
        /\ resize' = [kind |-> "total", product |-> p, total |-> n]
        /\ UNCHANGED <<outboxVars, stock, option, owned, cart, uses, order, req, billing, history>>
    BY DEF ResizePackage
  <1>2. package \in [Packages -> [total : Nat, sold : Nat]]
    BY <1>0 DEF TypeOK
  <1>3. /\ package' \in [Packages -> [total : Nat, sold : Nat]]
        /\ package'[p].total = n /\ package'[p].sold = package[p].sold
        /\ \A q \in Packages \ {p} : package'[q] = package[q]
    BY <1>0, <1>1, <1>2
  <1>4. resize' \in [kind : {"total"}, product : Packages, total : Nat]
    BY <1>0, <1>1
  <1>5. TypeOK'
    BY <1>0, <1>1, <1>3, <1>4 DEF TypeOK, Outbox!TypeOK, outboxVars, history
  <1>6. ASSUME NEW d \in Clients PROVE Sound(req[d])'
    <2>1. Sound(req[d]) /\ Held(req[d], p) = 0
      BY <1>1, NoneHeld DEF Inv
    <2>2. ASSUME NEW q \in Packages PROVE package'[q].sold + Held(req[d], q) =< package'[q].total
      <3>1. CASE q = p
        <4>1. package[p].sold \in Nat
          BY <1>2
        <4> QED BY <1>0, <1>1, <1>3, <2>1, <3>1, <4>1
      <3>2. CASE q # p
        <4>1. q \in Products /\ package'[q] = package[q]
          BY <1>3, <3>2, ShopAssumption
        <4> QED BY <2>1, <4>1 DEF Sound, Covered
      <3> QED BY <3>1, <3>2
    <2> QED BY <1>1, <2>1, <2>2 DEF Sound, InOrder, Covered, ReadTrue, history
  <1>7. Apart' /\ CartsOffered' /\ Billing'
    BY <1>1 DEF Inv, Apart, CartsOffered, Billing, InvoicedWithMessage, Placed, outboxVars
  <1>8. Placed' = Placed /\ \A x : Ordered(x)' = Ordered(x) /\ Drawn(x)' = Drawn(x)
    <2>1. Placed' = Placed /\ order' = order
      BY <1>1 DEF Placed
    <2> QED BY <2>1, SumsKept
  <1>9. StockConserved' /\ OptionsConserved'
    BY <1>0, <1>1, <1>8 DEF Accounts, StockConserved, OptionsConserved, history
  <1>10. PackagesIssued'
    <2>1. ASSUME NEW q \in Packages
          PROVE  package'[q].sold = package[q].sold /\ package'[q].sold =< package'[q].total
      <3>1. CASE q = p
        <4>1. package[p].sold \in Nat
          BY <1>2
        <4> QED BY <1>0, <1>1, <1>3, <3>1, <4>1
      <3>2. CASE q # p
        BY <1>0, <1>3, <3>2 DEF Accounts, PackagesIssued
      <3> QED BY <3>1, <3>2
    <2>2. owned' = owned
      BY <1>1
    <2> QED BY <1>0, <1>8, <2>1, <2>2 DEF Accounts, PackagesIssued
  <1> QED BY <1>0, <1>5, <1>6, <1>7, <1>8, <1>9, <1>10 DEF Inv, Accounts

\* What is sold of the package is read.
LEMMA ReadSoldStep == ASSUME Inv, ReadSold PROVE Inv'
  <1>1. /\ resize.product \in Packages /\ resize.total \in Nat
    BY DEF ReadSold, Inv, TypeOK, Nothing
  <1>2. package[resize.product].sold \in Nat
    BY <1>1 DEF Inv, TypeOK
  <1>3. resize' \in [kind : {"stock"}, product : Packages, total : Nat, sold : Nat]
    BY <1>1, <1>2 DEF ReadSold
  <1>4. UNCHANGED <<outboxVars, goods, cart, uses, order, req, billing, history>>
    BY DEF ReadSold
  <1>5. TypeOK'
    BY <1>3, <1>4 DEF Inv, TypeOK, Outbox!TypeOK, outboxVars, goods, history
  <1>6. (\A d \in Clients : Sound(req[d])') /\ Apart'
    BY <1>4, RequestsKept DEF goods, history
  <1>7. CartsOffered' /\ Accounts' /\ Billing'
    BY <1>4 DEF Inv, CartsOffered, Accounts, Billing, Placed, StockConserved, OptionsConserved,
           PackagesIssued, InvoicedWithMessage, Ordered, Drawn, goods, history, outboxVars
  <1> QED BY <1>5, <1>6, <1>7 DEF Inv

-----------------------------------------------------------------------------
(* The orders' statuses and invoices                                       *)

\* A step that keeps the orders and their lines, and what is known of their messages.
LEMMA OrderStep ==
    ASSUME Inv, UNCHANGED <<goods, cart, uses, req, resize, history>>,
           order' \in [Orders -> {NoOrder} \cup OrderRows], Placed' = Placed,
           \A q \in Placed : order'[q].lines = order[q].lines,
           Outbox!TypeOK', billing' \subseteq Orders, Billing'
    PROVE  Inv'
  <1>1. TypeOK'
    BY DEF Inv, TypeOK, goods, history, OrderRows
  <1>2. (\A d \in Clients : Sound(req[d])') /\ Apart'
    BY RequestsKept DEF goods, history
  <1>3. CartsOffered'
    BY DEF Inv, CartsOffered
  <1>4. \A x : Ordered(x)' = Ordered(x) /\ Drawn(x)' = Drawn(x)
    BY SumsKept
  <1>5. Accounts'
    BY <1>4 DEF Inv, Accounts, StockConserved, OptionsConserved, PackagesIssued, goods, history
  <1> QED BY <1>1, <1>2, <1>3, <1>5 DEF Inv

\* A row that changes its status, and maybe gets its invoice, keeps its lines.
LEMMA RowStep ==
    ASSUME Inv, NEW o \in Placed, NEW status \in Statuses, NEW b \in BOOLEAN,
           order' = [order EXCEPT ![o].status = status, ![o].invoiced = b]
    PROVE  /\ order' \in [Orders -> {NoOrder} \cup OrderRows] /\ Placed' = Placed
           /\ \A q \in Placed : order'[q].lines = order[q].lines
           /\ order'[o].invoiced = b /\ \A q \in Placed \ {o} : order'[q] = order[q]
  <1>1. order \in [Orders -> {NoOrder} \cup OrderRows] /\ order[o] \in OrderRows
    BY RowFacts DEF Inv, TypeOK, OrderRows
  <1> DEFINE row == [order[o] EXCEPT !.status = status, !.invoiced = b]
  <1>2. row \in OrderRows /\ row.lines = order[o].lines /\ row.invoiced = b
    BY <1>1 DEF OrderRows
  <1>3. order' = [order EXCEPT ![o] = row]
    BY <1>1
  <1> HIDE DEF row
  <1>4. \A x \in OrderRows : x # NoOrder
    <2>1. \A x \in OrderRows : x.status # "NONE"
      BY DEF OrderRows, Statuses
    <2>2. NoOrder.status = "NONE"
      BY DEF NoOrder
    <2> QED BY <2>1, <2>2
  <1> QED BY <1>1, <1>2, <1>3, <1>4 DEF Placed

\* updateOrderStatus changes neither lines nor invoice.
LEMMA SetStatusStep ==
    ASSUME Inv, NEW o \in Orders, NEW status \in Resolved, SetStatus(o, status)
    PROVE  Inv'
  <1> DEFINE b == order[o].invoiced
  <1>1. o \in Placed /\ status \in Statuses
    BY ShopAssumption DEF SetStatus, Placed
  <1>2. order[o] \in OrderRows /\ order \in [Orders -> {NoOrder} \cup OrderRows]
    BY <1>1, RowFacts DEF Inv, TypeOK, OrderRows
  <1>3. b \in BOOLEAN
    BY <1>2 DEF OrderRows
  <1>4. order' = [order EXCEPT ![o].status = status, ![o].invoiced = b]
    <2>1. order' = [order EXCEPT ![o].status = status]
      BY DEF SetStatus
    <2>2. [order[o] EXCEPT !.status = status] = [order[o] EXCEPT !.status = status, !.invoiced = b]
      BY <1>2 DEF OrderRows
    <2> QED BY <1>2, <2>1, <2>2
  <1>5. /\ order' \in [Orders -> {NoOrder} \cup OrderRows] /\ Placed' = Placed
        /\ \A q \in Placed : order'[q].lines = order[q].lines
        /\ order'[o].invoiced = b /\ \A q \in Placed \ {o} : order'[q] = order[q]
    <2> HIDE DEF b
    <2> QED BY <1>1, <1>3, <1>4, RowStep
  <1>6. UNCHANGED <<outboxVars, goods, cart, uses, req, resize, billing, history>>
    BY DEF SetStatus
  <1>7. \A q \in Placed : order'[q].invoiced = order[q].invoiced
    BY <1>5
  <1>8. Billing'
    BY <1>5, <1>6, <1>7 DEF Inv, Billing, InvoicedWithMessage, outboxVars
  <1>9. Outbox!TypeOK' /\ billing' \subseteq Orders
    BY <1>6 DEF Inv, TypeOK, Outbox!TypeOK, outboxVars
  <1> QED BY <1>5, <1>6, <1>8, <1>9, OrderStep

\* The handler passes an invoiced order over and begins another.
LEMMA BeginInvoiceStep == ASSUME Inv, NEW o \in Orders, BeginInvoice(o) PROVE Inv'
  <1>1. o \in open /\ o \in Placed /\ o \notin settled
    BY DEF BeginInvoice, Inv, Billing
  <1>2. ~HasInvoice(o)
    BY <1>1 DEF Inv, Billing, InvoicedWithMessage, HasInvoice
  <1>3. /\ order' = [order EXCEPT ![o].status = "PROCESSING"] /\ billing' = {o}
        /\ UNCHANGED <<outboxVars, goods, cart, uses, req, resize, history>>
    BY <1>2 DEF BeginInvoice
  <1>4. order[o] \in OrderRows /\ order \in [Orders -> {NoOrder} \cup OrderRows]
    BY <1>1, RowFacts DEF Inv, TypeOK, OrderRows
  <1>5. order' = [order EXCEPT ![o].status = "PROCESSING", ![o].invoiced = FALSE]
    <2>1. order[o].invoiced = FALSE
      BY <1>2, <1>4 DEF HasInvoice, OrderRows
    <2>2. [order[o] EXCEPT !.status = "PROCESSING"]
              = [order[o] EXCEPT !.status = "PROCESSING", !.invoiced = FALSE]
      BY <1>4, <2>1 DEF OrderRows
    <2> QED BY <1>3, <1>4, <2>2
  <1>6. "PROCESSING" \in Statuses
    BY DEF Statuses
  <1>7. /\ order' \in [Orders -> {NoOrder} \cup OrderRows] /\ Placed' = Placed
        /\ \A q \in Placed : order'[q].lines = order[q].lines
        /\ order'[o].invoiced = FALSE /\ \A q \in Placed \ {o} : order'[q] = order[q]
    BY <1>1, <1>5, <1>6, RowStep
  <1>8. Billing'
    BY <1>1, <1>3, <1>7 DEF Inv, Billing, InvoicedWithMessage, outboxVars
  <1>9. Outbox!TypeOK' /\ billing' \subseteq Orders
    BY <1>3 DEF Inv, TypeOK, Outbox!TypeOK, outboxVars
  <1> QED BY <1>3, <1>7, <1>8, <1>9, OrderStep

\* The invoice, the order's mark of it and the message are one transaction.
LEMMA InvoiceStep == ASSUME Inv, NEW o \in Orders, Invoice(o) PROVE Inv'
  <1>1. o \in open /\ o \in Placed /\ o \notin settled /\ billing' = {}
    BY DEF Invoice, Inv, Billing
  <1>2. UNCHANGED <<goods, cart, uses, req, resize, history>>
    BY DEF Invoice
  <1>3. order \in [Orders -> {NoOrder} \cup OrderRows]
    BY DEF Inv, TypeOK, OrderRows
  <1>4. CASE /\ order' = [order EXCEPT ![o].status = "INVOICED", ![o].invoiced = TRUE]
             /\ filed' = [filed EXCEPT ![o] = {1}]
             /\ Outbox!File(o)
             /\ open' \subseteq open
    <2>1. "INVOICED" \in Statuses
      BY DEF Statuses
    <2>2. /\ order' \in [Orders -> {NoOrder} \cup OrderRows] /\ Placed' = Placed
          /\ \A q \in Placed : order'[q].lines = order[q].lines
          /\ order'[o].invoiced = TRUE /\ \A q \in Placed \ {o} : order'[q] = order[q]
      BY <1>1, <1>4, <2>1, RowStep
    <2>3. settled' = settled \cup {o} /\ open' = open \ {o}
      BY <1>1, <1>4 DEF Outbox!File, Outbox!Unrequested
    <2>4. Billing'
      BY <1>1, <2>2, <2>3 DEF Inv, Billing, InvoicedWithMessage
    <2>5. Outbox!TypeOK' /\ billing' \subseteq Orders
      <3>1. filed' \in [Orders -> SUBSET Nat]
        BY <1>4 DEF Inv, TypeOK, Outbox!TypeOK
      <3> QED BY <1>1, <2>3, <3>1 DEF Inv, TypeOK, Outbox!TypeOK
    <2> QED BY <1>2, <2>2, <2>4, <2>5, OrderStep
  <1>5. CASE UNCHANGED <<order, outboxVars>>
    <2>1. Placed' = Placed /\ order' = order /\ UNCHANGED outboxVars
      BY <1>5 DEF Placed
    <2>2. Billing'
      BY <1>1, <2>1 DEF Inv, Billing, InvoicedWithMessage, outboxVars
    <2>3. Outbox!TypeOK' /\ billing' \subseteq Orders
      BY <1>1, <2>1 DEF Inv, TypeOK, Outbox!TypeOK, outboxVars
    <2> QED BY <1>2, <1>3, <2>1, <2>2, <2>3, OrderStep
  <1> QED BY <1>4, <1>5 DEF Invoice

-----------------------------------------------------------------------------
(* The theorems                                                            *)

\* The shop opens with everything in stock and nothing ordered.
LEMMA InitInv == Init => Inv
  <1> SUFFICES ASSUME Init PROVE Inv
    OBVIOUS
  <1>1. Placed = {}
    BY DEF Init, Placed
  <1>2. \A x : Ordered(x) = 0 /\ Drawn(x) = 0
    BY <1>1, SumEmpty DEF Ordered, Drawn
  <1>3. TypeOK
    <2>1. cart \in [Members -> [lines : Seq(Line), code : BOOLEAN]]
      <3>1. [lines |-> <<>>, code |-> FALSE] \in [lines : Seq(Line), code : BOOLEAN]
        <4>1. <<>> \in Seq(Line)
          OBVIOUS
        <4> QED BY <4>1
      <3> QED BY <3>1 DEF Init
    <2>2. Outbox!TypeOK
      BY DEF Init, Outbox!Init, Outbox!TypeOK
    <2>3. req \in [Clients -> Requests]
      BY RequestForm DEF Init
    <2>4. Stock \in Nat
      BY ShopAssumption
    <2>5. package \in [Packages -> [total : Nat, sold : Nat]]
      BY <2>4 DEF Init
    <2> QED BY <2>1, <2>2, <2>3, <2>4, <2>5 DEF Init, TypeOK
  <1>4. \A c \in Clients : Sound(req[c])
    <2>1. \A c \in Clients : req[c] = Nothing
      BY DEF Init
    <2>2. Nothing.kind # "order" /\ \A p : Held(Nothing, p) = 0
      BY DEF Nothing, Held
    <2>3. ASSUME NEW p \in Products
          PROVE  0 =< stock[p] /\ (p \in Packages => package[p].sold + 0 =< package[p].total)
      BY ShopAssumption DEF Init
    <2> QED BY <2>1, <2>2, <2>3 DEF Sound, InOrder, Covered, ReadTrue
  <1>5. Apart
    <2>1. \A c \in Clients : req[c] = Nothing
      BY DEF Init
    <2> QED BY <2>1 DEF Apart, Held, Nothing
  <1>6. CartsOffered
    BY DEF Init, CartsOffered
  <1>7. StockConserved /\ OptionsConserved
    BY <1>2, ShopAssumption DEF Init, StockConserved, OptionsConserved
  <1>8. PackagesIssued
    <2>1. ASSUME NEW p \in Packages
          PROVE  SumFunctionOnSet([m \in Members |-> owned[<<m, p>>]], Members) = 0
      <3> DEFINE f == [m \in Members |-> owned[<<m, p>>]]
      <3>1. IsFiniteSet(Members) /\ \A m \in Members : f[m] = 0
        BY ShopAssumption DEF Init
      <3> HIDE DEF f
      <3>2. SumFunctionOnSet(f, Members) = 0
        BY <3>1, SumOfZeros
      <3> QED BY <3>2 DEF f
    <2> QED BY <1>2, <2>1, ShopAssumption DEF Init, PackagesIssued
  <1>9. Billing
    BY <1>1 DEF Init, Outbox!Init, Billing, InvoicedWithMessage
  <1>10. IsFiniteSet(Placed)
    BY <1>1, FS_EmptySet
  <1> QED BY <1>3, <1>4, <1>5, <1>6, <1>7, <1>8, <1>9, <1>10 DEF Inv, Accounts

\* Every step keeps the invariant.
LEMMA NextInv == Inv /\ [Next]_vars => Inv'
  <1> SUFFICES ASSUME Inv, [Next]_vars PROVE Inv'
    OBVIOUS
  <1>1. ASSUME NEW c \in Clients, Serve(c) PROVE Inv'
    <2>1. ASSUME NEW l \in Lines, AddCartItem(c, l) PROVE Inv'
      BY <2>1, AddCartItemStep
    <2>2. ASSUME NEW i \in 1..MaxItems, RemoveCartItem(c, i) PROVE Inv'
      BY <2>2, RemoveCartItemStep
    <2>3. CASE ClearCart(c)
      BY <2>3, ClearCartStep
    <2>4. CASE ApplyDiscount(c)
      BY <2>4, ApplyDiscountStep
    <2>5. CASE BeginOrder(c)
      BY <2>5, BeginOrderStep
    <2>6. CASE TakeStock(c)
      BY <2>6, TakeStockStep
    <2>7. CASE Victim(c) \/ GiveUp(c)
      BY <2>7, RollbackStep DEF Victim, GiveUp
    <2>8. CASE ReadOption(c)
      BY <2>8, ReadOptionStep
    <2>9. CASE WriteOption(c)
      BY <2>9, WriteOptionStep
    <2>10. ASSUME NEW o \in Orders, CommitOrder(c, o) PROVE Inv'
      BY <2>10, CommitOrderStep
    <2> QED BY <1>1, <2>1, <2>2, <2>3, <2>4, <2>5, <2>6, <2>7, <2>8, <2>9, <2>10
            DEF Serve, Checkout
  <1>2. CASE Manage
    <2>1. ASSUME NEW n \in Stocks, NEW p \in Products, SetStock(p, n) PROVE Inv'
      BY <2>1, SetStockStep
    <2>2. ASSUME NEW n \in Stocks, NEW x \in Options, SetOption(x, n) PROVE Inv'
      BY <2>2, SetOptionStep
    <2>3. ASSUME NEW n \in Stocks, NEW p \in Packages, ResizePackage(p, n) PROVE Inv'
      BY <2>3, ResizePackageStep
    <2>4. ASSUME NEW o \in Orders, NEW status \in Resolved, SetStatus(o, status) PROVE Inv'
      BY <2>4, SetStatusStep
    <2> QED BY <1>2, <2>1, <2>2, <2>3, <2>4, ReadSoldStep, SyncStockStep DEF Manage
  <1>3. ASSUME NEW o \in Orders, BeginInvoice(o) \/ Invoice(o) PROVE Inv'
    BY <1>3, BeginInvoiceStep, InvoiceStep
  <1>4. CASE UNCHANGED vars
    <2>1. (\A d \in Clients : Sound(req[d])') /\ Apart'
      BY <1>4, RequestsKept DEF vars, goods, history
    <2>2. TypeOK'
      BY <1>4 DEF Inv, TypeOK, Outbox!TypeOK, vars, outboxVars, goods, history
    <2>3. CartsOffered' /\ Accounts' /\ Billing'
      BY <1>4 DEF Inv, CartsOffered, Accounts, Billing, Placed, StockConserved, OptionsConserved,
           PackagesIssued, InvoicedWithMessage, Ordered, Drawn, vars, goods, history, outboxVars
    <2> QED BY <2>1, <2>2, <2>3 DEF Inv
  <1> QED BY <1>1, <1>2, <1>3, <1>4 DEF Next

\* The invariant holds of every shop: any products, options, members, sessions and orders.
THEOREM InvHolds == Spec => []Inv
  BY InitInv, NextInv, PTL DEF Spec

\* The variables keep their types; of a stock, that is that it never goes below zero.
THEOREM TypeCorrect == Spec => []TypeOK
  <1>1. Inv => TypeOK
    BY DEF Inv
  <1> QED BY <1>1, InvHolds, PTL

\* createOrder's UPDATE of the stock: orders made at once take no more than there is, and all
\* that is ordered came off the stock.
THEOREM StockIsConserved == Spec => []StockConserved
  <1>1. Inv => StockConserved
    BY DEF Inv, Accounts
  <1> QED BY <1>1, InvHolds, PTL

\* createOrder's SELECT and UPDATE of an option, which no lock of its own protects: no order
\* overwrites what another has taken, as the row of the product keeps them apart.
THEOREM OptionsAreConserved == Spec => []OptionsConserved
  <1>1. Inv => OptionsConserved
    BY DEF Inv, Accounts
  <1> QED BY <1>1, InvHolds, PTL

\* A package is sold, issued and taken from what is available in the same measure.
THEOREM PackagesAreIssued == Spec => []PackagesIssued
  <1>1. Inv => PackagesIssued
    BY DEF Inv, Accounts
  <1> QED BY <1>1, InvHolds, PTL

\* An order has its invoice exactly when its message is settled, whatever the admins do to
\* its status.
THEOREM OrdersInvoicedOnce == Spec => []InvoicedWithMessage
  <1>1. Inv => InvoicedWithMessage
    BY DEF Inv, Billing
  <1> QED BY <1>1, InvHolds, PTL

=============================================================================
