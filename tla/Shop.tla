--------------------------------- MODULE Shop ---------------------------------
(***************************************************************************)
(* The club's shop: carts and orders (routes/shop/api.ts,                  *)
(* db/shop-queries.ts), the prepaid packages an order issues               *)
(* (db/prepaid-hours-queries.ts, V820), the store admin's edits of stock   *)
(* and status, and the handler that invoices an order                      *)
(* (simplbooksOutboxHandler.ts).                                           *)
(*                                                                         *)
(* An order is one transaction of many statements.  What it has written is *)
(* its own until it commits, and the rows it has written are locked until  *)
(* then: another's UPDATE of such a row waits and then sees what was       *)
(* committed, a SELECT does not wait.  Composed with OutboxPromise, as     *)
(* MemberFees is.                                                          *)
(***************************************************************************)
EXTENDS Integers, Sequences, SequencesExt, FiniteSets

CONSTANTS
    Orders,         \* orders, in the order they are committed, with their outbox messages
    Products,       \* products on sale
    Packages,       \* those that are flight hour packages
    Options,        \* options whose stock is counted
    Members,        \* members who shop
    Clients,        \* their browser sessions with a request open, one each
    Who,            \* client -> member
    Lines,          \* what a member may put in the cart: [product, option, quantity]
    Price,          \* product -> its price
    Discount,       \* the amount the club's discount code takes off
    Insiders,       \* members who know the code
    MaxUses,        \* the orders that may use the code
    MaxOwned,       \* max_order_quantity of a package
    Stock,          \* the stock of every product and option when the shop opens
    Stocks,         \* bounds the stock an admin sets
    Resolved,       \* bounds the statuses an admin sets
    MaxItems        \* bounds a cart

NoOption == "none"
Statuses == {"PENDING", "PROCESSING", "INVOICED", "INVOICE_PAID", "CANCELLED", "REFUNDED"}

\* An option belongs to one product, and a cart line to an option of its product (V800,
\* validateSelectedOptionsStock).
ASSUME ShopAssumption ==
    /\ Orders \subseteq Nat \ {0}
    /\ Packages \subseteq Products
    /\ Who \in [Clients -> Members]
    /\ NoOption \notin Options /\ Products \cap Options = {}
    /\ Lines \subseteq [product : Products, option : Options \cup {NoOption}, quantity : Nat \ {0}]
    /\ \A l, k \in Lines : l.option = k.option /\ l.option # NoOption => l.product = k.product
    /\ IsFiniteSet(Members)
    /\ Price \in [Products -> Nat]
    /\ Insiders \subseteq Members
    /\ Discount \in Nat /\ MaxUses \in Nat /\ MaxOwned \in Nat /\ MaxItems \in Nat
    /\ Stock \in Nat /\ Stocks \subseteq Nat
    /\ Resolved \subseteq Statuses

VARIABLES
    open, settled, filed,   \* the outbox, as OutboxPromise describes it: a message for each order
    stock,                  \* shop.products.stock_quantity
    option,                 \* shop.product_property_options.stock_quantity
    package,                \* prepaid.packages: [total, sold]
    owned,                  \* prepaid.member_packages: <<member, package>> -> how many
    cart,                   \* member -> [lines, code : whether the discount code is applied]
    uses,                   \* shop.discount_codes.uses_count
    order,                  \* shop.orders with their lines
    req,                    \* client -> the request it has open
    resize,                 \* the package an admin is resizing, and what was read for it
    billing,                \* orders whose handler has set PROCESSING and not invoiced yet
    supplied,               \* history: what admins have put in stock, of products and options
    overtaken               \* history: options an admin set while an order had read them

outboxVars == <<open, settled, filed>>
goods == <<stock, option, package, owned>>
history == <<supplied, overtaken>>
vars == <<outboxVars, goods, cart, uses, order, req, resize, billing, history>>

Outbox == INSTANCE OutboxPromise WITH Ids <- Orders

-----------------------------------------------------------------------------

Line == [product : Products, option : Options \cup {NoOption}, quantity : Nat \ {0}]
NoOrder == [status |-> "NONE"]
Nothing == [kind |-> "none"]
Unread == -1

\* taken: the lines whose stock is taken; drawn: those whose option is; seen: what the
\* SELECT of the next option saw; left: what the transaction has written of options.
Requests ==
    {Nothing}
    \cup [kind : {"order"}, lines : Seq(Line), code : BOOLEAN, taken : Nat, drawn : Nat,
          seen : Nat \cup {Unread}, left : [Options -> Nat \cup {Unread}]]

TypeOK ==
    /\ Outbox!TypeOK
    /\ stock \in [Products -> Nat]
    /\ option \in [Options -> Nat]
    /\ package \in [Packages -> [total : Nat, sold : Nat]]
    /\ owned \in [Members \X Packages -> Nat]
    /\ cart \in [Members -> [lines : Seq(Line), code : BOOLEAN]]
    /\ uses \in Nat
    /\ order \in [Orders -> {NoOrder} \cup
           [status : Statuses, owner : Members, lines : Seq(Line), code : BOOLEAN, invoiced : BOOLEAN]]
    /\ req \in [Clients -> Requests]
    /\ resize \in {Nothing} \cup [kind : {"total"}, product : Packages, total : Nat]
                            \cup [kind : {"stock"}, product : Packages, total : Nat, sold : Nat]
    /\ billing \subseteq Orders
    /\ supplied \in [Products \cup Options -> Int]
    /\ overtaken \subseteq Options

\* Every package on sale is in stock.
Init ==
    /\ Outbox!Init
    /\ stock = [p \in Products |-> Stock]
    /\ option = [x \in Options |-> Stock]
    /\ package = [p \in Packages |-> [total |-> Stock, sold |-> 0]]
    /\ owned = [mp \in Members \X Packages |-> 0]
    /\ cart = [m \in Members |-> [lines |-> <<>>, code |-> FALSE]]
    /\ uses = 0
    /\ order = [o \in Orders |-> NoOrder]
    /\ req = [c \in Clients |-> Nothing]
    /\ resize = Nothing
    /\ billing = {}
    /\ supplied = [x \in Products \cup Options |-> Stock]
    /\ overtaken = {}

\* What the lines numbered in I add up to, and of them what is of one product or option.
Quantity(lines, I) == SumFunctionOnSet([i \in DOMAIN lines |-> lines[i].quantity], I)
OfProduct(lines, p) == Quantity(lines, {i \in DOMAIN lines : lines[i].product = p})
OfOption(lines, x) == Quantity(lines, {i \in DOMAIN lines : lines[i].option = x})

-----------------------------------------------------------------------------
(* The cart.  A request on it is one step: what two tabs of one member do  *)
(* to a cart at once is not kept.                                          *)

Asks(c, kind) == req[c].kind = kind
Open(c, r) == Asks(c, "none") /\ req' = [req EXCEPT ![c] = r]
Done(c) == req' = [req EXCEPT ![c] = Nothing]

\* Bound: carts are filled, and orders begun, while there are orders to name.
Unordered == Cardinality({o \in Orders : order[o] = NoOrder})

\* The stock a product shows: of a package, what the package definition leaves.
Shown(p) == IF p \in Packages THEN package[p].total - package[p].sold ELSE stock[p]

\* The limits on a cart line of quantity n, checked again when the order is made.
InLimit(m, p, n) == p \in Packages => n =< MaxOwned /\ owned[<<m, p>>] + n =< MaxOwned
Fits(m, l, n) ==
    /\ n =< Shown(l.product)
    /\ l.option # NoOption => n =< option[l.option]
    /\ InLimit(m, l.product, n)

Same(lines, l) == {i \in DOMAIN lines : lines[i].product = l.product /\ lines[i].option = l.option}
WithLine(lines, l) ==
    IF Same(lines, l) = {} THEN Append(lines, l)
    ELSE [i \in DOMAIN lines |-> IF i \in Same(lines, l)
             THEN [lines[i] EXCEPT !.quantity = @ + l.quantity] ELSE lines[i]]

\* addCartItem: a line of the same product and option grows.
AddCartItem(c, l) ==
    LET m == Who[c]
        lines == cart[m].lines IN
    /\ Asks(c, "none") /\ Unordered > 0
    /\ Quantity(lines, DOMAIN lines) + l.quantity =< MaxItems
    /\ Same(lines, l) = {} => Fits(m, l, l.quantity)
    /\ \A i \in Same(lines, l) : Fits(m, l, lines[i].quantity + l.quantity)
    /\ cart' = [cart EXCEPT ![m].lines = WithLine(lines, l)]
    /\ UNCHANGED <<outboxVars, goods, uses, order, req, resize, billing, history>>

\* removeCartItem, and updateCartItem to 0; another quantity is an item removed and added.
RemoveCartItem(c, i) ==
    /\ Asks(c, "none")
    /\ i \in DOMAIN cart[Who[c]].lines
    /\ cart' = [cart EXCEPT ![Who[c]].lines = RemoveAt(@, i)]
    /\ UNCHANGED <<outboxVars, goods, uses, order, req, resize, billing, history>>

\* clearCart
ClearCart(c) ==
    /\ Asks(c, "none")
    /\ cart' = [cart EXCEPT ![Who[c]] = [lines |-> <<>>, code |-> FALSE]]
    /\ UNCHANGED <<outboxVars, goods, uses, order, req, resize, billing, history>>

\* applyDiscountToCart, of the code or of none.
ApplyDiscount(c) ==
    LET m == Who[c] IN
    /\ Asks(c, "none")
    /\ ~cart[m].code => uses < MaxUses /\ cart[m].lines # <<>> /\ m \in Insiders
    /\ cart' = [cart EXCEPT ![m].code = ~@]
    /\ UNCHANGED <<outboxVars, goods, uses, order, req, resize, billing, history>>

-----------------------------------------------------------------------------
(* An order                                                                *)

\* The cart is read and its limits and its code are checked, ahead of the transaction.
BeginOrder(c) ==
    LET m == Who[c]
        lines == cart[m].lines IN
    /\ Unordered > Cardinality({d \in Clients : Asks(d, "order")})
    /\ lines # <<>>
    /\ \A i \in DOMAIN lines : InLimit(m, lines[i].product, lines[i].quantity)
    /\ cart[m].code => uses < MaxUses
    /\ Open(c, [kind |-> "order", lines |-> lines, code |-> cart[m].code, taken |-> 0,
                drawn |-> 0, seen |-> Unread, left |-> [x \in Options |-> Unread]])
    /\ UNCHANGED <<outboxVars, goods, cart, uses, order, resize, billing, history>>

\* What the transaction of c has taken of p so far, and whether the row of p is locked for d.
Taken(c, p) ==
    IF Asks(c, "order")
    THEN Quantity(req[c].lines, {i \in 1..req[c].taken : req[c].lines[i].product = p})
    ELSE 0
Locked(p, d) == \E c \in Clients \ {d} : Taken(c, p) > 0
OptionLocked(x, d) == \E c \in Clients \ {d} : Asks(c, "order") /\ req[c].left[x] # Unread

\* The transaction rolls back.
Rollback(c) ==
    /\ Done(c)
    /\ UNCHANGED <<outboxVars, goods, cart, uses, order, resize, billing, history>>

NextLine(c) == req[c].lines[req[c].taken + 1]
AllTaken(c) == req[c].taken = Len(req[c].lines)
AllDrawn(c) == req[c].drawn = Len(req[c].lines)

\* Mutant of TakeStock: the UPDATE does not ask whether there is enough.
TakeStock_Any(c) ==
    LET p == NextLine(c).product IN
    /\ Asks(c, "order")
    /\ ~AllTaken(c)
    /\ ~Locked(p, c)
    /\ IF p \in Packages => package[p].sold + Taken(c, p) + NextLine(c).quantity =< package[p].total
       THEN /\ req' = [req EXCEPT ![c].taken = @ + 1]
            /\ UNCHANGED <<outboxVars, goods, cart, uses, order, resize, billing, history>>
       ELSE Rollback(c)

\* The stock of the next line is taken by an UPDATE that asks for enough of it, and of a
\* package the definition counts it as sold, no more than chk_sold_not_exceed_total allows.
TakeStock(c) ==
    LET l == NextLine(c)
        p == l.product
        mine == Taken(c, p) IN
    /\ Asks(c, "order")
    /\ ~AllTaken(c)
    /\ ~Locked(p, c)
    /\ IF /\ stock[p] - mine >= l.quantity
          /\ p \in Packages => package[p].sold + mine + l.quantity =< package[p].total
       THEN /\ req' = [req EXCEPT ![c].taken = @ + 1]
            /\ UNCHANGED <<outboxVars, goods, cart, uses, order, resize, billing, history>>
       ELSE Rollback(c)

\* PostgreSQL finds two orders waiting for each other's products and ends one of them.
Waits(c, d) ==
    /\ Asks(c, "order") /\ ~AllTaken(c)
    /\ Taken(d, NextLine(c).product) > 0
Victim(c) ==
    /\ \E d \in Clients \ {c} : Waits(c, d) /\ Waits(d, c)
    /\ Rollback(c)

\* Mutant of ReadOption: options are read ahead of the lock that keeps their readers apart.
ReadOption_Early(c) ==
    LET l == req[c].lines[req[c].drawn + 1] IN
    /\ Asks(c, "order")
    /\ ~AllDrawn(c)
    /\ req[c].seen = Unread
    /\ req' = IF l.option = NoOption THEN [req EXCEPT ![c].drawn = @ + 1]
              ELSE [req EXCEPT ![c].seen =
                       IF req[c].left[l.option] # Unread THEN req[c].left[l.option]
                       ELSE option[l.option]]
    /\ UNCHANGED <<outboxVars, goods, cart, uses, order, resize, billing, history>>

\* The SELECT of a line's option, after all lines' stock is taken.
ReadOption(c) ==
    LET l == req[c].lines[req[c].drawn + 1] IN
    /\ Asks(c, "order")
    /\ AllTaken(c) /\ ~AllDrawn(c)
    /\ req[c].seen = Unread
    /\ req' = IF l.option = NoOption THEN [req EXCEPT ![c].drawn = @ + 1]
              ELSE [req EXCEPT ![c].seen =
                       IF req[c].left[l.option] # Unread THEN req[c].left[l.option]
                       ELSE option[l.option]]
    /\ UNCHANGED <<outboxVars, goods, cart, uses, order, resize, billing, history>>

\* The UPDATE of the option to what was seen less the quantity, however it reads by now.
WriteOption(c) ==
    LET l == req[c].lines[req[c].drawn + 1] IN
    /\ Asks(c, "order")
    /\ req[c].seen # Unread
    /\ ~OptionLocked(l.option, c)
    /\ IF req[c].seen < l.quantity THEN Rollback(c)
       ELSE /\ req' = [req EXCEPT ![c].drawn = @ + 1, ![c].seen = Unread,
                                  ![c].left[l.option] = req[c].seen - l.quantity]
            /\ UNCHANGED <<outboxVars, goods, cart, uses, order, resize, billing, history>>

\* Mutant of IssuedBy: a line issues one package, whatever its quantity.
IssuedBy_Lines(c, p) == Cardinality({i \in DOMAIN req[c].lines : req[c].lines[i].product = p})

\* The member packages an order of c issues.
IssuedBy(c, p) == OfProduct(req[c].lines, p)

\* The order, its message, its packages and the use of the code are there, and the cart is
\* empty, with what was put into it meanwhile.
CommitOrder(c, o) ==
    LET m == Who[c]
        lines == req[c].lines IN
    /\ Asks(c, "order")
    /\ AllTaken(c) /\ AllDrawn(c)
    /\ order[o] = NoOrder /\ \A q \in Orders : order[q] = NoOrder => o =< q
    /\ order' = [order EXCEPT ![o] = [status |-> "PENDING", owner |-> m, lines |-> lines,
                                      code |-> req[c].code, invoiced |-> FALSE]]
    /\ stock' = [p \in Products |-> stock[p] - OfProduct(lines, p)]
    /\ option' = [x \in Options |-> IF req[c].left[x] = Unread THEN option[x] ELSE req[c].left[x]]
    /\ package' = [p \in Packages |-> [package[p] EXCEPT !.sold = @ + OfProduct(lines, p)]]
    /\ owned' = [mp \in Members \X Packages |->
                     owned[mp] + IF mp[1] = m THEN IssuedBy(c, mp[2]) ELSE 0]
    /\ uses' = IF req[c].code THEN uses + 1 ELSE uses
    /\ Outbox!Request(o)
    /\ cart' = [cart EXCEPT ![m] = [lines |-> <<>>, code |-> FALSE]]
    /\ Done(c)
    /\ UNCHANGED <<resize, billing, history>>

\* The backend dies, or a statement fails.
GiveUp(c) == Asks(c, "order") /\ Rollback(c)

-----------------------------------------------------------------------------
(* The store admin                                                         *)

Supply(x, n) == supplied' = [supplied EXCEPT ![x] = @ + n]

\* updateProduct, which waits for an order that has the row.
SetStock(p, n) ==
    /\ p \notin Packages
    /\ ~\E c \in Clients : Taken(c, p) > 0
    /\ stock' = [stock EXCEPT ![p] = n]
    /\ Supply(p, n - stock[p])
    /\ UNCHANGED <<outboxVars, option, package, owned, cart, uses, order, req, resize, billing, overtaken>>

\* upsertProductProperty on an option; an order that has read it writes over it.
SetOption(x, n) ==
    /\ \A c \in Clients : Asks(c, "order") => req[c].left[x] = Unread
    /\ option' = [option EXCEPT ![x] = n]
    /\ Supply(x, n - option[x])
    /\ overtaken' = IF \E c \in Clients : Asks(c, "order") /\ req[c].seen # Unread
                    THEN overtaken \cup {x} ELSE overtaken
    /\ UNCHANGED <<outboxVars, stock, package, owned, cart, uses, order, req, resize, billing>>

\* updatePrepaidPackage, three statements: the definition's total, a read of what is sold,
\* and the product's stock.
ResizePackage(p, n) ==
    /\ resize = Nothing
    /\ ~\E c \in Clients : Taken(c, p) > 0
    /\ n >= package[p].sold
    /\ package' = [package EXCEPT ![p].total = n]
    /\ resize' = [kind |-> "total", product |-> p, total |-> n]
    /\ UNCHANGED <<outboxVars, stock, option, owned, cart, uses, order, req, billing, history>>

ReadSold ==
    /\ resize.kind = "total"
    /\ resize' = [kind |-> "stock", product |-> resize.product, total |-> resize.total,
                  sold |-> package[resize.product].sold]
    /\ UNCHANGED <<outboxVars, goods, cart, uses, order, req, billing, history>>

SyncStock ==
    LET p == resize.product
        left == resize.total - resize.sold
        n == IF left < 0 THEN 0 ELSE left IN
    /\ resize.kind = "stock"
    /\ ~\E c \in Clients : Taken(c, p) > 0
    /\ stock' = [stock EXCEPT ![p] = n]
    /\ Supply(p, n - stock[p])
    /\ resize' = Nothing
    /\ UNCHANGED <<outboxVars, option, package, owned, cart, uses, order, req, billing, overtaken>>

\* updateOrderStatus: any status, whatever it was.
SetStatus(o, status) ==
    /\ order[o] # NoOrder
    /\ order' = [order EXCEPT ![o].status = status]
    /\ UNCHANGED <<outboxVars, goods, cart, uses, req, resize, billing, history>>

-----------------------------------------------------------------------------
(* createShopOrderInvoice                                                  *)

\* Mutant of HasInvoice: the handler goes by the order's status.
HasInvoice_Status(o) == order[o].status \in {"INVOICED", "INVOICE_PAID"}

HasInvoice(o) == order[o].invoiced

\* An order that has its invoice is passed over; another is PROCESSING from here.
BeginInvoice(o) ==
    /\ o \in open
    /\ billing = {}
    /\ IF HasInvoice(o)
       THEN Outbox!Close(o) /\ UNCHANGED <<order, billing>>
       ELSE /\ order' = [order EXCEPT ![o].status = "PROCESSING"]
            /\ billing' = {o}
            /\ UNCHANGED outboxVars
    /\ UNCHANGED <<goods, cart, uses, req, resize, history>>

\* createInvoice with the order's id and status in one transaction, or nothing of it: what
\* becomes of an invoice that SimplBooks made and the club lost is SimplbooksOutbox's.
Invoice(o) ==
    /\ o \in billing
    /\ billing' = {}
    /\ \/ /\ order' = [order EXCEPT ![o].status = "INVOICED", ![o].invoiced = TRUE]
          /\ filed' = [filed EXCEPT ![o] = {1}]
          /\ Outbox!File(o)
          /\ open' \subseteq open
       \/ UNCHANGED <<order, outboxVars>>
    /\ UNCHANGED <<goods, cart, uses, req, resize, history>>

-----------------------------------------------------------------------------

Checkout(c) ==
    \/ TakeStock(c) \/ Victim(c) \/ ReadOption(c) \/ WriteOption(c)
    \/ \E o \in Orders : CommitOrder(c, o)

Serve(c) ==
    \/ \E l \in Lines : AddCartItem(c, l)
    \/ \E i \in 1..MaxItems : RemoveCartItem(c, i)
    \/ ClearCart(c)
    \/ ApplyDiscount(c)
    \/ BeginOrder(c)
    \/ Checkout(c)
    \/ GiveUp(c)

Manage ==
    \/ \E n \in Stocks :
        \/ \E p \in Products : SetStock(p, n)
        \/ \E x \in Options : SetOption(x, n)
        \/ \E p \in Packages : ResizePackage(p, n)
    \/ ReadSold \/ SyncStock
    \/ \E o \in Orders, status \in Resolved : SetStatus(o, status)

Next ==
    \/ \E c \in Clients : Serve(c)
    \/ Manage
    \/ \E o \in Orders : BeginInvoice(o) \/ Invoice(o)

Spec == Init /\ [][Next]_vars

-----------------------------------------------------------------------------
(* Properties                                                              *)

Placed == {o \in Orders : order[o] # NoOrder}
Ordered(p) == SumFunctionOnSet([o \in Placed |-> OfProduct(order[o].lines, p)], Placed)
Drawn(x) == SumFunctionOnSet([o \in Placed |-> OfOption(order[o].lines, x)], Placed)

\* What is in stock and what is ordered is what the admins put in: no order takes what
\* another has taken, and none takes more than there is.
StockConserved == \A p \in Products : stock[p] >= 0 /\ stock[p] + Ordered(p) = supplied[p]

\* The same of options, although they are read without a lock and written as a number:
\* the product's row, locked by then, keeps orders of the option apart.
OptionsConserved ==
    \A x \in Options \ overtaken : option[x] >= 0 /\ option[x] + Drawn(x) = supplied[x]

\* A package is counted as sold, issued to the members who ordered it and taken from what
\* is available in the same measure ("Prevent overselling", V820), also while an admin
\* resizes it and its product's stock lags behind.
PackagesIssued ==
    \A p \in Packages :
        /\ package[p].sold = Ordered(p)
        /\ package[p].sold = SumFunctionOnSet([m \in Members |-> owned[<<m, p>>]], Members)
        /\ package[p].sold =< package[p].total

\* An order has its invoice exactly when its message is settled, whatever status the
\* admins have given it by then.
InvoicedWithMessage == \A o \in Placed : order[o].invoiced <=> o \in settled

-----------------------------------------------------------------------------
(* What the club tells its members and does not do.                        *)

Worth(o) ==
    LET lines == order[o].lines IN
    SumFunctionOnSet([i \in DOMAIN lines |-> lines[i].quantity * Price[lines[i].product]], DOMAIN lines)

\* totalAmount of the order, and what the tasks of its invoice add up to.
TotalAmount(o) ==
    Worth(o) - (IF ~order[o].code THEN 0 ELSE IF Discount < Worth(o) THEN Discount ELSE Worth(o))
InvoiceAmount(o) == Worth(o)

\* "**Order total:** (euro) {{totalAmount}}" (templates/shop-order-confirmation-en.md:15):
\* an order is invoiced at the total its confirmation names.
BilledAsConfirmed == \A o \in Placed : order[o].invoiced => InvoiceAmount(o) = TotalAmount(o)

=============================================================================
