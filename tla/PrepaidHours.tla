----------------------------- MODULE PrepaidHours -----------------------------
(***************************************************************************)
(* A member's prepaid flight hours and the invoices that draw on them:     *)
(* the allocator (services/accounting/flightPrepaidAllocator.ts), the      *)
(* lines it puts on the invoice (flightInvoiceCreator.ts) and the handler  *)
(* that plans, has the invoice made and applies the plan in one            *)
(* transaction (createFlightInvoice).                                      *)
(*                                                                         *)
(* The allocator treats members one by one, so one member is enough; the   *)
(* member's messages are two when two runs have listed flights of theirs.  *)
(***************************************************************************)
EXTENDS Integers, FiniteSets, Functions

CONSTANTS
    Packages,       \* the member's packages, in the order of their ids
    AircraftOf,     \* package -> aircraft
    Flights,        \* the flights to be invoiced, in the order of their take-offs
    MessageOf,      \* flight -> the outbox message that lists it
    Sorts,          \* what a flight may be: [aircraft, mins, credited, local, billable, exempt]
    MinBillable,    \* MIN_BILLABLE_FLIGHT_MINS
    Workers,        \* backend processes: two while a deployment overlaps
    Minutes,        \* minutes a package comes with
    Days            \* bounds the days

ASSUME PrepaidHoursAssumption ==
    /\ Packages \subseteq Nat /\ Flights \subseteq Nat /\ Days \subseteq Nat
    /\ IsFiniteSet(Packages) /\ IsFiniteSet(Flights)
    /\ Minutes \subseteq Nat \ {0}
    /\ MinBillable \in Nat
    /\ DOMAIN AircraftOf = Packages /\ DOMAIN MessageOf = Flights
    /\ \A s \in Sorts : s.mins \in Nat /\ s.credited \in Nat

VARIABLES
    flown,      \* the payloads: flight -> its sort
    day,        \* today
    package,    \* prepaid.member_packages: [total, used, expires, expired], NotBought
    log,        \* prepaid.usage_log: <<flight, package>> -> minutes
    billed,     \* flight -> minutes its invoice charges at the aircraft's price, Unbilled
    planned     \* worker -> the plan its open transaction holds, NoPlan

hoursVars == <<flown, day, package, log, billed, planned>>

NotBought == [total |-> 0, used |-> 0, expires |-> 0, expired |-> TRUE]
NoPlan == <<>>
Unbilled == -1

Listings == {MessageOf[f] : f \in Flights}
Listed(m) == {f \in Flights : MessageOf[f] = m}
Draws == Flights \X Packages
Left(p) == package[p].total - package[p].used

HoursInit ==
    /\ flown \in [Flights -> Sorts]
    /\ day = CHOOSE d \in Days : \A e \in Days : d =< e
    /\ package = [p \in Packages |-> NotBought]
    /\ log = [u \in Draws |-> 0]
    /\ billed = [f \in Flights |-> Unbilled]
    /\ planned = [w \in Workers |-> NoPlan]

-----------------------------------------------------------------------------
(* The allocator                                                           *)

Least(a, b) == IF a < b THEN a ELSE b
Positive(n) == IF n > 0 THEN n ELSE 0

\* computeTopUpMins: a local flight is billed for the least time, unless excepted.
TopUp(f) ==
    LET s == flown[f] IN
    IF s.billable /\ ~s.exempt /\ s.local THEN Positive(MinBillable - s.mins) ELSE 0

\* getPackageEligibleMinutes
Eligible(f) ==
    IF flown[f].billable THEN Positive(flown[f].mins + TopUp(f) - flown[f].credited) ELSE 0

\* loadActivePackagesForMember
Active == {p \in Packages : ~package[p].expired /\ package[p].expires >= day /\ Left(p) > 0}

\* The uses a plan of m can make, flights by take-off and packages as they are loaded.
Pairs(m) == {u \in Listed(m) \X Active : AircraftOf[u[2]] = flown[u[1]].aircraft}

\* Mutant of Before: packages are taken as they were bought.
Before_Bought(u, v) == u[1] < v[1] \/ (u[1] = v[1] /\ u[2] < v[2])

Before(u, v) ==
    \/ u[1] < v[1]
    \/ u[1] = v[1] /\ package[u[2]].expires < package[v[2]].expires
    \/ u[1] = v[1] /\ package[u[2]].expires = package[v[2]].expires /\ u[2] < v[2]

OfFlight(uses, f) == SumFunctionOnSet(uses, {f} \X Packages)
OfPackage(uses, p) == SumFunctionOnSet(uses, Flights \X {p})

\* The last of some uses in that order.
Latest(S) == CHOOSE u \in S : \A v \in S \ {u} : Before(v, u)

\* A flight takes what it still needs of what a package still has.
Take(uses, u) ==
    [uses EXCEPT ![u] = Least(Left(u[2]) - OfPackage(uses, u[2]),
                              Eligible(u[1]) - OfFlight(uses, u[1]))]

\* planPrepaidFlightUsage: the uses that a plan can make are made one after the other.
Allocate(m) ==
    LET plan[S \in SUBSET Pairs(m)] ==
            IF S = {} THEN [u \in Draws |-> 0] ELSE Take(plan[S \ {Latest(S)}], Latest(S)) IN
    plan[Pairs(m)]

\* Mutant of ResidualTopUp: the top-up is always billed at the aircraft's price.
ResidualTopUp_Full(f, prepaid) == TopUp(f)

\* The part of the top-up that no package covers: a package covers time flown first.
ResidualTopUp(f, prepaid) ==
    Positive(TopUp(f) - Positive(prepaid - (flown[f].mins - flown[f].credited)))

\* createTasksForFlight: minutes at the aircraft's price, less those credited; a line of no
\* minutes, or fewer, is not written.  A flight that is not billable is discounted whole.
Charged(f, prepaid) ==
    LET s == flown[f]
        topUp == ResidualTopUp(f, prepaid)
        standard == Eligible(f) - prepaid IN
    IF ~s.billable THEN 0
    ELSE Positive(standard - topUp + s.credited) + Positive(topUp) - Positive(s.credited)

-----------------------------------------------------------------------------
(* The handler's transaction                                               *)

Busy(w) == planned[w] # NoPlan
Locked(w) == UNION {planned[v].rows : v \in {x \in Workers \ {w} : Busy(x)}}
Invoiced(m) == \A f \in Listed(m) : billed[f] # Unbilled

\* Mutant of Plan: the packages are read without FOR UPDATE.
Plan_Unlocked(w, m) ==
    /\ ~Busy(w) /\ ~Invoiced(m)
    /\ \A v \in Workers : Busy(v) => planned[v].msg # m
    /\ \A f \in Listed(m) : flown[f].credited =< flown[f].mins
    /\ planned' = [planned EXCEPT ![w] = [msg |-> m, rows |-> Active, uses |-> Allocate(m)]]
    /\ UNCHANGED <<flown, day, package, log, billed>>

\* The member's packages are locked, the plan is made on them.  A flight credited with more
\* than was flown makes the handler throw.
Plan(w, m) ==
    /\ ~Busy(w) /\ ~Invoiced(m)
    /\ \A v \in Workers : Busy(v) => planned[v].msg # m
    /\ Active \cap Locked(w) = {}
    /\ \A f \in Listed(m) : flown[f].credited =< flown[f].mins
    /\ planned' = [planned EXCEPT ![w] = [msg |-> m, rows |-> Active, uses |-> Allocate(m)]]
    /\ UNCHANGED <<flown, day, package, log, billed>>

\* No package gives more than it has left.
Fits(uses) == \A p \in Packages : OfPackage(uses, p) =< Left(p)

\* SimplBooks has made the invoice; the plan is applied, or what has been done is undone.
Apply(w) ==
    LET uses == planned[w].uses
        m == planned[w].msg IN
    /\ Busy(w)
    /\ IF Fits(uses)
       THEN /\ package' = [p \in Packages |->
                  LET used == package[p].used + OfPackage(uses, p) IN
                  IF OfPackage(uses, p) = 0 THEN package[p]
                  ELSE [package[p] EXCEPT !.used = used, !.expired = used >= package[p].total]]
            /\ log' = [u \in Draws |-> log[u] + uses[u]]
            /\ billed' = [f \in Flights |->
                  IF f \in Listed(m) THEN Charged(f, OfFlight(uses, f)) ELSE billed[f]]
       ELSE UNCHANGED <<package, log, billed>>
    /\ planned' = [planned EXCEPT ![w] = NoPlan]
    /\ UNCHANGED <<flown, day>>

\* SimplBooks refuses, or the process dies: the transaction is rolled back and the message
\* can be handled again.
Fail(w) ==
    /\ Busy(w)
    /\ planned' = [planned EXCEPT ![w] = NoPlan]
    /\ UNCHANGED <<flown, day, package, log, billed>>

-----------------------------------------------------------------------------
(* Around it                                                               *)

\* An order issues a package (createOrderFromCart).
Buy(p) ==
    /\ package[p] = NotBought
    /\ \A q \in Packages : q < p => package[q] # NotBought
    /\ \E n \in Minutes, d \in Days :
           package' = [package EXCEPT ![p] = [total |-> n, used |-> 0, expires |-> d, expired |-> FALSE]]
    /\ UNCHANGED <<flown, day, log, billed, planned>>

\* extendExpiryForAircraft, which waits for the rows a handler has locked.
Extend(a) ==
    LET rows == {p \in Packages : AircraftOf[p] = a /\ ~package[p].expired} IN
    /\ rows # {}
    /\ \A w \in Workers : Busy(w) => planned[w].rows \cap rows = {}
    /\ \A p \in rows : package[p].expires + 1 \in Days
    /\ package' = [p \in Packages |->
                       IF p \in rows THEN [package[p] EXCEPT !.expires = @ + 1] ELSE package[p]]
    /\ UNCHANGED <<flown, day, log, billed, planned>>

Midnight ==
    /\ day + 1 \in Days
    /\ day' = day + 1
    /\ UNCHANGED <<flown, package, log, billed, planned>>

HoursNext ==
    \/ \E w \in Workers : Apply(w) \/ Fail(w) \/ \E m \in Listings : Plan(w, m)
    \/ \E p \in Packages : Buy(p) \/ Extend(AircraftOf[p])
    \/ Midnight

HoursSpec == HoursInit /\ [][HoursNext]_hoursVars

-----------------------------------------------------------------------------
(* Properties                                                              *)

\* What a plan was made on is still there when the invoice has come back, although another
\* process plans for the same member and an admin extends packages: SimplBooks has the
\* invoice by then, and a plan that no longer fits would leave it without the flights.
PlanStillFits == \A w \in Workers : Busy(w) => Fits(planned[w].uses)

\* The minutes a flight's invoice charges at the aircraft's price, through top-up, credit
\* and the lines left out for having no minutes, are those its packages did not give.
BilledInFull ==
    \A f \in Flights : billed[f] # Unbilled =>
        /\ billed[f] + OfFlight(log, f) = Eligible(f)
        /\ billed[f] >= 0

\* A plan takes the package that expires first to its end before it touches the next, none
\* before the flight's own aircraft's, and leaves none with minutes that a flight needs: what
\* the packages of an aircraft give is what a single sum over them would give.
OldestFirst ==
    \A w \in Workers : Busy(w) =>
        \A p \in planned[w].rows :
            LET peers == {q \in planned[w].rows : AircraftOf[q] = AircraftOf[p]}
                older == {q \in peers : \/ package[q].expires < package[p].expires
                                        \/ package[q].expires = package[p].expires /\ q < p}
                due == SumFunctionOnSet([f \in Flights |-> Eligible(f)],
                                        {f \in Listed(planned[w].msg) :
                                            flown[f].aircraft = AircraftOf[p]})
                before == SumFunctionOnSet([q \in Packages |-> Left(q)], older) IN
            OfPackage(planned[w].uses, p) = Least(Left(p), Positive(due - before))

=============================================================================
