--------------------------- MODULE MemberFees_proofs ---------------------------
(***************************************************************************)
(* Proofs about MemberFees for any members, clients, messages and years.   *)
(* Two halves hardly touch: who has been queued depends on the runs and    *)
(* their messages, what has been charged on the fee rows and the invoices. *)
(* Each half has a frame lemma for the steps of the other.                 *)
(***************************************************************************)
EXTENDS MemberFees, TLAPS

USE IdsAssumption, YearsAssumption, FeesAssumption

\* Message n is the annual fee of m, queued by the run of y.
Queued(n, m, y) ==
    /\ Sent(n)
    /\ msg[n].kind = "ANNUAL_MEMBERSHIP_FEE"
    /\ msg[n].member = m
    /\ msg[n].run = y

\* Client c has started the run of y and not completed it.
Running(c, y) == (Asks(c, "list") \/ Asks(c, "queue")) /\ req[c].year = y

\* No message is open and settled, and a message that was sent says what it is.
MessagesKnown ==
    /\ open \cap settled = {}
    /\ \A n \in Ids : Sent(n) => msg[n] \in Messages

\* A year without a row has no run and no message; a year has one run at a time; and a run
\* has sent one message to each member it listed and no longer has to queue, to others none.
RunsApart ==
    /\ \A y \in Years : process[y] = "none" =>
           /\ \A c \in Clients : ~Running(c, y)
           /\ \A n \in Ids, m \in Members : ~Queued(n, m, y)
    /\ \A c, d \in Clients, y \in Years : Running(c, y) /\ Running(d, y) => c = d
    /\ \A c \in Clients : Asks(c, "list") =>
           \A n \in Ids, m \in Members : ~Queued(n, m, req[c].year)
    /\ \A c \in Clients : Asks(c, "queue") =>
           /\ \A m \in req[c].rest, n \in Ids : ~Queued(n, m, req[c].year)
           /\ \A m \in req[c].all \ req[c].rest : \E n \in Ids : Queued(n, m, req[c].year)

OneEach ==
    \A i, j \in Ids, m \in Members, y \in Years \cup {0} :
        Queued(i, m, y) /\ Queued(j, m, y) => i = j

\* Only a settled message has an invoice, and a joining fee comes with the annual fee.
InvoicesKnown ==
    /\ \A n \in Ids : charges[n] # {} => n \in settled
    /\ \A n \in Ids, m \in Members, y \in Years :
           <<m, "joining", y>> \in charges[n] => <<m, "annual", y>> \in charges[n]

\* Until a handler is cut short, SimplBooks has no annual or joining fee without a row.
MadeWithRow ==
    faults = 0 =>
        \A m \in Members, y \in Years, fee \in {"annual", "joining"} :
            /\ made[<<m, fee, y>>] =< 1
            /\ <<m, "annual", y>> \notin rows => made[<<m, fee, y>>] = 0

Inv ==
    /\ TypeOK
    /\ MessagesKnown
    /\ RunsApart
    /\ OneEach
    /\ InvoicesKnown
    /\ ChargedOnce
    /\ MadeWithRow

-----------------------------------------------------------------------------
(* Initial states.                                                         *)

\* The initial state satisfies the invariant.
LEMMA InitInv == Init => Inv
<1> SUFFICES ASSUME Init PROVE Inv
  OBVIOUS
<1>1. TypeOK
  BY DEF Init, Outbox!Init, TypeOK, Outbox!TypeOK, Requests, NoRequest
<1>2. \A n \in Ids : ~Sent(n)
  BY DEF Init, Outbox!Init, Sent
<1>3. \A c \in Clients : req[c].kind = "none"
  BY DEF Init, NoRequest
<1>4. MessagesKnown /\ RunsApart /\ OneEach
  BY <1>2, <1>3 DEF Init, Outbox!Init, MessagesKnown, RunsApart, OneEach, Queued, Running, Asks
<1>5. InvoicesKnown
  BY DEF Init, InvoicesKnown
<1>6. ChargedOnce
  BY DEF Init, ChargedOnce
<1>7. ASSUME NEW m \in Members, NEW y \in Years, NEW fee \in {"annual", "joining"}
      PROVE  made[<<m, fee, y>>] = 0
  <2>1. <<m, fee, y>> \in Charges
    BY DEF Charges, Fees
  <2> QED BY <2>1 DEF Init
<1>8. MadeWithRow
  <2>1. 0 =< 1
    OBVIOUS
  <2> QED BY <1>7, <2>1, Zenon DEF MadeWithRow
<1> QED BY <1>1, <1>4, <1>5, <1>6, <1>8 DEF Inv

-----------------------------------------------------------------------------
(* What a step leaves alone.                                               *)

\* The runs do not notice a step that touches no year's row, queues no annual fee, and
\* gives no client a run.
LEMMA RunsFrame ==
  ASSUME RunsApart, OneEach,
         UNCHANGED process,
         \A c \in Clients : req'[c] = req[c] \/ req'[c].kind \notin {"list", "queue"},
         \A n \in Ids, m \in Members, y \in Years \cup {0} : Queued(n, m, y)' <=> Queued(n, m, y),
         TypeOK
  PROVE  RunsApart' /\ OneEach'
<1>1. \A c \in Clients : (Asks(c, "list") \/ Asks(c, "queue"))' => req'[c] = req[c]
  BY DEF Asks
<1>2. \A c \in Clients : Asks(c, "list") \/ Asks(c, "queue") => req[c].year \in Years
  BY DEF TypeOK, Requests, NoRequest, Asks
<1>3. \A c \in Clients : Asks(c, "queue") => req[c].rest \subseteq Members /\ req[c].all \subseteq Members
  BY DEF TypeOK, Requests, NoRequest, Asks
<1>4. \A c \in Clients, y \in Years : Running(c, y)' => Running(c, y)
  BY <1>1 DEF Running, Asks
<1>5. OneEach'
  BY DEF OneEach
<1>6. \A c \in Clients : Asks(c, "list")' =>
         \A n \in Ids, m \in Members : ~Queued(n, m, req[c].year)'
  BY <1>1, <1>2 DEF RunsApart, Asks
<1>7. ASSUME NEW c \in Clients, Asks(c, "queue")'
      PROVE  /\ \A m \in req'[c].rest, n \in Ids : ~Queued(n, m, req[c].year)'
             /\ \A m \in req'[c].all \ req'[c].rest :
                   \E n \in Ids : Queued(n, m, req[c].year)'
  <2>1. req'[c] = req[c] /\ Asks(c, "queue")
    BY <1>1, <1>7 DEF Asks
  <2>2. PICK y \in Years \cup {0} : y = req[c].year /\ y = req'[c].year
    BY <1>2, <2>1
  <2>6. req[c].rest \subseteq Members /\ req[c].all \subseteq Members
    BY <1>3, <2>1
  <2>3. \A m \in req[c].rest, n \in Ids : ~Queued(n, m, y)
    BY <2>1, <2>2 DEF RunsApart
  <2>4. \A m \in req[c].all \ req[c].rest : \E n \in Ids : Queued(n, m, y)
    BY <2>1, <2>2 DEF RunsApart
  <2>5. \A m \in Members, n \in Ids : Queued(n, m, req[c].year)' <=> Queued(n, m, y)
    BY <2>2 DEF Queued
  <2> QED BY <2>1, <2>2, <2>3, <2>4, <2>5, <2>6
<1> QED BY <1>4, <1>5, <1>6, <1>7 DEF RunsApart, Running, Asks

\* The invoices and the fee rows do not notice a step that makes and records none.
LEMMA FeesFrame ==
  ASSUME InvoicesKnown, ChargedOnce, MadeWithRow,
         UNCHANGED <<rows, charges, made, faults>>,
         settled \subseteq settled'
  PROVE  InvoicesKnown' /\ ChargedOnce' /\ MadeWithRow'
<1>1. InvoicesKnown'
  BY DEF InvoicesKnown
<1>2. ChargedOnce'
  BY DEF ChargedOnce
<1>3. MadeWithRow'
  BY DEF MadeWithRow
<1> QED BY <1>1, <1>2, <1>3

-----------------------------------------------------------------------------
(* The outbox.                                                             *)

OutboxTyped == Outbox!TypeOK /\ msg \in [Ids -> Messages \cup {Unsent}]

\* A message that is sent was not sent before, and is the only change to who is queued.
LEMMA Sends ==
  ASSUME OutboxTyped, MessagesKnown,
         NEW kind \in Kinds, NEW p \in Members, NEW knows \in BOOLEAN, NEW run \in Years \cup {0},
         Send(kind, p, knows, run)
  PROVE  /\ OutboxTyped' /\ MessagesKnown' /\ settled' = settled
         /\ \E k \in Ids :
               /\ ~Sent(k)
               /\ \A n \in Ids, m \in Members, y \in Years \cup {0} :
                     Queued(n, m, y)' <=>
                         \/ Queued(n, m, y)
                         \/ n = k /\ kind = "ANNUAL_MEMBERSHIP_FEE" /\ m = p /\ y = run
<1> DEFINE new == [kind |-> kind, member |-> p, knows |-> knows, run |-> run]
<1>1. PICK k \in Ids : /\ k \notin open /\ k \notin settled
                       /\ open' = open \cup {k} /\ settled' = settled /\ filed' = filed
                       /\ msg' = [msg EXCEPT ![k] = new]
  BY DEF Send, Outbox!Request, Outbox!Unrequested
<1>2. new \in Messages
  BY DEF Messages
<1>3. OutboxTyped'
  BY <1>1, <1>2 DEF OutboxTyped, Outbox!TypeOK
<1>4. msg'[k] = new /\ \A n \in Ids : n # k => msg'[n] = msg[n]
  BY <1>1 DEF OutboxTyped
<1>5. \A n \in Ids : Sent(n)' <=> Sent(n) \/ n = k
  BY <1>1 DEF Sent
<1>6. MessagesKnown'
  BY <1>1, <1>2, <1>4, <1>5 DEF MessagesKnown
<1>7. ~Sent(k)
  BY <1>1 DEF Sent
<1>8. /\ new.kind = kind /\ new.member = p /\ new.run = run
  OBVIOUS
<1>9. ASSUME NEW n \in Ids, NEW m \in Members, NEW y \in Years \cup {0}
      PROVE  Queued(n, m, y)' <=>
                 \/ Queued(n, m, y)
                 \/ n = k /\ kind = "ANNUAL_MEMBERSHIP_FEE" /\ m = p /\ y = run
  <2> HIDE DEF new
  <2>1. CASE n = k
    BY <1>4, <1>5, <1>7, <1>8, <2>1 DEF Queued
  <2>2. CASE n # k
    BY <1>4, <1>5, <2>2 DEF Queued
  <2> QED BY <2>1, <2>2
<1> QED BY <1>1, <1>3, <1>6, <1>7, <1>9

\* A message that is settled, and one sent with it that is no annual fee, change nothing
\* about who is queued.
LEMMA Settles ==
  ASSUME OutboxTyped, MessagesKnown, NEW n \in open,
         settled' = settled \cup {n},
         open' = open \ {n}, msg' = msg,
         filed' = filed \/ filed' = [filed EXCEPT ![n] = {1}]
  PROVE  /\ OutboxTyped' /\ MessagesKnown'
         /\ \A i \in Ids, m \in Members, y \in Years \cup {0} :
               Queued(i, m, y)' <=> Queued(i, m, y)
<1>1. n \in Ids
  BY DEF OutboxTyped, Outbox!TypeOK
<1>2. OutboxTyped'
  BY <1>1 DEF OutboxTyped, Outbox!TypeOK
<1>3. \A i \in Ids : Sent(i)' <=> Sent(i)
  BY DEF Sent
<1>4. MessagesKnown'
  BY <1>3 DEF MessagesKnown
<1> QED BY <1>2, <1>3, <1>4 DEF Queued

-----------------------------------------------------------------------------
(* Steps that queue no annual fee and charge nothing.                      *)

\* What the routes leave a client with is a request.
LEMMA RequestTypes ==
  /\ NoRequest \in Requests /\ NoRequest.kind = "none"
  /\ \A k \in {"start", "list"}, y \in Years : [kind |-> k, year |-> y] \in Requests
  /\ \A y \in Years, a, b, d \in SUBSET Members :
        [kind |-> "queue", year |-> y, all |-> a, known |-> b, rest |-> d] \in Requests
  /\ \A m \in Members, b \in BOOLEAN :
        [kind |-> "equipment", member |-> m, knows |-> b] \in Requests
BY DEF Requests, NoRequest

\* What a request of each kind carries.
LEMMA RequestFields ==
  ASSUME TypeOK, NEW c \in Clients
  PROVE  /\ Asks(c, "start") \/ Asks(c, "list") \/ Asks(c, "queue") => req[c].year \in Years
         /\ Asks(c, "queue") => /\ req[c].all \subseteq Members /\ req[c].known \subseteq Members
                                /\ req[c].rest \subseteq Members
         /\ Asks(c, "equipment") => req[c].member \in Members /\ req[c].knows \in BOOLEAN
BY DEF TypeOK, Requests, NoRequest, Asks

\* A request that is no run is opened, closed or lost; or a member is approved.
LEMMA QuietStep ==
  ASSUME Inv,
         \/ \E m \in Members : Approve(m)
         \/ \E c \in Clients : \/ BeginRun(c)
                               \/ \E m \in Members : AskEquipment(c, m)
                               \/ QueueEquipment(c)
         \/ Crash
         \/ NewYear
         \/ UNCHANGED vars
  PROVE  Inv'
<1> DEFINE Other ==
      /\ approved' \subseteq Members /\ billing' = billing /\ UNCHANGED feeVars
      /\ req' \in [Clients -> Requests] /\ year' \in Years /\ faults' = faults
      /\ \A c \in Clients : req'[c] = req[c] \/ req'[c].kind \notin {"list", "queue"}
    Messaging ==
      /\ OutboxTyped' /\ MessagesKnown' /\ settled' = settled
      /\ \A n \in Ids, m \in Members, y \in Years \cup {0} : Queued(n, m, y)' <=> Queued(n, m, y)
<1>1. SUFFICES Other /\ Messaging
  <2>1. TypeOK'
    BY DEF Inv, TypeOK, OutboxTyped, feeVars
  <2>2. RunsApart' /\ OneEach'
    BY RunsFrame DEF Inv, feeVars
  <2>3. InvoicesKnown' /\ ChargedOnce' /\ MadeWithRow'
    BY FeesFrame DEF Inv, feeVars
  <2> QED BY <2>1, <2>2, <2>3 DEF Inv
<1>2. UNCHANGED outboxVars => Messaging
  <2> SUFFICES ASSUME UNCHANGED outboxVars PROVE Messaging
    OBVIOUS
  <2>1. open' = open /\ settled' = settled /\ filed' = filed /\ msg' = msg
    BY DEF outboxVars
  <2> QED BY <2>1 DEF Inv, TypeOK, OutboxTyped, Outbox!TypeOK, MessagesKnown, Queued, Sent
<1>3. ASSUME NEW kind \in Kinds \ {"ANNUAL_MEMBERSHIP_FEE"}, NEW m \in Members,
             NEW knows \in BOOLEAN, Send(kind, m, knows, 0)
      PROVE  Messaging
  BY <1>3, Sends DEF Inv, TypeOK, OutboxTyped
<1>4. \A c \in Clients, r \in Requests : req' = [req EXCEPT ![c] = r] =>
          /\ req' \in [Clients -> Requests]
          /\ r.kind \notin {"list", "queue"} =>
                \A d \in Clients : req'[d] = req[d] \/ req'[d].kind \notin {"list", "queue"}
  BY DEF Inv, TypeOK
<1>5. ASSUME NEW m \in Members, Approve(m)
      PROVE  Other /\ Messaging
  <2>1. Messaging
    BY <1>3, <1>5 DEF Approve, Kinds
  <2> QED BY <1>5, <2>1 DEF Approve, Inv, TypeOK
<1>6. ASSUME NEW c \in Clients, BeginRun(c)
      PROVE  Other /\ Messaging
  <2>1. [kind |-> "start", year |-> year] \in Requests
    BY RequestTypes DEF Inv, TypeOK
  <2>2. /\ req' \in [Clients -> Requests]
        /\ \A d \in Clients : req'[d] = req[d] \/ req'[d].kind \notin {"list", "queue"}
    BY <1>4, <1>6, <2>1 DEF BeginRun, Continue
  <2> QED BY <1>2, <1>6, <2>2 DEF BeginRun, memberVars, Inv, TypeOK
<1>7. ASSUME NEW c \in Clients, NEW m \in Members, AskEquipment(c, m)
      PROVE  Other /\ Messaging
  <2>1. [kind |-> "equipment", member |-> m, knows |-> m \in billing] \in Requests
    <3>1. (m \in billing) \in BOOLEAN
      OBVIOUS
    <3> QED BY <3>1, RequestTypes, Zenon
  <2>2. /\ req' \in [Clients -> Requests]
        /\ \A d \in Clients : req'[d] = req[d] \/ req'[d].kind \notin {"list", "queue"}
    BY <1>4, <1>7, <2>1 DEF AskEquipment, Continue
  <2> QED BY <1>2, <1>7, <2>2 DEF AskEquipment, memberVars, Inv, TypeOK
<1>8. ASSUME NEW c \in Clients, QueueEquipment(c)
      PROVE  Other /\ Messaging
  <2>1. req[c].member \in Members /\ req[c].knows \in BOOLEAN
    BY <1>8, RequestFields DEF QueueEquipment, Inv
  <2>2. Messaging
    BY <1>3, <1>8, <2>1 DEF QueueEquipment, Kinds
  <2>3. /\ req' \in [Clients -> Requests]
        /\ \A d \in Clients : req'[d] = req[d] \/ req'[d].kind \notin {"list", "queue"}
    BY <1>4, <1>8, RequestTypes DEF QueueEquipment, Done, Continue
  <2> QED BY <1>8, <2>2, <2>3 DEF QueueEquipment, memberVars, Inv, TypeOK
<1>9. CASE Crash
  <2>1. \A c \in Clients : req'[c].kind = "none"
    BY <1>9 DEF Crash, NoRequest
  <2>2. req' \in [Clients -> Requests]
    BY <1>9, RequestTypes DEF Crash
  <2> QED BY <1>2, <1>9, <2>1, <2>2 DEF Crash, memberVars, Inv, TypeOK
<1>10. CASE NewYear
  BY <1>2, <1>10 DEF NewYear, memberVars, Inv, TypeOK
<1>11. CASE UNCHANGED vars
  BY <1>2, <1>11 DEF vars, memberVars, Inv, TypeOK
<1> QED BY <1>5, <1>6, <1>7, <1>8, <1>9, <1>10, <1>11

-----------------------------------------------------------------------------
(* Steps of a run.                                                         *)

\* The ADD_MEMBER handler keeps the invariant.
LEMMA AddMemberStep ==
  ASSUME Inv, NEW n \in Ids, AddMember(n) PROVE Inv'
<1> DEFINE p == msg[n].member
           new == [kind |-> "NEW_MEMBER_FEES", member |-> p, knows |-> TRUE, run |-> 0]
<1>1. PICK k \in Ids : /\ k \notin open /\ k \notin settled
                       /\ open' = (open \ {n}) \cup {k}
                       /\ msg' = [msg EXCEPT ![k] = new]
  BY DEF AddMember, Outbox!Unrequested
<1>2. /\ n \in open /\ settled' = settled \cup {n} /\ filed' = [filed EXCEPT ![n] = {1}]
      /\ billing' = billing \cup {p}
      /\ UNCHANGED <<approved, feeVars, req, year, faults>>
  BY DEF AddMember, Outbox!File
<1>3. msg[n] \in Messages /\ p \in Members
  BY <1>2 DEF Inv, MessagesKnown, Sent, Messages
<1>4. new \in Messages /\ new.kind = "NEW_MEMBER_FEES"
  BY <1>3 DEF Messages, Kinds
<1>5. TypeOK'
  <2> HIDE DEF new
  <2> QED BY <1>1, <1>2, <1>3, <1>4 DEF Inv, TypeOK, Outbox!TypeOK, feeVars
<1>6. msg'[k] = new /\ \A i \in Ids : i # k => msg'[i] = msg[i]
  BY <1>1 DEF Inv, TypeOK
<1>7. \A i \in Ids : Sent(i)' <=> Sent(i) \/ i = k
  BY <1>1, <1>2 DEF Sent
<1>8. MessagesKnown'
  <2> HIDE DEF new
  <2> QED BY <1>1, <1>2, <1>4, <1>6, <1>7 DEF Inv, MessagesKnown
<1>9. \A i \in Ids, m \in Members, y \in Years \cup {0} : Queued(i, m, y)' <=> Queued(i, m, y)
  <2> HIDE DEF new
  <2>1. ~Sent(k)
    BY <1>1 DEF Sent
  <2> QED BY <1>4, <1>6, <1>7, <2>1 DEF Queued
<1>10. RunsApart' /\ OneEach'
  BY <1>2, <1>9, RunsFrame DEF Inv, feeVars
<1>11. InvoicesKnown' /\ ChargedOnce' /\ MadeWithRow'
  BY <1>2, FeesFrame DEF Inv, feeVars
<1> QED BY <1>5, <1>8, <1>10, <1>11 DEF Inv

\* A message that is skipped keeps it.
LEMMA SkipStep ==
  ASSUME Inv, NEW n \in Ids, Skip(n) PROVE Inv'
<1>1. /\ n \in open /\ open' = open \ {n} /\ settled' = settled \cup {n} /\ filed' = filed
      /\ UNCHANGED <<msg, memberVars, feeVars, req, year, faults>>
  BY DEF Skip, Outbox!Close
<1>2. /\ OutboxTyped' /\ MessagesKnown'
      /\ \A i \in Ids, m \in Members, y \in Years \cup {0} : Queued(i, m, y)' <=> Queued(i, m, y)
  BY <1>1, Settles DEF Inv, TypeOK, OutboxTyped
<1>3. TypeOK'
  BY <1>1, <1>2 DEF Inv, TypeOK, OutboxTyped, memberVars, feeVars
<1>4. RunsApart' /\ OneEach'
  BY <1>1, <1>2, RunsFrame DEF Inv, feeVars
<1>5. InvoicesKnown' /\ ChargedOnce' /\ MadeWithRow'
  BY <1>1, FeesFrame DEF Inv, feeVars
<1> QED BY <1>2, <1>3, <1>4, <1>5 DEF Inv

\* The outbox and the books stay; what is left to show of a step of a run.
LEMMA RunStepFrame ==
  ASSUME Inv, UNCHANGED <<outboxVars, memberVars, rows, charges, made, year, faults>>,
         process' \in [Years -> {"none", "inProgress", "processed"}],
         req' \in [Clients -> Requests],
         RunsApart'
  PROVE  Inv'
<1>1. TypeOK'
  BY DEF Inv, TypeOK, Outbox!TypeOK, outboxVars, memberVars
<1>2. MessagesKnown' /\ OneEach'
  BY DEF Inv, MessagesKnown, OneEach, Queued, Sent, outboxVars
<1>3. InvoicesKnown' /\ ChargedOnce' /\ MadeWithRow'
  BY FeesFrame DEF Inv, outboxVars
<1> QED BY <1>1, <1>2, <1>3 DEF Inv

\* A run that begins keeps it.
LEMMA StartStep ==
  ASSUME Inv, NEW c \in Clients, StartRun(c) PROVE Inv'
<1>1. PICK z \in Years : z = req[c].year
  BY RequestFields DEF StartRun, Inv
<1>2. UNCHANGED <<outboxVars, memberVars, rows, charges, made, year, faults>>
  BY DEF StartRun
<1>3. \A n \in Ids, m \in Members, y \in Years \cup {0} : Queued(n, m, y)' <=> Queued(n, m, y)
  BY <1>2 DEF outboxVars, Queued, Sent
<1>4. CASE process[z] # "none"
  <2>1. process' = process /\ req' = [req EXCEPT ![c] = NoRequest]
    BY <1>1, <1>4 DEF StartRun, Done, Continue
  <2>2. /\ req' \in [Clients -> Requests]
        /\ \A d \in Clients : req'[d] = req[d] \/ req'[d].kind \notin {"list", "queue"}
    BY <2>1, RequestTypes DEF Inv, TypeOK
  <2>3. RunsApart'
    BY <1>3, <2>1, <2>2, RunsFrame DEF Inv
  <2> QED BY <1>2, <2>1, <2>2, <2>3, RunStepFrame DEF Inv, TypeOK
<1>5. CASE process[z] = "none"
  <2>1. /\ process' = [process EXCEPT ![z] = "inProgress"]
        /\ req' = [req EXCEPT ![c] = [kind |-> "list", year |-> z]]
    BY <1>1, <1>5 DEF StartRun, Continue
  <2>2. process' \in [Years -> {"none", "inProgress", "processed"}] /\ req' \in [Clients -> Requests]
    BY <2>1, RequestTypes DEF Inv, TypeOK
  <2>3. /\ Asks(c, "list")' /\ ~Asks(c, "queue")' /\ req'[c].year = z
        /\ \A d \in Clients : d # c => req'[d] = req[d]
    BY <2>1 DEF Inv, TypeOK, Asks
  <2>4. /\ \A d \in Clients : ~Running(d, z)
        /\ \A n \in Ids, m \in Members : ~Queued(n, m, z)
    BY <1>5 DEF Inv, RunsApart
  <2>5. \A d \in Clients, y \in Years : Running(d, y)' <=> Running(d, y) \/ (d = c /\ y = z)
    <3>1. ~Asks(c, "list") /\ ~Asks(c, "queue")
      BY DEF StartRun, Asks
    <3> QED BY <2>3, <3>1 DEF Running, Asks
  <2>6. \A d \in Clients : d # c => /\ (Asks(d, "list")' <=> Asks(d, "list"))
                                    /\ (Asks(d, "queue")' <=> Asks(d, "queue"))
    BY <2>3 DEF Asks
  <2>7. ASSUME NEW y \in Years, process'[y] = "none"
        PROVE  /\ \A d \in Clients : ~Running(d, y)'
               /\ \A n \in Ids, m \in Members : ~Queued(n, m, y)'
    <3>1. y # z /\ process[y] = "none"
      BY <2>1, <2>7 DEF Inv, TypeOK
    <3> QED BY <1>3, <2>5, <3>1 DEF Inv, RunsApart
  <2>8. \A d, e \in Clients, y \in Years : Running(d, y)' /\ Running(e, y)' => d = e
    BY <2>4, <2>5 DEF Inv, RunsApart
  <2>9. \A n \in Ids, m \in Members, d \in Clients :
          Asks(d, "list")' => ~Queued(n, m, req[d].year)'
    <3> SUFFICES ASSUME NEW n \in Ids, NEW m \in Members, NEW d \in Clients, Asks(d, "list")'
                 PROVE  ~Queued(n, m, req[d].year)'
      OBVIOUS
    <3>1. CASE d = c
      BY <1>2, <2>3, <2>4, <3>1 DEF Queued, Sent, outboxVars
    <3>2. CASE d # c
      <4>1. ~Queued(n, m, req[d].year) /\ req'[d] = req[d]
        BY <2>3, <2>6, <3>2 DEF Inv, RunsApart
      <4> QED BY <1>2, <4>1 DEF Queued, Sent, outboxVars
    <3> QED BY <3>1, <3>2
  <2>10. ASSUME NEW d \in Clients, Asks(d, "queue")'
         PROVE  /\ \A m \in req'[d].rest, n \in Ids : ~Queued(n, m, req[d].year)'
                /\ \A m \in req'[d].all \ req'[d].rest :
                      \E n \in Ids : Queued(n, m, req[d].year)'
    <3>1. d # c /\ req'[d] = req[d] /\ Asks(d, "queue")
      BY <2>3, <2>6, <2>10
    <3>2. /\ \A m \in req[d].rest, n \in Ids : ~Queued(n, m, req[d].year)
          /\ \A m \in req[d].all \ req[d].rest : \E n \in Ids : Queued(n, m, req[d].year)
      BY <3>1 DEF Inv, RunsApart
    <3> QED BY <1>2, <3>1, <3>2 DEF Queued, Sent, outboxVars
  <2>11. RunsApart'
    BY <2>7, <2>8, <2>9, <2>10 DEF RunsApart
  <2> QED BY <1>2, <2>2, <2>11, RunStepFrame
<1> QED BY <1>4, <1>5

\* A run that has listed the members keeps it.
LEMMA ListStep ==
  ASSUME Inv, NEW c \in Clients, ListMembers(c) PROVE Inv'
<1>1. PICK z \in Years : z = req[c].year
  BY RequestFields DEF ListMembers, Inv
<1> DEFINE all == approved
           r == [kind |-> "queue", year |-> z, all |-> all, known |-> all \cap billing, rest |-> all]
<1>2. /\ UNCHANGED <<outboxVars, memberVars, feeVars, year, faults>>
      /\ Asks(c, "list") /\ req' = [req EXCEPT ![c] = r]
  BY <1>1 DEF ListMembers, Continue
<1>3. process' = process /\ UNCHANGED <<open, settled, msg>>
  BY <1>2 DEF feeVars, outboxVars
<1>4. \A n \in Ids, m \in Members, y \in Years \cup {0} : Queued(n, m, y)' <=> Queued(n, m, y)
  BY <1>3 DEF Queued, Sent
<1>5. r \in Requests
  BY RequestTypes DEF Inv, TypeOK
<1>6. req' \in [Clients -> Requests]
  BY <1>2, <1>5 DEF Inv, TypeOK
<1>7. req'[c] = r /\ \A d \in Clients : d # c => req'[d] = req[d]
  BY <1>2 DEF Inv, TypeOK
<1>8. \A d \in Clients, y \in Years : Running(d, y)' <=> Running(d, y)
  BY <1>1, <1>2, <1>7 DEF Running, Asks
<1>9. \A n \in Ids, m \in Members : ~Queued(n, m, z)
  BY <1>1, <1>2 DEF Inv, RunsApart
<1>10. \A d \in Clients : Asks(d, "list")' =>
          \A n \in Ids, m \in Members : ~Queued(n, m, req[d].year)'
  <2> SUFFICES ASSUME NEW d \in Clients, Asks(d, "list")', NEW n \in Ids, NEW m \in Members
               PROVE  ~Queued(n, m, req[d].year)'
    OBVIOUS
  <2>1. d # c /\ req'[d] = req[d] /\ Asks(d, "list")
    BY <1>7 DEF Asks
  <2>2. ~Queued(n, m, req[d].year)
    BY <2>1 DEF Inv, RunsApart
  <2> QED BY <1>3, <2>1, <2>2 DEF Queued, Sent
<1>11. ASSUME NEW d \in Clients, Asks(d, "queue")'
       PROVE  /\ \A m \in req'[d].rest, n \in Ids : ~Queued(n, m, req[d].year)'
              /\ \A m \in req'[d].all \ req'[d].rest : \E n \in Ids : Queued(n, m, req[d].year)'
  <2>1. CASE d = c
    <3>1. req'[d].rest = approved /\ req'[d].all = approved /\ req'[d].year = z
      BY <1>7, <2>1
    <3>2. approved \subseteq Members
      BY DEF Inv, TypeOK
    <3> QED BY <1>3, <1>9, <3>1, <3>2 DEF Queued, Sent
  <2>2. CASE d # c
    <3>1. req'[d] = req[d] /\ Asks(d, "queue")
      BY <1>7, <1>11, <2>2 DEF Asks
    <3>2. /\ \A m \in req[d].rest, n \in Ids : ~Queued(n, m, req[d].year)
          /\ \A m \in req[d].all \ req[d].rest : \E n \in Ids : Queued(n, m, req[d].year)
      BY <3>1 DEF Inv, RunsApart
    <3> QED BY <1>3, <3>1, <3>2 DEF Queued, Sent
  <2> QED BY <2>1, <2>2
<1>12. RunsApart'
  BY <1>3, <1>4, <1>8, <1>10, <1>11 DEF Inv, RunsApart
<1> QED BY <1>2, <1>6, <1>12, RunStepFrame DEF feeVars, Inv, TypeOK

\* A run that queues the fee of a member keeps it.
LEMMA QueueStep ==
  ASSUME Inv, NEW c \in Clients, NEW p \in Members, QueueMember(c, p) PROVE Inv'
<1>1. PICK z \in Years : z = req[c].year
  BY RequestFields DEF QueueMember, Inv
<1>2. /\ Asks(c, "queue") /\ p \in req[c].rest
      /\ Send("ANNUAL_MEMBERSHIP_FEE", p, p \in req[c].known, z)
      /\ req' = [req EXCEPT ![c].rest = @ \ {p}]
      /\ UNCHANGED <<memberVars, feeVars, year, faults>>
  BY <1>1 DEF QueueMember
<1>3. /\ OutboxTyped' /\ MessagesKnown' /\ settled' = settled
      /\ \E k \in Ids :
            /\ ~Sent(k)
            /\ \A n \in Ids, m \in Members, y \in Years \cup {0} :
                  Queued(n, m, y)' <=> Queued(n, m, y) \/ (n = k /\ m = p /\ y = z)
  <2>1. (p \in req[c].known) \in BOOLEAN
    OBVIOUS
  <2>2. OutboxTyped /\ MessagesKnown /\ "ANNUAL_MEMBERSHIP_FEE" \in Kinds
    BY DEF Inv, TypeOK, OutboxTyped, Kinds
  <2>3. PICK knows \in BOOLEAN : Send("ANNUAL_MEMBERSHIP_FEE", p, knows, z)
    BY <1>2, <2>1
  <2>4. z \in Years \cup {0}
    OBVIOUS
  <2> QED BY <2>2, <2>3, <2>4, Sends
<1>4. PICK k \in Ids :
        \A n \in Ids, m \in Members, y \in Years \cup {0} :
            Queued(n, m, y)' <=> Queued(n, m, y) \/ (n = k /\ m = p /\ y = z)
  BY <1>3
<1>5. /\ \A d \in Clients : d # c => req'[d] = req[d]
      /\ req'[c].kind = "queue" /\ req'[c].year = z /\ req'[c].all = req[c].all
      /\ req'[c].rest = req[c].rest \ {p}
      /\ req' \in [Clients -> Requests]
  <2>1. req[c] \in [kind : {"queue"}, year : Years, all : SUBSET Members, known : SUBSET Members,
                     rest : SUBSET Members]
    BY <1>2 DEF Inv, TypeOK, Requests, NoRequest, Asks
  <2>2. req'[c] = [req[c] EXCEPT !.rest = req[c].rest \ {p}]
    BY <1>2 DEF Inv, TypeOK
  <2>3. /\ req'[c] \in Requests /\ req'[c].kind = "queue" /\ req'[c].year = z
        /\ req'[c].all = req[c].all /\ req'[c].rest = req[c].rest \ {p}
    BY <1>1, <2>1, <2>2 DEF Requests
  <2> QED BY <1>2, <2>3 DEF Inv, TypeOK
<1>6. TypeOK'
  BY <1>2, <1>3, <1>5 DEF Inv, TypeOK, OutboxTyped, memberVars, feeVars
<1>7. InvoicesKnown' /\ ChargedOnce' /\ MadeWithRow'
  BY <1>2, <1>3, FeesFrame DEF Inv, feeVars
<1>8. process[z] # "none" /\ \A n \in Ids : ~Queued(n, p, z)
  BY <1>1, <1>2 DEF Inv, RunsApart, Running
<1>9. OneEach'
  <2> SUFFICES ASSUME NEW i \in Ids, NEW j \in Ids, NEW m \in Members, NEW y \in Years \cup {0},
                      Queued(i, m, y)', Queued(j, m, y)'
               PROVE  i = j
    BY DEF OneEach
  <2> QED BY <1>4, <1>8 DEF Inv, OneEach
<1>10. \A d \in Clients, y \in Years : Running(d, y)' <=> Running(d, y)
  BY <1>1, <1>2, <1>5 DEF Running, Asks
<1>11. \A d \in Clients : d # c /\ (Asks(d, "list") \/ Asks(d, "queue")) => req[d].year # z
  BY <1>1, <1>2 DEF Inv, RunsApart, Running
<1>12. ASSUME NEW d \in Clients, Asks(d, "list")', NEW n \in Ids, NEW m \in Members
       PROVE  ~Queued(n, m, req[d].year)'
  <2>1. d # c /\ req'[d] = req[d] /\ Asks(d, "list")
    BY <1>5, <1>12 DEF Asks
  <2>2. PICK y \in Years : y = req[d].year /\ y = req'[d].year
    BY <2>1, RequestFields DEF Inv
  <2>3. ~Queued(n, m, y) /\ y # z
    BY <1>11, <2>1, <2>2 DEF Inv, RunsApart
  <2>4. ~Queued(n, m, y)'
    BY <1>4, <2>3
  <2> QED BY <2>2, <2>4 DEF Queued
<1>13. ASSUME NEW d \in Clients, Asks(d, "queue")'
       PROVE  /\ \A m \in req'[d].rest, n \in Ids : ~Queued(n, m, req[d].year)'
              /\ \A m \in req'[d].all \ req'[d].rest : \E n \in Ids : Queued(n, m, req[d].year)'
  <2>1. Asks(d, "queue") /\ req'[d].rest \subseteq req[d].rest /\ req'[d].all = req[d].all
    BY <1>2, <1>5, <1>13 DEF Asks
  <2>2. PICK y \in Years : y = req[d].year /\ y = req'[d].year
    BY <1>1, <1>5, <2>1, RequestFields DEF Inv
  <2>3. req[d].rest \subseteq Members /\ req[d].all \subseteq Members
    BY <2>1, RequestFields DEF Inv
  <2>4. /\ \A m \in req[d].rest, n \in Ids : ~Queued(n, m, y)
        /\ \A m \in req[d].all \ req[d].rest : \E n \in Ids : Queued(n, m, y)
    <3>1. /\ \A m \in req[d].rest, n \in Ids : ~Queued(n, m, req[d].year)
          /\ \A m \in req[d].all \ req[d].rest : \E n \in Ids : Queued(n, m, req[d].year)
      BY <2>1 DEF Inv, RunsApart
    <3> QED BY <2>2, <3>1
  <2>5. \A m \in req'[d].rest : ~(m = p /\ y = z)
    BY <1>5, <1>11, <2>1, <2>2
  <2>6. \A m \in req'[d].rest, n \in Ids : ~Queued(n, m, y)'
    BY <1>4, <2>1, <2>3, <2>4, <2>5
  <2>7. ASSUME NEW m \in req'[d].all \ req'[d].rest
        PROVE  \E n \in Ids : Queued(n, m, y)'
    <3>1. CASE m \in req[d].rest
      <4>1. d = c /\ m = p /\ y = z
        BY <1>1, <1>5, <2>2, <2>7, <3>1
      <4> QED BY <1>4, <4>1
    <3>2. CASE m \notin req[d].rest
      BY <1>4, <2>1, <2>3, <2>4, <2>7, <3>2
    <3> QED BY <3>1, <3>2
  <2> QED BY <2>2, <2>6, <2>7 DEF Queued
<1>14. ASSUME NEW y \in Years, process'[y] = "none"
       PROVE  /\ \A d \in Clients : ~Running(d, y)'
              /\ \A n \in Ids, m \in Members : ~Queued(n, m, y)'
  <2>1. process[y] = "none"
    BY <1>2, <1>14 DEF feeVars
  <2> QED BY <1>4, <1>8, <1>10, <2>1 DEF Inv, RunsApart
<1>15. RunsApart'
  BY <1>10, <1>12, <1>13, <1>14 DEF Inv, RunsApart
<1> QED BY <1>3, <1>6, <1>7, <1>9, <1>15 DEF Inv

\* A run that ends keeps it.
LEMMA CompleteStep ==
  ASSUME Inv, NEW c \in Clients, CompleteRun(c) PROVE Inv'
<1>1. PICK z \in Years : z = req[c].year
  BY RequestFields DEF CompleteRun, Inv
<1>2. /\ UNCHANGED <<outboxVars, memberVars, rows, charges, made, year, faults>>
      /\ process' = [process EXCEPT ![z] = "processed"] /\ req' = [req EXCEPT ![c] = NoRequest]
  BY <1>1 DEF CompleteRun, Done, Continue
<1>3. /\ process' \in [Years -> {"none", "inProgress", "processed"}]
      /\ req' \in [Clients -> Requests]
      /\ \A y \in Years : process'[y] = "none" => process[y] = "none"
      /\ \A d \in Clients : req'[d] = req[d] \/ req'[d].kind = "none"
  BY <1>2, RequestTypes DEF Inv, TypeOK
<1>4. UNCHANGED <<open, settled, msg>>
  BY <1>2 DEF outboxVars
<1>5. \A d \in Clients : Asks(d, "list")' \/ Asks(d, "queue")' => req'[d] = req[d]
  BY <1>3 DEF Asks
<1>6. RunsApart'
  <2>1. \A d \in Clients, y \in Years : Running(d, y)' => Running(d, y)
    BY <1>5 DEF Running, Asks
  <2>2. \A n \in Ids, m \in Members, y \in Years \cup {0} : Queued(n, m, y)' <=> Queued(n, m, y)
    BY <1>4 DEF Queued, Sent
  <2>3. ASSUME NEW d \in Clients, Asks(d, "list")', NEW n \in Ids, NEW m \in Members
        PROVE  ~Queued(n, m, req[d].year)'
    <3>1. req'[d] = req[d] /\ Asks(d, "list")
      BY <1>5, <2>3 DEF Asks
    <3>2. ~Queued(n, m, req[d].year)
      BY <3>1 DEF Inv, RunsApart
    <3> QED BY <1>4, <3>1, <3>2 DEF Queued, Sent
  <2>4. ASSUME NEW d \in Clients, Asks(d, "queue")'
        PROVE  /\ \A m \in req'[d].rest, n \in Ids : ~Queued(n, m, req[d].year)'
               /\ \A m \in req'[d].all \ req'[d].rest : \E n \in Ids : Queued(n, m, req[d].year)'
    <3>1. req'[d] = req[d] /\ Asks(d, "queue")
      BY <1>5, <2>4 DEF Asks
    <3>2. \A m \in req[d].rest, n \in Ids : ~Queued(n, m, req[d].year)
      BY <3>1 DEF Inv, RunsApart
    <3>3. \A m \in req[d].all \ req[d].rest : \E n \in Ids : Queued(n, m, req[d].year)
      BY <3>1, Zenon DEF Inv, RunsApart
    <3>4. ASSUME NEW n \in Ids, NEW m
          PROVE  Queued(n, m, req[d].year)' <=> Queued(n, m, req[d].year)
      BY <1>4, <3>1 DEF Queued, Sent
    <3> QED BY <3>1, <3>2, <3>3, <3>4
  <2> QED BY <1>3, <2>1, <2>2, <2>3, <2>4 DEF Inv, RunsApart
<1> QED BY <1>2, <1>3, <1>6, RunStepFrame

-----------------------------------------------------------------------------
(* Steps of an invoicing handler.                                          *)

\* What the invoice of a message that may be invoiced charges.
LEMMA ChargedFacts ==
  ASSUME Inv, NEW n \in Ids, MayInvoice(n)
  PROVE  LET m == msg[n].member IN
         /\ msg[n] \in Messages /\ m \in Members
         /\ Charged(n) \in SUBSET Charges /\ NewRows(n) \subseteq rows \cup Charges
         /\ \A x \in Charged(n) : x[1] = m /\ x[3] = year
         /\ \/ msg[n].kind = "EQUIPMENT_INVOICE" /\ Charged(n) = {<<m, "equipment", year>>}
            \/ /\ <<m, "annual", year>> \in Charged(n) /\ <<m, "annual", year>> \notin rows
               /\ NewRows(n) \cap rows = {}
<1> DEFINE m == msg[n].member
<1>1. /\ n \in open /\ msg[n].kind # "ADD_MEMBER"
      /\ msg[n].kind # "EQUIPMENT_INVOICE" => <<m, "annual", year>> \notin rows
  BY DEF MayInvoice, AnnualDone
<1>2. msg[n] \in Messages
  BY <1>1 DEF Inv, MessagesKnown, Sent
<1>3. m \in Members /\ msg[n].kind \in Kinds /\ year \in Years
  BY <1>2 DEF Messages, Inv, TypeOK
<1>4. \A fee \in Fees : <<m, fee, year>> \in Charges
  BY <1>3 DEF Charges
<1> HIDE DEF m
<1>5. CASE msg[n].kind = "EQUIPMENT_INVOICE"
  <2>1. Charged(n) = {<<m, "equipment", year>>}
    BY <1>5 DEF Charged, m
  <2> QED BY <1>2, <1>3, <1>4, <1>5, <2>1 DEF NewRows, Fees, m
<1>6. CASE msg[n].kind = "NEW_MEMBER_FEES"
  <2>1. Charged(n) = {<<m, "joining", year>>, <<m, "annual", year>>}
    BY <1>6 DEF Charged, m
  <2>2. NewRows(n) \cap rows = {}
    BY <1>1, <1>6, <2>1 DEF NewRows
  <2> QED BY <1>1, <1>2, <1>3, <1>4, <1>6, <2>1, <2>2 DEF NewRows, Fees, m
<1>7. CASE msg[n].kind = "ANNUAL_MEMBERSHIP_FEE"
  <2>1. /\ <<m, "annual", year>> \in Charged(n)
        /\ \A x \in Charged(n) :
              x = <<m, "annual", year>> \/ (x = <<m, "equipment", year>> /\ x \notin rows)
    <3>1. Charged(n) = {<<m, "annual", year>>} \cup
                           (IF m \in Renewing THEN {<<m, "equipment", year>>} \ rows ELSE {})
      <4>1. "ANNUAL_MEMBERSHIP_FEE" # "NEW_MEMBER_FEES"
        OBVIOUS
      <4> QED BY <1>7, <4>1, SMT DEF Charged, m
    <3> QED BY <3>1
  <2>2. NewRows(n) \cap rows = {}
    BY <1>1, <1>7, <2>1 DEF NewRows
  <2> QED BY <1>1, <1>2, <1>3, <1>4, <1>7, <2>1, <2>2 DEF NewRows, Fees, m
<1> QED BY <1>1, <1>3, <1>5, <1>6, <1>7 DEF Kinds

\* A document that is made adds one for each charge of its message.
LEMMA MakeFacts ==
  ASSUME Inv, NEW n \in Ids, MayInvoice(n), Make(n)
  PROVE  /\ made' \in [Charges -> Nat]
         /\ \A x \in Charges : made'[x] = IF x \in Charged(n) THEN made[x] + 1 ELSE made[x]
BY DEF Make, Inv, TypeOK

\* The handler that does not commit: nothing of its work stays but the document.
LEMMA UnrecordedStep ==
  ASSUME Inv, NEW n \in Ids, RejectDuplicate(n) \/ LoseInvoice(n) PROVE Inv'
<1>1. /\ MayInvoice(n) /\ Make(n)
      /\ UNCHANGED <<outboxVars, memberVars, process, rows, charges, req, year>>
      /\ \/ faults' = faults /\ NewRows(n) \cap rows # {}
         \/ faults' = faults + 1 /\ faults < MaxFaults
  BY DEF RejectDuplicate, LoseInvoice
<1>2. UNCHANGED <<open, settled, filed, msg>>
  BY <1>1 DEF outboxVars
<1>3. TypeOK'
  BY <1>1, <1>2, MakeFacts DEF Inv, TypeOK, Outbox!TypeOK, memberVars
<1>4. MessagesKnown' /\ RunsApart' /\ OneEach' /\ InvoicesKnown' /\ ChargedOnce'
  <2>1. \A i \in Ids, m \in Members, y \in Years \cup {0} : Queued(i, m, y)' <=> Queued(i, m, y)
    BY <1>2 DEF Queued, Sent
  <2> QED BY <1>1, <1>2, <2>1, RunsFrame DEF Inv, MessagesKnown, Sent, InvoicesKnown, ChargedOnce
<1>5. MadeWithRow'
  <2>1. CASE faults' = faults + 1
    BY <2>1 DEF MadeWithRow, Inv, TypeOK
  <2>2. CASE faults' = faults
    <3>1. NewRows(n) \cap rows # {}
      BY <1>1, <2>2 DEF Inv, TypeOK
    <3>2. Charged(n) = {<<msg[n].member, "equipment", year>>}
      BY <1>1, <3>1, ChargedFacts
    <3>3. ASSUME NEW m \in Members, NEW y \in Years, NEW fee \in {"annual", "joining"}
          PROVE  made'[<<m, fee, y>>] = made[<<m, fee, y>>]
      <4>1. <<m, fee, y>> \in Charges /\ <<m, fee, y>> \notin Charged(n)
        BY <3>2 DEF Charges, Fees
      <4> QED BY <1>1, <4>1, MakeFacts
    <3> QED BY <1>1, <2>2, <3>3 DEF Inv, MadeWithRow
  <2> QED BY <1>1, <2>1, <2>2
<1> QED BY <1>3, <1>4, <1>5 DEF Inv

\* The handler that commits: what it charges was charged by no invoice before.
LEMMA InvoiceStep ==
  ASSUME Inv, NEW n \in Ids, InvoiceFees(n) PROVE Inv'
<1> DEFINE new == Charged(n)
<1>1. /\ MayInvoice(n) /\ Make(n) /\ NewRows(n) \cap rows = {}
      /\ filed' = [filed EXCEPT ![n] = {1}] /\ Outbox!File(n) /\ open' \subseteq open
      /\ charges' = [charges EXCEPT ![n] = new] /\ rows' = rows \cup NewRows(n)
      /\ UNCHANGED <<msg, memberVars, process, req, year, faults>>
  BY DEF InvoiceFees, Record
<1>2. n \in open /\ open' = open \ {n} /\ settled' = settled \cup {n}
  BY <1>1 DEF Outbox!File, Outbox!Unrequested
<1>3. /\ new \in SUBSET Charges /\ NewRows(n) \subseteq Charges
      /\ NewRows(n) = {x \in new : x[2] # "joining"}
  BY <1>1, ChargedFacts DEF NewRows
<1> HIDE DEF new
<1>4. /\ OutboxTyped' /\ MessagesKnown'
      /\ \A i \in Ids, m \in Members, y \in Years \cup {0} : Queued(i, m, y)' <=> Queued(i, m, y)
  BY <1>1, <1>2, Settles DEF Inv, TypeOK, OutboxTyped
<1>5. TypeOK'
  BY <1>1, <1>3, <1>4, MakeFacts DEF Inv, TypeOK, OutboxTyped, memberVars
<1>6. RunsApart' /\ OneEach'
  BY <1>1, <1>4, RunsFrame DEF Inv
<1>7. /\ charges'[n] = new /\ charges[n] = {}
      /\ \A i \in Ids : i # n => charges'[i] = charges[i]
  BY <1>1, <1>2 DEF Inv, TypeOK, MessagesKnown, InvoicesKnown
<1>8. InvoicesKnown'
  <2>1. \A i \in Ids : charges'[i] # {} => i \in settled'
    BY <1>2, <1>7 DEF Inv, InvoicesKnown
  <2>2. ASSUME NEW m \in Members, NEW y \in Years, <<m, "joining", y>> \in new
        PROVE  <<m, "annual", y>> \in new
    <3>1. m = msg[n].member /\ y = year
      BY <1>1, <2>2, ChargedFacts DEF new
    <3>2. <<m, "joining", y>> # <<msg[n].member, "equipment", year>>
      OBVIOUS
    <3> QED BY <1>1, <2>2, <3>1, <3>2, ChargedFacts DEF new
  <2> QED BY <1>7, <2>1, <2>2 DEF Inv, InvoicesKnown
<1>9. \A i \in Ids : i # n => charges[i] \cap new = {}
  <2> SUFFICES ASSUME NEW i \in Ids, i # n, NEW x \in charges[i], x \in new
               PROVE  FALSE
    OBVIOUS
  <2>1. CASE x[2] # "joining"
    <3>1. x \in NewRows(n)
      BY <1>3, <2>1
    <3>2. x \in rows
      BY <2>1 DEF Inv, ChargedOnce
    <3> QED BY <1>1, <3>1, <3>2
  <2>2. CASE x[2] = "joining"
    <3>1. PICK m \in Members, y \in Years : x = <<m, "joining", y>>
      <4>1. x \in Members \X Fees \X Years
        BY <1>3 DEF Charges
      <4>2. x[1] \in Members /\ x[3] \in Years /\ x = <<x[1], x[2], x[3]>>
        BY <4>1
      <4> QED BY <2>2, <4>2
    <3>2. <<m, "annual", y>> \in charges[i]
      BY <3>1 DEF Inv, InvoicesKnown
    <3>3. <<m, "annual", y>> \in rows
      BY <3>2 DEF Inv, ChargedOnce
    <3>4. <<m, "annual", y>> \in new
      BY <1>7, <1>8, <3>1 DEF InvoicesKnown
    <3>5. <<m, "annual", y>> \in NewRows(n)
      BY <1>3, <3>4
    <3> QED BY <1>1, <3>3, <3>5
  <2> QED BY <2>1, <2>2
<1>10. ChargedOnce'
  <2>1. \A i, j \in Ids : i # j => charges'[i] \cap charges'[j] = {}
    BY <1>7, <1>9 DEF Inv, ChargedOnce
  <2>2. \A x : (\E i \in Ids : x \in charges'[i]) <=> (\E i \in Ids : x \in charges[i]) \/ x \in new
    BY <1>7
  <2>3. \A x : x \in rows <=> (\E i \in Ids : x \in charges[i]) /\ x[2] # "joining"
    BY DEF Inv, ChargedOnce
  <2>4. \A x : x \in rows' <=> (\E i \in Ids : x \in charges'[i]) /\ x[2] # "joining"
    BY <1>1, <1>3, <2>2, <2>3
  <2>5. \A x : x \in rows' <=> x \in {z \in UNION {charges'[i] : i \in Ids} : z[2] # "joining"}
    BY <2>4
  <2>6. rows' = {x \in UNION {charges'[i] : i \in Ids} : x[2] # "joining"}
    BY <2>5
  <2> QED BY <2>1, <2>6 DEF ChargedOnce
<1>11. MadeWithRow'
  <2> SUFFICES ASSUME faults = 0,
                      NEW m \in Members, NEW y \in Years, NEW fee \in {"annual", "joining"}
               PROVE  /\ made'[<<m, fee, y>>] =< 1
                      /\ <<m, "annual", y>> \notin rows' => made'[<<m, fee, y>>] = 0
    BY <1>1 DEF MadeWithRow
  <2> DEFINE x == <<m, fee, y>>
             a == <<m, "annual", y>>
  <2>1. x \in Charges /\ made[x] \in Nat
    BY DEF Inv, TypeOK, Charges, Fees
  <2>2. made[x] =< 1 /\ (a \notin rows => made[x] = 0)
    BY DEF Inv, MadeWithRow
  <2>3. CASE x \notin new
    <3>1. made'[x] = made[x]
      BY <1>1, <2>1, <2>3, MakeFacts DEF new
    <3> QED BY <1>1, <2>2, <3>1
  <2>4. CASE x \in new
    <3>1. a \in new
      <4>1. InvoicesKnown'
        BY <1>8
      <4> QED BY <1>7, <2>4, <4>1 DEF InvoicesKnown
    <3>2. a \in NewRows(n)
      BY <1>3, <3>1
    <3>3. a \notin rows /\ a \in rows'
      BY <1>1, <3>2
    <3>4. made'[x] = 1
      BY <1>1, <2>1, <2>2, <2>4, <3>3, MakeFacts DEF new
    <3> QED BY <3>3, <3>4
  <2> QED BY <2>3, <2>4
<1> QED BY <1>4, <1>5, <1>6, <1>8, <1>10, <1>11 DEF Inv

-----------------------------------------------------------------------------
(* The theorems.                                                           *)

\* Every step keeps the invariant.
LEMMA NextInv == Inv /\ [Next]_vars => Inv'
<1> SUFFICES ASSUME Inv, [Next]_vars PROVE Inv'
  OBVIOUS
<1>1. ASSUME NEW m \in Members, Approve(m) PROVE Inv'
  BY <1>1, QuietStep
<1>2. ASSUME NEW c \in Clients,
             \/ BeginRun(c) \/ StartRun(c) \/ ListMembers(c) \/ CompleteRun(c)
             \/ \E m \in Members : QueueMember(c, m) \/ AskEquipment(c, m)
             \/ QueueEquipment(c)
      PROVE  Inv'
  BY <1>2, QuietStep, StartStep, ListStep, CompleteStep, QueueStep
<1>3. ASSUME NEW n \in Ids,
             \/ AddMember(n) \/ Skip(n)
             \/ InvoiceFees(n) \/ RejectDuplicate(n) \/ LoseInvoice(n)
      PROVE  Inv'
  BY <1>3, AddMemberStep, SkipStep, InvoiceStep, UnrecordedStep
<1>4. CASE Crash \/ NewYear \/ UNCHANGED vars
  BY <1>4, QuietStep
<1> QED BY <1>1, <1>2, <1>3, <1>4 DEF Next

\* The inductive invariant holds of every reachable state.
THEOREM InvHolds == Spec => []Inv
<1> QED BY InitInv, NextInv, PTL DEF Spec

\* Every variable keeps its type.
THEOREM TypeCorrect == Spec => []TypeOK
<1>1. Inv => TypeOK
  BY DEF Inv
<1> QED BY InvHolds, <1>1, PTL

\* A year's run queues a member once, however many start it and wherever it crashes.
THEOREM OnceQueued == Spec => []QueuedOnce
<1>1. Inv => QueuedOnce
  <2> SUFFICES ASSUME Inv, NEW i \in Ids, NEW j \in Ids, Sent(i), Sent(j),
                      msg[i].kind = "ANNUAL_MEMBERSHIP_FEE", msg[j].kind = "ANNUAL_MEMBERSHIP_FEE",
                      msg[i].member = msg[j].member, msg[i].run = msg[j].run
               PROVE  i = j
    BY DEF QueuedOnce
  <2>1. msg[i].member \in Members /\ msg[i].run \in Years \cup {0}
    BY DEF Inv, MessagesKnown, Messages
  <2>2. /\ Queued(i, msg[i].member, msg[i].run)
        /\ Queued(j, msg[i].member, msg[i].run)
    BY DEF Queued
  <2> QED BY <2>1, <2>2 DEF Inv, OneEach
<1> QED BY InvHolds, <1>1, PTL

\* No fee is on two invoices of the club, and the fee rows are what the invoices charge.
THEOREM OnceCharged == Spec => []ChargedOnce
<1>1. Inv => ChargedOnce
  BY DEF Inv
<1> QED BY InvHolds, <1>1, PTL

\* Until a handler is cut short, SimplBooks has one document at most for a member's annual
\* and joining fee of a year.
THEOREM OnceMade == Spec => []MadeOnce
<1>1. Inv => MadeOnce
  BY DEF Inv, MadeWithRow, MadeOnce
<1> QED BY InvHolds, <1>1, PTL

\* A run that is marked processed has sent a message to every member it listed.
THEOREM AllQueued == Spec => ProcessedMeansQueued
<1> DEFINE Processed ==
      \A y \in Years : process[y] # "processed" /\ process'[y] = "processed" =>
          \E c \in Clients :
              /\ Asks(c, "queue") /\ req[c].year = y
              /\ \A m \in req[c].all : \E n \in Ids :
                    /\ Sent(n)
                    /\ msg[n].kind = "ANNUAL_MEMBERSHIP_FEE"
                    /\ msg[n].member = m /\ msg[n].run = y
<1>1. Inv /\ [Next]_vars => [Processed]_vars
  <2> SUFFICES ASSUME Inv, Next, NEW y \in Years, process[y] # "processed", process'[y] = "processed"
               PROVE  \E c \in Clients :
                        /\ Asks(c, "queue") /\ req[c].year = y
                        /\ \A m \in req[c].all : \E n \in Ids :
                              /\ Sent(n)
                              /\ msg[n].kind = "ANNUAL_MEMBERSHIP_FEE"
                              /\ msg[n].member = m /\ msg[n].run = y
    OBVIOUS
  <2>1. PICK c \in Clients : CompleteRun(c)
    <3>1. \A c \in Clients : ~StartRun(c)
      BY DEF StartRun, Inv, TypeOK
    <3> QED BY <3>1 DEF Next, Approve, BeginRun, ListMembers, QueueMember, AskEquipment,
            QueueEquipment, AddMember, Skip, InvoiceFees, RejectDuplicate, LoseInvoice, Crash,
            NewYear, feeVars
  <2>2. Asks(c, "queue") /\ req[c].rest = {} /\ req[c].year = y
    BY <2>1, RequestFields DEF CompleteRun, Inv, TypeOK
  <2>3. \A m \in req[c].all : \E n \in Ids : Queued(n, m, req[c].year)
    BY <2>2 DEF Inv, RunsApart
  <2> QED BY <2>2, <2>3 DEF Queued
<1> QED BY InvHolds, <1>1, PTL DEF Spec, ProcessedMeansQueued

=============================================================================
