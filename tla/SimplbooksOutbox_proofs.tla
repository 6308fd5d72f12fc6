----------------------- MODULE SimplbooksOutbox_proofs -----------------------
(***************************************************************************)
(* Proofs about the SimplBooks outbox, for every set of rows, workers and  *)
(* requested types and every bound.  The first part holds however many     *)
(* processes run the worker; the second part, at the end of the module,    *)
(* is what the deployment's instance_count of 1 buys.                      *)
(***************************************************************************)
EXTENDS SimplbooksOutbox, TLAPS

(* The strengthening that makes the safety invariants inductive.            *)

Busy == {"claimed", "cleared", "created", "emailed", "marked", "failing"}

\* A row nobody inserted yet has no history.
Pristine ==
    \A i \in Ids : ~Present(i) =>
        cause[i] = 0 /\ local[i] = {} /\ created[i] = 0 /\ i \notin emailed

\* SimplBooks never holds two clients for one ADD_MEMBER message.
OneClient == \A i \in Ids : Present(i) /\ type[i] = "ADD_MEMBER" => created[i] <= 1

\* A busy worker holds a row, on the branch of the handlers that the row's type takes.
Held ==
    \A w \in Workers :
        /\ pc[w] \in Busy => cur[w] \in Ids /\ Present(cur[w])
        /\ pc[w] \in {"cleared", "created"} => type[cur[w]] # Pdf
        /\ InEmailTxn(w) => type[cur[w]] = Pdf /\ cur[w] \in emailed
        /\ pc[w] = "marked" => Invoice(cur[w]) \in markedSent

\* A row some handler inserted is for a document that handler recorded.
FollowUpFiled ==
    \A p \in Ids :
        /\ Present(p) /\ type[p] = Pdf => cause[p] # 0
        /\ cause[p] # 0 => docref[p] \in local[cause[p]]

\* A number a worker has just heard is in use at SimplBooks, and for an invoice it is a
\* number no one has recorded and no other worker has heard.
FreshDoc ==
    \A w \in Workers : pc[w] = "created" =>
        /\ doc[w] \in 1 .. created[cur[w]]
        /\ type[cur[w]] \in Invoicing => doc[w] \notin local[cur[w]]
        /\ \A v \in Workers : pc[v] = "created" /\ cur[v] = cur[w] /\ v # w
              /\ type[cur[w]] \in Invoicing => doc[v] # doc[w]

Inv ==
    /\ TypeOK
    /\ Pristine
    /\ OneClient
    /\ Held
    /\ FollowUpFiled
    /\ RecordedInSimplbooks
    /\ FreshDoc

USE IdsAssumption, BoundsAssumption, RequestedAssumption

\* The names that every step of the proof below has to open.
LEMMA Disjoint ==
    /\ Pdf \in EventTypes /\ Pdf \notin Invoicing /\ Pdf \notin Recording
    /\ Invoicing \subseteq Recording /\ "ADD_MEMBER" \notin Invoicing
    /\ Pdf \notin Requested /\ Requested \subseteq EventTypes
    /\ \A t \in EventTypes : HasFollowUp(t) => t \in Recording /\ FollowUp(t) \in EventTypes
    /\ \A t \in EventTypes : FollowUp(t) # "ADD_MEMBER"
  BY DEF Pdf, Invoicing, Recording, EventTypes, HasFollowUp, FollowUp

\* The id of a new message is of no message yet.
LEMMA FreshId ==
  ASSUME NEW n \in Ids, NextId(n) PROVE ~Present(n)
  BY DEF NextId

\* The initial state satisfies the invariant.
LEMMA InitInv == Init => Inv
  BY Disjoint DEF Init, Inv, TypeOK, Pristine, OneClient, Held, FollowUpFiled,
         RecordedInSimplbooks, FreshDoc, Present, Busy, InEmailTxn, Statuses, PCs

\* The number a create call comes back with, and what SimplBooks holds after it.
LEMMA NewDocFacts ==
  ASSUME TypeOK, OneClient, NEW i \in Ids, Present(i)
  PROVE  /\ NewDoc(i) \in Nat /\ NewDoc(i) >= created[i] /\ NewDoc(i) >= 1
         /\ type[i] = "ADD_MEMBER" => NewDoc(i) = 1
         /\ type[i] \in Invoicing => NewDoc(i) = created[i] + 1
<1>1. created[i] \in Nat
  BY DEF TypeOK
<1>2. CASE type[i] = "ADD_MEMBER"
  BY <1>1, <1>2, Disjoint DEF NewDoc, OneClient
<1>3. CASE type[i] # "ADD_MEMBER"
  BY <1>1, <1>3 DEF NewDoc
<1> QED
  BY <1>2, <1>3

\* A document made at SimplBooks gets a new number and leaves the others their own.
LEMMA CreatedAfterFacts ==
  ASSUME TypeOK, OneClient, NEW i \in Ids, Present(i), created' = CreatedAfter(i)
  PROVE  /\ created' \in [Ids -> Nat]
         /\ created'[i] = NewDoc(i)
         /\ \A j \in Ids : created'[j] >= created[j] /\ (j # i => created'[j] = created[j])
<1>1. created \in [Ids -> Nat] /\ NewDoc(i) \in Nat /\ NewDoc(i) >= created[i]
  BY NewDocFacts DEF TypeOK
<1>2. created' = [created EXCEPT ![i] = NewDoc(i)]
  BY DEF CreatedAfter
<1> QED
  BY <1>1, <1>2

\* Every step keeps the invariant.
LEMMA StepInv == Inv /\ [Next]_vars => Inv'
<1> SUFFICES ASSUME Inv, [Next]_vars PROVE Inv'
  OBVIOUS
<1> USE DEF Inv, TypeOK, Present, Busy, InEmailTxn, Statuses, PCs, tableVars, ledgerVars,
            outsideVars, workerVars, budgetVars
<1>1. CASE UNCHANGED vars
  BY <1>1 DEF vars, Pristine, OneClient, Held, FollowUpFiled, RecordedInSimplbooks,
         FreshDoc, Invoice
<1>2. ASSUME NEW i \in Ids, Retry(i) PROVE Inv'
  BY <1>2, Disjoint DEF Retry, Pristine, OneClient, Held, FollowUpFiled,
         RecordedInSimplbooks, FreshDoc, Invoice
<1>3. ASSUME NEW w \in Workers, Boot(w) PROVE Inv'
  BY <1>3, Disjoint DEF Boot, Pristine, OneClient, Held, FollowUpFiled,
         RecordedInSimplbooks, FreshDoc, Invoice
<1>4. ASSUME NEW w \in Workers, Sweep(w) PROVE Inv'
  BY <1>4, Disjoint DEF Sweep, Pristine, OneClient, Held, FollowUpFiled,
         RecordedInSimplbooks, FreshDoc, Invoice
<1>5. ASSUME NEW w \in Workers, Claim(w) PROVE Inv'
  BY <1>5, Disjoint DEF Claim, OldestPending, Claimable, Pristine, OneClient, Held, FollowUpFiled,
         RecordedInSimplbooks, FreshDoc, Invoice
<1>6. ASSUME NEW w \in Workers, Crash(w) PROVE Inv'
  BY <1>6, Disjoint DEF Crash, Pristine, OneClient, Held, FollowUpFiled,
         RecordedInSimplbooks, FreshDoc, Invoice
<1>7. ASSUME NEW w \in Workers, Skip(w) PROVE Inv'
  <2>1. Held'
    BY <1>7, Disjoint DEF Skip, GoIdle, Held, Invoice
  <2> QED
    BY <1>7, <2>1, Disjoint DEF Skip, GoIdle, Pristine, OneClient, Held, FollowUpFiled,
         RecordedInSimplbooks, FreshDoc
<1>8. ASSUME NEW w \in Workers, Clear(w) PROVE Inv'
  BY <1>8, Disjoint DEF Clear, Pristine, OneClient, Held, FollowUpFiled,
         RecordedInSimplbooks, FreshDoc, Invoice
<1>9. ASSUME NEW w \in Workers, Throw(w) PROVE Inv'
  BY <1>9, Disjoint DEF Throw, Pristine, OneClient, Held, FollowUpFiled,
         RecordedInSimplbooks, FreshDoc, Invoice
<1>10. ASSUME NEW w \in Workers, CatchOwn(w) PROVE Inv'
  <2>1. Held'
    BY <1>10, Disjoint DEF CatchOwn, Held, Invoice
  <2> QED
    BY <1>10, <2>1, Disjoint DEF CatchOwn, Pristine, OneClient, Held, FollowUpFiled,
         RecordedInSimplbooks, FreshDoc
<1>11. ASSUME NEW w \in Workers, LoseReport(w) PROVE Inv'
  BY <1>11, Disjoint DEF LoseReport, GoIdle, Pristine, OneClient, Held, FollowUpFiled,
         RecordedInSimplbooks, FreshDoc, Invoice
<1>12. ASSUME NEW t \in Requested, Enqueue(t) PROVE Inv'
  <2>0. PICK i \in Ids :
            /\ ~Present(i)
            /\ status' = [status EXCEPT ![i] = "PENDING"]
            /\ type' = [type EXCEPT ![i] = t]
            /\ UNCHANGED <<cause, docref, ledgerVars, outsideVars, workerVars, budgetVars>>
    <3>1. PICK i \in Ids :
              /\ NextId(i)
              /\ status' = [status EXCEPT ![i] = "PENDING"]
              /\ type' = [type EXCEPT ![i] = t]
              /\ UNCHANGED <<cause, docref, ledgerVars, outsideVars, workerVars, budgetVars>>
      BY <1>12 DEF Enqueue
    <3> QED
      BY <3>1, FreshId
  <2>1. TypeOK'
    BY <1>12, <2>0, Disjoint
  <2>2. Pristine'
    BY <1>12, <2>0, Disjoint DEF Pristine
  <2>3. OneClient'
    BY <1>12, <2>0, Disjoint DEF OneClient, Pristine
  <2>4. Held'
    BY <1>12, <2>0, Disjoint DEF Held, Pristine, Invoice
  <2>5. FollowUpFiled'
    BY <1>12, <2>0, Disjoint DEF FollowUpFiled, Pristine, Held
  <2>6. RecordedInSimplbooks'
    BY <1>12, <2>0, Disjoint DEF RecordedInSimplbooks
  <2>7. FreshDoc'
    BY <1>12, <2>0, Disjoint DEF FreshDoc, Held
  <2> QED
    BY <2>1, <2>2, <2>3, <2>4, <2>5, <2>6, <2>7
<1>13. ASSUME NEW w \in Workers, Create(w) PROVE Inv'
  <2> DEFINE i == cur[w]
  <2>0. /\ i \in Ids /\ Present(i) /\ pc[w] = "cleared"
        /\ created' = CreatedAfter(i)
        /\ pc' = [pc EXCEPT ![w] = "created"]
        /\ doc' = [doc EXCEPT ![w] = NewDoc(i)]
        /\ UNCHANGED <<tableVars, ledgerVars, emailed, markedSent, cur, sweeping, budgetVars>>
    BY <1>13 DEF Create, Held
  <2>a. /\ NewDoc(i) \in Nat /\ NewDoc(i) >= 1 /\ NewDoc(i) >= created[i]
        /\ type[i] \in Invoicing => NewDoc(i) = created[i] + 1
        /\ type[i] = "ADD_MEMBER" => NewDoc(i) = 1
    BY <2>0, NewDocFacts
  <2>b. /\ created' \in [Ids -> Nat] /\ created'[i] = NewDoc(i)
        /\ \A j \in Ids : created'[j] >= created[j] /\ (j # i => created'[j] = created[j])
    BY <2>0, CreatedAfterFacts
  <2>1. TypeOK'
    BY <2>0, <2>a, <2>b
  <2>2. Pristine'
    BY <2>0, <2>b DEF Pristine
  <2>3. OneClient'
    BY <2>0, <2>a, <2>b DEF OneClient
  <2>4. Held'
    BY <2>0 DEF Held, Invoice
  <2>5. FollowUpFiled'
    BY <2>0 DEF FollowUpFiled
  <2>6. RecordedInSimplbooks'
    <3> SUFFICES ASSUME NEW j \in Ids, NEW k \in local[j] PROVE k \in 1 .. created'[j]
      BY <2>0 DEF RecordedInSimplbooks
    <3> QED
      BY <2>b DEF RecordedInSimplbooks
  <2>7. FreshDoc'
    <3>1. \A v \in Workers : v # w /\ pc'[v] = "created" =>
              /\ pc[v] = "created" /\ cur[v] \in Ids /\ doc'[v] = doc[v]
              /\ doc[v] \in 1 .. created[cur[v]]
      BY <2>0 DEF FreshDoc, Held
    <3>2. ASSUME NEW v \in Workers, v # w, pc'[v] = "created"
          PROVE  doc'[v] \in 1 .. created'[cur[v]]
      <4>1. /\ doc'[v] \in 1 .. created[cur[v]]
            /\ created[cur[v]] \in Nat /\ created'[cur[v]] \in Nat
            /\ created'[cur[v]] >= created[cur[v]]
        BY <3>1, <3>2, <2>b
      <4> HIDE DEF Inv
      <4> QED
        BY <4>1
    <3>3. doc'[w] = NewDoc(i) /\ doc'[w] \in 1 .. created'[i]
      BY <2>0, <2>a, <2>b
    <3>4. ASSUME type[i] \in Invoicing
          PROVE  /\ doc'[w] \notin local[i]
                 /\ \A k \in 1 .. created[i] : k # doc'[w]
      <4>1. /\ doc'[w] = created[i] + 1 /\ created[i] \in Nat
            /\ \A k \in local[i] : k \in 1 .. created[i]
        BY <2>0, <2>a, <3>3, <3>4 DEF RecordedInSimplbooks
      <4> HIDE DEF Inv
      <4> QED
        BY <4>1
    <3> QED
      BY <2>0, <3>1, <3>2, <3>3, <3>4 DEF FreshDoc
  <2> QED
    BY <2>1, <2>2, <2>3, <2>4, <2>5, <2>6, <2>7
<1>14. ASSUME NEW w \in Workers, CreateUnheard(w) PROVE Inv'
  <2> DEFINE i == cur[w]
  <2>0. /\ i \in Ids /\ Present(i) /\ pc[w] = "cleared"
        /\ created' = CreatedAfter(i)
        /\ pc' = [pc EXCEPT ![w] = "failing"]
        /\ doc' = doc
        /\ UNCHANGED <<tableVars, ledgerVars, emailed, markedSent, cur, sweeping, budgetVars>>
    BY <1>14 DEF CreateUnheard, Held
  <2>a. /\ NewDoc(i) \in Nat /\ NewDoc(i) >= 1 /\ NewDoc(i) >= created[i]
        /\ type[i] \in Invoicing => NewDoc(i) = created[i] + 1
        /\ type[i] = "ADD_MEMBER" => NewDoc(i) = 1
    BY <2>0, NewDocFacts
  <2>b. /\ created' \in [Ids -> Nat] /\ created'[i] = NewDoc(i)
        /\ \A j \in Ids : created'[j] >= created[j] /\ (j # i => created'[j] = created[j])
    BY <2>0, CreatedAfterFacts
  <2>1. TypeOK'
    BY <2>0, <2>a, <2>b
  <2>2. Pristine'
    BY <2>0, <2>b DEF Pristine
  <2>3. OneClient'
    BY <2>0, <2>a, <2>b DEF OneClient
  <2>4. Held'
    BY <2>0 DEF Held, Invoice
  <2>5. FollowUpFiled'
    BY <2>0 DEF FollowUpFiled
  <2>6. RecordedInSimplbooks'
    <3> SUFFICES ASSUME NEW j \in Ids, NEW k \in local[j] PROVE k \in 1 .. created'[j]
      BY <2>0 DEF RecordedInSimplbooks
    <3> QED
      BY <2>b DEF RecordedInSimplbooks
  <2>7. FreshDoc'
    <3>1. \A v \in Workers : v # w /\ pc'[v] = "created" =>
              /\ pc[v] = "created" /\ cur[v] \in Ids /\ doc'[v] = doc[v]
              /\ doc[v] \in 1 .. created[cur[v]]
      BY <2>0 DEF FreshDoc, Held
    <3>2. ASSUME NEW v \in Workers, v # w, pc'[v] = "created"
          PROVE  doc'[v] \in 1 .. created'[cur[v]]
      <4>1. /\ doc'[v] \in 1 .. created[cur[v]]
            /\ created[cur[v]] \in Nat /\ created'[cur[v]] \in Nat
            /\ created'[cur[v]] >= created[cur[v]]
        BY <3>1, <3>2, <2>b
      <4> HIDE DEF Inv
      <4> QED
        BY <4>1
    <3> QED
      BY <2>0, <3>1, <3>2 DEF FreshDoc
  <2> QED
    BY <2>1, <2>2, <2>3, <2>4, <2>5, <2>6, <2>7
<1>15. ASSUME NEW w \in Workers, Record(w) PROVE Inv'
  <2> DEFINE i == cur[w]
             k == doc[w]
  <2>0. /\ i \in Ids /\ Present(i) /\ k \in 1 .. created[i] /\ type[i] # Pdf
        /\ type[i] \in Invoicing => k \notin local[i]
        /\ pc[w] = "created"
        /\ GoIdle(w)
        /\ UNCHANGED <<sentAt, outsideVars, sweeping, budgetVars>>
        /\ local' = IF type[i] \in Recording THEN [local EXCEPT ![i] = @ \cup {k}] ELSE local
    BY <1>15 DEF Record, Held, FreshDoc
  <2>a. CASE HasFollowUp(type[i])
    <3>0. PICK n \in Ids :
              /\ ~Present(n)
              /\ status' = [status EXCEPT ![i] = "SYNCED", ![n] = "PENDING"]
              /\ type' = [type EXCEPT ![n] = FollowUp(type[i])]
              /\ cause' = [cause EXCEPT ![n] = i]
              /\ docref' = [docref EXCEPT ![n] = k]
      BY <1>15, <2>a, FreshId DEF Record, InsertFollowUp
    <3>1. /\ n # i /\ k \in Nat /\ type[i] \in Recording /\ FollowUp(type[i]) \in EventTypes
          /\ local' = [local EXCEPT ![i] = @ \cup {k}]
      BY <2>0, <2>a, <3>0, Disjoint
    <3>2. TypeOK'
      <4>1. status' \in [Ids -> Statuses \cup {"ABSENT"}]
        BY <3>0
      <4>2. type' \in [Ids -> EventTypes] /\ cause' \in [Ids -> Ids \cup {0}]
        BY <2>0, <3>0, <3>1
      <4>2a. docref' \in [Ids -> Nat] /\ local' \in [Ids -> SUBSET Nat]
        <5>1. docref \in [Ids -> Nat] /\ local \in [Ids -> SUBSET Nat]
          OBVIOUS
        <5>2. docref' = [docref EXCEPT ![n] = k] /\ local' = [local EXCEPT ![i] = @ \cup {k}]
          BY <3>0, <3>1
        <5>3. k \in Nat
          BY <3>1
        <5> HIDE DEF Inv, k, i
        <5> QED
          BY <5>1, <5>2, <5>3
      <4>3. /\ pc' \in [Workers -> PCs] /\ cur' \in [Workers -> Ids \cup {0}]
            /\ doc' \in [Workers -> Nat]
        BY <2>0 DEF GoIdle
      <4> QED
        BY <2>0, <4>1, <4>2, <4>2a, <4>3
    <3>3. Pristine'
      BY <2>0, <3>0, <3>1, Disjoint DEF Pristine
    <3>4. OneClient'
      BY <2>0, <3>0, <3>1, Disjoint DEF OneClient, Pristine
    <3>5. Held'
      <4>1. ASSUME NEW v \in Workers, pc'[v] \in Busy
            PROVE  /\ cur'[v] = cur[v] /\ pc'[v] = pc[v] /\ cur[v] # n
                   /\ cur[v] \in Ids /\ Present(cur[v])
        BY <2>0, <3>0, <4>1 DEF GoIdle, Held
      <4>2. \A j \in Ids : j # n =>
                /\ type'[j] = type[j] /\ cause'[j] = cause[j] /\ docref'[j] = docref[j]
                /\ status[j] # "ABSENT" => status'[j] # "ABSENT"
        BY <3>0
      <4>3. ASSUME NEW v \in Workers, pc'[v] \in Busy
            PROVE  /\ type'[cur[v]] = type[cur[v]] /\ status'[cur[v]] # "ABSENT"
                   /\ cause'[cur[v]] = cause[cur[v]] /\ docref'[cur[v]] = docref[cur[v]]
        BY <4>1, <4>2, <4>3
      <4>4. UNCHANGED <<emailed, markedSent>>
        BY <2>0
      <4>5. Held
        OBVIOUS
      <4> HIDE DEF Inv
      <4> QED
        BY <4>1, <4>3, <4>4, <4>5 DEF Held, Invoice
    <3>6. FollowUpFiled'
      BY <2>0, <3>0, <3>1, Disjoint DEF FollowUpFiled, Pristine
    <3>7. RecordedInSimplbooks'
      BY <2>0, <3>0, <3>1, Disjoint DEF RecordedInSimplbooks
    <3>8. FreshDoc'
      BY <2>0, <3>0, <3>1, Disjoint DEF GoIdle, FreshDoc, Held
    <3> QED
      BY <3>2, <3>3, <3>4, <3>5, <3>6, <3>7, <3>8
  <2>b. CASE ~HasFollowUp(type[i])
    <3>1. k \in Nat /\ status' = [status EXCEPT ![i] = "SYNCED"] /\ UNCHANGED <<type, cause, docref>>
      BY <1>15, <2>0, <2>b DEF Record
    <3>2. TypeOK'
      BY <2>0, <3>1, Disjoint DEF GoIdle
    <3>3. Pristine'
      BY <2>0, <3>1, Disjoint DEF Pristine
    <3>4. OneClient'
      BY <2>0, <3>1, Disjoint DEF OneClient, Pristine
    <3>5. Held'
      BY <2>0, <3>1, Disjoint DEF GoIdle, Held, FollowUpFiled, Invoice
    <3>6. FollowUpFiled'
      BY <2>0, <3>1, Disjoint DEF FollowUpFiled, Pristine
    <3>7. RecordedInSimplbooks'
      BY <2>0, <3>1, Disjoint DEF RecordedInSimplbooks
    <3>8. FreshDoc'
      BY <2>0, <3>1, Disjoint DEF GoIdle, FreshDoc, Held, HasFollowUp
    <3> QED
      BY <3>2, <3>3, <3>4, <3>5, <3>6, <3>7, <3>8
  <2> QED
    BY <2>a, <2>b
<1>16. ASSUME NEW w \in Workers, Email(w) PROVE Inv'
  <2>1. TypeOK'
    BY <1>16, Disjoint DEF Email, Held
  <2>2. Pristine'
    BY <1>16, Disjoint DEF Email, Pristine, Held
  <2>3. OneClient'
    BY <1>16, Disjoint DEF Email, OneClient, Pristine
  <2>4. Held'
    BY <1>16, Disjoint DEF Email, Held, Pristine, Invoice
  <2>5. FollowUpFiled'
    BY <1>16, Disjoint DEF Email, FollowUpFiled, Pristine, Held
  <2>6. RecordedInSimplbooks'
    BY <1>16, Disjoint DEF Email, RecordedInSimplbooks
  <2>7. FreshDoc'
    BY <1>16, Disjoint DEF Email, FreshDoc
  <2> QED
    BY <2>1, <2>2, <2>3, <2>4, <2>5, <2>6, <2>7
<1>17. ASSUME NEW w \in Workers, NEW h \in BOOLEAN, MarkSent(w, h) PROVE Inv'
  <2>0. cur[w] \in Ids /\ Invoice(cur[w]) \in Ids \X Nat
    BY <1>17 DEF MarkSent, Held, FollowUpFiled, Invoice
  <2>1. TypeOK'
    BY <1>17, <2>0, Disjoint DEF MarkSent
  <2>2. Pristine'
    BY <1>17, Disjoint DEF MarkSent, Pristine
  <2>3. OneClient'
    BY <1>17, Disjoint DEF MarkSent, OneClient, Pristine
  <2>4. Held'
    BY <1>17, Disjoint DEF MarkSent, Held, Pristine, Invoice
  <2>5. FollowUpFiled'
    BY <1>17, Disjoint DEF MarkSent, FollowUpFiled, Pristine, Held
  <2>6. RecordedInSimplbooks'
    BY <1>17, Disjoint DEF MarkSent, RecordedInSimplbooks
  <2>7. FreshDoc'
    BY <1>17, Disjoint DEF MarkSent, FreshDoc
  <2> QED
    BY <2>1, <2>2, <2>3, <2>4, <2>5, <2>6, <2>7
<1>18. ASSUME NEW w \in Workers, CommitSent(w) PROVE Inv'
  <2>0. cur[w] \in Ids /\ Invoice(cur[w]) \in Ids \X Nat
    BY <1>18 DEF CommitSent, Held, FollowUpFiled, Invoice
  <2>1. TypeOK'
    BY <1>18, <2>0, Disjoint DEF CommitSent, GoIdle
  <2>2. Pristine'
    BY <1>18, Disjoint DEF CommitSent, GoIdle, Pristine
  <2>3. OneClient'
    BY <1>18, Disjoint DEF CommitSent, GoIdle, OneClient, Pristine
  <2>4. Held'
    BY <1>18, Disjoint DEF CommitSent, GoIdle, Held, Pristine, Invoice
  <2>5. FollowUpFiled'
    BY <1>18, Disjoint DEF CommitSent, GoIdle, FollowUpFiled, Pristine, Held
  <2>6. RecordedInSimplbooks'
    BY <1>18, Disjoint DEF CommitSent, GoIdle, RecordedInSimplbooks
  <2>7. FreshDoc'
    BY <1>18, Disjoint DEF CommitSent, GoIdle, FreshDoc
  <2> QED
    BY <2>1, <2>2, <2>3, <2>4, <2>5, <2>6, <2>7
<1>19. ASSUME NEW w \in Workers, Report(w) PROVE Inv'
  <2>1. TypeOK'
    BY <1>19, Disjoint DEF Report, GoIdle
  <2>2. Pristine'
    BY <1>19, Disjoint DEF Report, GoIdle, Pristine
  <2>3. OneClient'
    BY <1>19, Disjoint DEF Report, GoIdle, OneClient, Pristine
  <2>4. Held'
    BY <1>19, Disjoint DEF Report, GoIdle, Held, Pristine, Invoice
  <2>5. FollowUpFiled'
    BY <1>19, Disjoint DEF Report, GoIdle, FollowUpFiled, Pristine, Held
  <2>6. RecordedInSimplbooks'
    BY <1>19, Disjoint DEF Report, GoIdle, RecordedInSimplbooks
  <2>7. FreshDoc'
    BY <1>19, Disjoint DEF Report, GoIdle, FreshDoc
  <2> QED
    BY <2>1, <2>2, <2>3, <2>4, <2>5, <2>6, <2>7
<1> QED
  BY <1>1, <1>2, <1>3, <1>4, <1>5, <1>6, <1>7, <1>8, <1>9, <1>10,
     <1>11, <1>12, <1>13, <1>14, <1>15, <1>16, <1>17, <1>18, <1>19 DEF Next, Dispatch

\* The strengthened invariant holds, with any number of worker processes.
THEOREM InvHolds == Spec => []Inv
<1>1. Init => Inv
  BY InitInv
<1>2. Inv /\ [Next]_vars => Inv'
  BY StepInv
<1> QED
  BY <1>1, <1>2, PTL DEF Spec

\* The table, the ledger and the workers keep their types.
THEOREM TypeCorrect == Spec => []TypeOK
<1>1. Inv => TypeOK
  BY DEF Inv
<1> QED
  BY <1>1, InvHolds, PTL

\* However many workers there are and wherever they crash, no document is on record that
\* SimplBooks does not hold.
THEOREM RecordedIsReal == Spec => []RecordedInSimplbooks
<1>1. Inv => RecordedInSimplbooks
  BY DEF Inv
<1> QED
  BY <1>1, InvHolds, PTL

-----------------------------------------------------------------------------
(* Steps that neither insert a row nor record a document.                   *)

Quiet ==
    /\ UNCHANGED <<type, cause, docref, local>>
    /\ \A i \in Ids : Present(i)' <=> Present(i)

\* A step inserts requested messages, records a document or does neither.
LEMMA StepKinds ==
  ASSUME Inv, [Next]_vars
  PROVE  \/ \E t \in Requested : Enqueue(t)
         \/ \E w \in Workers : Record(w)
         \/ Quiet
<1> USE DEF Quiet, Present, tableVars, ledgerVars, outsideVars, workerVars, budgetVars
<1>1. CASE UNCHANGED vars
  BY <1>1 DEF vars
<1>2. ASSUME NEW i \in Ids, Retry(i) PROVE Quiet
  BY <1>2 DEF Retry, Inv, TypeOK
<1>3. ASSUME NEW w \in Workers, Boot(w) \/ Crash(w) PROVE Quiet
  BY <1>3 DEF Boot, Crash
<1>4. ASSUME NEW w \in Workers, Sweep(w) PROVE Quiet
  BY <1>4 DEF Sweep, Inv, TypeOK
<1>5. ASSUME NEW w \in Workers, Claim(w) PROVE Quiet
  BY <1>5 DEF Claim, OldestPending, Claimable, Inv, TypeOK
<1>6. ASSUME NEW w \in Workers, Skip(w) PROVE Quiet
  BY <1>6 DEF Skip, Inv, TypeOK, Held, Busy
<1>7. ASSUME NEW w \in Workers, Clear(w) \/ Create(w) \/ CreateUnheard(w) PROVE Quiet
  BY <1>7 DEF Clear, Create, CreateUnheard
<1>8. ASSUME NEW w \in Workers, Email(w) \/ (\E h \in BOOLEAN : MarkSent(w, h)) PROVE Quiet
  BY <1>8 DEF Email, MarkSent
<1>9. ASSUME NEW w \in Workers, CommitSent(w) PROVE Quiet
  BY <1>9 DEF CommitSent, Inv, TypeOK, Held, Busy
<1>10. ASSUME NEW w \in Workers, Throw(w) \/ LoseReport(w) PROVE Quiet
  BY <1>10 DEF Throw, LoseReport
<1>11. ASSUME NEW w \in Workers, CatchOwn(w) \/ Report(w) PROVE Quiet
  BY <1>11 DEF CatchOwn, Report, Inv, TypeOK, Held, Busy
<1> QED
  BY <1>1, <1>2, <1>3, <1>4, <1>5, <1>6, <1>7, <1>8, <1>9, <1>10, <1>11 DEF Next, Dispatch

\* What inserting a row does.
LEMMA EnqueueFacts ==
  ASSUME Inv, NEW t \in Requested, Enqueue(t)
  PROVE  \E n \in Ids :
            /\ ~Present(n) /\ cause[n] = 0
            /\ UNCHANGED <<cause, docref, local>>
            /\ \A j \in Ids : Present(j)' <=> (Present(j) \/ j = n)
            /\ \A j \in Ids : j # n => type'[j] = type[j]
            /\ type'[n] # Pdf
            /\ status' = [status EXCEPT ![n] = "PENDING"]
<1>1. PICK n \in Ids :
          /\ NextId(n)
          /\ status' = [status EXCEPT ![n] = "PENDING"]
          /\ type' = [type EXCEPT ![n] = t]
          /\ UNCHANGED <<cause, docref, ledgerVars, outsideVars, workerVars, budgetVars>>
  BY DEF Enqueue
<1>2. ~Present(n) /\ cause[n] = 0
  BY <1>1, FreshId DEF Inv, Pristine
<1> QED
  BY <1>1, <1>2, Disjoint DEF Inv, TypeOK, Present, ledgerVars

\* What recording a document k for row i does: the follow-up row is n, if there is one.
LEMMA RecordFacts ==
  ASSUME Inv, NEW w \in Workers, Record(w)
  PROVE  LET i == cur[w]
             k == doc[w]
         IN  /\ i \in Ids /\ Present(i) /\ type[i] # Pdf /\ k \in Nat
             /\ pc[w] = "created"
             /\ local' = IF type[i] \in Recording THEN [local EXCEPT ![i] = @ \cup {k}]
                         ELSE local
             /\ type[i] \in Invoicing => k \notin local[i]
             /\ \/ /\ ~HasFollowUp(type[i])
                   /\ status' = [status EXCEPT ![i] = "SYNCED"]
                   /\ UNCHANGED <<type, cause, docref>>
                \/ \E n \in Ids :
                      /\ HasFollowUp(type[i]) /\ ~Present(n) /\ n # i
                      /\ cause[n] = 0 /\ local[n] = {}
                      /\ status' = [status EXCEPT ![i] = "SYNCED", ![n] = "PENDING"]
                      /\ type' = [type EXCEPT ![n] = FollowUp(type[i])]
                      /\ cause' = [cause EXCEPT ![n] = i]
                      /\ docref' = [docref EXCEPT ![n] = k]
<1> DEFINE i == cur[w]
           k == doc[w]
<1>1. /\ i \in Ids /\ Present(i) /\ type[i] # Pdf /\ k \in Nat /\ pc[w] = "created"
      /\ type[i] \in Invoicing => k \notin local[i]
      /\ local' = IF type[i] \in Recording THEN [local EXCEPT ![i] = @ \cup {k}] ELSE local
  BY DEF Record, Inv, TypeOK, Held, Busy, FreshDoc
<1>2. CASE HasFollowUp(type[i])
  <2>1. PICK n \in Ids :
            /\ NextId(n)
            /\ status' = [status EXCEPT ![i] = "SYNCED", ![n] = "PENDING"]
            /\ type' = [type EXCEPT ![n] = FollowUp(type[i])]
            /\ cause' = [cause EXCEPT ![n] = i]
            /\ docref' = [docref EXCEPT ![n] = k]
    BY <1>2 DEF Record, InsertFollowUp
  <2>2. ~Present(n) /\ n # i /\ cause[n] = 0 /\ local[n] = {}
    BY <1>1, <2>1, FreshId DEF Inv, Pristine
  <2> QED
    BY <1>1, <1>2, <2>1, <2>2
<1>3. CASE ~HasFollowUp(type[i])
  BY <1>1, <1>3 DEF Record
<1> QED
  BY <1>2, <1>3

-----------------------------------------------------------------------------
(* One e-mail message for each invoice.                                     *)

MailFor(i, k) ==
    \E p \in Ids :
        /\ Present(p) /\ Invoice(p) = <<i, k>>
        /\ \A q \in Ids : Present(q) /\ Invoice(q) = <<i, k>> => q = p

\* Initially there is no mail.
LEMMA MailInit == Init => OneMailPerInvoice
  BY DEF Init, OneMailPerInvoice, Present

\* Every step keeps it at one mail per invoice.
LEMMA MailStep == Inv /\ OneMailPerInvoice /\ [Next]_vars => OneMailPerInvoice'
<1> SUFFICES ASSUME Inv, OneMailPerInvoice, [Next]_vars PROVE OneMailPerInvoice'
  OBVIOUS
<1>1. Inv'
  BY StepInv
<1>2. \A p \in Ids : Present(p)' /\ type'[p] = Pdf => docref'[p] \in local'[cause'[p]]
  BY <1>1 DEF Inv, FollowUpFiled, Present
<1>3. SUFFICES ASSUME NEW i \in Ids, NEW k \in local'[i], type'[i] \in Invoicing
               PROVE  MailFor(i, k)'
  BY <1>2 DEF OneMailPerInvoice, MailFor
<1>4. ASSUME k \in local[i], type[i] \in Invoicing PROVE MailFor(i, k)
  BY <1>4 DEF OneMailPerInvoice, MailFor
<1>5. ASSUME NEW t \in Requested, Enqueue(t) PROVE MailFor(i, k)'
  <2>1. PICK n \in Ids :
            /\ ~Present(n) /\ cause[n] = 0
            /\ UNCHANGED <<cause, docref, local>>
            /\ \A j \in Ids : Present(j)' <=> (Present(j) \/ j = n)
            /\ \A j \in Ids : j # n => type'[j] = type[j]
    BY <1>5, EnqueueFacts
  <2>2. i # n /\ k \in local[i] /\ type[i] \in Invoicing
    BY <1>3, <2>1 DEF Inv, Pristine
  <2>3. PICK p \in Ids :
            /\ Present(p) /\ <<cause[p], docref[p]>> = <<i, k>>
            /\ \A q \in Ids : Present(q) /\ <<cause[q], docref[q]>> = <<i, k>> => q = p
    BY <1>4, <2>2 DEF MailFor, Invoice
  <2>4. Present(p)' /\ <<cause'[p], docref'[p]>> = <<i, k>>
    BY <2>1, <2>3
  <2>5. ASSUME NEW q \in Ids, Present(q)', <<cause'[q], docref'[q]>> = <<i, k>>
        PROVE  q = p
    <3>1. q # n
      BY <2>1, <2>5, IdsAssumption
    <3> QED
      BY <2>1, <2>3, <2>5, <3>1
  <2> QED
    BY <2>4, <2>5 DEF MailFor, Invoice
<1>6. ASSUME NEW w \in Workers, Record(w) PROVE MailFor(i, k)'
  <2>1. CASE ~HasFollowUp(type[cur[w]])
    <3>1. /\ UNCHANGED <<type, cause, docref>>
          /\ status' = [status EXCEPT ![cur[w]] = "SYNCED"] /\ Present(cur[w])
          /\ cur[w] \in Ids
      BY <1>6, <2>1, RecordFacts
    <3>2. type[i] \in Invoicing /\ i # cur[w]
      BY <1>3, <2>1, <3>1 DEF HasFollowUp
    <3>3. k \in local[i]
      BY <1>6, <3>2, RecordFacts DEF Inv, TypeOK
    <3>4. \A j \in Ids : Present(j)' <=> Present(j)
      BY <3>1 DEF Inv, TypeOK, Present
    <3> QED
      BY <1>4, <3>1, <3>2, <3>3, <3>4 DEF MailFor, Invoice
  <2>2. CASE HasFollowUp(type[cur[w]])
    <3>1. PICK n \in Ids :
              /\ ~Present(n) /\ n # cur[w] /\ cause[n] = 0 /\ local[n] = {}
              /\ status' = [status EXCEPT ![cur[w]] = "SYNCED", ![n] = "PENDING"]
              /\ type' = [type EXCEPT ![n] = FollowUp(type[cur[w]])]
              /\ cause' = [cause EXCEPT ![n] = cur[w]]
              /\ docref' = [docref EXCEPT ![n] = doc[w]]
      BY <1>6, <2>2, RecordFacts
    <3>2. /\ cur[w] \in Ids /\ Present(cur[w])
          /\ local' = [local EXCEPT ![cur[w]] = @ \cup {doc[w]}]
          /\ type[cur[w]] \in Invoicing => doc[w] \notin local[cur[w]]
      BY <1>6, <2>2, RecordFacts, Disjoint DEF Inv, TypeOK
    <3>3. \A j \in Ids : Present(j)' <=> (Present(j) \/ j = n)
      BY <3>1, <3>2 DEF Inv, TypeOK, Present
    <3>4. /\ i # n /\ type[i] \in Invoicing
          /\ \A j \in Ids : j # n => cause'[j] = cause[j] /\ docref'[j] = docref[j]
          /\ cause'[n] = cur[w] /\ docref'[n] = doc[w]
      BY <1>3, <3>1, <3>2 DEF Inv, TypeOK
    <3>5. CASE i = cur[w] /\ k = doc[w]
      <4>1. \A q \in Ids : Present(q) => Invoice(q) # <<i, k>>
        BY <3>2, <3>4, <3>5, IdsAssumption DEF Inv, FollowUpFiled, Invoice
      <4> QED
        <5>1. Present(n)' /\ <<cause'[n], docref'[n]>> = <<i, k>>
          BY <3>3, <3>4, <3>5
        <5>2. ASSUME NEW q \in Ids, Present(q)', <<cause'[q], docref'[q]>> = <<i, k>>
              PROVE  q = n
          BY <3>3, <3>4, <4>1, <5>2 DEF Invoice
        <5> QED
          BY <5>1, <5>2 DEF MailFor, Invoice
    <3>6. CASE ~(i = cur[w] /\ k = doc[w])
      <4>1. k \in local[i]
        BY <3>2, <3>6 DEF Inv, TypeOK
      <4> QED
        <5>1. PICK p \in Ids :
                  /\ Present(p) /\ <<cause[p], docref[p]>> = <<i, k>>
                  /\ \A q \in Ids : Present(q) /\ <<cause[q], docref[q]>> = <<i, k>> => q = p
          BY <1>4, <3>4, <4>1 DEF MailFor, Invoice
        <5>2. Present(p)' /\ <<cause'[p], docref'[p]>> = <<i, k>>
          BY <3>1, <3>3, <3>4, <5>1
        <5>3. ASSUME NEW q \in Ids, Present(q)', <<cause'[q], docref'[q]>> = <<i, k>>
              PROVE  q = p
          <6>1. q # n
            BY <3>4, <3>6, <5>3
          <6> QED
            BY <3>3, <3>4, <5>1, <5>3, <6>1
        <5> QED
          BY <5>2, <5>3 DEF MailFor, Invoice
    <3> QED
      BY <3>5, <3>6
  <2> QED
    BY <2>1, <2>2
<1>7. CASE Quiet
  BY <1>3, <1>4, <1>7 DEF Quiet, MailFor, Invoice
<1> QED
  BY <1>5, <1>6, <1>7, StepKinds

\* However many workers there are, an invoice on record has exactly one e-mail message
\* and an e-mail message is for an invoice on record.
THEOREM OneMail == Spec => []OneMailPerInvoice
<1>1. Init => Inv /\ OneMailPerInvoice
  BY InitInv, MailInit
<1>2. (Inv /\ OneMailPerInvoice) /\ [Next]_vars => (Inv /\ OneMailPerInvoice)'
  BY StepInv, MailStep
<1> QED
  BY <1>1, <1>2, PTL DEF Spec

-----------------------------------------------------------------------------
(* sent_at means sent.                                                      *)

\* A row that is there keeps its type and its invoice, and nothing recorded is forgotten.
Kept ==
    /\ \A p \in Ids : Present(p) =>
          /\ type'[p] = type[p] /\ cause'[p] = cause[p] /\ docref'[p] = docref[p]
    /\ \A j \in Ids : local[j] \subseteq local'[j]

\* No step forgets a document or changes what a message is about.
LEMMA StepKept ==
  ASSUME Inv, [Next]_vars
  PROVE  Kept
<1>1. ASSUME NEW t \in Requested, Enqueue(t) PROVE Kept
  BY <1>1, EnqueueFacts DEF Kept
<1>2. ASSUME NEW w \in Workers, Record(w) PROVE Kept
  <2>1. \A p \in Ids : Present(p) =>
            /\ type'[p] = type[p] /\ cause'[p] = cause[p] /\ docref'[p] = docref[p]
    BY <1>2, RecordFacts DEF Inv, TypeOK
  <2>2. \A j \in Ids : local[j] \subseteq local'[j]
    BY <1>2, RecordFacts DEF Inv, TypeOK
  <2> QED
    BY <2>1, <2>2 DEF Kept
<1> QED
  BY <1>1, <1>2, StepKinds DEF Quiet, Kept

\* Effects outside the database only accumulate, and only CommitSent settles an e-mail.
SettlesNoMail ==
    /\ sentAt' = sentAt
    /\ \A p \in Ids : status'[p] = "SYNCED" /\ type'[p] = Pdf =>
            status[p] = "SYNCED" /\ type[p] = Pdf

\* A mail once sent stays sent, and only a commit settles the message of one.
LEMMA SentKinds ==
  ASSUME Inv, [Next]_vars
  PROVE  /\ emailed \subseteq emailed' /\ markedSent \subseteq markedSent'
         /\ SettlesNoMail \/ \E w \in Workers : CommitSent(w)
<1> DEFINE Goal == /\ emailed \subseteq emailed' /\ markedSent \subseteq markedSent'
                   /\ SettlesNoMail \/ \E w \in Workers : CommitSent(w)
<1> USE DEF SettlesNoMail, tableVars, ledgerVars, outsideVars, workerVars, budgetVars
<1>1. CASE UNCHANGED vars
  BY <1>1 DEF vars
<1>2. ASSUME NEW t \in Requested, Enqueue(t) PROVE Goal
  <2>1. UNCHANGED <<sentAt, emailed, markedSent>>
    BY <1>2 DEF Enqueue
  <2> QED
    BY <1>2, <2>1, EnqueueFacts DEF Inv, TypeOK
<1>3. ASSUME NEW i \in Ids, Retry(i) PROVE Goal
  BY <1>3 DEF Retry, Inv, TypeOK
<1>4. ASSUME NEW w \in Workers, Boot(w) \/ Crash(w) PROVE Goal
  BY <1>4 DEF Boot, Crash
<1>5. ASSUME NEW w \in Workers, Sweep(w) PROVE Goal
  BY <1>5 DEF Sweep, Inv, TypeOK
<1>6. ASSUME NEW w \in Workers, Claim(w) PROVE Goal
  BY <1>6 DEF Claim, Inv, TypeOK
<1>7. ASSUME NEW w \in Workers, Skip(w) PROVE Goal
  BY <1>7 DEF Skip, Inv, TypeOK
<1>8. ASSUME NEW w \in Workers, Clear(w) \/ Create(w) \/ CreateUnheard(w) PROVE Goal
  BY <1>8 DEF Clear, Create, CreateUnheard
<1>9. ASSUME NEW w \in Workers, Record(w) PROVE Goal
  <2>1. UNCHANGED <<sentAt, emailed, markedSent>>
    BY <1>9 DEF Record
  <2>2. SettlesNoMail
    BY <1>9, <2>1, RecordFacts DEF Inv, TypeOK
  <2> QED
    BY <2>1, <2>2
<1>10. ASSUME NEW w \in Workers, Email(w) \/ (\E h \in BOOLEAN : MarkSent(w, h)) PROVE Goal
  BY <1>10 DEF Email, MarkSent
<1>11. ASSUME NEW w \in Workers, CommitSent(w) PROVE Goal
  BY <1>11 DEF CommitSent
<1>12. ASSUME NEW w \in Workers, Throw(w) \/ LoseReport(w) PROVE Goal
  BY <1>12 DEF Throw, LoseReport
<1>13. ASSUME NEW w \in Workers, CatchOwn(w) \/ Report(w) PROVE Goal
  BY <1>13 DEF CatchOwn, Report, Inv, TypeOK
<1> QED
  BY <1>1, <1>2, <1>3, <1>4, <1>5, <1>6, <1>7, <1>8, <1>9, <1>10, <1>11, <1>12, <1>13
     DEF Next, Dispatch

\* Initially nothing is marked as sent.
LEMMA SentInit == Init => SentIsReal
  BY DEF Init, SentIsReal

\* Every step keeps it that what is settled was sent.
LEMMA SentStep == Inv /\ SentIsReal /\ [Next]_vars => SentIsReal'
<1> SUFFICES ASSUME Inv, SentIsReal, [Next]_vars PROVE SentIsReal'
  OBVIOUS
<1>1. Kept /\ emailed \subseteq emailed' /\ markedSent \subseteq markedSent'
  BY StepKept, SentKinds
<1>2. \A p \in emailed : Present(p) /\ p \in Ids
  BY DEF Inv, Pristine, TypeOK
\* What was sent stays sent.
<1>3. \A x \in sentAt :
          /\ x[2] \in local'[x[1]]
          /\ x \in markedSent'
          /\ \E p \in emailed' : <<cause'[p], docref'[p]>> = x
  <2> TAKE x \in sentAt
  <2>1. x[1] \in Ids /\ x[2] \in local[x[1]] /\ x \in markedSent
    BY DEF Inv, TypeOK, SentIsReal
  <2>2. PICK p \in emailed : Invoice(p) = x
    BY DEF SentIsReal
  <2> QED
    BY <1>1, <1>2, <2>1, <2>2 DEF Kept, Invoice
<1>4. CASE SettlesNoMail
  <2>1. ASSUME NEW p \in Ids, status'[p] = "SYNCED", type'[p] = Pdf
        PROVE  <<cause'[p], docref'[p]>> \in sentAt'
    <3>1. status[p] = "SYNCED" /\ type[p] = Pdf /\ Present(p) /\ sentAt' = sentAt
      BY <1>4, <2>1 DEF SettlesNoMail, Present
    <3> QED
      BY <1>1, <3>1 DEF Kept, SentIsReal, Invoice
  <2> QED
    BY <1>3, <1>4, <2>1 DEF SentIsReal, Invoice, SettlesNoMail
<1>5. ASSUME NEW w \in Workers, CommitSent(w) PROVE SentIsReal'
  <2> DEFINE m == cur[w]
  <2>1. /\ m \in Ids /\ m \in emailed /\ Invoice(m) \in markedSent
        /\ docref[m] \in local[cause[m]] /\ cause[m] \in Ids
    BY <1>5 DEF CommitSent, Inv, TypeOK, Held, FollowUpFiled, InEmailTxn, Busy
  <2>2. /\ sentAt' = sentAt \cup {Invoice(m)}
        /\ UNCHANGED <<type, cause, docref, local, emailed, markedSent>>
        /\ status' = [status EXCEPT ![m] = "SYNCED"]
    BY <1>5 DEF CommitSent, outsideVars
  <2>3. \A x \in sentAt' :
            x[2] \in local'[x[1]] /\ x \in markedSent' /\ \E p \in emailed' : Invoice(p)' = x
    BY <1>3, <2>1, <2>2 DEF Invoice
  <2>4. \A p \in Ids : status'[p] = "SYNCED" /\ type'[p] = Pdf => Invoice(p)' \in sentAt'
    BY <2>1, <2>2 DEF SentIsReal, Invoice, Inv, TypeOK
  <2> QED
    BY <2>3, <2>4 DEF SentIsReal
<1> QED
  BY <1>4, <1>5, SentKinds

\* However many workers there are, sent_at and a SYNCED e-mail message mean that the
\* e-mail left and that SimplBooks shows the invoice as sent.
THEOREM SentMeansSent == Spec => []SentIsReal
<1>1. Init => Inv /\ SentIsReal
  BY InitInv, SentInit
<1>2. (Inv /\ SentIsReal) /\ [Next]_vars => (Inv /\ SentIsReal)'
  BY StepInv, SentStep
<1> QED
  BY <1>1, <1>2, PTL DEF Spec

-----------------------------------------------------------------------------
(* No row is forgotten in PROCESSING.                                       *)

\* A worker that dispatches nothing holds no row.
Parked == \A w \in Workers : pc[w] \notin Busy => cur[w] = 0

\* Worker w lets go of its row, which is no longer PROCESSING or whose failure was lost.
LEMMA LetGo ==
  ASSUME Inv, NoForgottenRow, Parked, NEW w \in Workers, pc[w] \in Busy,
         GoIdle(w), sweeping' = sweeping,
         \/ lost' > 0
         \/ /\ lost' = lost
            /\ \A j \in Ids : status'[j] = "PROCESSING" =>
                    j # cur[w] /\ status[j] = "PROCESSING"
  PROVE  NoForgottenRow' /\ Parked'
<1>0. pc \in [Workers -> PCs] /\ cur \in [Workers -> Ids \cup {0}]
  BY DEF Inv, TypeOK
<1>1. Parked'
  BY <1>0 DEF Parked, GoIdle, Busy
<1>2. \A v \in Workers : v # w => cur'[v] = cur[v] /\ pc'[v] = pc[v]
  BY <1>0 DEF GoIdle
<1> QED
  BY <1>1, <1>2 DEF NoForgottenRow, Busy

\* Every row that is PROCESSING was so before, and the workers' hold on it is unchanged.
LEMMA HoldsOn ==
  ASSUME Inv, NoForgottenRow, Parked,
         cur' = cur, lost' = lost, sweeping' = sweeping,
         \A w \in Workers : pc'[w] = pc[w] \/ (pc[w] \in Busy /\ pc'[w] \in Busy),
         \A j \in Ids : status'[j] = "PROCESSING" => status[j] = "PROCESSING"
  PROVE  NoForgottenRow' /\ Parked'
  BY DEF NoForgottenRow, Parked, Busy

\* Every step leaves the rows under dispatch with a worker that remembers them.
LEMMA ForgottenStep ==
  ASSUME Inv, NoForgottenRow, Parked, [Next]_vars
  PROVE  NoForgottenRow' /\ Parked'
<1> DEFINE Goal == NoForgottenRow' /\ Parked'
<1> USE DEF tableVars, workerVars, budgetVars
<1>0. /\ status \in [Ids -> Statuses \cup {"ABSENT"}] /\ pc \in [Workers -> PCs]
      /\ cur \in [Workers -> Ids \cup {0}] /\ sweeping \subseteq Workers /\ lost \in Nat
  BY BoundsAssumption DEF Inv, TypeOK
<1>1. CASE UNCHANGED vars
  BY <1>1, HoldsOn DEF vars
<1>2. ASSUME NEW t \in Requested, Enqueue(t) PROVE Goal
  <2>1. UNCHANGED <<workerVars, budgetVars>>
    BY <1>2 DEF Enqueue
  <2>2. PICK n \in Ids : status' = [status EXCEPT ![n] = "PENDING"]
    BY <1>2, EnqueueFacts
  <2> QED
    BY <1>0, <2>1, <2>2, HoldsOn
<1>3. ASSUME NEW i \in Ids, Retry(i) PROVE Goal
  BY <1>0, <1>3, HoldsOn DEF Retry
<1>4. ASSUME NEW w \in Workers, Boot(w) PROVE Goal
  BY <1>0, <1>4 DEF Boot, NoForgottenRow, Parked, Busy
<1>5. ASSUME NEW w \in Workers, Sweep(w) PROVE Goal
  BY <1>0, <1>5 DEF Sweep, NoForgottenRow, Parked
<1>6. ASSUME NEW w \in Workers, Claim(w) PROVE Goal
  <2>1. PICK i \in Ids :
            /\ pc[w] = "idle" /\ status' = [status EXCEPT ![i] = "PROCESSING"]
            /\ cur' = [cur EXCEPT ![w] = i] /\ pc' = [pc EXCEPT ![w] = "claimed"]
            /\ UNCHANGED <<sweeping, lost>>
    BY <1>6 DEF Claim
  <2>2. cur[w] = 0
    BY <2>1 DEF Parked, Busy
  <2>3. Parked'
    BY <1>0, <2>1 DEF Parked, Busy
  <2>4. NoForgottenRow'
    BY <1>0, <2>1, <2>2, IdsAssumption DEF NoForgottenRow
  <2> QED
    BY <2>3, <2>4
<1>7. ASSUME NEW w \in Workers, Crash(w) PROVE Goal
  BY <1>0, <1>7 DEF Crash, NoForgottenRow, Parked, Busy
<1>8. ASSUME NEW w \in Workers, Skip(w) PROVE Goal
  BY <1>0, <1>8, LetGo DEF Skip, Busy
<1>9. ASSUME NEW w \in Workers, Record(w) PROVE Goal
  <2>1. GoIdle(w) /\ sweeping' = sweeping /\ lost' = lost /\ cur[w] \in Ids
    BY <1>9, RecordFacts DEF Record
  <2>2. \A j \in Ids : status'[j] = "PROCESSING" => j # cur[w] /\ status[j] = "PROCESSING"
    BY <1>0, <1>9, <2>1, RecordFacts
  <2> QED
    BY <1>9, <2>1, <2>2, LetGo DEF Record, Busy
<1>10. ASSUME NEW w \in Workers, CommitSent(w) PROVE Goal
  BY <1>0, <1>10, LetGo DEF CommitSent, Busy
<1>11. ASSUME NEW w \in Workers, Report(w) PROVE Goal
  BY <1>0, <1>11, LetGo DEF Report, Busy
<1>12. ASSUME NEW w \in Workers, LoseReport(w) PROVE Goal
  BY <1>0, <1>12, LetGo DEF LoseReport, Busy
<1>13. ASSUME NEW w \in Workers,
              \/ Clear(w) \/ Create(w) \/ CreateUnheard(w) \/ Email(w) \/ Throw(w)
              \/ \E h \in BOOLEAN : MarkSent(w, h)
       PROVE  Goal
  <2>1. /\ UNCHANGED <<status, cur, lost, sweeping>>
        /\ \A v \in Workers : pc'[v] = pc[v] \/ (pc[v] \in Busy /\ pc'[v] \in Busy)
    BY <1>0, <1>13 DEF Clear, Create, CreateUnheard, Email, Throw, MarkSent, Busy
  <2> QED
    BY <2>1, HoldsOn
<1>14. ASSUME NEW w \in Workers, CatchOwn(w) PROVE Goal
  BY <1>0, <1>14, HoldsOn DEF CatchOwn
<1> QED
  BY <1>1, <1>2, <1>3, <1>4, <1>5, <1>6, <1>7, <1>8, <1>9, <1>10, <1>11, <1>12, <1>13, <1>14
     DEF Next, Dispatch

\* However many workers there are, a PROCESSING row is in some worker's hands, or a sweep
\* that will free it is still to come, or its failure could not be written down.
THEOREM NoneForgotten == Spec => []NoForgottenRow
<1>1. Init => Inv /\ NoForgottenRow /\ Parked
  BY InitInv DEF Init, NoForgottenRow, Parked
<1>2. (Inv /\ NoForgottenRow /\ Parked) /\ [Next]_vars => (Inv /\ NoForgottenRow /\ Parked)'
  BY StepInv, ForgottenStep
<1> QED
  BY <1>1, <1>2, PTL DEF Spec

-----------------------------------------------------------------------------
(***************************************************************************)
(* What a single worker process buys (instance_count: 1): no other         *)
(* worker touches the row that is being dispatched, so a row under         *)
(* dispatch is never settled, a settled row is final, a message records at *)
(* most one document, and the outbox implements OutboxPromise.  With two   *)
(* workers none of this is true: a sweep hands a row that is being         *)
(* dispatched to the other worker.                                         *)
(***************************************************************************)

SingleWorker == \A v, w \in Workers : v = w

Open == {"PENDING", "PROCESSING", "FAILED"}

\* The row under dispatch is not settled.
DispatchOpen == \A w \in Workers : pc[w] \in Busy => status[cur[w]] \in Open

\* A step that settles nothing, inserts nothing and records nothing.
KeepsOpen ==
    /\ UNCHANGED <<type, cause, docref, local>>
    /\ \A i \in Ids : \/ status'[i] = status[i]
                      \/ status[i] \in Open /\ status'[i] \in Open

\* A step that settles row i without a document.
Settles(i) ==
    /\ i \in Ids
    /\ status[i] \in Open
    /\ UNCHANGED <<type, cause, docref, local>>
    /\ \/ type[i] \in Guarded /\ local[i] = {} /\ status' = [status EXCEPT ![i] = "SKIPPED"]
       \/ type[i] = Pdf /\ status' = [status EXCEPT ![i] = "SYNCED"]

\* With the row under dispatch open, a step inserts, records, settles or keeps.
LEMMA SingleKinds ==
  ASSUME Inv, DispatchOpen, RecordedOnce, [Next]_vars
  PROVE  \/ \E t \in Requested : Enqueue(t)
         \/ \E w \in Workers : Record(w)
         \/ \E i \in Ids : Settles(i)
         \/ KeepsOpen
<1> USE DEF KeepsOpen, tableVars, ledgerVars, outsideVars, workerVars, budgetVars
<1>1. CASE UNCHANGED vars
  BY <1>1 DEF vars
<1>2. ASSUME NEW i \in Ids, Retry(i) PROVE KeepsOpen
  BY <1>2 DEF Retry, Open, Inv, TypeOK
<1>3. ASSUME NEW w \in Workers, Boot(w) \/ Crash(w) PROVE KeepsOpen
  BY <1>3 DEF Boot, Crash
<1>4. ASSUME NEW w \in Workers, Sweep(w) PROVE KeepsOpen
  BY <1>4 DEF Sweep, Open, Inv, TypeOK
<1>5. ASSUME NEW w \in Workers, Claim(w) PROVE KeepsOpen
  BY <1>5 DEF Claim, OldestPending, Claimable, Open, Inv, TypeOK
<1>6. ASSUME NEW w \in Workers, Skip(w) PROVE \E i \in Ids : Settles(i)
  <2>1. cur[w] \in Ids /\ status[cur[w]] \in Open /\ type[cur[w]] \in Recording
    BY <1>6 DEF Skip, Inv, Held, Busy, DispatchOpen, Guarded, Recording, Invoicing
  <2>2. local[cur[w]] = {}
    BY <2>1 DEF RecordedOnce, Open
  <2> QED
    BY <1>6, <2>1, <2>2 DEF Skip, Settles
<1>7. ASSUME NEW w \in Workers, Clear(w) \/ Create(w) \/ CreateUnheard(w) PROVE KeepsOpen
  BY <1>7 DEF Clear, Create, CreateUnheard
<1>8. ASSUME NEW w \in Workers, Email(w) \/ (\E h \in BOOLEAN : MarkSent(w, h)) PROVE KeepsOpen
  BY <1>8 DEF Email, MarkSent
<1>9. ASSUME NEW w \in Workers, CommitSent(w) PROVE \E i \in Ids : Settles(i)
  BY <1>9 DEF CommitSent, Settles, Inv, Held, InEmailTxn, Busy, DispatchOpen
<1>10. ASSUME NEW w \in Workers, Throw(w) \/ LoseReport(w) PROVE KeepsOpen
  BY <1>10 DEF Throw, LoseReport
<1>11. ASSUME NEW w \in Workers, CatchOwn(w) \/ Report(w) PROVE KeepsOpen
  BY <1>11 DEF CatchOwn, Report, Inv, TypeOK, Held, Busy, DispatchOpen, Open
<1> QED
  BY <1>1, <1>2, <1>3, <1>4, <1>5, <1>6, <1>7, <1>8, <1>9, <1>10, <1>11 DEF Next, Dispatch

\* The single worker's invariant.
SingleInv == Inv /\ DispatchOpen /\ RecordedOnce

\* The initial state satisfies the invariant of a single worker.
LEMMA SingleInit == Init => SingleInv
  BY InitInv DEF Init, SingleInv, DispatchOpen, RecordedOnce, Busy, Recording, Invoicing, Pdf

\* A single worker keeps the row that it dispatches open.
LEMMA DispatchStep ==
  ASSUME SingleWorker, SingleInv, [Next]_vars
  PROVE  DispatchOpen'
<1> USE DEF Busy, Open, tableVars, workerVars
<1>1. CASE UNCHANGED vars
  BY <1>1 DEF vars, SingleInv, DispatchOpen
<1>2. ASSUME NEW t \in Requested, Enqueue(t) PROVE DispatchOpen'
  <2>1. UNCHANGED workerVars
    BY <1>2 DEF Enqueue
  <2>2. PICK n \in Ids : status' = [status EXCEPT ![n] = "PENDING"]
    BY <1>2, EnqueueFacts DEF SingleInv
  <2> QED
    BY <2>1, <2>2 DEF SingleInv, DispatchOpen, Inv, TypeOK
<1>3. ASSUME NEW i \in Ids, Retry(i) PROVE DispatchOpen'
  BY <1>3 DEF Retry, SingleInv, DispatchOpen, Inv, TypeOK
<1>4. ASSUME NEW w \in Workers, Boot(w) \/ Crash(w) PROVE DispatchOpen'
  BY <1>4 DEF Boot, Crash, SingleInv, DispatchOpen, Inv, TypeOK
<1>5. ASSUME NEW w \in Workers, Sweep(w) PROVE DispatchOpen'
  BY <1>5 DEF Sweep, SingleInv, DispatchOpen, Inv, TypeOK, Held, Present
<1>6. ASSUME NEW w \in Workers, Claim(w) PROVE DispatchOpen'
  BY <1>6 DEF Claim, SingleWorker, SingleInv, Inv, TypeOK, DispatchOpen
<1>7. ASSUME NEW w \in Workers,
             Skip(w) \/ Record(w) \/ CommitSent(w) \/ Report(w) \/ LoseReport(w)
      PROVE  DispatchOpen'
  <2>1. pc' = [pc EXCEPT ![w] = "idle"]
    BY <1>7 DEF Skip, Record, CommitSent, Report, LoseReport, GoIdle
  <2> QED
    BY <2>1 DEF SingleWorker, DispatchOpen, SingleInv, Inv, TypeOK
<1>8. ASSUME NEW w \in Workers,
             \/ Clear(w) \/ Create(w) \/ CreateUnheard(w) \/ Email(w) \/ Throw(w)
             \/ \E h \in BOOLEAN : MarkSent(w, h)
      PROVE  DispatchOpen'
  <2>1. status' = status /\ cur' = cur /\ pc[w] \in Busy
        /\ \A v \in Workers : v # w => pc'[v] = pc[v]
    BY <1>8 DEF Clear, Create, CreateUnheard, Email, Throw, MarkSent, SingleInv, Inv, TypeOK
  <2> QED
    BY <2>1 DEF SingleInv, DispatchOpen
<1>9. ASSUME NEW w \in Workers, CatchOwn(w) PROVE DispatchOpen'
  BY <1>9 DEF CatchOwn, SingleInv, DispatchOpen, Inv, TypeOK, Held
<1> QED
  BY <1>1, <1>2, <1>3, <1>4, <1>5, <1>6, <1>7, <1>8, <1>9 DEF Next, Dispatch

\* It keeps it at one document per message.
LEMMA RecordedOnceStep ==
  ASSUME SingleInv, [Next]_vars
  PROVE  RecordedOnce'
<1>1. ASSUME NEW t \in Requested, Enqueue(t) PROVE RecordedOnce'
  <2>1. PICK n \in Ids :
            /\ ~Present(n)
            /\ local' = local
            /\ \A j \in Ids : j # n => type'[j] = type[j]
            /\ status' = [status EXCEPT ![n] = "PENDING"]
    BY <1>1, EnqueueFacts DEF SingleInv
  <2>2. local[n] = {}
    BY <2>1 DEF SingleInv, Inv, Pristine
  <2> QED
    BY <2>1, <2>2 DEF SingleInv, RecordedOnce, Inv, TypeOK
<1>2. ASSUME NEW w \in Workers, Record(w) PROVE RecordedOnce'
  <2> DEFINE i == cur[w]
             k == doc[w]
  <2>1. /\ i \in Ids /\ pc[w] = "created" /\ k \in Nat
        /\ local' = IF type[i] \in Recording THEN [local EXCEPT ![i] = @ \cup {k}] ELSE local
    BY <1>2, RecordFacts DEF SingleInv
  <2>2. status[i] \in Open /\ (type[i] \in Recording => local[i] = {})
    BY <2>1 DEF SingleInv, DispatchOpen, RecordedOnce, Busy, Open
  <2>3. type[i] \in Recording => local'[i] = {k}
    BY <2>1, <2>2 DEF SingleInv, Inv, TypeOK
  <2>4. \A j \in Ids : j # i => local'[j] = local[j]
    BY <2>1 DEF SingleInv, Inv, TypeOK
  <2>5. CASE /\ status' = [status EXCEPT ![i] = "SYNCED"]
             /\ UNCHANGED <<type, cause, docref>>
    BY <2>1, <2>3, <2>4, <2>5 DEF SingleInv, RecordedOnce, Inv, TypeOK
  <2>6. CASE \E n \in Ids :
                /\ n # i /\ local[n] = {}
                /\ status' = [status EXCEPT ![i] = "SYNCED", ![n] = "PENDING"]
                /\ type' = [type EXCEPT ![n] = FollowUp(type[i])]
    BY <2>1, <2>3, <2>4, <2>6 DEF SingleInv, RecordedOnce, Inv, TypeOK
  <2> QED
    BY <1>2, <2>5, <2>6, RecordFacts DEF SingleInv
<1>3. ASSUME NEW i \in Ids, Settles(i) PROVE RecordedOnce'
  BY <1>3, Disjoint DEF Settles, Open, SingleInv, RecordedOnce, Inv, TypeOK
<1>4. CASE KeepsOpen
  BY <1>4 DEF KeepsOpen, Open, SingleInv, RecordedOnce
<1> QED
  BY <1>1, <1>2, <1>3, <1>4, SingleKinds DEF SingleInv

\* Every step keeps the invariant of a single worker.
LEMMA SingleStep ==
  ASSUME SingleWorker
  PROVE  SingleInv /\ [Next]_vars => SingleInv'
  BY StepInv, DispatchStep, RecordedOnceStep DEF SingleInv

\* With one worker a message records one document, and it does so in the step that makes
\* it SYNCED, whatever crashed, was swept or was retried before.
THEOREM RecordsOnce ==
  ASSUME SingleWorker
  PROVE  Spec => []RecordedOnce
<1>1. Init => SingleInv
  BY SingleInit
<1>2. SingleInv /\ [Next]_vars => SingleInv'
  BY SingleStep
<1>3. SingleInv => RecordedOnce
  BY DEF SingleInv
<1> QED
  BY <1>1, <1>2, <1>3, PTL DEF Spec

-----------------------------------------------------------------------------
(* Settling is final.                                                       *)

\* What is settled no step unsettles.
LEMMA FinalStep ==
  ASSUME SingleInv, [Next]_vars
  PROVE  \A i \in Ids : status[i] \in Settled => status'[i] = status[i]
<1> USE DEF Settled, Open
<1>1. ASSUME NEW t \in Requested, Enqueue(t), NEW i \in Ids, status[i] \in Settled
      PROVE  status'[i] = status[i]
  BY <1>1, EnqueueFacts DEF SingleInv, Inv, TypeOK, Present
<1>2. ASSUME NEW w \in Workers, Record(w), NEW i \in Ids, status[i] \in Settled
      PROVE  status'[i] = status[i]
  <2>1. cur[w] \in Ids /\ status[cur[w]] \in Open
    BY <1>2, RecordFacts DEF SingleInv, DispatchOpen, Busy
  <2> QED
    BY <1>2, <2>1, RecordFacts DEF SingleInv, Inv, TypeOK, Present
<1>3. ASSUME NEW j \in Ids, Settles(j), NEW i \in Ids, status[i] \in Settled
      PROVE  status'[i] = status[i]
  BY <1>3 DEF Settles, SingleInv, Inv, TypeOK
<1>4. ASSUME KeepsOpen, NEW i \in Ids, status[i] \in Settled
      PROVE  status'[i] = status[i]
  BY <1>4 DEF KeepsOpen
<1> QED
  BY <1>1, <1>2, <1>3, <1>4, SingleKinds DEF SingleInv

\* With one worker nothing takes a settled message back: no sweep, no retry, no late
\* failure report.
THEOREM SettledStays ==
  ASSUME SingleWorker
  PROVE  Spec => SettledIsFinal
<1>1. Init => SingleInv
  BY SingleInit
<1>2. SingleInv /\ [Next]_vars => SingleInv'
  BY SingleStep
<1>3. SingleInv /\ [Next]_vars =>
          [\A i \in Ids : status[i] \in Settled => status'[i] = status[i]]_vars
  BY FinalStep
<1> QED
  BY <1>1, <1>2, <1>3, PTL DEF Spec, SettledIsFinal

-----------------------------------------------------------------------------
(* The refinement of OutboxPromise.                                         *)

\* The initial state is one of the abstract outbox.
LEMMA PromiseInit == Init => Promise!Init
  BY DEF Init, Promise!Init, Settled

\* Every step is one of the abstract outbox, or none.
LEMMA PromiseStep ==
  ASSUME SingleInv, [Next]_vars
  PROVE  [Promise!Next]_Promise!vars
<1> USE DEF Settled, Open
<1>0. /\ \A i \in Ids : status[i] \in Open \cup Settled \cup {"ABSENT"}
      /\ \A i \in Ids : i \in Promise!Unrequested <=> status[i] = "ABSENT"
  BY DEF SingleInv, Inv, TypeOK, Statuses, Promise!Unrequested
<1>1. ASSUME NEW t \in Requested, Enqueue(t) PROVE Promise!Next
  <2>1. PICK n \in Ids :
            /\ ~Present(n) /\ local' = local
            /\ status' = [status EXCEPT ![n] = "PENDING"]
    BY <1>1, EnqueueFacts DEF SingleInv
  <2>2. status[n] = "ABSENT" /\ status'[n] = "PENDING" /\ \A j \in Ids \ {n} : status'[j] = status[j]
    BY <2>1 DEF SingleInv, Inv, TypeOK, Present
  <2>3. Promise!Request(n)
    BY <1>0, <2>1, <2>2 DEF Promise!Request
  <2> QED
    BY <2>3 DEF Promise!Next
<1>2. ASSUME NEW w \in Workers, Record(w) PROVE Promise!Next
  <2>0. PICK i \in Ids, k \in Nat : i = cur[w] /\ k = doc[w]
    BY <1>2, RecordFacts DEF SingleInv
  <2>1. /\ pc[w] = "created"
        /\ local' = IF type[i] \in Recording THEN [local EXCEPT ![i] = @ \cup {k}] ELSE local
    BY <1>2, <2>0, RecordFacts DEF SingleInv
  <2>2. status[i] \in Open /\ (type[i] \in Recording => local[i] = {})
    BY <2>0, <2>1 DEF SingleInv, DispatchOpen, RecordedOnce, Busy
  <2>3. type[i] \in Recording => local' = [local EXCEPT ![i] = {k}] /\ k \in local'[i]
    BY <2>1, <2>2 DEF SingleInv, Inv, TypeOK
  <2>4. CASE ~HasFollowUp(type[i])
    <3>1. status' = [status EXCEPT ![i] = "SYNCED"]
      BY <1>2, <2>0, <2>4, RecordFacts DEF SingleInv
    <3>2. status'[i] = "SYNCED" /\ \A j \in Ids \ {i} : status'[j] = status[j]
      BY <2>1, <3>1 DEF SingleInv, Inv, TypeOK
    <3>3. CASE type[i] \in Recording
      <4>1. Promise!File(i)
        BY <2>1, <2>2, <2>3, <3>2, <3>3 DEF Promise!File
      <4> QED
        BY <4>1 DEF Promise!Next
    <3>4. CASE type[i] \notin Recording
      <4>1. Promise!Close(i)
        BY <2>1, <2>2, <3>2, <3>4 DEF Promise!Close
      <4> QED
        BY <4>1 DEF Promise!Next
    <3> QED
      BY <3>3, <3>4
  <2>5. CASE HasFollowUp(type[i])
    <3>1. PICK n \in Ids :
              /\ ~Present(n) /\ n # i
              /\ status' = [status EXCEPT ![i] = "SYNCED", ![n] = "PENDING"]
      BY <1>2, <2>0, <2>5, RecordFacts DEF SingleInv
    <3>2. /\ status'[i] = "SYNCED" /\ status[n] = "ABSENT" /\ status'[n] = "PENDING"
          /\ \A j \in Ids \ {i, n} : status'[j] = status[j]
      BY <2>1, <3>1 DEF SingleInv, Inv, TypeOK, Present
    <3>3. type[i] \in Recording
      BY <2>1, <2>5, Disjoint DEF SingleInv, Inv, TypeOK
    <3>4. Promise!File(i)
      <4> DEFINE before == {j \in Ids : status[j] \in {"PENDING", "PROCESSING", "FAILED"}}
                 after == {j \in Ids : status'[j] \in {"PENDING", "PROCESSING", "FAILED"}}
      <4>1. i \in before /\ n \in Promise!Unrequested /\ after = (before \ {i}) \cup {n}
        BY <1>0, <2>2, <3>1, <3>2
      <4>2. {j \in Ids : status'[j] \in Settled} = {j \in Ids : status[j] \in Settled} \cup {i}
        BY <3>2
      <4>3. /\ local[i] = {}
            /\ \E d \in local'[i] : local' = [local EXCEPT ![i] = {d}]
        BY <2>2, <2>3, <3>3
      <4> QED
        BY <4>1, <4>2, <4>3 DEF Promise!File
    <3> QED
      BY <3>4 DEF Promise!Next
  <2> QED
    BY <2>4, <2>5
<1>3. ASSUME NEW i \in Ids, Settles(i) PROVE Promise!Next
  <2>1. /\ status[i] \in Open /\ status'[i] \in Settled /\ local' = local
        /\ \A j \in Ids \ {i} : status'[j] = status[j]
    BY <1>3 DEF Settles, SingleInv, Inv, TypeOK
  <2>2. Promise!Close(i)
    BY <2>1 DEF Promise!Close
  <2> QED
    BY <2>2 DEF Promise!Next
<1>4. CASE KeepsOpen
  BY <1>4 DEF KeepsOpen, Promise!vars
<1> QED
  BY <1>1, <1>2, <1>3, <1>4, SingleKinds DEF SingleInv

\* With one worker the table, the worker and its crashes implement the abstract outbox.
THEOREM ImplementsPromise ==
  ASSUME SingleWorker
  PROVE  Spec => KeepsPromise
<1>1. Init => SingleInv /\ Promise!Init
  BY SingleInit, PromiseInit
<1>2. SingleInv /\ [Next]_vars => SingleInv'
  BY SingleStep
<1>3. SingleInv /\ [Next]_vars => [Promise!Next]_Promise!vars
  BY PromiseStep
<1> QED
  BY <1>1, <1>2, <1>3, PTL DEF Spec, KeepsPromise, Promise!Spec

=============================================================================
