---------------------------- MODULE OutboxPromise ----------------------------
(***************************************************************************)
(* What the SimplBooks outbox promises to the code that writes to it,      *)
(* without workers, statuses or an accounting service: a message that was  *)
(* requested is open until it is settled; settling happens once, is final, *)
(* and either files exactly one document in the club's own database or,    *)
(* when there was nothing left to do, none.  Settling a message may        *)
(* request one more message (the invoice's e-mail, the new member's fees). *)
(*                                                                         *)
(* docs/cloudflare-migration-plan.md:473 names the half of it that the     *)
(* requests rely on: the enqueue is atomic with the business write.        *)
(***************************************************************************)
EXTENDS Integers

CONSTANT Ids          \* identities of outbox messages

VARIABLES
    open,             \* messages requested and not settled
    settled,          \* messages settled
    filed             \* message -> the documents filed for it

vars == <<open, settled, filed>>

TypeOK ==
    /\ open \subseteq Ids
    /\ settled \subseteq Ids
    /\ filed \in [Ids -> SUBSET Nat]

Init ==
    /\ open = {}
    /\ settled = {}
    /\ filed = [m \in Ids |-> {}]

Unrequested == Ids \ (open \cup settled)

\* Business code requests message m.
Request(m) ==
    /\ m \in Unrequested
    /\ open' = open \cup {m}
    /\ UNCHANGED <<settled, filed>>

\* Message m is settled and one document is on file for it, where there was none.
File(m) ==
    /\ m \in open
    /\ filed[m] = {}
    /\ \E k \in filed'[m] : filed' = [filed EXCEPT ![m] = {k}]
    /\ settled' = settled \cup {m}
    /\ \/ open' = open \ {m}
       \/ \E n \in Unrequested : open' = (open \ {m}) \cup {n}

\* Message m is settled without a document of its own: an e-mail, a credit note that
\* only SimplBooks keeps, or a job that another message had done.
Close(m) ==
    /\ m \in open
    /\ open' = open \ {m}
    /\ settled' = settled \cup {m}
    /\ UNCHANGED filed

Next ==
    \E m \in Ids : Request(m) \/ File(m) \/ Close(m)

Spec == Init /\ [][Next]_vars

=============================================================================
