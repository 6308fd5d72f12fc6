---------------------------- MODULE MCSuspension ----------------------------
(* Small instances of Suspension and Removal for TLC: two scenes, that of    *)
(* memberships cancelled and restored and that of debts, in which nobody     *)
(* leaves.  The scene is drawn at the start and kept.                        *)
EXTENDS Removal

CONSTANTS ann, bob, a1, b1, b2,
    MaxTurns    \* bounds the debts that fall due or grow old and the admins' grants

VARIABLES scene, turns

mcVars == <<allVars, scene, turns>>

Noon == [from |-> 1, to |-> 3]

MCSlots == {Noon}
MCAsked == {}
MCPatches == {[set |-> {"status"}, status |-> "CONFIRMED", owner |-> ann, slot |-> Noon]}

\* bob has a confirmed booking, and ann a tentative one that overlaps it, as two requests at
\* once leave them: a trigger that runs for hers raises, and one that runs for his does not.
MCInit ==
    /\ scene \in {"memberships", "debts"}
    /\ book = [b \in Ids |-> [status |-> IF b = b1 THEN "TENTATIVE" ELSE "CONFIRMED",
                              owner |-> IF b = b1 THEN ann ELSE bob,
                              slot |-> Noon, reminded |-> FALSE]]
    /\ mayReserve = [m \in Members |-> TRUE] /\ claim = mayReserve
    /\ req = [u \in Users |-> Nothing]
    /\ claimed = {} /\ mails = [b \in Ids |-> 0] /\ now = 0 /\ crashes = 0
    /\ overdue = [m \in Members |-> IF scene = "debts" THEN "late" ELSE "none"]
    /\ sweep = Asleep
    /\ kind = [m \in Members |-> "JUNIOR"] /\ was = kind
    /\ snapshot = [m \in Members |-> NoSnapshot]
    /\ fee = [m \in Members |-> "none"] /\ notes = [m \in Members |-> 0]
    /\ turns = 0

MembershipsNext ==
    /\ scene = "memberships"
    /\ \/ \E u \in Users : Register(u)
       \/ \E m \in Members : InvoiceFee(m) \/ PayFee(m)
       \/ ((\E m \in Members : RefreshToken(m)) \/ Crash) /\ UNCHANGED registerVars
    /\ UNCHANGED turns

\* It is the admin who asks here, and whose statements lock rows; tokens are as they were.
DebtsNext ==
    /\ scene = "debts"
    /\ \/ Next /\ (\A m \in Members : ~FallBehind(m) /\ ~Grant(m)) /\ UNCHANGED turns
       \/ /\ turns < MaxTurns
          /\ \E m \in Members : FallBehind(m) \/ Grant(m)
          /\ turns' = turns + 1
    /\ \A m \in Members : req'[m] = Nothing /\ claim'[m] = claim[m]
    /\ UNCHANGED registerVars

MCNext == (MembershipsNext \/ DebtsNext) /\ UNCHANGED scene

MCSpec == MCInit /\ [][MCNext]_mcVars /\ Fairness

\* The instance in which the sweep, the requests and the removals all go on.
MixedInit == MCInit /\ scene = "memberships"
MixedNext == RemovalNext /\ UNCHANGED <<scene, turns>>
MixedSpec == MixedInit /\ [][MixedNext]_mcVars
=============================================================================
