---------------------------- MODULE MCMemberFees -----------------------------
(* Small instances of MemberFees for TLC.                                   *)
EXTENDS MemberFees, TLC

CONSTANTS ann, bob, c1, c2

\* Clients are alike; members are not, one of them renews the equipment fee.
Alike == Permutations(Clients)

=============================================================================
