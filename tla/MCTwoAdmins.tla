----------------------------- MODULE MCTwoAdmins -----------------------------
(* An instance of MembershipLog without the owner's replicas: two admins a    *)
(* and b with one replica each, who rotate into c and d and revoke each other *)
(* under single-owner governance.                                             *)
EXTENDS MembershipLog

CONSTANTS o, a, b, c, d, r1, r2

Signers == r1 :> a @@ r2 :> b

TwoAdmins == << [subject |-> a, role |-> "owner"], [subject |-> b, role |-> "owner"] >>
==============================================================================
