--------------------------- MODULE MCMembershipLog ---------------------------
(* Instances of MembershipLog: an owner o with two replicas (a daemon and an  *)
(* editor that share a key), an admin a with one, and a key b that is invited *)
(* or rotated into.                                                           *)
EXTENDS MembershipLog

CONSTANTS o, a, b, r1, r2, r3

Signers == r1 :> o @@ r2 :> a @@ r3 :> o

NoFounders == << >>

OneAdmin == << [subject |-> a, role |-> "owner"] >>

AsAdmin == {[subject |-> b, role |-> "owner"]}

(* The two replicas of the owner are alike. *)
OwnerReplicas == Permutations({r1, r3})
===============================================================================
