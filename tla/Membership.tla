------------------------------ MODULE Membership ------------------------------
(***************************************************************************)
(* Who is a member of a shared knowledge base, derived from its log of     *)
(* signed operations (shared/sync/src/membership.rs).  Everything here is  *)
(* a function of the log, the anchored owner, the time, the governance     *)
(* rule and the principals this peer blocks.                               *)
(*                                                                         *)
(* An operation links to its parent by hash, so its causal past is a       *)
(* chain; the model keeps that chain in the operation (field past) instead *)
(* of walking it.  A hash is a positive number: only equality and order of *)
(* hashes matter, and any order can come out.  Every operation carries its *)
(* author's signature; rotations signed by a recovery key are left out,    *)
(* and so are the operations that do not touch membership (encryption,     *)
(* rebirth).  Role stands for role, epoch and replication, which are       *)
(* assigned together.  The inviter of a member is left out: only the       *)
(* cascade policy reads it, and no caller selects one that drops members.  *)
(* Governance is 0 for a single owner and m >= 1 for a quorum of m.        *)
(***************************************************************************)
EXTENDS Integers, FiniteSets, TLC

SingleOwner == 0

NoExpiry == 0

Rank(role) == CASE role = "viewer" -> 0 [] role = "editor" -> 1 [] role = "owner" -> 2

IsRemoval(o) == o.action \in {"remove", "revoke"}

(* A timeboxed operation stops counting at its expiry. *)
Expired(o, now) == o.exp # NoExpiry /\ now >= o.exp

Before(x, y) == x.hash \in y.past

(* The order every peer replays in: by generation, then by hash. *)
Earlier(x, y) ==
  \/ Cardinality(x.past) < Cardinality(y.past)
  \/ Cardinality(x.past) = Cardinality(y.past) /\ x.hash < y.hash

Latest(S) == CHOOSE x \in S : \A y \in S \ {x} : Earlier(y, x)

Earliest(S) == CHOOSE x \in S : \A y \in S \ {x} : Earlier(x, y)

(* The self-admits of the anchored owner; at most one in an honest log. *)
Genesis(ops, owner) ==
  {o \in ops : o.past = {} /\ o.action = "admit" /\ o.author = owner /\ o.subject = owner}

(* What is connected to the genesis.  Operations of blocked authors are dropped *)
(* first, so what links to one of them is no longer connected.                  *)
CausalOrder(ops, owner) ==
  LET hashes == {o.hash : o \in ops}
      roots == {g.hash : g \in Genesis(ops, owner)}
  IN {o \in ops : o.past \subseteq hashes /\ (o.past \cup {o.hash}) \cap roots # {}}

NeededOneLess(gov) == IF gov <= 1 THEN 1 ELSE gov - 1

Needed(gov) == IF gov = SingleOwner THEN 1 ELSE gov

(* The removal at which enough distinct authors have removed the target, as a *)
(* set that is empty when there is none.                                      *)
EffectiveRemoval(target, gov, valid) ==
  LET removals == {o \in valid : IsRemoval(o) /\ o.subject = target}
      Authors(x) == {o.author : o \in {y \in removals : y = x \/ Earlier(y, x)}}
      enough == {x \in removals : Cardinality(Authors(x)) >= Needed(gov)}
  IN IF enough = {} THEN {} ELSE {Earliest(enough)}

RotateKeepingOld(members, old, new) ==
  IF old \notin DOMAIN members THEN members ELSE (new :> members[old]) @@ members

(* A rotation hands the seat of the old identity to the new one. *)
Rotate(members, old, new) ==
  IF old \notin DOMAIN members
    THEN members
    ELSE [p \in (DOMAIN members \ {old}) \cup {new} |-> members[IF p = new THEN old ELSE p]]

(* The admits that seat their subject: a removal wins over the admits that do not *)
(* come after it.                                                                 *)
Seats(gov, now, valid) ==
  LET Dominated(x) == \E r \in EffectiveRemoval(x.subject, gov, valid) : ~Before(r, x)
  IN {x \in valid : x.action = "admit" /\ ~Dominated(x) /\ ~Expired(x, now)}

Seated(gov, now, valid) ==
  LET seats == Seats(gov, now, valid)
      Roles(x) == {x} \cup {s \in valid : /\ s.action = "set_role"
                                          /\ s.subject = x.subject
                                          /\ Before(x, s)}
      Entry(x) == [role |-> Latest(Roles(x)).role, invite |-> x.invite]
  IN [p \in {x.subject : x \in seats} |-> Entry(Latest({x \in seats : x.subject = p}))]

(* The members after the rotations of each set of rebinds, replayed in order. *)
Rotations(seated, rebinds) ==
  LET rotated[R \in SUBSET rebinds] ==
        IF R = {} THEN seated
                  ELSE LET last == Latest(R)
                       IN Rotate(rotated[R \ {last}], last.author, last.subject)
  IN rotated

BuildMembers(gov, now, valid) ==
  LET rebinds == {x \in valid : x.action = "rebind"}
  IN Rotations(Seated(gov, now, valid), rebinds)[rebinds]

AuthorizedAgainstOwner(members, o, owner, gov) ==
  /\ o.author \in DOMAIN members
  /\ LET author == members[o.author]
     IN CASE o.action = "admit" -> /\ author.role = "owner" \/ author.invite
                                   /\ Rank(author.role) >= Rank(o.role)
          [] o.action = "rebind" -> o.subject \notin DOMAIN members \cup {o.author}
          [] o.action = "set_governance" -> author.role = "owner"
          [] OTHER -> author.role = "owner" /\ o.subject \in DOMAIN members

(* Whether the author of o could perform it, given the members in its past. *)
Authorized(members, o, owner, gov) ==
  /\ o.author \in DOMAIN members
  /\ LET author == members[o.author]
     IN CASE o.action = "admit" -> /\ author.role = "owner" \/ author.invite
                                   /\ Rank(author.role) >= Rank(o.role)
          [] o.action = "set_role" -> author.role = "owner" /\ o.subject \in DOMAIN members
          [] IsRemoval(o) -> /\ author.role = "owner"
                             /\ o.subject \in DOMAIN members
                             /\ ~(gov = SingleOwner /\ o.subject = owner)
          [] o.action = "set_governance" -> author.role = "owner"
          [] o.action = "rebind" -> o.subject \notin DOMAIN members \cup {o.author}

PassNoExemption(log, owner, gov, now, valid) ==
  {o \in log :
     /\ ~Expired(o, now)
     /\ \/ o \in Genesis(log, owner)
        \/ /\ Authorized(BuildMembers(gov, now, {x \in valid : Before(x, o)}), o, owner, gov)
           /\ \A r \in EffectiveRemoval(o.author, gov, valid) : Before(r, o) \/ Before(o, r)}

(* One pass of the resolver: what of the log holds if valid held.  Capability is *)
(* judged on the operation's past; an operation other than a removal dies with   *)
(* its author's concurrent removal.                                              *)
Pass(log, owner, gov, now, valid) ==
  LET genesis == Genesis(log, owner)
      Past(o) == {x \in valid : Before(x, o)}
  IN {o \in log :
        /\ ~Expired(o, now)
        /\ \/ o \in genesis
           \/ /\ Authorized(BuildMembers(gov, now, Past(o)), o, owner, gov)
              /\ \/ IsRemoval(o)
                 \/ \A r \in EffectiveRemoval(o.author, gov, valid) : Before(r, o) \/ Before(o, r)}

(* Passes until one changes nothing, at most two more than there are operations. *)
ValidOps(log, owner, gov, now) ==
  LET resolve[n \in 0 .. Cardinality(log) + 2] ==
        [valid \in SUBSET log |->
           LET next == Pass(log, owner, gov, now, valid)
           IN IF n = 0 \/ next = valid THEN valid ELSE resolve[n - 1][next]]
  IN resolve[Cardinality(log) + 2][log]

(* The genesis owner and every identity it rotated into. *)
OwnerChain(ops, owner) ==
  LET chain[n \in 0 .. Cardinality(ops)] ==
        IF n = 0 THEN {owner}
                 ELSE chain[n - 1] \cup {o.subject : o \in {x \in ops : /\ x.action = "rebind"
                                                                        /\ x.author \in chain[n - 1]}}
  IN chain[Cardinality(ops)]

DeriveGovernance(ops, owner) ==
  LET rules == {o \in CausalOrder(ops, owner) : /\ o.action = "set_governance"
                                                /\ o.author \in OwnerChain(ops, owner)}
  IN IF rules = {} THEN SingleOwner ELSE Latest(rules).gov

DeriveMembers(ops, owner, now, gov, blocked) ==
  LET log == CausalOrder({o \in ops : o.author \notin blocked}, owner)
      members == BuildMembers(gov, now, ValidOps(log, owner, gov, now))
  IN [p \in DOMAIN members \ blocked |-> members[p]]

(* Where the next operation is appended: the tip with the highest hash. *)
OplogHead(ops) ==
  LET tips == {x \in ops : ~ \E y \in ops : Before(x, y)}
  IN CHOOSE x \in tips : \A y \in tips : y.hash <= x.hash
===============================================================================
