---------------------------- MODULE MembershipLog ----------------------------
(***************************************************************************)
(* Replicas of one knowledge base's membership log: the daemons and        *)
(* editors of its owner and of its members.  Each replica has an identity  *)
(* that signs, appends at the head of its own copy, and merges the copies  *)
(* of others.  The log is a map keyed by hash that only grows, so merging  *)
(* is union.  The request handlers also keep an unsigned roster for the    *)
(* daemon that owns the knowledge base; this module is about what every    *)
(* other peer derives, and a request whose signed operation fails to       *)
(* persist changes nothing here.                                           *)
(***************************************************************************)
EXTENDS Membership, Sequences

CONSTANTS Principals, Replicas, Owner,
          Identity,     \* who each replica signs as at first
          Founders,     \* the admits the log starts with, after the genesis
          Invited,      \* whom kb/add_member is asked to admit, and as what
          Requests,     \* the requests of this instance
          Thresholds,   \* the governance rules kb/set_governance is given
          MaxOps,       \* the bound on operations
          Watched       \* the replicas whose copies the properties look at

ASSUME LogConstants ==
  /\ Owner \in Principals
  /\ Identity \in [Replicas -> Principals]
  /\ Founders \in Seq([subject : Principals \ {Owner}, role : {"owner", "editor", "viewer"}])
  /\ Invited \subseteq [subject : Principals, role : {"owner", "editor", "viewer"}]
  /\ Thresholds \subseteq Nat
  /\ MaxOps \in Nat /\ MaxOps > Len(Founders)
  /\ Watched \subseteq Replicas /\ Watched # {}

VARIABLES oplog, identity

vars == <<oplog, identity>>

Op == [hash : 1 .. MaxOps, past : SUBSET (1 .. MaxOps), author : Principals, subject : Principals,
       action : {"admit", "remove", "revoke", "set_governance", "rebind"},
       role : {"owner", "editor", "viewer"}, invite : BOOLEAN, exp : Nat, gov : Nat]

Written == UNION {oplog[r] : r \in Replicas}

(* What a peer derives from a copy of the log. *)
GovernanceOf(ops) == DeriveGovernance(ops, Owner)

MembersOf(ops) == DeriveMembers(ops, Owner, 0, GovernanceOf(ops), {})

(* build_membership_op: an operation linked to the head of the author's copy. *)
Unsigned(r, action, subject) ==
  LET head == OplogHead(oplog[r])
  IN [hash |-> 0, past |-> head.past \cup {head.hash}, author |-> identity[r],
      subject |-> subject, action |-> action, role |-> "viewer", invite |-> FALSE,
      exp |-> NoExpiry, gov |-> 0]

(* The bound on the length of the log. *)
CanAppend == Cardinality(Written) < MaxOps

(* Signing fixes the hash, which nobody can choose: any unused one. *)
AppendSigned(r, o) ==
  \E h \in 1 .. MaxOps \ {w.hash : w \in Written} :
    oplog' = [oplog EXCEPT ![r] = @ \cup {[o EXCEPT !.hash = h]}]

(* The owner's self-admit, then the founders, one after the other. *)
Founding ==
  LET AdmitOp(i, s, role) ==
        [hash |-> i, past |-> 1 .. i - 1, author |-> Owner, subject |-> s, action |-> "admit",
         role |-> role, invite |-> i = 1, exp |-> NoExpiry, gov |-> 0]
  IN {AdmitOp(1, Owner, "owner")}
       \cup {AdmitOp(i + 1, Founders[i].subject, Founders[i].role) : i \in DOMAIN Founders}

Init ==
  /\ oplog = [r \in Replicas |-> Founding]
  /\ identity = Identity

(* A daemon, or the owner's editor, that signs as the owner mirrors a request in *)
(* the log; any other signer leaves the log alone.                               *)
AppendAsOwner(r, o) ==
  /\ CanAppend
  /\ identity[r] = Owner
  /\ AppendSigned(r, o)
  /\ UNCHANGED identity

(* kb/add_member, and kb/approve_member, which signs the same operation. *)
AddMember(r, s, role) ==
  /\ "add" \in Requests
  /\ AppendAsOwner(r, [Unsigned(r, "admit", s) EXCEPT !.role = role])

(* kb/remove_member. *)
RemoveMember(r, s) ==
  /\ "remove" \in Requests
  /\ s # Owner
  /\ AppendAsOwner(r, Unsigned(r, "remove", s))

(* kb/set_governance.  The rule travels in the subject of the operation; here it *)
(* has a field of its own.                                                       *)
SetGovernance(r, m) ==
  AppendAsOwner(r, [Unsigned(r, "set_governance", Owner) EXCEPT !.gov = m])

(* kb/revoke: any member that derives as owner co-signs a removal. *)
Revoke(r) ==
  /\ CanAppend
  /\ "revoke" \in Requests
  /\ LET members == MembersOf(oplog[r])
     IN /\ identity[r] \in DOMAIN members
        /\ members[identity[r]].role = "owner"
        /\ \E s \in DOMAIN members : AppendSigned(r, Unsigned(r, "revoke", s))
  /\ UNCHANGED identity

(* A member rotates into a key pair nobody has used yet. *)
Rebind(r, s) ==
  /\ CanAppend
  /\ "rebind" \in Requests
  /\ \A q \in Replicas : identity[q] # s
  /\ \A o \in Written : s \notin {o.author, o.subject}
  /\ identity[r] \in DOMAIN MembersOf(oplog[r])
  /\ AppendSigned(r, Unsigned(r, "rebind", s))
  /\ identity' = [identity EXCEPT ![r] = s]

MergeHeadOnly(r, q) ==
  /\ ~(oplog[q] \subseteq oplog[r])
  /\ oplog' = [oplog EXCEPT ![r] = @ \cup {OplogHead(oplog[q])}]
  /\ UNCHANGED identity

(* A replica receives the copy of another (a document update carries all that *)
(* the receiver lacks).                                                       *)
Merge(r, q) ==
  /\ ~(oplog[q] \subseteq oplog[r])
  /\ oplog' = [oplog EXCEPT ![r] = @ \cup oplog[q]]
  /\ UNCHANGED identity

Next ==
  \E r \in Replicas :
    \/ \E i \in Invited : AddMember(r, i.subject, i.role)
    \/ \E s \in Principals : RemoveMember(r, s)
    \/ Revoke(r)
    \/ \E s \in Principals : Rebind(r, s)
    \/ \E m \in Thresholds : SetGovernance(r, m)
    \/ \E q \in Replicas : Merge(r, q)

Spec == Init /\ [][Next]_vars

-------------------------------------------------------------------------------
(* One watched replica shows the copies of all.  A copy holds everything its   *)
(* writers held when they wrote, so in some behaviour nothing else is written, *)
(* and the watched replica merges that copy.                                   *)
Copies == {oplog[r] : r \in Watched}

ValidIn(ops) == ValidOps(CausalOrder(ops, Owner), Owner, GovernanceOf(ops), 0)

(* Logs hold well-formed operations, one per hash, and with an operation the *)
(* whole chain it is linked to, so that causal_order reaches everything a     *)
(* replica holds.                                                             *)
LogTypeOK ==
  /\ oplog \in [Replicas -> SUBSET Op]
  /\ identity \in [Replicas -> Principals]
  /\ \A x, y \in Written : x.hash = y.hash => x = y
  /\ \A ops \in Copies : CausalOrder(ops, Owner) = ops

(* One more pass would leave what the resolver left: it was not cut off. *)
Settled(ops) ==
  LET valid == ValidIn(ops)
  IN Pass(CausalOrder(ops, Owner), Owner, GovernanceOf(ops), 0, valid) = valid

(* The passes of the resolver come to rest before they are cut off, whatever  *)
(* was signed concurrently (derive_valid_members_governed: "valid shrinks     *)
(* monotonically, so the loop converges").                                    *)
PassesSettle == \A ops \in Copies : Settled(ops)

(* Under single-owner governance nothing anyone signs takes the owner out: at *)
(* every replica an identity the owner has rotated into is a member           *)
(* (authorized protects the owner, the rotation hands its seat on).           *)
OwnerStays ==
  \A ops \in Copies :
    GovernanceOf(ops) = SingleOwner => OwnerChain(ops, Owner) \cap DOMAIN MembersOf(ops) # {}

(* Under a quorum of m, a principal with a valid admit who has not rotated is *)
(* absent only if m different keys signed its removal (effective_removal).    *)
(* Keys, not admins: whoever revokes, rotates and revokes again has signed    *)
(* with two, so this does not say that a lone admin removes nobody.           *)
QuorumProtects ==
  \A ops \in {c \in Copies : GovernanceOf(c) # SingleOwner} :
    LET absent == Principals \ DOMAIN MembersOf(ops)
        Removers(p) == {o.author : o \in {x \in ops : IsRemoval(x) /\ x.subject = p}}
    IN \A x \in ValidIn(ops) :
         /\ x.action = "admit"
         /\ x.subject \in absent
         /\ ~ \E y \in ops : y.action = "rebind" /\ y.author = x.subject
         => Cardinality(Removers(x.subject)) >= GovernanceOf(ops)

Successors(ops) == {x.subject : x \in {y \in ops : y.action = "rebind"}}

(* A rotation retires the old key for good: where the resolver comes to rest, *)
(* no operation it signs with that rotation in its past counts, even if the   *)
(* old key was admitted again in between (build_members rotates after it has  *)
(* given the seats, so the new seat goes to the successor too; membership_at  *)
(* runs it on the past).                                                      *)
RetiredStaysOut ==
  \A ops \in {c \in Copies : Successors(c) # {} /\ Settled(c)} :
    LET valid == ValidIn(ops)
    IN \A y, x \in valid : ~(y.action = "rebind" /\ Before(y, x) /\ x.author = y.author)

(* Learning of concurrent operations never undoes a removal: a principal that *)
(* is out by a removal one replica holds, signed by a principal that was      *)
(* admitted, is a member of its merge with another's copy only by an admit    *)
(* that has a removal in its past, if the governance rule is the same (strong *)
(* removal: removals are exempt from the rule on concurrent removals).  Seats *)
(* obtained by rotation are the matter of RemovedIsOut.                       *)
MergeKeepsRemovals ==
  \A q, r \in Replicas :
    LET mine == oplog[q]
        both == mine \cup oplog[r]
        admitted == {o.subject : o \in {x \in mine : x.action = "admit"}}
        back == IF both = mine \/ (\A o \in mine : ~IsRemoval(o))
                               \/ GovernanceOf(mine) # GovernanceOf(both) THEN {}
                ELSE DOMAIN MembersOf(both) \ (DOMAIN MembersOf(mine) \cup Successors(both))
    IN \A p \in back :
         (\E y \in ValidIn(mine) : IsRemoval(y) /\ y.subject = p /\ y.author \in admitted) =>
           \E x, y \in both : /\ x.action = "admit" /\ x.subject = p
                              /\ IsRemoval(y) /\ y.subject = p
                              /\ Before(y, x)

(* A valid removal by someone else of a principal other than the owner, with  *)
(* nothing valid about its subject beside or after it, leaves the subject out *)
(* (build_members: a concurrent or later removal wins; under single-owner     *)
(* governance one owner's removal suffices).                                  *)
RemovedIsOut ==
  \A ops \in Copies : LET valid == ValidIn(ops) IN
    \A y \in valid :
      /\ GovernanceOf(ops) = SingleOwner
      /\ IsRemoval(y)
      /\ y.subject \notin OwnerChain(ops, Owner) \cup {y.author}
      /\ \A x \in valid \ {y} : x.subject = y.subject => Before(x, y)
      => y.subject \notin DOMAIN MembersOf(ops)
===============================================================================
