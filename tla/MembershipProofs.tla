---------------------------- MODULE MembershipProofs ----------------------------
(***************************************************************************)
(* The membership log for any principals, replicas, founders, quorums and  *)
(* number of operations: who stays a member and who stays out, whatever is *)
(* signed concurrently and in whatever order the copies are merged.        *)
(***************************************************************************)
EXTENDS MembershipLog, FiniteSetTheorems, TLAPS

--------------------------------------------------------------------------------
(***************************************************************************)
(* Induction.  Each of these picks a least counterexample.                 *)
(***************************************************************************)
HasMinimal(C) == \E T \in C : \A U \in C : ~(U \subseteq T /\ U # T)

\* A non-empty set of subsets of a finite set has a minimal member.
LEMMA MinimalSubset ==
  ASSUME NEW S, IsFiniteSet(S), NEW C \in SUBSET (SUBSET S), C # {}
  PROVE  HasMinimal(C)
<1>1. C \subseteq FiniteSubsetsOf(S)
  BY FS_Subset DEF FiniteSubsetsOf
<1>2. \E T \in C : \A U \in C : ~(<<U, T>> \in StrictSubsetOrdering(S))
  BY Zenon, <1>1, FS_StrictSubsetOrderingWellFounded, WFMin
<1> QED
  BY Zenon, <1>2 DEF StrictSubsetOrdering, HasMinimal

\* A non-empty set of numbers has a least member.
LEMMA LeastNumber ==
  ASSUME NEW C, C \subseteq Nat, C # {}
  PROVE  \E m \in C : \A n \in C : m <= n
<1>1. PICK m \in C : \A n \in C : ~(<<n, m>> \in OpToRel(<, Nat))
  BY Zenon, NatLessThanWellFounded, WFMin
<1>2. \A n \in C : ~(n < m)
  BY Zenon, <1>1 DEF OpToRel
<1> QED
  BY <1>2

\* A finite, non-empty set of numbers has a greatest member.
LEMMA GreatestNumber ==
  ASSUME NEW S, IsFiniteSet(S), S \subseteq Nat, S # {}
  PROVE  \E m \in S : \A n \in S : n <= m
<1> DEFINE Topped(T) == \E m \in T : \A n \in T : n <= m
           C == {T \in SUBSET S : T # {} /\ ~Topped(T)}
<1> SUFFICES ASSUME C # {}
             PROVE  FALSE
  OBVIOUS
<1>1. PICK T \in C : \A U \in C : ~(U \subseteq T /\ U # T)
  <2>1. C \in SUBSET (SUBSET S)
    OBVIOUS
  <2> HIDE DEF C
  <2>2. HasMinimal(C)
    BY Zenon, <2>1, MinimalSubset
  <2> QED
    BY Zenon, <2>2 DEF HasMinimal
<1>2. PICK x \in T : TRUE
  BY Zenon
<1>3. CASE T = {x}
  BY <1>3
<1>4. CASE T # {x}
  <2>1. T \ {x} # {} /\ T \ {x} \subseteq T /\ T \ {x} # T
    BY <1>2, <1>4
  <2>2. Topped(T \ {x})
    BY <1>1, <2>1, Zenon
  <2>3. PICK m \in T \ {x} : \A n \in T \ {x} : n <= m
    BY <2>2
  <2>4. x \in Nat /\ m \in Nat /\ T \subseteq Nat
    BY <1>2, <2>3
  <2> QED
    BY <1>2, <2>3, <2>4
<1> QED
  BY <1>3, <1>4

\* A function defined by recursion on 0 .. N exists.
ByRecursion(g, base, F, N) == g = [n \in 0 .. N |-> IF n = 0 THEN base ELSE F[g[n - 1]]]

\* A function on 0 .. N may be defined from its value one below.
LEMMA Recursion ==
  ASSUME NEW X, NEW base \in X, NEW F \in [X -> X], NEW N \in Nat
  PROVE  \E g \in [0 .. N -> X] : ByRecursion(g, base, F, N)
<1> DEFINE Defines(g, m) ==
             /\ g \in [0 .. m -> X]
             /\ \A n \in 0 .. m : g[n] = IF n = 0 THEN base ELSE F[g[n - 1]]
           C == {m \in Nat : ~ \E g : Defines(g, m)}
<1>1. C = {}
  <2> SUFFICES ASSUME C # {}
               PROVE  FALSE
    OBVIOUS
  <2>1. PICK m \in C : \A n \in C : m <= n
    BY LeastNumber, Zenon
  <2>2. CASE m = 0
    <3>1. Defines([n \in 0 .. 0 |-> base], 0)
      OBVIOUS
    <3> QED
      BY Zenon, <2>1, <2>2, <3>1
  <2>3. CASE m # 0
    <3>1. m - 1 \in Nat /\ m - 1 \notin C
      <4>1. m \in Nat
        BY <2>1
      <4> HIDE DEF C
      <4> QED
        BY <2>1, <2>3, <4>1
    <3>2. PICK g : Defines(g, m - 1)
      BY Zenon, <3>1
    <3> DEFINE h == [n \in 0 .. m |-> IF n = 0 THEN base ELSE F[g[n - 1]]]
    <3>3. \A n \in 0 .. m : n # 0 => n - 1 \in 0 .. m - 1
      BY <2>1, <3>1
    <3>4. \A n \in 0 .. m - 1 : h[n] = g[n] /\ n \in 0 .. m
      BY <3>1, <3>2
    <3>5. h \in [0 .. m -> X]
      BY <3>2, <3>3
    <3>6. \A n \in 0 .. m : h[n] = IF n = 0 THEN base ELSE F[h[n - 1]]
      BY <3>3, <3>4, Zenon
    <3> HIDE DEF h
    <3>7. Defines(h, m)
      BY <3>5, <3>6
    <3> QED
      BY Zenon, <2>1, <3>7
  <2> QED
    BY <2>2, <2>3
<1>2. PICK g : Defines(g, N)
  BY Zenon, <1>1
<1> QED
  BY <1>2 DEF ByRecursion

--------------------------------------------------------------------------------
(***************************************************************************)
(* The order of the replay.  Operations with different hashes are in total *)
(* order, so a set of them has a latest one.                               *)
(***************************************************************************)
Distinct(ops) == ops \subseteq Op /\ \A x, y \in ops : x.hash = y.hash => x = y

\* The generation of an operation is a number.
LEMMA GenerationType ==
  ASSUME NEW x \in Op
  PROVE  /\ x.hash \in Nat /\ IsFiniteSet(x.past)
         /\ Cardinality(x.past) \in Nat
<1>1. x.hash \in 1 .. MaxOps /\ x.past \in SUBSET (1 .. MaxOps) /\ MaxOps \in Nat
  BY LogConstants DEF Op
<1>2. IsFiniteSet(1 .. MaxOps)
  BY <1>1, FS_Interval
<1>3. IsFiniteSet(x.past)
  BY <1>1, <1>2, FS_Subset
<1> QED
  BY <1>1, <1>3, FS_CardinalityType

\* Earlier is a strict order, total on operations with different hashes.
LEMMA EarlierOrder ==
  ASSUME NEW x \in Op, NEW y \in Op, NEW z \in Op
  PROVE  /\ x.hash # y.hash => Earlier(x, y) \/ Earlier(y, x)
         /\ Earlier(x, y) => ~Earlier(y, x)
         /\ Earlier(x, y) /\ Earlier(y, z) => Earlier(x, z)
<1>1. /\ x.hash \in Nat /\ Cardinality(x.past) \in Nat
      /\ y.hash \in Nat /\ Cardinality(y.past) \in Nat
      /\ z.hash \in Nat /\ Cardinality(z.past) \in Nat
  BY GenerationType
<1> QED
  BY <1>1 DEF Earlier

\* Operations with different hashes are as many as hashes at most.
LEMMA DistinctFinite ==
  ASSUME NEW S, Distinct(S)
  PROVE  IsFiniteSet(S)
<1>1. MaxOps \in Nat /\ IsFiniteSet(1 .. MaxOps)
  BY LogConstants, FS_Interval
<1> DEFINE f == [x \in S |-> x.hash]
<1>2. \A x \in S : x.hash \in 1 .. MaxOps
  BY DEF Distinct, Op
<1>3. f \in Injection(S, 1 .. MaxOps)
  BY <1>2 DEF Injection, IsInjective, Distinct
<1> QED
  BY <1>1, <1>3, FS_Injection

IsLatest(x, S) == x \in S /\ \A y \in S \ {x} : Earlier(y, x)

\* A non-empty set of such operations has a latest one,
LEMMA LatestExists ==
  ASSUME NEW S, Distinct(S), S # {}
  PROVE  \E x : IsLatest(x, S)
<1> DEFINE C == {T \in SUBSET S : T # {} /\ ~ \E x : IsLatest(x, T)}
<1> SUFFICES ASSUME C # {}
             PROVE  FALSE
  OBVIOUS
<1>1. C \in SUBSET (SUBSET S) /\ IsFiniteSet(S)
  BY DistinctFinite
<1>2. HasMinimal(C)
  <2> HIDE DEF C
  <2> QED
    BY Zenon, <1>1, MinimalSubset
<1>3. PICK T \in C : \A U \in C : ~(U \subseteq T /\ U # T)
  BY Zenon, <1>2 DEF HasMinimal
<1>4. T \subseteq S /\ T # {} /\ ~ \E x : IsLatest(x, T)
  OBVIOUS
<1>5. \A U : U \subseteq T /\ U # T /\ U # {} => \E x : IsLatest(x, U)
  BY <1>3, <1>4
<1> HIDE DEF C
<1>6. PICK x \in T : TRUE
  BY <1>4
<1>7. CASE T = {x}
  BY <1>4, <1>7 DEF IsLatest
<1>8. CASE T # {x}
  <2>1. T \ {x} # {} /\ T \ {x} \subseteq T /\ T \ {x} # T
    BY <1>6, <1>8
  <2>2. PICK m : IsLatest(m, T \ {x})
    BY <1>5, <2>1
  <2>3. m \in T /\ m # x /\ \A y \in T \ {x, m} : Earlier(y, m)
    BY <2>2 DEF IsLatest
  <2>4. T \subseteq Op /\ m.hash # x.hash
    BY <1>4, <1>6, <2>3 DEF Distinct
  <2>5. CASE Earlier(x, m)
    BY <1>4, <2>3, <2>5 DEF IsLatest
  <2>6. CASE Earlier(m, x)
    <3>1. \A y \in T \ {x} : Earlier(y, x)
      BY <1>6, <2>3, <2>4, <2>6, EarlierOrder
    <3> QED
      BY <1>4, <1>6, <3>1 DEF IsLatest
  <2> QED
    BY <1>6, <2>3, <2>4, <2>5, <2>6, EarlierOrder
<1> QED
  BY <1>7, <1>8

\* which is the one Latest chooses.
LEMMA LatestIsLatest ==
  ASSUME NEW S, Distinct(S), S # {}
  PROVE  IsLatest(Latest(S), S)
<1>1. PICK x : IsLatest(x, S)
  BY LatestExists
<1> QED
  BY Zenon, <1>1 DEF Latest, IsLatest

\* The latest of a set is the latest of every subset it is in.
LEMMA LatestOfSubset ==
  ASSUME NEW S, Distinct(S), NEW R \in SUBSET S, Latest(S) \in R
  PROVE  Latest(R) = Latest(S)
<1>1. S # {} /\ R # {} /\ Distinct(R)
  BY DEF Distinct
<1>2. IsLatest(Latest(S), S) /\ IsLatest(Latest(R), R)
  BY <1>1, LatestIsLatest
<1>3. Latest(S) \in Op /\ Latest(R) \in Op
  BY <1>2 DEF IsLatest, Distinct
<1> QED
  BY <1>2, <1>3, EarlierOrder DEF IsLatest

--------------------------------------------------------------------------------
(***************************************************************************)
(* The rotations: the recursion is well founded, and what it does to the   *)
(* principals it gives a seat.                                             *)
(***************************************************************************)
Rotates(f, seated, S) ==
    f = [R \in SUBSET S |->
           IF R = {} THEN seated
           ELSE Rotate(f[R \ {Latest(R)}], Latest(R).author, Latest(R).subject)]

\* The recursion over sets of rebinds defines a function:
LEMMA RotationsExist ==
  ASSUME NEW S, Distinct(S), NEW seated
  PROVE  \E f : Rotates(f, seated, S)
<1> DEFINE C == {T \in SUBSET S : ~ \E f : Rotates(f, seated, T)}
<1> SUFFICES ASSUME C # {}
             PROVE  FALSE
  OBVIOUS
<1>1. C \in SUBSET (SUBSET S) /\ IsFiniteSet(S)
  BY DistinctFinite
<1>2. HasMinimal(C)
  <2> HIDE DEF C
  <2> QED
    BY Zenon, <1>1, MinimalSubset
<1>3. PICK T \in C : \A U \in C : ~(U \subseteq T /\ U # T)
  BY Zenon, <1>2 DEF HasMinimal
<1>4. T \subseteq S /\ ~ \E f : Rotates(f, seated, T)
  OBVIOUS
<1>5. \A U : U \subseteq T /\ U # T => \E f : Rotates(f, seated, U)
  BY <1>3, <1>4
<1> HIDE DEF C
<1>6. Distinct(T)
  BY <1>4 DEF Distinct
<1>7. CASE T = {}
  <2> DEFINE f == [R \in SUBSET T |-> seated]
  <2>1. Rotates(f, seated, T)
    BY <1>7 DEF Rotates
  <2> QED
    BY Zenon, <1>4, <2>1
<1>8. CASE T # {}
  <2> DEFINE L == Latest(T)
             U == T \ {L}
  <2>1. L \in T
    BY <1>6, <1>8, LatestIsLatest DEF IsLatest
  <2>2. PICK g : Rotates(g, seated, U)
    BY <1>5, <2>1
  <2> DEFINE Body(f, R) == IF R = {} THEN seated
                           ELSE Rotate(f[R \ {Latest(R)}], Latest(R).author, Latest(R).subject)
             f == [R \in SUBSET T |-> Body(g, R)]
  <2>3. \A R \in SUBSET U : g[R] = Body(g, R)
    BY Zenon, <2>2 DEF Rotates
  <2>4. \A R \in SUBSET T : R \ {Latest(R)} \in SUBSET U
    <3> SUFFICES ASSUME NEW R \in SUBSET T, L \in R
                 PROVE  R \ {Latest(R)} \in SUBSET U
      OBVIOUS
    <3>1. Latest(R) = L
      BY <1>6, LatestOfSubset
    <3> QED
      BY <3>1
  <2>5. \A R \in SUBSET T : f[R] = Body(g, R)
    OBVIOUS
  <2>6. \A R \in SUBSET U : R \in SUBSET T /\ f[R] = g[R]
    BY <2>3, <2>5
  <2>7. \A R \in SUBSET T : f[R \ {Latest(R)}] = g[R \ {Latest(R)}]
    BY <2>4, <2>6, Zenon
  <2>8. \A R \in SUBSET T : Body(f, R) = Body(g, R)
    BY Zenon, <2>7
  <2>9. f = [R \in SUBSET T |-> Body(f, R)]
    BY Zenon, <2>8
  <2>10. Rotates(f, seated, T)
    BY Zenon, <2>9 DEF Rotates
  <2> QED
    BY Zenon, <1>4, <2>10
<1> QED
  BY <1>7, <1>8

\* Rotations is one such,
LEMMA RotationsRotate ==
  ASSUME NEW S, Distinct(S), NEW seated
  PROVE  Rotates(Rotations(seated, S), seated, S)
<1> DEFINE F == CHOOSE f : Rotates(f, seated, S)
<1>1. Rotations(seated, S) = F
  BY DEF Rotations, Rotates
<1>2. Rotates(F, seated, S)
  BY Zenon, RotationsExist
<1> QED
  BY Zenon, <1>1, <1>2

\* so the latest rebind of a set is replayed after the others.
LEMMA RotationStep ==
  ASSUME NEW S, Distinct(S), NEW seated
  PROVE  LET f == Rotations(seated, S) IN
         /\ f[{}] = seated
         /\ \A R \in SUBSET S : R # {} =>
              f[R] = Rotate(f[R \ {Latest(R)}], Latest(R).author, Latest(R).subject)
<1> DEFINE f == Rotations(seated, S)
<1>1. Rotates(f, seated, S)
  BY Zenon, RotationsRotate
<1> HIDE DEF f
<1>2. \A R \in SUBSET S :
        f[R] = IF R = {} THEN seated
               ELSE Rotate(f[R \ {Latest(R)}], Latest(R).author, Latest(R).subject)
  BY Zenon, <1>1 DEF Rotates
<1>3. {} \in SUBSET S
  OBVIOUS
<1> QED
  BY Zenon, <1>2, <1>3 DEF f

\* What a rotation does to the set of members.
RotateKeys(D, old, new) == IF old \notin D THEN D ELSE (D \ {old}) \cup {new}

\* Who has a seat after a rotation depends only on who had one before.
LEMMA RotateDomain ==
  ASSUME NEW members, NEW old, NEW new
  PROVE  DOMAIN Rotate(members, old, new) = RotateKeys(DOMAIN members, old, new)
BY DEF Rotate, RotateKeys

\* What each rotation keeps of the set of members, all of them keep.
LEMMA RotationsKeep ==
  ASSUME NEW S, Distinct(S), NEW seated, NEW M, DOMAIN seated \in M,
         \A D \in M, x \in S : RotateKeys(D, x.author, x.subject) \in M
  PROVE  DOMAIN Rotations(seated, S)[S] \in M
<1> DEFINE f == Rotations(seated, S)
           C == {R \in SUBSET S : DOMAIN f[R] \notin M}
<1>1. /\ f[{}] = seated
      /\ \A R \in SUBSET S : R # {} =>
           f[R] = Rotate(f[R \ {Latest(R)}], Latest(R).author, Latest(R).subject)
  BY Zenon, RotationStep
<1> HIDE DEF f
<1>2. C = {}
  <2> SUFFICES ASSUME C # {}
               PROVE  FALSE
    OBVIOUS
  <2>1. C \in SUBSET (SUBSET S) /\ IsFiniteSet(S)
    BY DistinctFinite
  <2>2. HasMinimal(C)
    <3> HIDE DEF C
    <3> QED
      BY Zenon, <2>1, MinimalSubset
  <2>3. PICK T \in C : \A U \in C : ~(U \subseteq T /\ U # T)
    BY Zenon, <2>2 DEF HasMinimal
  <2>4. T \in SUBSET S /\ DOMAIN f[T] \notin M /\ T # {}
    BY <1>1, Zenon
  <2>5. Latest(T) \in T
    <3>1. Distinct(T)
      BY <2>4 DEF Distinct
    <3> QED
      BY <2>4, <3>1, LatestIsLatest DEF IsLatest
  <2>6. T \ {Latest(T)} \in SUBSET S /\ T \ {Latest(T)} \notin C
    BY <2>3, <2>4, <2>5
  <2>7. DOMAIN f[T \ {Latest(T)}] \in M
    BY <2>6
  <2>8. DOMAIN f[T] = RotateKeys(DOMAIN f[T \ {Latest(T)}], Latest(T).author, Latest(T).subject)
    <3>1. f[T] = Rotate(f[T \ {Latest(T)}], Latest(T).author, Latest(T).subject)
      BY <1>1, <2>4, Zenon
    <3> QED
      BY <3>1, RotateDomain
  <2> QED
    <3>1. Latest(T) \in S
      BY <2>4, <2>5
    <3> QED
      BY Zenon, <2>4, <2>7, <2>8, <3>1
<1> QED
  BY <1>2 DEF f

--------------------------------------------------------------------------------
(***************************************************************************)
(* The resolver.  What it returns is the outcome of a pass.                *)
(***************************************************************************)
Resolves(f, P, log, N) ==
    f = [n \in 0 .. N |->
           [valid \in SUBSET log |->
              IF n = 0 \/ P[valid] = valid THEN valid ELSE f[n - 1][P[valid]]]]

\* The recursion over the passes left defines a function:
LEMMA ResolverExists ==
  ASSUME NEW log, NEW P \in [SUBSET log -> SUBSET log], NEW N \in Nat
  PROVE  \E f \in [0 .. N -> [SUBSET log -> SUBSET log]] : Resolves(f, P, log, N)
<1> DEFINE X == [SUBSET log -> SUBSET log]
           base == [valid \in SUBSET log |-> valid]
           More(h) == [valid \in SUBSET log |-> IF P[valid] = valid THEN valid ELSE h[P[valid]]]
           F == [h \in X |-> More(h)]
<1>1. base \in X /\ \A h \in X : More(h) \in X
  OBVIOUS
<1>2. F \in [X -> X] /\ \A h \in X : F[h] = More(h)
  BY Zenon, <1>1
<1> HIDE DEF X, F, base
<1>3. PICK f \in [0 .. N -> X] : ByRecursion(f, base, F, N)
  BY Zenon, <1>1, <1>2, Recursion
<1>4. \A n \in 0 .. N : n # 0 => F[f[n - 1]] = More(f[n - 1])
  <2>1. \A n \in 0 .. N : n # 0 => n - 1 \in 0 .. N
    OBVIOUS
  <2> QED
    BY Zenon, <1>2, <1>3, <2>1
<1> DEFINE Row(n) == [valid \in SUBSET log |->
                        IF n = 0 \/ P[valid] = valid THEN valid ELSE f[n - 1][P[valid]]]
<1>5. \A n \in 0 .. N : (IF n = 0 THEN base ELSE F[f[n - 1]]) = Row(n)
  <2> SUFFICES ASSUME NEW n \in 0 .. N
               PROVE  (IF n = 0 THEN base ELSE F[f[n - 1]]) = Row(n)
    BY Zenon
  <2>1. CASE n = 0
    BY Zenon, <2>1 DEF base
  <2>2. CASE n # 0
    BY Zenon, <1>4, <2>2
  <2> QED
    BY <2>1, <2>2
<1>6. f = [n \in 0 .. N |-> Row(n)]
  BY Zenon, <1>3, <1>5 DEF ByRecursion
<1> QED
  BY Zenon, <1>3, <1>6 DEF Resolves, X

OutcomeOf(P, log) == {P[v] : v \in SUBSET log}

\* any such function ends in a set that a pass returned.
LEMMA ResolvedIsPass ==
  ASSUME NEW log, NEW P \in [SUBSET log -> SUBSET log], NEW N \in Nat, N # 0,
         NEW f, Resolves(f, P, log, N)
  PROVE  f[N][log] \in OutcomeOf(P, log)
<1> DEFINE Image == {P[v] : v \in SUBSET log}
           C == {n \in 0 .. N : \E v \in Image : f[n][v] \notin Image}
<1>1. \A n \in 0 .. N : \A v \in SUBSET log :
        f[n][v] = IF n = 0 \/ P[v] = v THEN v ELSE f[n - 1][P[v]]
  <2>1. \A n \in 0 .. N :
          f[n] = [v \in SUBSET log |-> IF n = 0 \/ P[v] = v THEN v ELSE f[n - 1][P[v]]]
    BY Zenon DEF Resolves
  <2> SUFFICES ASSUME NEW n \in 0 .. N, NEW v \in SUBSET log
               PROVE  f[n][v] = IF n = 0 \/ P[v] = v THEN v ELSE f[n - 1][P[v]]
    OBVIOUS
  <2>2. f[n] = [w \in SUBSET log |-> IF n = 0 \/ P[w] = w THEN w ELSE f[n - 1][P[w]]]
    BY Zenon, <2>1
  <2> QED
    BY Zenon, <2>2
<1>2. C = {}
  <2> SUFFICES ASSUME C # {}
               PROVE  FALSE
    OBVIOUS
  <2>1. PICK m \in C : \A n \in C : m <= n
    <3>1. C \subseteq Nat
      OBVIOUS
    <3> HIDE DEF C
    <3> QED
      BY <3>1, LeastNumber, Zenon
  <2>2. m \in 0 .. N
    OBVIOUS
  <2>3. PICK v \in Image : f[m][v] \notin Image
    OBVIOUS
  <2>4. v \in SUBSET log /\ P[v] \in Image
    BY <2>3
  <2>5. m # 0 /\ f[m][v] = f[m - 1][P[v]]
    BY <1>1, <2>2, <2>3, <2>4
  <2>6. m - 1 \in 0 .. N /\ m - 1 \notin C
    <3> HIDE DEF C
    <3> QED
      BY <2>1, <2>2, <2>5
  <2> QED
    BY <2>3, <2>4, <2>5, <2>6
<1>3. N \in 0 .. N /\ N - 1 \in 0 .. N /\ log \in SUBSET log /\ P[log] \in Image
  OBVIOUS
<1>4. f[N][log] \in Image
  BY <1>1, <1>2, <1>3
<1> QED
  BY <1>4 DEF OutcomeOf

\* A pass returns operations of the log.
LEMMA PassWithin ==
  ASSUME NEW log, NEW owner, NEW gov, NEW now, NEW valid
  PROVE  Pass(log, owner, gov, now, valid) \in SUBSET log
BY DEF Pass

\* So what the resolver leaves valid is the outcome of a pass.
LEMMA ValidOpsIsPass ==
  ASSUME NEW log, IsFiniteSet(log), NEW owner, NEW gov, NEW now
  PROVE  \E v \in SUBSET log :
           ValidOps(log, owner, gov, now) = Pass(log, owner, gov, now, v)
<1> DEFINE P == [v \in SUBSET log |-> Pass(log, owner, gov, now, v)]
           N == Cardinality(log) + 2
           Body(f) == [n \in 0 .. N |->
                         [valid \in SUBSET log |->
                            IF n = 0 \/ Pass(log, owner, gov, now, valid) = valid THEN valid
                            ELSE f[n - 1][Pass(log, owner, gov, now, valid)]]]
           F == CHOOSE f : f = Body(f)
<1>1. P \in [SUBSET log -> SUBSET log]
  BY PassWithin
<1>2. N \in Nat /\ N # 0
  BY FS_CardinalityType
<1>3. ValidOps(log, owner, gov, now) = F[N][log]
  BY DEF ValidOps
<1>4. \A f : Resolves(f, P, log, N) <=> f = Body(f)
  BY Zenon DEF Resolves
<1> HIDE DEF Body, N, P
<1>5. \E f : Resolves(f, P, log, N)
  BY Zenon, <1>1, <1>2, ResolverExists
<1>6. Resolves(F, P, log, N)
  BY Zenon, <1>4, <1>5
<1> HIDE DEF F
<1>7. F[N][log] \in OutcomeOf(P, log)
  BY Zenon, <1>1, <1>2, <1>6, ResolvedIsPass
<1> QED
  BY Zenon, <1>3, <1>7 DEF P, OutcomeOf

--------------------------------------------------------------------------------
(***************************************************************************)
(* The owner's identities: as many steps as there are operations reach     *)
(* every one.                                                              *)
(***************************************************************************)
Heirs(ops, c) == {o.subject : o \in {x \in ops : x.action = "rebind" /\ x.author \in c}}

Chains(f, ops, owner, N) ==
    f = [n \in 0 .. N |-> IF n = 0 THEN {owner} ELSE f[n - 1] \cup Heirs(ops, f[n - 1])]

\* The recursion of OwnerChain defines a function.
LEMMA ChainExists ==
  ASSUME NEW ops, NEW owner, NEW N \in Nat
  PROVE  \E f : Chains(f, ops, owner, N)
<1> DEFINE A == {owner} \cup {x.subject : x \in ops}
           X == SUBSET A
           F == [c \in X |-> c \cup Heirs(ops, c)]
<1>1. {owner} \in X /\ \A c \in X : c \cup Heirs(ops, c) \in X
  BY DEF Heirs
<1>2. F \in [X -> X] /\ \A c \in X : F[c] = c \cup Heirs(ops, c)
  BY Zenon, <1>1
<1> HIDE DEF A, X, F
<1>3. PICK f \in [0 .. N -> X] : ByRecursion(f, {owner}, F, N)
  BY Zenon, <1>1, <1>2, Recursion
<1>4. \A n \in 0 .. N : n # 0 => F[f[n - 1]] = f[n - 1] \cup Heirs(ops, f[n - 1])
  <2>1. \A n \in 0 .. N : n # 0 => n - 1 \in 0 .. N
    OBVIOUS
  <2> QED
    BY Zenon, <1>2, <1>3, <2>1
<1>5. Chains(f, ops, owner, N)
  <2>1. \A n \in 0 .. N : (IF n = 0 THEN {owner} ELSE F[f[n - 1]])
                          = (IF n = 0 THEN {owner} ELSE f[n - 1] \cup Heirs(ops, f[n - 1]))
    BY Zenon, <1>4
  <2> QED
    BY Zenon, <1>3, <2>1 DEF ByRecursion, Chains
<1> QED
  BY Zenon, <1>5

\* The subjects of a finite log are no more than its operations.
LEMMA SubjectsCount ==
  ASSUME NEW ops, IsFiniteSet(ops)
  PROVE  LET T == {x.subject : x \in ops} IN
         IsFiniteSet(T) /\ Cardinality(T) <= Cardinality(ops)
<1> DEFINE T == {x.subject : x \in ops}
           f == [x \in ops |-> x.subject]
<1>1. f \in Surjection(ops, T)
  BY DEF Surjection
<1> HIDE DEF f, T
<1>2. IsFiniteSet(T) /\ Cardinality(T) <= Cardinality(ops)
  BY <1>1, FS_Surjection
<1> QED
  BY <1>2 DEF T

Closed(ops, c) == Heirs(ops, c) \subseteq c

\* Until it is closed, the chain gains an identity with every step.
LEMMA ChainGrows ==
  ASSUME NEW ops, NEW owner, NEW N \in Nat, NEW f, Chains(f, ops, owner, N), IsFiniteSet(ops)
  PROVE  \A n \in 0 .. N : /\ owner \in f[n]
                           /\ f[n] \subseteq {owner} \cup {x.subject : x \in ops}
                           /\ Closed(ops, f[n]) \/ Cardinality(f[n]) >= n + 1
<1> DEFINE A == {owner} \cup {x.subject : x \in ops}
           Good(n) == /\ owner \in f[n] /\ f[n] \subseteq A
                      /\ Closed(ops, f[n]) \/ Cardinality(f[n]) >= n + 1
           C == {n \in 0 .. N : ~Good(n)}
<1>1. /\ f[0] = {owner}
      /\ \A n \in 0 .. N : n # 0 => f[n] = f[n - 1] \cup Heirs(ops, f[n - 1])
  <2>1. \A n \in 0 .. N : f[n] = IF n = 0 THEN {owner} ELSE f[n - 1] \cup Heirs(ops, f[n - 1])
    BY Zenon DEF Chains
  <2>2. 0 \in 0 .. N
    OBVIOUS
  <2> QED
    BY Zenon, <2>1, <2>2
<1>2. IsFiniteSet(A)
  BY SubjectsCount, FS_AddElement, FS_Singleton, FS_Union, Zenon
<1>3. C = {}
  <2> SUFFICES ASSUME C # {}
               PROVE  FALSE
    OBVIOUS
  <2>1. PICK m \in C : \A n \in C : m <= n
    <3>1. C \subseteq Nat
      OBVIOUS
    <3> HIDE DEF C
    <3> QED
      BY <3>1, LeastNumber, Zenon
  <2>2. m \in 0 .. N /\ ~Good(m)
    OBVIOUS
  <2>3. CASE m = 0
    <3>1. Cardinality({owner}) = 1
      BY FS_Singleton
    <3>2. f[m] = {owner}
      BY <1>1, <2>3
    <3>3. Cardinality(f[m]) >= m + 1 /\ owner \in f[m] /\ f[m] \subseteq A
      BY <2>3, <3>1, <3>2
    <3> QED
      BY <2>2, <3>3
  <2>4. CASE m # 0
    <3>1. m - 1 \in 0 .. N /\ m - 1 \notin C
      <4> HIDE DEF C
      <4> QED
        BY <2>1, <2>2, <2>4
    <3>2. Good(m - 1)
      BY <3>1
    <3>3. f[m] = f[m - 1] \cup Heirs(ops, f[m - 1])
      BY <1>1, <2>2, <2>4
    <3>4. owner \in f[m] /\ f[m] \subseteq A
      BY <3>2, <3>3 DEF Heirs
    <3>5. CASE Closed(ops, f[m - 1])
      <4>1. f[m] = f[m - 1]
        BY <3>3, <3>5 DEF Closed
      <4> QED
        BY <2>2, <3>4, <3>5, <4>1
    <3>6. CASE ~Closed(ops, f[m - 1])
      <4>1. IsFiniteSet(f[m]) /\ IsFiniteSet(f[m - 1])
        BY <1>2, <3>2, <3>4, FS_Subset
      <4>2. f[m - 1] \subseteq f[m] /\ f[m - 1] # f[m]
        BY <3>3, <3>6 DEF Closed
      <4>3. Cardinality(f[m - 1]) <= Cardinality(f[m]) /\ Cardinality(f[m - 1]) # Cardinality(f[m])
        BY <4>1, <4>2, FS_Subset
      <4>4. Cardinality(f[m - 1]) \in Nat /\ Cardinality(f[m]) \in Nat
        BY <4>1, FS_CardinalityType
      <4>5. Cardinality(f[m]) >= m + 1
        BY <2>2, <3>2, <3>6, <4>3, <4>4
      <4> QED
        BY <2>2, <3>4, <4>5
    <3> QED
      BY <3>5, <3>6
  <2> QED
    BY <2>3, <2>4
<1> QED
  BY <1>3

\* So OwnerChain is closed: there are no more identities than operations.
LEMMA OwnerChainClosed ==
  ASSUME NEW ops, IsFiniteSet(ops), NEW owner
  PROVE  owner \in OwnerChain(ops, owner) /\ Closed(ops, OwnerChain(ops, owner))
<1> DEFINE N == Cardinality(ops)
           Body(f) == [n \in 0 .. N |->
                         IF n = 0 THEN {owner}
                         ELSE f[n - 1] \cup {o.subject : o \in {x \in ops : /\ x.action = "rebind"
                                                                            /\ x.author \in f[n - 1]}}]
           F == CHOOSE f : f = Body(f)
           T == {x.subject : x \in ops}
           A == {owner} \cup T
<1>1. N \in Nat /\ N \in 0 .. N
  BY FS_CardinalityType
<1>2. OwnerChain(ops, owner) = F[N]
  BY DEF OwnerChain
<1>3. \A f : Chains(f, ops, owner, N) <=> f = Body(f)
  BY Zenon DEF Chains, Heirs
<1> HIDE DEF Body
<1>4. \E f : Chains(f, ops, owner, N)
  BY Zenon, <1>1, ChainExists
<1>5. Chains(F, ops, owner, N)
  BY Zenon, <1>3, <1>4
<1> HIDE DEF F
<1>6. /\ owner \in F[N] /\ F[N] \subseteq A
      /\ Closed(ops, F[N]) \/ Cardinality(F[N]) >= N + 1
  <2>1. \A n \in 0 .. N : /\ owner \in F[n] /\ F[n] \subseteq A
                          /\ Closed(ops, F[n]) \/ Cardinality(F[n]) >= n + 1
    BY Zenon, <1>1, <1>5, ChainGrows
  <2> QED
    BY Zenon, <1>1, <2>1
<1>7. CASE Cardinality(F[N]) >= N + 1
  <2>1. IsFiniteSet(T) /\ Cardinality(T) <= N /\ Cardinality(T) \in Nat
    BY SubjectsCount, FS_CardinalityType
  <2>2. A = T \cup {owner}
    OBVIOUS
  <2> HIDE DEF A, T
  <2>3. IsFiniteSet(A) /\ Cardinality(A) <= N + 1 /\ Cardinality(A) \in Nat
    <3>1. IsFiniteSet(A) /\ Cardinality(A) = IF owner \in T THEN Cardinality(T) ELSE Cardinality(T) + 1
      BY <2>1, <2>2, FS_AddElement
    <3> HIDE DEF N
    <3> QED
      BY <1>1, <2>1, <3>1
  <2>4. IsFiniteSet(F[N]) /\ Cardinality(F[N]) <= Cardinality(A) /\ Cardinality(F[N]) \in Nat
    BY <1>6, <2>3, FS_Subset, FS_CardinalityType
  <2>5. Cardinality(F[N]) = Cardinality(A)
    BY <1>1, <1>7, <2>3, <2>4
  <2>6. F[N] = A
    BY <1>6, <2>3, <2>5, FS_Subset
  <2> QED
    BY <1>2, <1>6, <2>6 DEF Closed, Heirs, A, T
<1> QED
  BY <1>2, <1>6, <1>7

--------------------------------------------------------------------------------
(***************************************************************************)
(* The inductive invariant of the log.  Each copy holds the genesis and,   *)
(* with an operation, the chain it is linked to.  What an operation has in *)
(* its past is in line, whichever copies hold it, and nothing before a     *)
(* rotation was signed by the key it rotates into.                         *)
(***************************************************************************)
IsGenesis(x) ==
    /\ x.hash = 1 /\ x.past = {}
    /\ x.action = "admit" /\ x.author = Owner /\ x.subject = Owner

Chained(x, ops) ==
    /\ x.hash = 1 \/ 1 \in x.past
    /\ x.hash \notin x.past
    /\ \A h \in x.past : \E y \in ops : y.hash = h /\ y.past \subseteq x.past

Rooted(ops) ==
    /\ \E x \in ops : IsGenesis(x)
    /\ \A x \in ops : Chained(x, ops) /\ x.exp = NoExpiry

InLine(x, ops) ==
    \A y, z \in ops : Before(y, x) /\ Before(z, x) => y = z \/ Before(y, z) \/ Before(z, y)

NewKey(x, ops) ==
    x.action = "rebind" =>
      /\ x.subject # x.author
      /\ \A y \in ops : Before(y, x) => y.author # x.subject

LogInv ==
    /\ oplog \in [Replicas -> SUBSET Op]
    /\ identity \in [Replicas -> Principals]
    /\ Distinct(Written)
    /\ \A r \in Replicas : Rooted(oplog[r])
    /\ \A x \in Written : InLine(x, Written) /\ NewKey(x, Written)

\* The past of an operation comes before it in the replay.
LEMMA BeforeIsEarlier ==
  ASSUME NEW ops, Distinct(ops), Rooted(ops), NEW x \in ops, NEW y \in ops, Before(x, y)
  PROVE  Earlier(x, y) /\ x # y
<1>1. x \in Op /\ y \in Op /\ Chained(x, ops) /\ Chained(y, ops)
  BY DEF Distinct, Rooted
<1>2. x.past \subseteq y.past /\ x.hash \in y.past /\ x.hash \notin x.past
  BY <1>1 DEF Chained, Before, Distinct
<1>3. /\ IsFiniteSet(y.past)
      /\ Cardinality(x.past) \in Nat /\ Cardinality(y.past) \in Nat
  BY <1>1, GenerationType
<1>4. Cardinality(x.past) <= Cardinality(y.past) /\ Cardinality(x.past) # Cardinality(y.past)
  BY <1>2, <1>3, FS_Subset
<1> QED
  BY <1>2, <1>3, <1>4 DEF Earlier

\* oplog_head finds a tip.
LEMMA HeadIn ==
  ASSUME NEW ops, Distinct(ops), Rooted(ops)
  PROVE  OplogHead(ops) \in ops
<1> DEFINE tips == {x \in ops : ~ \E y \in ops : Before(x, y)}
           H == {x.hash : x \in tips}
<1>1. IsLatest(Latest(ops), ops)
  <2>1. ops # {}
    BY DEF Rooted
  <2> QED
    BY <2>1, LatestIsLatest
<1>2. Latest(ops) \in tips
  <2> SUFFICES ASSUME NEW y \in ops, Before(Latest(ops), y)
               PROVE  FALSE
    BY <1>1 DEF IsLatest
  <2>1. Latest(ops) \in ops /\ Latest(ops) \in Op /\ y \in Op
    BY <1>1 DEF IsLatest, Distinct
  <2>2. Earlier(Latest(ops), y) /\ Latest(ops) # y
    BY <2>1, BeforeIsEarlier
  <2>3. Earlier(y, Latest(ops))
    BY <1>1, <2>2 DEF IsLatest
  <2> QED
    BY <2>1, <2>2, <2>3, EarlierOrder
<1>3. H \subseteq 1 .. MaxOps /\ H # {} /\ MaxOps \in Nat
  BY <1>2, LogConstants DEF Distinct, Op
<1>4. IsFiniteSet(H) /\ H \subseteq Nat
  <2>1. IsFiniteSet(1 .. MaxOps) /\ 1 .. MaxOps \subseteq Nat
    BY <1>3, FS_Interval
  <2> HIDE DEF H
  <2> QED
    BY <1>3, <2>1, FS_Subset, Zenon
<1>5. PICK m \in H : \A n \in H : n <= m
  <2> HIDE DEF H
  <2> QED
    BY <1>3, <1>4, GreatestNumber, Zenon
<1>6. PICK x \in tips : \A y \in tips : y.hash <= x.hash
  <2>1. PICK x \in tips : m = x.hash
    BY Zenon, <1>5
  <2>2. \A y \in tips : y.hash \in H
    OBVIOUS
  <2> HIDE DEF H, tips
  <2> QED
    BY Zenon, <1>5, <2>1, <2>2
<1>7. OplogHead(ops) = CHOOSE h \in tips : \A y \in tips : y.hash <= h.hash
  BY DEF OplogHead
<1> HIDE DEF tips
<1>8. OplogHead(ops) \in tips
  BY Zenon, <1>6, <1>7
<1> QED
  BY <1>8 DEF tips

\* causal_order reaches everything in a copy.
LEMMA AllConnected ==
  ASSUME NEW ops, Rooted(ops)
  PROVE  CausalOrder(ops, Owner) = ops
<1>1. \E g \in Genesis(ops, Owner) : g.hash = 1
  BY DEF Rooted, Genesis, IsGenesis
<1>2. 1 \in {g.hash : g \in Genesis(ops, Owner)}
  BY <1>1
<1>3. \A x \in ops : x.past \subseteq {o.hash : o \in ops} /\ 1 \in x.past \cup {x.hash}
  BY <1>1 DEF Rooted, Chained
<1> QED
  BY <1>2, <1>3 DEF CausalOrder

\* Merged copies are rooted.
LEMMA RootedUnion ==
  ASSUME NEW A, NEW B, Rooted(A), Rooted(B)
  PROVE  Rooted(A \cup B)
BY DEF Rooted, Chained

--------------------------------------------------------------------------------
(***************************************************************************)
(* What is derived from a copy.                                            *)
(***************************************************************************)
\* No operation of the log has an expiry.
LEMMA Unexpired ==
  ASSUME NEW ops, Rooted(ops), NEW x \in ops, NEW now
  PROVE  ~Expired(x, now)
BY DEF Rooted, Expired

\* The seats go to the subjects of the admits that seat.
LEMMA SeatedDomain ==
  ASSUME NEW gov, NEW now, NEW valid
  PROVE  DOMAIN Seated(gov, now, valid) = {x.subject : x \in Seats(gov, now, valid)}
BY Zenon DEF Seated

\* build_members gives seats to principals.
LEMMA MembersDomain ==
  ASSUME NEW valid, Distinct(valid), NEW gov, NEW now
  PROVE  DOMAIN BuildMembers(gov, now, valid) \subseteq Principals
<1> DEFINE S == {x \in valid : x.action = "rebind"}
           seated == Seated(gov, now, valid)
           M == SUBSET Principals
<1>1. Distinct(S)
  BY DEF Distinct
<1>2. \A x \in valid : x.subject \in Principals
  BY DEF Distinct, Op
<1>3. DOMAIN seated \in M
  <2>1. Seats(gov, now, valid) \subseteq valid
    BY DEF Seats
  <2>2. DOMAIN seated = {x.subject : x \in Seats(gov, now, valid)}
    BY SeatedDomain, Zenon
  <2> QED
    BY <1>2, <2>1, <2>2
<1>4. \A D \in M, x \in S : RotateKeys(D, x.author, x.subject) \in M
  BY <1>2 DEF RotateKeys
<1>5. BuildMembers(gov, now, valid) = Rotations(seated, S)[S]
  BY DEF BuildMembers
<1> HIDE DEF S, seated, M
<1>6. DOMAIN Rotations(seated, S)[S] \in M
  BY Zenon, <1>1, <1>3, <1>4, RotationsKeep
<1> QED
  BY <1>5, <1>6 DEF M

\* A copy is connected and nobody is blocked, so the members are those that
\* build_members derives from what is valid in the copy.
LEMMA ValidInCopy ==
  ASSUME NEW ops, Distinct(ops), Rooted(ops)
  PROVE  /\ ValidIn(ops) = ValidOps(ops, Owner, GovernanceOf(ops), 0)
         /\ ValidIn(ops) \subseteq ops /\ Distinct(ValidIn(ops))
         /\ DOMAIN MembersOf(ops) = DOMAIN BuildMembers(GovernanceOf(ops), 0, ValidIn(ops))
<1>1. CausalOrder(ops, Owner) = ops /\ {o \in ops : o.author \notin {}} = ops
  BY AllConnected
<1>2. ValidIn(ops) = ValidOps(ops, Owner, GovernanceOf(ops), 0)
  BY Zenon, <1>1 DEF ValidIn
<1>3. ValidIn(ops) \subseteq ops
  <2>1. IsFiniteSet(ops)
    BY DistinctFinite
  <2> QED
    BY <1>2, <2>1, ValidOpsIsPass, PassWithin
<1>4. MembersOf(ops) =
        LET members == BuildMembers(GovernanceOf(ops), 0, ValidIn(ops))
        IN [p \in DOMAIN members \ {} |-> members[p]]
  BY Zenon, <1>1, <1>2 DEF MembersOf, DeriveMembers
<1> QED
  BY <1>2, <1>3, <1>4 DEF Distinct

\* Members are principals.
LEMMA DerivedArePrincipals ==
  ASSUME NEW ops, Distinct(ops), Rooted(ops)
  PROVE  DOMAIN MembersOf(ops) \subseteq Principals
BY ValidInCopy, MembersDomain

--------------------------------------------------------------------------------
(***************************************************************************)
(* Every step keeps the invariant.                                         *)
(***************************************************************************)
LEMMA CopyOK ==
  ASSUME LogInv, NEW r \in Replicas
  PROVE  Distinct(oplog[r]) /\ Rooted(oplog[r]) /\ oplog[r] \subseteq Written
BY DEF LogInv, Distinct, Written

\* The past of an operation was written with it.
LEMMA PastIsWritten ==
  ASSUME LogInv, NEW x \in Written
  PROVE  x.past \subseteq {w.hash : w \in Written}
<1>1. PICK r \in Replicas : x \in oplog[r]
  BY DEF Written
<1> QED
  BY <1>1, CopyOK DEF Rooted, Chained

\* A new operation on the head of a copy keeps the invariant.
LEMMA AppendInv ==
  ASSUME LogInv, NEW r \in Replicas, NEW n \in Op, n.hash \notin {w.hash : w \in Written},
         n.past = OplogHead(oplog[r]).past \cup {OplogHead(oplog[r]).hash},
         n.exp = NoExpiry,
         n.action = "rebind" =>
           n.subject # n.author /\ \A y \in Written : y.author # n.subject,
         oplog' = [oplog EXCEPT ![r] = @ \cup {n}],
         identity' \in [Replicas -> Principals]
  PROVE  LogInv'
<1> DEFINE H == OplogHead(oplog[r])
<1>1. H \in oplog[r] /\ H \in Written
  BY CopyOK, HeadIn
<1>2. n.past = H.past \cup {H.hash} /\ n.hash \notin n.past
  BY <1>1, PastIsWritten
<1> HIDE DEF H
<1>3. /\ \A q \in Replicas : oplog'[q] = IF q = r THEN oplog[q] \cup {n} ELSE oplog[q]
      /\ oplog' \in [Replicas -> SUBSET Op]
  BY Zenon DEF LogInv
<1>4. Written' = Written \cup {n}
  BY <1>3 DEF Written
<1>5. Distinct(Written)'
  <2>1. Distinct(Written \cup {n})
    BY DEF LogInv, Distinct
  <2> QED
    BY <1>4, <2>1 DEF Distinct
<1>6. \A x \in Written : ~Before(n, x)
  BY PastIsWritten DEF Before
<1>7. ASSUME NEW q \in Replicas
      PROVE  Rooted(oplog[q])'
  <2>1. CASE q # r
    BY <1>3, <1>7, <2>1, CopyOK DEF Rooted, Chained
  <2>2. CASE q = r
    <3>1. Rooted(oplog[r]) /\ Chained(H, oplog[r])
      BY <1>1, CopyOK DEF Rooted
    <3>2. 1 \in n.past
      BY <1>2, <3>1 DEF Chained
    <3>3. \A h \in n.past : \E y \in oplog[r] : y.hash = h /\ y.past \subseteq n.past
      BY <1>1, <1>2, <3>1 DEF Chained
    <3>4. Rooted(oplog[r] \cup {n})
      BY <1>2, <3>1, <3>2, <3>3 DEF Rooted, Chained
    <3> QED
      BY <1>3, <2>2, <3>4 DEF Rooted, Chained
  <2> QED
    BY <2>1, <2>2
<1>8. ASSUME NEW x \in Written \cup {n}
      PROVE  InLine(x, Written \cup {n}) /\ NewKey(x, Written \cup {n})
  <2>1. CASE x \in Written
    BY <1>6, <2>1 DEF LogInv, InLine, NewKey
  <2>2. CASE x = n
    <3>1. ~Before(n, n)
      BY <1>2 DEF Before
    <3>2. \A y \in Written : Before(y, n) => y = H \/ Before(y, H)
      BY <1>1, <1>2 DEF LogInv, Distinct, Before
    <3>3. InLine(H, Written)
      BY <1>1 DEF LogInv
    <3>4. InLine(n, Written \cup {n})
      BY <3>1, <3>2, <3>3 DEF InLine
    <3>5. NewKey(n, Written \cup {n})
      BY <3>1 DEF NewKey
    <3> QED
      BY <2>2, <3>4, <3>5
  <2> QED
    BY <2>1, <2>2
<1>9. \A x \in Written' : InLine(x, Written)' /\ NewKey(x, Written)'
  BY <1>4, <1>8 DEF InLine, NewKey, Before
<1> QED
  BY <1>3, <1>5, <1>7, <1>9 DEF LogInv

\* So does a merge.
LEMMA MergeInv ==
  ASSUME LogInv, NEW r \in Replicas, NEW q \in Replicas, Merge(r, q)
  PROVE  LogInv'
<1>1. /\ \A p \in Replicas : oplog'[p] = IF p = r THEN oplog[r] \cup oplog[q] ELSE oplog[p]
      /\ oplog' \in [Replicas -> SUBSET Op] /\ identity' = identity
  BY DEF Merge, LogInv
<1>2. Written' = Written
  BY <1>1 DEF Written
<1>3. Rooted(oplog[r] \cup oplog[q])
  BY CopyOK, RootedUnion
<1>4. \A p \in Replicas : Rooted(oplog[p])'
  BY <1>1, <1>3, CopyOK DEF Rooted, Chained
<1>5. Distinct(Written)' /\ \A x \in Written' : InLine(x, Written)' /\ NewKey(x, Written)'
  BY <1>2, Zenon DEF LogInv, Distinct, InLine, NewKey, Before
<1> QED
  BY <1>1, <1>4, <1>5 DEF LogInv

Draft == [hash : Nat, past : SUBSET (1 .. MaxOps), author : Principals, subject : Principals,
          action : {"admit", "remove", "revoke", "set_governance", "rebind"},
          role : {"owner", "editor", "viewer"}, invite : BOOLEAN, exp : Nat, gov : Nat]

\* An operation linked to the head of the copy of r.
Linked(o, r) ==
    /\ o.past = OplogHead(oplog[r]).past \cup {OplogHead(oplog[r]).hash}
    /\ o.exp = NoExpiry

\* What a handler builds is an operation but for its hash,
LEMMA UnsignedDraft ==
  ASSUME LogInv, NEW r \in Replicas, NEW s \in Principals,
         NEW action \in {"admit", "remove", "revoke", "set_governance", "rebind"}
  PROVE  LET o == Unsigned(r, action, s) IN
         o \in Draft /\ Linked(o, r) /\ o.action = action /\ o.subject = s /\ o.author = identity[r]
<1>1. OplogHead(oplog[r]) \in Op /\ identity[r] \in Principals
  BY CopyOK, HeadIn DEF Distinct, LogInv
<1>2. OplogHead(oplog[r]).past \cup {OplogHead(oplog[r]).hash} \in SUBSET (1 .. MaxOps)
  BY <1>1 DEF Op
<1> QED
  BY <1>1, <1>2 DEF Unsigned, Draft, Linked, NoExpiry

\* and signing it, if it signs as itself and rotates into a new key, keeps the
\* invariant.
LEMMA SignedInv ==
  ASSUME LogInv, NEW r \in Replicas, NEW o \in Draft, Linked(o, r),
         o.action = "rebind" => o.subject # o.author /\ \A y \in Written : y.author # o.subject,
         AppendSigned(r, o), identity' \in [Replicas -> Principals]
  PROVE  LogInv'
<1>1. PICK h \in 1 .. MaxOps \ {w.hash : w \in Written} :
         oplog' = [oplog EXCEPT ![r] = @ \cup {[o EXCEPT !.hash = h]}]
  BY Zenon DEF AppendSigned
<1> DEFINE n == [o EXCEPT !.hash = h]
<1>2. /\ n.hash = h /\ n.past = o.past /\ n.exp = o.exp /\ n.action = o.action
      /\ n.subject = o.subject /\ n.author = o.author
  BY DEF Draft
<1>3. n \in Op
  BY DEF Op, Draft
<1> HIDE DEF n
<1>4. oplog' = [oplog EXCEPT ![r] = @ \cup {n}]
  BY <1>1 DEF n
<1>5. /\ n.hash \notin {w.hash : w \in Written} /\ n.exp = NoExpiry
      /\ n.past = OplogHead(oplog[r]).past \cup {OplogHead(oplog[r]).hash}
      /\ n.action = "rebind" =>
           n.subject # n.author /\ \A y \in Written : y.author # n.subject
  BY <1>1, <1>2, Zenon DEF Linked
<1> QED
  BY Zenon, <1>3, <1>4, <1>5, AppendInv

\* kb/add_member keeps the invariant.
LEMMA AddInv ==
  ASSUME LogInv, NEW r \in Replicas, NEW i \in Invited, AddMember(r, i.subject, i.role)
  PROVE  LogInv'
<1> DEFINE u == Unsigned(r, "admit", i.subject)
           o == [u EXCEPT !.role = i.role]
<1>1. i.subject \in Principals /\ i.role \in {"owner", "editor", "viewer"}
  BY LogConstants
<1>2. u \in Draft /\ Linked(u, r) /\ u.action = "admit"
  BY <1>1, UnsignedDraft
<1>3. AppendSigned(r, o) /\ identity' = identity
  BY DEF AddMember, AppendAsOwner
<1> HIDE DEF u
<1>4. o \in Draft
  BY <1>1, <1>2 DEF Draft
<1>5. Linked(o, r) /\ o.action = "admit"
  BY <1>2, Zenon DEF Draft, Linked
<1> HIDE DEF o
<1> QED
  BY <1>3, <1>4, <1>5, SignedInv DEF LogInv

\* kb/remove_member keeps the invariant.
LEMMA RemoveInv ==
  ASSUME LogInv, NEW r \in Replicas, NEW s \in Principals, RemoveMember(r, s)
  PROVE  LogInv'
<1>1. AppendSigned(r, Unsigned(r, "remove", s)) /\ identity' = identity
  BY DEF RemoveMember, AppendAsOwner
<1> QED
  BY <1>1, UnsignedDraft, SignedInv DEF LogInv

\* kb/set_governance keeps the invariant.
LEMMA GovernanceInv ==
  ASSUME LogInv, NEW r \in Replicas, NEW m \in Thresholds, SetGovernance(r, m)
  PROVE  LogInv'
<1> DEFINE u == Unsigned(r, "set_governance", Owner)
           o == [u EXCEPT !.gov = m]
<1>1. m \in Nat /\ Owner \in Principals
  BY LogConstants
<1>2. u \in Draft /\ Linked(u, r) /\ u.action = "set_governance"
  BY <1>1, UnsignedDraft
<1>3. AppendSigned(r, o) /\ identity' = identity
  BY DEF SetGovernance, AppendAsOwner
<1> HIDE DEF u
<1>4. o \in Draft
  BY <1>1, <1>2 DEF Draft
<1>5. Linked(o, r) /\ o.action = "set_governance"
  BY <1>2, Zenon DEF Draft, Linked
<1> HIDE DEF o
<1> QED
  BY <1>3, <1>4, <1>5, SignedInv DEF LogInv

\* kb/revoke keeps the invariant.
LEMMA RevokeInv ==
  ASSUME LogInv, NEW r \in Replicas, Revoke(r)
  PROVE  LogInv'
<1>1. PICK s \in DOMAIN MembersOf(oplog[r]) : AppendSigned(r, Unsigned(r, "revoke", s))
  BY Zenon DEF Revoke
<1>2. s \in Principals /\ identity' = identity
  BY <1>1, CopyOK, DerivedArePrincipals, Zenon DEF Revoke
<1> QED
  BY <1>1, <1>2, UnsignedDraft, SignedInv DEF LogInv

\* A rotation keeps the invariant.
LEMMA RebindInv ==
  ASSUME LogInv, NEW r \in Replicas, NEW s \in Principals, Rebind(r, s)
  PROVE  LogInv'
<1>1. /\ AppendSigned(r, Unsigned(r, "rebind", s))
      /\ s # identity[r] /\ \A y \in Written : y.author # s
      /\ identity' = [identity EXCEPT ![r] = s]
  BY DEF Rebind
<1>2. identity' \in [Replicas -> Principals]
  BY <1>1 DEF LogInv
<1> QED
  BY <1>1, <1>2, UnsignedDraft, SignedInv

\* The founding log satisfies the invariant.
LEMMA InitInv == Init => LogInv
<1> SUFFICES ASSUME Init
             PROVE  LogInv
  OBVIOUS
<1> DEFINE N == Len(Founders)
           AdmitOp(i, s, role) ==
             [hash |-> i, past |-> 1 .. i - 1, author |-> Owner, subject |-> s,
              action |-> "admit", role |-> role, invite |-> i = 1, exp |-> NoExpiry, gov |-> 0]
           Roles == {"owner", "editor", "viewer"}
           F == [subject : Principals \ {Owner}, role : Roles]
           At(x, i) == /\ x \in Op /\ x.hash = i /\ x.past = 1 .. i - 1
                       /\ x.exp = NoExpiry /\ x.action = "admit"
           G == AdmitOp(1, Owner, "owner")
           Admitted(i) == AdmitOp(i + 1, Founders[i].subject, Founders[i].role)
<1>1. N \in Nat /\ MaxOps \in Nat /\ MaxOps > N /\ DOMAIN Founders = 1 .. N
  BY LogConstants
<1>2. \A i \in 1 .. N : Founders[i].subject \in Principals /\ Founders[i].role \in Roles
  <2>1. Founders \in Seq(F)
    BY LogConstants
  <2>2. \A i \in 1 .. N : Founders[i] \in F
    <3> HIDE DEF F
    <3> QED
      BY <1>1, <2>1
  <2> QED
    BY <2>2
<1>3. Founding = {G} \cup {Admitted(i) : i \in 1 .. N}
  BY <1>1, Zenon DEF Founding
<1>4. ASSUME NEW i \in 1 .. N + 1, NEW s \in Principals, NEW role \in Roles
      PROVE  At(AdmitOp(i, s, role), i)
  <2>1. i \in 1 .. MaxOps /\ 1 .. i - 1 \in SUBSET (1 .. MaxOps) /\ (i = 1) \in BOOLEAN
    BY <1>1
  <2> QED
    BY <2>1, LogConstants DEF Op, NoExpiry
<1>5. \A i \in 1 .. N : i + 1 \in 1 .. N + 1
  BY <1>1
<1>6. At(G, 1) /\ IsGenesis(G)
  <2>1. 1 \in 1 .. N + 1 /\ 1 .. 1 - 1 = {}
    BY <1>1
  <2> QED
    BY <1>4, <2>1, LogConstants, Zenon DEF IsGenesis
<1>7. \A i \in 1 .. N : At(Admitted(i), i + 1)
  BY <1>2, <1>4, <1>5, Zenon
<1> HIDE DEF Admitted, G, AdmitOp
<1>8. \A x \in Founding : x = G \/ \E i \in 1 .. N : x = Admitted(i)
  BY <1>3
<1>9. \A x \in Founding : \E i \in 1 .. N + 1 : At(x, i)
  <2>1. 1 \in 1 .. N + 1
    BY <1>1
  <2> HIDE DEF At, N
  <2> QED
    BY Zenon, <1>5, <1>6, <1>7, <1>8, <2>1
<1>10. \A i \in 1 .. N + 1 : \E x \in Founding : At(x, i)
  <2> SUFFICES ASSUME NEW i \in 1 .. N + 1
               PROVE  \E x \in Founding : At(x, i)
    OBVIOUS
  <2>1. CASE i = 1
    BY <1>3, <1>6, <2>1
  <2>2. CASE i # 1
    <3>1. i - 1 \in 1 .. N /\ (i - 1) + 1 = i
      BY <1>1, <2>2
    <3>2. Admitted(i - 1) \in Founding
      BY <1>3, <3>1
    <3> HIDE DEF At, N
    <3> QED
      BY <1>7, <3>1, <3>2
  <2> QED
    BY <2>1, <2>2
<1>11. Distinct(Founding)
  <2>1. \A x, y \in Founding : x.hash = y.hash => x = y
    <3>1. G.hash = 1 /\ \A i \in 1 .. N : Admitted(i).hash = i + 1
      BY <1>6, <1>7
    <3> HIDE DEF At
    <3> QED
      BY <1>1, <1>8, <3>1
  <2>2. Founding \subseteq Op
    BY <1>9
  <2> QED
    BY <2>1, <2>2 DEF Distinct
<1>12. Rooted(Founding)
  <2>1. \E x \in Founding : IsGenesis(x)
    BY <1>3, <1>6
  <2> SUFFICES ASSUME NEW x \in Founding
               PROVE  Chained(x, Founding) /\ x.exp = NoExpiry
    BY <2>1 DEF Rooted
  <2>2. PICK i \in 1 .. N + 1 : At(x, i)
    BY <1>9
  <2>3. \A h \in x.past : h \in 1 .. N + 1 /\ 1 .. h - 1 \subseteq x.past
    BY <1>1, <2>2
  <2>4. \A h \in x.past : \E y \in Founding : y.hash = h /\ y.past \subseteq x.past
    BY <1>10, <2>3
  <2>5. x.hash = 1 \/ 1 \in x.past
    BY <1>1, <2>2
  <2> QED
    BY <1>1, <2>2, <2>4, <2>5 DEF Chained
<1>13. (\A r \in Replicas : oplog[r] = Founding) /\ Written = Founding
  BY LogConstants DEF Init, Written
<1>14. \A x \in Founding : InLine(x, Founding) /\ NewKey(x, Founding)
  <2>1. \A x \in Founding : x.hash \in 1 .. N + 1 /\ x.past = 1 .. x.hash - 1 /\ x.action = "admit"
    BY <1>9
  <2>2. \A x, y \in Founding : x = y \/ Before(x, y) \/ Before(y, x)
    <3>1. \A x, y \in Founding : x.hash # y.hash => x.hash \in 1 .. y.hash - 1 \/ y.hash \in 1 .. x.hash - 1
      BY <1>1, <2>1
    <3> QED
      BY Zenon, <1>11, <2>1, <3>1 DEF Before, Distinct
  <2> QED
    BY <2>1, <2>2 DEF InLine, NewKey
<1>15. oplog \in [Replicas -> SUBSET Op] /\ identity \in [Replicas -> Principals]
  BY <1>11, LogConstants DEF Init, Distinct
<1> QED
  BY <1>11, <1>12, <1>13, <1>14, <1>15 DEF LogInv

\* Every step keeps the invariant.
LEMMA NextInv == LogInv /\ [Next]_vars => LogInv'
<1> SUFFICES ASSUME LogInv, [Next]_vars
             PROVE  LogInv'
  OBVIOUS
<1>1. CASE UNCHANGED vars
  BY <1>1 DEF vars, LogInv, Written, Distinct, Rooted, Chained, InLine, NewKey, Before
<1>2. ASSUME NEW r \in Replicas, NEW i \in Invited, AddMember(r, i.subject, i.role)
      PROVE  LogInv'
  BY <1>2, AddInv
<1>3. ASSUME NEW r \in Replicas, NEW s \in Principals, RemoveMember(r, s)
      PROVE  LogInv'
  BY <1>3, RemoveInv
<1>4. ASSUME NEW r \in Replicas, Revoke(r)
      PROVE  LogInv'
  BY <1>4, RevokeInv
<1>5. ASSUME NEW r \in Replicas, NEW s \in Principals, Rebind(r, s)
      PROVE  LogInv'
  BY <1>5, RebindInv
<1>6. ASSUME NEW r \in Replicas, NEW m \in Thresholds, SetGovernance(r, m)
      PROVE  LogInv'
  BY <1>6, GovernanceInv
<1>7. ASSUME NEW r \in Replicas, NEW q \in Replicas, Merge(r, q)
      PROVE  LogInv'
  BY <1>7, MergeInv
<1> QED
  BY Zenon, <1>1, <1>2, <1>3, <1>4, <1>5, <1>6, <1>7 DEF Next

\* The inductive invariant of the log.
LEMMA LogInvariant == Spec => []LogInv
<1> QED
  BY InitInv, NextInv, PTL DEF Spec

\* It speaks of the copies that are watched.
LEMMA CopiesOK ==
  ASSUME LogInv, NEW ops \in Copies
  PROVE  Distinct(ops) /\ Rooted(ops)
BY CopyOK, LogConstants DEF Copies

\* Every replica's copy is well formed, one operation per hash, and connected
\* to the genesis, whatever is appended and merged.
THEOREM LogTypeCorrect == Spec => []LogTypeOK
<1>1. LogInv => LogTypeOK
  BY CopiesOK, AllConnected DEF LogInv, LogTypeOK, Distinct
<1> QED
  BY <1>1, LogInvariant, PTL

--------------------------------------------------------------------------------
(***************************************************************************)
(* Who stays in.                                                           *)
(***************************************************************************)
LEMMA GovernanceType ==
  ASSUME NEW ops, Distinct(ops), Rooted(ops)
  PROVE  GovernanceOf(ops) \in Nat
<1> DEFINE rules == {o \in CausalOrder(ops, Owner) : /\ o.action = "set_governance"
                                                     /\ o.author \in OwnerChain(ops, Owner)}
<1>1. GovernanceOf(ops) = IF rules = {} THEN SingleOwner ELSE Latest(rules).gov
  BY DEF GovernanceOf, DeriveGovernance
<1>2. Distinct(rules)
  BY DEF Distinct, CausalOrder
<1> HIDE DEF rules
<1>3. CASE rules = {}
  BY <1>1, <1>3 DEF SingleOwner
<1>4. CASE rules # {}
  <2>1. Latest(rules) \in rules
    BY <1>2, <1>4, LatestIsLatest DEF IsLatest
  <2> QED
    BY <1>1, <1>2, <1>4, <2>1 DEF Distinct, Op
<1> QED
  BY <1>3, <1>4

Removers(ops, p) == {o.author : o \in {x \in ops : IsRemoval(x) /\ x.subject = p}}

\* The authors of the removals in a copy can be counted.
LEMMA RemoversFinite ==
  ASSUME NEW ops, IsFiniteSet(ops), NEW p
  PROVE  IsFiniteSet(Removers(ops, p))
<1> DEFINE R == {x \in ops : IsRemoval(x) /\ x.subject = p}
           f == [x \in R |-> x.author]
<1>1. IsFiniteSet(R)
  BY FS_Subset
<1>2. f \in Surjection(R, Removers(ops, p))
  BY DEF Surjection, Removers
<1> HIDE DEF R, f
<1> QED
  BY <1>1, <1>2, FS_Surjection

\* effective_removal: no removal takes effect before enough different authors signed one.
LEMMA EffectiveNeedsQuorum ==
  ASSUME NEW ops, IsFiniteSet(ops), NEW valid \in SUBSET ops, NEW p,
         NEW gov \in Nat, gov # SingleOwner, EffectiveRemoval(p, gov, valid) # {}
  PROVE  Cardinality(Removers(ops, p)) >= gov
<1> DEFINE removals == {o \in valid : IsRemoval(o) /\ o.subject = p}
           Authors(x) == {o.author : o \in {y \in removals : y = x \/ Earlier(y, x)}}
           enough == {x \in removals : Cardinality(Authors(x)) >= Needed(gov)}
<1>1. enough # {}
  <2>1. EffectiveRemoval(p, gov, valid) = IF enough = {} THEN {} ELSE {Earliest(enough)}
    BY DEF EffectiveRemoval
  <2> HIDE DEF enough
  <2> QED
    BY <2>1, Zenon
<1>2. PICK x \in removals : Cardinality(Authors(x)) >= Needed(gov)
  BY <1>1, Zenon
<1>3. Authors(x) \in SUBSET Removers(ops, p)
  BY DEF Removers
<1>4. Needed(gov) = gov
  BY DEF Needed
<1> HIDE DEF Authors, removals, enough
<1>5. IsFiniteSet(Removers(ops, p)) /\ IsFiniteSet(Authors(x))
  BY <1>3, RemoversFinite, FS_Subset
<1>6. /\ Cardinality(Authors(x)) <= Cardinality(Removers(ops, p))
      /\ Cardinality(Authors(x)) \in Nat /\ Cardinality(Removers(ops, p)) \in Nat
  BY <1>3, <1>5, FS_Subset, FS_CardinalityType, Zenon
<1> QED
  BY <1>2, <1>4, <1>6

\* A principal that is seated and never rotates is a member.
LEMMA SeatedStays ==
  ASSUME NEW valid, Distinct(valid), NEW gov, NEW now, NEW x \in Seats(gov, now, valid),
         \A y \in valid : y.action = "rebind" => y.author # x.subject
  PROVE  x.subject \in DOMAIN BuildMembers(gov, now, valid)
<1> DEFINE S == {y \in valid : y.action = "rebind"}
           seated == Seated(gov, now, valid)
           p == x.subject
           M == {D \in SUBSET Principals : p \in D}
<1>1. Distinct(S)
  BY DEF Distinct
<1>2. Seats(gov, now, valid) \subseteq valid /\ \A y \in valid : y.subject \in Principals
  BY DEF Seats, Distinct, Op
<1>3. DOMAIN seated \in M
  <2>1. DOMAIN seated = {y.subject : y \in Seats(gov, now, valid)}
    BY SeatedDomain, Zenon
  <2> QED
    BY <1>2, <2>1
<1>4. \A D \in M, y \in S : RotateKeys(D, y.author, y.subject) \in M
  BY <1>2 DEF RotateKeys
<1>5. BuildMembers(gov, now, valid) = Rotations(seated, S)[S]
  BY DEF BuildMembers
<1> HIDE DEF S, seated, M
<1>6. DOMAIN Rotations(seated, S)[S] \in M
  BY Zenon, <1>1, <1>3, <1>4, RotationsKeep
<1> QED
  BY <1>5, <1>6 DEF M

\* What is valid in a copy is the outcome of a pass over it.
LEMMA ValidIsPass ==
  ASSUME NEW ops, Distinct(ops), Rooted(ops)
  PROVE  \E v \in SUBSET ops : ValidIn(ops) = Pass(ops, Owner, GovernanceOf(ops), 0, v)
BY ValidInCopy, DistinctFinite, ValidOpsIsPass

\* Under a quorum of m a principal with a valid admit is taken out only by m
\* different signing keys, whatever the numbers of operations, replicas and
\* principals (effective_removal, and a rotation that touches no seat but its
\* author's).  An admin who rotated counts once for each key.
THEOREM QuorumAlwaysProtects == Spec => []QuorumProtects
<1>1. ASSUME LogInv, NEW ops \in Copies, GovernanceOf(ops) # SingleOwner,
             NEW x \in ValidIn(ops), x.action = "admit",
             x.subject \notin DOMAIN MembersOf(ops),
             ~ \E y \in ops : y.action = "rebind" /\ y.author = x.subject
      PROVE  Cardinality(Removers(ops, x.subject)) >= GovernanceOf(ops)
  <2> DEFINE gov == GovernanceOf(ops)
             valid == ValidIn(ops)
  <2>1. Distinct(ops) /\ Rooted(ops) /\ IsFiniteSet(ops)
    BY <1>1, CopiesOK, DistinctFinite, Zenon
  <2>2. gov \in Nat /\ gov # SingleOwner
    BY <1>1, <2>1, GovernanceType, Zenon
  <2>3. /\ valid \in SUBSET ops /\ Distinct(valid) /\ x \in valid
        /\ x.subject \notin DOMAIN BuildMembers(gov, 0, valid)
    BY <1>1, <2>1, ValidInCopy, Zenon
  <2> HIDE DEF gov, valid
  <2>4. x \notin Seats(gov, 0, valid)
    BY <1>1, <2>3, SeatedStays, Zenon
  <2>5. ~Expired(x, 0)
    BY <2>1, <2>3, Unexpired, Zenon
  <2>6. EffectiveRemoval(x.subject, gov, valid) # {}
    BY <1>1, <2>3, <2>4, <2>5, Zenon DEF Seats
  <2> QED
    BY <2>1, <2>2, <2>3, <2>6, EffectiveNeedsQuorum, Zenon DEF gov
<1>2. LogInv => QuorumProtects
  BY <1>1 DEF QuorumProtects, Removers
<1> QED
  BY <1>2, LogInvariant, PTL

\* authorized refuses every removal of the owner under single-owner governance.
LEMMA OwnerNotRemoved ==
  ASSUME NEW ops, NEW v, NEW x \in Pass(ops, Owner, SingleOwner, 0, v), IsRemoval(x)
  PROVE  x.subject # Owner
<1>1. x \notin Genesis(ops, Owner)
  BY DEF Genesis, IsRemoval
<1>2. PICK members : Authorized(members, x, Owner, SingleOwner)
  BY Zenon, <1>1 DEF Pass
<1>3. x.action \in {"remove", "revoke"}
  BY DEF IsRemoval
<1> QED
  BY <1>2, <1>3, Zenon DEF Authorized, IsRemoval

\* If the owner's admit seats it, an identity of the owner is a member.
LEMMA OwnerIdentityKept ==
  ASSUME NEW ops, Distinct(ops), Rooted(ops), NEW valid \in SUBSET ops, NEW gov, NEW now,
         NEW g \in Seats(gov, now, valid), g.subject = Owner
  PROVE  OwnerChain(ops, Owner) \cap DOMAIN BuildMembers(gov, now, valid) # {}
<1> DEFINE S == {y \in valid : y.action = "rebind"}
           seated == Seated(gov, now, valid)
           K == OwnerChain(ops, Owner)
           M == {D \in SUBSET Principals : K \cap D # {}}
<1>1. Distinct(S) /\ S \subseteq ops
  BY DEF Distinct
<1>2. Seats(gov, now, valid) \subseteq valid /\ \A y \in valid : y.subject \in Principals
  BY DEF Seats, Distinct, Op
<1>3. Owner \in K /\ Closed(ops, K)
  BY DistinctFinite, OwnerChainClosed, Zenon
<1> HIDE DEF K
<1>4. DOMAIN seated \in M
  <2>1. DOMAIN seated = {y.subject : y \in Seats(gov, now, valid)}
    BY SeatedDomain, Zenon
  <2>2. Owner \in DOMAIN seated
    BY <2>1
  <2> QED
    BY <1>2, <1>3, <2>1, <2>2
<1>5. \A D \in M, y \in S : RotateKeys(D, y.author, y.subject) \in M
  <2> SUFFICES ASSUME NEW D \in M, NEW y \in S
               PROVE  RotateKeys(D, y.author, y.subject) \in M
    OBVIOUS
  <2>1. PICK k \in K : k \in D
    OBVIOUS
  <2>2. CASE y.author = k
    <3>1. y.subject \in K
      BY <1>1, <1>3, <2>1, <2>2, Zenon DEF Closed, Heirs
    <3> QED
      BY <1>2, <2>1, <2>2, <3>1, Zenon DEF RotateKeys
  <2>3. CASE y.author # k
    BY <1>2, <2>1, <2>3, Zenon DEF RotateKeys
  <2> QED
    BY <2>2, <2>3
<1>6. BuildMembers(gov, now, valid) = Rotations(seated, S)[S]
  BY DEF BuildMembers
<1> HIDE DEF S, seated, M
<1>7. DOMAIN Rotations(seated, S)[S] \in M
  BY Zenon, <1>1, <1>4, <1>5, RotationsKeep
<1> QED
  BY <1>6, <1>7 DEF M, K

\* Under single-owner governance an identity of the owner is a member at every
\* replica, whatever anyone signs and in whatever order it arrives.
THEOREM OwnerAlwaysStays == Spec => []OwnerStays
<1>1. ASSUME LogInv, NEW ops \in Copies, GovernanceOf(ops) = SingleOwner
      PROVE  OwnerChain(ops, Owner) \cap DOMAIN MembersOf(ops) # {}
  <2> DEFINE valid == ValidIn(ops)
  <2>1. Distinct(ops) /\ Rooted(ops)
    BY <1>1, CopiesOK
  <2>2. PICK v \in SUBSET ops : valid = Pass(ops, Owner, SingleOwner, 0, v)
    BY <1>1, <2>1, ValidIsPass, Zenon
  <2>3. /\ valid \in SUBSET ops
        /\ DOMAIN MembersOf(ops) = DOMAIN BuildMembers(SingleOwner, 0, valid)
    BY <1>1, <2>1, ValidInCopy
  <2> HIDE DEF valid
  <2>4. PICK g \in ops : IsGenesis(g)
    BY <2>1 DEF Rooted
  <2>5. ~Expired(g, 0)
    BY <2>1, Unexpired, Zenon
  <2>6. g \in valid /\ g.action = "admit" /\ g.subject = Owner
    BY <2>2, <2>4, <2>5, Zenon DEF Pass, Genesis, IsGenesis
  <2>7. EffectiveRemoval(Owner, SingleOwner, valid) = {}
    <3>1. {o \in valid : IsRemoval(o) /\ o.subject = Owner} = {}
      BY <2>2, OwnerNotRemoved
    <3> QED
      BY <3>1 DEF EffectiveRemoval
  <2>8. g \in Seats(SingleOwner, 0, valid)
    BY <2>5, <2>6, <2>7 DEF Seats
  <2> QED
    BY <2>1, <2>3, <2>6, <2>8, OwnerIdentityKept
<1>2. LogInv => OwnerStays
  BY <1>1 DEF OwnerStays
<1> QED
  BY <1>2, LogInvariant, PTL

--------------------------------------------------------------------------------
(***************************************************************************)
(* Who stays out.                                                          *)
(***************************************************************************)
\* After its rotation is replayed a key has no seat, if the rotations into it
\* come before.
LEMMA RotatedAway ==
  ASSUME NEW valid, Distinct(valid), NEW gov, NEW now,
         NEW y \in valid, y.action = "rebind", y.subject # y.author,
         \A z \in valid : z.action = "rebind" /\ z.subject = y.author => Earlier(z, y)
  PROVE  y.author \notin DOMAIN BuildMembers(gov, now, valid)
<1> DEFINE S == {z \in valid : z.action = "rebind"}
           seated == Seated(gov, now, valid)
           f == Rotations(seated, S)
           k == y.author
           C == {R \in SUBSET S : y \in R /\ k \in DOMAIN f[R]}
<1>1. Distinct(S) /\ y \in S
  BY DEF Distinct
<1>2. BuildMembers(gov, now, valid) = f[S]
  BY DEF BuildMembers
<1>3. \A z \in S : z.subject = k => Earlier(z, y)
  OBVIOUS
<1> HIDE DEF S, seated
<1>4. \A R \in SUBSET S : R # {} =>
        f[R] = Rotate(f[R \ {Latest(R)}], Latest(R).author, Latest(R).subject)
  BY Zenon, <1>1, RotationStep
<1> HIDE DEF f
<1>5. C = {}
  <2> SUFFICES ASSUME C # {}
               PROVE  FALSE
    OBVIOUS
  <2>1. C \in SUBSET (SUBSET S) /\ IsFiniteSet(S)
    BY <1>1, DistinctFinite
  <2>2. HasMinimal(C)
    <3> HIDE DEF C
    <3> QED
      BY Zenon, <2>1, MinimalSubset
  <2>3. PICK R \in C : \A U \in C : ~(U \subseteq R /\ U # R)
    BY Zenon, <2>2 DEF HasMinimal
  <2>4. R \in SUBSET S /\ y \in R /\ k \in DOMAIN f[R]
    OBVIOUS
  <2> DEFINE last == Latest(R)
  <2>5. IsLatest(last, R) /\ last \in S /\ last \in Op /\ y \in Op
    <3>1. Distinct(R)
      BY <1>1, <2>4, Zenon DEF Distinct
    <3> QED
      BY <2>4, <3>1, LatestIsLatest, Zenon DEF IsLatest, Distinct
  <2>6. DOMAIN f[R] = RotateKeys(DOMAIN f[R \ {last}], last.author, last.subject)
    <3>1. f[R] = Rotate(f[R \ {last}], last.author, last.subject)
      BY <1>4, <2>4, Zenon
    <3> QED
      BY <3>1, RotateDomain
  <2> HIDE DEF last
  <2>7. CASE last = y
    BY <2>4, <2>6, <2>7, Zenon DEF RotateKeys
  <2>8. CASE last # y
    <3>1. Earlier(y, last)
      BY <2>4, <2>5, <2>8, Zenon DEF IsLatest
    <3>2. last.subject # k
      BY <1>3, <2>5, <3>1, EarlierOrder, Zenon
    <3>3. R \ {last} \notin C
      <4>1. R \ {last} \subseteq R /\ R \ {last} # R
        BY <2>5 DEF IsLatest
      <4> HIDE DEF C
      <4> QED
        BY <2>3, <4>1
    <3>4. k \notin DOMAIN f[R \ {last}]
      BY <2>4, <2>8, <3>3, Zenon
    <3> QED
      BY <2>4, <2>6, <3>2, <3>4 DEF RotateKeys
  <2> QED
    BY <2>7, <2>8, Zenon
<1> QED
  BY <1>1, <1>2, <1>5

\* Where the resolver has come to rest, no operation that a key signs after its
\* own rotation counts, even if that key was admitted again (build_members).
THEOREM RetiredAlwaysOut == Spec => []RetiredStaysOut
<1>1. ASSUME LogInv, NEW ops \in Copies, Settled(ops),
             NEW y \in ValidIn(ops), NEW x \in ValidIn(ops),
             y.action = "rebind", Before(y, x), x.author = y.author
      PROVE  FALSE
  <2> DEFINE gov == GovernanceOf(ops)
             valid == ValidIn(ops)
             past == {z \in valid : Before(z, x)}
  <2>1. Distinct(ops) /\ Rooted(ops) /\ ops \subseteq Written
    BY <1>1, CopiesOK, CopyOK, LogConstants, Zenon DEF Copies
  <2>2. valid \subseteq ops /\ Distinct(valid) /\ x \in valid /\ y \in valid
    BY <1>1, <2>1, ValidInCopy, Zenon
  <2>3. valid = Pass(ops, Owner, gov, 0, valid)
    BY <1>1, <2>1, AllConnected, Zenon DEF Settled
  <2> HIDE DEF gov, valid
  <2>4. x \notin Genesis(ops, Owner)
    BY <1>1 DEF Genesis, Before
  <2>5. Authorized(BuildMembers(gov, 0, past), x, Owner, gov)
    BY <2>2, <2>3, <2>4, Zenon DEF Pass
  <2>6. y.author \in DOMAIN BuildMembers(gov, 0, past)
    BY <1>1, <2>5 DEF Authorized
  <2>7. Distinct(past) /\ y \in past
    BY <1>1, <2>2, Zenon DEF Distinct
  <2>8. y.subject # y.author
    BY <1>1, <2>1, <2>2 DEF LogInv, NewKey
  <2>9. ASSUME NEW z \in past, z.action = "rebind", z.subject = y.author
        PROVE  Earlier(z, y)
    <3>1. z \in ops /\ y \in ops /\ x \in Written /\ z \in Written /\ y \in Written
      BY <2>1, <2>2, Zenon
    <3>2. z = y \/ Before(y, z) \/ Before(z, y)
      BY <1>1, <3>1, Zenon DEF LogInv, InLine
    <3>3. z # y
      BY <2>8, <2>9, Zenon
    <3>4. ~Before(y, z)
      BY <1>1, <2>9, <3>1 DEF LogInv, NewKey
    <3> QED
      BY <2>1, <3>1, <3>2, <3>3, <3>4, BeforeIsEarlier, Zenon
  <2> HIDE DEF past
  <2> QED
    BY <1>1, <2>6, <2>7, <2>8, <2>9, RotatedAway, Zenon
<1>2. LogInv => RetiredStaysOut
  BY <1>1 DEF RetiredStaysOut
<1> QED
  BY <1>2, LogInvariant, PTL

================================================================================
