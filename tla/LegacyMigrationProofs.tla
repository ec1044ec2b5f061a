------------------------- MODULE LegacyMigrationProofs -------------------------
(***************************************************************************)
(* ContentSurvives, AmbiguousTouchesNothing and GoesToItsKb for any KBs,   *)
(* nodes and updates, and any number of crashes and edits.                 *)
(***************************************************************************)
EXTENDS LegacyMigration, FiniteSetTheorems, TLAPS

Content == [snap : SUBSET Updates, wal : SUBSET Updates]

\* While a node's legacy document is there and was not left behind, it still holds
\* everything: the new document can be cleared.  What is about to be removed has
\* been written.
CopyFirst ==
    /\ \A n \in Nodes \ behind : Exists(Legacy(n)) => held[n] \subseteq Load(Legacy(n))
    /\ pc \in {"clear", "write", "remove"}
         => copy = Load(Legacy(node)) /\ copy # {}
    /\ pc = "remove" => copy \subseteq Load(Destination)

\* What is planned has a legacy document, had one when the start began, and has an
\* owner among the manifests read.
PlanOwned ==
    /\ \A n \in plan : Exists(Legacy(n))
    /\ node \notin plan
    /\ \A n \in plan \cup ({node} \cap Nodes) :
         Owners(n, seen) # {} /\ found[Legacy(n)] # Absent

\* A start that went on met no ambiguous node, one that refused wrote nothing.
HaltsOrClear ==
    /\ found \in [Docs -> Content]
    /\ pc = "refused" => disk = found
    /\ pc \in {"next", "clear", "write", "remove"} =>
         \A n \in Nodes : found[Legacy(n)] # Absent => ~ (Cardinality(Owners(n, seen)) > 1)

MigrationInv ==
    /\ MigrationTypeOK /\ CopyFirst /\ PlanOwned /\ HaltsOrClear
    /\ ContentSurvives

--------------------------------------------------------------------------------
LEMMA LegacyAddress ==
    ASSUME NEW n \in Nodes, NEW m \in Nodes
    PROVE  Legacy(n) \in Docs /\ (Legacy(n) = Legacy(m) => n = m)
  BY DEF Legacy, Docs

\* Addresses of the two kinds never meet.
LEMMA Addresses ==
    ASSUME NEW n \in Nodes, NEW m \in Nodes, NEW k \in Kbs, NEW j \in Kbs
    PROVE  /\ Scoped(k, n) \in Docs
           /\ Legacy(n) # Scoped(k, m)
           /\ Scoped(k, n) = Scoped(j, m) => k = j /\ n = m
  BY DEF Legacy, Scoped, Docs

LEMMA EmptyIsAbsent ==
    ASSUME NEW c \in Content, c.snap \cup c.wal = {}
    PROVE  c = Absent
  BY DEF Content, Absent

\* A deletion, whole or half, and an append change one document.
LEMMA DiskStep ==
    ASSUME disk \in [Docs -> Content], NEW d \in Docs, NEW c \in SUBSET Updates,
           \/ disk' = [disk EXCEPT ![d] = Absent]
           \/ disk' = [disk EXCEPT ![d].snap = {}]
           \/ disk' = [disk EXCEPT ![d].wal = @ \cup c]
    PROVE  /\ disk' \in [Docs -> Content]
           /\ \A e \in Docs \ {d} : disk'[e] = disk[e]
  BY DEF Content, Absent

\* ... so what the others hold stays.
LEMMA LoadStep ==
    ASSUME disk \in [Docs -> Content], NEW d \in Docs, NEW c \in SUBSET Updates
    PROVE  /\ disk' = [disk EXCEPT ![d] = Absent] => Load(d)' = {}
           /\ disk' = [disk EXCEPT ![d].snap = {}] => Load(d)' \subseteq Load(d)
           /\ disk' = [disk EXCEPT ![d].wal = @ \cup c] => Load(d)' = Load(d) \cup c
           /\ \A e \in Docs : disk'[e] = disk[e] => Load(e)' = Load(e)
  BY DEF Content, Absent, Load

\* The address a node is copied to is that of the one KB that lists it.
LEMMA DestinationOwned ==
    ASSUME MigrationInv, node \in Nodes
    PROVE  \E k \in Kbs : Destination = Scoped(k, node) /\ Owners(node, seen) = {k}
<1>1. Owners(node, seen) # {} /\ found[Legacy(node)] # Absent
  BY Zenon DEF MigrationInv, PlanOwned
<1>2. pc \in {"clear", "write", "remove"} /\ seen \subseteq Kbs
  BY DEF MigrationInv, MigrationTypeOK
<1>3. ~ (Cardinality(Owners(node, seen)) > 1)
  BY <1>1, <1>2 DEF MigrationInv, HaltsOrClear
<1>4. Owners(node, seen) \subseteq Kbs /\ IsFiniteSet(Kbs)
  BY <1>2, MigrationAssumption DEF Owners
<1>5. IsFiniteSet(Owners(node, seen))
  BY <1>4, FS_Subset
<1>6. Cardinality(Owners(node, seen)) \in Nat /\ Cardinality(Owners(node, seen)) # 0
  BY <1>1, <1>5, FS_CardinalityType, FS_EmptySet
<1>7. Cardinality(Owners(node, seen)) = 1
  BY <1>3, <1>6
<1>8. PICK k : Owners(node, seen) = {k}
  BY <1>5, <1>7, FS_Singleton
<1>9. k \in seen /\ node \in lists[k] /\ k \in Kbs
  BY <1>2, <1>8 DEF Owners
<1>10. \A j \in seen : node \in lists[j] => j = k
  BY <1>8 DEF Owners
<1>11. (CHOOSE j \in seen : node \in lists[j]) = k
  BY <1>9, <1>10
<1> QED  BY <1>8, <1>9, <1>11, Zenon DEF Destination

--------------------------------------------------------------------------------
LEMMA InitInv == Init => MigrationInv
<1> SUFFICES ASSUME Init PROVE MigrationInv
  OBVIOUS
<1>1. PICK first \in [Nodes -> Content] :
        disk = [d \in Docs |-> IF d[1] = "kb" THEN first[d[2]] ELSE Absent]
  BY DEF Init, Content
<1>2. \A n \in Nodes : disk[Legacy(n)] = first[n]
  BY <1>1, LegacyAddress DEF Legacy
<1>3. \A n \in Nodes, k \in Kbs : disk[Scoped(k, n)] = Absent
  BY <1>1, Addresses DEF Scoped
<1>4. disk \in [Docs -> Content]
  <2>1. \A d \in Docs : disk[d] \in Content
    <3>1. Absent \in Content
      BY DEF Absent, Content
    <3>2. TAKE d \in Docs
    <3>3. CASE \E n \in Nodes : d = Legacy(n)
      BY <1>2, <3>3
    <3>4. CASE \E k \in Kbs, n \in Nodes : d = Scoped(k, n)
      BY <1>3, <3>1, <3>4
    <3> QED  BY <3>3, <3>4 DEF Docs
  <2> QED  BY <1>1, <2>1
<1>5. MigrationTypeOK
  <2>1. held \in [Nodes -> SUBSET Updates]
    BY <1>4, LegacyAddress DEF Init, Load, Content
  <2> QED  BY <1>4, <2>1, MigrationAssumption DEF Init, MigrationTypeOK, Content
<1>6. CopyFirst /\ PlanOwned /\ ContentSurvives
  BY MigrationAssumption DEF Init, CopyFirst, PlanOwned, ContentSurvives, Found
<1>7. HaltsOrClear
  BY DEF Init, HaltsOrClear, Nothing, Absent, Content
<1> QED  BY <1>5, <1>6, <1>7 DEF MigrationInv

--------------------------------------------------------------------------------
\* Steps that leave the disk alone.
LEMMA QuietStep ==
    ASSUME MigrationInv,
           \/ Plan \/ SkipMigration \/ Read \/ Serve \/ Crash
           \/ pc = "write" /\ disk' = disk /\ GoOn("next") /\ behind' = behind
           \/ pc = "clear" /\ disk' = disk /\ GoOn("write") /\ behind' = behind
           \/ pc = "remove" /\ disk' = disk /\ GoOn("next") /\ behind' = behind
           \/ UNCHANGED vars
    PROVE  MigrationInv'
<1> USE DEF MigrationInv
<1>1. /\ disk' = disk /\ lists' = lists /\ held' = held /\ behind' = behind
      /\ edits' = edits
  BY DEF Plan, SkipMigration, Read, Serve, Crash, GoOn, vars, local
<1>2. /\ \A d : Load(d)' = Load(d) /\ Exists(d)' = Exists(d)
      /\ \A n, ks : Owners(n, ks)' = Owners(n, ks)
      /\ LegacyNodes' = LegacyNodes
  BY <1>1 DEF Load, Exists, Owners, LegacyNodes
<1>3. MigrationTypeOK'
  <2>1. CASE Read
    BY <1>1, <2>1, MigrationAssumption, LegacyAddress DEF MigrationTypeOK, Read, Load
  <2> QED
    BY <1>1, <2>1, MigrationAssumption
    DEF MigrationTypeOK, Plan, SkipMigration, Serve, Crash, GoOn, vars, local, LegacyNodes
<1>4. CopyFirst'
  <2>1. CASE Read
    BY <1>1, <1>2, <2>1 DEF CopyFirst, PlanOwned, Read, Exists
  <2>2. CASE UNCHANGED vars
    <3>1. Destination' = Destination
      BY <2>2 DEF vars, local, Destination
    <3> QED  BY <1>1, <1>2, <2>2, <3>1 DEF CopyFirst, vars, local
  <2>3. CASE pc = "clear" /\ disk' = disk /\ GoOn("write") /\ behind' = behind
    BY <1>1, <1>2, <2>3 DEF CopyFirst, GoOn
  <2>4. CASE pc' \in {"down", "refused", "serve", "next"}
    BY <1>1, <1>2, <2>4 DEF CopyFirst
  <2> QED
    BY <2>1, <2>2, <2>3, <2>4 DEF Plan, SkipMigration, Serve, Crash, GoOn
<1>5. PlanOwned'
  <2>1. CASE Plan
    <3>1. \A n \in plan' : Exists(Legacy(n)) /\ Owners(n, seen') # {} /\ n \in Nodes
      BY <2>1 DEF Plan, LegacyNodes
    <3>2. \A n \in Nodes : Exists(Legacy(n)) => disk[Legacy(n)] # Absent
      BY DEF Exists, Load, Absent
    <3>3. node' = Nobody /\ found' = disk /\ Nobody \notin plan'
      BY <2>1, <3>1, MigrationAssumption DEF Plan, MigrationTypeOK
    <3> QED  BY <1>1, <1>2, <3>1, <3>2, <3>3, MigrationAssumption, Zenon DEF PlanOwned, Owners
  <2>2. CASE SkipMigration \/ Serve \/ Crash
    BY <2>2, MigrationAssumption DEF PlanOwned, MigrationTypeOK, SkipMigration, Serve, Crash
  <2>3. CASE Read
    BY <1>1, <1>2, <2>3 DEF PlanOwned, MigrationTypeOK, Read
  <2>4. CASE GoOn(IF pc = "clear" THEN "write" ELSE "next")
    BY <1>1, <1>2, <2>4, MigrationAssumption DEF PlanOwned, MigrationTypeOK, GoOn
  <2>5. CASE UNCHANGED vars
    BY <1>1, <1>2, <2>5 DEF PlanOwned, vars, local
  <2> QED  BY <2>1, <2>2, <2>3, <2>4, <2>5
<1>6. HaltsOrClear'
  <2>1. CASE Plan
    <3>1. found' = disk /\ disk \in [Docs -> Content]
      BY <2>1 DEF Plan, MigrationTypeOK, Content
    <3>2. ASSUME pc' = "next", NEW n \in Nodes, disk[Legacy(n)] # Absent
          PROVE  ~ (Cardinality(Owners(n, seen')) > 1)
      <4>1. n \in LegacyNodes
        BY <3>1, <3>2, LegacyAddress, EmptyIsAbsent DEF LegacyNodes, Exists, Load
      <4> QED  BY <2>1, <3>2, <4>1 DEF Plan, Ambiguous
    <3>3. \A n \in Nodes : Owners(n, seen)' = Owners(n, seen')
      BY <1>1 DEF Owners
    <3> QED  BY <1>1, <2>1, <3>1, <3>2, <3>3 DEF Plan, HaltsOrClear
  <2>2. CASE Serve \/ Crash
    BY <2>2 DEF Serve, Crash, HaltsOrClear, Nothing, Absent, Content
  <2>3. CASE SkipMigration
    BY <2>3 DEF SkipMigration, HaltsOrClear
  <2>4. CASE /\ found' = found /\ seen' = seen
             /\ \/ pc' = pc
                \/ /\ pc \in {"next", "clear", "write", "remove"}
                   /\ pc' \in {"next", "clear", "write", "remove"}
    <3>1. \A n \in Nodes : Owners(n, seen)' = Owners(n, seen)
      BY <1>1, <2>4 DEF Owners
    <3> QED  BY <1>1, <2>4, <3>1 DEF HaltsOrClear
  <2> QED
    BY <2>1, <2>2, <2>3, <2>4 DEF Read, GoOn, vars, local
<1>7. ContentSurvives'
  BY <1>1, <1>2 DEF ContentSurvives, Found
<1> QED  BY <1>3, <1>4, <1>5, <1>6, <1>7

\* A write to the new document at d leaves every legacy document as it is.
LEMMA ScopedStep ==
    ASSUME disk \in [Docs -> Content], NEW k \in Kbs, NEW m \in Nodes,
           \A e \in Docs \ {Scoped(k, m)} : disk'[e] = disk[e]
    PROVE  /\ \A n \in Nodes : Load(Legacy(n))' = Load(Legacy(n))
                              /\ Exists(Legacy(n))' = Exists(Legacy(n))
           /\ \A j \in Kbs, n \in Nodes :
                Scoped(j, n) # Scoped(k, m)
                  => Load(Scoped(j, n))' = Load(Scoped(j, n))
                     /\ Exists(Scoped(j, n))' = Exists(Scoped(j, n))
           /\ LegacyNodes' = LegacyNodes
<1>1. \A n \in Nodes : Load(Legacy(n))' = Load(Legacy(n))
  BY Addresses, LegacyAddress DEF Load
<1>2. \A j \in Kbs, n \in Nodes :
        Scoped(j, n) # Scoped(k, m) => Load(Scoped(j, n))' = Load(Scoped(j, n))
  BY Addresses DEF Load
<1> QED  BY <1>1, <1>2 DEF Exists, LegacyNodes

\* A write to a legacy document leaves the others and every new document.
LEMMA LegacyStep ==
    ASSUME disk \in [Docs -> Content], NEW m \in Nodes,
           \A e \in Docs \ {Legacy(m)} : disk'[e] = disk[e]
    PROVE  /\ \A n \in Nodes \ {m} : Load(Legacy(n))' = Load(Legacy(n))
                                    /\ Exists(Legacy(n))' = Exists(Legacy(n))
           /\ \A j \in Kbs, n \in Nodes :
                /\ Load(Scoped(j, n))' = Load(Scoped(j, n))
                /\ Exists(Scoped(j, n))' = Exists(Scoped(j, n))
<1>1. \A n \in Nodes \ {m} : Load(Legacy(n))' = Load(Legacy(n))
  BY LegacyAddress DEF Load
<1>2. \A j \in Kbs, n \in Nodes : Load(Scoped(j, n))' = Load(Scoped(j, n))
  BY Addresses DEF Load
<1> QED  BY <1>1, <1>2 DEF Exists

\* share_doc clears the new address: the legacy document still holds everything.
LEMMA ClearStep ==
    ASSUME MigrationInv, Clear PROVE MigrationInv'
<1> USE DEF MigrationInv
<1>1. CASE UNCHANGED disk
  BY <1>1, QuietStep DEF Clear
<1>2. CASE Deleted(Destination) \/ Halved(Destination)
  <2>1. pc = "clear" /\ GoOn("write") /\ behind' = behind
    BY DEF Clear
  <2>2. PICK m \in Nodes : m = node
    BY <2>1 DEF MigrationTypeOK
  <2>3. PICK k \in Kbs : Destination = Scoped(k, m)
    BY <2>2, DestinationOwned
  <2>4. disk \in [Docs -> Content] /\ Scoped(k, m) \in Docs
    BY Addresses DEF MigrationTypeOK, Content
  <2>5. \/ disk' = [disk EXCEPT ![Scoped(k, m)] = Absent]
        \/ disk' = [disk EXCEPT ![Scoped(k, m)].snap = {}]
    BY <1>2, <2>3 DEF Deleted, Halved
  <2>6. /\ disk' \in [Docs -> Content]
        /\ \A e \in Docs \ {Scoped(k, m)} : disk'[e] = disk[e]
    BY <2>4, <2>5, DiskStep
  <2>7. Load(Scoped(k, m))' \subseteq Load(Scoped(k, m))
    BY <2>4, <2>5, LoadStep
  <2>8. /\ pc' = "write" /\ node' = node /\ copy' = copy
        /\ lists' = lists /\ plan' = plan /\ seen' = seen /\ held' = held
        /\ found' = found /\ crashes' = crashes /\ edits' = edits
    BY <2>1 DEF GoOn
  <2>9. /\ \A n \in Nodes : Load(Legacy(n))' = Load(Legacy(n))
                           /\ Exists(Legacy(n))' = Exists(Legacy(n))
        /\ \A j \in Kbs, n \in Nodes :
             Scoped(j, n) # Scoped(k, m)
               => Load(Scoped(j, n))' = Load(Scoped(j, n))
                  /\ Exists(Scoped(j, n))' = Exists(Scoped(j, n))
    BY <2>4, <2>6, ScopedStep
  <2>10. MigrationTypeOK'
    BY <2>1, <2>6, <2>8 DEF MigrationTypeOK, Content
  <2>11. CopyFirst'
    BY <2>1, <2>2, <2>8, <2>9 DEF CopyFirst
  <2>12. PlanOwned' /\ HaltsOrClear'
    BY <2>1, <2>8, <2>9 DEF PlanOwned, HaltsOrClear, Owners, MigrationTypeOK
  <2>13. ContentSurvives'
    <3>1. SUFFICES ASSUME NEW n \in Nodes \ behind PROVE held[n] \subseteq Found(n)'
      BY <2>1, <2>8 DEF ContentSurvives
    <3>2. CASE n = m
      <4>1. held[m] \subseteq Load(Legacy(m))
        BY <2>1, <2>2, <3>2 DEF CopyFirst, Exists
      <4> QED  BY <2>9, <3>2, <4>1 DEF Found
    <3>3. CASE n # m
      <4>1. \A j \in Kbs : Load(Scoped(j, n))' = Load(Scoped(j, n))
        BY <2>9, <3>3, Addresses
      <4> QED  BY <2>9, <4>1 DEF Found, ContentSurvives
    <3> QED  BY <3>2, <3>3
  <2> QED  BY <2>10, <2>11, <2>12, <2>13
<1> QED  BY <1>1, <1>2 DEF Clear

\* The copy is appended.
LEMMA WriteStep ==
    ASSUME MigrationInv, Write PROVE MigrationInv'
<1> USE DEF MigrationInv
<1>1. CASE disk' = disk /\ GoOn("next")
  BY <1>1, QuietStep DEF Write
<1>2. CASE Written /\ (GoOn("remove") \/ GoOn("next"))
  <2>1. pc = "write" /\ behind' = behind
    BY DEF Write
  <2>2. PICK m \in Nodes : m = node
    BY <2>1 DEF MigrationTypeOK
  <2>3. PICK k \in Kbs : Destination = Scoped(k, m)
    BY <2>2, DestinationOwned
  <2>4. PICK c \in SUBSET Updates : c = copy
    BY DEF MigrationTypeOK
  <2>5. /\ disk \in [Docs -> Content] /\ Scoped(k, m) \in Docs
        /\ disk' = [disk EXCEPT ![Scoped(k, m)].wal = @ \cup c]
    BY <1>2, <2>3, <2>4, Addresses DEF MigrationTypeOK, Content, Written
  <2>6. /\ disk' \in [Docs -> Content]
        /\ \A e \in Docs \ {Scoped(k, m)} : disk'[e] = disk[e]
    BY Zenon, <2>5, DiskStep
  <2>7. Load(Scoped(k, m))' = Load(Scoped(k, m)) \cup c
    BY Zenon, <2>5, LoadStep
  <2>8. /\ lists' = lists /\ plan' = plan /\ seen' = seen /\ held' = held
        /\ found' = found /\ crashes' = crashes /\ edits' = edits
        /\ \/ pc' = "remove" /\ node' = node /\ copy' = copy
           \/ pc' = "next" /\ node' = Nobody /\ copy' = {}
    BY <1>2 DEF GoOn
  <2>9. /\ \A n \in Nodes : Load(Legacy(n))' = Load(Legacy(n))
                           /\ Exists(Legacy(n))' = Exists(Legacy(n))
        /\ \A j \in Kbs, n \in Nodes :
             Scoped(j, n) # Scoped(k, m)
               => Load(Scoped(j, n))' = Load(Scoped(j, n))
                  /\ Exists(Scoped(j, n))' = Exists(Scoped(j, n))
    BY <2>5, <2>6, ScopedStep
  <2>10. MigrationTypeOK'
    BY <2>1, <2>6, <2>8, MigrationAssumption DEF MigrationTypeOK, Content
  <2>11. CopyFirst'
    <3>1. pc' = "remove" => Destination' = Scoped(k, m)
      BY <2>3, <2>8 DEF Destination
    <3> QED  BY <2>1, <2>2, <2>4, <2>7, <2>8, <2>9, <3>1 DEF CopyFirst
  <2>12. PlanOwned' /\ HaltsOrClear'
    BY <2>1, <2>8, <2>9, MigrationAssumption
    DEF PlanOwned, HaltsOrClear, Owners, MigrationTypeOK
  <2>13. ContentSurvives'
    <3>1. \A j \in Kbs, n \in Nodes : Load(Scoped(j, n)) \subseteq Load(Scoped(j, n))'
      BY <2>7, <2>9, Addresses
    <3> QED  BY <2>1, <2>8, <2>9, <3>1 DEF ContentSurvives, Found
  <2> QED  BY <2>10, <2>11, <2>12, <2>13
<1> QED  BY <1>1, <1>2 DEF Write

\* The legacy document goes once the copy is there.
LEMMA RemoveStep ==
    ASSUME MigrationInv, Remove PROVE MigrationInv'
<1> USE DEF MigrationInv
<1>1. CASE UNCHANGED <<disk, behind>>
  BY <1>1, QuietStep DEF Remove
<1>2. CASE \/ Deleted(Legacy(node)) /\ UNCHANGED behind
           \/ Halved(Legacy(node)) /\ behind' = behind \cup {node}
  <2>1. pc = "remove" /\ GoOn("next")
    BY DEF Remove
  <2>2. PICK m \in Nodes : m = node
    BY <2>1 DEF MigrationTypeOK
  <2>3. PICK k \in Kbs : Destination = Scoped(k, m)
    BY <2>2, DestinationOwned
  <2>4. disk \in [Docs -> Content] /\ Legacy(m) \in Docs
    BY LegacyAddress DEF MigrationTypeOK, Content
  <2>5. \/ disk' = [disk EXCEPT ![Legacy(m)] = Absent] /\ behind' = behind
        \/ disk' = [disk EXCEPT ![Legacy(m)].snap = {}] /\ behind' = behind \cup {m}
    BY <1>2, <2>2 DEF Deleted, Halved
  <2>6. /\ disk' \in [Docs -> Content]
        /\ \A e \in Docs \ {Legacy(m)} : disk'[e] = disk[e]
    BY <2>4, <2>5, DiskStep
  <2>7. m \notin behind' => Load(Legacy(m))' = {}
    BY <2>4, <2>5, LoadStep
  <2>8. /\ pc' = "next" /\ node' = Nobody /\ copy' = {}
        /\ lists' = lists /\ plan' = plan /\ seen' = seen /\ held' = held
        /\ found' = found /\ crashes' = crashes /\ edits' = edits
    BY <2>1 DEF GoOn
  <2>9. /\ \A n \in Nodes \ {m} : Load(Legacy(n))' = Load(Legacy(n))
                                 /\ Exists(Legacy(n))' = Exists(Legacy(n))
        /\ \A j \in Kbs, n \in Nodes :
             /\ Load(Scoped(j, n))' = Load(Scoped(j, n))
             /\ Exists(Scoped(j, n))' = Exists(Scoped(j, n))
    BY <2>4, <2>6, LegacyStep
  <2>10. MigrationTypeOK'
    BY <2>1, <2>5, <2>6, <2>8, MigrationAssumption DEF MigrationTypeOK, Content
  <2>11. CopyFirst'
    BY <2>5, <2>7, <2>8, <2>9 DEF CopyFirst, Exists
  <2>12. PlanOwned'
    BY <2>2, <2>8, <2>9, MigrationAssumption DEF PlanOwned, Owners, MigrationTypeOK
  <2>13. HaltsOrClear'
    BY <2>1, <2>8 DEF HaltsOrClear, Owners
  <2>14. ContentSurvives'
    <3>1. SUFFICES ASSUME NEW n \in Nodes \ behind' PROVE held[n] \subseteq Found(n)'
      BY <2>8 DEF ContentSurvives
    <3>2. CASE n = m
      <4>1. n \notin behind
        BY <2>5, <3>1
      <4>2. held[m] \subseteq Load(Scoped(k, m))
        BY <2>1, <2>2, <2>3, <3>2, <4>1 DEF CopyFirst, Exists
      <4> QED  BY <2>9, <3>2, <4>2 DEF Found
    <3>3. CASE n # m
      BY <2>5, <2>9, <3>1, <3>3 DEF Found, ContentSurvives
    <3> QED  BY <3>2, <3>3
  <2> QED  BY <2>10, <2>11, <2>12, <2>13, <2>14
<1> QED  BY <1>1, <1>2 DEF Remove

\* Serving: an edit of a node whose legacy document is still there puts the node
\* among those left behind.
LEMMA EditStep ==
    ASSUME MigrationInv, Edit PROVE MigrationInv'
<1> USE DEF MigrationInv
<1>1. PICK k \in Kbs, m \in Nodes, u \in Updates :
        /\ disk' = [disk EXCEPT ![Scoped(k, m)].wal = @ \cup {u}]
        /\ held' = [held EXCEPT ![m] = @ \cup {u}]
        /\ behind' = behind \cup ({m} \cap LegacyNodes)
  BY Zenon DEF Edit
<1>2. /\ pc = "serve" /\ edits < MaxEdits /\ edits' = edits + 1
      /\ lists' = lists /\ pc' = pc /\ plan' = plan /\ node' = node /\ copy' = copy
      /\ seen' = seen /\ found' = found /\ crashes' = crashes
  BY DEF Edit, local
<1>3. m \in Nodes /\ disk \in [Docs -> Content] /\ Scoped(k, m) \in Docs
  BY Addresses DEF MigrationTypeOK, Content
<1> PICK c \in SUBSET Updates : c = {u}
  BY Zenon
<1>a. disk' = [disk EXCEPT ![Scoped(k, m)].wal = @ \cup c]
  BY <1>1
<1>4. /\ disk' \in [Docs -> Content]
      /\ \A e \in Docs \ {Scoped(k, m)} : disk'[e] = disk[e]
  BY Zenon, <1>3, <1>a, DiskStep
<1>5. Load(Scoped(k, m))' = Load(Scoped(k, m)) \cup {u}
  BY Zenon, <1>3, <1>a, LoadStep
<1>6. /\ \A n \in Nodes : Load(Legacy(n))' = Load(Legacy(n))
                         /\ Exists(Legacy(n))' = Exists(Legacy(n))
      /\ \A j \in Kbs, n \in Nodes :
           Scoped(j, n) # Scoped(k, m)
             => Load(Scoped(j, n))' = Load(Scoped(j, n))
                /\ Exists(Scoped(j, n))' = Exists(Scoped(j, n))
  BY <1>3, <1>4, ScopedStep
<1>7. MigrationTypeOK'
  <2>1. held' \in [Nodes -> SUBSET Updates] /\ behind' \subseteq Nodes
    BY <1>1, <1>3 DEF MigrationTypeOK
  <2>2. edits' \in 0 .. MaxEdits
    BY <1>2, MigrationAssumption DEF MigrationTypeOK
  <2> QED  BY <1>2, <1>4, <2>1, <2>2 DEF MigrationTypeOK, Content
<1>8. CopyFirst'
  <2>1. ASSUME NEW n \in Nodes \ behind', Exists(Legacy(n))'
        PROVE  held'[n] \subseteq Load(Legacy(n))'
    <3>1. n # m
      BY <1>1, <1>6, <2>1 DEF LegacyNodes
    <3> QED  BY <1>1, <1>6, <2>1, <3>1 DEF CopyFirst, MigrationTypeOK
  <2> QED  BY <1>2, <2>1 DEF CopyFirst
<1>9. PlanOwned' /\ HaltsOrClear'
  BY <1>2 DEF PlanOwned, HaltsOrClear, MigrationTypeOK
<1>10. ContentSurvives'
  <2>1. SUFFICES ASSUME NEW n \in Nodes \ behind' PROVE held'[n] \subseteq Found(n)'
    BY DEF ContentSurvives
  <2>2. \A j \in Kbs, i \in Nodes : Load(Scoped(j, i)) \subseteq Load(Scoped(j, i))'
    BY <1>5, <1>6
  <2>3. held[n] \subseteq Found(n)'
    BY <1>1, <1>6, <2>1, <2>2 DEF ContentSurvives, Found
  <2>4. held'[n] \subseteq held[n] \cup (IF n = m THEN {u} ELSE {})
    BY <1>1, <1>3 DEF MigrationTypeOK
  <2>5. u \in Found(m)'
    BY <1>5 DEF Found
  <2> QED  BY <2>3, <2>4, <2>5
<1> QED  BY <1>7, <1>8, <1>9, <1>10

\* The manifests change only while the daemon serves, between two plans.
LEMMA EditManifestStep ==
    ASSUME MigrationInv, EditManifest PROVE MigrationInv'
<1> USE DEF MigrationInv
<1>1. /\ pc = "serve" /\ edits < MaxEdits /\ edits' = edits + 1
      /\ UNCHANGED <<disk, pc, plan, node, copy, seen, held, found, behind, crashes>>
  BY DEF EditManifest, local
<1>2. PICK k \in Kbs, n \in Nodes :
        lists' = [lists EXCEPT ![k] = IF n \in @ THEN @ \ {n} ELSE @ \cup {n}]
  BY Zenon DEF EditManifest
<1>3. MigrationTypeOK'
  <2>1. lists' \in [Kbs -> SUBSET Nodes]
    BY <1>2 DEF MigrationTypeOK
  <2>2. edits' \in 0 .. MaxEdits
    BY <1>1, MigrationAssumption DEF MigrationTypeOK
  <2> QED  BY <1>1, <2>1, <2>2 DEF MigrationTypeOK
<1>4. \A d : Load(d)' = Load(d) /\ Exists(d)' = Exists(d)
  BY <1>1 DEF Load, Exists
<1>5. plan = {} /\ node \notin Nodes
  BY <1>1 DEF MigrationTypeOK
<1>6. CopyFirst' /\ HaltsOrClear'
  BY <1>1, <1>4 DEF CopyFirst, HaltsOrClear
<1>7. PlanOwned'
  BY <1>1, <1>5 DEF PlanOwned
<1>8. ContentSurvives'
  BY <1>1, <1>4 DEF ContentSurvives, Found
<1> QED  BY <1>3, <1>6, <1>7, <1>8

LEMMA EvictIdleStep ==
    ASSUME MigrationInv, EvictIdle PROVE MigrationInv'
<1> USE DEF MigrationInv
<1>1. PICK m \in LegacyNodes :
        disk' = [disk EXCEPT ![Legacy(m)] = Absent] /\ behind' = behind \cup {m}
  BY Zenon DEF EvictIdle, Deleted
<1>2. /\ pc = "serve" /\ held' = held /\ edits' = edits
      /\ lists' = lists /\ pc' = pc /\ plan' = plan /\ node' = node /\ copy' = copy
      /\ seen' = seen /\ found' = found /\ crashes' = crashes
  BY DEF EvictIdle, local
<1>3. m \in Nodes /\ disk \in [Docs -> Content] /\ Legacy(m) \in Docs
  BY LegacyAddress DEF MigrationTypeOK, Content, LegacyNodes
<1>4. /\ disk' \in [Docs -> Content]
      /\ \A e \in Docs \ {Legacy(m)} : disk'[e] = disk[e]
  BY Zenon, <1>1, <1>3, DiskStep
<1>5. /\ \A n \in Nodes \ {m} : Load(Legacy(n))' = Load(Legacy(n))
                               /\ Exists(Legacy(n))' = Exists(Legacy(n))
      /\ \A j \in Kbs, n \in Nodes :
           /\ Load(Scoped(j, n))' = Load(Scoped(j, n))
           /\ Exists(Scoped(j, n))' = Exists(Scoped(j, n))
  BY <1>3, <1>4, LegacyStep
<1>6. MigrationTypeOK'
  BY <1>1, <1>2, <1>3, <1>4 DEF MigrationTypeOK, Content
<1>7. CopyFirst' /\ PlanOwned' /\ HaltsOrClear'
  BY <1>1, <1>2, <1>5 DEF CopyFirst, PlanOwned, HaltsOrClear, MigrationTypeOK
<1>8. ContentSurvives'
  BY <1>1, <1>2, <1>5 DEF ContentSurvives, Found
<1> QED  BY <1>6, <1>7, <1>8

--------------------------------------------------------------------------------
LEMMA NextInv == MigrationInv /\ [Next]_vars => MigrationInv'
<1> SUFFICES ASSUME MigrationInv, [Next]_vars PROVE MigrationInv'
  OBVIOUS
<1>1. CASE Plan \/ SkipMigration \/ Read \/ Serve \/ Crash \/ UNCHANGED vars
  BY <1>1, QuietStep
<1> QED
  BY <1>1, ClearStep, WriteStep, RemoveStep, EditStep, EditManifestStep, EvictIdleStep DEF Next

\* The inductive invariant the theorems below rest on.
THEOREM MigrationInvariant == Spec => []MigrationInv
  BY InitInv, NextInv, PTL DEF Spec

\* Every reachable state of the migration is well typed: what a start holds in its
\* locals, and what the store holds.
THEOREM MigrationTypeCorrect == Spec => []MigrationTypeOK
<1>1. MigrationInv => MigrationTypeOK
  BY DEF MigrationInv
<1> QED  BY <1>1, MigrationInvariant, PTL

\* Whatever fails and wherever the daemon is killed, a legacy document's content and
\* the edits served since are in the store, unless the document was left behind.
THEOREM MigrationKeepsContent == Spec => []ContentSurvives
<1>1. MigrationInv => ContentSurvives
  BY DEF MigrationInv
<1> QED  BY <1>1, MigrationInvariant, PTL

\* A start that read every manifest and found a node listed twice writes nothing.
THEOREM MigrationRefuses == Spec => []AmbiguousTouchesNothing
<1>1. MigrationInv => AmbiguousTouchesNothing
  BY DEF MigrationInv, MigrationTypeOK, HaltsOrClear, AmbiguousTouchesNothing
<1> QED  BY <1>1, MigrationInvariant, PTL

\* A start leaves the new documents alone, but for the one it is copying to.
LEMMA ScopedWrites ==
    ASSUME MigrationInv, [Next]_vars, pc # "serve", NEW k \in Kbs, NEW n \in Nodes,
           disk'[Scoped(k, n)] # disk[Scoped(k, n)]
    PROVE  /\ Owners(n, seen) = {k}
           /\ Load(Scoped(k, n))' \subseteq Load(Scoped(k, n)) \cup Load(Legacy(n))
<1> USE DEF MigrationInv
<1>1. disk \in [Docs -> Content] /\ Scoped(k, n) \in Docs
  BY Addresses DEF MigrationTypeOK, Content
<1>2. Clear \/ Write \/ Remove
  BY DEF Next, Plan, SkipMigration, Read, Serve, Edit, EditManifest, EvictIdle, Crash, vars
<1>3. PICK m \in Nodes : m = node
  BY <1>2 DEF Clear, Write, Remove, MigrationTypeOK
<1>4. PICK j \in Kbs : Destination = Scoped(j, m) /\ Owners(m, seen) = {j}
  BY <1>3, DestinationOwned
<1>5. Scoped(j, m) \in Docs /\ Legacy(m) \in Docs /\ Legacy(m) # Scoped(k, n)
  BY Addresses, LegacyAddress
<1>6. CASE Remove
  <2>1. \/ disk' = [disk EXCEPT ![Legacy(m)] = Absent]
        \/ disk' = [disk EXCEPT ![Legacy(m)].snap = {}]
        \/ disk' = disk
    BY <1>3, <1>6 DEF Remove, Deleted, Halved
  <2>2. disk'[Scoped(k, n)] = disk[Scoped(k, n)]
    BY <1>1, <1>5, <2>1, DiskStep
  <2> QED  BY <2>2
<1>7. CASE Clear \/ Write
  <2>1. PICK c \in SUBSET Updates : c = copy
    BY DEF MigrationTypeOK
  <2>2. copy = Load(Legacy(m))
    BY <1>3, <1>7 DEF Clear, Write, CopyFirst
  <2>3. \/ disk' = [disk EXCEPT ![Scoped(j, m)] = Absent]
        \/ disk' = [disk EXCEPT ![Scoped(j, m)].snap = {}]
        \/ disk' = [disk EXCEPT ![Scoped(j, m)].wal = @ \cup c]
    BY <1>4, <1>7, <2>1 DEF Clear, Write, Deleted, Halved, Written
  <2>4. Scoped(j, m) = Scoped(k, n)
    BY <1>1, <1>5, <2>3, DiskStep
  <2>5. j = k /\ m = n
    BY <2>4, Addresses
  <2>6. Load(Scoped(j, m))' \subseteq Load(Scoped(j, m)) \cup c
    BY <1>1, <1>5, <2>3, LoadStep
  <2> QED  BY <1>4, <2>1, <2>2, <2>5, <2>6
<1> QED  BY <1>2, <1>6, <1>7

\* Through any number of starts, kills, failing calls and changed manifests, a
\* node's legacy content goes to a KB only if that KB alone lists the node among
\* the manifests that could be read.
THEOREM MigrationScopes == Spec => GoesToItsKb
<1>1. MigrationInv /\ [Next]_vars =>
        [\A k \in Kbs, n \in Nodes :
           pc # "serve" /\ disk'[Scoped(k, n)] # disk[Scoped(k, n)] =>
             /\ Owners(n, seen) = {k}
             /\ Load(Scoped(k, n))' \subseteq Load(Scoped(k, n)) \cup Load(Legacy(n))]_vars
  BY ScopedWrites
<1> QED  BY <1>1, MigrationInvariant, PTL DEF Spec, GoesToItsKb

================================================================================
