---------------------------- MODULE LegacyMigration ----------------------------
(***************************************************************************)
(* The starts of the daemon on a store from before per-KB addresses        *)
(* (daemon/src/kb_doc_migration.rs): every legacy document kb:{node} whose *)
(* node one manifest lists is copied to kbn:{kb}:{node} and removed before *)
(* the daemon serves.  Storage calls fail, and the process is killed and   *)
(* started again at any point; a deletion is two statements, either of     *)
(* which can be the last.  While the daemon serves, the new documents and  *)
(* the manifests are edited, and a legacy document that is still there is  *)
(* evicted as idle, which deletes it: its address does not parse as a KB   *)
(* document's.                                                             *)
(***************************************************************************)
EXTENDS Naturals, FiniteSets

CONSTANTS
    Kbs,        \* KBs, each with a stored manifest
    Nodes,      \* node ids
    Updates,    \* CRDT updates; a document is the set of those merged into it
    Nobody,     \* no node
    MaxCrashes, \* bound: crashes
    MaxEdits    \* bound: edits of documents and manifests

ASSUME MigrationAssumption ==
    IsFiniteSet(Kbs) /\ Nobody \notin Nodes /\ {MaxCrashes, MaxEdits} \subseteq Nat

VARIABLES
    disk,       \* the snapshot and the WAL of each document
    lists,      \* what the manifests list
    pc,         \* where the start is; "down", "refused" and "serve" when it is not on
    plan,       \* legacy documents still to migrate
    node, copy, \* the one at hand, and its state as read
    seen,       \* the manifests that could be read
    held,       \* history: per node, its first content and the edits served
    found,      \* history: disk when the start began, while it is on
    behind,     \* history: nodes whose legacy document was deleted by half,
                \* or was left behind and then evicted or edited elsewhere
    crashes, edits

local == <<pc, plan, node, copy, seen>>
vars == <<disk, lists, local, held, found, behind, crashes, edits>>

Legacy(n) == <<"kb", n>>
Scoped(k, n) == <<"kbn", k, n>>
Docs == {Legacy(n) : n \in Nodes} \cup {Scoped(k, n) : k \in Kbs, n \in Nodes}

Absent == [snap |-> {}, wal |-> {}]
Nothing == [d \in Docs |-> Absent]
Load(d) == disk[d].snap \cup disk[d].wal
Exists(d) == Load(d) # {}
LegacyNodes == {n \in Nodes : Exists(Legacy(n))}

\* The KBs among ks whose manifest lists n.
Owners(n, ks) == {k \in ks : n \in lists[k]}

MigrationTypeOK ==
    /\ disk \in [Docs -> [snap : SUBSET Updates, wal : SUBSET Updates]]
    /\ lists \in [Kbs -> SUBSET Nodes]
    /\ pc \in {"down", "refused", "serve", "next", "clear", "write", "remove"}
    /\ plan \subseteq Nodes
    /\ node \in Nodes \cup {Nobody} /\ copy \subseteq Updates
    /\ seen \subseteq Kbs
    /\ pc \in {"clear", "write", "remove"} <=> node \in Nodes
    /\ pc \in {"next", "clear", "write", "remove"} \/ plan = {}
    /\ behind \subseteq Nodes
    /\ held \in [Nodes -> SUBSET Updates]
    /\ crashes \in 0 .. MaxCrashes /\ edits \in 0 .. MaxEdits

\* Any store the release before could leave: some legacy documents, compacted or
\* not, and any manifests.
Init ==
    /\ lists \in [Kbs -> SUBSET Nodes]
    /\ \E first \in [Nodes -> {c \in [snap : SUBSET Updates, wal : SUBSET Updates] :
                                c.snap \cap c.wal = {}}] :
         disk = [d \in Docs |-> IF d[1] = "kb" THEN first[d[2]] ELSE Absent]
    /\ pc = "down" /\ plan = {} /\ node = Nobody /\ copy = {} /\ seen = {}
    /\ held = [n \in Nodes |-> Load(Legacy(n))]
    /\ found = Nothing /\ behind = {} /\ crashes = 0 /\ edits = 0

--------------------------------------------------------------------------------
\* Mutant: a node that several manifests list goes to any one of them.
AmbiguousNever(ks) == {}

\* Nodes with a legacy document that several of the manifests ks list.
Ambiguous(ks) == {n \in LegacyNodes : Cardinality(Owners(n, ks)) > 1}

\* migrate_legacy_node_docs up to its first write.  A manifest that cannot be read
\* is passed over; with an ambiguous node the daemon refuses to start.
Plan ==
    /\ pc = "down"
    /\ found' = disk
    /\ \E ks \in SUBSET Kbs :
         /\ seen' = ks
         /\ IF Ambiguous(ks) # {} THEN pc' = "refused" /\ plan' = {}
            ELSE /\ pc' = "next"
                 /\ plan' = {n \in LegacyNodes : Owners(n, ks) # {}}
    /\ UNCHANGED <<disk, lists, node, copy, held, behind, crashes, edits>>

\* The documents cannot be listed: the migration is skipped.
SkipMigration ==
    /\ pc = "down" /\ pc' = "serve"
    /\ UNCHANGED <<disk, lists, plan, node, copy, seen, held, found, behind,
                   crashes, edits>>

\* Mutant: the KB is any one whose manifest was read.
DestinationAny == Scoped(CHOOSE k \in seen : TRUE, node)

\* kb_node_doc_name of the one KB that lists the node.
Destination == Scoped(CHOOSE k \in seen : node \in lists[k], node)

GoOn(next) ==
    /\ pc' = next
    /\ node' = IF next = "next" THEN Nobody ELSE node
    /\ copy' = IF next = "next" THEN {} ELSE copy
    /\ UNCHANGED <<lists, plan, seen, held, found, crashes, edits>>

\* encode_state_and_sv_authorized: a document that cannot be read stays.
Read ==
    /\ pc = "next"
    /\ \E n \in plan :
         /\ plan' = plan \ {n}
         /\ \/ node' = n /\ copy' = Load(Legacy(n)) /\ pc' = "clear"
            \/ UNCHANGED <<node, copy, pc>>
    /\ UNCHANGED <<disk, lists, seen, held, found, behind, crashes, edits>>

Deleted(d) == disk' = [disk EXCEPT ![d] = Absent]
Halved(d) == disk' = [disk EXCEPT ![d].snap = {}]

\* share_doc: a failure to delete what was at the new address is passed over, be it
\* of the first or of the second statement of delete_document.
Clear ==
    /\ pc = "clear"
    /\ Deleted(Destination) \/ Halved(Destination) \/ UNCHANGED disk
    /\ GoOn("write")
    /\ UNCHANGED behind

Written == disk' = [disk EXCEPT ![Destination].wal = @ \cup copy]

\* Mutant: a document that could not be written is removed all the same.
WriteOrNot ==
    /\ pc = "write"
    /\ Written \/ UNCHANGED disk
    /\ GoOn("remove")
    /\ UNCHANGED behind

\* The append fails, or what follows it does: the legacy document stays.
Write ==
    /\ pc = "write"
    /\ \/ Written /\ GoOn("remove")
       \/ Written /\ GoOn("next")
       \/ UNCHANGED disk /\ GoOn("next")
    /\ UNCHANGED behind

\* delete_doc: done, stopped half-way, or failed.
Remove ==
    /\ pc = "remove"
    /\ \/ Deleted(Legacy(node)) /\ UNCHANGED behind
       \/ Halved(Legacy(node)) /\ behind' = behind \cup {node}
       \/ UNCHANGED <<disk, behind>>
    /\ GoOn("next")

\* Mutant: the daemon serves while documents are still to migrate.
ServeEarly ==
    /\ pc = "next"
    /\ pc' = "serve" /\ seen' = {} /\ found' = Nothing
    /\ UNCHANGED <<disk, lists, plan, node, copy, held, behind, crashes, edits>>

\* prepare_doc_store's recovery only loads.
Serve ==
    /\ pc = "next" /\ plan = {}
    /\ pc' = "serve" /\ seen' = {} /\ found' = Nothing
    /\ UNCHANGED <<disk, lists, plan, node, copy, held, behind, crashes, edits>>

\* A member's update of a node in its KB; the KB's manifest need not list the node.
Edit ==
    /\ pc = "serve"
    /\ edits < MaxEdits /\ edits' = edits + 1
    /\ \E k \in Kbs, n \in Nodes, u \in Updates :
         /\ disk' = [disk EXCEPT ![Scoped(k, n)].wal = @ \cup {u}]
         /\ held' = [held EXCEPT ![n] = @ \cup {u}]
         /\ behind' = behind \cup ({n} \cap LegacyNodes)
    /\ UNCHANGED <<lists, local, found, crashes>>

\* A member adds a node to its KB's manifest or takes one off.
EditManifest ==
    /\ pc = "serve"
    /\ edits < MaxEdits /\ edits' = edits + 1
    /\ \E k \in Kbs, n \in Nodes :
         lists' = [lists EXCEPT ![k] = IF n \in @ THEN @ \ {n} ELSE @ \cup {n}]
    /\ UNCHANGED <<disk, local, held, found, behind, crashes>>

\* evict_idle of a document that prepare_doc_store loaded and nobody opened.
EvictIdle ==
    /\ pc = "serve"
    /\ \E n \in LegacyNodes : Deleted(Legacy(n)) /\ behind' = behind \cup {n}
    /\ UNCHANGED <<lists, local, held, found, crashes, edits>>

--------------------------------------------------------------------------------
\* The process dies or is stopped, and starts again.
Crash ==
    /\ pc # "down"
    /\ crashes < MaxCrashes /\ crashes' = crashes + 1
    /\ pc' = "down" /\ plan' = {} /\ node' = Nobody /\ copy' = {} /\ seen' = {}
    /\ found' = Nothing
    /\ UNCHANGED <<disk, lists, held, behind, edits>>

Next ==
    \/ Plan \/ SkipMigration \/ Read \/ Clear \/ Write \/ Remove \/ Serve
    \/ Edit \/ EditManifest \/ EvictIdle \/ Crash

Spec == Init /\ [][Next]_vars

--------------------------------------------------------------------------------
Found(n) == Load(Legacy(n)) \cup UNION {Load(Scoped(k, n)) : k \in Kbs}

\* "Only after the scoped copy is durable": whatever fails and wherever the daemon
\* is killed, everything a legacy document held, and every edit served since, stays
\* in the store, at the old or at a new address.  The exceptions are legacy
\* documents deleted by half or left behind by a failed call: the next start
\* copies them over the new document, edits included, unless eviction deletes them
\* first.
ContentSurvives == \A n \in Nodes \ behind : held[n] \subseteq Found(n)

\* A daemon that found a node listed by several manifests has changed nothing,
\* provided it could read the manifests.
AmbiguousTouchesNothing ==
    /\ pc \notin {"down", "serve"} /\ seen = Kbs
    /\ \E n \in Nodes : found[Legacy(n)] # Absent /\ Cardinality(Owners(n, Kbs)) > 1
    => disk = found

\* "Guessing would hand one tenant's data to the other": over any number of starts,
\* with kills, failing calls and changed manifests between them, a start changes a
\* KB's document only for a node that this KB alone lists among the manifests it
\* read, and adds to it nothing but what that node's legacy document holds.
GoesToItsKb ==
    [][\A k \in Kbs, n \in Nodes :
         pc # "serve" /\ disk'[Scoped(k, n)] # disk[Scoped(k, n)] =>
           /\ Owners(n, seen) = {k}
           /\ Load(Scoped(k, n))' \subseteq Load(Scoped(k, n)) \cup Load(Legacy(n))]_vars

================================================================================
