----------------------------- MODULE MCCollabDaemon -----------------------------
(***************************************************************************)
(* CollabDaemon for TLC.  Sessions are interchangeable, and so are updates *)
(* (Updates holds no order, an entry's id does): states that differ by a   *)
(* permutation of them need visiting once where only invariants and action *)
(* properties are checked.                                                 *)
(***************************************************************************)
EXTENDS CollabDaemon, TLC

Symmetry == Permutations(Sessions) \cup Permutations(Updates)

\* What a dropped entry held last is never read again: GetOrCreate writes a new
\* entry to an address before it hands it out.
View ==
    <<storageVars, docs, task, historyVars, sessDocs, sent, crashes,
      [d \in Docs |-> [g \in Gens |->
         IF Free(d, g) THEN NewEntry({}, 0) ELSE heap[d][g]]]>>

\* Documents meet only where the map is full: it is enough to look at behaviours
\* in which one document is used, and an ephemeral one by a single session, since
\* it differs from a KB document in what deletes it.
Untouched(d) ==
    /\ d \notin Loaded /\ ~ Exists(d) /\ wrote[d] = {}
    /\ \A s \in Sessions : d \notin sessDocs[s] /\ task[s].doc # d

Active(s) == sessDocs[s] # {} \/ ~ At(s, "idle")

OneDocument ==
    \/ \A d \in Docs \ Durable : Untouched(d)
    \/ /\ \A d \in Durable : Untouched(d)
       /\ Cardinality({s \in Sessions : Active(s)}) <= 1

================================================================================
